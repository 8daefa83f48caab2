------------------------------- MODULE Fixtures -------------------------------
(***************************************************************************)
(* One case of a fixture suite, from its YAML document to its verdict:     *)
(* fixtureJSONValue, validate, check and fixtureEqual of                   *)
(* internal/mapping/fixtures.go, and the Run of internal/mapping/runner.go *)
(* between them.                                                           *)
(*                                                                         *)
(* A document is a sequence of nodes, the first of which is its root; the  *)
(* kids of a node are places of nodes and an alias is of one.  A value is  *)
(* null, a number or a string with its text, or a container with its       *)
(* items by their index or their key.  What the runtime makes of a mapping *)
(* is external.                                                            *)
(***************************************************************************)
EXTENDS Naturals, Sequences, FiniteSets

CONSTANTS
  Documents,   \* expected outputs
  Expects,     \* the rest of an expectation: error, deleted
  Outcomes,    \* what the runtime makes of a mapping
  NumberOf,    \* the value of the text of a number
  Reads,       \* what the text of a number says that JSON cannot
  MaxValues    \* expanded values of a document

VARIABLES
  document, expect, outcome,
  stage,
  expected,  \* the value of the document
  result     \* what Run returned

vars == <<document, expect, outcome, stage, expected, result>>

Null == [kind |-> "null"]
Number(text) == [kind |-> "number", text |-> text]
String(text) == [kind |-> "string", text |-> text]
Index == <<"0", "1", "2">>
Container(kind, items) == [kind |-> kind, items |-> items]

-----------------------------------------------------------------------------
(* Decoding *)

\* The value of a scalar: numbers keep their text where JSON has it.
Supported == {"!!str", "!!null", "!!bool", "!!int", "!!float", "!!timestamp"}
Scalar(n) ==
  CASE n.tag = "!!null" -> Null
    [] n.tag \in {"!!int", "!!float"} ->
         Number(IF n.text \in DOMAIN Reads THEN Reads[n.text] ELSE n.text)
    [] OTHER -> String(n.text)

Error(left) == [ok |-> FALSE, left |-> left, value |-> Null]

\* fixtureJSONValue: nodes being visited are an alias cycle, and every visit
\* counts, of an alias and of what it stands for.
RECURSIVE Value(_, _, _), Items(_, _, _, _, _)
Value(i, visiting, left) ==
  LET n == document[i]
  IN  CASE left = 0 \/ i \in visiting -> Error(left)
        [] left > 0 /\ i \notin visiting /\ n.kind = "alias" ->
             Value(n.of, visiting \cup {i}, left - 1)
        [] left > 0 /\ i \notin visiting /\ n.kind = "scalar" ->
             [ok |-> n.tag \in Supported, left |-> left - 1, value |-> Scalar(n)]
        [] OTHER -> Items(n, 1, <<>>, visiting \cup {i}, left - 1)

\* The items of a container from the k-th on; keys are strings, once each.
Items(n, k, items, visiting, left) ==
  IF k > Len(n.kids) THEN [ok |-> TRUE, left |-> left, value |-> Container(n.kind, items)]
  ELSE LET key == IF n.kind = "mapping" THEN n.keys[k] ELSE Index[k]
           v == Value(n.kids[k], visiting, left)
       IN  IF (n.kind = "mapping" /\ (key = "!!int" \/ key \in DOMAIN items)) \/ ~v.ok
           THEN Error(v.left)
           ELSE Items(n, k + 1,
                      [x \in DOMAIN items \cup {key} |-> IF x = key THEN v.value ELSE items[x]],
                      visiting, v.left)

\* ParseSuite and validate: a document that can be decoded, and something that
\* is expected.
Decode ==
  /\ stage = "document"
  /\ LET v == Value(1, {}, MaxValues)
         asserts == expect.output \/ expect.deleted # "any" \/ expect.error # "none"
     IN  IF v.ok /\ asserts
         THEN stage' = "decoded" /\ expected' = v.value
         ELSE stage' = "rejected" /\ UNCHANGED expected
  /\ UNCHANGED <<document, expect, outcome, result>>

-----------------------------------------------------------------------------
(* Execution *)

NoResult == [output |-> Null, deleted |-> FALSE, error |-> "none"]

\* The payload of a message that is not structured: what its text says in JSON,
\* or the text.
Payload(text) ==
  CASE text = "null" -> Null
    [] text \in DOMAIN NumberOf -> Number(text)
    [] OTHER -> String(text)

\* Run: an error of any step has no output, and neither has a message that was
\* deleted.
Run ==
  /\ stage = "decoded"
  /\ result' =
       CASE outcome.kind \in {"input", "parse", "execute", "output"} ->
              [NoResult EXCEPT !.error = outcome.kind]
         [] outcome.kind = "deleted" -> [NoResult EXCEPT !.deleted = TRUE]
         [] outcome.kind = "bytes" -> [NoResult EXCEPT !.output = Payload(outcome.text)]
         [] outcome.kind = "value" -> [NoResult EXCEPT !.output = outcome.value]
  /\ stage' = "run"
  /\ UNCHANGED <<document, expect, outcome, expected>>

-----------------------------------------------------------------------------
(* The verdict *)

\* Mutant: numbers are compared by their text.
SameText(a, b) == a = b

\* Numbers are compared by their exact value.
SameNumber(a, b) == NumberOf[a] = NumberOf[b]

\* fixtureEqual.
RECURSIVE Equal(_, _)
Equal(want, got) ==
  /\ want.kind = got.kind
  /\ CASE want.kind = "number" -> SameNumber(want.text, got.text)
       [] want.kind = "string" -> want.text = got.text
       [] want.kind = "null" -> TRUE
       [] OTHER -> /\ Cardinality(DOMAIN want.items) = Cardinality(DOMAIN got.items)
                   /\ \A k \in DOMAIN want.items :
                        k \in DOMAIN got.items /\ Equal(want.items[k], got.items[k])

\* check: only what is expected is looked at, but a lint that cannot be made
\* and an error that is not expected always fail.
Check ==
  /\ stage = "run"
  /\ stage' = IF /\ ~outcome.unlintable
                 /\ IF expect.error = "none" THEN result.error = "none"
                    ELSE result.error # "none" /\ expect.error \in {"contains", result.error}
                 /\ expect.output => Equal(expected, result.output)
                 /\ expect.deleted # "any" => (expect.deleted = "yes") = result.deleted
              THEN "passed" ELSE "failed"
  /\ UNCHANGED <<document, expect, outcome, expected, result>>

Init ==
  /\ document \in Documents /\ expect \in Expects /\ outcome \in Outcomes
  /\ stage = "document" /\ expected = Null /\ result = NoResult

Next == Decode \/ Run \/ Check

Spec == Init /\ [][Next]_vars

-----------------------------------------------------------------------------
(* Properties *)

\* Where the nodes of a document are: a node and the keys that lead to it, and
\* how many ways there are, aliases included.
Edges(i) ==
  LET n == document[i]
  IN  CASE n.kind = "alias" -> {<<n.of, <<>>>>}
        [] n.kind = "mapping" -> {<<n.kids[k], <<n.keys[k]>>>> : k \in DOMAIN n.kids}
        [] n.kind = "sequence" -> {<<n.kids[k], <<Index[k]>>>> : k \in DOMAIN n.kids}
        [] OTHER -> {}
Paths ==
  LET N == Len(document)
      paths[n \in 0..N] ==
        IF n = 0 THEN {<<<<1>>, <<>>>>}
        ELSE UNION {{<<Append(p[1], e[1]), p[2] \o e[2]>> : e \in Edges(p[1][Len(p[1])])} :
                      p \in paths[n - 1]}
  IN  UNION {paths[n] : n \in 0..N}
Ends(p) == p[1][Len(p[1])]

\* What can be decoded: no node leads to itself, keys are strings and no two of
\* a node are alike, and the expanded values are not too many.
Wellformed(paths) ==
  /\ \A p \in paths : \A i, j \in DOMAIN p[1] : i # j => p[1][i] # p[1][j]
  /\ Cardinality(paths) <= MaxValues
  /\ \A p \in paths :
       LET n == document[Ends(p)]
       IN  /\ n.kind = "scalar" => n.tag \in Supported
           /\ n.kind = "mapping" => /\ \A k \in DOMAIN n.keys : n.keys[k] # "!!int"
                                    /\ \A j, k \in DOMAIN n.keys : j # k => n.keys[j] # n.keys[k]

\* The scalars and containers of a value by the keys that lead to them.
RECURSIVE Parts(_, _)
Parts(v, at) ==
  CASE v.kind = "number" -> {<<at, "number", NumberOf[v.text]>>}
    [] v.kind = "string" -> {<<at, "string", v.text>>}
    [] v.kind = "null" -> {<<at, "null", "">>}
    [] OTHER -> {<<at, v.kind, "">>}
                  \cup UNION {Parts(v.items[k], Append(at, k)) : k \in DOMAIN v.items}

Says(paths) ==
  UNION {LET n == document[Ends(p)]
         IN  CASE n.kind = "scalar" -> Parts(Scalar(n), p[2])
               [] n.kind = "alias" -> {}
               [] OTHER -> {<<p[2], n.kind, "">>} : p \in paths}

\* A document is refused for what it is and not for how its aliases are
\* followed, and a case passes exactly when the output has what the document
\* says, through its aliases and with numbers by their value, and the error and
\* the deletion are the expected ones (fixtures.go:32, fixtures.go:286).
ExpectationMeans ==
  stage \in {"rejected", "passed", "failed"} =>
    LET paths == Paths
        known == Wellformed(paths)
    IN  /\ stage = "rejected" =>
             ~known \/ (~expect.output /\ expect.deleted = "any" /\ expect.error = "none")
        /\ stage # "rejected" => known
        /\ stage # "rejected" =>
             (stage = "passed" <=>
                /\ ~outcome.unlintable
                /\ expect.output => Says(paths) = Parts(result.output, <<>>)
                /\ expect.deleted # "any" =>
                     (expect.deleted = "yes") = (outcome.kind = "deleted")
                /\ LET fails == outcome.kind \in {"input", "parse", "execute", "output"}
                   IN  IF expect.error = "none" THEN ~fails
                       ELSE fails /\ expect.error \in {"contains", outcome.kind})
===============================================================================
