-------------------------------- MODULE LintFix --------------------------------
(***************************************************************************)
(* The safe fixes of lint: findings and applyToolEdits of                  *)
(* internal/lsp/tooling.go, with the one rule of internal/lsp/lint.go that *)
(* has a fix, which joins consecutive calls of without.  When they are     *)
(* applied is the part of ToolLint.                                        *)
(*                                                                         *)
(* A text is a sequence of tokens and a range is the positions of its      *)
(* first token and of the token behind its last.  A YAML file is a text of *)
(* several mappings, each behind a token that names the style of its       *)
(* scalar.                                                                 *)
(***************************************************************************)
EXTENDS Naturals, SequencesExt, FiniteSetsExt

\* "x" is a receiver, "a" and "b" are literal arguments and "v" is another one.
Without == ".without("
Map == ".map("
Literals == {"a", "b"}
Arguments == Literals \cup {"v"}
Disable == "# disable-next-line"
Comments == {"#", Disable}
Trivia == Comments \cup {"\n"}
Styles == {"|", ">"}  \* a literal scalar, and one whose fixes are withheld

-----------------------------------------------------------------------------
(* The syntax tree of a mapping *)

Skip(t, i) ==
  CHOOSE j \in i..Len(t) + 1 :
    /\ j = Len(t) + 1 \/ t[j] \notin Trivia
    /\ \A k \in i..j - 1 : t[k] \in Trivia

\* The expression at i, and a call of a method of it.
RECURSIVE Expression(_, _), Calls(_, _)
Expression(t, i) ==
  Calls(t, [kind |-> "name", start |-> i, end |-> i + 1, kids |-> <<>>, args |-> <<>>])
Calls(t, object) ==
  LET at == Skip(t, object.end)
  IN  CASE at > Len(t) -> object
        [] t[at] = Without ->
             LET close == CHOOSE j \in at..Len(t) : t[j] = ")" /\ \A k \in at..j - 1 : t[k] # ")"
             IN  Calls(t, [kind |-> "without", start |-> object.start, end |-> close + 1,
                           kids |-> <<object>>,
                           args |-> SelectSeq(SubSeq(t, at, close), LAMBDA s : s \in Arguments)])
        [] t[at] = Map ->
             LET body == Expression(t, Skip(t, at + 1))
             IN  Calls(t, [kind |-> "map", start |-> object.start, end |-> Skip(t, body.end) + 1,
                           kids |-> <<object, body>>, args |-> <<>>])
        [] OTHER -> object

\* Positions of some tokens, in their order.
Where(t, tokens) == SelectSeq([i \in DOMAIN t |-> i], LAMBDA i : t[i] \in tokens)

\* The statements of a mapping, in their order.
Statements(t) ==
  LET Statement(i) == LET value == Expression(t, Skip(t, i + 1))
                      IN  [kind |-> "statement", start |-> i, end |-> value.end,
                           kids |-> <<value>>, args |-> <<>>]
      starts == Where(t, {"root ="})
  IN  [s \in DOMAIN starts |-> Statement(starts[s])]

RECURSIVE Nodes(_)
Nodes(n) == {n} \cup UNION {Nodes(n.kids[i]) : i \in DOMAIN n.kids}
Tree(t) == UNION {Nodes(s) : s \in Range(Statements(t))}

\* The mappings of a file with their offset and their style.
Regions(h) ==
  LET end(i) == CHOOSE j \in i..Len(h) : /\ j = Len(h) \/ h[j + 1] \in Styles
                                         /\ \A k \in i + 1..j : h[k] \notin Styles
      region(i) == [offset |-> i, style |-> h[i], text |-> SubSeq(h, i + 1, end(i))]
  IN  IF Head(h) \notin Styles THEN <<[offset |-> 0, style |-> "none", text |-> h]>>
      ELSE LET heads == Where(h, Styles) IN [r \in DOMAIN heads |-> region(heads[r])]

-----------------------------------------------------------------------------
(* The rule *)

\* literalArgs.
LiteralArgs(n) == \A i \in DOMAIN n.args : n.args[i] \in Literals

\* A node is suppressed by the comment on the line before it, or before a node
\* that holds it.
Commented(t, i) ==
  \E nl \in 2..i - 1 :
    /\ t[nl] = "\n" /\ \A k \in nl + 1..i - 1 : t[k] # "\n"
    /\ t[nl - 1] = Disable /\ (nl = 2 \/ t[nl - 2] = "\n")

\* Mutant: the nodes that hold it do not count.
MutantSuppressed(t, tree, n) == Commented(t, n.start)

Suppressed(t, tree, n) ==
  \E target \in tree :
    target.start <= n.start /\ n.end <= target.end /\ Commented(t, target.start)

\* Calls of without on a call of without.
Consecutive(n) == n.kind = "without" /\ n.kids[1].kind = "without"

Separated(args) == FlattenSeq([i \in DOMAIN args |-> IF i = 1 THEN <<args[1]>> ELSE <<",", args[i]>>])

\* Mutant: arguments that are not literals are left out.
MutantReplacement(t, n) ==
  LET inner == n.kids[1]
      Kept(m) == SelectSeq(m.args, LAMBDA s : s \in Literals)
  IN  SubSeq(t, inner.kids[1].start, inner.kids[1].end - 1) \o <<Without>>
        \o Separated(Kept(inner) \o Kept(n)) \o <<")">>

\* One call for two, unless it would lose a comment; <<>> is no replacement.
Replacement(t, n) ==
  LET inner == n.kids[1]
      receiver == inner.kids[1]
  IN  IF /\ LiteralArgs(inner) /\ LiteralArgs(n)
         /\ \A i \in n.start..n.end - 1 : t[i] \notin Comments
      THEN SubSeq(t, receiver.start, receiver.end - 1) \o <<Without>>
             \o Separated(inner.args \o n.args) \o <<")">>
      ELSE <<>>

Findings(t) ==
  LET tree == Tree(t) IN {n \in tree : Consecutive(n) /\ ~Suppressed(t, tree, n)}

\* findings: the replacements in the positions of the file.
Edits(h) ==
  UNION {{[start |-> r.offset + n.start, end |-> r.offset + n.end,
           text |-> Replacement(r.text, n)] :
            n \in {f \in Findings(r.text) : Replacement(r.text, f) # <<>>}} :
         r \in {s \in Range(Regions(h)) : s.style # ">"}}

Apply(h, e) == SubSeq(h, 1, e.start - 1) \o e.text \o SubSeq(h, e.end, Len(h))

\* applyToolEdits: of edits that overlap the outermost, from the end.
Before(e, f) == e.start < f.start \/ (e.start = f.start /\ e.end > f.end)

RECURSIVE Selected(_)
Selected(es) ==
  IF es = {} THEN <<>>
  ELSE LET first == CHOOSE e \in es : \A f \in es \ {e} : Before(e, f)
       IN  <<first>> \o Selected({f \in es : f.start >= first.end})

ApplyToolEdits(h, es) == FoldRight(LAMBDA e, text : Apply(text, e), Selected(es), h)

Imports(t) == SelectSeq(t, LAMBDA s : s \in {"f", "g"})

-----------------------------------------------------------------------------
(* What a fix leaves alone *)

\* What a mapping does: the keys that are removed from a receiver, where two
\* calls with literals remove what one does.
RECURSIVE Meaning(_)
Meaning(n) ==
  CASE n.kind = "without" ->
         LET of == Meaning(n.kids[1])
         IN  IF LiteralArgs(n) /\ of.kind = "removed"
             THEN [of EXCEPT !.keys = @ \cup Range(n.args)]
             ELSE [kind |-> IF LiteralArgs(n) THEN "removed" ELSE "opaque",
                   keys |-> Range(n.args), of |-> <<of>>]
    [] OTHER -> [kind |-> n.kind, keys |-> {},
                 of |-> [i \in DOMAIN n.kids |-> Meaning(n.kids[i])]]

Means(h) ==
  LET regions == Regions(h)
  IN  [r \in DOMAIN regions |->
        LET t == regions[r].text
            statements == Statements(t)
        IN  <<regions[r].style, [s \in DOMAIN statements |-> Meaning(statements[s])],
              SelectSeq(t, LAMBDA k : k \in Comments \cup {"f", "g"})>>]

\* How many consecutive calls are suppressed.
Withheld(h) ==
  LET Around(tree, n) == {m \in tree : m.start <= n.start /\ n.end <= m.end}
      Kept(t) == LET tree == Tree(t)
                 IN  {n \in tree : Consecutive(n) /\ \E m \in Around(tree, n) : Commented(t, m.start)}
      regions == Regions(h)
  IN  [r \in DOMAIN regions |-> Cardinality(Kept(regions[r].text))]
===============================================================================
