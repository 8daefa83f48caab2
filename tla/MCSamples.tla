------------------------------ MODULE MCSamples ------------------------------
\* Small sets of requests and files for Samples.
EXTENDS Samples

Object(input, meta, env, root) ==
  [input |-> input, meta |-> meta, env |-> env, root |-> root]
SampleFile(o) == [kind |-> "sample", object |-> o]
BadFile == [kind |-> "bad"]
Mapping(header, names) == [kind |-> "mapping", header |-> header, imports |-> names]
ImportFile(names) == [kind |-> "import", imports |-> names]

\* Directives: whole samples with all fields and with the input alone, parts,
\* the same from a file, one that is misspelled, two without a value, and
\* whole samples with a space after #!.
Inline(name, o) ==
  [name |-> name, spaced |-> FALSE, from |-> FALSE, present |-> TRUE, object |-> o,
   path |-> None, relative |-> FALSE]
From(name) ==
  [name |-> name, spaced |-> FALSE, from |-> TRUE, present |-> TRUE, object |-> NoSample,
   path |-> "o", relative |-> TRUE]
Spaced(d) == [d EXCEPT !.spaced = TRUE]

Full == Object("1", "1", "1", "1")
Lean == Object("2", None, None, None)
MCDirectives ==
  {Inline("sample", Full), Inline("sample", Lean), Inline("sample", Object("3", Bad, None, None)),
   Inline("input", Object("4", None, None, None)), Inline("meta", Object(None, "4", None, None)),
   Inline("meta", Object(None, Bad, None, None)), Inline("root", Object(None, None, None, "4")),
   From("sample"), From("input"), From("meta"), [From("root") EXCEPT !.relative = FALSE],
   Inline("inputs", NoSample), [Inline("sample", NoSample) EXCEPT !.present = FALSE],
   [From("sample") EXCEPT !.present = FALSE],
   Spaced(Inline("sample", Lean)), Spaced(From("sample"))}

MCUsable == {d \in MCDirectives : d.present /\ d.name # "inputs" /\ d.object.meta # Bad}

MCHeaders ==
  {<<>>} \cup [1..1 -> MCDirectives] \cup [1..2 -> MCDirectives] \cup [1..3 -> MCUsable]

Given(f) == [g \in Fields |-> IF g \in f THEN "5" ELSE None]
Plain == [static |-> FALSE, file |-> TRUE, text |-> Mapping(<<>>, <<>>), given |-> NoSample,
          path |-> None, imports |-> <<>>]

\* Requests whose sample matters: of a file, of a text, with a sample of their
\* own; and requests whose imports do.
MCSampling ==
  {Plain}
  \cup {[Plain EXCEPT !.file = FALSE, !.text = Mapping(h, <<>>)] : h \in [1..2 -> MCDirectives]}
  \cup {[Plain EXCEPT !.path = "o", !.file = f, !.given = Given(g)] :
          f \in BOOLEAN, g \in SUBSET {"meta", "env", "root"}}
MCImporting ==
  {[Plain EXCEPT !.static = s, !.file = f, !.given = Given({"input"}),
                 !.text = Mapping(<<>>, <<"f", "g">>), !.imports = i] :
     s \in BOOLEAN, f \in BOOLEAN,
     i \in {<<>>, [n \in {"f"} |-> <<>>], [n \in {"f"} |-> <<"g">>], [n \in {"f", "g"} |-> <<>>]}}

MCRequests == MCSampling \cup MCImporting

MCOther == {SampleFile(Object("6", "6", None, None)), SampleFile(Object(None, "7", None, "7")), BadFile}

\* No sample, one, a broken one, two.
MCBeside ==
  {<<MissingFile, MissingFile>>, <<SampleFile(Full), MissingFile>>, <<MissingFile, BadFile>>,
   <<SampleFile(Full), SampleFile(Lean)>>}

SamplesOn(headers, others) ==
  {[p \in Siblings \cup {"mapping", "o"} |->
      CASE p = "mapping" -> Mapping(h, <<>>)
        [] p = "o" -> o
        [] p = "json" -> b[1]
        [] p = "yaml" -> b[2]
        [] OTHER -> MissingFile] : h \in headers, o \in others, b \in MCBeside}

MCImports == {MissingFile} \cup {ImportFile(i) : i \in {<<>>, <<"f">>, <<"g">>, <<"g", "g">>}}
ImportsOn ==
  {[p \in {"mapping", "f", "g"} |->
      CASE p = "mapping" -> Mapping(<<>>, <<"f", "g", "f">>) [] p = "f" -> f [] p = "g" -> g] :
     f \in MCImports, g \in MCImports}

MCDisks(r) ==
  CASE r \in MCImporting -> ImportsOn
    [] r = Plain -> SamplesOn(MCHeaders, MCOther)
    [] OTHER -> SamplesOn({<<Inline("sample", Full)>>}, MCOther \cup {MissingFile})

MCOthers(p) ==
  CASE p \in {"f", "g"} -> MCImports
    [] p = "mapping" -> {MissingFile}
    [] p = "o" -> {MissingFile, SampleFile(Object("8", "8", "8", "8"))}
    [] OTHER -> {MissingFile, SampleFile(Lean)}
==============================================================================
