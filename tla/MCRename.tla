------------------------------ MODULE MCRename ------------------------------
\* Both halves of Rename: requests for a variable or a parameter of a text, and
\* requests for a map of a project.
EXTENDS RenameLocal, RenameMap

CONSTANTS a, b, other, MaxBroken

\* Symbol i of a text of n symbols: only declarations reach further than
\* themselves, and the name of a map does not matter.
Symbol(i, n) ==
  {s \in [kind : Kinds, name : Names, end : i..n] :
     /\ s.kind \in {"ref", "bare"} => s.end = i
     /\ s.kind = "map" => s.name = a}

Two(i, n) == {<<s, u>> : s \in Symbol(i, n), u \in Symbol(i + 1, n)}

MCTexts ==
  {t \in {p \o q : p \in Two(1, 4), q \in Two(3, 4)} : t[1].name = a /\ Parses(t)}

-----------------------------------------------------------------------------
Unit(declares, applies, imports) ==
  [declares : declares, applies : applies, imports : imports,
   broken : {m > 1 : m \in 1..MaxBroken + 1}]

\* A file that may declare a map, a file that declares one or two, and a third
\* text that imports from both or what is not there.
TwoNames ==
  {p \in Unit({{}, {a}}, {{}}, {<<>>, <<2>>})
           \X Unit({{a}, {b}, {a, b}}, SUBSET {a, b}, {<<>>, <<1>>})
           \X Unit({{}, {b}}, SUBSET {a, b},
                   {<<>>, <<1>>, <<1, 2>>, <<2, 1>>, <<0, 1>>}) :
     Cardinality({t \in 1..3 : p[t].broken}) <= MaxBroken}

\* A text that may use one map of a file for which a name is asked that the text
\* has from the other file.
ThreeNames ==
  {p \in Unit({{a, b}}, {{}}, {<<>>, <<2>>})
           \X Unit({{other}, {a, other}}, SUBSET {a, other}, {<<>>, <<1>>})
           \X Unit({{}}, SUBSET {a, b, other}, {<<1, 2>>, <<2, 1>>}) :
     \A t \in 1..3 : ~p[t].broken}

MCProjects == TwoNames \cup ThreeNames

\* Nothing is renamed in the other half.
NoText ==
  /\ text = <<>> /\ renamed = <<>> /\ phase = "refused"
  /\ request = [position |-> 0, name |-> a]
  /\ pos = 1 /\ vars = Unassigned(<<>>) /\ varsAfter = Unassigned(<<>>)

NoProject ==
  /\ project = <<>> /\ stage = "refused" /\ asked = <<>>
  /\ target = Nowhere /\ at = 1 /\ edits = {}

MCNext ==
  \/ Next /\ UNCHANGED mapVars
  \/ MapNext /\ UNCHANGED vars_

MCMapInit == MapInit /\ NoText

MCMapSpec == MCMapInit /\ [][MCNext]_<<vars_, mapVars>>

MCInit == (Init /\ NoProject) \/ MCMapInit
=============================================================================
