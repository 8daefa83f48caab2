------------------------------ MODULE RenameMap ------------------------------
(***************************************************************************)
(* Rename of a named map: the second half of Rename in                     *)
(* internal/lsp/rename.go, with mapNameExists, and definitionForText of    *)
(* internal/lsp/navigation.go, which resolves the literal of an apply.     *)
(*                                                                         *)
(* A text is a mapping file or one mapping of a YAML file, which nobody    *)
(* imports.  The texts are numbered in the order of their URIs.  Where in  *)
(* its text a map is declared or applied plays no part in its resolution.  *)
(***************************************************************************)
EXTENDS Naturals, Sequences, FiniteSets

CONSTANTS
  Units,    \* the texts
  MapNames, \* names of maps
  Projects  \* what the workspace may hold, functions from Units to Contents

VARIABLES
  project, \* for each text: what it declares, applies and imports
  stage,   \* idle, searching, refused, or answered
  asked,   \* the text, the name and the new name of the request
  target,  \* the text that declares the map
  at,      \* the text that is searched next
  edits    \* the texts whose matches have been added to the answer

mapVars == <<project, stage, asked, target, at, edits>>

Nowhere == 0
Places == Units \cup {Nowhere}

\* An import of Nowhere cannot be read.  A broken text has a syntax error, but
\* not in what it declares, applies or imports.
Contents == [declares : SUBSET MapNames, applies : SUBSET MapNames,
             imports : Seq(Places), broken : BOOLEAN]

ASSUME UnitsAssumption == IsFiniteSet(Units) /\ Units = 1..Cardinality(Units)
ASSUME NamesAssumption == MapNames # {}
ASSUME ProjectsAssumption == Projects \subseteq [Units -> Contents]

-----------------------------------------------------------------------------
\* find: the first text that declares the name, depth first through the imports.
\* A search has the paths it still has to look at, and the texts it has visited.
Found(p, name, search) ==
  search.paths # <<>> /\ Head(search.paths) \notin search.visited
    /\ name \in p[Head(search.paths)].declares

Visit(p, name, search) ==
  LET t == Head(search.paths)
      rest == Tail(search.paths)
  IN  CASE search.paths = <<>> \/ Found(p, name, search) -> search
        [] search.paths # <<>> /\ t \in search.visited -> [search EXCEPT !.paths = rest]
        [] search.paths # <<>> /\ t \notin search.visited /\ ~Found(p, name, search) ->
             [paths |-> p[t].imports \o rest, visited |-> search.visited \cup {t}]

\* A text is visited once, so an import is passed once, and those of the text
\* that the search begins at a second time.
ImportsOf(p) == UNION {{<<t, i>> : i \in DOMAIN p[t].imports} : t \in Units}
Steps(p, t) == Cardinality(ImportsOf(p)) + Len(p[t].imports)

Searched(p, t, name) ==
  LET search[n \in Nat] ==
        IF n = 0 THEN [paths |-> p[t].imports, visited |-> {Nowhere}]
        ELSE Visit(p, name, search[n - 1])
  IN  search[Steps(p, t)]

\* What a declaration or an apply of the name in text t stands for.
Definition(p, t, name) ==
  IF name \in p[t].declares THEN t
  ELSE LET end == Searched(p, t, name)
       IN  IF Found(p, name, end) THEN Head(end.paths) ELSE Nowhere

\* The texts a search for a name that nobody has would look at: t, and whatever
\* is imported by one of them.
Imported(p, t) ==
  {u \in Places :
     \A S \in SUBSET Places :
       t \in S /\ (\A v \in S \ {Nowhere} : \A i \in DOMAIN p[v].imports : p[v].imports[i] \in S)
       => u \in S}

Mentions(c, name) == name \in c.declares \cup c.applies

\* Mutant: the imports are not followed.
MapNameMentioned(p, t, name) == Mentions(p[t], name)
MapNameExists(p, t, name) ==
  \E i \in Imported(p, t) : i = Nowhere \/ Mentions(p[i], name)

-----------------------------------------------------------------------------
Nameable(t, name) ==
  /\ Mentions(project[t], name)
  /\ ~project[t].broken
  /\ Definition(project, t, name) # Nowhere

Request(t, name, new) ==
  /\ stage = "idle"
  /\ asked' = [text |-> t, name |-> name, new |-> new]
  /\ CASE ~Nameable(t, name) ->
            stage' = "refused" /\ UNCHANGED target
       [] Nameable(t, name) /\ name = new ->
            stage' = "answered" /\ UNCHANGED target
       [] OTHER ->
            stage' = "searching" /\ target' = Definition(project, t, name)
  /\ UNCHANGED <<project, at, edits>>

\* Texts with syntax errors have no symbols.
Matches(t) ==
  /\ ~project[t].broken
  /\ Mentions(project[t], asked.name)
  /\ Definition(project, t, asked.name) = target

Search ==
  /\ stage = "searching" /\ at \in Units
  /\ at' = at + 1
  /\ CASE ~Matches(at) -> UNCHANGED <<edits, stage>>
       [] Matches(at) /\ MapNameExists(project, at, asked.new) ->
            stage' = "refused" /\ UNCHANGED edits
       [] OTHER -> edits' = edits \cup {at} /\ UNCHANGED stage
  /\ UNCHANGED <<project, asked, target>>

\* The context of the request is looked at before every text.
Cancel ==
  /\ stage = "searching" /\ at \in Units
  /\ stage' = "refused"
  /\ UNCHANGED <<project, asked, target, at, edits>>

Reply ==
  /\ stage = "searching" /\ at \notin Units
  /\ stage' = "answered"
  /\ UNCHANGED <<project, asked, target, at, edits>>

MapInit ==
  /\ project \in Projects
  /\ stage = "idle"
  /\ asked = [text |-> Nowhere, name |-> CHOOSE n \in MapNames : TRUE,
              new |-> CHOOSE n \in MapNames : TRUE]
  /\ target = Nowhere
  /\ at = 1
  /\ edits = {}

MapNext ==
  \/ \E t \in Units, name, new \in MapNames : Request(t, name, new)
  \/ Search
  \/ Cancel
  \/ Reply

MapSpec == MapInit /\ [][MapNext]_mapVars

-----------------------------------------------------------------------------
\* The project once the client has applied the edits.
NewName(t, name) ==
  IF t \in edits /\ name = asked.name THEN asked.new ELSE name

Edited ==
  [t \in Units |->
    [project[t] EXCEPT
       !.declares = {NewName(t, n) : n \in @},
       !.applies = {NewName(t, n) : n \in @}]]

\* The applies of text t stand for the maps they stood for.
Keeps(t) ==
  \A n \in project[t].applies :
    Definition(Edited, t, NewName(t, n)) = Definition(project, t, n)

Uses(t) ==
  asked.name \in project[t].applies /\ Definition(project, t, asked.name) = target

-----------------------------------------------------------------------------
\* A text that uses the renamed map still does, and everything else it applies
\* stands for what it stood for: the collisions the search looks for are the
\* ones that matter to it, through all its imports.  Neither does anything
\* change for a text that does not use the map, but has imports without the new
\* name.  The declaration and the text must be without syntax errors, see
\* DeclarationRenamed.
UsersKeep ==
  stage = "answered" /\ edits # {} /\ ~project[target].broken =>
    \A t \in Units :
      ~project[t].broken /\ (Uses(t) \/ ~MapNameExists(project, t, asked.new)) => Keeps(t)

\* "Invalid names, existing bindings and changes that would capture another
\* binding are rejected before returning edits" (docs/features/rename.md:14):
\* no apply that stood for a map stands for another one.
NothingCaptured ==
  stage = "answered" =>
    \A t \in Units, n \in MapNames :
      n \in project[t].applies /\ Definition(project, t, n) # Nowhere =>
        Definition(Edited, t, NewName(t, n)) = Definition(project, t, n)

\* A declaration is renamed together with the "literal .apply("map_name")
\* references that resolve to" it (docs/features/rename.md:9).
DeclarationRenamed ==
  stage = "answered" /\ edits # {} => target \in edits
=============================================================================
