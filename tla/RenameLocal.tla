----------------------------- MODULE RenameLocal -----------------------------
(***************************************************************************)
(* Rename of a variable or a lambda parameter: Rename and PrepareRename of *)
(* internal/lsp/rename.go, with symbols, scopeOf and visibleDefinition of  *)
(* navigation.go, on which references rest as well.                        *)
(*                                                                         *)
(* A text is the sequence of its symbols: let and ref for a variable, param*)
(* and bare for a lambda parameter, and map, the start of a named map that *)
(* has variables of its own.  The scope of a param and of a map, and the   *)
(* initializer of a let, reach from the symbol up to the one numbered end. *)
(*                                                                         *)
(* The mapping runtime is external.  It executes the text before and after *)
(* the renaming side by side: a let assigns a variable of its mapping when *)
(* its initializer is evaluated, or is in a branch that is not taken.      *)
(***************************************************************************)
EXTENDS Naturals, Sequences

CONSTANTS
  Names, \* identifiers, all of them valid for a binding
  Texts  \* texts that parse, see Parses

VARIABLES
  text,     \* the document, or a region of a YAML document
  phase,    \* idle, refused, or run
  request,  \* the position and the new name of the request
  renamed,  \* the text with the edits applied
  pos,      \* the symbol that is executed next
  vars,     \* for each mapping and variable, the let that assigned it last
  varsAfter \* the same for the renamed text

vars_ == <<text, phase, request, renamed, pos, vars, varsAfter>>

Kinds == {"let", "ref", "param", "bare", "map"}
Symbols == [kind : Kinds, name : Names, end : Nat]
Source == 0
Nobody == 0

Declaration(s) == s.kind \in {"let", "param"}
Variable(s) == s.kind \in {"let", "ref"}
SameKind(s, u) == Variable(s) <=> Variable(u)

Innermost(S) == CHOOSE j \in S : \A k \in S : k <= j

-----------------------------------------------------------------------------
\* navigation.go

\* The nodes around symbol i that are scopes; a parameter is in its lambda.
Around(t, i) ==
  {Source} \cup
  {j \in 1..i : /\ t[j].kind \in {"map", "param"}
                /\ i <= t[j].end
                /\ j # i \/ t[i].kind = "param"}

ScopeOf(t, i) == Innermost(Around(t, i))

\* The named map or the source that symbol i is in.
Mapping(t, i) ==
  Innermost({j \in Around(t, i) : j = Source \/ t[j].kind = "map"})

\* The scopes a reference looks at: the innermost first, then outwards to the
\* mapping and no further.
Scopes(t, i) == {j \in Around(t, i) : Mapping(t, i) <= j}

\* A let is not in scope inside its own initializer.
InItsInitializer(t, d, i) == t[d].kind = "let" /\ i <= t[d].end

Definitions(t, i) ==
  {d \in 1..i : /\ Declaration(t[d]) /\ SameKind(t[d], t[i])
                /\ t[d].name = t[i].name
                /\ ScopeOf(t, d) \in Scopes(t, i)
                /\ ~InItsInitializer(t, d, i)}

\* The nearest scope goes before the order of the declarations.
Nearest(t, D) ==
  CHOOSE d \in D : \A e \in D :
    \/ ScopeOf(t, e) < ScopeOf(t, d)
    \/ ScopeOf(t, e) = ScopeOf(t, d) /\ e <= d

VisibleDefinition(t, i) ==
  CASE Declaration(t[i]) -> i
    [] ~Declaration(t[i]) /\ Definitions(t, i) = {} -> Nobody
    [] OTHER -> Nearest(t, Definitions(t, i))

-----------------------------------------------------------------------------
\* rename.go

\* The lets of a variable in one mapping are one binding, whichever of them a
\* run takes.
\* Mutant: each let is a binding of its own.
SameLet(t, a, b) == a # Nobody /\ a = b
SameRenameBinding(t, a, b) ==
  /\ a # Nobody /\ b # Nobody
  /\ SameKind(t[a], t[b])
  /\ IF Variable(t[a])
     THEN t[a].name = t[b].name /\ ScopeOf(t, a) = ScopeOf(t, b)
     ELSE a = b

Referring(t) == {i \in DOMAIN t : t[i].kind # "map"}

Changed(t, target, new) ==
  [i \in DOMAIN t |->
     IF /\ t[i].kind # "map"
        /\ SameRenameBinding(t, VisibleDefinition(t, i), target)
     THEN [t[i] EXCEPT !.name = new] ELSE t[i]]

\* Mutant: a name that is taken is no obstacle as long as nothing is captured.
AlreadyDeclaredNever(t, target, new) == FALSE
AlreadyDeclared(t, target, new) ==
  \E i \in DOMAIN t :
    /\ Declaration(t[i]) /\ SameKind(t[i], t[target])
    /\ t[i].name = new
    /\ ScopeOf(t, i) = ScopeOf(t, target)

\* Mutant: the scopes are not compared.
CapturesNever(t, u) == FALSE
Captures(t, u) ==
  \E i \in Referring(t) : VisibleDefinition(t, i) # VisibleDefinition(u, i)

\* What a request is answered: the renamed text, or an error.
Renameable(t, i) == t[i].kind # "map" /\ VisibleDefinition(t, i) # Nobody

Accepts(t, i, new) ==
  LET target == VisibleDefinition(t, i) IN
  /\ Renameable(t, i)
  /\ t[i].name # new =>
       /\ ~AlreadyDeclared(t, target, new)
       /\ ~Captures(t, Changed(t, target, new))

Answer(t, i, new) ==
  IF t[i].name = new THEN t ELSE Changed(t, VisibleDefinition(t, i), new)

Rename(i, new) ==
  /\ phase = "idle"
  /\ request' = [position |-> i, name |-> new]
  /\ IF Accepts(text, i, new)
     THEN phase' = "run" /\ renamed' = Answer(text, i, new)
     ELSE phase' = "refused" /\ UNCHANGED renamed
  /\ UNCHANGED <<text, pos, vars, varsAfter>>

-----------------------------------------------------------------------------
\* The runtime.

\* A variable is looked up by name in the variables of its mapping, a bare
\* identifier among the parameters of the lambdas around it.
Read(t, i, store) ==
  IF Variable(t[i]) THEN store[Mapping(t, i)][t[i].name]
  ELSE Innermost({Nobody} \cup {j \in Scopes(t, i) \ {Source} :
                    t[j].kind = "param" /\ t[j].name = t[i].name})

Assigned(t, p, store) ==
  IF \E d \in 1..p : t[d].kind = "let" /\ t[d].end = p
  THEN LET d == CHOOSE d \in 1..p : t[d].kind = "let" /\ t[d].end = p
       IN [store EXCEPT ![Mapping(t, d)][t[d].name] = d]
  ELSE store

Execute ==
  /\ phase = "run" /\ pos <= Len(text)
  /\ pos' = pos + 1
  /\ vars' = Assigned(text, pos, vars)
  /\ varsAfter' = Assigned(renamed, pos, varsAfter)
  /\ UNCHANGED <<text, phase, request, renamed>>

\* The branch of the let is not taken.
Skip ==
  /\ phase = "run" /\ pos <= Len(text)
  /\ text[pos].kind = "let"
  /\ pos' = text[pos].end + 1
  /\ UNCHANGED <<text, phase, request, renamed, vars, varsAfter>>

-----------------------------------------------------------------------------
Unassigned(t) == [m \in 0..Len(t) |-> [n \in Names |-> Nobody]]

Init ==
  /\ text \in Texts
  /\ phase = "idle"
  /\ request = [position |-> 0, name |-> CHOOSE n \in Names : TRUE]
  /\ renamed = text
  /\ pos = 1
  /\ vars = Unassigned(text)
  /\ varsAfter = Unassigned(text)

Next ==
  \/ \E i \in DOMAIN text, new \in Names : Rename(i, new)
  \/ Execute
  \/ Skip

Spec == Init /\ [][Next]_vars_

-----------------------------------------------------------------------------
\* What the grammar makes of a text: scopes and initializers nest, a named
\* map is not inside anything, and a let is inside nothing but a named map.
Parses(t) ==
  /\ t \in Seq(Symbols)
  /\ \A i \in DOMAIN t : t[i].end \in i..Len(t)
  /\ \A i, j \in DOMAIN t : i < j /\ j <= t[i].end =>
       /\ t[j].end <= t[i].end
       /\ t[j].kind # "map"
       /\ t[j].kind = "let" => t[i].kind = "map"

ASSUME TextsAssumption ==
  /\ Names # {}
  /\ \A t \in Texts : Parses(t)

-----------------------------------------------------------------------------
\* Every variable has its type.
TypeOK ==
  /\ text \in Texts
  /\ phase \in {"idle", "refused", "run"}
  /\ request \in [position : Nat, name : Names]
  /\ renamed \in [DOMAIN text -> Symbols]
  /\ pos \in 1..Len(text) + 1
  /\ vars \in [0..Len(text) -> [Names -> Nat]]
  /\ varsAfter \in [0..Len(text) -> [Names -> Nat]]

\* A renaming that is not refused changes no result: whichever branches a run
\* takes, every reference reads what the same let or lambda gave it before
\* ("changes that would capture another binding are rejected before returning
\* edits", docs/features/rename.md:14).
ReadsPreserved ==
  phase = "run" /\ pos <= Len(text) /\ text[pos].kind \in {"ref", "bare"} =>
    Read(text, pos, vars) = Read(renamed, pos, varsAfter)

\* A renaming can be taken back: the old name at the same position is accepted
\* and restores the text.  It cannot once two bindings have been merged.
Reversible ==
  phase = "run" =>
    LET old == text[request.position].name IN
    /\ Accepts(renamed, request.position, old)
    /\ Answer(renamed, request.position, old) = text
=============================================================================
