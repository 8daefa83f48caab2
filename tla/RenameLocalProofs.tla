-------------------------- MODULE RenameLocalProofs --------------------------
(***************************************************************************)
(* A renaming that is not refused preserves what every reference reads,    *)
(* for texts of any length with any names.                                 *)
(***************************************************************************)
EXTENDS RenameLocal, TLAPS, WellFoundedInduction

-----------------------------------------------------------------------------
\* Innermost picks the greatest of a bounded set.

LEMMA GreatestExists ==
  ASSUME NEW n \in Nat, NEW S \in SUBSET (0..n), S # {}
  PROVE  \E j \in S : \A k \in S : k <= j
<1> DEFINE T == {n - j : j \in S}
           Less == {ss \in Nat \X Nat : ss[1] < ss[2]}
<1>1. IsWellFoundedOn(Less, Nat)
  BY NatLessThanWellFounded DEF OpToRel
<1>2. T \subseteq Nat /\ T # {}
  <2>1. \A j \in S : j \in 0..n  OBVIOUS
  <2>2. \A j \in S : n - j \in Nat  BY <2>1
  <2> QED  BY <2>2
<1>3. PICK x \in T : \A y \in T : ~(<<y, x>> \in Less)
  <2> HIDE DEF T, Less
  <2> QED  BY <1>1, <1>2, WFMin
<1>4. PICK j \in S : x = n - j
  BY <1>3
<1>5. ASSUME NEW k \in S PROVE k <= j
  <2>1. n - k \in T  OBVIOUS
  <2>2. <<n - k, n - j>> \notin Less  BY <2>1, <1>3, <1>4
  <2>3. n \in Nat /\ k \in 0..n /\ j \in 0..n  BY <1>4
  <2>4. ~(n - k < n - j)  BY <2>2, <2>3
  <2> QED  BY <2>3, <2>4
<1> QED  BY <1>5

LEMMA InnermostIs ==
  ASSUME NEW n \in Nat, NEW S \in SUBSET (0..n), S # {}
  PROVE  /\ Innermost(S) \in S
         /\ \A k \in S : k <= Innermost(S)
BY GreatestExists DEF Innermost

LEMMA InnermostOnly ==
  ASSUME NEW n \in Nat, NEW S \in SUBSET (0..n),
         NEW j \in S, \A k \in S : k <= j
  PROVE  Innermost(S) = j
<1>1. Innermost(S) \in S /\ \A k \in S : k <= Innermost(S)
  BY InnermostIs
<1>2. Innermost(S) \in 0..n /\ j \in 0..n  BY <1>1
<1> QED  BY <1>1, <1>2
-----------------------------------------------------------------------------
\* Scopes of a text that parses.

LEMMA DomainIs ==
  ASSUME NEW t, Parses(t)
  PROVE  /\ Len(t) \in Nat /\ DOMAIN t = 1..Len(t)
         /\ \A i \in DOMAIN t : t[i] \in Symbols /\ i \in Nat \ {0} /\ 1..i \subseteq DOMAIN t
BY DEF Parses

LEMMA AroundIn ==
  ASSUME NEW t, NEW i \in Nat
  PROVE  Around(t, i) \in SUBSET (0..i) /\ Source \in Around(t, i)
BY DEF Around, Source

LEMMA ScopeIs ==
  ASSUME NEW t, NEW i \in Nat
  PROVE  /\ ScopeOf(t, i) \in Around(t, i)
         /\ \A k \in Around(t, i) : k <= ScopeOf(t, i)
BY AroundIn, InnermostIs DEF ScopeOf

LEMMA MappingIs ==
  ASSUME NEW t, NEW i \in Nat
  PROVE  LET M == {j \in Around(t, i) : j = Source \/ t[j].kind = "map"} IN
         Mapping(t, i) \in M /\ \A k \in M : k <= Mapping(t, i)
<1> DEFINE M == {j \in Around(t, i) : j = Source \/ t[j].kind = "map"}
<1>1. M \in SUBSET (0..i) /\ M # {}
  BY AroundIn
<1> HIDE DEF M
<1>2. Innermost(M) \in M /\ \A k \in M : k <= Innermost(M)
  BY <1>1, InnermostIs
<1> QED  BY <1>2 DEF Mapping, M

\* A let is in the scope of its mapping and in no lambda.
LEMMA LetScope ==
  ASSUME NEW t, Parses(t), NEW d \in DOMAIN t, t[d].kind = "let"
  PROVE  ScopeOf(t, d) = Mapping(t, d)
<1>1. \A j \in Around(t, d) : j = Source \/ t[j].kind = "map"
  <2> SUFFICES ASSUME NEW j \in Around(t, d), j # Source PROVE t[j].kind = "map"
    OBVIOUS
  <2>1. j \in 1..d /\ d <= t[j].end /\ j # d  BY DEF Around
  <2>2. j \in DOMAIN t /\ j < d  BY <2>1, DomainIs
  <2> QED  BY <2>1, <2>2 DEF Parses
<1>2. {j \in Around(t, d) : j = Source \/ t[j].kind = "map"} = Around(t, d)
  BY <1>1
<1> QED  BY <1>2 DEF ScopeOf, Mapping

\* A parameter is in the scope of its lambda, which it names.
LEMMA ParamScope ==
  ASSUME NEW t, Parses(t), NEW d \in DOMAIN t, t[d].kind = "param"
  PROVE  ScopeOf(t, d) = d
<1>1. d \in Nat /\ d \in 1..d /\ d <= t[d].end
  BY DomainIs DEF Parses
<1>2. d \in Around(t, d)
  BY <1>1 DEF Around
<1>3. \A k \in Around(t, d) : k <= d
  BY <1>1, AroundIn
<1> QED  BY <1>1, <1>2, <1>3, AroundIn, InnermostOnly DEF ScopeOf

\* Names have no part in the scopes.
SameShape(t, u) ==
  /\ DOMAIN u = DOMAIN t
  /\ \A i \in DOMAIN t : u[i].kind = t[i].kind /\ u[i].end = t[i].end

LEMMA ShapeKeepsScopes ==
  ASSUME NEW t, Parses(t), NEW u, SameShape(t, u), NEW i \in DOMAIN t
  PROVE  /\ Around(u, i) = Around(t, i)
         /\ ScopeOf(u, i) = ScopeOf(t, i)
         /\ Mapping(u, i) = Mapping(t, i)
<1>1. 1..i \subseteq DOMAIN t
  BY DomainIs
<1>2. Around(u, i) = Around(t, i)
  BY <1>1 DEF Around, SameShape
<1>3. \A j \in Around(t, i) : j = Source \/ u[j].kind = t[j].kind
  BY <1>1 DEF Around, SameShape
<1>4. {j \in Around(u, i) : j = Source \/ u[j].kind = "map"}
        = {j \in Around(t, i) : j = Source \/ t[j].kind = "map"}
  BY <1>2, <1>3
<1> QED  BY <1>2, <1>4 DEF ScopeOf, Mapping

-----------------------------------------------------------------------------
\* What a reference resolves to.

LEMMA NearestIs ==
  ASSUME NEW t, NEW n \in Nat, NEW D \in SUBSET (1..n), D # {}
  PROVE  /\ Nearest(t, D) \in D
         /\ \A e \in D : \/ ScopeOf(t, e) < ScopeOf(t, Nearest(t, D))
                         \/ /\ ScopeOf(t, e) = ScopeOf(t, Nearest(t, D))
                            /\ e <= Nearest(t, D)
<1> DEFINE S == {ScopeOf(t, d) : d \in D}
<1>1. \A d \in D : d \in 1..n /\ ScopeOf(t, d) \in 0..n
  <2> TAKE d \in D
  <2>1. d \in 1..n /\ d \in Nat  OBVIOUS
  <2> QED  BY <2>1, ScopeIs, AroundIn
<1>2. S \in SUBSET (0..n) /\ S # {}
  BY <1>1
<1>3. PICK s \in S : \A k \in S : k <= s
  <2> HIDE DEF S
  <2> QED  BY <1>2, GreatestExists
<1> DEFINE E == {d \in D : ScopeOf(t, d) = s}
<1>4. E \in SUBSET (0..n) /\ E # {}
  BY <1>1
<1>5. PICK d \in E : \A k \in E : k <= d
  <2> HIDE DEF E
  <2> QED  BY <1>4, GreatestExists
<1>6. \A e \in D : \/ ScopeOf(t, e) < ScopeOf(t, d)
                   \/ ScopeOf(t, e) = ScopeOf(t, d) /\ e <= d
  <2> TAKE e \in D
  <2>1. ScopeOf(t, e) <= s  BY <1>3
  <2>2. CASE ScopeOf(t, e) = s  BY <2>2, <1>5
  <2>3. CASE ScopeOf(t, e) # s
    <3>1. ScopeOf(t, e) \in Nat /\ s \in Nat  BY <1>1, <1>2
    <3> QED  BY <2>1, <2>3, <3>1, <1>5
  <2> QED  BY <2>2, <2>3
<1> QED  BY <1>5, <1>6 DEF Nearest

LEMMA VisibleIs ==
  ASSUME NEW t, Parses(t), NEW i \in DOMAIN t, ~Declaration(t[i])
  PROVE  IF Definitions(t, i) = {} THEN VisibleDefinition(t, i) = Nobody
         ELSE /\ VisibleDefinition(t, i) = Nearest(t, Definitions(t, i))
              /\ VisibleDefinition(t, i) \in Definitions(t, i)
              /\ VisibleDefinition(t, i) # Nobody
<1>1. i \in Nat /\ Definitions(t, i) \in SUBSET (1..i)
  BY DomainIs DEF Definitions
<1>2. CASE Definitions(t, i) = {}
  BY <1>2 DEF VisibleDefinition
<1>3. CASE Definitions(t, i) # {}
  <2>1. VisibleDefinition(t, i) = Nearest(t, Definitions(t, i))
    BY <1>3 DEF VisibleDefinition
  <2>2. Nearest(t, Definitions(t, i)) \in Definitions(t, i)
    BY <1>1, <1>3, NearestIs
  <2> QED  BY <1>1, <1>3, <2>1, <2>2 DEF Nobody
<1> QED  BY <1>2, <1>3

\* The definitions of a variable are the lets of its mapping that have been
\* evaluated, if their branches were taken.
LEMMA LetsOf ==
  ASSUME NEW t, Parses(t), NEW i \in DOMAIN t, t[i].kind = "ref"
  PROVE  Definitions(t, i) =
           {d \in 1..i : /\ t[d].kind = "let" /\ t[d].name = t[i].name
                         /\ Mapping(t, d) = Mapping(t, i)
                         /\ t[d].end < i}
<1> SUFFICES ASSUME NEW d \in 1..i
             PROVE  d \in Definitions(t, i) <=>
                      /\ t[d].kind = "let" /\ t[d].name = t[i].name
                      /\ Mapping(t, d) = Mapping(t, i)
                      /\ t[d].end < i
  BY DEF Definitions
<1>1. d \in DOMAIN t /\ i \in Nat /\ d \in Nat /\ t[d].end \in Nat
  BY DomainIs DEF Symbols
<1>2. Declaration(t[d]) /\ SameKind(t[d], t[i]) <=> t[d].kind = "let"
  BY DEF Declaration, SameKind, Variable
<1>3. ASSUME t[d].kind = "let"
      PROVE  ScopeOf(t, d) \in Scopes(t, i) <=> Mapping(t, d) = Mapping(t, i)
  <2>1. ScopeOf(t, d) = Mapping(t, d)
    BY <1>1, <1>3, LetScope
  <2>2. Mapping(t, i) \in Around(t, i) /\ Mapping(t, i) \in Nat
    BY <1>1, MappingIs, AroundIn
  <2>3. Mapping(t, d) = Source \/ t[Mapping(t, d)].kind = "map"
    BY <1>1, MappingIs
  <2>4. Mapping(t, d) \in Around(t, i) => Mapping(t, d) <= Mapping(t, i)
    BY <2>3, <1>1, MappingIs
  <2>5. Mapping(t, d) \in Nat
    BY <1>1, MappingIs, AroundIn
  <2> QED  BY <2>1, <2>2, <2>4, <2>5 DEF Scopes
<1>4. t[d].kind = "let" => (~InItsInitializer(t, d, i) <=> t[d].end < i)
  BY <1>1 DEF InItsInitializer
<1> QED  BY <1>2, <1>3, <1>4 DEF Definitions

\* A bare identifier resolves to the parameter that the runtime reads.
LEMMA BareRead ==
  ASSUME NEW t, Parses(t), NEW i \in DOMAIN t, t[i].kind = "bare", NEW store
  PROVE  Read(t, i, store) = VisibleDefinition(t, i)
<1> DEFINE P == {j \in Scopes(t, i) \ {Source} :
                   t[j].kind = "param" /\ t[j].name = t[i].name}
<1>1. i \in Nat /\ Around(t, i) \in SUBSET (0..i)
  BY DomainIs, AroundIn
<1>2. \A j \in P : j \in 1..i /\ j \in DOMAIN t /\ ScopeOf(t, j) = j
  <2> TAKE j \in P
  <2>1. j \in 1..i  BY <1>1 DEF Scopes, Source
  <2>2. j \in DOMAIN t  BY <2>1, DomainIs
  <2> QED  BY <2>1, <2>2, ParamScope
<1>3. Definitions(t, i) = P
  <2>1. ASSUME NEW d \in Definitions(t, i) PROVE d \in P
    <3>1. d \in 1..i /\ d \in DOMAIN t /\ d # Source  BY DomainIs DEF Definitions, Source
    <3>2. t[d].kind = "param"
      BY DEF Definitions, Declaration, SameKind, Variable
    <3>3. ScopeOf(t, d) = d  BY <3>1, <3>2, ParamScope
    <3> QED  BY <3>1, <3>2, <3>3 DEF Definitions
  <2>2. ASSUME NEW d \in P PROVE d \in Definitions(t, i)
    BY <1>2 DEF Definitions, Declaration, SameKind, Variable, InItsInitializer
  <2> QED  BY <2>1, <2>2
<1>4. Read(t, i, store) = Innermost({Nobody} \cup P)
  BY DEF Read, Variable
<1>5. ~Declaration(t[i])
  BY DEF Declaration
<1>6. CASE P = {}
  <2>1. Innermost({0}) = 0
    <3>1. {0} \in SUBSET (0..0) /\ \A k \in {0} : k <= 0  OBVIOUS
    <3> QED  BY <3>1, InnermostOnly
  <2> QED  BY <1>3, <1>4, <1>5, <1>6, <2>1, VisibleIs DEF Nobody
<1>7. CASE P # {}
  <2> DEFINE v == VisibleDefinition(t, i)
  <2>1. v \in P /\ v = Nearest(t, P)
    BY <1>3, <1>5, <1>7, VisibleIs
  <2>2. P \in SUBSET (1..i)
    BY <1>2
  <2>3. \A e \in P : ScopeOf(t, e) < ScopeOf(t, v) \/ e <= v
    <3> HIDE DEF P, v
    <3> QED  BY <1>1, <1>7, <2>1, <2>2, NearestIs
  <2>4. \A e \in P : e <= v
    BY <1>2, <2>1, <2>3
  <2> HIDE DEF P, v
  <2>5. {Nobody} \cup P \in SUBSET (0..i) /\ v \in {Nobody} \cup P
        /\ \A e \in {Nobody} \cup P : e <= v
    <3>1. v \in 1..i  BY <2>1, <2>2
    <3>2. Nobody <= v  BY <3>1 DEF Nobody
    <3> QED  BY <1>1, <2>1, <2>2, <2>4, <3>2 DEF Nobody
  <2>6. Innermost({Nobody} \cup P) = v
    BY <1>1, <2>5, InnermostOnly
  <2> QED  BY <1>4, <2>6 DEF v
<1> QED  BY <1>6, <1>7

-----------------------------------------------------------------------------
\* Two texts of one shape whose references resolve alike and whose lets keep
\* together read alike.

SameResolution(t, u) ==
  \A i \in Referring(t) : VisibleDefinition(t, i) = VisibleDefinition(u, i)

Lets(t) == {d \in DOMAIN t : t[d].kind = "let"}

SameVariables(t, u) ==
  \A d, e \in Lets(t) : Mapping(t, d) = Mapping(t, e) =>
    (t[d].name = t[e].name <=> u[d].name = u[e].name)

Alike(t, u) ==
  /\ u \in [DOMAIN t -> Symbols]
  /\ SameShape(t, u) /\ SameResolution(t, u) /\ SameVariables(t, u)

LEMMA ChangedDeclaration ==
  ASSUME NEW t, NEW target, NEW new, NEW d \in DOMAIN t, Declaration(t[d])
  PROVE  Changed(t, target, new)[d].name =
           IF SameRenameBinding(t, d, target) THEN new ELSE t[d].name
BY DEF Changed, VisibleDefinition, Declaration, Symbols

LEMMA ChangedShape ==
  ASSUME NEW t, Parses(t), NEW target, NEW new \in Names
  PROVE  /\ Changed(t, target, new) \in [DOMAIN t -> Symbols]
         /\ SameShape(t, Changed(t, target, new))
<1>1. \A i \in DOMAIN t : t[i] \in Symbols
  BY DomainIs
<1>2. \A i \in DOMAIN t : [t[i] EXCEPT !.name = new] \in Symbols
                            /\ [t[i] EXCEPT !.name = new].kind = t[i].kind
                            /\ [t[i] EXCEPT !.name = new].end = t[i].end
  BY <1>1 DEF Symbols
<1> QED  BY <1>1, <1>2 DEF Changed, SameShape

\* What is accepted keeps texts alike.
LEMMA AcceptedAlike ==
  ASSUME NEW t, Parses(t), NEW i \in DOMAIN t, NEW new \in Names,
         Accepts(t, i, new)
  PROVE  Alike(t, Answer(t, i, new))
<1> DEFINE T == VisibleDefinition(t, i)
           u == Changed(t, T, new)
<1>1. CASE t[i].name = new
  <2>1. t \in [DOMAIN t -> Symbols]
    BY DomainIs DEF Parses
  <2> QED  BY <1>1, <2>1 DEF Alike, Answer, SameShape, SameResolution, SameVariables
<1>2. CASE t[i].name # new
  <2>1. ~AlreadyDeclared(t, T, new) /\ ~Captures(t, u) /\ T # Nobody
    BY <1>2 DEF Accepts, Renameable
  <2>2. Answer(t, i, new) = u
    BY <1>2 DEF Answer
  <2>3. u \in [DOMAIN t -> Symbols] /\ SameShape(t, u)
    BY ChangedShape
  <2>4. SameResolution(t, u)
    BY <2>1 DEF Captures, SameResolution
  <2>5. SameVariables(t, u)
    <3> SUFFICES ASSUME NEW d \in Lets(t), NEW e \in Lets(t),
                        Mapping(t, d) = Mapping(t, e)
                 PROVE  t[d].name = t[e].name <=> u[d].name = u[e].name
      BY DEF SameVariables
    <3>1. /\ d \in DOMAIN t /\ t[d].kind = "let" /\ Declaration(t[d]) /\ d # Nobody
          /\ e \in DOMAIN t /\ t[e].kind = "let" /\ Declaration(t[e]) /\ e # Nobody
      BY DomainIs DEF Lets, Declaration, Nobody
    <3>2. ScopeOf(t, d) = ScopeOf(t, e)
      BY <3>1, LetScope
    <3> DEFINE Group(x) == SameRenameBinding(t, x, T)
    <3>3. /\ u[d].name = IF Group(d) THEN new ELSE t[d].name
          /\ u[e].name = IF Group(e) THEN new ELSE t[e].name
      BY <3>1, ChangedDeclaration
    <3>4. Group(d) <=> /\ Variable(t[T]) /\ t[d].name = t[T].name
                       /\ ScopeOf(t, d) = ScopeOf(t, T)
      BY <3>1, <2>1 DEF SameRenameBinding, SameKind, Variable
    <3>5. Group(e) <=> /\ Variable(t[T]) /\ t[e].name = t[T].name
                       /\ ScopeOf(t, e) = ScopeOf(t, T)
      BY <3>1, <2>1 DEF SameRenameBinding, SameKind, Variable
    <3>6. Group(d) => t[e].name # new
      BY <3>1, <3>2, <3>4, <2>1 DEF AlreadyDeclared, SameKind, Variable
    <3>7. Group(e) => t[d].name # new
      BY <3>1, <3>2, <3>5, <2>1 DEF AlreadyDeclared, SameKind, Variable
    <3> HIDE DEF Group, u, T
    <3> QED  BY <3>2, <3>3, <3>4, <3>5, <3>6, <3>7
  <2> QED  BY <2>2, <2>3, <2>4, <2>5 DEF Alike
<1> QED  BY <1>1, <1>2

-----------------------------------------------------------------------------
\* The two runs side by side.

Stores(t) == [0..Len(t) -> [Names -> Nat]]

\* Whoever assigned a variable is a let of that name and mapping, and has been
\* executed.
Recorded(t, p, store) ==
  \A m \in 0..Len(t), n \in Names :
    LET d == store[m][n] IN
    d # Nobody => /\ d \in Lets(t) /\ Mapping(t, d) = m
                  /\ t[d].name = n /\ t[d].end < p

\* A let is the last to have assigned its variable in both runs, or in none.
SameAssigned(t, u, store, after) ==
  \A d \in Lets(t) :
    store[Mapping(t, d)][t[d].name] = d
      <=> after[Mapping(t, d)][u[d].name] = d

Inv ==
  /\ text \in Texts
  /\ phase \in {"idle", "refused", "run"}
  /\ request \in [position : Nat, name : Names]
  /\ pos \in 1..Len(text) + 1
  /\ vars \in Stores(text) /\ varsAfter \in Stores(text)
  /\ Alike(text, renamed)
  /\ Recorded(text, pos, vars) /\ Recorded(renamed, pos, varsAfter)
  /\ SameAssigned(text, renamed, vars, varsAfter)
  /\ phase # "run" => vars = Unassigned(text) /\ varsAfter = Unassigned(text)

LEMMA MappingIn ==
  ASSUME NEW t, Parses(t), NEW i \in DOMAIN t
  PROVE  Mapping(t, i) \in 0..Len(t)
<1>1. i \in Nat /\ i <= Len(t) /\ Len(t) \in Nat
  BY DomainIs
<1> QED  BY <1>1, MappingIs, AroundIn

LEMMA AlikeParses ==
  ASSUME NEW t, Parses(t), NEW u, Alike(t, u)
  PROVE  Parses(u) /\ Len(u) = Len(t) /\ DOMAIN u = DOMAIN t
<1>1. DOMAIN t = 1..Len(t) /\ Len(t) \in Nat
  BY DomainIs
<1>2. u \in [1..Len(t) -> Symbols]
  BY <1>1 DEF Alike
<1>3. u \in Seq(Symbols) /\ Len(u) = Len(t)
  BY <1>1, <1>2
<1>4. DOMAIN u = DOMAIN t /\ \A i \in DOMAIN t : u[i].kind = t[i].kind /\ u[i].end = t[i].end
  BY DEF Alike, SameShape
<1> QED  BY <1>3, <1>4 DEF Parses

\* Half of the comparison for a variable: what the run of one text reads, the
\* run of the other reads.
LEMMA VariableRead ==
  ASSUME NEW t, Parses(t), NEW u, Parses(u), SameShape(t, u),
         NEW i \in DOMAIN t, t[i].kind = "ref",
         VisibleDefinition(t, i) = VisibleDefinition(u, i),
         \A d, e \in Lets(t) : Mapping(t, d) = Mapping(t, e) =>
            (t[d].name = t[e].name => u[d].name = u[e].name),
         NEW d \in Lets(t), Mapping(t, d) = Mapping(t, i),
         t[d].name = t[i].name, t[d].end < i
  PROVE  u[d].name = u[i].name
<1>1. i \in Nat /\ d \in DOMAIN t /\ d \in Nat \ {0} /\ t[d].kind = "let" /\ d <= t[d].end /\ t[d].end \in Nat
  BY DomainIs DEF Lets, Parses, Symbols
<1>2. d \in 1..i
  BY <1>1
<1>3. d \in Definitions(t, i)
  BY <1>1, <1>2, LetsOf
<1> DEFINE v == VisibleDefinition(t, i)
<1>4. ~Declaration(t[i]) /\ ~Declaration(u[i]) /\ u[i].kind = "ref" /\ i \in DOMAIN u
  BY DEF Declaration, SameShape
<1>5. v \in Definitions(t, i) /\ v # Nobody
  BY <1>3, <1>4, VisibleIs
<1>6. v \in Definitions(u, i)
  BY <1>4, <1>5, VisibleIs
<1>7. v \in Lets(t) /\ t[v].name = t[i].name /\ Mapping(t, v) = Mapping(t, i)
  <2>1. v \in 1..i /\ t[v].kind = "let" /\ t[v].name = t[i].name /\ Mapping(t, v) = Mapping(t, i)
    BY <1>5, LetsOf
  <2> QED  BY <2>1, DomainIs DEF Lets
<1>8. u[v].name = u[i].name
  BY <1>6 DEF Definitions
<1> QED  BY <1>7, <1>8

LEMMA ReadsAlike ==
  ASSUME Inv, Parses(text)
  PROVE  ReadsPreserved
<1> SUFFICES ASSUME pos \in DOMAIN text, text[pos].kind \in {"ref", "bare"}
             PROVE  Read(text, pos, vars) = Read(renamed, pos, varsAfter)
  BY DomainIs DEF ReadsPreserved, Inv
<1>1. /\ SameShape(text, renamed) /\ renamed[pos].kind = text[pos].kind
      /\ pos \in Referring(text)
  BY DEF Inv, Alike, SameShape, Referring
<1>2. VisibleDefinition(text, pos) = VisibleDefinition(renamed, pos)
  BY <1>1 DEF Inv, Alike, SameResolution
<1>3. Parses(renamed) /\ Len(renamed) = Len(text) /\ DOMAIN renamed = DOMAIN text
  BY AlikeParses DEF Inv
<1>4. CASE text[pos].kind = "bare"
  BY <1>1, <1>2, <1>3, <1>4, BareRead
<1>5. CASE text[pos].kind = "ref"
  <2> DEFINE m == Mapping(text, pos)
             x == vars[m][text[pos].name]
             y == varsAfter[m][renamed[pos].name]
  <2>1. m \in 0..Len(text) /\ m = Mapping(renamed, pos)
    BY <1>1, MappingIn, ShapeKeepsScopes
  <2>2. Read(text, pos, vars) = x /\ Read(renamed, pos, varsAfter) = y
    BY <1>1, <1>5, <2>1 DEF Read, Variable
  <2>3. text[pos].name \in Names /\ renamed[pos].name \in Names
    BY <1>3, DomainIs DEF Symbols
  <2>4. \A d \in DOMAIN text : Mapping(renamed, d) = Mapping(text, d)
    BY <1>1, ShapeKeepsScopes
  <2>5. Lets(renamed) = Lets(text)
    BY <1>1 DEF Lets, SameShape
  <2>6. SameShape(renamed, text)
    BY <1>1 DEF SameShape
  <2>7. \A d, e \in Lets(text) : Mapping(text, d) = Mapping(text, e) =>
            (text[d].name = text[e].name <=> renamed[d].name = renamed[e].name)
    BY DEF Inv, Alike, SameVariables
  <2>8. ASSUME x # Nobody PROVE y = x
    <3>1. /\ x \in Lets(text) /\ Mapping(text, x) = m
          /\ text[x].name = text[pos].name /\ text[x].end < pos
      BY <2>1, <2>3, <2>8 DEF Inv, Recorded
    <3>2. renamed[x].name = renamed[pos].name
      BY <1>1, <1>2, <1>3, <1>5, <2>7, <3>1, VariableRead
    <3>3. varsAfter[m][renamed[x].name] = x
      BY <3>1 DEF Inv, SameAssigned
    <3> QED  BY <3>2, <3>3
  <2>9. ASSUME y # Nobody PROVE x = y
    <3>1. /\ y \in Lets(renamed) /\ Mapping(renamed, y) = m
          /\ renamed[y].name = renamed[pos].name /\ renamed[y].end < pos
      BY <1>3, <2>1, <2>3, <2>9 DEF Inv, Recorded
    <3>2. text[y].name = text[pos].name
      <4>1. \A d, e \in Lets(renamed) : Mapping(renamed, d) = Mapping(renamed, e) =>
              (renamed[d].name = renamed[e].name => text[d].name = text[e].name)
        BY <2>4, <2>5, <2>7 DEF Lets
      <4>2. renamed[pos].kind = "ref" /\ pos \in DOMAIN renamed
        BY <1>1, <1>3, <1>5 DEF SameShape
      <4>3. y \in Lets(renamed) /\ Mapping(renamed, y) = Mapping(renamed, pos)
        BY <2>1, <3>1
      <4> HIDE DEF y
      <4> QED  BY <1>1, <1>2, <1>3, <2>6, <3>1, <4>1, <4>2, <4>3, VariableRead
    <3>3. Mapping(text, y) = m /\ y \in Lets(text)
      BY <2>4, <2>5, <3>1 DEF Lets
    <3>4. vars[m][text[y].name] = y
      BY <3>1, <3>2, <3>3 DEF Inv, SameAssigned
    <3> QED  BY <3>2, <3>4
  <2> QED  BY <2>2, <2>8, <2>9
<1> QED  BY <1>4, <1>5

-----------------------------------------------------------------------------
\* The invariant is inductive.

LEMMA UnassignedRecords ==
  ASSUME NEW t, Parses(t), NEW u, Alike(t, u), NEW p
  PROVE  /\ Recorded(t, p, Unassigned(t)) /\ Recorded(u, p, Unassigned(t))
         /\ SameAssigned(t, u, Unassigned(t), Unassigned(t))
<1>1. \A m \in 0..Len(t), n \in Names : Unassigned(t)[m][n] = Nobody
  BY DEF Unassigned
<1>2. Len(u) = Len(t)
  BY AlikeParses
<1>3. \A d \in Lets(t) : /\ d # Nobody /\ Mapping(t, d) \in 0..Len(t)
                         /\ t[d].name \in Names /\ u[d].name \in Names
  BY DomainIs, MappingIn DEF Lets, Symbols, Alike, Nobody
<1> QED  BY <1>1, <1>2, <1>3 DEF Recorded, SameAssigned

LEMMA InvInit == Init => Inv
<1> SUFFICES ASSUME Init PROVE Inv
  OBVIOUS
<1>1. text \in Texts /\ Parses(text) /\ Names # {}
  BY TextsAssumption DEF Init
<1>2. Len(text) \in Nat /\ DOMAIN text = 1..Len(text)
  BY <1>1, DomainIs
<1>3. request \in [position : Nat, name : Names]
  BY <1>1 DEF Init
<1>4. vars \in Stores(text) /\ varsAfter \in Stores(text)
  BY DEF Init, Unassigned, Stores, Nobody
<1>5. Alike(text, renamed)
  <2>1. renamed = text /\ text \in [DOMAIN text -> Symbols]
    BY <1>1, DomainIs DEF Init, Parses
  <2> QED  BY <2>1 DEF Alike, SameShape, SameResolution, SameVariables
<1>6. /\ Recorded(text, pos, vars) /\ Recorded(renamed, pos, varsAfter)
      /\ SameAssigned(text, renamed, vars, varsAfter)
  BY <1>1, <1>5, UnassignedRecords DEF Init
<1> QED  BY <1>1, <1>2, <1>3, <1>4, <1>5, <1>6 DEF Inv, Init

LEMMA RenameKeeps ==
  ASSUME Inv, Parses(text), NEW i \in DOMAIN text, NEW new \in Names, Rename(i, new)
  PROVE  Inv'
<1>1. /\ phase = "idle" /\ phase' \in {"run", "refused"}
      /\ UNCHANGED <<text, pos, vars, varsAfter>>
      /\ vars = Unassigned(text) /\ varsAfter = Unassigned(text)
  BY DEF Rename, Inv
<1>2. request' \in [position : Nat, name : Names]
  BY DomainIs DEF Rename
<1>3. Alike(text, renamed')
  <2>1. CASE Accepts(text, i, new)
    BY <2>1, AcceptedAlike DEF Rename
  <2>2. CASE ~Accepts(text, i, new)
    BY <2>2 DEF Rename, Inv
  <2> QED  BY <2>1, <2>2
<1>4. /\ Recorded(text, pos, vars) /\ Recorded(renamed', pos, varsAfter)
      /\ SameAssigned(text, renamed', vars, varsAfter)
  BY <1>1, <1>3, UnassignedRecords
<1> QED  BY <1>1, <1>2, <1>3, <1>4 DEF Inv, Stores, Unassigned

\* At most one initializer ends at a symbol.
LEMMA AssignedBy ==
  ASSUME NEW t, Parses(t), NEW store, NEW d \in Lets(t)
  PROVE  Assigned(t, t[d].end, store) =
           [store EXCEPT ![Mapping(t, d)][t[d].name] = d]
<1> DEFINE p == t[d].end
<1>1. d \in DOMAIN t /\ d \in 1..p /\ p \in DOMAIN t /\ 1..p \subseteq DOMAIN t
  <2>1. d \in DOMAIN t /\ p \in d..Len(t) /\ DOMAIN t = 1..Len(t) /\ Len(t) \in Nat
    BY DomainIs DEF Lets, Parses
  <2> QED  BY <2>1, DomainIs
<1>2. ASSUME NEW e \in 1..p, t[e].kind = "let", t[e].end = p
      PROVE  e = d
  <2>1. e \in DOMAIN t /\ e \in Nat /\ d \in Nat /\ p \in Nat /\ e <= p /\ d <= p
    BY <1>1, DomainIs
  <2>2. ~(d < e)
    BY <1>1, <1>2, <2>1 DEF Parses, Lets
  <2>3. ~(e < d)
    BY <1>1, <1>2, <2>1 DEF Parses, Lets
  <2> QED  BY <2>1, <2>2, <2>3
<1>3. t[d].kind = "let"
  BY DEF Lets
<1>4. (CHOOSE e \in 1..p : t[e].kind = "let" /\ t[e].end = p) = d
  BY <1>1, <1>2, <1>3
<1> QED  BY <1>1, <1>3, <1>4 DEF Assigned

LEMMA AssignedNone ==
  ASSUME NEW t, Parses(t), NEW store, NEW p \in DOMAIN t,
         \A d \in Lets(t) : t[d].end # p
  PROVE  Assigned(t, p, store) = store
<1>1. 1..p \subseteq DOMAIN t
  BY DomainIs
<1> QED  BY <1>1 DEF Assigned, Lets

LEMMA RecordedLater ==
  ASSUME NEW t, Parses(t), NEW store, NEW p \in Nat, NEW q \in Nat, p <= q,
         Recorded(t, p, store)
  PROVE  Recorded(t, q, store)
<1>1. \A d \in Lets(t) : t[d].end < p => t[d].end < q
  <2> TAKE d \in Lets(t)
  <2>1. t[d].end \in Nat  BY DomainIs DEF Lets, Symbols
  <2> QED  BY <2>1
<1> QED  BY <1>1 DEF Recorded

LEMMA RecordedAssign ==
  ASSUME NEW t, Parses(t), NEW store \in Stores(t), NEW p \in Nat,
         Recorded(t, p, store), NEW d \in Lets(t), t[d].end = p
  PROVE  LET after == [store EXCEPT ![Mapping(t, d)][t[d].name] = d] IN
         after \in Stores(t) /\ Recorded(t, p + 1, after)
<1> DEFINE after == [store EXCEPT ![Mapping(t, d)][t[d].name] = d]
<1>1. Mapping(t, d) \in 0..Len(t) /\ t[d].name \in Names /\ d \in Nat
  BY DomainIs, MappingIn DEF Lets, Symbols
<1>2. after \in Stores(t)
  BY <1>1 DEF Stores
<1>3. \A m \in 0..Len(t), n \in Names :
        after[m][n] = IF m = Mapping(t, d) /\ n = t[d].name THEN d ELSE store[m][n]
  BY <1>1 DEF Stores
<1>4. Recorded(t, p + 1, store)
  BY RecordedLater
<1>5. Recorded(t, p + 1, after)
  <2> HIDE DEF after
  <2> QED  BY <1>3, <1>4 DEF Recorded
<1> QED  BY <1>2, <1>5

LEMMA SameAssign ==
  ASSUME NEW t, Parses(t), NEW u, Alike(t, u), NEW d \in Lets(t),
         NEW store \in Stores(t), NEW after \in Stores(t),
         SameAssigned(t, u, store, after)
  PROVE  SameAssigned(t, u, [store EXCEPT ![Mapping(t, d)][t[d].name] = d],
                            [after EXCEPT ![Mapping(t, d)][u[d].name] = d])
<1> DEFINE s == [store EXCEPT ![Mapping(t, d)][t[d].name] = d]
           a == [after EXCEPT ![Mapping(t, d)][u[d].name] = d]
<1>1. \A e \in Lets(t) : /\ Mapping(t, e) \in 0..Len(t)
                         /\ t[e].name \in Names /\ u[e].name \in Names
  BY DomainIs, MappingIn DEF Lets, Symbols, Alike
<1>2. \A m \in 0..Len(t), n \in Names :
        /\ s[m][n] = IF m = Mapping(t, d) /\ n = t[d].name THEN d ELSE store[m][n]
        /\ a[m][n] = IF m = Mapping(t, d) /\ n = u[d].name THEN d ELSE after[m][n]
  BY <1>1 DEF Stores
<1> HIDE DEF s, a
<1>3. ASSUME NEW e \in Lets(t)
      PROVE  s[Mapping(t, e)][t[e].name] = e <=> a[Mapping(t, e)][u[e].name] = e
  <2>1. store[Mapping(t, e)][t[e].name] = e <=> after[Mapping(t, e)][u[e].name] = e
    BY DEF SameAssigned
  <2>2. Mapping(t, e) = Mapping(t, d) => (t[e].name = t[d].name <=> u[e].name = u[d].name)
    BY DEF Alike, SameVariables
  <2> QED  BY <1>1, <1>2, <2>1, <2>2
<1>4. SameAssigned(t, u, s, a)
  BY <1>3 DEF SameAssigned
<1> QED  BY <1>4 DEF s, a

LEMMA ExecuteKeeps == ASSUME Inv, Parses(text), Execute PROVE Inv'
<1>1. /\ phase = "run" /\ pos' = pos + 1 /\ UNCHANGED <<text, phase, request, renamed>>
      /\ vars' = Assigned(text, pos, vars)
      /\ varsAfter' = Assigned(renamed, pos, varsAfter)
  BY DEF Execute
<1>2. /\ pos \in Nat /\ pos \in DOMAIN text /\ pos' \in 1..Len(text) + 1
  BY DomainIs DEF Execute, Inv
<1>3. Parses(renamed) /\ Len(renamed) = Len(text) /\ DOMAIN renamed = DOMAIN text
  BY AlikeParses DEF Inv
<1>4. /\ Lets(renamed) = Lets(text)
      /\ \A d \in Lets(text) : /\ renamed[d].end = text[d].end
                               /\ Mapping(renamed, d) = Mapping(text, d)
  <2>1. SameShape(text, renamed)
    BY DEF Inv, Alike
  <2> QED  BY <2>1, ShapeKeepsScopes DEF Lets, SameShape
<1>5. Stores(renamed) = Stores(text)
  BY <1>3 DEF Stores
<1>6. /\ vars' \in Stores(text) /\ varsAfter' \in Stores(text)
      /\ Recorded(text, pos + 1, vars') /\ Recorded(renamed, pos + 1, varsAfter')
      /\ SameAssigned(text, renamed, vars', varsAfter')
  <2>1. CASE \E d \in Lets(text) : text[d].end = pos
    <3>1. PICK d \in Lets(text) : text[d].end = pos
      BY <2>1
    <3>2. /\ vars' = [vars EXCEPT ![Mapping(text, d)][text[d].name] = d]
          /\ varsAfter' = [varsAfter EXCEPT ![Mapping(text, d)][renamed[d].name] = d]
      <4>1. vars' = [vars EXCEPT ![Mapping(text, d)][text[d].name] = d]
        BY <1>1, <1>2, <3>1, AssignedBy
      <4>2. d \in Lets(renamed) /\ renamed[d].end = pos /\ pos \in DOMAIN renamed
        BY <1>2, <1>3, <1>4, <3>1
      <4>3. varsAfter' = [varsAfter EXCEPT ![Mapping(renamed, d)][renamed[d].name] = d]
        BY <1>1, <1>3, <4>2, AssignedBy
      <4> QED  BY <1>4, <3>1, <4>1, <4>3
    <3>3. vars' \in Stores(text) /\ Recorded(text, pos + 1, vars')
      BY <1>2, <3>1, <3>2, RecordedAssign DEF Inv
    <3>4. varsAfter' \in Stores(text) /\ Recorded(renamed, pos + 1, varsAfter')
      BY <1>2, <1>3, <1>4, <1>5, <3>1, <3>2, RecordedAssign DEF Inv
    <3>5. SameAssigned(text, renamed, vars', varsAfter')
      BY <3>2, SameAssign DEF Inv
    <3> QED  BY <3>3, <3>4, <3>5
  <2>2. CASE \A d \in Lets(text) : text[d].end # pos
    <3>1. vars' = vars /\ varsAfter' = varsAfter
      BY <1>1, <1>2, <1>3, <1>4, <2>2, AssignedNone
    <3> QED  BY <1>2, <1>3, <3>1, RecordedLater DEF Inv
  <2> QED  BY <2>1, <2>2
<1> QED  BY <1>1, <1>2, <1>6 DEF Inv, Stores

LEMMA SkipKeeps == ASSUME Inv, Parses(text), Skip PROVE Inv'
<1>1. /\ phase = "run" /\ pos' = text[pos].end + 1
      /\ UNCHANGED <<text, phase, request, renamed, vars, varsAfter>>
  BY DEF Skip
<1>2. pos \in DOMAIN text /\ pos \in Nat /\ text[pos].end \in pos..Len(text) /\ Len(text) \in Nat
  BY DomainIs DEF Skip, Inv, Parses
<1>3. pos' \in 1..Len(text) + 1 /\ pos' \in Nat /\ pos <= pos'
  BY <1>1, <1>2
<1>4. Parses(renamed)
  BY AlikeParses DEF Inv
<1>5. Recorded(text, pos', vars) /\ Recorded(renamed, pos', varsAfter)
  BY <1>2, <1>3, <1>4, RecordedLater DEF Inv
<1> QED  BY <1>1, <1>3, <1>5 DEF Inv, Stores

-----------------------------------------------------------------------------
\* The invariant holds in every reachable state: the two texts are alike, and
\* what the two runs have assigned corresponds let by let.
THEOREM Invariance == Spec => []Inv
<1>1. Inv /\ [Next]_vars_ => Inv'
  <2> SUFFICES ASSUME Inv, [Next]_vars_ PROVE Inv'
    OBVIOUS
  <2>1. Parses(text)
    BY TextsAssumption DEF Inv
  <2>2. CASE \E i \in DOMAIN text, new \in Names : Rename(i, new)
    BY <2>1, <2>2, RenameKeeps
  <2>3. CASE Execute
    BY <2>1, <2>3, ExecuteKeeps
  <2>4. CASE Skip
    BY <2>1, <2>4, SkipKeeps
  <2>5. CASE UNCHANGED vars_
    BY <2>5 DEF vars_, Inv, Stores
  <2> QED  BY <2>2, <2>3, <2>4, <2>5 DEF Next
<1> QED  BY InvInit, <1>1, PTL DEF Spec

\* The rename is type correct in every reachable state.
THEOREM TypeCorrect == Spec => []TypeOK
<1>1. Inv => TypeOK
  BY DEF Inv, TypeOK, Alike, Stores
<1> QED  BY Invariance, <1>1, PTL

\* Whatever the text, the request and the branches that are taken, a renaming
\* that is not refused changes the result of no reference.
THEOREM NoResultChanges == Spec => []ReadsPreserved
<1>1. Inv => ReadsPreserved
  <2> SUFFICES ASSUME Inv PROVE ReadsPreserved
    OBVIOUS
  <2>1. Parses(text)
    BY TextsAssumption DEF Inv
  <2> QED  BY <2>1, ReadsAlike
<1> QED  BY Invariance, <1>1, PTL

-----------------------------------------------------------------------------
\* A renaming can be taken back.

\* What resolves to a declaration has its kind and its name.
LEMMA ResolvesAlike ==
  ASSUME NEW t, Parses(t), NEW i \in DOMAIN t, t[i].kind # "map",
         VisibleDefinition(t, i) # Nobody
  PROVE  LET d == VisibleDefinition(t, i) IN
         /\ d \in DOMAIN t /\ Declaration(t[d])
         /\ SameKind(t[d], t[i]) /\ t[d].name = t[i].name
<1>1. CASE Declaration(t[i])
  BY <1>1 DEF VisibleDefinition, SameKind
<1>2. CASE ~Declaration(t[i])
  <2>1. VisibleDefinition(t, i) \in Definitions(t, i)
    BY <1>2, VisibleIs
  <2> QED  BY <2>1, DomainIs DEF Definitions
<1> QED  BY <1>1, <1>2

\* The symbols that one renaming changes, by the declaration they resolve to.
InBinding(t, k, target) == t[k].kind # "map" /\ SameRenameBinding(t, VisibleDefinition(t, k), target)

LEMMA ChangedSymbol ==
  ASSUME NEW t, Parses(t), NEW target, NEW new \in Names, NEW k \in DOMAIN t
  PROVE  /\ Changed(t, target, new)[k] \in Symbols
         /\ Changed(t, target, new)[k].kind = t[k].kind
         /\ Changed(t, target, new)[k].end = t[k].end
         /\ Changed(t, target, new)[k].name =
              IF InBinding(t, k, target) THEN new ELSE t[k].name
<1>1. t[k] \in Symbols
  BY DomainIs
<1> QED  BY <1>1 DEF Changed, InBinding, Symbols

\* An accepted renaming, seen from both sides.
Renaming(t, u, target, old, new) ==
  /\ Parses(t) /\ Parses(u) /\ SameShape(t, u) /\ SameResolution(t, u)
  /\ old \in Names /\ new \in Names /\ old # new
  /\ target \in DOMAIN t /\ Declaration(t[target]) /\ t[target].name = old
  /\ u = Changed(t, target, new)
  /\ ~AlreadyDeclared(t, target, new)

\* A declaration resolves to itself.
LEMMA DeclarationsResolve ==
  ASSUME NEW t, NEW d, Declaration(t[d]) PROVE VisibleDefinition(t, d) = d
  BY DEF VisibleDefinition

\* The renamed binding has the symbols it had: none is lost, and since nobody
\* had the new name in that scope, none is gained.
LEMMA BindingKept ==
  ASSUME NEW t, NEW u, NEW target, NEW old, NEW new, Renaming(t, u, target, old, new),
         NEW k \in DOMAIN t
  PROVE  /\ InBinding(u, k, target) <=> InBinding(t, k, target)
         /\ InBinding(t, k, target) => t[k].name = old
<1> USE DEF Renaming
<1>1. CASE t[k].kind = "map"
  BY <1>1 DEF InBinding, SameShape
<1>2. CASE VisibleDefinition(t, k) = Nobody
  BY <1>2 DEF InBinding, SameResolution, SameRenameBinding, Referring, SameShape
<1>3. CASE t[k].kind # "map" /\ VisibleDefinition(t, k) # Nobody
  <2> DEFINE d == VisibleDefinition(t, k)
  <2>1. /\ d \in DOMAIN t /\ Declaration(t[d]) /\ t[d].name = t[k].name /\ d # Nobody
        /\ target # Nobody
    BY <1>3, ResolvesAlike, DomainIs DEF Nobody
  <2>2. VisibleDefinition(u, k) = d /\ u[k].kind # "map"
    BY <1>3 DEF SameResolution, Referring, SameShape
  <2> HIDE DEF d
  <2>3. VisibleDefinition(t, d) = d /\ VisibleDefinition(t, target) = target
    BY <2>1, DeclarationsResolve
  <2>4. t[d].kind # "map" /\ t[target].kind # "map"
    BY <2>1 DEF Declaration
  <2>5. SameRenameBinding(t, target, target)
    BY <2>1 DEF SameRenameBinding, SameKind
  <2>6. u[target].name = new
    BY <2>3, <2>4, <2>5, ChangedSymbol DEF InBinding
  <2>7. u[d].name = IF SameRenameBinding(t, d, target) THEN new ELSE t[d].name
    BY <2>1, <2>3, <2>4, ChangedSymbol DEF InBinding
  <2>8. /\ SameKind(u[d], u[target]) <=> SameKind(t[d], t[target])
        /\ Variable(u[d]) <=> Variable(t[d])
    BY <2>1 DEF SameKind, Variable, SameShape
  <2>9. ScopeOf(u, d) = ScopeOf(t, d) /\ ScopeOf(u, target) = ScopeOf(t, target)
    BY <2>1, ShapeKeepsScopes
  <2>10. SameRenameBinding(u, d, target) <=> SameRenameBinding(t, d, target)
    <3>1. CASE SameRenameBinding(t, d, target)
      BY <2>1, <2>6, <2>7, <2>8, <2>9, <3>1 DEF SameRenameBinding
    <3>2. CASE ~SameRenameBinding(t, d, target)
      <4>1. u[d].name = t[d].name
        BY <2>7, <3>2
      <4>2. ~(SameKind(t[d], t[target]) /\ t[d].name = new /\ ScopeOf(t, d) = ScopeOf(t, target))
        BY <2>1 DEF AlreadyDeclared
      <4> QED  BY <2>1, <2>6, <2>8, <2>9, <3>2, <4>1, <4>2 DEF SameRenameBinding
    <3> QED  BY <3>1, <3>2
  <2>11. SameRenameBinding(t, d, target) => t[d].name = old
    <3>1. CASE d = target
      BY <3>1
    <3>2. CASE d # target
      BY <3>2 DEF SameRenameBinding
    <3> QED  BY <3>1, <3>2
  <2> QED  BY <1>3, <2>1, <2>2, <2>10, <2>11 DEF InBinding, d
<1> QED  BY <1>1, <1>2, <1>3

LEMMA ChangedBack ==
  ASSUME NEW t, NEW u, NEW target, NEW old, NEW new, Renaming(t, u, target, old, new)
  PROVE  Changed(u, target, old) = t
<1> USE DEF Renaming
<1>1. DOMAIN u = DOMAIN t /\ DOMAIN Changed(u, target, old) = DOMAIN t
  BY DEF SameShape, Changed
<1>2. ASSUME NEW k \in DOMAIN t PROVE Changed(u, target, old)[k] = t[k]
  <2>1. /\ Changed(u, target, old)[k] \in Symbols
        /\ Changed(u, target, old)[k].kind = u[k].kind
        /\ Changed(u, target, old)[k].end = u[k].end
        /\ Changed(u, target, old)[k].name =
             IF InBinding(u, k, target) THEN old ELSE u[k].name
    BY <1>1, ChangedSymbol
  <2>2. /\ u[k].kind = t[k].kind /\ u[k].end = t[k].end
        /\ u[k].name = IF InBinding(t, k, target) THEN new ELSE t[k].name
    BY ChangedSymbol
  <2>3. /\ InBinding(u, k, target) <=> InBinding(t, k, target)
        /\ InBinding(t, k, target) => t[k].name = old
    BY BindingKept
  <2>4. t[k] \in Symbols
    BY DomainIs
  <2> QED  BY <2>1, <2>2, <2>3, <2>4 DEF Symbols
<1>3. t = [k \in DOMAIN t |-> t[k]]
  BY DEF Parses
<1>4. Changed(u, target, old) = [k \in DOMAIN t |-> Changed(u, target, old)[k]]
  BY <1>1 DEF Changed
<1> QED  BY <1>2, <1>3, <1>4

\* Nobody else has the old name in the scope of the binding that gave it up.
LEMMA OldNameFree ==
  ASSUME NEW t, NEW u, NEW target, NEW old, NEW new, Renaming(t, u, target, old, new)
  PROVE  ~AlreadyDeclared(u, target, old)
<1> USE DEF Renaming
<1> SUFFICES ASSUME NEW k \in DOMAIN u, Declaration(u[k]), SameKind(u[k], u[target]),
                    u[k].name = old, ScopeOf(u, k) = ScopeOf(u, target)
             PROVE  FALSE
  BY DEF AlreadyDeclared
<1>1. /\ k \in DOMAIN t /\ Declaration(t[k]) /\ SameKind(t[k], t[target])
      /\ ScopeOf(t, k) = ScopeOf(t, target)
  <2>1. k \in DOMAIN t /\ u[k].kind = t[k].kind /\ u[target].kind = t[target].kind
    BY DEF SameShape
  <2> QED  BY <2>1, ShapeKeepsScopes DEF Declaration, SameKind, Variable
<1>2. ~InBinding(t, k, target) /\ t[k].name = old
  BY <1>1, ChangedSymbol
<1>3. k # Nobody /\ target # Nobody /\ VisibleDefinition(t, k) = k /\ t[k].kind # "map"
  BY <1>1, DomainIs, DeclarationsResolve DEF Nobody, Declaration
<1>4. CASE Variable(t[k])
  BY <1>1, <1>2, <1>3, <1>4 DEF InBinding, SameRenameBinding
<1>5. CASE ~Variable(t[k])
  <2>1. t[k].kind = "param" /\ t[target].kind = "param"
    BY <1>1, <1>5 DEF Declaration, SameKind, Variable
  <2>2. k = target
    BY <1>1, <2>1, ParamScope
  <2> QED  BY <1>1, <1>2, <1>3, <1>5, <2>2 DEF InBinding, SameRenameBinding
<1> QED  BY <1>4, <1>5

\* The renaming that is run is one that was accepted.
Accepted ==
  phase = "run" =>
    /\ request.position \in DOMAIN text /\ request.name \in Names
    /\ Accepts(text, request.position, request.name)
    /\ renamed = Answer(text, request.position, request.name)

LEMMA TakenBack ==
  ASSUME NEW t, Parses(t), NEW i \in DOMAIN t, NEW new \in Names, Accepts(t, i, new)
  PROVE  /\ Accepts(Answer(t, i, new), i, t[i].name)
         /\ Answer(Answer(t, i, new), i, t[i].name) = t
<1> DEFINE target == VisibleDefinition(t, i)
           old == t[i].name
           u == Answer(t, i, new)
<1>1. CASE old = new
  BY <1>1 DEF Accepts, Answer
<1>2. CASE old # new
  <2>1. /\ t[i].kind # "map" /\ target # Nobody
        /\ ~AlreadyDeclared(t, target, new)
        /\ u = Changed(t, target, new)
    BY <1>2 DEF Accepts, Renameable, Answer
  <2>2. /\ target \in DOMAIN t /\ Declaration(t[target]) /\ t[target].name = old
        /\ SameKind(t[target], t[i])
    BY <2>1, ResolvesAlike
  <2>3. SameShape(t, u) /\ SameResolution(t, u) /\ Parses(u) /\ DOMAIN u = DOMAIN t
    BY AcceptedAlike, AlikeParses DEF Alike
  <2>4. old \in Names
    BY DomainIs DEF Symbols
  <2>5. SameRenameBinding(t, target, target)
    BY <2>1 DEF SameRenameBinding, SameKind
  <2>6. u[i].name = new /\ u[i].kind # "map" /\ VisibleDefinition(u, i) = target
    <3>1. InBinding(t, i, target)
      BY <2>1, <2>5 DEF InBinding
    <3>2. VisibleDefinition(u, i) = target
      BY <2>1, <2>3 DEF SameResolution, Referring
    <3> HIDE DEF target, u
    <3> QED  BY <2>1, <2>3, <3>1, <3>2, ChangedSymbol DEF SameShape
  <2> HIDE DEF target, old, u
  <2>7. Renaming(t, u, target, old, new)
    BY <1>2, <2>1, <2>2, <2>3, <2>4 DEF Renaming
  <2>8. Changed(u, target, old) = t /\ ~AlreadyDeclared(u, target, old)
    BY <2>7, ChangedBack, OldNameFree
  <2>9. ~Captures(u, t)
    BY <2>3 DEF Captures, SameResolution, Referring, SameShape
  <2>10. Accepts(u, i, old)
    BY <2>1, <2>6, <2>8, <2>9 DEF Accepts, Renameable
  <2>11. Answer(u, i, old) = t
    BY <1>2, <2>6, <2>8 DEF Answer
  <2> QED  BY <2>10, <2>11 DEF old, u
<1> QED  BY <1>1, <1>2

\* Renaming back to the old name, at the same position, is accepted and gives
\* the text there was: a renaming that is not refused merges no bindings.
THEOREM CanBeUndone == Spec => []Reversible
<1>1. Init => Accepted
  BY DEF Init, Accepted
<1>2. Inv /\ Accepted /\ [Next]_vars_ => Accepted'
  <2> SUFFICES ASSUME Inv, Accepted, [Next]_vars_ PROVE Accepted'
    OBVIOUS
  <2>1. ASSUME NEW i \in DOMAIN text, NEW new \in Names, Rename(i, new) PROVE Accepted'
    <3>1. /\ text' = text /\ request'.position = i /\ request'.name = new
          /\ phase' = "run" => Accepts(text, i, new) /\ renamed' = Answer(text, i, new)
      BY <2>1 DEF Rename
    <3> QED  BY <3>1 DEF Accepted
  <2>2. CASE Execute \/ Skip \/ UNCHANGED vars_
    BY <2>2 DEF Execute, Skip, vars_, Accepted
  <2> QED  BY <2>1, <2>2 DEF Next
<1>3. Inv /\ Accepted => Reversible
  <2> SUFFICES ASSUME Inv, Accepted, phase = "run" PROVE Reversible
    BY DEF Reversible
  <2>1. Parses(text)
    BY TextsAssumption DEF Inv
  <2> QED  BY <2>1, TakenBack DEF Accepted, Reversible
<1> QED  BY InvInit, Invariance, <1>1, <1>2, <1>3, PTL DEF Spec

=============================================================================
