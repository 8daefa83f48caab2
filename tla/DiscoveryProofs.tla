--------------------------- MODULE DiscoveryProofs ---------------------------
(***************************************************************************)
(* Proofs about Discovery, for every finite tree, whatever it holds, and   *)
(* for every argument.                                                     *)
(*                                                                         *)
(* The reference, Excluded, asks one directory after the other; the policy *)
(* looks at all of them at once, each under the rules that another entry   *)
(* below it would meet.  They agree because the directories under one      *)
(* boundary share it (LevelsShare), so that Excluded has a form without    *)
(* recursion (Hidden, ExcludedIs).  What holds of every directory is       *)
(* proved from the root down (DownTheTree).  A scan loses no file because  *)
(* what is not listed is below something it has still to visit (Covers),   *)
(* and finds no hidden one because it visits the children of visible       *)
(* directories alone (Within).                                             *)
(***************************************************************************)
EXTENDS Discovery, FunctionTheorems, FiniteSetTheorems, WellFoundedInduction, TLAPS

-----------------------------------------------------------------------------
(* The tree *)

LEMMA SmallestChain ==
  ASSUME NEW S \in SUBSET Dirs, S # {}
  PROVE  \E d \in S : \A c \in S : Chain[c] \subseteq Chain[d] => Chain[c] = Chain[d]
  <1> DEFINE chains == {Chain[d] : d \in S}
  <1>1. IsFiniteSet(Dirs)
    BY DiscoveryAssumption, FS_Subset DEF Tree
  <1>2. IsWellFoundedOn(StrictSubsetOrdering(Dirs), FiniteSubsetsOf(Dirs))
    BY <1>1, FS_StrictSubsetOrderingWellFounded
  <1>3. chains \subseteq FiniteSubsetsOf(Dirs) /\ chains # {}
    BY <1>1, DiscoveryAssumption, FS_FiniteSubsetsOfFinite
  <1>4. PICK s \in chains : \A t \in chains : ~(<<t, s>> \in StrictSubsetOrdering(Dirs))
    BY <1>2, <1>3, WFMin
  <1>5. PICK d \in S : s = Chain[d]
    BY <1>4
  <1>6. ASSUME NEW c \in S, Chain[c] \subseteq Chain[d]
        PROVE  Chain[c] = Chain[d]
    <2>1. Chain[c] \in chains /\ ~(<<Chain[c], Chain[d]>> \in StrictSubsetOrdering(Dirs))
      BY <1>4, <1>5
    <2>2. Chain[c] \in SUBSET Dirs /\ Chain[d] \in SUBSET Dirs
      BY DiscoveryAssumption
    <2> QED
      BY <1>6, <2>1, <2>2 DEF StrictSubsetOrdering
  <1> QED
    BY <1>6

\* A directory, its parent and the directories above them.
LEMMA ChainOf ==
  ASSUME NEW d \in Dirs
  PROVE  /\ Chain[d] \subseteq Dirs /\ d \in Chain[d]
         /\ d = Top => Chain[d] = {d}
         /\ d # Top => /\ Parent[d] \in Dirs
                       /\ Chain[d] = {d} \cup Chain[Parent[d]] /\ d \notin Chain[Parent[d]]
  BY DiscoveryAssumption DEF Tree

\* What holds of the root, and of a directory when it does of the one it is in.
LEMMA DownTheTree ==
  ASSUME NEW G, Top \in G, \A d \in Dirs \ {Top} : Parent[d] \in G => d \in G
  PROVE  Dirs \subseteq G
  <1>1. SUFFICES ASSUME Dirs \ G # {} PROVE FALSE
    OBVIOUS
  <1>2. PICK d \in Dirs \ G : \A c \in Dirs \ G : Chain[c] \subseteq Chain[d] => Chain[c] = Chain[d]
    BY <1>1, SmallestChain
  <1>3. d # Top /\ Parent[d] \in Dirs \ G
    BY <1>2, ChainOf
  <1>4. Chain[Parent[d]] \subseteq Chain[d] /\ Chain[Parent[d]] # Chain[d]
    BY <1>2, <1>3, ChainOf
  <1> QED
    BY <1>2, <1>3, <1>4

LEMMA TopAbove == \A d \in Dirs : Top \in Chain[d]
  <1> DEFINE G == {d \in Dirs : Top \in Chain[d]}
  <1>1. Top \in G
    BY ChainOf, DiscoveryAssumption
  <1>2. \A d \in Dirs \ {Top} : Parent[d] \in G => d \in G
    BY ChainOf
  <1> HIDE DEF G
  <1>3. Dirs \subseteq G
    BY <1>1, <1>2, DownTheTree
  <1> QED
    BY <1>3 DEF G

LEMMA ChainTransitive ==
  ASSUME NEW d \in Dirs, NEW c \in Chain[d]
  PROVE  c \in Dirs /\ Chain[c] \subseteq Chain[d]
  <1> DEFINE G == {x \in Dirs : \A y \in Chain[x] : Chain[y] \subseteq Chain[x]}
  <1>1. Top \in G
    BY ChainOf, DiscoveryAssumption
  <1>2. \A x \in Dirs \ {Top} : Parent[x] \in G => x \in G
    BY ChainOf
  <1> HIDE DEF G
  <1>3. d \in G
    BY <1>1, <1>2, DownTheTree
  <1> QED
    BY <1>3, ChainOf DEF G

LEMMA ChainAntisymmetric ==
  ASSUME NEW d \in Dirs, NEW c \in Chain[d], d \in Chain[c]
  PROVE  c = d
  <1>1. SUFFICES ASSUME c # d PROVE FALSE
    OBVIOUS
  <1>2. d # Top /\ Parent[d] \in Dirs /\ c \in Chain[Parent[d]] /\ d \notin Chain[Parent[d]]
    BY <1>1, ChainOf
  <1>3. Chain[c] \subseteq Chain[Parent[d]]
    BY <1>2, ChainTransitive
  <1> QED
    BY <1>2, <1>3

LEMMA ChainTotal ==
  ASSUME NEW d \in Dirs, NEW a \in Chain[d], NEW b \in Chain[d]
  PROVE  a \in Chain[b] \/ b \in Chain[a]
  <1> DEFINE G == {x \in Dirs : \A y, z \in Chain[x] : y \in Chain[z] \/ z \in Chain[y]}
  <1>1. Top \in G
    BY ChainOf, DiscoveryAssumption
  <1>2. \A x \in Dirs \ {Top} : Parent[x] \in G => x \in G
    BY ChainOf
  <1> HIDE DEF G
  <1>3. d \in G
    BY <1>1, <1>2, DownTheTree
  <1> QED
    BY <1>3 DEF G

\* The directory of a path that follows a given one.
LEMMA NextBelow ==
  ASSUME NEW d \in Dirs, NEW a \in Chain[d], a # d
  PROVE  \E x \in Chain[d] : x \in Dirs \ {Top} /\ Parent[x] = a
  <1> DEFINE G == {y \in Dirs : \A c \in Chain[y] \ {y} :
                                  \E x \in Chain[y] : x \in Dirs \ {Top} /\ Parent[x] = c}
  <1>1. Top \in G
    BY ChainOf, DiscoveryAssumption
  <1>2. ASSUME NEW y \in Dirs \ {Top}, Parent[y] \in G
        PROVE  y \in G
    <2>1. SUFFICES ASSUME NEW c \in Chain[y] \ {y}
                   PROVE  \E x \in Chain[y] : x \in Dirs \ {Top} /\ Parent[x] = c
      OBVIOUS
    <2>2. Chain[y] = {y} \cup Chain[Parent[y]] /\ y \in Chain[y]
      BY ChainOf
    <2>3. CASE c = Parent[y]
      BY <2>2, <2>3
    <2>4. CASE c # Parent[y]
      BY <1>2, <2>1, <2>2, <2>4
    <2> QED
      BY <2>3, <2>4
  <1> HIDE DEF G
  <1>3. d \in G
    BY <1>1, <1>2, DownTheTree
  <1> QED
    BY <1>3 DEF G

LEMMA NearestOf ==
  ASSUME NEW d \in Dirs, NEW S \in SUBSET Chain[d], S # {}
  PROVE  Nearest(S) \in S /\ S \subseteq Chain[Nearest(S)]
  <1> DEFINE G == {y \in Dirs : \A T \in SUBSET Chain[y] : T # {} => \E x \in T : T \subseteq Chain[x]}
  <1>1. Top \in G
    <2>1. Chain[Top] = {Top} /\ Top \in Dirs
      BY ChainOf, DiscoveryAssumption
    <2>2. \A T \in SUBSET {Top} : T # {} => T = {Top}
      OBVIOUS
    <2> QED
      BY <2>1, <2>2
  <1>2. ASSUME NEW y \in Dirs \ {Top}, Parent[y] \in G
        PROVE  y \in G
    <2>1. SUFFICES ASSUME NEW T \in SUBSET Chain[y], T # {}
                   PROVE  \E x \in T : T \subseteq Chain[x]
      OBVIOUS
    <2>2. CASE y \in T
      BY <2>2
    <2>3. CASE y \notin T
      <3>1. T \in SUBSET Chain[Parent[y]]
        BY <2>3, ChainOf
      <3> QED
        BY <1>2, <2>1, <3>1
    <2> QED
      BY <2>2, <2>3
  <1> HIDE DEF G
  <1>3. d \in G
    BY <1>1, <1>2, DownTheTree
  <1>4. \E x \in S : S \subseteq Chain[x]
    BY <1>3 DEF G
  <1> QED
    BY <1>4 DEF Nearest

LEMMA TopmostOf ==
  ASSUME NEW d \in Dirs, NEW S \in SUBSET Chain[d], S # {}
  PROVE  Topmost(S) \in S /\ \A y \in S : Topmost(S) \in Chain[y]
  <1> DEFINE G == {y \in Dirs : \A T \in SUBSET Chain[y] :
                                  T # {} => \E x \in T : \A z \in T : x \in Chain[z]}
  <1>1. Top \in G
    BY ChainOf, DiscoveryAssumption
  <1>2. ASSUME NEW y \in Dirs \ {Top}, Parent[y] \in G
        PROVE  y \in G
    <2>1. SUFFICES ASSUME NEW T \in SUBSET Chain[y], T # {}
                   PROVE  \E x \in T : \A z \in T : x \in Chain[z]
      OBVIOUS
    <2>2. CASE T = {y}
      BY <2>2, ChainOf
    <2>3. CASE T # {y}
      <3>1. T \ {y} \in SUBSET Chain[Parent[y]] /\ T \ {y} # {}
        BY <2>1, <2>3, ChainOf
      <3>2. PICK x \in T \ {y} : \A z \in T \ {y} : x \in Chain[z]
        BY <1>2, <3>1
      <3>3. x \in Chain[y]
        BY <3>1, <3>2
      <3> QED
        BY <3>2, <3>3
    <2> QED
      BY <2>2, <2>3
  <1> HIDE DEF G
  <1>3. d \in G
    BY <1>1, <1>2, DownTheTree
  <1>4. \E x \in S : \A z \in S : x \in Chain[z]
    BY <1>3 DEF G
  <1> QED
    BY <1>4 DEF Topmost

-----------------------------------------------------------------------------
(* The boundary of the rules for a directory *)

\* A settings file in a directory or above it.
Configured(d) == {c \in Chain[d] : world.config[c] # NoDir}

LEMMA RootOf ==
  ASSUME NEW d \in Dirs
  PROVE  /\ ResolveSource(d) = NoDir <=> Chain[d] \cap world.git = {}
         /\ ResolveSource(d) # NoDir =>
              /\ ResolveSource(d) \in Chain[d] \cap world.git
              /\ \A c \in Chain[d] \cap world.git : c \in Chain[ResolveSource(d)]
  <1> DEFINE roots == Chain[d] \cap world.git
  <1>1. CASE roots = {}
    BY <1>1 DEF ResolveSource
  <1>2. CASE roots # {}
    <2>1. ResolveSource(d) = Nearest(roots)
      BY <1>2 DEF ResolveSource
    <2>2. Nearest(roots) \in roots /\ roots \subseteq Chain[Nearest(roots)]
      BY <1>2, NearestOf
    <2>3. Nearest(roots) # NoDir
      BY <2>2, ChainOf, DiscoveryAssumption DEF Tree
    <2> QED
      BY <1>2, <2>1, <2>2, <2>3
  <1> QED
    BY <1>1, <1>2

\* The three places where the rules for a directory can begin.
LEMMA BoundaryCases ==
  ASSUME NEW from, NEW d \in Dirs
  PROVE  /\ Boundary(from, d) \in Chain[d]
         /\ ResolveSource(d) # NoDir => Boundary(from, d) = ResolveSource(d)
         /\ ResolveSource(d) = NoDir /\ Configured(d) # {} =>
              Boundary(from, d) = Topmost(Configured(d))
         /\ ResolveSource(d) = NoDir /\ Configured(d) = {} =>
              Boundary(from, d) = IF from \in Chain[d] THEN from ELSE d
  <1>1. d \in Chain[d]
    BY ChainOf
  <1>2. CASE ResolveSource(d) # NoDir
    BY <1>1, <1>2, RootOf DEF Boundary
  <1>3. CASE ResolveSource(d) = NoDir /\ Configured(d) # {}
    <2>1. Topmost(Configured(d)) \in Chain[d]
      BY <1>3, TopmostOf DEF Configured
    <2>2. Boundary(from, d) = Topmost(Configured(d))
      BY <1>3, <2>1 DEF Boundary, Configured
    <2> QED
      BY <1>3, <2>1, <2>2
  <1>4. CASE ResolveSource(d) = NoDir /\ Configured(d) = {}
    <2>1. Boundary(from, d) = IF from \in Chain[d] THEN from ELSE d
      BY <1>4 DEF Boundary, Configured
    <2> QED
      BY <1>1, <1>4, <2>1
  <1> QED
    BY <1>2, <1>3, <1>4

\* Below its boundary a directory shares it with the directory it is in, and is
\* no Git root.
LEMMA BoundaryOfParent ==
  ASSUME NEW from, NEW d \in Dirs, d # Boundary(from, d)
  PROVE  /\ d # Top /\ d \notin world.git /\ Parent[d] \in Dirs
         /\ Boundary(from, Parent[d]) = Boundary(from, d)
  <1>1. d # Top /\ Parent[d] \in Dirs /\ Chain[d] = {d} \cup Chain[Parent[d]]
        /\ d \notin Chain[Parent[d]] /\ d \in Chain[d]
    BY BoundaryCases, ChainOf
  <1> DEFINE p == Parent[d]
  <1> HIDE DEF p
  <1>2. p \in Dirs /\ Chain[d] = {d} \cup Chain[p] /\ d \notin Chain[p] /\ Chain[p] \subseteq Chain[d]
    BY <1>1 DEF p
  <1>3. Boundary(from, d) \in Chain[p]
    BY <1>2, BoundaryCases
  <1>4. CASE ResolveSource(d) # NoDir
    <2>1. Boundary(from, d) = ResolveSource(d) /\ ResolveSource(d) \in world.git
      BY <1>4, BoundaryCases, RootOf
    <2>2. d \notin world.git
      <3>1. SUFFICES ASSUME d \in world.git PROVE FALSE
        OBVIOUS
      <3>2. d \in Chain[ResolveSource(d)]
        BY <1>1, <1>4, <3>1, RootOf
      <3>3. ResolveSource(d) = d
        BY <1>4, <3>2, RootOf, ChainAntisymmetric
      <3> QED
        BY <2>1, <3>3
    <2>3. ResolveSource(p) # NoDir
      BY <1>2, <1>3, <2>1, RootOf
    <2>4. ResolveSource(p) \in Chain[ResolveSource(d)] /\ ResolveSource(d) \in Chain[ResolveSource(p)]
      BY <1>2, <1>3, <1>4, <2>1, <2>3, RootOf
    <2>5. ResolveSource(d) \in Dirs
      BY <1>2, <1>3, <2>1, ChainOf
    <2>6. ResolveSource(p) = ResolveSource(d)
      BY <2>4, <2>5, ChainAntisymmetric
    <2>7. Boundary(from, p) = Boundary(from, d)
      BY <1>2, <2>1, <2>3, <2>6, BoundaryCases
    <2> QED
      BY <1>1, <2>2, <2>7 DEF p
  <1>5. CASE ResolveSource(d) = NoDir
    <2>1. Chain[d] \cap world.git = {} /\ d \notin world.git
      BY <1>1, <1>5, RootOf
    <2>2. ResolveSource(p) = NoDir
      BY <1>2, <2>1, RootOf
    <2>3. Configured(p) = Configured(d) \ {d}
      BY <1>2 DEF Configured
    <2>4. CASE Configured(d) # {}
      <3> DEFINE t == Topmost(Configured(d))
                 u == Topmost(Configured(p))
      <3>1. t \in Configured(d) /\ \A y \in Configured(d) : t \in Chain[y]
        BY <2>4, TopmostOf DEF Configured
      <3>2. Boundary(from, d) = t
        BY <1>5, <2>4, BoundaryCases
      <3>3. t \in Configured(p) /\ Configured(p) # {} /\ t \in Dirs
        BY <1>2, <1>3, <2>3, <3>1, <3>2, ChainOf DEF Configured
      <3>4. u \in Configured(p) /\ \A y \in Configured(p) : u \in Chain[y]
        BY <1>2, <3>3, TopmostOf DEF Configured
      <3>5. u \in Chain[t] /\ t \in Chain[u]
        BY <2>3, <3>1, <3>3, <3>4
      <3> HIDE DEF t, u
      <3>6. u = t
        BY <3>3, <3>5, ChainAntisymmetric
      <3>7. Boundary(from, p) = u
        BY <1>2, <2>2, <3>3, BoundaryCases DEF u
      <3> QED
        BY <1>1, <2>1, <3>2, <3>6, <3>7 DEF p
    <2>5. CASE Configured(d) = {}
      <3>1. Boundary(from, d) = IF from \in Chain[d] THEN from ELSE d
        BY <1>5, <2>5, BoundaryCases
      <3>2. from \in Chain[p] /\ Boundary(from, d) = from
        BY <1>3, <1>2, <3>1
      <3>3. Boundary(from, p) = from
        BY <1>2, <2>2, <2>3, <2>5, <3>2, BoundaryCases
      <3> QED
        BY <1>1, <2>1, <3>2, <3>3 DEF p
    <2> QED
      BY <2>4, <2>5
  <1> QED
    BY <1>4, <1>5

LEMMA LevelsOf ==
  ASSUME NEW from, NEW d \in Dirs
  PROVE  /\ Levels(from, d) \subseteq Chain[d] /\ d \in Levels(from, d)
         /\ d = Boundary(from, d) => Levels(from, d) = {d}
         /\ d # Boundary(from, d) => Levels(from, d) = {d} \cup Levels(from, Parent[d])
  <1>1. Boundary(from, d) \in Chain[d] /\ d \in Chain[d]
    BY BoundaryCases, ChainOf
  <1>2. ASSUME d = Boundary(from, d)
        PROVE  Levels(from, d) = {d}
    BY <1>1, <1>2, ChainAntisymmetric DEF Levels
  <1>3. ASSUME d # Boundary(from, d)
        PROVE  Levels(from, d) = {d} \cup Levels(from, Parent[d])
    <2>1. Boundary(from, Parent[d]) = Boundary(from, d) /\ d # Top
      BY <1>3, BoundaryOfParent
    <2>2. Chain[d] = {d} \cup Chain[Parent[d]]
      BY <2>1, ChainOf
    <2> QED
      BY <1>1, <2>1, <2>2 DEF Levels
  <1>4. Levels(from, d) \subseteq Chain[d] /\ d \in Levels(from, d)
    BY <1>1 DEF Levels
  <1> QED
    BY <1>2, <1>3, <1>4

\* The directories under one boundary share it.
LEMMA LevelsShare ==
  ASSUME NEW from, NEW d \in Dirs, NEW c \in Levels(from, d), c # Boundary(from, d)
  PROVE  /\ c \in Dirs \ {Top} /\ c \notin world.git /\ Parent[c] \in Levels(from, d)
         /\ Boundary(from, Parent[c]) = Boundary(from, d)
  <1> DEFINE Shares(y) == \A x \in Levels(from, y) : Boundary(from, x) = Boundary(from, y)
             G == {y \in Dirs : Shares(y)}
  <1>1. ASSUME NEW y \in Dirs, y = Top \/ Parent[y] \in G
        PROVE  y \in G
    <2>1. CASE y = Boundary(from, y)
      BY <2>1, LevelsOf
    <2>2. CASE y # Boundary(from, y)
      <3>1. y # Top /\ Boundary(from, Parent[y]) = Boundary(from, y)
        BY <2>2, BoundaryOfParent
      <3>2. Levels(from, y) = {y} \cup Levels(from, Parent[y])
        BY <2>2, LevelsOf
      <3> QED
        BY <1>1, <3>1, <3>2
    <2> QED
      BY <2>1, <2>2
  <1>2. Top \in Dirs
    BY DiscoveryAssumption
  <1> HIDE DEF G
  <1>3. d \in G
    BY <1>1, <1>2, DownTheTree
  <1>4. Boundary(from, c) = Boundary(from, d)
    BY <1>3 DEF G
  <1>5. c \in Dirs /\ c \in Chain[d]
    BY LevelsOf, ChainOf
  <1>6. c # Top /\ c \notin world.git /\ Parent[c] \in Dirs /\ Boundary(from, Parent[c]) = Boundary(from, d)
    BY <1>4, <1>5, BoundaryOfParent
  <1>7. Parent[c] \in Chain[d] /\ Boundary(from, d) \in Chain[Parent[c]]
    BY <1>5, <1>6, ChainOf, ChainTransitive, BoundaryCases
  <1> QED
    BY <1>5, <1>6, <1>7 DEF Levels

-----------------------------------------------------------------------------
(* What is excluded, without recursion *)

\* An entry is ignored by the rules of the directory it is in and above it.
IgnoredHere(e) == IgnoredEntry(Levels(base, Parent[e]), Parent[e], e)

\* The directories an entry is in, below the boundary of its rules.
Around(e) == Levels(base, Parent[e]) \ {Boundary(base, Parent[e])}

Hidden ==
  {e \in Tree \ {Top} : /\ e \notin world.git /\ ~world.noIgnore
                        /\ IgnoredHere(e) \/ \E c \in Around(e) : IgnoredHere(c)}

LEMMA ParentOf ==
  ASSUME NEW e \in Tree \ {Top}
  PROVE  Parent[e] \in Dirs
  BY DiscoveryAssumption

LEMMA AroundOf ==
  ASSUME NEW e \in Tree \ {Top}
  PROVE  /\ Parent[e] = Boundary(base, Parent[e]) => Around(e) = {}
         /\ Parent[e] # Boundary(base, Parent[e]) =>
              /\ Parent[e] \in Dirs \ {Top} /\ Parent[e] \notin world.git
              /\ Around(e) = {Parent[e]} \cup Around(Parent[e])
  <1> DEFINE d == Parent[e]
  <1> HIDE DEF d
  <1>1. d \in Dirs
    BY ParentOf DEF d
  <1>2. ASSUME d = Boundary(base, d)
        PROVE  Levels(base, d) \ {Boundary(base, d)} = {}
    BY <1>1, <1>2, LevelsOf
  <1>3. ASSUME d # Boundary(base, d)
        PROVE  /\ d \in Dirs \ {Top} /\ d \notin world.git
               /\ Levels(base, d) \ {Boundary(base, d)}
                    = {d} \cup (Levels(base, Parent[d]) \ {Boundary(base, Parent[d])})
    BY <1>1, <1>3, LevelsOf, BoundaryOfParent
  <1> QED
    BY <1>2, <1>3 DEF Around, d

\* Between a directory around an entry and the boundary are the directories
\* around that directory.
LEMMA AroundBelow ==
  ASSUME NEW e \in Tree \ {Top}, NEW c \in Around(e)
  PROVE  /\ c \in Dirs \ {Top} /\ c \notin world.git
         /\ Around(c) \subseteq Around(e)
         /\ \A x \in Around(e) \cap Chain[c] : x = c \/ x \in Around(c)
         /\ Levels(base, Parent[e]) \cap Chain[Parent[c]] = Levels(base, Parent[c])
  <1> DEFINE d == Parent[e]
             b == Boundary(base, d)
  <1> HIDE DEF d, b
  <1>1. d \in Dirs /\ c \in Levels(base, d) /\ c # b
    BY ParentOf DEF Around, d, b
  <1>2. /\ c \in Dirs \ {Top} /\ c \notin world.git /\ Parent[c] \in Levels(base, d)
        /\ Boundary(base, Parent[c]) = b
    BY <1>1, LevelsShare DEF b
  <1>3. Parent[c] \in Dirs /\ Parent[c] \in Chain[d] /\ Chain[c] = {c} \cup Chain[Parent[c]]
    BY <1>1, <1>2, LevelsOf, ChainOf
  <1>4. Chain[Parent[c]] \subseteq Chain[d]
    BY <1>1, <1>3, ChainTransitive
  <1>5. Levels(base, d) \cap Chain[Parent[c]] = Levels(base, Parent[c])
    BY <1>2, <1>4 DEF Levels, b
  <1>6. Around(c) = (Levels(base, d) \cap Chain[Parent[c]]) \ {b}
    BY <1>2, <1>5 DEF Around
  <1>7. Around(e) = Levels(base, d) \ {b}
    BY DEF Around, d, b
  <1> QED
    BY <1>2, <1>3, <1>5, <1>6, <1>7 DEF d

\* The rule of Excluded, one directory at a time.
LEMMA HiddenRule ==
  ASSUME NEW e \in Tree \ {Top}
  PROVE  e \in Hidden <=>
           /\ e \notin world.git /\ ~world.noIgnore
           /\ \/ IgnoredEntry(Levels(base, Parent[e]), Parent[e], e)
              \/ Parent[e] # Boundary(base, Parent[e]) /\ Parent[e] \in Hidden
  <1>1. CASE Parent[e] = Boundary(base, Parent[e])
    <2>1. Around(e) = {}
      BY <1>1, AroundOf
    <2> QED
      BY <1>1, <2>1 DEF Hidden, IgnoredHere
  <1>2. CASE Parent[e] # Boundary(base, Parent[e])
    <2>1. /\ Parent[e] \in Tree \ {Top} /\ Parent[e] \notin world.git
          /\ Around(e) = {Parent[e]} \cup Around(Parent[e])
      BY <1>2, AroundOf DEF Tree
    <2>2. (\E c \in Around(e) : IgnoredHere(c))
            <=> IgnoredHere(Parent[e]) \/ \E c \in Around(Parent[e]) : IgnoredHere(c)
      BY <2>1
    <2>3. ~world.noIgnore =>
            (Parent[e] \in Hidden <=> \E c \in Around(e) : IgnoredHere(c))
      BY <2>1, <2>2 DEF Hidden
    <2>4. e \in Hidden <=> /\ e \notin world.git /\ ~world.noIgnore
                           /\ IgnoredHere(e) \/ \E c \in Around(e) : IgnoredHere(c)
      BY DEF Hidden
    <2> QED
      BY <1>2, <2>3, <2>4 DEF IgnoredHere
  <1> QED
    BY <1>1, <1>2

\* A function that obeys the rule of Excluded.
Excludes(f) ==
  f = [e \in Tree \ {Top} |->
         /\ e \notin world.git /\ ~world.noIgnore
         /\ LET d == Parent[e]
            IN  \/ IgnoredEntry(Levels(base, d), d, e)
                \/ d # Boundary(base, d) /\ f[d]]

LEMMA ExcludedObeys == Excludes(Excluded)
  <1> DEFINE h == [e \in Tree \ {Top} |-> e \in Hidden]
  <1>1. ASSUME NEW e \in Tree \ {Top}
        PROVE  h[e] = (/\ e \notin world.git /\ ~world.noIgnore
                       /\ \/ IgnoredEntry(Levels(base, Parent[e]), Parent[e], e)
                          \/ Parent[e] # Boundary(base, Parent[e]) /\ h[Parent[e]])
    <2>1. Parent[e] # Boundary(base, Parent[e]) => h[Parent[e]] = (Parent[e] \in Hidden)
      <3>1. Parent[e] # Boundary(base, Parent[e]) => Parent[e] \in Tree \ {Top}
        BY AroundOf DEF Tree
      <3> QED
        BY <3>1
    <2>2. h[e] = (e \in Hidden)
      OBVIOUS
    <2> HIDE DEF h
    <2>3. (e \in Hidden) = (/\ e \notin world.git /\ ~world.noIgnore
                            /\ \/ IgnoredEntry(Levels(base, Parent[e]), Parent[e], e)
                               \/ Parent[e] # Boundary(base, Parent[e]) /\ Parent[e] \in Hidden)
      <3>1. (e \in Hidden) <=> (/\ e \notin world.git /\ ~world.noIgnore
                               /\ \/ IgnoredEntry(Levels(base, Parent[e]), Parent[e], e)
                                  \/ Parent[e] # Boundary(base, Parent[e]) /\ Parent[e] \in Hidden)
        BY HiddenRule
      <3>2. CASE e \in Hidden
        BY <3>1, <3>2, Zenon
      <3>3. CASE e \notin Hidden
        <4>1. (e \in Hidden) = FALSE
          BY <3>3
        <4>2. (/\ e \notin world.git /\ ~world.noIgnore
               /\ \/ IgnoredEntry(Levels(base, Parent[e]), Parent[e], e)
                  \/ Parent[e] # Boundary(base, Parent[e]) /\ Parent[e] \in Hidden) = FALSE
          BY <3>1, <3>3
        <4> QED
          BY <4>1, <4>2, Zenon
      <3> QED
        BY <3>2, <3>3
    <2>4. CASE Parent[e] # Boundary(base, Parent[e])
      <3>1. h[Parent[e]] = (Parent[e] \in Hidden)
        BY <2>1, <2>4
      <3> QED
        BY <2>2, <2>3, <3>1, Zenon
    <2>5. CASE ~(Parent[e] # Boundary(base, Parent[e]))
      <3>1. h[e] = (/\ e \notin world.git /\ ~world.noIgnore
                    /\ IgnoredEntry(Levels(base, Parent[e]), Parent[e], e) \/ FALSE)
        BY <2>2, <2>3, <2>5
      <3>2. (Parent[e] # Boundary(base, Parent[e]) /\ h[Parent[e]]) = FALSE
        BY <2>5
      <3> QED
        BY <3>1, <3>2
    <2> QED
      BY <2>4, <2>5
  <1>2. Excludes(h)
    BY <1>1, Zenon DEF Excludes
  <1>3. \E f : Excludes(f)
    BY <1>2
  <1> QED
    BY <1>3 DEF Excludes, Excluded

LEMMA ExcludedIs ==
  ASSUME NEW e \in Tree \ {Top}
  PROVE  Excluded[e] <=> e \in Hidden
  <1>1. ASSUME NEW x \in Tree \ {Top},
               Parent[x] # Boundary(base, Parent[x]) =>
                 (Excluded[Parent[x]] <=> Parent[x] \in Hidden)
        PROVE  Excluded[x] <=> x \in Hidden
    <2>1. Excluded[x] = (/\ x \notin world.git /\ ~world.noIgnore
                         /\ \/ IgnoredEntry(Levels(base, Parent[x]), Parent[x], x)
                            \/ Parent[x] # Boundary(base, Parent[x]) /\ Excluded[Parent[x]])
      BY ExcludedObeys, Zenon DEF Excludes
    <2> QED
      BY <1>1, <2>1, HiddenRule, Zenon
  <1> DEFINE G == {y \in Dirs : y = Top \/ (Excluded[y] <=> y \in Hidden)}
  <1>2. Top \in G
    BY DiscoveryAssumption
  <1>3. ASSUME NEW y \in Dirs \ {Top}, Parent[y] \in G
        PROVE  y \in G
    <2>1. Parent[y] # Boundary(base, Parent[y]) => Parent[y] # Top
      BY ParentOf, BoundaryOfParent DEF Tree
    <2>2. y \in Tree \ {Top}
      BY DEF Tree
    <2> QED
      BY <1>1, <1>3, <2>1, <2>2
  <1> HIDE DEF G
  <1>4. Dirs \subseteq G
    BY <1>2, <1>3, DownTheTree
  <1>5. Parent[e] # Boundary(base, Parent[e]) => Parent[e] \in G \ {Top}
    BY <1>4, AroundOf
  <1> QED
    BY <1>1, <1>5 DEF G

-----------------------------------------------------------------------------
(* What the policy says of an entry, and what it reads for that *)

\* The directories the policy finds ignored around an entry.
Found(e) ==
  {c \in Around(e) : IgnoredEntry(Levels(base, Parent[e]), Parent[c], c)}

\* The rules for a directory are the same whichever entry below it is tried.
LEMMA FoundIs ==
  ASSUME NEW e \in Tree \ {Top}
  PROVE  Found(e) = {c \in Around(e) : IgnoredHere(c)}
  <1>1. ASSUME NEW c \in Around(e)
        PROVE  IgnoredEntry(Levels(base, Parent[e]), Parent[c], c) <=> IgnoredHere(c)
    <2>1. Levels(base, Parent[e]) \cap Chain[Parent[c]]
            = Levels(base, Parent[c]) \cap Chain[Parent[c]]
      BY AroundBelow
    <2> DEFINE rules(levels) ==
                 {r \in world.rules :
                    /\ r.entry = c /\ r.dir \in levels \cap Chain[Parent[c]]
                    /\ r.git => SettingsFor(r.dir).respect /\ SettingsFor(Parent[c]).respect}
    <2>2. rules(Levels(base, Parent[e])) = rules(Levels(base, Parent[c]))
      BY <2>1
    <2>3. IgnoredEntry(Levels(base, Parent[e]), Parent[c], c)
            <=> (c \in SettingsFor(Parent[c]).exclude \/ IgnoredBy(rules(Levels(base, Parent[e]))))
      BY Zenon DEF IgnoredEntry
    <2>4. IgnoredHere(c)
            <=> (c \in SettingsFor(Parent[c]).exclude \/ IgnoredBy(rules(Levels(base, Parent[c]))))
      BY Zenon DEF IgnoredEntry, IgnoredHere
    <2> HIDE DEF rules
    <2> QED
      BY <2>2, <2>3, <2>4
  <1> QED
    BY <1>1 DEF Found

LEMMA IgnoredIs ==
  ASSUME NEW e \in Tree \ {Top}
  PROVE  LET self == Ignored(base, e)
             tried == e \notin world.git /\ ~world.noIgnore
         IN  /\ self.opens = IF tried
                             THEN {c \in Levels(base, Parent[e]) : Chain[c] \cap Found(e) = {}}
                             ELSE {}
             /\ self.verdict = IF ~tried THEN "kept"
                               ELSE IF \E c \in self.opens : Unreadable(c) THEN "failed"
                               ELSE IF Found(e) # {} \/ IgnoredHere(e) THEN "ignored" ELSE "kept"
  <1> DEFINE d == Parent[e]
             excluded == {c \in Levels(base, d) \ {Boundary(base, d)} :
                            IgnoredEntry(Levels(base, d), Parent[c], c)}
  <1>1. excluded = Found(e)
    BY DEF Found, Around
  <1>2. CASE e \in world.git \/ world.noIgnore
    BY <1>2 DEF Ignored
  <1>3. CASE ~(e \in world.git \/ world.noIgnore)
    <2>1. Ignored(base, e) =
            [opens |-> {c \in Levels(base, d) : Chain[c] \cap excluded = {}},
             verdict |-> IF \E c \in {c \in Levels(base, d) : Chain[c] \cap excluded = {}} :
                              Unreadable(c) THEN "failed"
                         ELSE IF excluded # {} \/ IgnoredEntry(Levels(base, d), d, e)
                         THEN "ignored" ELSE "kept"]
      BY <1>3, Zenon DEF Ignored
    <2> HIDE DEF excluded
    <2> QED
      BY <1>1, <1>3, <2>1 DEF IgnoredHere
  <1> QED
    BY <1>2, <1>3

\* The verdict is the rule of Excluded, unless what it needs cannot be read.
LEMMA Verdicts ==
  ASSUME NEW e \in Tree \ {Top}
  PROVE  /\ Ignored(base, e).verdict = "failed" <=>
              \E c \in Ignored(base, e).opens : Unreadable(c)
         /\ Ignored(base, e).verdict = "ignored" => e \in Hidden
         /\ Ignored(base, e).verdict = "kept" => e \notin Hidden
         /\ Ignored(base, e).verdict \in {"kept", "ignored", "failed"}
         /\ Ignored(base, e).opens \subseteq Dirs
  <1> DEFINE v == Ignored(base, e).verdict
             o == Ignored(base, e).opens
             tried == e \notin world.git /\ ~world.noIgnore
  <1>1. e \in Hidden <=> tried /\ (Found(e) # {} \/ IgnoredHere(e))
    BY FoundIs DEF Hidden
  <1>2. /\ o = IF tried THEN {c \in Levels(base, Parent[e]) : Chain[c] \cap Found(e) = {}} ELSE {}
        /\ v = IF ~tried THEN "kept"
               ELSE IF \E c \in o : Unreadable(c) THEN "failed"
               ELSE IF Found(e) # {} \/ IgnoredHere(e) THEN "ignored" ELSE "kept"
    BY IgnoredIs, Zenon
  <1>3. o \subseteq Dirs
    BY <1>2, ParentOf, LevelsOf, ChainOf
  <1> HIDE DEF v, o
  <1>4. v = "failed" <=> \E c \in o : Unreadable(c)
    BY <1>2
  <1>5. (v = "ignored" => e \in Hidden) /\ (v = "kept" => e \notin Hidden)
        /\ v \in {"kept", "ignored", "failed"}
    BY <1>1, <1>2
  <1> QED
    BY <1>3, <1>4, <1>5 DEF v, o

\* Of the directories around an entry none is excluded that the policy reads,
\* or that holds one it reads.
LEMMA OpensAround ==
  ASSUME NEW e \in Tree \ {Top}, NEW o \in Ignored(base, e).opens, NEW c \in Chain[o] \cap Around(e)
  PROVE  c \notin Hidden
  <1>1. o \in Levels(base, Parent[e]) /\ Chain[o] \cap Found(e) = {}
    BY IgnoredIs, Zenon
  <1>2. o \in Dirs
    BY <1>1, ParentOf, LevelsOf, ChainOf
  <1>3. c \in Dirs \ {Top} /\ Around(c) \subseteq Around(e)
    BY AroundBelow
  <1>4. Chain[c] \subseteq Chain[o]
    BY <1>2, ChainTransitive
  <1>5. Around(c) \subseteq Chain[c]
    BY <1>3, ParentOf, LevelsOf, ChainOf DEF Around, Tree
  <1>6. c \notin Found(e) /\ \A x \in Around(c) : x \notin Found(e)
    BY <1>1, <1>4, <1>5
  <1>7. ~IgnoredHere(c) /\ \A x \in Around(c) : ~IgnoredHere(x)
    BY <1>3, <1>6, FoundIs
  <1> QED
    BY <1>7 DEF Hidden

-----------------------------------------------------------------------------
(* A scan does not change the tree *)

\* Directories whose settings or ignore file cannot be read.
Bad == {d \in Dirs : Unreadable(d)}

LEMMA SameSettings ==
  ASSUME world' = world
  PROVE  \A d : /\ ResolveSource(d)' = ResolveSource(d)
                /\ ConfigPath(d)' = ConfigPath(d)
                /\ SettingsFor(d)' = SettingsFor(d)
  <1>1. ASSUME NEW d PROVE ResolveSource(d)' = ResolveSource(d)
    BY DEF ResolveSource
  <1>2. ASSUME NEW d PROVE ConfigPath(d)' = ConfigPath(d)
    BY <1>1 DEF ConfigPath
  <1>3. ASSUME NEW d PROVE SettingsFor(d)' = SettingsFor(d)
    BY <1>2 DEF SettingsFor
  <1> QED
    BY <1>1, <1>2, <1>3

LEMMA SameLevels ==
  ASSUME world' = world, arg' = arg
  PROVE  \A d : /\ Boundary(base, d)' = Boundary(base, d)
                /\ Levels(base, d)' = Levels(base, d)
  <1>1. ASSUME NEW d PROVE Boundary(base, d)' = Boundary(base, d)
    BY SameSettings DEF Boundary, base
  <1>2. ASSUME NEW d PROVE Levels(base, d)' = Levels(base, d)
    BY <1>1 DEF Levels
  <1> QED
    BY <1>1, <1>2

LEMMA SameHidden ==
  ASSUME world' = world, arg' = arg
  PROVE  Hidden' = Hidden /\ Bad' = Bad /\ base' = base
  <1>1. ASSUME NEW e PROVE IgnoredHere(e)' <=> IgnoredHere(e)
    BY SameSettings, SameLevels DEF IgnoredHere, IgnoredEntry
  <1>2. ASSUME NEW e PROVE Around(e)' = Around(e)
    BY SameLevels DEF Around
  <1>3. Hidden' = Hidden
    BY <1>1, <1>2 DEF Hidden
  <1>4. Bad' = Bad
    BY SameSettings DEF Bad, Unreadable
  <1> QED
    BY <1>3, <1>4 DEF base

-----------------------------------------------------------------------------
(* The lines from the base down *)

\* The entries from directory b down to e.
Line(b, e) == {e} \cup {c \in Chain[IF e \in Dirs THEN e ELSE Parent[e]] : b \in Chain[c]}

LEMMA LineOf ==
  ASSUME NEW b \in Dirs \ {Top}, NEW e \in Tree \ {Top}
  PROVE  /\ Line(b, e) \subseteq Tree \ {Top}
         /\ \A x \in Line(b, e) : x = e \/ (x \in Dirs /\ b \in Chain[x] /\ x \in Chain[Parent[e]])
         /\ \A x \in Chain[Parent[e]] : b \in Chain[x] => x \in Line(b, e)
         /\ e \in Line(b, e)
  <1>1. Parent[e] \in Dirs
    BY ParentOf
  <1>2. e \in Dirs => Chain[e] = {e} \cup Chain[Parent[e]]
    BY ChainOf
  <1>3. Line(b, e) = {e} \cup {c \in Chain[Parent[e]] : b \in Chain[c]}
    BY <1>2 DEF Line
  <1>4. \A c \in Chain[Parent[e]] : b \in Chain[c] => c \in Dirs /\ c # Top
    BY <1>1, ChainOf
  <1> QED
    BY <1>3, <1>4 DEF Tree

LEMMA LineOfBase ==
  ASSUME NEW b \in Dirs \ {Top}
  PROVE  Line(b, b) = {b}
  BY ChainAntisymmetric DEF Line

LEMMA LineOfChild ==
  ASSUME NEW b \in Dirs \ {Top}, NEW d \in Dirs, b \in Chain[d], NEW x \in Children(d)
  PROVE  /\ Line(b, x) = {x} \cup Line(b, d)
         /\ d \in Line(b, d) /\ b \in Line(b, x)
  <1>1. x \in Tree \ {Top} /\ Parent[x] = d
    BY DEF Children
  <1>2. Line(b, x) = {x} \cup {c \in Chain[d] : b \in Chain[c]}
    BY <1>1, ChainOf DEF Line
  <1>3. Line(b, d) = {c \in Chain[d] : b \in Chain[c]}
    BY ChainOf DEF Line
  <1>4. b \in Chain[b] /\ d \in Chain[d]
    BY ChainOf
  <1> QED
    BY <1>2, <1>3, <1>4

LEMMA NextOnLine ==
  ASSUME NEW b \in Dirs \ {Top}, NEW e \in Tree \ {Top}, NEW t \in Line(b, e), t # e
  PROVE  t \in Dirs /\ \E x \in Children(t) : x \in Line(b, e)
  <1>1. Parent[e] \in Dirs /\ t \in Dirs /\ b \in Chain[t] /\ t \in Chain[Parent[e]]
    BY LineOf, ParentOf
  <1>2. CASE t = Parent[e]
    BY <1>1, <1>2, LineOf DEF Children
  <1>3. CASE t # Parent[e]
    <2>1. PICK x \in Chain[Parent[e]] : x \in Dirs \ {Top} /\ Parent[x] = t
      BY <1>1, <1>3, NextBelow
    <2>2. b \in Chain[x]
      BY <1>1, <2>1, ChainOf
    <2> QED
      BY <1>1, <2>1, <2>2, LineOf DEF Children, Tree
  <1> QED
    BY <1>2, <1>3

-----------------------------------------------------------------------------
(* What a scan may visit, list and read *)

\* Entries below the base, in no excluded and no skipped directory.
Reachable ==
  {t \in Tree \ {Top} :
     base \in Line(base, t) /\ \A x \in Line(base, t) \ {t} : x \notin Hidden /\ x \notin Skipped}

Listed == {f \in Regular \cap Reachable : f \notin Hidden}

\* The directories above the base whose rules are tried for it.
Project == IF base \in world.git THEN {} ELSE Around(base)

\* Directories that may be read: of those below the base, and of those above it
\* in its project, none that is or holds one is excluded.
Clean ==
  {o \in Dirs : \A c \in Chain[o] \ {Top} : base \in Chain[c] \/ c \in Project => c \notin Hidden}

LEMMA SameView ==
  ASSUME world' = world, arg' = arg
  PROVE  Reachable' = Reachable /\ Listed' = Listed /\ Clean' = Clean
  <1>1. Hidden' = Hidden /\ base' = base
    BY SameHidden
  <1>2. Project' = Project
    BY <1>1, SameLevels DEF Project, Around
  <1>3. Reachable' = Reachable
    BY <1>1 DEF Reachable
  <1>4. Listed' = Listed
    BY <1>1, <1>3 DEF Listed
  <1>5. Clean' = Clean
    BY <1>1, <1>2 DEF Clean
  <1> QED
    BY <1>3, <1>4, <1>5

LEMMA ReachBase ==
  ASSUME base \in Dirs \ {Top}
  PROVE  base \in Reachable
  BY LineOfBase DEF Reachable, Tree

LEMMA ReachChildren ==
  ASSUME base \in Dirs \ {Top}, NEW d \in Reachable, d \in Dirs, d \notin Hidden, d \notin Skipped
  PROVE  Children(d) \subseteq Reachable
  <1>1. d \in Tree \ {Top} /\ base \in Line(base, d)
        /\ \A x \in Line(base, d) \ {d} : x \notin Hidden /\ x \notin Skipped
    BY DEF Reachable
  <1>2. base \in Chain[d]
    BY <1>1 , ChainOf DEF Line
  <1>3. ASSUME NEW x \in Children(d) PROVE x \in Reachable
    <2>1. Line(base, x) = {x} \cup Line(base, d) /\ base \in Line(base, x)
      BY <1>2, LineOfChild
    <2>2. x \in Tree \ {Top}
      BY DEF Children
    <2> QED
      BY <1>1, <2>1, <2>2 DEF Reachable
  <1> QED
    BY <1>3

\* Visible is what can be reached and is not excluded itself.
LEMMA VisibleIs ==
  ASSUME base \in Dirs \ {Top}
  PROVE  Visible = Listed
  <1>1. ASSUME NEW f \in Regular
        PROVE  f \in Visible <=> f \in Listed
    <2>1. f \in Tree \ {Top} /\ f \notin Dirs /\ f \notin Skipped
      BY DiscoveryAssumption DEF Tree
    <2>2. Path(f) = Line(base, f)
      BY DEF Path, Line
    <2>3. \A x \in Line(base, f) : Excluded[x] <=> x \in Hidden
      BY <2>1, LineOf, ExcludedIs
    <2>4. base \in Chain[Parent[f]] <=> base \in Line(base, f)
      BY <2>1, LineOf, ChainOf
    <2>5. f \in Line(base, f)
      BY <2>1, LineOf
    <2>6. f \in Visible <=> /\ base \in Chain[Parent[f]]
                            /\ \A x \in Path(f) : ~Excluded[x] /\ x \notin Skipped
      BY DEF Visible
    <2>7. f \in Visible <=> /\ base \in Line(base, f)
                            /\ \A x \in Line(base, f) : x \notin Hidden /\ x \notin Skipped
      BY <2>2, <2>3, <2>4, <2>6
    <2> QED
      BY <2>1, <2>5, <2>7 DEF Listed, Reachable
  <1>2. Visible \subseteq Regular /\ Listed \subseteq Regular
    BY DEF Visible, Listed
  <1> QED
    BY <1>1, <1>2

\* An entry that can be reached is below a base that is not excluded.
LEMMA ReachedBase ==
  ASSUME base \in Dirs \ {Top}, base \notin Hidden
  PROVE  \A c \in Project : c \notin Hidden
  <1>1. SUFFICES ASSUME NEW c \in Around(base), base \notin world.git
                 PROVE  c \notin Hidden
    BY DEF Project
  <1>2. base \in Tree \ {Top}
    BY DEF Tree
  <1>3. Around(c) \subseteq Around(base)
    BY <1>2, AroundBelow
  <1>4. world.noIgnore \/ \A x \in Around(base) : ~IgnoredHere(x)
    BY <1>1, <1>2 DEF Hidden
  <1> QED
    BY <1>3, <1>4 DEF Hidden

LEMMA OpensClean ==
  ASSUME base \in Dirs \ {Top}, NEW e \in Reachable
  PROVE  Ignored(base, e).opens \subseteq Clean
  <1>1. e \in Tree \ {Top} /\ base \in Line(base, e)
        /\ \A x \in Line(base, e) \ {e} : x \notin Hidden
    BY DEF Reachable
  <1>2. SUFFICES ASSUME NEW o \in Ignored(base, e).opens, NEW c \in Chain[o] \ {Top},
                        base \in Chain[c] \/ c \in Project
                 PROVE  c \notin Hidden
    BY <1>1, Verdicts DEF Clean
  <1>3. o \in Chain[Parent[e]] /\ Parent[e] \in Dirs
    BY <1>1, IgnoredIs, LevelsOf, ParentOf, Zenon
  <1>4. c \in Chain[Parent[e]]
    BY <1>3, ChainTransitive
  <1>5. CASE base \in Chain[c]
    <2>1. c \in Line(base, e)
      BY <1>1, <1>4, <1>5, LineOf
    <2>2. c # e
      <3>1. SUFFICES ASSUME c = e PROVE FALSE
        OBVIOUS
      <3>2. e \in Dirs /\ e \in Chain[Parent[e]]
        BY <1>3, <1>4, <3>1, ChainOf
      <3> QED
        BY <1>1, <3>2, ChainOf
    <2> QED
      BY <1>1, <2>1, <2>2
  <1>6. CASE c \in Project
    <2>1. CASE e = base
      <3>1. c \in Around(e)
        BY <1>6, <2>1 DEF Project
      <3> QED
        BY <1>1, <1>2, <3>1, OpensAround
    <2>2. CASE e # base
      BY <1>1, <1>6, <2>2, ReachedBase
    <2> QED
      BY <2>1, <2>2
  <1> QED
    BY <1>2, <1>5, <1>6

LEMMA EnteredClean ==
  ASSUME base \in Dirs \ {Top}, NEW d \in Reachable, d \in Dirs, d \notin Hidden
  PROVE  d \in Clean
  <1>1. d \in Tree \ {Top} /\ base \in Line(base, d) /\ \A x \in Line(base, d) : x \notin Hidden
    BY DEF Reachable
  <1>2. SUFFICES ASSUME NEW c \in Chain[d] \ {Top}, base \in Chain[c] \/ c \in Project
                 PROVE  c \notin Hidden
    BY DEF Clean
  <1>3. base \in Chain[c] => c \in Line(base, d)
    BY DEF Line
  <1> QED
    BY <1>1, <1>2, <1>3, ReachedBase

-----------------------------------------------------------------------------
(* Sequences of entries *)

LEMMA RangeOf ==
  ASSUME NEW S, NEW s \in Seq(S)
  PROVE  /\ Range(s) \subseteq S
         /\ s = <<>> => Range(s) = {}
         /\ s # <<>> => /\ Head(s) \in S /\ Tail(s) \in Seq(S)
                        /\ Range(s) = {Head(s)} \cup Range(Tail(s))
  <1>1. Range(s) \subseteq S /\ (s = <<>> => Range(s) = {})
    BY DEF Range
  <1>2. ASSUME s # <<>>
        PROVE  /\ Head(s) \in S /\ Tail(s) \in Seq(S)
               /\ Range(s) = {Head(s)} \cup Range(Tail(s))
    <2>1. Head(s) \in S /\ Tail(s) \in Seq(S) /\ Head(s) = s[1]
          /\ Len(s) \in Nat /\ Len(s) >= 1 /\ Len(Tail(s)) = Len(s) - 1
          /\ \A i \in 1..Len(Tail(s)) : Tail(s)[i] = s[i + 1]
      BY <1>2
    <2>2. ASSUME NEW x \in Range(s) PROVE x = Head(s) \/ x \in Range(Tail(s))
      <3>1. PICK i \in 1..Len(s) : x = s[i]
        BY <2>2 DEF Range
      <3>2. CASE i = 1
        BY <2>1, <3>1, <3>2
      <3>3. CASE i # 1
        <4>1. i - 1 \in 1..Len(Tail(s)) /\ Tail(s)[i - 1] = x
          BY <2>1, <3>1, <3>3
        <4>2. DOMAIN Tail(s) = 1..Len(Tail(s))
          BY <2>1
        <4> QED
          BY <4>1, <4>2, Zenon DEF Range
      <3> QED
        BY <3>2, <3>3
    <2>3. ASSUME NEW x \in Range(Tail(s)) PROVE x \in Range(s)
      <3>1. PICK i \in 1..Len(Tail(s)) : x = Tail(s)[i]
        BY <2>1, <2>3 DEF Range
      <3>2. i + 1 \in 1..Len(s) /\ s[i + 1] = x
        BY <2>1, <3>1
      <3> QED
        BY <3>2 DEF Range
    <2>4. Head(s) \in Range(s)
      BY <2>1 DEF Range
    <2> QED
      BY <2>1, <2>2, <2>3, <2>4
  <1> QED
    BY <1>1, <1>2

LEMMA RangeOfBoth ==
  ASSUME NEW S, NEW s \in Seq(S), NEW t \in Seq(S)
  PROVE  s \o t \in Seq(S) /\ Range(s \o t) = Range(s) \cup Range(t)
  <1>1. /\ s \o t \in Seq(S) /\ Len(s \o t) = Len(s) + Len(t) /\ Len(s) \in Nat /\ Len(t) \in Nat
        /\ \A i \in 1..Len(s) : (s \o t)[i] = s[i]
        /\ \A i \in 1..Len(t) : (s \o t)[Len(s) + i] = t[i]
    OBVIOUS
  <1>2. ASSUME NEW x \in Range(s \o t) PROVE x \in Range(s) \cup Range(t)
    <2>1. PICK i \in 1..Len(s \o t) : x = (s \o t)[i]
      BY <1>1, <1>2 DEF Range
    <2>2. CASE i <= Len(s)
      BY <1>1, <2>1, <2>2 DEF Range
    <2>3. CASE i > Len(s)
      <3>1. i - Len(s) \in 1..Len(t) /\ t[i - Len(s)] = x
        BY <1>1, <2>1, <2>3
      <3> QED
        BY <3>1 DEF Range
    <2> QED
      BY <1>1, <2>1, <2>2, <2>3
  <1>3. ASSUME NEW x \in Range(s) PROVE x \in Range(s \o t)
    <2>1. PICK i \in 1..Len(s) : x = s[i]
      BY <1>3 DEF Range
    <2>2. i \in 1..Len(s \o t) /\ (s \o t)[i] = x
      BY <1>1, <2>1
    <2> QED
      BY <1>1, <2>2 DEF Range
  <1>4. ASSUME NEW x \in Range(t) PROVE x \in Range(s \o t)
    <2>1. PICK i \in 1..Len(t) : x = t[i]
      BY <1>4 DEF Range
    <2>2. Len(s) + i \in 1..Len(s \o t) /\ (s \o t)[Len(s) + i] = x
      BY <1>1, <2>1
    <2> QED
      BY <1>1, <2>2 DEF Range
  <1> QED
    BY <1>1, <1>2, <1>3, <1>4

LEMMA SetToSeqOf ==
  ASSUME NEW S, NEW T \in SUBSET S, IsFiniteSet(T)
  PROVE  SetToSeq(T) \in Seq(S) /\ Range(SetToSeq(T)) = T
  <1> DEFINE n == Cardinality(T)
             f == SetToSeq(T)
  <1>1. n \in Nat /\ ExistsBijection(1..n, T)
    BY FS_CardinalityType
  <1>2. PICK g \in [1..n -> T] : \A a, b \in 1..n : g[a] = g[b] => a = b
    BY <1>1, Zenon DEF ExistsBijection, Bijection, Injection, IsInjective
  <1>3. IsInjective(g)
    BY <1>2 DEF IsInjective
  <1>4. f \in [1..n -> T] /\ IsInjective(f)
    BY <1>2, <1>3, Zenon DEF SetToSeq
  <1> HIDE DEF n, f
  <1>5. f \in Injection(1..n, T)
    BY <1>4 DEF Injection, IsInjective
  <1>6. Cardinality(1..n) = n
    BY <1>1, FS_Interval
  <1>7. f \in Surjection(1..n, T)
    BY <1>5, <1>6, FS_Injection DEF n
  <1>8. f \in Seq(S)
    BY <1>1, <1>4
  <1>9. Range(f) = T
    BY <1>4, <1>7 DEF Range, Surjection
  <1> QED
    BY <1>8, <1>9 DEF f

-----------------------------------------------------------------------------
(* The invariant of a scan *)

\* The files a scan has to list in the end.
Wanted ==
  {f \in Listed : \/ arg.kind = "files" \/ f \in Tool
                  \/ arg.kind = "children" /\ Parent[f] = base}

ScanTyped ==
  /\ arg \in Args /\ stage \in {"expand", "glob", "walk", "done", "failed"}
  /\ todo \in Seq(Tree \ {Top}) /\ found \subseteq Regular /\ opened \subseteq Dirs

\* What each stage is about: a pattern visits directories alone.
Staged ==
  /\ stage = "expand" => todo = <<>> /\ found = {} /\ opened = {}
  /\ arg.kind = "file" => /\ stage \in {"expand", "done"} /\ opened = {}
                          /\ stage = "done" => found = {arg.at}
  /\ stage = "glob" => arg.kind \in {"files", "children"} /\ Range(todo) \subseteq Dirs \ Skipped
  /\ stage = "walk" => arg.kind \in {"dir", "children"}
  /\ stage = "glob" /\ arg.kind = "children" => todo = <<>> \/ todo = <<base>>

\* A scan goes on as long as it could read what it opened.
Readable ==
  /\ stage # "failed" => opened \cap Bad = {}
  /\ stage = "failed" => opened \cap Bad # {} \/ (arg.kind # "dir" /\ found = {})

\* Nothing hidden is visited, opened or listed, ...
Within ==
  arg.kind # "file" =>
    Range(todo) \subseteq Reachable /\ opened \subseteq Clean /\ found \subseteq Wanted

\* ... and what is not listed yet is below an entry that is still to be visited.
\* A walk lists the files of a kind, so a pattern leaves it no other.
Covers ==
  /\ stage \in {"glob", "walk"} =>
       \A f \in Wanted \ found : \E t \in Range(todo) : t \in Line(base, f)
  /\ stage = "walk" => Wanted \ found \subseteq Tool
  /\ stage = "done" /\ arg.kind # "file" => Wanted \subseteq found

ScanInv == ScanTyped /\ Staged /\ Readable /\ Within /\ Covers

LEMMA SameWanted ==
  ASSUME world' = world, arg' = arg
  PROVE  Wanted' = Wanted
  <1>1. Listed' = Listed /\ base' = base
    BY SameView, SameHidden
  <1> QED
    BY <1>1 DEF Wanted

LEMMA BaseOf ==
  ASSUME arg \in Args, arg.kind # "file"
  PROVE  base \in Dirs \ {Top} /\ arg.kind \in {"dir", "files", "children"}
  BY DEF Args, base

LEMMA ChildrenOf ==
  ASSUME NEW d
  PROVE  Children(d) \subseteq Tree \ {Top} /\ IsFiniteSet(Children(d))
  <1>1. Children(d) \subseteq Tree
    BY DEF Children
  <1>2. IsFiniteSet(Children(d))
    BY <1>1, FS_Subset, DiscoveryAssumption
  <1> QED
    BY <1>2 DEF Children

\* What is to be listed is not hidden, nor is anything it is in below the base.
LEMMA WantedLine ==
  ASSUME base \in Dirs \ {Top}, NEW f \in Wanted, NEW t \in Line(base, f)
  PROVE  /\ t \notin Hidden /\ t \notin Skipped
         /\ t = f \/ (t \in Dirs /\ \E x \in Children(t) : x \in Line(base, f))
  <1>1. f \in Regular /\ f \notin Hidden /\ f \in Reachable /\ f \notin Skipped /\ f \in Tree \ {Top}
    BY DiscoveryAssumption DEF Wanted, Listed, Tree
  <1>2. t \notin Hidden /\ t \notin Skipped
    BY <1>1 DEF Reachable
  <1> QED
    BY <1>1, <1>2, NextOnLine

LEMMA ScanInvInit == ScanInit => ScanInv
  <1> SUFFICES ASSUME ScanInit PROVE ScanInv
    OBVIOUS
  <1>1. ScanTyped
    BY DEF ScanInit, ScanTyped
  <1>2. Range(todo) = {}
    BY RangeOf, <1>1 DEF ScanInit, ScanTyped
  <1> QED
    BY <1>1, <1>2 DEF ScanInit, ScanInv, Staged, Readable, Within, Covers

LEMMA ExpandKeeps ==
  ASSUME ScanInv, Expand
  PROVE  ScanInv'
  <1>1. /\ world' = world /\ arg' = arg /\ opened' = opened /\ stage = "expand"
        /\ opened = {} /\ found = {} /\ todo = <<>> /\ arg \in Args
        /\ todo \in Seq(Tree \ {Top})
    BY DEF Expand, ScanInv, Staged, ScanTyped
  <1>2. /\ Reachable' = Reachable /\ Clean' = Clean /\ Wanted' = Wanted
        /\ base' = base /\ Bad' = Bad
    BY <1>1, SameView, SameWanted, SameHidden
  <1>3. CASE arg.kind = "file"
    <2>1. stage' = "done" /\ found' = {arg.at} /\ todo' = todo /\ arg.at \in Regular
      BY <1>1, <1>3 DEF Expand, Args
    <2> QED
      BY <1>1, <1>2, <1>3, <2>1 DEF ScanInv, ScanTyped, Staged, Readable, Within, Covers
  <1>4. CASE arg.kind # "file" /\ stage' = "failed"
    <2>1. found' = found /\ todo' = todo /\ arg.kind # "dir"
      BY <1>1, <1>4 DEF Expand
    <2>2. Range(todo) = {}
      BY <1>1, RangeOf
    <2> QED
      BY <1>1, <1>2, <1>4, <2>1, <2>2 DEF ScanInv, ScanTyped, Staged, Readable, Within, Covers
  <1>5. CASE arg.kind # "file" /\ stage' # "failed"
    <2>1. base \in Dirs \ {Top}
      BY <1>1, <1>5, BaseOf
    <2>2. /\ found' = found /\ todo' = <<base>>
          /\ \/ stage' = "walk" /\ arg.kind = "dir"
             \/ stage' = "glob" /\ arg.kind \in {"files", "children"} /\ ~HardSkippedPrefix(base)
      BY <1>1, <1>5 DEF Expand, base
    <2>3. todo' \in Seq(Tree \ {Top}) /\ Range(todo') = {base}
      BY <2>1, <2>2 DEF Tree, Range
    <2>4. base \in Reachable
      BY <2>1, ReachBase
    <2>5. stage' = "glob" => base \notin Skipped
      <3>1. base \in Chain[base] /\ (ResolveSource(base) # NoDir => ResolveSource(base) \in Chain[base])
        BY <2>1, ChainOf, RootOf
      <3> QED
        BY <2>2, <3>1 DEF HardSkippedPrefix
    <2>6. \A f \in Wanted : base \in Line(base, f)
      BY DEF Wanted, Listed, Reachable
    <2>7. stage' = "walk" => Wanted \subseteq Tool
      BY <2>2 DEF Wanted
    <2> QED
      BY <1>1, <1>2, <1>5, <2>1, <2>2, <2>3, <2>4, <2>5, <2>6, <2>7
      DEF ScanInv, ScanTyped, Staged, Readable, Within, Covers
  <1> QED
    BY <1>3, <1>4, <1>5

LEMMA FinishKeeps ==
  ASSUME ScanInv, Finish
  PROVE  ScanInv'
  <1>1. /\ world' = world /\ arg' = arg /\ opened' = opened /\ todo' = todo /\ found' = found
        /\ stage \in {"glob", "walk"} /\ todo = <<>> /\ todo \in Seq(Tree \ {Top})
        /\ stage' = IF stage = "glob" /\ found = {} /\ ~pruned THEN "failed" ELSE "done"
    BY DEF Finish, ScanInv, ScanTyped
  <1>2. /\ Reachable' = Reachable /\ Clean' = Clean /\ Wanted' = Wanted
        /\ base' = base /\ Bad' = Bad
    BY <1>1, SameView, SameWanted, SameHidden
  <1>3. Range(todo) = {}
    BY <1>1, RangeOf
  <1> QED
    BY <1>1, <1>2, <1>3 DEF ScanInv, ScanTyped, Staged, Readable, Within, Covers

LEMMA VisitKeeps ==
  ASSUME ScanInv, Visit
  PROVE  ScanInv'
  <1> DEFINE e == Head(todo)
             rest == Tail(todo)
             self == Ignored(base, e)
             skip == e \in Skipped
             enters == e \in Dirs /\ ~skip /\ self.verdict = "kept"
             stops == ~skip /\ (self.verdict = "failed" \/ (enters /\ Unreadable(e)))
             below == IF enters THEN Children(e) ELSE {}
             lists == IF self.verdict = "kept" THEN {e} \cap Tool ELSE {}
             opens == (IF skip THEN {} ELSE self.opens) \cup (IF enters THEN {e} ELSE {})
  <1>1. /\ world' = world /\ arg' = arg /\ stage = "walk" /\ todo # <<>>
        /\ todo \in Seq(Tree \ {Top}) /\ arg \in Args /\ arg.kind \in {"dir", "children"}
        /\ found \subseteq Regular /\ opened \subseteq Dirs
    BY DEF Visit, ScanInv, ScanTyped, Staged
  <1>2. /\ Reachable' = Reachable /\ Clean' = Clean /\ Wanted' = Wanted
        /\ base' = base /\ Bad' = Bad
    BY <1>1, SameView, SameWanted, SameHidden
  <1>3. base \in Dirs \ {Top}
    BY <1>1, BaseOf
  <1>4. /\ e \in Tree \ {Top} /\ rest \in Seq(Tree \ {Top})
        /\ Range(todo) = {e} \cup Range(rest)
    BY <1>1, RangeOf
  <1>5. /\ Range(todo) \subseteq Reachable /\ opened \subseteq Clean /\ found \subseteq Wanted
        /\ opened \cap Bad = {} /\ Wanted \ found \subseteq Tool
        /\ \A f \in Wanted \ found : \E t \in Range(todo) : t \in Line(base, f)
    BY <1>1 DEF ScanInv, Readable, Within, Covers
  <1>6. e \in Reachable
    BY <1>4, <1>5
  <1>7. /\ opened' = opened \cup opens
        /\ stops => stage' = "failed" /\ todo' = todo /\ found' = found
        /\ ~stops => /\ todo' = (IF enters THEN SetToSeq(Children(e)) ELSE <<>>) \o rest
                     /\ found' = found \cup lists /\ stage' = stage
    BY Zenon DEF Visit, FailScan
  <1>8. /\ self.verdict = "failed" <=> \E c \in self.opens : Unreadable(c)
        /\ self.verdict = "ignored" => e \in Hidden
        /\ self.verdict = "kept" => e \notin Hidden
        /\ self.verdict \in {"kept", "ignored", "failed"}
        /\ self.opens \subseteq Dirs
    BY <1>4, Verdicts
  <1>9. opens \subseteq Clean /\ opens \subseteq Dirs
    <2>1. self.opens \subseteq Clean
      BY <1>3, <1>6, OpensClean
    <2>2. enters => e \in Clean
      BY <1>3, <1>6, <1>8, EnteredClean
    <2> HIDE DEF self
    <2> QED
      BY <1>8, <2>1, <2>2
  <1>10. stops <=> opens \cap Bad # {}
    <2>1. \A c \in self.opens : c \in Bad <=> Unreadable(c)
      BY <1>8 DEF Bad
    <2>2. e \in Dirs => (e \in Bad <=> Unreadable(e))
      BY DEF Bad
    <2> HIDE DEF self
    <2> QED
      BY <1>8, <2>1, <2>2
  <1>11. ~stops => todo' \in Seq(Tree \ {Top}) /\ Range(todo') = below \cup Range(rest)
    <2>1. SUFFICES ASSUME ~stops
                   PROVE  todo' \in Seq(Tree \ {Top}) /\ Range(todo') = below \cup Range(rest)
      OBVIOUS
    <2> DEFINE new == IF enters THEN SetToSeq(Children(e)) ELSE <<>>
    <2>2. new \in Seq(Tree \ {Top}) /\ Range(new) = below
      <3>1. SetToSeq(Children(e)) \in Seq(Tree \ {Top}) /\ Range(SetToSeq(Children(e))) = Children(e)
        BY ChildrenOf, SetToSeqOf
      <3>2. <<>> \in Seq(Tree \ {Top}) /\ Range(<<>>) = {}
        BY DEF Range
      <3> HIDE DEF enters
      <3> QED
        BY <3>1, <3>2
    <2>3. todo' = new \o rest
      BY <1>7, <2>1, Zenon
    <2> HIDE DEF new, rest, below
    <2> QED
      BY <1>4, <2>2, <2>3, RangeOfBoth
  <1>12. below \subseteq Reachable
    <2>1. enters => Children(e) \subseteq Reachable
      BY <1>3, <1>6, <1>8, ReachChildren
    <2> HIDE DEF enters
    <2> QED
      BY <2>1
  <1>13. ~stops => lists \subseteq Wanted
    <2>1. SUFFICES ASSUME self.verdict = "kept", e \in Tool PROVE e \in Wanted
      BY DEF lists
    <2>2. e \in Regular
      BY <2>1, DiscoveryAssumption
    <2> QED
      BY <1>6, <1>8, <2>1, <2>2 DEF Wanted, Listed
  <1>14. ASSUME ~stops, NEW f \in Wanted \ (found \cup lists)
         PROVE  \E t \in below \cup Range(rest) : t \in Line(base, f)
    <2>1. PICK t \in Range(todo) : t \in Line(base, f)
      BY <1>5, <1>14
    <2>2. CASE t \in Range(rest)
      BY <2>1, <2>2
    <2>3. CASE t = e
      <3>1. /\ e \notin Hidden /\ e \notin Skipped
            /\ e = f \/ (e \in Dirs /\ \E x \in Children(e) : x \in Line(base, f))
        BY <1>3, <1>14, <2>1, <2>3, WantedLine
      <3>2. self.verdict = "kept"
        BY <1>8, <1>14, <3>1
      <3>3. e # f
        BY <1>5, <1>14, <3>2
      <3> QED
        BY <3>1, <3>2, <3>3
    <2> QED
      BY <1>4, <2>1, <2>2, <2>3
  <1> HIDE DEF e, rest, self, skip, enters, stops, below, lists, opens
  <1>15. CASE stops
    BY <1>1, <1>2, <1>5, <1>7, <1>9, <1>10, <1>15
    DEF ScanInv, ScanTyped, Staged, Readable, Within, Covers
  <1>16. CASE ~stops
    <2>1. stage' = "walk" /\ found' = found \cup lists /\ opened' = opened \cup opens
          /\ Range(todo') = below \cup Range(rest) /\ todo' \in Seq(Tree \ {Top})
      BY <1>1, <1>7, <1>11, <1>16
    <2>2. found' \subseteq Wanted /\ found' \subseteq Regular
      BY <1>5, <1>13, <1>16, <2>1 DEF Wanted, Listed
    <2>3. ScanTyped' /\ Staged'
      BY <1>1, <1>2, <1>9, <2>1, <2>2 DEF ScanTyped, Staged
    <2>4. Readable'
      BY <1>2, <1>5, <1>10, <1>16, <2>1 DEF Readable
    <2>5. Within'
      BY <1>2, <1>4, <1>5, <1>9, <1>12, <2>1, <2>2 DEF Within
    <2>6. Covers'
      BY <1>2, <1>5, <1>14, <1>16, <2>1 DEF Covers
    <2> QED
      BY <2>3, <2>4, <2>5, <2>6 DEF ScanInv
  <1> QED
    BY <1>15, <1>16

\* ReadDir without its function of the tried entries.
LEMMA ReadDirIs ==
  ASSUME ReadDir
  PROVE  LET d == Head(todo)
             self == Ignored(base, d)
             present == Children(d) \ Skipped
             kept == {e \in present : Ignored(base, e).verdict = "kept"}
             below == IF self.verdict = "kept"
                      THEN {d} \cup UNION {Ignored(base, e).opens : e \in present} ELSE {}
             stops == \/ self.verdict = "failed" \/ Unreadable(d)
                      \/ \E e \in present : Ignored(base, e).verdict = "failed"
         IN  /\ stage = "glob" /\ todo # <<>> /\ world' = world /\ arg' = arg
             /\ opened' = opened \cup self.opens \cup below
             /\ self.verdict = "ignored" =>
                  todo' = Tail(todo) /\ stage' = stage /\ found' = found
             /\ self.verdict # "ignored" /\ stops =>
                  stage' = "failed" /\ todo' = todo /\ found' = found
             /\ self.verdict # "ignored" /\ ~stops =>
                  /\ found' = found \cup (kept \cap Regular)
                  /\ arg.kind = "files" =>
                       todo' = SetToSeq(kept \cap Dirs) \o Tail(todo) /\ stage' = stage
                  /\ arg.kind # "files" =>
                       /\ todo' = SetToSeq(kept \cap Dirs)
                       /\ stage' = IF kept \cap Dirs = {} THEN stage ELSE "walk"
  <1> DEFINE d == Head(todo)
             self == Ignored(base, d)
             present == Children(d) \ Skipped
             tried == [e \in present |-> Ignored(base, e)]
             kept == {e \in present : tried[e].verdict = "kept"}
             below == IF self.verdict = "kept" THEN {d} \cup UNION {tried[e].opens : e \in present}
                                               ELSE {}
             stops == \/ self.verdict = "failed" \/ Unreadable(d)
                      \/ \E e \in present : tried[e].verdict = "failed"
  <1>1. /\ stage = "glob" /\ todo # <<>> /\ world' = world /\ arg' = arg
        /\ opened' = opened \cup self.opens \cup below
        /\ self.verdict = "ignored" =>
             todo' = Tail(todo) /\ stage' = stage /\ found' = found
        /\ self.verdict # "ignored" /\ stops =>
             stage' = "failed" /\ todo' = todo /\ found' = found
        /\ self.verdict # "ignored" /\ ~stops =>
             /\ found' = found \cup (kept \cap Regular)
             /\ arg.kind = "files" =>
                  todo' = SetToSeq(kept \cap Dirs) \o Tail(todo) /\ stage' = stage
             /\ arg.kind # "files" =>
                  /\ todo' = SetToSeq(kept \cap Dirs)
                  /\ stage' = IF kept \cap Dirs = {} THEN stage ELSE "walk"
    BY Zenon DEF ReadDir, FailScan
  <1>2. \A e \in present : tried[e] = Ignored(base, e)
    OBVIOUS
  <1> HIDE DEF present, tried
  <1>3. /\ kept = {e \in present : Ignored(base, e).verdict = "kept"}
        /\ {tried[e].opens : e \in present} = {Ignored(base, e).opens : e \in present}
        /\ stops <=> \/ self.verdict = "failed" \/ Unreadable(d)
                     \/ \E e \in present : Ignored(base, e).verdict = "failed"
    BY <1>2
  <1> QED
    BY <1>1, <1>3, Zenon DEF present

LEMMA ReadDirKeeps ==
  ASSUME ScanInv, ReadDir
  PROVE  ScanInv'
  <1> DEFINE d == Head(todo)
             rest == Tail(todo)
             self == Ignored(base, d)
             present == Children(d) \ Skipped
             kept == {e \in present : Ignored(base, e).verdict = "kept"}
             below == IF self.verdict = "kept"
                      THEN {d} \cup UNION {Ignored(base, e).opens : e \in present} ELSE {}
             opens == self.opens \cup below
             stops == \/ self.verdict = "failed" \/ Unreadable(d)
                      \/ \E e \in present : Ignored(base, e).verdict = "failed"
             children == kept \cap Dirs
             lists == kept \cap Regular
  <1>1. /\ world' = world /\ arg' = arg /\ stage = "glob" /\ todo # <<>>
        /\ todo \in Seq(Tree \ {Top}) /\ arg \in Args /\ arg.kind \in {"files", "children"}
        /\ found \subseteq Regular /\ opened \subseteq Dirs /\ Range(todo) \subseteq Dirs \ Skipped
        /\ arg.kind = "children" => todo = <<base>>
    BY DEF ReadDir, ScanInv, ScanTyped, Staged
  <1>2. /\ Reachable' = Reachable /\ Clean' = Clean /\ Wanted' = Wanted
        /\ base' = base /\ Bad' = Bad
    BY <1>1, SameView, SameWanted, SameHidden
  <1>3. base \in Dirs \ {Top}
    BY <1>1, BaseOf
  <1>4. /\ d \in Tree \ {Top} /\ rest \in Seq(Tree \ {Top})
        /\ Range(todo) = {d} \cup Range(rest)
        /\ arg.kind = "children" => d = base /\ rest = <<>> /\ Range(rest) = {}
    <2>1. /\ d \in Tree \ {Top} /\ rest \in Seq(Tree \ {Top})
          /\ Range(todo) = {d} \cup Range(rest)
      BY <1>1, RangeOf
    <2>2. arg.kind = "children" => d = base /\ rest = <<>>
      <3>1. \A b \in Dirs : Head(<<b>>) = b /\ Tail(<<b>>) = <<>>
        OBVIOUS
      <3> QED
        BY <1>1, <1>3, <3>1, Zenon
    <2> QED
      BY <2>1, <2>2, RangeOf
  <1>5. /\ Range(todo) \subseteq Reachable /\ opened \subseteq Clean /\ found \subseteq Wanted
        /\ opened \cap Bad = {}
        /\ \A f \in Wanted \ found : \E t \in Range(todo) : t \in Line(base, f)
    BY <1>1 DEF ScanInv, Readable, Within, Covers
  <1>6. d \in Reachable /\ d \in Dirs /\ d \notin Skipped
    BY <1>1, <1>4, <1>5
  <1>7. /\ opened' = opened \cup opens
        /\ self.verdict = "ignored" => todo' = rest /\ stage' = "glob" /\ found' = found
        /\ self.verdict # "ignored" /\ stops =>
             stage' = "failed" /\ todo' = todo /\ found' = found
        /\ self.verdict # "ignored" /\ ~stops =>
             /\ found' = found \cup lists
             /\ arg.kind = "files" => todo' = SetToSeq(children) \o rest /\ stage' = "glob"
             /\ arg.kind # "files" =>
                  /\ todo' = SetToSeq(children)
                  /\ stage' = IF children = {} THEN "glob" ELSE "walk"
    <2>1. opened \cup self.opens \cup below = opened \cup opens
      OBVIOUS
    <2> HIDE DEF opens
    <2> QED
      BY <1>1, <2>1, ReadDirIs, Zenon
  <1>8. /\ self.verdict = "failed" <=> \E c \in self.opens : Unreadable(c)
        /\ self.verdict = "ignored" => d \in Hidden
        /\ self.verdict = "kept" => d \notin Hidden
        /\ self.verdict \in {"kept", "ignored", "failed"}
        /\ self.opens \subseteq Dirs
    BY <1>4, Verdicts
  <1>9. \A e \in present :
          /\ e \in Tree \ {Top} /\ e \notin Skipped /\ Parent[e] = d
          /\ Ignored(base, e).verdict = "failed" <=>
               \E c \in Ignored(base, e).opens : Unreadable(c)
          /\ Ignored(base, e).verdict = "ignored" => e \in Hidden
          /\ Ignored(base, e).verdict = "kept" => e \notin Hidden
          /\ Ignored(base, e).verdict \in {"kept", "ignored", "failed"}
          /\ Ignored(base, e).opens \subseteq Dirs
    BY Verdicts DEF Children
  <1>10. self.verdict = "kept" => present \subseteq Reachable
    BY <1>3, <1>6, <1>8, ReachChildren
  <1>11. opens \subseteq Clean /\ opens \subseteq Dirs
    <2>1. self.opens \subseteq Clean
      BY <1>3, <1>6, OpensClean
    <2>2. self.verdict = "kept" => d \in Clean
      BY <1>3, <1>6, <1>8, EnteredClean
    <2>3. self.verdict = "kept" => \A e \in present : Ignored(base, e).opens \subseteq Clean
      BY <1>3, <1>10, OpensClean
    <2> HIDE DEF self, present, d
    <2> QED
      BY <1>6, <1>8, <1>9, <2>1, <2>2, <2>3
  <1>12. /\ self.verdict = "ignored" => opens \cap Bad = {}
         /\ self.verdict # "ignored" => (stops <=> opens \cap Bad # {})
    <2>1. \A c \in self.opens : c \in Bad <=> Unreadable(c)
      BY <1>8 DEF Bad
    <2>2. d \in Bad <=> Unreadable(d)
      BY <1>6 DEF Bad
    <2>3. \A e \in present : \A c \in Ignored(base, e).opens : c \in Bad <=> Unreadable(c)
      BY <1>9 DEF Bad
    <2> HIDE DEF self, present, d
    <2>4. CASE self.verdict = "ignored"
      BY <1>8, <2>1, <2>4
    <2>5. CASE self.verdict = "failed"
      BY <1>8, <2>1, <2>5
    <2>6. CASE self.verdict = "kept"
      BY <1>8, <1>9, <2>1, <2>2, <2>3, <2>6
    <2> QED
      BY <1>8, <2>4, <2>5, <2>6
  <1>13. self.verdict # "ignored" /\ ~stops => self.verdict = "kept" /\ d \notin Hidden
    BY <1>8
  <1>14. /\ children \subseteq Tree \ {Top}
         /\ SetToSeq(children) \in Seq(Tree \ {Top}) /\ Range(SetToSeq(children)) = children
    <2>1. children \subseteq Children(d)
      OBVIOUS
    <2>2. IsFiniteSet(children) /\ children \in SUBSET (Tree \ {Top})
      BY <2>1, ChildrenOf, FS_Subset
    <2> QED
      BY <2>2, SetToSeqOf
  <1>15. children \subseteq Dirs \ Skipped /\ lists \subseteq Regular
    BY <1>9
  <1>16. self.verdict = "kept" => children \subseteq Reachable /\ lists \subseteq Wanted
    <2>1. self.verdict = "kept" => \A e \in kept : e \in Reachable /\ e \notin Hidden
      BY <1>9, <1>10
    <2>2. \A e \in kept : arg.kind = "children" => Parent[e] = base
      BY <1>4, <1>9
    <2> HIDE DEF kept, self
    <2> QED
      BY <1>1, <2>1, <2>2 DEF Wanted, Listed
  <1>17. ASSUME NEW f \in Wanted \ (found \cup lists), self.verdict = "ignored" \/ ~stops
         PROVE  \E t \in children \cup Range(rest) :
                  t \in Line(base, f) /\ (self.verdict = "ignored" => t \in Range(rest))
    <2>1. PICK t \in Range(todo) : t \in Line(base, f)
      BY <1>5, <1>17
    <2>2. CASE t \in Range(rest)
      BY <2>1, <2>2
    <2>3. CASE t = d
      <3>1. /\ d \notin Hidden
            /\ d = f \/ (d \in Dirs /\ \E x \in Children(d) : x \in Line(base, f))
        BY <1>3, <1>17, <2>1, <2>3, WantedLine
      <3>2. self.verdict = "kept" /\ ~stops
        BY <1>8, <1>17, <3>1
      <3>3. f \in Regular /\ d # f
        BY <1>6, <1>17, DiscoveryAssumption DEF Wanted, Listed
      <3>4. PICK x \in Children(d) : x \in Line(base, f)
        BY <3>1, <3>3
      <3>5. x \notin Hidden /\ x \notin Skipped /\ (x = f \/ x \in Dirs)
        BY <1>3, <1>17, <3>4, WantedLine
      <3>6. x \in kept
        BY <1>9, <3>2, <3>5
      <3>7. x # f
        BY <1>17, <3>3, <3>6
      <3> QED
        BY <3>2, <3>4, <3>5, <3>6, <3>7
    <2> QED
      BY <1>4, <2>1, <2>2, <2>3
  <1>18. self.verdict = "kept" /\ ~stops /\ arg.kind = "children" =>
           Wanted \ (found \cup lists) \subseteq Tool
    <2>1. SUFFICES ASSUME NEW f \in Wanted, f \notin lists, f \notin Tool,
                          self.verdict = "kept", ~stops, arg.kind = "children"
                   PROVE  FALSE
      OBVIOUS
    <2>2. f \in Regular /\ Parent[f] = d /\ f \in Tree \ {Top} /\ f \notin Hidden
      BY <1>4, <2>1, DiscoveryAssumption DEF Wanted, Listed, Tree
    <2>3. f \in present
      BY <2>2, DiscoveryAssumption DEF Children
    <2>4. f \in kept
      BY <1>9, <2>1, <2>2, <2>3
    <2> QED
      BY <2>1, <2>2, <2>4
  <1> HIDE DEF d, rest, self, present, kept, below, opens, stops, children, lists
  <1>19. CASE self.verdict = "ignored"
    <2>1. /\ stage' = "glob" /\ found' = found /\ todo' = rest /\ opened' = opened \cup opens
          /\ Range(todo') = Range(rest) /\ opens \cap Bad = {}
      BY <1>7, <1>12, <1>19
    <2>2. \A f \in Wanted \ found : \E t \in Range(rest) : t \in Line(base, f)
      <3>1. SUFFICES ASSUME NEW f \in Wanted \ found
                     PROVE  \E t \in Range(rest) : t \in Line(base, f)
        OBVIOUS
      <3>2. PICK t \in Range(todo) : t \in Line(base, f)
        BY <1>5
      <3>3. t # d
        BY <1>3, <1>8, <1>19, <3>2, WantedLine
      <3> QED
        BY <1>4, <3>2, <3>3
    <2>3. ScanTyped' /\ Staged'
      BY <1>1, <1>2, <1>4, <1>11, <2>1 DEF ScanTyped, Staged
    <2>4. Readable' /\ Within' /\ Covers'
      BY <1>1, <1>2, <1>4, <1>5, <1>11, <2>1, <2>2 DEF Readable, Within, Covers
    <2> QED
      BY <2>3, <2>4 DEF ScanInv
  <1>20. CASE self.verdict # "ignored" /\ stops
    BY <1>1, <1>2, <1>5, <1>7, <1>11, <1>12, <1>20
    DEF ScanInv, ScanTyped, Staged, Readable, Within, Covers
  <1>21. CASE self.verdict # "ignored" /\ ~stops
    <2>1. /\ stage' \in {"glob", "walk"} /\ (stage' = "walk" => arg.kind = "children")
          /\ found' = found \cup lists /\ opened' = opened \cup opens
          /\ stage' = "glob" /\ arg.kind = "children" => todo' = SetToSeq(children) /\ children = {}
      BY <1>1, <1>7, <1>21
    <2>2. todo' \in Seq(Tree \ {Top}) /\ Range(todo') = children \cup Range(rest)
      <3>1. CASE arg.kind = "files"
        <4>1. todo' = SetToSeq(children) \o rest
          BY <1>7, <1>21, <3>1
        <4> QED
          BY <1>4, <1>14, <4>1, RangeOfBoth
      <3>2. CASE arg.kind = "children"
        BY <1>4, <1>7, <1>14, <1>21, <3>2
      <3> QED
        BY <1>1, <3>1, <3>2
    <2>3. self.verdict = "kept" /\ children \subseteq Reachable /\ lists \subseteq Wanted
      BY <1>13, <1>16, <1>21
    <2>4. found' \subseteq Wanted /\ found' \subseteq Regular
      BY <1>1, <1>5, <1>15, <2>1, <2>3
    <2>5. ScanTyped'
      BY <1>1, <1>11, <2>1, <2>2, <2>4 DEF ScanTyped
    <2>6. Staged'
      <3>1. stage' = "glob" /\ arg.kind = "children" => todo' = <<>>
        <4>1. Range(todo') = {} => todo' = <<>>
          BY <2>2, RangeOf
        <4> QED
          BY <1>4, <2>1, <2>2, <4>1
      <3>2. Range(todo') \subseteq Dirs \ Skipped
        BY <1>1, <1>4, <1>15, <2>2
      <3> QED
        BY <1>1, <2>1, <3>1, <3>2 DEF Staged
    <2>7. Readable'
      BY <1>2, <1>5, <1>12, <1>21, <2>1 DEF Readable
    <2>8. Within'
      BY <1>2, <1>4, <1>5, <1>11, <2>1, <2>2, <2>3, <2>4 DEF Within
    <2>9. Covers'
      <3>1. \A f \in Wanted \ found' : \E t \in Range(todo') : t \in Line(base, f)
        BY <1>17, <1>21, <2>1, <2>2
      <3>2. stage' = "walk" => Wanted \ found' \subseteq Tool
        BY <1>18, <1>21, <2>1, <2>3
      <3> QED
        BY <1>2, <2>1, <3>1, <3>2 DEF Covers
    <2> QED
      BY <2>5, <2>6, <2>7, <2>8, <2>9 DEF ScanInv
  <1> QED
    BY <1>19, <1>20, <1>21

LEMMA ScanInvStep == ScanInv /\ [ScanNext]_scan => ScanInv'
  <1> SUFFICES ASSUME ScanInv, [ScanNext]_scan PROVE ScanInv'
    OBVIOUS
  <1>1. CASE UNCHANGED scan
    <2>1. /\ world' = world /\ arg' = arg /\ stage' = stage /\ todo' = todo
          /\ found' = found /\ opened' = opened
      BY <1>1 DEF scan
    <2>2. /\ Reachable' = Reachable /\ Clean' = Clean /\ Wanted' = Wanted
          /\ base' = base /\ Bad' = Bad
      BY <2>1, SameView, SameWanted, SameHidden
    <2> QED
      BY <2>1, <2>2 DEF ScanInv, ScanTyped, Staged, Readable, Within, Covers
  <1> QED
    BY <1>1, ExpandKeeps, ReadDirKeeps, VisitKeeps, FinishKeeps DEF ScanNext

LEMMA ScanInvariant == ScanSpec => []ScanInv
  BY ScanInvInit, ScanInvStep, PTL DEF ScanSpec

-----------------------------------------------------------------------------
(* Theorems *)

\* A scan that ends without an error has listed exactly the files that no
\* excluded and no skipped directory hides: the pruning of walks and of patterns
\* loses no file, and a negation brings none back (ListsVisible).
THEOREM VisibleListed == ScanSpec => []ListsVisible
  <1>1. ScanInv => ListsVisible
    <2>1. SUFFICES ASSUME ScanInv, stage = "done"
                   PROVE  CASE arg.kind = "file" -> found = {arg.at}
                            [] arg.kind = "files" -> found = Visible
                            [] arg.kind = "dir" -> found = Visible \cap Tool
                            [] OTHER -> found = {f \in Visible : f \in Tool \/ Parent[f] = base}
      BY DEF ListsVisible
    <2>2. arg \in Args /\ (arg.kind = "file" => found = {arg.at})
      BY <2>1 DEF ScanInv, ScanTyped, Staged
    <2>3. CASE arg.kind = "file"
      BY <2>2, <2>3
    <2>4. CASE arg.kind # "file"
      <3>1. base \in Dirs \ {Top} /\ arg.kind \in {"dir", "files", "children"}
        BY <2>2, <2>4, BaseOf
      <3>2. Visible = Listed
        BY <3>1, VisibleIs
      <3>3. found = Wanted
        BY <2>1, <2>4 DEF ScanInv, Within, Covers
      <3>4. Wanted = {f \in Visible : \/ arg.kind = "files" \/ f \in Tool
                                      \/ arg.kind = "children" /\ Parent[f] = base}
        BY <3>2 DEF Wanted
      <3>5. CASE arg.kind = "files"
        BY <3>3, <3>4, <3>5
      <3>6. CASE arg.kind = "dir"
        BY <3>3, <3>4, <3>6
      <3>7. CASE arg.kind = "children"
        BY <3>3, <3>4, <3>7
      <3> QED
        BY <3>1, <3>5, <3>6, <3>7
    <2> QED
      BY <2>3, <2>4
  <1> QED
    BY <1>1, ScanInvariant, PTL

\* No settings and no ignore file of an excluded directory are read, below the
\* base or above it in its project (ReadsOnlyVisible).
THEOREM HiddenUnread == ScanSpec => []ReadsOnlyVisible
  <1>1. ScanInv => ReadsOnlyVisible
    <2> DEFINE project == IF base \in world.git THEN {}
                          ELSE Levels(base, Parent[base]) \ {Boundary(base, Parent[base])}
    <2>1. SUFFICES ASSUME ScanInv, NEW o \in opened, NEW c \in Chain[o] \ {Top},
                          base \in Chain[c] \/ c \in project
                   PROVE  ~Excluded[c]
      BY Zenon DEF ReadsOnlyVisible
    <2>2. arg.kind # "file" /\ opened \subseteq Clean /\ o \in Dirs
      BY <2>1 DEF ScanInv, ScanTyped, Staged, Within
    <2>3. project = Project
      BY DEF Project, Around
    <2>4. c \in Tree \ {Top}
      BY <2>1, <2>2, ChainOf DEF Tree
    <2>5. c \notin Hidden
      BY <2>1, <2>2, <2>3 DEF Clean
    <2> QED
      BY <2>4, <2>5, ExcludedIs
  <1> QED
    BY <1>1, ScanInvariant, PTL

\* A scan fails for the settings it opened and cannot read, and for nothing else
\* but a pattern that matches nothing (FailsForSettings).
THEOREM SettingsFail == ScanSpec => []FailsForSettings
  <1>1. ScanInv => FailsForSettings
    <2>1. SUFFICES ASSUME ScanInv PROVE FailsForSettings
      OBVIOUS
    <2>2. \A d \in opened : d \in Bad <=> Unreadable(d)
      BY <2>1 DEF ScanInv, ScanTyped, Bad
    <2> QED
      BY <2>1, <2>2 DEF ScanInv, Readable, FailsForSettings
  <1> QED
    BY <1>1, ScanInvariant, PTL
=============================================================================
