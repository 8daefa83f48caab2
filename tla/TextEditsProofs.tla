--------------------------- MODULE TextEditsProofs ---------------------------
(***************************************************************************)
(* Proofs about RenameMap, for any number of texts and names and for       *)
(* imports of any shape, then about Rendering and Formatting, for any      *)
(* layout, and about ToolLint, for any rule.                               *)
(*                                                                         *)
(* That a rename keeps what a text applies is a statement about two        *)
(* searches, one before and one after the edits.  They take the same steps *)
(* as long as each text either has the name they look for in both projects *)
(* or in none (DefinitionKept).  The invariant says of which texts the     *)
(* handler has made sure of that (Answers).                                *)
(***************************************************************************)
EXTENDS RenameMap, Formatting, ToolLint, TLAPS, WellFoundedInduction, FiniteSetTheorems,
  Functions

-----------------------------------------------------------------------------
(* Recursion over the natural numbers *)

\* Induction, stated of a set.
LEMMA Inductive ==
  ASSUME NEW I, 0 \in I, \A n \in Nat : n \in I => n + 1 \in I
  PROVE  Nat \subseteq I
<1> DEFINE Less == {ss \in Nat \X Nat : ss[1] < ss[2]}
           Out == Nat \ I
<1>1. IsWellFoundedOn(Less, Nat)
  BY NatLessThanWellFounded DEF OpToRel
<1>2. SUFFICES ASSUME Out # {} PROVE FALSE
  OBVIOUS
<1>3. PICK x \in Out : \A y \in Out : ~(<<y, x>> \in Less)
  <2>1. Out \subseteq Nat  OBVIOUS
  <2> HIDE DEF Out, Less
  <2> QED  BY <1>1, <1>2, <2>1, WFMin
<1>4. x \in Nat /\ x # 0  OBVIOUS
<1>5. x - 1 \in Nat /\ <<x - 1, x>> \in Less  BY <1>4
<1>6. x - 1 \in I  BY <1>3, <1>5
<1>7. (x - 1) + 1 = x  BY <1>4
<1> QED  BY <1>5, <1>6, <1>7

\* The first n steps of a recursion.
Begins(S, start, step, n, g) ==
  /\ g \in [0..n -> S] /\ g[0] = start
  /\ \A k \in 0..n - 1 : g[k + 1] = step[<<k, g[k]>>]

LEMMA BeginsAgree ==
  ASSUME NEW S, NEW start, NEW step, NEW n \in Nat, NEW m, m = n + 1, NEW g, NEW h,
         Begins(S, start, step, n, g), Begins(S, start, step, m, h)
  PROVE  h[n] = g[n]
<1> DEFINE I == {k \in Nat : k <= n => h[k] = g[k]}
<1>1. 0 \in I  BY DEF Begins
<1>2. ASSUME NEW k \in Nat, k \in I PROVE k + 1 \in I
  <2>1. CASE k + 1 <= n
    <3>1. h[k] = g[k] /\ k \in 0..n - 1 /\ k \in 0..(n + 1) - 1  BY <1>2, <2>1
    <3>2. g[k + 1] = step[<<k, g[k]>>]  BY <3>1 DEF Begins
    <3>3. h[k + 1] = step[<<k, h[k]>>]  BY <3>1 DEF Begins
    <3> QED  BY <3>1, <3>2, <3>3
  <2>2. CASE ~(k + 1 <= n)  BY <2>2
  <2> QED  BY <2>1, <2>2
<1>3. Nat \subseteq I
  <2> HIDE DEF I
  <2> QED  BY <1>1, <1>2, Inductive
<1> QED  BY <1>3

LEMMA BeginsExist ==
  ASSUME NEW S, NEW start \in S, NEW step \in [Nat \X S -> S], NEW n \in Nat
  PROVE  \E g : Begins(S, start, step, n, g)
<1> DEFINE I == {k \in Nat : \E g : Begins(S, start, step, k, g)}
<1>1. 0 \in I
  <2> DEFINE g == [i \in 0..0 |-> start]
  <2>1. Begins(S, start, step, 0, g)  BY DEF Begins
  <2> HIDE DEF g
  <2> QED  BY <2>1
<1>2. ASSUME NEW k \in Nat, k \in I PROVE k + 1 \in I
  <2>1. PICK g : Begins(S, start, step, k, g)  BY <1>2
  <2>2. g \in [0..k -> S] /\ g[0] = start /\ \A i \in 0..k - 1 : g[i + 1] = step[<<i, g[i]>>]
    BY <2>1 DEF Begins
  <2> DEFINE h == [i \in 0..k + 1 |-> IF i = k + 1 THEN step[<<k, g[k]>>] ELSE g[i]]
  <2>3. step[<<k, g[k]>>] \in S  BY <2>2
  <2>4. h \in [0..k + 1 -> S]  BY <2>2, <2>3
  <2>5. h[0] = start  BY <2>2
  <2>6. ASSUME NEW i \in 0..(k + 1) - 1 PROVE h[i + 1] = step[<<i, h[i]>>]
    <3>1. CASE i = k
      <4>1. h[k + 1] = step[<<k, g[k]>>]  OBVIOUS
      <4>2. h[k] = g[k]
        <5>1. k \in 0..k + 1 /\ k # k + 1  OBVIOUS
        <5> QED  BY <5>1
      <4> HIDE DEF h
      <4> QED  BY <3>1, <4>1, <4>2
    <3>2. CASE i # k
      <4>1. i \in 0..k - 1  BY <3>2
      <4>2. h[i + 1] = g[i + 1] /\ h[i] = g[i]  BY <4>1
      <4> QED  BY <2>2, <4>1, <4>2
    <3> QED  BY <3>1, <3>2
  <2>7. Begins(S, start, step, k + 1, h)
    <3> HIDE DEF h
    <3> QED  BY <2>4, <2>5, <2>6 DEF Begins
  <2> HIDE DEF h
  <2> QED  BY <2>7
<1>3. Nat \subseteq I
  <2> HIDE DEF I
  <2> QED  BY <1>1, <1>2, Inductive
<1> QED  BY <1>3

\* What is defined step by step, is.
Follows(S, start, step, f) ==
  f \in [Nat -> S] /\ f[0] = start /\ \A n \in Nat : f[n + 1] = step[<<n, f[n]>>]

LEMMA StepsExist ==
  ASSUME NEW S, NEW start \in S, NEW step \in [Nat \X S -> S]
  PROVE  \E f : Follows(S, start, step, f)
<1> DEFINE G(n) == CHOOSE g : Begins(S, start, step, n, g)
           f == [n \in Nat |-> G(n)[n]]
<1>1. ASSUME NEW n \in Nat PROVE Begins(S, start, step, n, G(n))
  BY BeginsExist
<1>2. ASSUME NEW n \in Nat PROVE G(n) \in [0..n -> S] /\ G(n)[0] = start
  BY <1>1 DEF Begins
<1>3. ASSUME NEW n \in Nat PROVE G(n + 1)[n + 1] = step[<<n, G(n)[n]>>]
  <2>1. Begins(S, start, step, n + 1, G(n + 1))  BY <1>1
  <2>2. G(n + 1)[n + 1] = step[<<n, G(n + 1)[n]>>]
    <3> HIDE DEF G
    <3>1. n \in 0..(n + 1) - 1  OBVIOUS
    <3> QED  BY <2>1, <3>1 DEF Begins
  <2>3. G(n + 1)[n] = G(n)[n]
    <3> HIDE DEF G, f
    <3>1. PICK g : g = G(n + 1)  OBVIOUS
    <3>2. PICK h : h = G(n)  OBVIOUS
    <3>3. Begins(S, start, step, n + 1, g) /\ Begins(S, start, step, n, h)
      BY <2>1, <1>1, <3>1, <3>2
    <3>4. PICK m : m = n + 1  OBVIOUS
    <3>5. Begins(S, start, step, m, g)  BY <3>3, <3>4
    <3>6. g[n] = h[n]  BY <3>3, <3>4, <3>5, BeginsAgree
    <3> QED  BY <3>1, <3>2, <3>6
  <2> QED  BY <2>2, <2>3
<1>4. f \in [Nat -> S]
  <2> HIDE DEF G
  <2>1. ASSUME NEW n \in Nat PROVE G(n)[n] \in S  BY <1>2
  <2> QED  BY <2>1
<1>5. f[0] = start  BY <1>2
<1>6. ASSUME NEW n \in Nat PROVE f[n + 1] = step[<<n, f[n]>>]
  <2> HIDE DEF G
  <2> QED  BY <1>3
<1>7. Follows(S, start, step, f)
  <2> HIDE DEF f
  <2> QED  BY <1>4, <1>5, <1>6 DEF Follows
<1> HIDE DEF f
<1> QED  BY <1>7

-----------------------------------------------------------------------------
(* The search for a map *)

Searches == [paths : Seq(Places), visited : {V \in SUBSET Places : Nowhere \in V}]
Beginning(p, t) == [paths |-> p[t].imports, visited |-> {Nowhere}]
Searching(p, t, name) ==
  CHOOSE search :
    search = [n \in Nat |-> IF n = 0 THEN [paths |-> p[t].imports, visited |-> {Nowhere}]
                            ELSE Visit(p, name, search[n - 1])]

LEMMA SearchedIs ==
  ASSUME NEW p, NEW t, NEW name
  PROVE  Searched(p, t, name) = Searching(p, t, name)[Steps(p, t)]
BY DEF Searched, Searching

LEMMA ContentsOf ==
  ASSUME NEW p \in [Units -> Contents], NEW u \in Units
  PROVE  /\ p[u] \in Contents
         /\ p[u].imports \in Seq(Places)
BY DEF Contents

LEMMA VisitTyped ==
  ASSUME NEW p \in [Units -> Contents], NEW name, NEW s \in Searches
  PROVE  Visit(p, name, s) \in Searches
<1>1. CASE s.paths = <<>> \/ Found(p, name, s)
  <2>1. Visit(p, name, s) = s  BY <1>1 DEF Visit, Found
  <2> QED  BY <2>1
<1>2. CASE ~(s.paths = <<>> \/ Found(p, name, s)) /\ Head(s.paths) \in s.visited
  <2>1. Visit(p, name, s) = [s EXCEPT !.paths = Tail(s.paths)]  BY <1>2 DEF Visit, Found
  <2>2. Tail(s.paths) \in Seq(Places)  BY <1>2 DEF Searches
  <2> QED  BY <2>1, <2>2 DEF Searches
<1>3. CASE ~(s.paths = <<>> \/ Found(p, name, s)) /\ Head(s.paths) \notin s.visited
  <2> DEFINE t == Head(s.paths)
  <2>1. Visit(p, name, s) =
          [paths |-> p[t].imports \o Tail(s.paths), visited |-> s.visited \cup {t}]
    BY <1>3 DEF Visit, Found
  <2>2. t \in Places /\ Tail(s.paths) \in Seq(Places)  BY <1>3 DEF Searches
  <2>3. t \in Units  BY <1>3, <2>2 DEF Searches, Places
  <2>4. p[t].imports \in Seq(Places)  BY <2>3, ContentsOf
  <2> QED  BY <2>1, <2>2, <2>4 DEF Searches
<1> QED  BY <1>1, <1>2, <1>3

LEMMA SearchIs ==
  ASSUME NEW p \in [Units -> Contents], NEW t \in Units, NEW name, NEW f,
         f = Searching(p, t, name)
  PROVE  /\ f \in [Nat -> Searches]
         /\ f[0] = Beginning(p, t)
         /\ \A n \in Nat : f[n + 1] = Visit(p, name, f[n])
<1>1. Beginning(p, t) \in Searches
  BY ContentsOf DEF Beginning, Searches, Places
<1> DEFINE step == [x \in Nat \X Searches |-> Visit(p, name, x[2])]
<1>2. step \in [Nat \X Searches -> Searches]
  BY VisitTyped
<1>3. PICK g \in [Nat -> Searches] :
        g[0] = Beginning(p, t) /\ \A n \in Nat : g[n + 1] = step[<<n, g[n]>>]
  <2> HIDE DEF step
  <2>1. \E g : Follows(Searches, Beginning(p, t), step, g)  BY <1>1, <1>2, StepsExist
  <2> QED  BY <2>1 DEF Follows
<1>4. \A n \in Nat : g[n + 1] = Visit(p, name, g[n])
  BY <1>3
<1> HIDE DEF step
<1> DEFINE Next(h, n) == IF n = 0 THEN [paths |-> p[t].imports, visited |-> {Nowhere}]
                         ELSE Visit(p, name, h[n - 1])
<1>5. g = [n \in Nat |-> Next(g, n)]
  <2>1. ASSUME NEW n \in Nat PROVE g[n] = Next(g, n)
    <3>1. CASE n = 0  BY <3>1, <1>3 DEF Beginning
    <3>2. CASE n # 0
      <4>1. n - 1 \in Nat /\ (n - 1) + 1 = n  BY <3>2
      <4>2. g[(n - 1) + 1] = Visit(p, name, g[n - 1])  BY <4>1, <1>4
      <4> QED  BY <3>2, <4>1, <4>2
    <3> QED  BY <3>1, <3>2
  <2> HIDE DEF Next
  <2> QED  BY <2>1
<1>6. f = [n \in Nat |-> Next(f, n)]
  BY <1>5 DEF Searching
<1>7. ASSUME NEW n \in Nat PROVE f[n] = Next(f, n)
  <2> HIDE DEF Next
  <2> QED  BY <1>6
<1>8. f[0] = Beginning(p, t)
  BY <1>7 DEF Beginning
<1>9. ASSUME NEW n \in Nat PROVE f[n + 1] = Visit(p, name, f[n])
  <2>1. n + 1 \in Nat /\ n + 1 # 0 /\ (n + 1) - 1 = n  OBVIOUS
  <2>2. f[n + 1] = Visit(p, name, f[(n + 1) - 1])  BY <2>1, <1>7
  <2> QED  BY <2>1, <2>2
<1>10. f \in [Nat -> Searches]
  <2> DEFINE I == {n \in Nat : f[n] \in Searches}
  <2>1. 0 \in I  BY <1>1, <1>8
  <2>2. \A n \in Nat : n \in I => n + 1 \in I  BY <1>9, VisitTyped
  <2>3. Nat \subseteq I
    <3> HIDE DEF I
    <3> QED  BY <2>1, <2>2, Inductive
  <2>4. f = [n \in Nat |-> f[n]]
    <3> HIDE DEF Next
    <3> QED  BY <1>6
  <2> QED  BY <2>3, <2>4
<1> QED  BY <1>8, <1>9, <1>10

\* A search that has ended stays where it is.
Ended(p, name, s) == s.paths = <<>> \/ Found(p, name, s)

LEMMA EndedStays ==
  ASSUME NEW p, NEW name, NEW s, Ended(p, name, s)
  PROVE  Visit(p, name, s) = s
BY DEF Ended, Visit, Found

LEMMA SearchStays ==
  ASSUME NEW p \in [Units -> Contents], NEW t \in Units, NEW name, NEW f,
         f = Searching(p, t, name),
         NEW n \in Nat, NEW m \in Nat, n <= m, Ended(p, name, f[n])
  PROVE  f[m] = f[n]
<1> DEFINE I == {k \in Nat : n <= k => f[k] = f[n]}
<1>1. 0 \in I  OBVIOUS
<1>2. ASSUME NEW k \in Nat, k \in I PROVE k + 1 \in I
  <2>1. CASE n <= k
    <3>1. f[k] = f[n]  BY <1>2, <2>1
    <3>2. f[k + 1] = Visit(p, name, f[k])  BY SearchIs
    <3>3. Visit(p, name, f[n]) = f[n]  BY EndedStays
    <3> QED  BY <3>1, <3>2, <3>3
  <2>2. CASE n = k + 1  BY <2>2
  <2>3. CASE ~(n <= k + 1)  BY <2>3
  <2> QED  BY <2>1, <2>2, <2>3
<1>3. Nat \subseteq I
  <2> HIDE DEF I
  <2> QED  BY <1>1, <1>2, Inductive
<1> QED  BY <1>3

\* What is imported is closed under imports.
LEMMA ImportedCloses ==
  ASSUME NEW p \in [Units -> Contents], NEW t \in Units
  PROVE  /\ t \in Imported(p, t)
         /\ Imported(p, t) \subseteq Places
         /\ \A v \in Imported(p, t) \ {Nowhere} :
              \A i \in DOMAIN p[v].imports : p[v].imports[i] \in Imported(p, t)
<1> DEFINE Closed(S) ==
      t \in S /\ (\A v \in S \ {Nowhere} : \A i \in DOMAIN p[v].imports : p[v].imports[i] \in S)
<1>1. \A u : u \in Imported(p, t) <=> u \in Places /\ \A S \in SUBSET Places : Closed(S) => u \in S
  BY DEF Imported
<1>2. t \in Imported(p, t)  BY <1>1 DEF Places
<1>3. ASSUME NEW v \in Imported(p, t) \ {Nowhere}, NEW i \in DOMAIN p[v].imports
      PROVE  p[v].imports[i] \in Imported(p, t)
  <2>1. v \in Units  BY <1>1 DEF Places
  <2>2. p[v].imports[i] \in Places  BY <2>1, ContentsOf
  <2>3. ASSUME NEW S \in SUBSET Places, Closed(S) PROVE p[v].imports[i] \in S
    <3>1. v \in S \ {Nowhere}  BY <1>1, <2>3
    <3> QED  BY <3>1, <2>3
  <2> HIDE DEF Closed
  <2> QED  BY <1>1, <2>2, <2>3
<1> HIDE DEF Closed
<1> QED  BY <1>1, <1>2, <1>3

\* A search looks at nothing else.
AllIn(S, paths) == \A i \in DOMAIN paths : paths[i] \in S
Within(S, s) == AllIn(S, s.paths)

LEMMA AllInBoth ==
  ASSUME NEW T, NEW a \in Seq(T), NEW b \in Seq(T), NEW S, AllIn(S, a), AllIn(S, b)
  PROVE  AllIn(S, a \o b)
<1>1. ASSUME NEW i \in DOMAIN (a \o b) PROVE (a \o b)[i] \in S
  <2>1. i \in 1..Len(a) + Len(b)  OBVIOUS
  <2>2. CASE i <= Len(a)
    <3>1. (a \o b)[i] = a[i] /\ i \in DOMAIN a  BY <2>1, <2>2
    <3> QED  BY <3>1 DEF AllIn
  <2>3. CASE ~(i <= Len(a))
    <3>1. (a \o b)[i] = b[i - Len(a)] /\ i - Len(a) \in DOMAIN b  BY <2>1, <2>3
    <3> QED  BY <3>1 DEF AllIn
  <2> QED  BY <2>2, <2>3
<1> QED  BY <1>1 DEF AllIn

LEMMA VisitWithin ==
  ASSUME NEW p \in [Units -> Contents], NEW t \in Units, NEW name, NEW s \in Searches,
         Within(Imported(p, t), s)
  PROVE  Within(Imported(p, t), Visit(p, name, s))
<1> DEFINE r == Visit(p, name, s)
<1>1. CASE Ended(p, name, s)
  BY <1>1, EndedStays
<1>2. CASE ~Ended(p, name, s)
  <2> DEFINE u == Head(s.paths)
  <2>1. s.paths \in Seq(Places) /\ s.paths # <<>>  BY <1>2 DEF Ended, Searches
  <2>2. u = s.paths[1] /\ 1 \in DOMAIN s.paths  BY <2>1
  <2>3. u \in Imported(p, t)  BY <2>2 DEF Within, AllIn
  <2>4. AllIn(Imported(p, t), Tail(s.paths))
    <3>1. ASSUME NEW i \in DOMAIN Tail(s.paths) PROVE Tail(s.paths)[i] \in Imported(p, t)
      <4>1. Tail(s.paths)[i] = s.paths[i + 1] /\ i + 1 \in DOMAIN s.paths  BY <2>1
      <4> QED  BY <4>1 DEF Within, AllIn
    <3> QED  BY <3>1 DEF AllIn
  <2>5. CASE u \in s.visited
    <3>1. r.paths = Tail(s.paths)  BY <1>2, <2>1, <2>5 DEF Ended, Visit, Found, Searches
    <3> QED  BY <3>1, <2>4 DEF Within
  <2>6. CASE u \notin s.visited
    <3>1. r.paths = p[u].imports \o Tail(s.paths)
      BY <1>2, <2>1, <2>6 DEF Ended, Visit, Found, Searches
    <3>2. u \in Units /\ u # Nowhere  BY <2>1, <2>2, <2>6 DEF Searches, Places
    <3>3. p[u].imports \in Seq(Places) /\ Tail(s.paths) \in Seq(Places)
      BY <2>1, <3>2, ContentsOf
    <3>4. AllIn(Imported(p, t), p[u].imports)
      BY <2>3, <3>2, ImportedCloses DEF AllIn
    <3>5. AllIn(Imported(p, t), p[u].imports \o Tail(s.paths))
      BY <3>3, <3>4, <2>4, AllInBoth
    <3> QED  BY <3>1, <3>5 DEF Within
  <2> QED  BY <2>5, <2>6
<1> QED  BY <1>1, <1>2

LEMMA SearchWithin ==
  ASSUME NEW p \in [Units -> Contents], NEW t \in Units, NEW name, NEW f,
         f = Searching(p, t, name)
  PROVE  \A n \in Nat : Within(Imported(p, t), f[n])
<1> DEFINE I == {n \in Nat : Within(Imported(p, t), f[n])}
<1>1. 0 \in I
  <2>1. f[0] = Beginning(p, t)  BY SearchIs
  <2>2. t \in Imported(p, t) \ {Nowhere}
    BY ImportedCloses, UnitsAssumption, FS_CardinalityType DEF Nowhere
  <2>3. Within(Imported(p, t), Beginning(p, t))
    BY <2>2, ImportedCloses DEF Within, AllIn, Beginning
  <2> QED  BY <2>1, <2>3
<1>2. ASSUME NEW n \in Nat, n \in I PROVE n + 1 \in I
  <2>1. f[n] \in Searches /\ f[n + 1] = Visit(p, name, f[n])  BY SearchIs
  <2>2. Within(Imported(p, t), f[n])  BY <1>2
  <2>3. PICK s : s = f[n]  OBVIOUS
  <2>4. Within(Imported(p, t), Visit(p, name, s))  BY <2>1, <2>2, <2>3, VisitWithin
  <2> QED  BY <2>1, <2>3, <2>4
<1>3. Nat \subseteq I
  <2> HIDE DEF I
  <2> QED  BY <1>1, <1>2, Inductive
<1> QED  BY <1>3

\* The imports that a search has not come to.
Unread(p, V) == {x \in ImportsOf(p) : x[1] \notin V}

LEMMA ImportsFinite ==
  ASSUME NEW p \in [Units -> Contents]
  PROVE  IsFiniteSet(ImportsOf(p))
<1> DEFINE Of(t) == {<<t, i>> : i \in DOMAIN p[t].imports}
           f == [t \in Units |-> Of(t)]
           T == {Of(t) : t \in Units}
<1>1. f \in Surjection(Units, T)
  <2> HIDE DEF Of
  <2> QED  BY DEF Surjection
<1>2. IsFiniteSet(T)
  <2> HIDE DEF f, T
  <2> QED  BY <1>1, UnitsAssumption, FS_Surjection
<1>3. ASSUME NEW t \in Units PROVE IsFiniteSet(Of(t))
  <2> DEFINE D == DOMAIN p[t].imports
             g == [i \in D |-> <<t, i>>]
  <2>1. D = 1..Len(p[t].imports) /\ Len(p[t].imports) \in Nat  BY ContentsOf
  <2>2. IsFiniteSet(D)  BY <2>1, FS_Interval
  <2>3. g \in Surjection(D, {<<t, i>> : i \in D})  BY DEF Surjection
  <2> HIDE DEF g, D
  <2>4. IsFiniteSet({<<t, i>> : i \in D})  BY <2>2, <2>3, FS_Surjection
  <2> QED  BY <2>4 DEF D
<1>4. \A S \in T : IsFiniteSet(S)
  <2> HIDE DEF Of
  <2> QED  BY <1>3
<1>5. IsFiniteSet(UNION T)
  <2> HIDE DEF T
  <2> QED  BY <1>2, <1>4, FS_UNION
<1> QED  BY <1>5 DEF ImportsOf

LEMMA UnreadFinite ==
  ASSUME NEW p \in [Units -> Contents], NEW V
  PROVE  IsFiniteSet(Unread(p, V)) /\ Cardinality(Unread(p, V)) \in Nat
<1>1. Unread(p, V) \subseteq ImportsOf(p)  BY DEF Unread
<1> QED  BY <1>1, ImportsFinite, FS_Subset, FS_CardinalityType

LEMMA StepsNat ==
  ASSUME NEW p \in [Units -> Contents], NEW t \in Units
  PROVE  Steps(p, t) \in Nat /\ Cardinality(ImportsOf(p)) \in Nat /\ Len(p[t].imports) \in Nat
<1>1. Cardinality(ImportsOf(p)) \in Nat  BY ImportsFinite, FS_CardinalityType
<1>2. Len(p[t].imports) \in Nat  BY ContentsOf
<1> QED  BY <1>1, <1>2 DEF Steps

\* A visit takes the imports of one text from those that are unread.
LEMMA UnreadShrinks ==
  ASSUME NEW p \in [Units -> Contents], NEW V, NEW u \in Units, u \notin V
  PROVE  Cardinality(Unread(p, V \cup {u})) + Len(p[u].imports) = Cardinality(Unread(p, V))
<1> DEFINE D == DOMAIN p[u].imports
           O == {<<u, i>> : i \in D}
           g == [i \in D |-> <<u, i>>]
<1>1. D = 1..Len(p[u].imports) /\ Len(p[u].imports) \in Nat  BY ContentsOf
<1>2. IsFiniteSet(D) /\ Cardinality(D) = Len(p[u].imports)
  BY <1>1, FS_Interval
<1>3. ExistsBijection(D, O)
  <2>1. g \in Bijection(D, O)  BY DEF Bijection, Injection, Surjection, IsInjective
  <2> QED  BY <2>1 DEF ExistsBijection
<1>4. IsFiniteSet(O) /\ Cardinality(O) = Len(p[u].imports)
  <2> HIDE DEF D, O
  <2> QED  BY <1>2, <1>3, FS_Bijection
<1>5. ASSUME NEW x PROVE x \in ImportsOf(p) <=> \E t \in Units : \E i \in DOMAIN p[t].imports : x = <<t, i>>
  BY DEF ImportsOf
<1>6. Unread(p, V) = Unread(p, V \cup {u}) \cup O
  <2>1. O \subseteq Unread(p, V)  BY <1>5 DEF Unread
  <2>2. ASSUME NEW x \in Unread(p, V), x \notin O PROVE x \in Unread(p, V \cup {u})
    <3>1. PICK t \in Units : \E i \in DOMAIN p[t].imports : x = <<t, i>>  BY <1>5 DEF Unread
    <3>2. t # u  BY <2>2, <3>1
    <3> QED  BY <3>1, <3>2 DEF Unread
  <2>3. Unread(p, V \cup {u}) \subseteq Unread(p, V)  BY DEF Unread
  <2> HIDE DEF O
  <2> QED  BY <2>1, <2>2, <2>3
<1>7. Unread(p, V \cup {u}) \cap O = {}  BY DEF Unread
<1>8. IsFiniteSet(Unread(p, V \cup {u})) /\ Cardinality(Unread(p, V \cup {u})) \in Nat
  BY UnreadFinite
<1>9. Cardinality(Unread(p, V)) =
        Cardinality(Unread(p, V \cup {u})) + Cardinality(O) - Cardinality(Unread(p, V \cup {u}) \cap O)
  <2> HIDE DEF O
  <2> QED  BY <1>4, <1>6, <1>8, FS_Union
<1>10. Cardinality(Unread(p, V \cup {u}) \cap O) = 0
  <2> HIDE DEF O
  <2> QED  BY <1>7, FS_EmptySet
<1> HIDE DEF O, D
<1> QED  BY <1>1, <1>4, <1>8, <1>9, <1>10

\* What a search has to look at yet becomes less with every step.
Remaining(p, s) == Len(s.paths) + Cardinality(Unread(p, s.visited))

LEMMA RemainingShrinks ==
  ASSUME NEW p \in [Units -> Contents], NEW name, NEW s \in Searches, ~Ended(p, name, s)
  PROVE  Remaining(p, Visit(p, name, s)) + 1 = Remaining(p, s)
<1> DEFINE r == Visit(p, name, s)
           u == Head(s.paths)
<1>1. s.paths \in Seq(Places) /\ s.paths # <<>>  BY DEF Ended, Searches
<1>2. u \in Places /\ Tail(s.paths) \in Seq(Places) /\ Len(s.paths) \in Nat
        /\ Len(Tail(s.paths)) + 1 = Len(s.paths)
  BY <1>1
<1>3. CASE u \in s.visited
  <2>1. r.paths = Tail(s.paths) /\ r.visited = s.visited
    BY <1>1, <1>3 DEF Ended, Visit, Found, Searches
  <2>2. Cardinality(Unread(p, s.visited)) \in Nat  BY UnreadFinite
  <2> HIDE DEF r
  <2>3. Remaining(p, r) + 1 = Remaining(p, s)  BY <1>2, <2>1, <2>2 DEF Remaining
  <2> QED  BY <2>3 DEF r
<1>4. CASE u \notin s.visited
  <2>1. r.paths = p[u].imports \o Tail(s.paths) /\ r.visited = s.visited \cup {u}
    BY <1>1, <1>4 DEF Ended, Visit, Found, Searches
  <2>2. u \in Units  BY <1>2, <1>4 DEF Searches, Places
  <2>3. p[u].imports \in Seq(Places)  BY <2>2, ContentsOf
  <2>4. Len(r.paths) = Len(p[u].imports) + Len(Tail(s.paths)) /\ Len(p[u].imports) \in Nat
    BY <2>1, <2>3, <1>2
  <2>5. Cardinality(Unread(p, s.visited \cup {u})) + Len(p[u].imports) = Cardinality(Unread(p, s.visited))
    BY <1>4, <2>2, UnreadShrinks
  <2>6. Cardinality(Unread(p, s.visited)) \in Nat /\ Cardinality(Unread(p, s.visited \cup {u})) \in Nat
    BY UnreadFinite
  <2> HIDE DEF r, u
  <2>7. Remaining(p, r) = Len(r.paths) + Cardinality(Unread(p, s.visited \cup {u}))
    BY <2>1 DEF Remaining
  <2>8. Remaining(p, s) = Len(s.paths) + Cardinality(Unread(p, s.visited))
    BY DEF Remaining
  <2>9. PICK rest : rest = Tail(s.paths)  OBVIOUS
  <2>10. Len(rest) \in Nat /\ Len(rest) + 1 = Len(s.paths)  BY <1>2, <2>9
  <2>11. Len(r.paths) = Len(p[u].imports) + Len(rest) /\ Len(p[u].imports) \in Nat
    BY <2>4, <2>9
  <2>12. Remaining(p, r) + 1 = Remaining(p, s)
    <3>1. PICK A : A = Cardinality(Unread(p, s.visited \cup {u}))  OBVIOUS
    <3>2. PICK B : B = Cardinality(Unread(p, s.visited))  OBVIOUS
    <3>3. PICK C : C = Len(p[u].imports)  OBVIOUS
    <3>4. A + C = B  BY <2>5, <3>1, <3>2, <3>3
    <3>5. A \in Nat /\ B \in Nat  BY <2>6, <3>1, <3>2
    <3>6. C \in Nat /\ Len(r.paths) = C + Len(rest)  BY <2>11, <3>3
    <3>7. Remaining(p, r) = Len(r.paths) + A  BY <2>7, <3>1
    <3>8. Remaining(p, s) = Len(s.paths) + B  BY <2>8, <3>2
    <3> QED  BY <2>10, <3>4, <3>5, <3>6, <3>7, <3>8
  <2> QED  BY <2>12 DEF r
<1> QED  BY <1>3, <1>4

\* The steps that are counted are enough.
LEMMA SearchEnds ==
  ASSUME NEW p \in [Units -> Contents], NEW t \in Units, NEW name
  PROVE  Ended(p, name, Searched(p, t, name))
<1> DEFINE f == Searching(p, t, name)
           N == Steps(p, t)
           I == {n \in Nat : Ended(p, name, f[n]) \/ n + Remaining(p, f[n]) <= N}
<1>0. N \in Nat  BY StepsNat
<1>1. 0 \in I
  <2>1. f[0] = Beginning(p, t)  BY SearchIs
  <2>2. Unread(p, {Nowhere}) = ImportsOf(p)
    <3>1. Nowhere \notin Units  BY UnitsAssumption, FS_CardinalityType DEF Nowhere
    <3> QED  BY <3>1 DEF Unread, ImportsOf
  <2>3. Remaining(p, Beginning(p, t)) = N
    BY <2>2, StepsNat DEF Remaining, Beginning, Steps
  <2> HIDE DEF f, N
  <2> QED  BY <1>0, <2>1, <2>3
<1>2. ASSUME NEW n \in Nat, n \in I PROVE n + 1 \in I
  <2>1. f[n] \in Searches /\ f[n + 1] = Visit(p, name, f[n]) /\ f[n + 1] \in Searches
    BY SearchIs
  <2>2. CASE Ended(p, name, f[n])
    <3>1. f[n + 1] = f[n]  BY <2>1, <2>2, EndedStays
    <3> HIDE DEF f
    <3> QED  BY <2>2, <3>1
  <2>3. CASE ~Ended(p, name, f[n])
    <3>1. n + Remaining(p, f[n]) <= N  BY <1>2, <2>3
    <3>2. Remaining(p, f[n + 1]) + 1 = Remaining(p, f[n])
      <4>1. PICK s : s = f[n]  OBVIOUS
      <4> HIDE DEF f
      <4>2. Remaining(p, Visit(p, name, s)) + 1 = Remaining(p, s)
        BY <4>1, <2>1, <2>3, RemainingShrinks
      <4> QED  BY <4>1, <4>2, <2>1
    <3>3. Remaining(p, f[n]) \in Nat /\ Remaining(p, f[n + 1]) \in Nat
      <4> HIDE DEF f
      <4> QED  BY <2>1, UnreadFinite DEF Remaining, Searches
    <3> HIDE DEF f, N
    <3> QED  BY <1>0, <3>1, <3>2, <3>3
  <2> QED  BY <2>2, <2>3
<1>3. Nat \subseteq I
  <2> HIDE DEF I
  <2> QED  BY <1>1, <1>2, Inductive
<1>4. Ended(p, name, f[N]) \/ N + Remaining(p, f[N]) <= N  BY <1>0, <1>3
<1>5. f[N] \in Searches  BY <1>0, SearchIs
<1>6. Remaining(p, f[N]) <= 0 => f[N].paths = <<>>
  <2> HIDE DEF f, N
  <2>1. Cardinality(Unread(p, f[N].visited)) \in Nat  BY UnreadFinite
  <2>2. f[N].paths \in Seq(Places)  BY <1>5 DEF Searches
  <2> QED  BY <2>1, <2>2 DEF Remaining
<1>7. Remaining(p, f[N]) \in Nat
  <2> HIDE DEF f, N
  <2> QED  BY <1>5, UnreadFinite DEF Remaining, Searches
<1>8. Ended(p, name, f[N])
  <2> HIDE DEF f, N
  <2> QED  BY <1>0, <1>4, <1>6, <1>7 DEF Ended
<1> QED  BY <1>8, SearchedIs

-----------------------------------------------------------------------------
(* What a name stands for *)

LEMMA UnitsAre ==
  /\ Nowhere \notin Units
  /\ Cardinality(Units) \in Nat
  /\ Units \subseteq Nat
BY UnitsAssumption, FS_CardinalityType DEF Nowhere

LEMMA DefinitionSearched ==
  ASSUME NEW p, NEW t, NEW name, name \notin p[t].declares, NEW s, s = Searched(p, t, name)
  PROVE  Definition(p, t, name) = IF Found(p, name, s) THEN Head(s.paths) ELSE Nowhere
BY DEF Definition

LEMMA SearchedTyped ==
  ASSUME NEW p \in [Units -> Contents], NEW t \in Units, NEW name, NEW s, s = Searched(p, t, name)
  PROVE  s \in Searches /\ Within(Imported(p, t), s)
BY SearchedIs, SearchIs, SearchWithin, StepsNat

LEMMA FoundIs ==
  ASSUME NEW p \in [Units -> Contents], NEW name, NEW s \in Searches, Found(p, name, s)
  PROVE  /\ Head(s.paths) \in Units
         /\ Head(s.paths) # Nowhere
         /\ name \in p[Head(s.paths)].declares
<1>1. s.paths \in Seq(Places) /\ s.paths # <<>> /\ Nowhere \in s.visited
  BY DEF Found, Searches
<1>2. Head(s.paths) \in Places  BY <1>1
<1> QED  BY <1>1, <1>2 DEF Found, Places

LEMMA HeadWithin ==
  ASSUME NEW S, NEW s \in Searches, Within(S, s), s.paths # <<>>
  PROVE  Head(s.paths) \in S
<1>1. s.paths \in Seq(Places)  BY DEF Searches
<1>2. 1 \in DOMAIN s.paths /\ Head(s.paths) = s.paths[1]  BY <1>1
<1> QED  BY <1>2 DEF Within, AllIn

\* A name stands for a text that declares it and is imported.
LEMMA DefinitionIs ==
  ASSUME NEW p \in [Units -> Contents], NEW t \in Units, NEW name
  PROVE  /\ Definition(p, t, name) \in Places
         /\ Definition(p, t, name) # Nowhere =>
              /\ Definition(p, t, name) \in Units
              /\ name \in p[Definition(p, t, name)].declares
              /\ Definition(p, t, name) \in Imported(p, t)
<1>1. CASE name \in p[t].declares
  <2>1. Definition(p, t, name) = t  BY <1>1 DEF Definition
  <2>2. t \in Imported(p, t)  BY ImportedCloses
  <2> QED  BY <1>1, <2>1, <2>2 DEF Places
<1>2. CASE name \notin p[t].declares
  <2>1. PICK s : s = Searched(p, t, name)  OBVIOUS
  <2>2. s \in Searches /\ Within(Imported(p, t), s)  BY <2>1, SearchedTyped
  <2>3. Definition(p, t, name) = IF Found(p, name, s) THEN Head(s.paths) ELSE Nowhere
    BY <1>2, <2>1, DefinitionSearched
  <2>4. CASE Found(p, name, s)
    <3>1. Definition(p, t, name) = Head(s.paths)  BY <2>3, <2>4
    <3>2. Head(s.paths) \in Units /\ name \in p[Head(s.paths)].declares
      BY <2>2, <2>4, FoundIs
    <3>3. Head(s.paths) \in Imported(p, t)  BY <2>2, <2>4, HeadWithin DEF Found
    <3> QED  BY <3>1, <3>2, <3>3 DEF Places
  <2>5. CASE ~Found(p, name, s)
    BY <2>3, <2>5 DEF Places
  <2> QED  BY <2>4, <2>5
<1> QED  BY <1>1, <1>2

\* A declaration stands for itself.
LEMMA DeclaredHere ==
  ASSUME NEW p, NEW t, NEW name, name \in p[t].declares
  PROVE  Definition(p, t, name) = t
BY DEF Definition

SameImports(p, q) == \A u \in Units : q[u].imports = p[u].imports
SameFound(p, a, q, b, s) == Found(p, a, s) <=> Found(q, b, s)

LEMMA StepsSame ==
  ASSUME NEW p, NEW q, SameImports(p, q), NEW t \in Units
  PROVE  Steps(q, t) = Steps(p, t)
<1>1. ImportsOf(q) = ImportsOf(p)  BY DEF ImportsOf, SameImports
<1> QED  BY <1>1 DEF Steps, SameImports

LEMMA SameVisit ==
  ASSUME NEW p \in [Units -> Contents], NEW q \in [Units -> Contents],
         SameImports(p, q),
         NEW a, NEW b, NEW s \in Searches, SameFound(p, a, q, b, s)
  PROVE  Visit(q, b, s) = Visit(p, a, s)
<1>1. CASE s.paths = <<>> \/ Found(p, a, s)
  <2>1. Visit(p, a, s) = s  BY <1>1, EndedStays DEF Ended
  <2>2. Visit(q, b, s) = s  BY <1>1, EndedStays DEF Ended, SameFound
  <2> QED  BY <2>1, <2>2
<1>2. CASE s.paths # <<>> /\ ~Found(p, a, s)
  <2>1. ~Found(q, b, s)  BY <1>2 DEF SameFound
  <2>2. CASE Head(s.paths) \in s.visited
    <3>1. Visit(p, a, s) = [s EXCEPT !.paths = Tail(s.paths)]  BY <1>2, <2>2 DEF Visit, Found
    <3>2. Visit(q, b, s) = [s EXCEPT !.paths = Tail(s.paths)]  BY <1>2, <2>1, <2>2 DEF Visit, Found
    <3> QED  BY <3>1, <3>2
  <2>3. CASE Head(s.paths) \notin s.visited
    <3> DEFINE u == Head(s.paths)
    <3>1. Visit(p, a, s) = [paths |-> p[u].imports \o Tail(s.paths), visited |-> s.visited \cup {u}]
      BY <1>2, <2>3 DEF Visit, Found
    <3>2. Visit(q, b, s) = [paths |-> q[u].imports \o Tail(s.paths), visited |-> s.visited \cup {u}]
      BY <1>2, <2>1, <2>3 DEF Visit, Found
    <3>3. u \in Units
      <4>1. s.paths \in Seq(Places) /\ Nowhere \in s.visited  BY DEF Searches
      <4>2. u \in Places  BY <1>2, <4>1
      <4> QED  BY <2>3, <4>1, <4>2 DEF Places
    <3>4. q[u].imports = p[u].imports  BY <3>3 DEF SameImports
    <3> HIDE DEF u
    <3> QED  BY <3>1, <3>2, <3>4
  <2> QED  BY <2>2, <2>3
<1> QED  BY <1>1, <1>2

\* The second name is declared where the first one is found, and nowhere else
\* unless the first one is declared there too.
Carries(p, t, a, q, b) ==
  /\ \A v \in Imported(p, t) \ {Nowhere} : b \in q[v].declares => a \in p[v].declares
  /\ Definition(p, t, a) # Nowhere => b \in q[Definition(p, t, a)].declares

\* Then the searches find the same.
LEMMA DefinitionKept ==
  ASSUME NEW p \in [Units -> Contents], NEW q \in [Units -> Contents],
         SameImports(p, q), NEW t \in Units, NEW a, NEW b, Carries(p, t, a, q, b)
  PROVE  Definition(q, t, b) = Definition(p, t, a)
<1>0. /\ \A u \in Units : q[u].imports = p[u].imports
      /\ \A v \in Imported(p, t) \ {Nowhere} : b \in q[v].declares => a \in p[v].declares
      /\ Definition(p, t, a) # Nowhere => b \in q[Definition(p, t, a)].declares
  BY DEF SameImports, Carries
<1>1. CASE a \in p[t].declares
  <2>1. Definition(p, t, a) = t  BY <1>1, DeclaredHere
  <2>2. b \in q[t].declares  BY <1>0, <2>1, UnitsAre
  <2> QED  BY <2>1, <2>2, DeclaredHere
<1>2. CASE a \notin p[t].declares
  <2> DEFINE N == Steps(p, t)
  <2>1. b \notin q[t].declares  BY <1>0, <1>2, ImportedCloses, UnitsAre
  <2>2. PICK f : f = Searching(p, t, a)  OBVIOUS
  <2>3. PICK g : g = Searching(q, t, b)  OBVIOUS
  <2>4. N \in Nat /\ Steps(q, t) = N  BY StepsNat, StepsSame
  <2>5. /\ f \in [Nat -> Searches] /\ f[0] = Beginning(p, t)
        /\ \A n \in Nat : f[n + 1] = Visit(p, a, f[n])
    BY <2>2, SearchIs
  <2>6. /\ g \in [Nat -> Searches] /\ g[0] = Beginning(q, t)
        /\ \A n \in Nat : g[n + 1] = Visit(q, b, g[n])
    BY <2>3, SearchIs
  <2>7. Definition(p, t, a) = IF Found(p, a, f[N]) THEN Head(f[N].paths) ELSE Nowhere
    BY <1>2, <2>2, SearchedIs, DefinitionSearched
  <2>8. Definition(q, t, b) = IF Found(q, b, g[N]) THEN Head(g[N].paths) ELSE Nowhere
    BY <2>1, <2>3, <2>4, SearchedIs, DefinitionSearched
  <2> HIDE DEF N
  <2>9. ASSUME NEW n \in Nat, n <= N PROVE SameFound(p, a, q, b, f[n])
    <3>1. PICK s : s = f[n]  OBVIOUS
    <3>2. s \in Searches  BY <2>5, <3>1
    <3>3. Within(Imported(p, t), s)  BY <2>2, <3>1, SearchWithin
    <3>4. ASSUME Found(p, a, s) PROVE Found(q, b, s)
      <4>1. Ended(p, a, f[n])  BY <3>1, <3>4 DEF Ended
      <4>2. f[N] = s  BY <2>2, <2>4, <2>9, <3>1, <4>1, SearchStays
      <4>3. Definition(p, t, a) = Head(s.paths)  BY <2>7, <3>4, <4>2
      <4>4. Head(s.paths) # Nowhere  BY <3>2, <3>4, FoundIs
      <4>5. b \in q[Head(s.paths)].declares  BY <1>0, <4>3, <4>4
      <4> QED  BY <3>4, <4>5 DEF Found
    <3>5. ASSUME Found(q, b, s) PROVE Found(p, a, s)
      <4>1. Head(s.paths) # Nowhere /\ b \in q[Head(s.paths)].declares
        BY <3>2, <3>5, FoundIs
      <4>2. Head(s.paths) \in Imported(p, t)  BY <3>2, <3>3, <3>5, HeadWithin DEF Found
      <4>3. a \in p[Head(s.paths)].declares  BY <1>0, <4>1, <4>2
      <4> QED  BY <3>5, <4>3 DEF Found
    <3>6. SameFound(p, a, q, b, s)  BY <3>4, <3>5 DEF SameFound
    <3> QED  BY <3>1, <3>6
  <2> DEFINE I == {n \in Nat : n <= N => g[n] = f[n]}
  <2>10. 0 \in I
    <3>1. Beginning(q, t) = Beginning(p, t)  BY <1>0 DEF Beginning
    <3> QED  BY <2>5, <2>6, <3>1
  <2>11. ASSUME NEW n \in Nat, n \in I PROVE n + 1 \in I
    <3>1. SUFFICES ASSUME n + 1 <= N PROVE g[n + 1] = f[n + 1]  OBVIOUS
    <3>2. n <= N /\ g[n] = f[n]  BY <2>4, <2>11, <3>1
    <3>3. PICK s : s = f[n]  OBVIOUS
    <3>4. s \in Searches /\ SameFound(p, a, q, b, s)  BY <2>5, <2>9, <3>2, <3>3
    <3>5. Visit(q, b, s) = Visit(p, a, s)  BY <3>4, SameVisit
    <3> QED  BY <2>5, <2>6, <3>2, <3>3, <3>5
  <2>12. Nat \subseteq I
    <3> HIDE DEF I
    <3> QED  BY <2>10, <2>11, Inductive
  <2>13. g[N] = f[N]  BY <2>4, <2>12
  <2>14. Found(p, a, f[N]) <=> Found(q, b, f[N])  BY <2>4, <2>9 DEF SameFound
  <2> HIDE DEF I
  <2> QED  BY <2>7, <2>8, <2>13, <2>14
<1> QED  BY <1>1, <1>2

\* What has been visited does not declare the name, and what it imports has been
\* visited or is to come.
Holds(paths, u) == \E i \in DOMAIN paths : paths[i] = u
Comes(s, u) == u \in s.visited \/ Holds(s.paths, u)
Known(p, name, s) ==
  \A v \in s.visited \ {Nowhere} :
    /\ name \notin p[v].declares
    /\ \A i \in DOMAIN p[v].imports : Comes(s, p[v].imports[i])

LEMMA HoldsBoth ==
  ASSUME NEW T, NEW a \in Seq(T), NEW b \in Seq(T), NEW u, Holds(a, u) \/ Holds(b, u)
  PROVE  Holds(a \o b, u)
<1>1. ASSUME NEW i \in DOMAIN a, a[i] = u PROVE Holds(a \o b, u)
  <2>1. i \in DOMAIN (a \o b) /\ (a \o b)[i] = a[i]  OBVIOUS
  <2> QED  BY <1>1, <2>1 DEF Holds
<1>2. ASSUME NEW i \in DOMAIN b, b[i] = u PROVE Holds(a \o b, u)
  <2>1. Len(a) \in Nat /\ Len(b) \in Nat /\ i \in 1..Len(b)  OBVIOUS
  <2>2. DOMAIN (a \o b) = 1..Len(a) + Len(b)  OBVIOUS
  <2>3. Len(a) + i \in 1..Len(a) + Len(b) /\ Len(a) + i > Len(a)  BY <2>1
  <2>4. (a \o b)[Len(a) + i] = b[(Len(a) + i) - Len(a)]  BY <2>1, <2>3
  <2>5. (Len(a) + i) - Len(a) = i  BY <2>1
  <2> QED  BY <1>2, <2>2, <2>3, <2>4, <2>5 DEF Holds
<1> QED  BY <1>1, <1>2 DEF Holds

LEMMA HoldsTail ==
  ASSUME NEW T, NEW a \in Seq(T), a # <<>>, NEW u, Holds(a, u), u # Head(a)
  PROVE  Holds(Tail(a), u)
<1>1. PICK i \in DOMAIN a : a[i] = u  BY DEF Holds
<1>2. i # 1  BY <1>1
<1>3. i - 1 \in DOMAIN Tail(a) /\ Tail(a)[i - 1] = u  BY <1>1, <1>2
<1> QED  BY <1>3 DEF Holds

LEMMA VisitComes ==
  ASSUME NEW p \in [Units -> Contents], NEW name, NEW s \in Searches, ~Ended(p, name, s),
         NEW u, Comes(s, u)
  PROVE  Comes(Visit(p, name, s), u)
<1>1. PICK r : r = Visit(p, name, s)  OBVIOUS
<1>2. PICK h : h = Head(s.paths)  OBVIOUS
<1>3. PICK rest : rest = Tail(s.paths)  OBVIOUS
<1>4. s.paths \in Seq(Places) /\ s.paths # <<>> /\ Nowhere \in s.visited
  BY DEF Ended, Searches
<1>5. h \in Places /\ rest \in Seq(Places)  BY <1>2, <1>3, <1>4
<1>6. u \in s.visited \/ u = h \/ Holds(rest, u)
  BY <1>2, <1>3, <1>4, HoldsTail DEF Comes
<1>7. CASE h \in s.visited
  <2>1. r.paths = rest /\ r.visited = s.visited
    BY <1>1, <1>2, <1>3, <1>4, <1>7 DEF Ended, Visit, Found, Searches
  <2>2. Comes(r, u)  BY <1>6, <1>7, <2>1 DEF Comes
  <2> QED  BY <1>1, <2>2
<1>8. CASE h \notin s.visited
  <2>1. r.paths = p[h].imports \o rest /\ r.visited = s.visited \cup {h}
    BY <1>1, <1>2, <1>3, <1>4, <1>8 DEF Ended, Visit, Found, Searches
  <2>2. h \in Units  BY <1>4, <1>5, <1>8 DEF Places
  <2>3. p[h].imports \in Seq(Places)  BY <2>2, ContentsOf
  <2>4. Holds(rest, u) => Holds(r.paths, u)  BY <1>5, <2>1, <2>3, HoldsBoth
  <2>5. Comes(r, u)  BY <1>6, <2>1, <2>4 DEF Comes
  <2> QED  BY <1>1, <2>5
<1> QED  BY <1>7, <1>8

LEMMA VisitKnown ==
  ASSUME NEW p \in [Units -> Contents], NEW name, NEW s \in Searches, Known(p, name, s)
  PROVE  Known(p, name, Visit(p, name, s))
<1>1. CASE Ended(p, name, s)  BY <1>1, EndedStays
<1>2. CASE ~Ended(p, name, s)
  <2> DEFINE h == Head(s.paths)
  <2>1. PICK r : r = Visit(p, name, s)  OBVIOUS
  <2>2. s.paths \in Seq(Places) /\ s.paths # <<>> /\ Nowhere \in s.visited
    BY <1>2 DEF Ended, Searches
  <2>3. \A u : Comes(s, u) => Comes(r, u)  BY <1>2, <2>1, VisitComes
  <2>4. CASE h \in s.visited
    <3>1. r.visited = s.visited
      BY <1>2, <2>1, <2>2, <2>4 DEF Ended, Visit, Found, Searches
    <3>2. Known(p, name, r)  BY <2>3, <3>1 DEF Known
    <3> QED  BY <2>1, <3>2
  <2>5. CASE h \notin s.visited
    <3>1. r.paths = p[h].imports \o Tail(s.paths) /\ r.visited = s.visited \cup {h}
      BY <1>2, <2>1, <2>2, <2>5 DEF Ended, Visit, Found, Searches
    <3>2. name \notin p[h].declares  BY <1>2, <2>2, <2>5 DEF Ended, Found
    <3>3. h \in Units  
      <4>1. h \in Places  BY <2>2
      <4> QED  BY <2>2, <2>5, <4>1 DEF Places
    <3>4. p[h].imports \in Seq(Places) /\ Tail(s.paths) \in Seq(Places)
      BY <2>2, <3>3, ContentsOf
    <3>5. ASSUME NEW i \in DOMAIN p[h].imports PROVE Comes(r, p[h].imports[i])
      <4> HIDE DEF h
      <4>1. Holds(p[h].imports, p[h].imports[i])  BY DEF Holds
      <4>2. PICK a \in Seq(Places) : a = p[h].imports  BY <3>4
      <4>3. PICK rest \in Seq(Places) : rest = Tail(s.paths)  BY <3>4
      <4>4. Holds(a \o rest, a[i])  BY <4>1, <4>2, HoldsBoth
      <4> QED  BY <3>1, <4>2, <4>3, <4>4 DEF Comes
    <3> HIDE DEF h
    <3>6. Known(p, name, r)  BY <2>3, <3>1, <3>2, <3>5 DEF Known
    <3> QED  BY <2>1, <3>6
  <2> QED  BY <2>4, <2>5
<1> QED  BY <1>1, <1>2

LEMMA SearchKnown ==
  ASSUME NEW p \in [Units -> Contents], NEW t \in Units, NEW name,
         NEW s, s = Searched(p, t, name)
  PROVE  /\ Known(p, name, s)
         /\ \A i \in DOMAIN p[t].imports : Comes(s, p[t].imports[i])
<1>1. PICK f : f = Searching(p, t, name)  OBVIOUS
<1> DEFINE I == {n \in Nat : /\ Known(p, name, f[n])
                             /\ \A i \in DOMAIN p[t].imports : Comes(f[n], p[t].imports[i])}
<1>2. 0 \in I
  <2>1. f[0] = Beginning(p, t)  BY <1>1, SearchIs
  <2>2. Known(p, name, Beginning(p, t))  BY DEF Known, Beginning
  <2>3. \A i \in DOMAIN p[t].imports : Comes(Beginning(p, t), p[t].imports[i])
    BY DEF Comes, Holds, Beginning
  <2> QED  BY <2>1, <2>2, <2>3
<1>3. ASSUME NEW n \in Nat, n \in I PROVE n + 1 \in I
  <2>1. PICK r : r = f[n]  OBVIOUS
  <2>2. r \in Searches /\ f[n + 1] = Visit(p, name, r)  BY <1>1, <2>1, SearchIs
  <2>3. Known(p, name, r) /\ \A i \in DOMAIN p[t].imports : Comes(r, p[t].imports[i])
    BY <1>3, <2>1
  <2>4. Known(p, name, f[n + 1])  BY <2>2, <2>3, VisitKnown
  <2>5. \A i \in DOMAIN p[t].imports : Comes(f[n + 1], p[t].imports[i])
    <3>1. CASE Ended(p, name, r)  BY <2>2, <2>3, <3>1, EndedStays
    <3>2. CASE ~Ended(p, name, r)  BY <2>2, <2>3, <3>2, VisitComes
    <3> QED  BY <3>1, <3>2
  <2> QED  BY <2>4, <2>5
<1>4. Nat \subseteq I
  <2> HIDE DEF I
  <2> QED  BY <1>2, <1>3, Inductive
<1>5. s = f[Steps(p, t)] /\ Steps(p, t) \in Nat  BY <1>1, SearchedIs, StepsNat
<1> QED  BY <1>4, <1>5

\* A search finds nothing only where there is nothing to find: definitionForText
\* comes to every text that is imported, however the imports go round.
THEOREM SearchComplete ==
  ASSUME NEW p \in [Units -> Contents], NEW t \in Units, NEW name
  PROVE  Definition(p, t, name) = Nowhere <=>
           \A v \in Imported(p, t) \ {Nowhere} : name \notin p[v].declares
<1>1. ASSUME Definition(p, t, name) = Nowhere, NEW v \in Imported(p, t) \ {Nowhere}
      PROVE  name \notin p[v].declares
  <2>1. name \notin p[t].declares  BY <1>1, UnitsAre, DeclaredHere
  <2>2. PICK s : s = Searched(p, t, name)  OBVIOUS
  <2>3. s \in Searches  BY <2>2, SearchedTyped
  <2>4. ~Found(p, name, s)
    BY <1>1, <2>1, <2>2, <2>3, DefinitionSearched, FoundIs
  <2>5. s.paths = <<>>  BY <2>2, <2>4, SearchEnds DEF Ended
  <2>6. \A u : Comes(s, u) => u \in s.visited  BY <2>5 DEF Comes, Holds
  <2>7. Known(p, name, s) /\ \A i \in DOMAIN p[t].imports : p[t].imports[i] \in s.visited
    BY <2>2, <2>6, SearchKnown
  <2> DEFINE S == s.visited \cup {t}
  <2>8. S \in SUBSET Places /\ t \in S  BY <2>3 DEF Searches, Places
  <2>9. \A u \in S \ {Nowhere} : \A i \in DOMAIN p[u].imports : p[u].imports[i] \in S
    BY <2>6, <2>7 DEF Known
  <2> HIDE DEF S
  <2>10. v \in S  BY <2>8, <2>9 DEF Imported
  <2> QED  BY <1>1, <2>1, <2>7, <2>10 DEF Known, S
<1>2. ASSUME Definition(p, t, name) # Nowhere
      PROVE  \E v \in Imported(p, t) \ {Nowhere} : name \in p[v].declares
  BY <1>2, DefinitionIs
<1> QED  BY <1>1, <1>2

-----------------------------------------------------------------------------
(* The answer *)

MapTypeOK ==
  /\ project \in [Units -> Contents]
  /\ stage \in {"idle", "searching", "refused", "answered"}
  /\ asked \in [text : Places, name : MapNames, new : MapNames]
  /\ target \in Places
  /\ at \in Nat
  /\ edits \subseteq Units

\* The texts before the one that is searched have been asked for collisions, and
\* are edited when they have matches.
Answers ==
  /\ stage = "idle" => target = Nowhere
  /\ stage = "searching" => target # Nowhere
  /\ target = Nowhere => edits = {} /\ at = 1
  /\ target # Nowhere =>
       /\ asked.text \in Units
       /\ target = Definition(project, asked.text, asked.name)
       /\ asked.name # asked.new
       /\ stage # "refused" => edits = {t \in Units : t < at /\ Matches(t)}
  /\ \A t \in edits : ~MapNameExists(project, t, asked.new)
  /\ stage = "answered" /\ target # Nowhere => at \notin Units

MapInv == MapTypeOK /\ Answers

LEMMA MapInitInv == MapInit => MapInv
<1> SUFFICES ASSUME MapInit PROVE MapInv  OBVIOUS
<1>1. (CHOOSE n \in MapNames : TRUE) \in MapNames  BY NamesAssumption
<1>2. MapTypeOK  BY <1>1, ProjectsAssumption DEF MapInit, MapTypeOK, Places
<1>3. Answers  BY DEF MapInit, Answers
<1> QED  BY <1>2, <1>3 DEF MapInv

LEMMA MatchesSame ==
  ASSUME project' = project, asked' = asked, target' = target
  PROVE  \A t : Matches(t)' = Matches(t)
BY DEF Matches

LEMMA RequestInv ==
  ASSUME MapInv, NEW t \in Units, NEW name \in MapNames, NEW new \in MapNames,
         Request(t, name, new)
  PROVE  MapInv'
<1>1. /\ stage = "idle" /\ target = Nowhere /\ edits = {} /\ at = 1
      /\ project' = project /\ at' = at /\ edits' = edits
      /\ asked' = [text |-> t, name |-> name, new |-> new]
  BY DEF MapInv, Answers, Request
<1>2. MapTypeOK /\ t \in Places  BY DEF MapInv, Places
<1>3. CASE ~Nameable(t, name)
  <2>1. stage' = "refused" /\ target' = target  BY <1>3 DEF Request
  <2>2. MapTypeOK'  BY <1>1, <1>2, <2>1 DEF MapTypeOK
  <2>3. Answers'  BY <1>1, <2>1 DEF Answers
  <2> QED  BY <2>2, <2>3 DEF MapInv
<1>4. CASE Nameable(t, name) /\ name = new
  <2>1. stage' = "answered" /\ target' = target  BY <1>4 DEF Request
  <2>2. MapTypeOK'  BY <1>1, <1>2, <2>1 DEF MapTypeOK
  <2>3. Answers'  BY <1>1, <2>1 DEF Answers
  <2> QED  BY <2>2, <2>3 DEF MapInv
<1>5. CASE Nameable(t, name) /\ name # new
  <2>1. stage' = "searching" /\ target' = Definition(project, t, name)
    BY <1>5, Zenon DEF Request
  <2>2. target' \in Places /\ target' # Nowhere
    BY <1>2, <1>5, <2>1, DefinitionIs DEF MapTypeOK, Nameable
  <2>3. MapTypeOK'  BY <1>1, <1>2, <2>1, <2>2 DEF MapTypeOK
  <2>4. {u \in Units : u < at' /\ Matches(u)'} = {}
    BY <1>1, UnitsAssumption, UnitsAre
  <2>5. Answers'
    BY <1>1, <1>5, <2>1, <2>2, <2>4 DEF Answers
  <2> QED  BY <2>3, <2>5 DEF MapInv
<1> QED  BY <1>3, <1>4, <1>5

LEMMA SearchInv ==
  ASSUME MapInv, Search
  PROVE  MapInv'
<1>1. /\ stage = "searching" /\ at \in Units /\ at' = at + 1
      /\ project' = project /\ asked' = asked /\ target' = target
  BY DEF Search
<1>2. \A t : Matches(t)' = Matches(t)  BY <1>1, MatchesSame
<1>3. /\ target # Nowhere /\ edits = {t \in Units : t < at /\ Matches(t)}
      /\ asked.text \in Units /\ asked.name # asked.new
      /\ target = Definition(project, asked.text, asked.name)
      /\ \A t \in edits : ~MapNameExists(project, t, asked.new)
  BY <1>1 DEF MapInv, Answers
<1>4. at \in Nat /\ \A t \in Units : t < at + 1 <=> t < at \/ t = at
  BY <1>1, UnitsAre
<1>5. CASE ~Matches(at)
  <2>1. edits' = edits /\ stage' = stage  BY <1>5 DEF Search
  <2>2. MapTypeOK'  BY <1>1, <1>4, <2>1 DEF MapInv, MapTypeOK
  <2>3. edits' = {t \in Units : t < at' /\ Matches(t)'}
    BY <1>1, <1>2, <1>3, <1>4, <1>5, <2>1
  <2>4. \A t \in edits' : ~MapNameExists(project', t, asked'.new)
    BY <1>1, <1>3, <2>1
  <2>5. Answers'
    BY <1>1, <1>3, <2>1, <2>3, <2>4 DEF Answers
  <2> QED  BY <2>2, <2>5 DEF MapInv
<1>6. CASE Matches(at) /\ MapNameExists(project, at, asked.new)
  <2>1. edits' = edits /\ stage' = "refused"  BY <1>6 DEF Search
  <2>2. MapTypeOK'  BY <1>1, <1>4, <2>1 DEF MapInv, MapTypeOK
  <2>3. \A t \in edits' : ~MapNameExists(project', t, asked'.new)
    BY <1>1, <1>3, <2>1
  <2>4. Answers'
    BY <1>1, <1>3, <2>1, <2>3 DEF Answers
  <2> QED  BY <2>2, <2>4 DEF MapInv
<1>7. CASE Matches(at) /\ ~MapNameExists(project, at, asked.new)
  <2>1. edits' = edits \cup {at} /\ stage' = stage  BY <1>7, Zenon DEF Search
  <2>2. MapTypeOK'  BY <1>1, <1>4, <2>1 DEF MapInv, MapTypeOK
  <2>3. edits' = {t \in Units : t < at' /\ Matches(t)'}
    BY <1>1, <1>2, <1>3, <1>4, <1>7, <2>1
  <2>4. \A t \in edits' : ~MapNameExists(project', t, asked'.new)
    BY <1>1, <1>3, <1>7, <2>1
  <2>5. Answers'
    BY <1>1, <1>3, <2>1, <2>3, <2>4 DEF Answers
  <2> QED  BY <2>2, <2>5 DEF MapInv
<1> QED  BY <1>5, <1>6, <1>7

LEMMA EndInv ==
  ASSUME MapInv, Cancel \/ Reply \/ UNCHANGED mapVars
  PROVE  MapInv'
<1>1. /\ project' = project /\ asked' = asked /\ target' = target
      /\ at' = at /\ edits' = edits
      /\ \/ stage = "searching" /\ stage' = "refused"
         \/ stage = "searching" /\ at \notin Units /\ stage' = "answered"
         \/ stage' = stage
  BY DEF Cancel, Reply, mapVars
<1>2. \A t : Matches(t)' = Matches(t)  BY <1>1, MatchesSame
<1>3. MapTypeOK'  BY <1>1 DEF MapInv, MapTypeOK
<1>4. {t \in Units : t < at' /\ Matches(t)'} = {t \in Units : t < at /\ Matches(t)}
  BY <1>1, <1>2
<1>5. Answers'  BY <1>1, <1>4 DEF MapInv, Answers
<1> QED  BY <1>3, <1>5 DEF MapInv

\* A rename has searched the texts before the next one, and adds to its answer
\* those that have matches; none of them reaches the new name.
THEOREM MapInvariant == MapSpec => []MapInv
<1>1. MapInv /\ [MapNext]_mapVars => MapInv'
  BY RequestInv, SearchInv, EndInv DEF MapNext
<1> QED  BY <1>1, MapInitInv, PTL DEF MapSpec

-----------------------------------------------------------------------------
(* The project after the edits *)

LEMMA EditedIs ==
  ASSUME MapInv
  PROVE  /\ Edited \in [Units -> Contents]
         /\ \A u \in Units :
              /\ Edited[u].imports = project[u].imports
              /\ Edited[u].declares = {NewName(u, n) : n \in project[u].declares}
<1>1. ASSUME NEW u \in Units
      PROVE  /\ Edited[u] \in Contents
             /\ Edited[u].imports = project[u].imports
             /\ Edited[u].declares = {NewName(u, n) : n \in project[u].declares}
  <2>1. PICK c \in Contents : c = project[u]  BY DEF MapInv, MapTypeOK
  <2>2. \A n \in MapNames : NewName(u, n) \in MapNames
    BY DEF NewName, MapInv, MapTypeOK
  <2> DEFINE D == {NewName(u, n) : n \in c.declares}
             A == {NewName(u, n) : n \in c.applies}
  <2>3. D \in SUBSET MapNames /\ A \in SUBSET MapNames  BY <2>2 DEF Contents
  <2>4. Edited[u] = [c EXCEPT !.declares = D, !.applies = A]  BY <2>1 DEF Edited
  <2>5. D = {NewName(u, n) : n \in project[u].declares}  BY <2>1
  <2> HIDE DEF D, A
  <2>6. Edited[u] \in Contents /\ Edited[u].imports = c.imports /\ Edited[u].declares = D
    BY <2>3, <2>4 DEF Contents
  <2> QED  BY <2>1, <2>5, <2>6
<1>2. Edited = [u \in Units |-> Edited[u]]  BY DEF Edited
<1>3. Edited \in [Units -> Contents]
  <2> HIDE DEF Edited
  <2> QED  BY <1>1, <1>2
<1> QED  BY <1>1, <1>3

\* An answer that edits something has edited every text with matches.
LEMMA AllEdited ==
  ASSUME MapInv, stage = "answered", edits # {}
  PROVE  /\ target \in Units
         /\ asked.name \in project[target].declares
         /\ asked.name # asked.new
         /\ \A t : t \in edits <=> t \in Units /\ Matches(t)
<1>1. target # Nowhere /\ at \notin Units  BY DEF MapInv, Answers
<1>2. /\ asked.text \in Units /\ asked.name # asked.new
      /\ target = Definition(project, asked.text, asked.name)
      /\ edits = {t \in Units : t < at /\ Matches(t)}
  BY <1>1 DEF MapInv, Answers
<1>3. target \in Units /\ asked.name \in project[target].declares
  BY <1>1, <1>2, DefinitionIs DEF MapInv, MapTypeOK
<1>4. PICK t \in Units : t < at  BY <1>2
<1>5. \A u \in Units : u < at
  BY <1>1, <1>4, UnitsAssumption, UnitsAre DEF MapInv, MapTypeOK
<1> QED  BY <1>2, <1>3, <1>5

LEMMA MentionedHere ==
  ASSUME MapInv, NEW t \in Units, ~MapNameExists(project, t, asked.new)
  PROVE  /\ \A v \in Imported(project, t) \ {Nowhere} : asked.new \notin project[v].declares
         /\ asked.new \notin project[t].applies
<1>1. t \in Imported(project, t)
  BY ImportedCloses DEF MapInv, MapTypeOK
<1> QED  BY <1>1 DEF MapNameExists, Mentions

\* The rename of a map leaves alone what is applied by the texts that use the
\* map, and by those whose imports do not know the new name.
LEMMA Kept ==
  ASSUME MapInv, stage = "answered", edits # {}, ~project[target].broken,
         NEW t \in Units, ~project[t].broken,
         Uses(t) \/ ~MapNameExists(project, t, asked.new),
         NEW n \in project[t].applies
  PROVE  Definition(Edited, t, NewName(t, n)) = Definition(project, t, n)
<1> DEFINE b == NewName(t, n)
           d == Definition(project, t, n)
<1>1. project \in [Units -> Contents]  BY DEF MapInv, MapTypeOK
<1>2. /\ target \in Units /\ asked.name \in project[target].declares
      /\ asked.name # asked.new
      /\ \A u : u \in edits <=> u \in Units /\ Matches(u)
  BY AllEdited
<1>3. /\ Edited \in [Units -> Contents]
      /\ \A u \in Units : Edited[u].imports = project[u].imports
  BY EditedIs
<1>4. \A u \in Units : \A m : m \in Edited[u].declares <=>
                                \E k \in project[u].declares : m = NewName(u, k)
  BY EditedIs
<1>5. ~MapNameExists(project, t, asked.new)
  <2>1. CASE Uses(t)
    <3>1. t \in edits  BY <1>2, <2>1 DEF Uses, Matches, Mentions
    <3> QED  BY <3>1 DEF MapInv, Answers
  <2> QED  BY <2>1
<1>6. /\ \A v \in Imported(project, t) \ {Nowhere} : asked.new \notin project[v].declares
      /\ asked.new \notin project[t].applies
  BY <1>5, MentionedHere
<1>7. \A v \in Imported(project, t) \ {Nowhere} : v \in Units
  BY <1>1, ImportedCloses DEF Places
<1>8. target \in edits
  BY <1>2, DeclaredHere DEF Matches, Mentions
<1>9. d # Nowhere => d \in Units /\ n \in project[d].declares
  BY <1>1, DefinitionIs
<1>10. ASSUME NEW v \in Imported(project, t) \ {Nowhere}, b \in Edited[v].declares
       PROVE  n \in project[v].declares
  <2>1. PICK k \in project[v].declares : b = NewName(v, k)  BY <1>4, <1>7, <1>10
  <2>2. k # asked.new /\ n # asked.new  BY <1>6
  <2>3. CASE n = asked.name /\ t \in edits
    <3>1. NewName(v, k) = asked.new  BY <2>1, <2>3 DEF NewName
    <3> QED  BY <2>2, <2>3, <3>1 DEF NewName
  <2>4. CASE ~(n = asked.name /\ t \in edits)
    <3>1. NewName(v, k) = n  BY <2>1, <2>4 DEF NewName
    <3> QED  BY <2>2, <3>1 DEF NewName
  <2> QED  BY <2>3, <2>4
<1>11. ASSUME d # Nowhere PROVE b \in Edited[d].declares
  <2>1. d \in Units /\ n \in project[d].declares  BY <1>9, <1>11
  <2>2. NewName(d, n) \in Edited[d].declares  BY <1>4, <2>1
  <2>3. CASE n = asked.name /\ t \in edits
    <3>1. d = target  BY <1>2, <2>3 DEF Matches
    <3>2. NewName(d, n) = b  BY <1>8, <2>3, <3>1 DEF NewName
    <3> QED  BY <2>2, <3>2
  <2>4. CASE n = asked.name /\ t \notin edits
    <3>1. d # target  BY <1>2, <2>4 DEF Matches, Mentions
    <3>2. Definition(project, d, n) = d  BY <2>1, DeclaredHere
    <3>3. d \notin edits  BY <1>2, <2>4, <3>1, <3>2 DEF Matches
    <3>4. NewName(d, n) = n /\ b = n  BY <2>4, <3>3 DEF NewName
    <3> QED  BY <2>2, <3>4
  <2>5. CASE n # asked.name
    <3>1. NewName(d, n) = n /\ b = n  BY <2>5 DEF NewName
    <3> QED  BY <2>2, <3>1
  <2> QED  BY <2>3, <2>4, <2>5
<1> HIDE DEF b
<1>12. PICK q : q = Edited  OBVIOUS
<1>13. PICK p : p = project  OBVIOUS
<1>14. Definition(q, t, b) = Definition(p, t, n)
  <2>1. p \in [Units -> Contents] /\ q \in [Units -> Contents]  BY <1>1, <1>3, <1>12, <1>13
  <2>2. SameImports(p, q)  BY <1>3, <1>12, <1>13 DEF SameImports
  <2>3. Carries(p, t, n, q, b)  BY <1>10, <1>11, <1>12, <1>13 DEF Carries
  <2> HIDE DEF d
  <2> QED  BY <2>1, <2>2, <2>3, DefinitionKept
<1> QED  BY <1>12, <1>13, <1>14 DEF b

\* A text that uses the renamed map still does, and applies nothing else than
\* before; so does a text whose imports do not know the new name.
THEOREM MapUsersKeep == MapSpec => []UsersKeep
<1>1. MapInv => UsersKeep
  <2>1. SUFFICES ASSUME MapInv, stage = "answered", edits # {}, ~project[target].broken,
                        NEW t \in Units, ~project[t].broken,
                        Uses(t) \/ ~MapNameExists(project, t, asked.new),
                        NEW n \in project[t].applies
                 PROVE  Definition(Edited, t, NewName(t, n)) = Definition(project, t, n)
    BY DEF UsersKeep, Keeps
  <2> QED  BY <2>1, Kept
<1> QED  BY <1>1, MapInvariant, PTL

\* What DeclarationRenamed says holds when the declaration is in a text without
\* syntax errors.
THEOREM DeclarationRenamedUnlessBroken ==
  MapSpec => [](~project[target].broken => DeclarationRenamed)
<1>1. MapInv => (~project[target].broken => DeclarationRenamed)
  <2>1. SUFFICES ASSUME MapInv, ~project[target].broken, stage = "answered", edits # {}
                 PROVE  target \in edits
    BY DEF DeclarationRenamed
  <2> QED  BY <2>1, AllEdited, DeclaredHere DEF Matches, Mentions
<1> QED  BY <1>1, MapInvariant, PTL

-----------------------------------------------------------------------------
(* The comparison of tokens *)

Passing(after) ==
  CHOOSE found :
    found = [i \in Nat |-> IF i = 0 THEN 0 ELSE Pass(out[i], after, found[i - 1])]

LEMMA MatchingIs ==
  ASSUME NEW after
  PROVE  Matching(after) = [i \in 0..Len(out) |-> Passing(after)[i]]
BY DEF Matching, Passing

LEMMA PassIs ==
  ASSUME NEW after, Len(after) \in Nat, NEW p, NEW j \in Nat
  PROVE  /\ Pass(p, after, j) \in Nat
         /\ ~(j < Len(after)) => Pass(p, after, j) = Len(after) + 1
         /\ j < Len(after) =>
              \/ TextAt(tree, p) = after[j + 1].text /\ Pass(p, after, j) = j + 1
              \/ p \in CommaPlaces(tree) /\ Pass(p, after, j) = j
              \/ Pass(p, after, j) = Len(after) + 1
<1> DEFINE same == TextAt(tree, p) = after[j + 1].text
           comma == p \in CommaPlaces(tree) /\ after[j + 1].inline
<1>1. CASE j < Len(after) /\ same
  <2>1. Pass(p, after, j) = j + 1  BY <1>1 DEF Pass
  <2> QED  BY <1>1, <2>1
<1>2. CASE j < Len(after) /\ ~same /\ comma
  <2>1. Pass(p, after, j) = j  BY <1>2 DEF Pass
  <2> QED  BY <1>2, <2>1
<1>3. CASE ~(j < Len(after)) \/ (~same /\ ~comma)
  <2>1. Pass(p, after, j) = Len(after) + 1  BY <1>3 DEF Pass
  <2> QED  BY <1>3, <2>1
<1> QED  BY <1>1, <1>2, <1>3

LEMMA PassingIs ==
  ASSUME NEW after, Len(after) \in Nat, NEW f, f = Passing(after)
  PROVE  /\ f \in [Nat -> Nat]
         /\ f[0] = 0
         /\ \A n \in Nat : f[n + 1] = Pass(out[n + 1], after, f[n])
<1> DEFINE step == [x \in Nat \X Nat |-> Pass(out[x[1] + 1], after, x[2])]
<1>1. step \in [Nat \X Nat -> Nat]
  <2>1. ASSUME NEW x \in Nat \X Nat PROVE Pass(out[x[1] + 1], after, x[2]) \in Nat
    BY PassIs
  <2> QED  BY <2>1
<1>2. PICK g \in [Nat -> Nat] : g[0] = 0 /\ \A n \in Nat : g[n + 1] = step[<<n, g[n]>>]
  <2> HIDE DEF step
  <2>1. \E g : Follows(Nat, 0, step, g)  BY <1>1, StepsExist
  <2> QED  BY <2>1 DEF Follows
<1>3. \A n \in Nat : g[n + 1] = Pass(out[n + 1], after, g[n])
  BY <1>2
<1> HIDE DEF step
<1> DEFINE At(h, i) == IF i = 0 THEN 0 ELSE Pass(out[i], after, h[i - 1])
<1>4. g = [i \in Nat |-> At(g, i)]
  <2>1. ASSUME NEW i \in Nat PROVE g[i] = At(g, i)
    <3>1. CASE i = 0  BY <3>1, <1>2
    <3>2. CASE i # 0
      <4>1. i - 1 \in Nat /\ (i - 1) + 1 = i  BY <3>2
      <4>2. g[(i - 1) + 1] = Pass(out[(i - 1) + 1], after, g[i - 1])  BY <4>1, <1>3
      <4> QED  BY <3>2, <4>1, <4>2
    <3> QED  BY <3>1, <3>2
  <2> HIDE DEF At
  <2> QED  BY <2>1
<1>5. f = [i \in Nat |-> At(f, i)]
  BY <1>4 DEF Passing
<1>6. ASSUME NEW i \in Nat PROVE f[i] = At(f, i)
  <2> HIDE DEF At
  <2> QED  BY <1>5
<1>7. f[0] = 0
  BY <1>6
<1>8. ASSUME NEW n \in Nat PROVE f[n + 1] = Pass(out[n + 1], after, f[n])
  <2>1. n + 1 \in Nat /\ n + 1 # 0 /\ (n + 1) - 1 = n  OBVIOUS
  <2>2. f[n + 1] = Pass(out[n + 1], after, f[(n + 1) - 1])  BY <2>1, <1>6
  <2> QED  BY <2>1, <2>2
<1>9. f \in [Nat -> Nat]
  <2> DEFINE I == {n \in Nat : f[n] \in Nat}
  <2>1. 0 \in I  BY <1>7
  <2>2. ASSUME NEW n \in Nat, n \in I PROVE n + 1 \in I
    <3>1. PICK j \in Nat : j = f[n]  BY <2>2
    <3>2. Pass(out[n + 1], after, j) \in Nat  BY PassIs
    <3>3. f[n + 1] = Pass(out[n + 1], after, j)  BY <3>1, <1>8
    <3>4. f[n + 1] \in Nat  BY <3>2, <3>3
    <3> QED  BY <3>4
  <2>3. Nat \subseteq I
    <3> HIDE DEF I
    <3> QED  BY <2>1, <2>2, Inductive
  <2>4. f = [i \in Nat |-> f[i]]
    <3> HIDE DEF At
    <3> QED  BY <1>5
  <2> QED  BY <2>3, <2>4
<1> QED  BY <1>7, <1>8, <1>9

\* How a comparison that succeeds counts.
Climbs(m, n, a) ==
  /\ m \in [0..n -> Nat] /\ m[0] = 0 /\ m[n] = a
  /\ \A i \in 1..n : m[i - 1] < a /\ (m[i] = m[i - 1] + 1 \/ m[i] = m[i - 1])

\* It never passes the end of the result, which it could not come back from.
LEMMA MatchingClimbs ==
  ASSUME NEW after, NEW a \in Nat, Len(after) = a, NEW n \in Nat, Len(out) = n,
         NEW m, m = Matching(after), m[n] = a
  PROVE  /\ Climbs(m, n, a)
         /\ \A i \in 1..n :
              \/ m[i] = m[i - 1] + 1 /\ TextAt(tree, out[i]) = after[m[i - 1] + 1].text
              \/ m[i] = m[i - 1] /\ out[i] \in CommaPlaces(tree)
<1>1. PICK f : f = Passing(after)  OBVIOUS
<1>2. f \in [Nat -> Nat] /\ f[0] = 0 /\ \A k \in Nat : f[k + 1] = Pass(out[k + 1], after, f[k])
  BY <1>1, PassingIs
<1>3. m = [i \in 0..n |-> f[i]]
  BY <1>1, MatchingIs
<1>4. ASSUME NEW k \in Nat, f[k + 1] <= a PROVE f[k] < a
  <2>1. f[k] \in Nat /\ f[k + 1] = Pass(out[k + 1], after, f[k])  BY <1>2
  <2>2. ~(f[k] < a) => f[k + 1] = a + 1  BY <2>1, PassIs
  <2> QED  BY <1>4, <2>1, <2>2
<1>5. \A i \in 0..n : f[i] <= a
  <2> DEFINE I == {d \in Nat : d <= n => f[n - d] <= a}
  <2>1. 0 \in I  BY <1>2, <1>3
  <2>2. ASSUME NEW d \in Nat, d \in I PROVE d + 1 \in I
    <3>1. CASE d + 1 <= n
      <4>1. PICK k \in Nat : k = n - (d + 1)  BY <3>1
      <4>2. k + 1 = n - d /\ f[n - d] <= a  BY <4>1, <3>1, <2>2
      <4>3. f[k] < a  BY <4>2, <1>4
      <4>4. f[k] \in Nat  BY <1>2
      <4> QED  BY <4>1, <4>3, <4>4
    <3>2. CASE ~(d + 1 <= n)  BY <3>2
    <3> QED  BY <3>1, <3>2
  <2>3. Nat \subseteq I
    <3> HIDE DEF I
    <3> QED  BY <2>1, <2>2, Inductive
  <2>4. ASSUME NEW i \in 0..n PROVE f[i] <= a
    <3>1. n - i \in Nat /\ n - (n - i) = i /\ n - i <= n  OBVIOUS
    <3> QED  BY <2>3, <3>1
  <2> QED  BY <2>4
<1>6. ASSUME NEW i \in 1..n
      PROVE  /\ m[i - 1] < a
             /\ \/ m[i] = m[i - 1] + 1 /\ TextAt(tree, out[i]) = after[m[i - 1] + 1].text
                \/ m[i] = m[i - 1] /\ out[i] \in CommaPlaces(tree)
  <2>1. PICK k \in Nat : k = i - 1 /\ k + 1 = i  OBVIOUS
  <2>2. m[i - 1] = f[k] /\ m[i] = f[k + 1]  BY <1>3, <2>1
  <2>3. f[k + 1] <= a /\ f[k] < a  BY <1>4, <1>5, <2>1
  <2>4. f[k] \in Nat /\ f[k + 1] = Pass(out[i], after, f[k])  BY <1>2, <2>1
  <2>5. \/ TextAt(tree, out[i]) = after[f[k] + 1].text /\ f[k + 1] = f[k] + 1
        \/ out[i] \in CommaPlaces(tree) /\ f[k + 1] = f[k]
        \/ f[k + 1] = a + 1
    BY <2>3, <2>4, PassIs
  <2> QED  BY <2>2, <2>3, <2>5
<1>7. m \in [0..n -> Nat] /\ m[0] = 0
  <2>1. 0 \in 0..n  OBVIOUS
  <2>2. f \in [Nat -> Nat]  BY <1>2
  <2>3. ASSUME NEW i \in 0..n PROVE f[i] \in Nat
    <3>1. i \in Nat  OBVIOUS
    <3> QED  BY <2>2, <3>1
  <2> QED  BY <1>2, <1>3, <2>1, <2>3
<1> QED  BY <1>6, <1>7 DEF Climbs

LEMMA ClimbsOn ==
  ASSUME NEW n \in Nat, NEW a \in Nat, NEW m, Climbs(m, n, a)
  PROVE  \A i, j \in 0..n : i <= j => m[i] <= m[j]
<1> DEFINE I == {d \in Nat : \A i \in 0..n : i + d <= n => m[i] <= m[i + d]}
<1>1. 0 \in I  BY DEF Climbs
<1>2. ASSUME NEW d \in Nat, d \in I PROVE d + 1 \in I
  <2>1. ASSUME NEW i \in 0..n, i + (d + 1) <= n PROVE m[i] <= m[i + (d + 1)]
    <3>1. PICK k \in 1..n : k = i + (d + 1) /\ k - 1 = i + d  BY <2>1
    <3>2. m[i] <= m[k - 1]  BY <3>1, <1>2
    <3>3. m[k] = m[k - 1] + 1 \/ m[k] = m[k - 1]  BY DEF Climbs
    <3>4. m[i] \in Nat /\ m[k - 1] \in Nat
      <4>1. k - 1 \in 0..n  OBVIOUS
      <4> QED  BY <4>1 DEF Climbs
    <3> QED  BY <3>1, <3>2, <3>3, <3>4
  <2> QED  BY <2>1
<1>3. Nat \subseteq I
  <2> HIDE DEF I
  <2> QED  BY <1>1, <1>2, Inductive
<1>4. ASSUME NEW i \in 0..n, NEW j \in 0..n, i <= j PROVE m[i] <= m[j]
  <2>1. PICK d \in Nat : d = j - i /\ i + d = j  BY <1>4
  <2>2. d \in I  BY <1>3
  <2>3. i + d <= n  BY <2>1
  <2>4. m[i] <= m[i + d]  BY <2>2, <2>3
  <2> QED  BY <2>1, <2>4
<1> QED  BY <1>4

\* Every count is reached, at one place.
Reached(m, n, k, i) == i \in 1..n /\ m[i - 1] = k - 1 /\ m[i] = k

LEMMA ClimbsThrough ==
  ASSUME NEW n \in Nat, NEW a \in Nat, NEW m, Climbs(m, n, a), NEW k \in 1..a
  PROVE  \E i \in 1..n : Reached(m, n, k, i)
<1> SUFFICES ASSUME \A i \in 1..n : ~Reached(m, n, k, i) PROVE FALSE
  OBVIOUS
<1> DEFINE I == {i \in Nat : i <= n => m[i] < k}
<1>1. 0 \in I  BY DEF Climbs
<1>2. ASSUME NEW i \in Nat, i \in I PROVE i + 1 \in I
  <2>1. CASE i + 1 <= n
    <3>1. i + 1 \in 1..n /\ (i + 1) - 1 = i /\ i \in 0..n  BY <2>1
    <3>2. m[i] \in Nat /\ m[i] < k  BY <1>2, <3>1 DEF Climbs
    <3>3. m[i + 1] = m[i] + 1 \/ m[i + 1] = m[i]  BY <3>1 DEF Climbs
    <3>4. ~(m[i] = k - 1 /\ m[i + 1] = k)  BY <3>1 DEF Reached
    <3>5. m[i + 1] < k  BY <3>2, <3>3, <3>4
    <3> QED  BY <3>5
  <2>2. CASE ~(i + 1 <= n)  BY <2>2
  <2> QED  BY <2>1, <2>2
<1>3. Nat \subseteq I
  <2> HIDE DEF I
  <2> QED  BY <1>1, <1>2, Inductive
<1>4. m[n] < k  BY <1>3
<1> QED  BY <1>4 DEF Climbs

LEMMA ReachedOrdered ==
  ASSUME NEW n \in Nat, NEW a \in Nat, NEW m, Climbs(m, n, a),
         NEW k \in 1..a, NEW l \in 1..a, NEW i \in 1..n, NEW j \in 1..n,
         Reached(m, n, k, i), Reached(m, n, l, j)
  PROVE  /\ k < l => i < j
         /\ k = l => i = j
<1>1. i \in 0..n /\ j \in 0..n /\ i - 1 \in 0..n /\ j - 1 \in 0..n
  BY DEF Reached
<1>2. m[i] = k /\ m[i - 1] = k - 1 /\ m[j] = l /\ m[j - 1] = l - 1
  BY DEF Reached
<1>3. j <= i - 1 => m[j] <= m[i - 1]  BY <1>1, ClimbsOn
<1>4. i <= j - 1 => m[i] <= m[j - 1]  BY <1>1, ClimbsOn
<1>5. j <= i => m[j] <= m[i]  BY <1>1, ClimbsOn
<1> QED  BY <1>1, <1>2, <1>3, <1>4, <1>5

-----------------------------------------------------------------------------
(* Rendering *)

Flats == [ok : BOOLEAN, places : Seq(Nat), width : Nat, breaks : BOOLEAN]

LEMMA ElementIs ==
  ASSUME NEW d \in Layouts, NEW i \in 1..Len(d)
  PROVE  /\ Len(d) \in Nat /\ d[i] \in Elements
         /\ d[i].op \in {"text", "line", "group"}
         /\ d[i].places \in Seq(Nat) /\ d[i].width \in Nat /\ d[i].size \in Nat
         /\ d[i].indent \in Nat /\ d[i].hard \in BOOLEAN /\ d[i].brokenOnly \in BOOLEAN
         /\ i + d[i].size <= Len(d)
<1>1. d \in Seq(Elements) /\ \A k \in DOMAIN d : k + d[k].size <= Len(d)
  BY DEF Layouts
<1>2. Len(d) \in Nat /\ i \in DOMAIN d
  BY <1>1
<1>3. d[i] \in Elements
  BY <1>1, <1>2
<1> QED  BY <1>1, <1>2, <1>3 DEF Elements

LEMMA AlongTyped ==
  ASSUME NEW flat \in Flats, NEW e \in Elements
  PROVE  Along(flat, e) \in Flats
<1>1. flat.ok \in BOOLEAN /\ flat.places \in Seq(Nat) /\ flat.width \in Nat /\ flat.breaks \in BOOLEAN
  BY DEF Flats
<1>2. e.places \in Seq(Nat) /\ e.width \in Nat
  BY DEF Elements
<1>3. flat.places \o e.places \in Seq(Nat) /\ flat.width + e.width \in Nat
  BY <1>1, <1>2
<1>4. (flat.ok /\ ~e.hard) \in BOOLEAN /\ (flat.breaks \/ e.op = "line") \in BOOLEAN
  OBVIOUS
<1> QED  BY <1>1, <1>3, <1>4 DEF Along, Flats

Flattening(d, i) ==
  CHOOSE flat : flat = [k \in 0..d[i].size |->
                          IF k = 0 THEN Empty ELSE Along(flat[k - 1], d[i + k])]

LEMMA FlatLayoutTyped ==
  ASSUME NEW d \in Layouts, NEW i \in 1..Len(d)
  PROVE  FlatLayout(d, i) \in Flats
<1>1. PICK m \in Nat : m = d[i].size /\ i + m <= Len(d)
  BY ElementIs
<1> DEFINE step == [x \in Nat \X Flats |->
                      IF x[1] + 1 <= m THEN Along(x[2], d[i + (x[1] + 1)]) ELSE Empty]
<1>2. Empty \in Flats
  BY DEF Empty, Flats
<1>3. step \in [Nat \X Flats -> Flats]
  <2>1. ASSUME NEW x \in Nat \X Flats, x[1] + 1 <= m PROVE Along(x[2], d[i + (x[1] + 1)]) \in Flats
    <3>1. i + (x[1] + 1) \in 1..Len(d)  BY <2>1, <1>1
    <3>2. d[i + (x[1] + 1)] \in Elements  BY <3>1, ElementIs
    <3> QED  BY <3>2, AlongTyped
  <2> QED  BY <2>1, <1>2
<1>4. PICK g : Begins(Flats, Empty, step, m, g)
  <2> HIDE DEF step
  <2> QED  BY <1>2, <1>3, BeginsExist
<1>5. g \in [0..m -> Flats] /\ g[0] = Empty
  BY <1>4 DEF Begins
<1>6. ASSUME NEW k \in 0..m - 1 PROVE g[k + 1] = Along(g[k], d[i + (k + 1)])
  <2>1. g[k + 1] = step[<<k, g[k]>>]  BY <1>4 DEF Begins
  <2>2. <<k, g[k]>> \in Nat \X Flats /\ k + 1 <= m  BY <1>5
  <2> QED  BY <2>1, <2>2
<1> HIDE DEF step
<1> DEFINE At(h, k) == IF k = 0 THEN Empty ELSE Along(h[k - 1], d[i + k])
<1>7. g = [k \in 0..m |-> At(g, k)]
  <2>1. ASSUME NEW k \in 0..m PROVE g[k] = At(g, k)
    <3>1. CASE k = 0  BY <3>1, <1>5
    <3>2. CASE k # 0
      <4>1. k - 1 \in 0..m - 1 /\ (k - 1) + 1 = k  BY <3>2
      <4>2. g[(k - 1) + 1] = Along(g[k - 1], d[i + ((k - 1) + 1)])  BY <4>1, <1>6
      <4> QED  BY <3>2, <4>1, <4>2
    <3> QED  BY <3>1, <3>2
  <2> HIDE DEF At
  <2> QED  BY <2>1, <1>5
<1>8. PICK f : f = Flattening(d, i)
  OBVIOUS
<1>9. f = [k \in 0..m |-> At(f, k)]
  BY <1>1, <1>7, <1>8 DEF Flattening
<1>10. ASSUME NEW k \in 0..m PROVE f[k] = At(f, k)
  <2> HIDE DEF At
  <2> QED  BY <1>9
<1>11. f[m] \in Flats
  <2> DEFINE I == {k \in Nat : k <= m => f[k] \in Flats}
  <2>1. 0 \in I
    <3>1. 0 \in 0..m  OBVIOUS
    <3> QED  BY <3>1, <1>2, <1>10
  <2>2. ASSUME NEW k \in Nat, k \in I PROVE k + 1 \in I
    <3>1. CASE k + 1 <= m
      <4>1. k + 1 \in 0..m /\ (k + 1) - 1 = k /\ k + 1 # 0 /\ i + (k + 1) \in 1..Len(d)
        BY <3>1, <1>1
      <4>2. f[k + 1] = Along(f[k], d[i + (k + 1)])  BY <4>1, <1>10
      <4>3. d[i + (k + 1)] \in Elements  BY <4>1, ElementIs
      <4>4. f[k] \in Flats  BY <2>2, <3>1
      <4>5. f[k + 1] \in Flats  BY <4>2, <4>3, <4>4, AlongTyped
      <4> QED  BY <4>5
    <3>2. CASE ~(k + 1 <= m)  BY <3>2
    <3> QED  BY <3>1, <3>2
  <2>3. Nat \subseteq I
    <3> HIDE DEF I
    <3> QED  BY <2>1, <2>2, Inductive
  <2> QED  BY <2>3
<1>12. FlatLayout(d, i) = f[m]
  BY <1>1, <1>8 DEF FlatLayout, Flattening
<1> QED  BY <1>11, <1>12

Widening(d) ==
  CHOOSE prefix :
    prefix = [n \in 0..Len(d) |-> IF n = 0 THEN 0
                                  ELSE WidthWith(d[Len(d) - n + 1], prefix[n - 1])]

LEMMA WidthWithIs ==
  ASSUME NEW d \in Layouts, NEW i \in 1..Len(d), NEW w \in Nat
  PROVE  WidthWith(d[i], w) \in Nat
<1>1. d[i].op \in {"text", "line", "group"} /\ d[i].width \in Nat
  BY ElementIs
<1> QED  BY <1>1 DEF WidthWith

LEMMA PrefixIs ==
  ASSUME NEW d \in Layouts
  PROVE  /\ \A n \in 0..Len(d) : Prefix(d, n) \in Nat
         /\ \A n \in 0..Len(d) - 1 : Prefix(d, n + 1) = WidthWith(d[Len(d) - n], Prefix(d, n))
<1>1. PICK m \in Nat : m = Len(d)
  BY DEF Layouts
<1> DEFINE step == [x \in Nat \X Nat |-> IF x[1] + 1 <= m THEN WidthWith(d[m - x[1]], x[2]) ELSE 0]
<1>2. step \in [Nat \X Nat -> Nat]
  <2>1. ASSUME NEW x \in Nat \X Nat, x[1] + 1 <= m PROVE WidthWith(d[m - x[1]], x[2]) \in Nat
    <3>1. m - x[1] \in 1..Len(d)  BY <2>1, <1>1
    <3> QED  BY <3>1, WidthWithIs
  <2> QED  BY <2>1
<1>3. PICK g : Begins(Nat, 0, step, m, g)
  <2> HIDE DEF step
  <2> QED  BY <1>2, BeginsExist
<1>4. g \in [0..m -> Nat] /\ g[0] = 0
  BY <1>3 DEF Begins
<1>5. ASSUME NEW k \in 0..m - 1 PROVE g[k + 1] = WidthWith(d[m - k], g[k])
  <2>1. g[k + 1] = step[<<k, g[k]>>]  BY <1>3 DEF Begins
  <2>2. <<k, g[k]>> \in Nat \X Nat /\ k + 1 <= m  BY <1>4
  <2> QED  BY <2>1, <2>2
<1> HIDE DEF step
<1> DEFINE At(h, n) == IF n = 0 THEN 0 ELSE WidthWith(d[m - n + 1], h[n - 1])
<1>6. g = [n \in 0..m |-> At(g, n)]
  <2>1. ASSUME NEW n \in 0..m PROVE g[n] = At(g, n)
    <3>1. CASE n = 0  BY <3>1, <1>4
    <3>2. CASE n # 0
      <4>1. n - 1 \in 0..m - 1 /\ (n - 1) + 1 = n /\ m - (n - 1) = m - n + 1  BY <3>2
      <4>2. g[(n - 1) + 1] = WidthWith(d[m - (n - 1)], g[n - 1])  BY <4>1, <1>5
      <4> QED  BY <3>2, <4>1, <4>2
    <3> QED  BY <3>1, <3>2
  <2> HIDE DEF At
  <2> QED  BY <2>1, <1>4
<1>7. PICK f : f = Widening(d)
  OBVIOUS
<1>8. f = [n \in 0..m |-> At(f, n)]
  BY <1>1, <1>6, <1>7 DEF Widening
<1>9. ASSUME NEW n \in 0..m PROVE f[n] = At(f, n)
  <2> HIDE DEF At
  <2> QED  BY <1>8
<1>10. ASSUME NEW n \in 0..m - 1 PROVE f[n + 1] = WidthWith(d[m - n], f[n])
  <2>1. n + 1 \in 0..m /\ (n + 1) - 1 = n /\ n + 1 # 0 /\ m - (n + 1) + 1 = m - n
    OBVIOUS
  <2> QED  BY <2>1, <1>9
<1>11. \A n \in 0..m : f[n] \in Nat
  <2> DEFINE I == {n \in Nat : n <= m => f[n] \in Nat}
  <2>1. 0 \in I
    <3>1. 0 \in 0..m  OBVIOUS
    <3> QED  BY <3>1, <1>9
  <2>2. ASSUME NEW n \in Nat, n \in I PROVE n + 1 \in I
    <3>1. CASE n + 1 <= m
      <4>1. n \in 0..m - 1 /\ m - n \in 1..Len(d)  BY <3>1, <1>1
      <4>2. f[n] \in Nat  BY <2>2, <3>1
      <4>3. f[n + 1] = WidthWith(d[m - n], f[n])  BY <4>1, <1>10
      <4>4. f[n + 1] \in Nat  BY <4>1, <4>2, <4>3, WidthWithIs
      <4> QED  BY <4>4
    <3>2. CASE ~(n + 1 <= m)  BY <3>2
    <3> QED  BY <3>1, <3>2
  <2>3. Nat \subseteq I
    <3> HIDE DEF I
    <3> QED  BY <2>1, <2>2, Inductive
  <2> QED  BY <2>3
<1>12. \A n : Prefix(d, n) = f[n]
  BY <1>7 DEF Prefix, Widening
<1> HIDE DEF At
<1> QED  BY <1>1, <1>10, <1>11, <1>12

\* What is left of a layout once its first i elements are rendered.
Rest(d, i) == Prefix(d, Len(d) - i)

LEMMA RestIs ==
  ASSUME NEW d \in Layouts, NEW i \in 0..Len(d)
  PROVE  /\ Rest(d, i) \in Nat
         /\ i + 1 <= Len(d) => Rest(d, i) = WidthWith(d[i + 1], Rest(d, i + 1))
<1>1. PICK m \in Nat : m = Len(d)
  BY DEF Layouts
<1>2. Rest(d, i) \in Nat
  <2>1. m - i \in 0..Len(d)  BY <1>1
  <2> QED  BY <1>1, <2>1, PrefixIs DEF Rest
<1>3. ASSUME i + 1 <= m PROVE Rest(d, i) = WidthWith(d[i + 1], Rest(d, i + 1))
  <2>0. i \in Nat /\ m - (i + 1) \in 0..m - 1  BY <1>1, <1>3
  <2>1. PICK n \in 0..m - 1 : n = m - (i + 1)  BY <2>0
  <2>2. n + 1 = m - i /\ m - n = i + 1  BY <1>1, <2>1
  <2>3. Prefix(d, n + 1) = WidthWith(d[m - n], Prefix(d, n))  BY <1>1, PrefixIs
  <2> QED  BY <1>1, <2>1, <2>2, <2>3 DEF Rest
<1> QED  BY <1>1, <1>2, <1>3

RenderedTokens == [place : Nat, breaks : Nat]
Pages ==
  [at : Nat, column : Nat, tokens : Seq(RenderedTokens), breaks : Nat, flat : BOOLEAN,
   long : BOOLEAN]

\* What is to come on a line that holds a flattened break fits.
Fitting(d, w, page) ==
  /\ page \in Pages /\ page.at <= Len(d) /\ ~page.long
  /\ page.flat => page.column + Rest(d, page.at) <= w

LEMMA PageIs ==
  ASSUME NEW page \in Pages
  PROVE  /\ page.at \in Nat /\ page.column \in Nat /\ page.tokens \in Seq(RenderedTokens)
         /\ page.breaks \in Nat /\ page.flat \in BOOLEAN /\ page.long \in BOOLEAN
BY DEF Pages

LEMMA WriteIs ==
  ASSUME NEW page \in Pages, NEW places \in Seq(Nat), NEW w \in Nat,
         NEW written_, written_ = Write(page, places, w)
  PROVE  /\ written_ \in Pages
         /\ written_.at = page.at /\ written_.column = page.column + w
         /\ (written_.flat <=> page.flat) /\ (written_.long <=> page.long)
<1> DEFINE more == [i \in DOMAIN places |->
                      [place |-> places[i], breaks |-> IF i = 1 THEN page.breaks ELSE 0]]
           tokens == page.tokens \o more
           breaks == IF places = <<>> THEN page.breaks ELSE 0
<1>1. PICK n \in Nat : n = Len(places) /\ DOMAIN places = 1..n
  OBVIOUS
<1>2. more \in Seq(RenderedTokens)
  <2>1. ASSUME NEW i \in 1..n
        PROVE  [place |-> places[i], breaks |-> IF i = 1 THEN page.breaks ELSE 0] \in RenderedTokens
    <3>1. places[i] \in Nat /\ page.breaks \in Nat  BY <1>1, PageIs
    <3> QED  BY <3>1 DEF RenderedTokens
  <2> QED  BY <1>1, <2>1
<1>3. tokens \in Seq(RenderedTokens)
  <2> HIDE DEF more
  <2>1. page.tokens \in Seq(RenderedTokens)  BY PageIs
  <2> QED  BY <1>2, <2>1
<1>4. page.column + w \in Nat /\ breaks \in Nat
  BY PageIs
<1>5. written_ = [page EXCEPT !.column = page.column + w, !.tokens = tokens, !.breaks = breaks]
  BY DEF Write
<1> HIDE DEF tokens, breaks
<1> QED  BY <1>3, <1>4, <1>5 DEF Pages

LEMMA MovedIs ==
  ASSUME NEW page \in Pages, NEW i \in Nat, NEW put, put = [page EXCEPT !.at = i]
  PROVE  /\ put \in Pages /\ put.at = i /\ put.column = page.column
         /\ (put.flat <=> page.flat) /\ (put.long <=> page.long)
<1>1. put \in Pages
  BY DEF Pages
<1>2. put.at = i /\ put.column = page.column /\ (put.flat <=> page.flat) /\ (put.long <=> page.long)
  BY DEF Pages
<1> QED  BY <1>1, <1>2

LEMMA FlattenedIs ==
  ASSUME NEW page \in Pages, NEW i \in Nat, NEW flat \in BOOLEAN,
         NEW put, put = [page EXCEPT !.at = i, !.flat = flat]
  PROVE  /\ put \in Pages /\ put.at = i /\ put.column = page.column /\ (put.long <=> page.long)
<1>1. put \in Pages
  BY DEF Pages
<1>2. put.at = i /\ put.column = page.column /\ (put.long <=> page.long)
  BY DEF Pages
<1> QED  BY <1>1, <1>2

LEMMA PutFits ==
  ASSUME NEW d \in Layouts, NEW w \in Nat, NEW page \in Pages, Fitting(d, w, page), page.at < Len(d)
  PROVE  Fitting(d, w, Put(d, page, w))
<1>1. PICK i \in 1..Len(d) : i = page.at + 1
  <2>1. page.at \in Nat /\ Len(d) \in Nat  BY PageIs DEF Fitting, Layouts
  <2> QED  BY <2>1
<1>2. PICK e : e = d[i]
  OBVIOUS
<1>3. /\ Len(d) \in Nat
      /\ e.op \in {"text", "line", "group"}
      /\ e.places \in Seq(Nat) /\ e.width \in Nat /\ e.size \in Nat /\ e.indent \in Nat
      /\ i + e.size <= Len(d)
  BY <1>2, ElementIs
<1>4. /\ page \in Pages /\ page.at \in Nat /\ page.column \in Nat /\ page.flat \in BOOLEAN
      /\ page.breaks \in Nat /\ ~page.long
  BY PageIs DEF Fitting
<1>5. PICK rest \in Nat, all \in Nat :
        /\ rest = Rest(d, i) /\ all = Rest(d, page.at)
        /\ all = WidthWith(e, rest)
  <2>1. page.at \in 0..Len(d) /\ i \in 0..Len(d) /\ page.at + 1 <= Len(d)
    BY <1>1, <1>3, <1>4
  <2>2. Rest(d, page.at) \in Nat /\ Rest(d, i) \in Nat  BY <2>1, RestIs
  <2>3. Rest(d, page.at) = WidthWith(d[page.at + 1], Rest(d, page.at + 1))  BY <2>1, RestIs
  <2> QED  BY <1>1, <1>2, <2>2, <2>3
<1>6. page.flat => page.column + all <= w
  BY <1>5 DEF Fitting
<1>7. PICK flat \in Flats : flat = FlatLayout(d, i)
  BY FlatLayoutTyped
<1>8. flat.places \in Seq(Nat) /\ flat.width \in Nat /\ flat.breaks \in BOOLEAN
  BY <1>7 DEF Flats
<1>9. PICK put : put = Put(d, page, w)
  OBVIOUS
<1>10. CASE e.op = "text"
  <2>0. PICK places \in Seq(Nat), v \in Nat : places = e.places /\ v = e.width  BY <1>3
  <2>1. PICK p : p = Write(page, places, v)  OBVIOUS
  <2>2. /\ p \in Pages /\ p.column = page.column + v
        /\ (p.flat <=> page.flat) /\ (p.long <=> page.long)
    <3>1. p \in Pages  BY <2>0, <2>1, WriteIs
    <3>2. p.column = page.column + v  BY <2>0, <2>1 DEF Write, Pages
    <3>3. p.flat <=> page.flat  BY <2>0, <2>1, WriteIs
    <3>4. p.long <=> page.long  BY <2>0, <2>1, WriteIs
    <3> QED  BY <3>1, <3>2, <3>3, <3>4
  <2>3. put = [p EXCEPT !.at = i]
    BY <1>1, <1>2, <1>9, <1>10, <2>0, <2>1 DEF Put
  <2>4. /\ put \in Pages /\ put.at = i /\ put.column = page.column + e.width
        /\ (put.flat <=> page.flat) /\ ~put.long
    <3>0. i \in Nat  BY <1>1, <1>3
    <3>1. put \in Pages  BY <2>2, <2>3, <3>0, MovedIs
    <3>2. put.at = i  BY <2>2, <2>3 DEF Pages
    <3>3. put.column = page.column + e.width  BY <2>0, <2>2, <2>3 DEF Pages
    <3>4. (put.flat <=> page.flat) /\ ~put.long  BY <2>2, <2>3, <3>0, <1>4, MovedIs
    <3> QED  BY <3>1, <3>2, <3>3, <3>4
  <2>5. all = e.width + rest  BY <1>5, <1>10 DEF WidthWith
  <2>6. put.flat => put.column + rest <= w  BY <1>3, <1>4, <1>6, <2>4, <2>5
  <2>7. Fitting(d, w, put)  BY <1>5, <2>4, <2>6 DEF Fitting
  <2> QED  BY <1>9, <2>7
<1>11. CASE e.op = "line"
  <2>1. PICK column \in Nat, breaks \in Nat : column = e.indent /\ breaks = page.breaks + 1
    BY <1>3, <1>4
  <2>2. all = 0  BY <1>5, <1>11 DEF WidthWith
  <2>3. EndLine(page, w) = FALSE  BY <1>4, <1>6, <2>2 DEF EndLine
  <2>4. put = [page EXCEPT !.at = i, !.column = column, !.breaks = breaks, !.flat = FALSE,
                           !.long = FALSE]
    BY <1>1, <1>2, <1>9, <1>11, <2>1, <2>3 DEF Put
  <2>5. put \in Pages /\ put.at = i /\ ~put.flat /\ ~put.long
    <3>0. i \in Nat  BY <1>1, <1>3
    <3>1. put \in Pages  BY <2>1, <2>4, <3>0 DEF Pages
    <3>2. put.at = i  BY <2>4, <1>4 DEF Pages
    <3>3. ~put.flat /\ ~put.long  BY <2>4, <1>4 DEF Pages
    <3> QED  BY <3>1, <3>2, <3>3
  <2>6. Fitting(d, w, put)  BY <2>5 DEF Fitting
  <2> QED  BY <1>9, <2>6
<1>12. CASE e.op = "group" /\ Fits(page, flat, Following(d, i), w)
  <2>0. PICK places \in Seq(Nat), v \in Nat : places = flat.places /\ v = flat.width  BY <1>8
  <2>1. PICK p : p = Write(page, places, v)  OBVIOUS
  <2>2. /\ p \in Pages /\ p.column = page.column + v
        /\ (p.flat <=> page.flat) /\ (p.long <=> page.long)
    <3>1. p \in Pages  BY <2>0, <2>1, WriteIs
    <3>2. p.column = page.column + v  BY <2>0, <2>1, WriteIs, SMTT(30)
    <3>3. p.flat <=> page.flat  BY <2>0, <2>1, WriteIs
    <3>4. p.long <=> page.long  BY <2>0, <2>1, WriteIs
    <3> QED  BY <3>1, <3>2, <3>3, <3>4
  <2>3. PICK j \in Nat, f \in BOOLEAN : j = i + e.size /\ f = (p.flat \/ flat.breaks)
    <3>1. i + e.size \in Nat  BY <1>1, <1>3
    <3>2. (p.flat \/ flat.breaks) \in BOOLEAN  OBVIOUS
    <3> QED  BY <3>1, <3>2
  <2>4. put = [p EXCEPT !.at = j, !.flat = f]
    BY <1>1, <1>2, <1>7, <1>9, <1>12, <2>0, <2>1, <2>3 DEF Put
  <2>5. /\ put \in Pages /\ put.at = i + e.size /\ put.column = page.column + flat.width
        /\ ~put.long
    <3>1. put \in Pages  BY <2>2, <2>3, <2>4, FlattenedIs
    <3>2. put.at = i + e.size  BY <2>2, <2>3, <2>4 DEF Pages
    <3>3. put.column = page.column + flat.width  BY <2>0, <2>2, <2>4 DEF Pages
    <3>4. ~put.long  BY <2>2, <2>4, <1>4 DEF Pages
    <3> QED  BY <3>1, <3>2, <3>3, <3>4
  <2>6. page.column + flat.width + Rest(d, i + e.size) <= w
    BY <1>2, <1>12 DEF Fits, Following, Rest
  <2>7. Fitting(d, w, put)  BY <1>3, <2>5, <2>6 DEF Fitting
  <2> QED  BY <1>9, <2>7
<1>13. CASE e.op = "group" /\ ~Fits(page, flat, Following(d, i), w)
  <2>1. put = [page EXCEPT !.at = i]
    BY <1>1, <1>2, <1>7, <1>9, <1>13 DEF Put
  <2>2. /\ put \in Pages /\ put.at = i /\ put.column = page.column
        /\ (put.flat <=> page.flat) /\ ~put.long
    BY <2>1, <1>1, <1>3, <1>4, MovedIs
  <2>3. all = rest  BY <1>5, <1>13 DEF WidthWith
  <2>4. Fitting(d, w, put)  BY <1>5, <1>6, <2>2, <2>3 DEF Fitting
  <2> QED  BY <1>9, <2>4
<1> QED  BY <1>3, <1>10, <1>11, <1>12, <1>13

Rendering(d, w) ==
  CHOOSE page :
    page = [n \in Nat |-> IF n = 0 THEN BlankPage ELSE Advance(d, page[n - 1], w)]

FittingPages(d, w) == {page \in Pages : Fitting(d, w, page)}

LEMMA AdvanceFits ==
  ASSUME NEW d \in Layouts, NEW w \in Nat, NEW page \in FittingPages(d, w)
  PROVE  Advance(d, page, w) \in FittingPages(d, w)
<1>1. page \in Pages /\ Fitting(d, w, page)
  BY DEF FittingPages
<1>2. CASE page.at = Len(d)
  BY <1>2 DEF Advance
<1>3. CASE page.at # Len(d)
  <2>1. page.at < Len(d)
    <3>1. page.at \in Nat /\ Len(d) \in Nat /\ page.at <= Len(d)  BY <1>1, PageIs DEF Fitting, Layouts
    <3> QED  BY <1>3, <3>1
  <2>2. Advance(d, page, w) = Put(d, page, w)  BY <1>3 DEF Advance
  <2>3. Fitting(d, w, Put(d, page, w))  BY <1>1, <2>1, PutFits
  <2> QED  BY <2>2, <2>3 DEF FittingPages, Fitting
<1> QED  BY <1>2, <1>3

LEMMA BlankFits ==
  ASSUME NEW d \in Layouts, NEW w
  PROVE  BlankPage \in FittingPages(d, w)
<1>1. BlankPage \in Pages
  <2>1. <<>> \in Seq(RenderedTokens)  OBVIOUS
  <2> QED  BY <2>1 DEF BlankPage, Pages
<1>2. Len(d) \in Nat
  BY DEF Layouts
<1>3. BlankPage.at <= Len(d) /\ ~BlankPage.long /\ ~BlankPage.flat
  BY <1>2 DEF BlankPage
<1> QED  BY <1>1, <1>3 DEF FittingPages, Fitting

\* Whatever a layout is, a line that holds a flattened break ends within the width.
LEMMA RenderFits ==
  ASSUME NEW d \in Layouts, NEW w \in Nat
  PROVE  Render(d, w) \in FittingPages(d, w)
<1>1. PICK S : S = FittingPages(d, w)
  OBVIOUS
<1> DEFINE step == [x \in Nat \X S |-> Advance(d, x[2], w)]
<1>2. step \in [Nat \X S -> S]
  <2>1. ASSUME NEW x \in Nat \X S PROVE Advance(d, x[2], w) \in S
    BY <1>1, AdvanceFits
  <2> QED  BY <2>1
<1>3. BlankPage \in S
  BY <1>1, BlankFits
<1>4. PICK g \in [Nat -> S] : g[0] = BlankPage /\ \A n \in Nat : g[n + 1] = step[<<n, g[n]>>]
  <2> HIDE DEF step
  <2>1. \E g : Follows(S, BlankPage, step, g)  BY <1>2, <1>3, StepsExist
  <2> QED  BY <2>1 DEF Follows
<1>5. \A n \in Nat : g[n + 1] = Advance(d, g[n], w)
  BY <1>4
<1> HIDE DEF step
<1> DEFINE At(h, n) == IF n = 0 THEN BlankPage ELSE Advance(d, h[n - 1], w)
<1>6. g = [n \in Nat |-> At(g, n)]
  <2>1. ASSUME NEW n \in Nat PROVE g[n] = At(g, n)
    <3>1. CASE n = 0  BY <3>1, <1>4
    <3>2. CASE n # 0
      <4>1. n - 1 \in Nat /\ (n - 1) + 1 = n  BY <3>2
      <4>2. g[(n - 1) + 1] = Advance(d, g[n - 1], w)  BY <4>1, <1>5
      <4> QED  BY <3>2, <4>1, <4>2
    <3> QED  BY <3>1, <3>2
  <2> HIDE DEF At
  <2> QED  BY <2>1, <1>4
<1>7. PICK f : f = Rendering(d, w)
  OBVIOUS
<1>8. f = [n \in Nat |-> At(f, n)]
  BY <1>6, <1>7 DEF Rendering
<1>9. ASSUME NEW n \in Nat PROVE f[n] = At(f, n)
  <2> HIDE DEF At
  <2> QED  BY <1>8
<1>10. \A n \in Nat : f[n] \in S
  <2> DEFINE I == {n \in Nat : f[n] \in S}
  <2>1. 0 \in I  BY <1>3, <1>9
  <2>2. ASSUME NEW n \in Nat, n \in I PROVE n + 1 \in I
    <3>1. n + 1 \in Nat /\ n + 1 # 0 /\ (n + 1) - 1 = n  OBVIOUS
    <3>2. f[n + 1] = Advance(d, f[n], w)  BY <3>1, <1>9
    <3>3. f[n + 1] \in S  BY <1>1, <2>2, <3>2, AdvanceFits
    <3> QED  BY <3>3
  <2>3. Nat \subseteq I
    <3> HIDE DEF I
    <3> QED  BY <2>1, <2>2, Inductive
  <2> QED  BY <2>3
<1>11. Render(d, w) = f[Len(d)]
  BY <1>7 DEF Render, Rendering
<1>12. Len(d) \in Nat
  BY DEF Layouts
<1> QED  BY <1>1, <1>10, <1>11, <1>12

LEMMA RenderedIs ==
  ASSUME NEW d \in Layouts, NEW w \in Nat, NEW page, page = Render(d, w)
  PROVE  page.tokens \in Seq(RenderedTokens) /\ ~EndLine(page, w)
<1>1. page \in Pages /\ Fitting(d, w, page)
  BY RenderFits DEF FittingPages
<1>2. /\ page.at \in Nat /\ page.column \in Nat /\ page.tokens \in Seq(RenderedTokens)
      /\ page.at <= Len(d) /\ ~page.long
  BY <1>1, PageIs DEF Fitting
<1>3. Rest(d, page.at) \in Nat
  <2>1. Len(d) \in Nat  BY DEF Layouts
  <2>2. page.at \in 0..Len(d)  BY <1>2, <2>1
  <2> QED  BY <2>2, RestIs
<1>4. page.flat => page.column + Rest(d, page.at) <= w
  BY <1>1 DEF Fitting
<1>5. page.flat => ~(page.column > w)
  BY <1>2, <1>3, <1>4
<1> QED  BY <1>2, <1>5 DEF EndLine

-----------------------------------------------------------------------------
(* Formatting *)

FormatTypeOK ==
  /\ width \in Nat
  /\ gap \in Seq(Nat)
  /\ out \in Seq(DOMAIN gap)

FormatInv == FormatTypeOK /\ OnlyCommasGo /\ NoOverfull

LEMMA FormatInitInv == FormatInit => FormatInv
<1> SUFFICES ASSUME FormatInit PROVE FormatInv
  OBVIOUS
<1>1. gap \in Seq(Nat)
  BY GapsAssumption DEF FormatInit
<1>2. PICK n \in Nat : n = Len(gap) /\ DOMAIN gap = 1..n
  BY <1>1
<1>3. out = [p \in 1..n |-> p] /\ written = [p \in 1..n |-> TextAt(tree, p)]
  BY <1>2 DEF FormatInit
<1>4. out \in Seq(1..n) /\ DOMAIN out = 1..n /\ \A k \in 1..n : out[k] = k
  BY <1>2, <1>3
<1>5. Present = 1..n
  BY <1>4 DEF Present
<1>6. written = [k \in DOMAIN out |-> TextAt(tree, out[k])]
  BY <1>3, <1>4
<1>7. width \in Nat /\ ~long
  BY WidthsAssumption DEF FormatInit
<1> QED
  BY <1>1, <1>2, <1>4, <1>5, <1>6, <1>7
  DEF FormatInv, FormatTypeOK, OnlyCommasGo, Gone, NoOverfull

\* The tokens that survive a comparison that succeeds.
LEMMA SurvivorsAre ==
  ASSUME NEW D, out \in Seq(D), NEW n \in Nat, Len(out) = n,
         NEW after, NEW a \in Nat, Len(after) = a, NEW m, m = Matching(after), m[n] = a,
         NEW s, s = Survivors(m, a),
         \A j, k \in DOMAIN out : j < k => out[j] < out[k]
  PROVE  /\ s \in Seq(D) /\ DOMAIN s = 1..a
         /\ \A j, k \in 1..a : j < k => s[j] < s[k]
         /\ \A i \in 1..n : (\E k \in 1..a : s[k] = out[i]) \/ out[i] \in CommaPlaces(tree)
         /\ \A k \in 1..a : after[k].text = TextAt(tree, s[k])
<1>1. Climbs(m, n, a)
  BY MatchingClimbs
<1>2. \A i \in 1..n :
        \/ m[i] = m[i - 1] + 1 /\ TextAt(tree, out[i]) = after[m[i - 1] + 1].text
        \/ m[i] = m[i - 1] /\ out[i] \in CommaPlaces(tree)
  BY MatchingClimbs
<1> DEFINE At(k) == CHOOSE i \in DOMAIN out : m[i - 1] = k - 1 /\ m[i] = k
<1>3. DOMAIN out = 1..n /\ \A i \in 1..n : out[i] \in D
  OBVIOUS
<1>4. ASSUME NEW k \in 1..a PROVE Reached(m, n, k, At(k)) /\ At(k) \in 1..n
  <2>0. PICK i \in 1..n : Reached(m, n, k, i)
    BY <1>1, ClimbsThrough
  <2>1. \E x \in DOMAIN out : m[x - 1] = k - 1 /\ m[x] = k
    BY <1>3, <2>0 DEF Reached
  <2>2. At(k) \in DOMAIN out /\ m[At(k) - 1] = k - 1 /\ m[At(k)] = k
    BY <2>1
  <2> HIDE DEF At
  <2> QED  BY <2>2, <1>3 DEF Reached
<1>5. s = [k \in 1..a |-> out[At(k)]]
  BY DEF Survivors
<1> HIDE DEF At
<1>6. \A k \in 1..a : s[k] = out[At(k)] /\ s[k] \in D
  BY <1>3, <1>4, <1>5
<1>7. s \in Seq(D) /\ DOMAIN s = 1..a
  BY <1>5, <1>6
<1>8. ASSUME NEW j \in 1..a, NEW k \in 1..a, j < k PROVE s[j] < s[k]
  <2>1. PICK x, y : x = At(j) /\ y = At(k)  OBVIOUS
  <2>2. Reached(m, n, j, x) /\ Reached(m, n, k, y) /\ x \in 1..n /\ y \in 1..n  BY <1>4, <2>1
  <2>3. x < y
    <3>1. j < k => x < y  BY <1>1, <2>2, ReachedOrdered
    <3> QED  BY <1>8, <3>1
  <2>4. out[x] < out[y]  BY <1>3, <2>2, <2>3
  <2> QED  BY <1>6, <2>1, <2>4
<1>9. ASSUME NEW i \in 1..n, out[i] \notin CommaPlaces(tree)
      PROVE  \E k \in 1..a : s[k] = out[i]
  <2>1. PICK k : k = m[i]  OBVIOUS
  <2>2. i - 1 \in 0..n /\ i \in 0..n  OBVIOUS
  <2>3. m[i - 1] \in Nat /\ m[i - 1] < a  BY <1>1, <2>2 DEF Climbs
  <2>4. m[i] = m[i - 1] + 1  BY <1>2, <1>9
  <2>5. k \in 1..a /\ m[i - 1] = k - 1 /\ m[i] = k  BY <2>1, <2>3, <2>4
  <2>6. Reached(m, n, k, i)  BY <2>5 DEF Reached
  <2>7. PICK x : x = At(k)  OBVIOUS
  <2>8. Reached(m, n, k, x) /\ x \in 1..n  BY <1>4, <2>5, <2>7
  <2>9. i = x  BY <1>1, <2>5, <2>6, <2>8, ReachedOrdered
  <2> QED  BY <1>6, <2>5, <2>7, <2>9
<1>10. ASSUME NEW k \in 1..a PROVE after[k].text = TextAt(tree, s[k])
  <2>1. PICK x : x = At(k)  OBVIOUS
  <2>2. x \in 1..n /\ m[x - 1] = k - 1 /\ m[x] = k  BY <1>4, <2>1 DEF Reached
  <2>3. m[x] # m[x - 1] /\ m[x - 1] + 1 = k  BY <2>2
  <2>4. TextAt(tree, out[x]) = after[k].text  BY <1>2, <2>2, <2>3
  <2> QED  BY <1>6, <2>1, <2>4
<1> QED  BY <1>7, <1>8, <1>9, <1>10

LEMMA ReadTokensIs ==
  ASSUME NEW tokens \in Seq(RenderedTokens), NEW after, after = ReadTokens(tokens)
  PROVE  \E a \in Nat :
           a = Len(after) /\ DOMAIN after = 1..a /\ \A k \in 1..a : after[k].breaks \in Nat
<1>1. PICK a \in Nat : a = Len(tokens) /\ DOMAIN tokens = 1..a
  OBVIOUS
<1>2. \A k \in 1..a : tokens[k].breaks \in Nat
  <2>1. ASSUME NEW k \in 1..a PROVE tokens[k].breaks \in Nat
    <3>1. tokens[k] \in RenderedTokens  BY <1>1
    <3> QED  BY <3>1 DEF RenderedTokens
  <2> QED  BY <2>1
<1> DEFINE breaks == [p \in DOMAIN gap |->
                        LET at_ == {i \in DOMAIN tokens : tokens[i].place = p}
                        IN  IF at_ = {} THEN 0 ELSE tokens[CHOOSE i \in at_ : TRUE].breaks]
           R(i) == [text |-> TextAt(tree, tokens[i].place), breaks |-> tokens[i].breaks,
                    inline |-> tokens[i].place \in Closes(tree, breaks, Gone)]
<1>3. after = [i \in 1..a |-> R(i)]
  BY <1>1 DEF ReadTokens
<1> HIDE DEF breaks
<1>4. after \in Seq({R(i) : i \in 1..a}) /\ Len(after) = a /\ DOMAIN after = 1..a
  <2> HIDE DEF R
  <2> QED  BY <1>3
<1>5. ASSUME NEW k \in 1..a PROVE after[k].breaks \in Nat
  BY <1>2, <1>3
<1> QED  BY <1>4, <1>5

\* What becomes of a file once its layout is rendered.
FormattedAs(layout) ==
  LET page == Render(layout, width)
      after == ReadTokens(page.tokens)
      match == Matching(after)
  IN  \/ /\ match[Len(out)] = Len(after)
         /\ out' = Survivors(match, Len(after))
         /\ gap' = BreaksBefore(out', after)
         /\ written' = [k \in DOMAIN after |-> after[k].text]
         /\ long' = EndLine(page, width)
      \/ UNCHANGED <<gap, out, written, long>>

LEMMA FormatStepInv == FormatInv /\ [Format]_layoutVars => FormatInv'
<1> SUFFICES ASSUME FormatInv, [Format]_layoutVars PROVE FormatInv'
  OBVIOUS
<1> USE DEF FormatInv
<1>1. CASE /\ gap' = gap /\ out' = out /\ written' = written /\ long' = long
           /\ tree' = tree /\ width' = width
  BY <1>1 DEF FormatTypeOK, OnlyCommasGo, NoOverfull, Present, Gone
<1>2. CASE UNCHANGED layoutVars
  BY <1>1, <1>2 DEF layoutVars
<1>3. CASE Format
  <2>1. PICK layout \in Layouts : FormattedAs(layout)
    BY <1>3 DEF Format, FormattedAs
  <2>2. tree' = tree /\ width' = width  BY <1>3 DEF Format
  <2>2a. PICK page : page = Render(layout, width)  OBVIOUS
  <2>2b. PICK after : after = ReadTokens(page.tokens)  OBVIOUS
  <2>3. page.tokens \in Seq(RenderedTokens) /\ ~EndLine(page, width)
    <3>1. width \in Nat  BY DEF FormatTypeOK
    <3> QED  BY <2>2a, <2>1, <3>1, RenderedIs
  <2>4. PICK tokens \in Seq(RenderedTokens) : tokens = page.tokens  BY <2>3
  <2>5. PICK a \in Nat :
          a = Len(after) /\ DOMAIN after = 1..a /\ \A k \in 1..a : after[k].breaks \in Nat
    BY <2>2b, <2>4, ReadTokensIs
  <2>5a. a = Len(after) /\ DOMAIN after = 1..a  BY <2>5
  <2>6. PICK n \in Nat : n = Len(out) /\ DOMAIN out = 1..n  BY DEF FormatTypeOK
  <2>7. PICK m : m = Matching(after)  OBVIOUS
  <2>8. CASE /\ m[n] = a
             /\ out' = Survivors(m, a)
             /\ gap' = BreaksBefore(out', after)
             /\ written' = [k \in DOMAIN after |-> after[k].text]
             /\ long' = EndLine(page, width)
    <3>1. PICK s : s = out'  OBVIOUS
    <3>2. PICK D : D = DOMAIN gap  OBVIOUS
    <3>3. /\ s \in Seq(D) /\ DOMAIN s = 1..a
          /\ \A j, k \in 1..a : j < k => s[j] < s[k]
          /\ \A i \in 1..n : (\E k \in 1..a : s[k] = out[i]) \/ out[i] \in CommaPlaces(tree)
          /\ \A k \in 1..a : after[k].text = TextAt(tree, s[k])
      <4>1. out \in Seq(D)  BY <3>2 DEF FormatTypeOK
      <4>2. \A j, k \in DOMAIN out : j < k => out[j] < out[k]  BY DEF OnlyCommasGo
      <4>3. s = Survivors(m, a)  BY <2>8, <3>1
      <4> QED  BY <2>5a, <2>6, <2>7, <2>8, <4>1, <4>2, <4>3, SurvivorsAre
    <3>4. gap' \in Seq(Nat) /\ DOMAIN gap' = D
      <4>1. PICK g \in Nat : g = Len(gap) /\ D = 1..g  BY <3>2 DEF FormatTypeOK
      <4> DEFINE B(p) == IF \E k \in DOMAIN s : s[k] = p
                         THEN after[CHOOSE k \in DOMAIN s : s[k] = p].breaks ELSE 0
      <4>2. gap' = [p \in D |-> B(p)]  BY <2>8, <3>1, <3>2 DEF BreaksBefore
      <4>3. ASSUME NEW p \in D PROVE B(p) \in Nat
        <5>1. CASE \E k \in DOMAIN s : s[k] = p
          <6>1. PICK k \in 1..a : k = CHOOSE i \in DOMAIN s : s[i] = p  BY <3>3, <5>1
          <6>2. after[k].breaks \in Nat  BY <2>5
          <6> QED  BY <5>1, <6>1, <6>2
        <5>2. CASE ~\E k \in DOMAIN s : s[k] = p
          BY <5>2
        <5> QED  BY <5>1, <5>2
      <4> HIDE DEF B
      <4> QED  BY <4>1, <4>2, <4>3
    <3>5. Present' = {s[k] : k \in 1..a}
      BY <3>1, <3>3 DEF Present
    <3>6. Present' \subseteq D
      BY <3>3, <3>5
    <3>7. Gone' \subseteq CommaPlaces(tree)
      <4>1. ASSUME NEW p \in D, p \notin Present' PROVE p \in CommaPlaces(tree)
        <5>1. CASE p \in Gone  BY <5>1 DEF OnlyCommasGo
        <5>2. CASE p \notin Gone
          <6>1. PICK i \in 1..n : p = out[i]  BY <4>1, <5>2, <3>2, <2>6 DEF Gone, Present
          <6> QED  BY <6>1, <3>3, <3>5, <4>1
        <5> QED  BY <5>1, <5>2
      <4> QED  BY <3>4, <4>1 DEF Gone
    <3>8. written' = [k \in DOMAIN out |-> TextAt(tree, out[k])]'
      <4>1. written' = [k \in 1..a |-> after[k].text]  BY <2>5, <2>8
      <4>2. written' = [k \in 1..a |-> TextAt(tree, s[k])]  BY <3>3, <4>1
      <4> QED  BY <2>2, <3>1, <3>3, <4>2
    <3>9. FormatTypeOK'  BY <2>2, <3>1, <3>2, <3>3, <3>4 DEF FormatTypeOK
    <3>10. NoOverfull'  BY <2>3, <2>8 DEF NoOverfull
    <3>11. OnlyCommasGo'  BY <2>2, <3>1, <3>2, <3>3, <3>4, <3>6, <3>7, <3>8 DEF OnlyCommasGo
    <3> QED  BY <3>9, <3>10, <3>11
  <2>9. CASE UNCHANGED <<gap, out, written, long>>
    BY <1>1, <2>2, <2>9
  <2> QED  BY <2>2a, <2>2b, <2>1, <2>5a, <2>6, <2>7, <2>8, <2>9 DEF FormattedAs
<1> QED  BY <1>2, <1>3

\* However often a file is formatted, and whatever is rendered, it has the
\* tokens of its source in their order, without trailing commas at the most
\* (formatting.go:59).
THEOREM FormattingKeepsTokens == FormatSpec => []OnlyCommasGo
<1>1. FormatSpec => []FormatInv
  BY FormatInitInv, FormatStepInv, PTL DEF FormatSpec
<1>2. FormatInv => OnlyCommasGo
  BY DEF FormatInv
<1> QED  BY <1>1, <1>2, PTL

\* Whatever the layout is, a line that holds a flattened break ends within the
\* width: what follows a group up to the next break is counted (layout.go:46).
THEOREM LinesFit == FormatSpec => []NoOverfull
<1>1. FormatSpec => []FormatInv
  BY FormatInitInv, FormatStepInv, PTL DEF FormatSpec
<1>2. FormatInv => NoOverfull
  BY DEF FormatInv
<1> QED  BY <1>1, <1>2, PTL

-----------------------------------------------------------------------------
(* Reading imports *)

Graph(d) ==
  /\ DOMAIN d \subseteq ImportNames
  /\ \A f \in DOMAIN d : d[f] \in Seq(ImportNames) /\ Bytes(d[f]) \in Nat

Reads == [todo : Seq(ImportNames), calls : Nat, bytes : Nat, ok : BOOLEAN]
Reading(d, names) ==
  CHOOSE read :
    read = [n \in Nat |-> IF n = 0 THEN Beginnings(names) ELSE ReadOne(d, read[n - 1])]

LEMMA ReadAllIs ==
  ASSUME NEW d, NEW names
  PROVE  ReadAll(d, names) = Reading(d, names)[MaxImports + 1]
BY DEF ReadAll, Reading

\* The next call is refused, or reads a file.
Refused(r, q) == ~q.ok /\ q.bytes = r.bytes
GoesOn(d, r, q) ==
  /\ r.calls + 1 <= MaxImports /\ Head(r.todo) \in DOMAIN d
  /\ Bytes(d[Head(r.todo)]) <= MaxBytes - r.bytes
  /\ q.todo = d[Head(r.todo)] \o Tail(r.todo)
  /\ q.calls = r.calls + 1 /\ q.bytes = r.bytes + Bytes(d[Head(r.todo)])

LEMMA ReadOneIs ==
  ASSUME NEW d, Graph(d), NEW r \in Reads, NEW q, q = ReadOne(d, r)
  PROVE  /\ q \in Reads
         /\ r.todo = <<>> \/ ~r.ok => q = r
         /\ r.todo # <<>> /\ r.ok => Refused(r, q) \/ GoesOn(d, r, q)
<1> USE LimitsAssumption
<1> DEFINE over == r.todo = <<>> \/ ~r.ok
<1>1. CASE over
  <2>1. q = r  BY <1>1 DEF ReadOne
  <2> QED  BY <1>1, <2>1
<1>2. CASE ~over /\ Refuses(d, r)
  <2>1. q = [todo |-> r.todo, calls |-> r.calls + 1, bytes |-> r.bytes, ok |-> FALSE]
    BY <1>2 DEF ReadOne, Reads
  <2>2. q \in Reads
    <3>1. r.todo \in Seq(ImportNames) /\ r.calls + 1 \in Nat /\ r.bytes \in Nat  BY DEF Reads
    <3> QED  BY <2>1, <3>1 DEF Reads
  <2>3. ~q.ok /\ q.bytes = r.bytes  BY <2>1
  <2> QED  BY <1>2, <2>2, <2>3 DEF Refused
<1>3. CASE ~over /\ ~Refuses(d, r)
  <2>1. PICK f : f = Head(r.todo)  OBVIOUS
  <2>2. PICK t : t = d[f] \o Tail(r.todo)  OBVIOUS
  <2>0. PICK size : size = Bytes(d[f])  OBVIOUS
  <2>3. /\ r.calls + 1 <= MaxImports /\ f \in DOMAIN d /\ size \in Nat
        /\ size <= MaxBytes - r.bytes
    BY <1>3, <2>1, <2>0 DEF Refuses, Reads, Graph
  <2>4. q = [todo |-> t, calls |-> r.calls + 1, bytes |-> r.bytes + size, ok |-> r.ok]
    BY <1>3, <2>1, <2>2, <2>0 DEF ReadOne, Reads
  <2>5. r.todo \in Seq(ImportNames) /\ r.todo # <<>>  BY <1>3 DEF Reads
  <2>6. Tail(r.todo) \in Seq(ImportNames) /\ d[f] \in Seq(ImportNames)
    BY <2>3, <2>5 DEF Graph
  <2>7. t \in Seq(ImportNames)  BY <2>2, <2>6
  <2>8. q \in Reads  BY <2>3, <2>4, <2>7 DEF Reads
  <2>9. q.todo = t /\ q.calls = r.calls + 1 /\ q.bytes = r.bytes + size  BY <2>4
  <2>10. GoesOn(d, r, q)  BY <2>1, <2>2, <2>0, <2>3, <2>9 DEF GoesOn
  <2> QED  BY <1>3, <2>8, <2>10
<1> QED  BY <1>1, <1>2, <1>3

LEMMA ReadingIs ==
  ASSUME NEW d, Graph(d), NEW names \in Seq(ImportNames), NEW f, f = Reading(d, names)
  PROVE  /\ f \in [Nat -> Reads]
         /\ f[0] = Beginnings(names)
         /\ \A n \in Nat : f[n + 1] = ReadOne(d, f[n])
<1>1. Beginnings(names) \in Reads
  BY DEF Beginnings, Reads
<1> DEFINE step == [x \in Nat \X Reads |-> ReadOne(d, x[2])]
<1>2. step \in [Nat \X Reads -> Reads]
  BY ReadOneIs
<1>3. PICK g \in [Nat -> Reads] :
        g[0] = Beginnings(names) /\ \A n \in Nat : g[n + 1] = step[<<n, g[n]>>]
  <2> HIDE DEF step
  <2>1. \E g : Follows(Reads, Beginnings(names), step, g)  BY <1>1, <1>2, StepsExist
  <2> QED  BY <2>1 DEF Follows
<1>4. \A n \in Nat : g[n + 1] = ReadOne(d, g[n])
  BY <1>3
<1> HIDE DEF step
<1> DEFINE At(h, n) == IF n = 0 THEN Beginnings(names) ELSE ReadOne(d, h[n - 1])
<1>5. g = [n \in Nat |-> At(g, n)]
  <2>1. ASSUME NEW n \in Nat PROVE g[n] = At(g, n)
    <3>1. CASE n = 0  BY <3>1, <1>3
    <3>2. CASE n # 0
      <4>1. n - 1 \in Nat /\ (n - 1) + 1 = n  BY <3>2
      <4>2. g[(n - 1) + 1] = ReadOne(d, g[n - 1])  BY <4>1, <1>4
      <4> QED  BY <3>2, <4>1, <4>2
    <3> QED  BY <3>1, <3>2
  <2> HIDE DEF At
  <2> QED  BY <2>1
<1>6. f = [n \in Nat |-> At(f, n)]
  BY <1>5 DEF Reading
<1>7. ASSUME NEW n \in Nat PROVE f[n] = At(f, n)
  <2> HIDE DEF At
  <2> QED  BY <1>6
<1>8. f[0] = Beginnings(names)
  BY <1>7
<1>9. ASSUME NEW n \in Nat PROVE f[n + 1] = ReadOne(d, f[n])
  <2>1. n + 1 \in Nat /\ n + 1 # 0 /\ (n + 1) - 1 = n  OBVIOUS
  <2>2. f[n + 1] = ReadOne(d, f[(n + 1) - 1])  BY <2>1, <1>7
  <2> QED  BY <2>1, <2>2
<1>10. f \in [Nat -> Reads]
  <2> DEFINE I == {n \in Nat : f[n] \in Reads}
  <2>1. 0 \in I  BY <1>1, <1>8
  <2>2. ASSUME NEW n \in Nat, n \in I PROVE n + 1 \in I
    <3>1. PICK r \in Reads : r = f[n]  BY <2>2
    <3>2. PICK q : q = ReadOne(d, r)  OBVIOUS
    <3>3. q \in Reads /\ f[n + 1] = q  BY <1>9, <3>1, <3>2, ReadOneIs
    <3> QED  BY <3>3
  <2>3. Nat \subseteq I
    <3> HIDE DEF I
    <3> QED  BY <2>1, <2>2, Inductive
  <2>4. f = [n \in Nat |-> f[n]]
    <3> HIDE DEF At
    <3> QED  BY <1>6
  <2> QED  BY <2>3, <2>4
<1> QED  BY <1>8, <1>9, <1>10

\* After n calls the bytes are within their bound, and as long as none was
\* refused each has been counted.
Counted(r, n) ==
  /\ r.bytes <= MaxBytes
  /\ r.ok => r.calls <= MaxImports /\ (r.todo # <<>> => r.calls = n)

LEMMA CountedNext ==
  ASSUME NEW d, Graph(d), NEW r \in Reads, NEW n \in Nat, Counted(r, n),
         NEW q, q = ReadOne(d, r)
  PROVE  Counted(q, n + 1)
<1> USE LimitsAssumption
<1>1. CASE r.todo = <<>> \/ ~r.ok
  <2>1. q = r  BY <1>1, ReadOneIs
  <2> QED  BY <1>1, <2>1 DEF Counted
<1>2. CASE r.todo # <<>> /\ r.ok
  <2>1. Refused(r, q) \/ GoesOn(d, r, q)  BY <1>2, ReadOneIs
  <2>2. CASE Refused(r, q)
    BY <2>2 DEF Counted, Refused
  <2>3. CASE GoesOn(d, r, q)
    <3>1. r.calls \in Nat /\ r.bytes \in Nat  BY DEF Reads
    <3>2. r.calls = n  BY <1>2 DEF Counted
    <3>3. PICK size : size = Bytes(d[Head(r.todo)])  OBVIOUS
    <3>4. /\ r.calls + 1 <= MaxImports /\ size \in Nat /\ size <= MaxBytes - r.bytes
          /\ q.calls = r.calls + 1 /\ q.bytes = r.bytes + size
      BY <2>3, <3>3 DEF GoesOn, Graph
    <3> QED  BY <3>1, <3>2, <3>4 DEF Counted
  <2> QED  BY <2>1, <2>2, <2>3
<1> QED  BY <1>1, <1>2

\* A set of files every one of which is missing or imports another one of them:
\* what has come to one of them never ends well.
Endless(d, B) == \A x \in B : x \in DOMAIN d => \E u \in B : Holds(d[x], u)
Meets(paths, B) == \E u \in B : Holds(paths, u)

LEMMA MeetsNext ==
  ASSUME NEW d, Graph(d), NEW B, Endless(d, B), NEW r \in Reads,
         r.ok => Meets(r.todo, B), NEW q, q = ReadOne(d, r), q.ok
  PROVE  Meets(q.todo, B)
<1>1. CASE r.todo = <<>> \/ ~r.ok
  BY <1>1, ReadOneIs
<1>2. CASE r.todo # <<>> /\ r.ok
  <2>1. PICK x : x = Head(r.todo)  OBVIOUS
  <2>2. PICK a : a = r.todo  OBVIOUS
  <2>3. PICK rest : rest = Tail(a)  OBVIOUS
  <2>4. x \in DOMAIN d /\ q.todo = d[x] \o rest
    <3>1. Refused(r, q) \/ GoesOn(d, r, q)  BY <1>2, ReadOneIs
    <3> QED  BY <2>1, <2>2, <2>3, <3>1 DEF Refused, GoesOn
  <2>5. a \in Seq(ImportNames) /\ a # <<>>  BY <1>2, <2>2 DEF Reads
  <2>6. rest \in Seq(ImportNames) /\ d[x] \in Seq(ImportNames)  BY <2>3, <2>4, <2>5 DEF Graph
  <2>7. PICK u \in B : Holds(a, u)  BY <1>2, <2>2 DEF Meets
  <2>8. \E v \in B : Holds(d[x], v) \/ Holds(rest, v)
    <3>1. CASE u = x  BY <2>4, <2>7, <3>1 DEF Endless
    <3>2. CASE u # x  BY <2>1, <2>2, <2>3, <2>5, <2>7, <3>2, HoldsTail
    <3> QED  BY <3>1, <3>2
  <2>9. PICK v \in B : Holds(d[x], v) \/ Holds(rest, v)  BY <2>8
  <2>10. PICK b : b = d[x]  OBVIOUS
  <2>11. Holds(b \o rest, v)  BY <2>6, <2>9, <2>10, HoldsBoth
  <2> QED  BY <2>4, <2>9, <2>10, <2>11 DEF Meets
<1> QED  BY <1>1, <1>2

LEMMA ReadEnds ==
  ASSUME NEW d, Graph(d), NEW names \in Seq(ImportNames), NEW r, r = ReadAll(d, names)
  PROVE  /\ r.bytes <= MaxBytes
         /\ r.ok => \A B : Endless(d, B) => ~Meets(names, B)
<1> USE LimitsAssumption
<1>1. PICK f : f = Reading(d, names)  OBVIOUS
<1>2. /\ \A n \in Nat : f[n] \in Reads
      /\ f[0] = Beginnings(names)
      /\ \A n \in Nat : f[n + 1] = ReadOne(d, f[n])
  BY <1>1, ReadingIs
<1>3. PICK end \in Nat : end = MaxImports + 1  OBVIOUS
<1>4. r = f[end]
  BY <1>1, <1>3, ReadAllIs
<1>5. \A n \in Nat : Counted(f[n], n)
  <2> DEFINE I == {n \in Nat : Counted(f[n], n)}
  <2>1. 0 \in I
    <3>1. Counted(Beginnings(names), 0)  BY DEF Beginnings, Counted
    <3> QED  BY <1>2, <3>1
  <2>2. ASSUME NEW n \in Nat, n \in I PROVE n + 1 \in I
    <3>1. PICK q \in Reads : q = f[n]  BY <1>2
    <3>2. Counted(q, n)  BY <2>2, <3>1
    <3>3. PICK next : next = ReadOne(d, q)  OBVIOUS
    <3>4. Counted(next, n + 1)  BY <3>2, <3>3, CountedNext
    <3>5. f[n + 1] = next  BY <1>2, <3>1, <3>3
    <3> QED  BY <3>4, <3>5
  <2>3. Nat \subseteq I
    <3> HIDE DEF I
    <3> QED  BY <2>1, <2>2, Inductive
  <2> QED  BY <2>3
<1>6. r.bytes <= MaxBytes /\ (r.ok => r.todo = <<>>)
  <2>1. Counted(r, end)  BY <1>4, <1>5
  <2> QED  BY <1>3, <2>1 DEF Counted
<1>7. ASSUME r.ok, NEW B, Endless(d, B), Meets(names, B) PROVE FALSE
  <2> DEFINE I == {n \in Nat : f[n].ok => Meets(f[n].todo, B)}
  <2>1. 0 \in I  BY <1>2, <1>7 DEF Beginnings
  <2>2. ASSUME NEW n \in Nat, n \in I PROVE n + 1 \in I
    <3>1. PICK q \in Reads : q = f[n]  BY <1>2
    <3>2. q.ok => Meets(q.todo, B)  BY <2>2, <3>1
    <3>3. PICK next : next = ReadOne(d, q)  OBVIOUS
    <3>4. next.ok => Meets(next.todo, B)  BY <1>7, <3>2, <3>3, MeetsNext
    <3>5. f[n + 1] = next  BY <1>2, <3>1, <3>3
    <3> QED  BY <3>4, <3>5
  <2>3. Nat \subseteq I
    <3> HIDE DEF I
    <3> QED  BY <2>1, <2>2, Inductive
  <2>4. Meets(r.todo, B)  BY <1>4, <1>7, <2>3
  <2> QED  BY <1>6, <1>7, <2>4 DEF Meets, Holds
<1> QED  BY <1>6, <1>7

-----------------------------------------------------------------------------
(* Cycles *)

LEMMA ReachesNext ==
  ASSUME NEW d, Graph(d), NEW y, NEW z \in (Reaches(d, y) \cup {y}) \cap DOMAIN d,
         NEW i \in DOMAIN d[z]
  PROVE  d[z][i] \in Reaches(d, y)
<1>1. d[z][i] \in ImportNames
  <2>1. d[z] \in Seq(ImportNames)  BY DEF Graph
  <2> QED  BY <2>1
<1>2. ASSUME NEW S \in SUBSET ImportNames,
             \A x \in (S \cup {y}) \cap DOMAIN d : \A j \in DOMAIN d[x] : d[x][j] \in S
      PROVE  d[z][i] \in S
  <2>1. z \in S \cup {y}  BY <1>2 DEF Reaches
  <2> QED  BY <1>2, <2>1
<1> QED  BY <1>1, <1>2 DEF Reaches

\* What a file reaches, one of its imports is or reaches.
LEMMA ReachesThrough ==
  ASSUME NEW d, Graph(d), NEW x \in DOMAIN d, NEW f \in Reaches(d, x)
  PROVE  \E i \in DOMAIN d[x] : f = d[x][i] \/ f \in Reaches(d, d[x][i])
<1> DEFINE S == {z \in ImportNames :
                   \E i \in DOMAIN d[x] : z = d[x][i] \/ z \in Reaches(d, d[x][i])}
<1>1. ASSUME NEW z \in (S \cup {x}) \cap DOMAIN d, NEW j \in DOMAIN d[z] PROVE d[z][j] \in S
  <2>1. d[z][j] \in ImportNames
    <3>1. d[z] \in Seq(ImportNames)  BY DEF Graph
    <3> QED  BY <3>1
  <2>2. CASE z = x
    BY <2>1, <2>2
  <2>3. CASE z # x
    <3>1. PICK i \in DOMAIN d[x] : z = d[x][i] \/ z \in Reaches(d, d[x][i])  BY <2>3
    <3>2. PICK y : y = d[x][i]  OBVIOUS
    <3>3. z \in (Reaches(d, y) \cup {y}) \cap DOMAIN d  BY <3>1, <3>2
    <3>4. d[z][j] \in Reaches(d, y)  BY <3>3, ReachesNext
    <3> QED  BY <2>1, <3>2, <3>4
  <2> QED  BY <2>2, <2>3
<1>2. f \in S
  <2>1. S \in SUBSET ImportNames  OBVIOUS
  <2> HIDE DEF S
  <2> QED  BY <1>1, <2>1 DEF Reaches
<1> QED  BY <1>2

\* A file that is missing, or reaches itself, is not behind an import that is
\* read to its end.
LEMMA ReadFinds ==
  ASSUME NEW d, Graph(d), NEW names \in Seq(ImportNames), ReadAll(d, names).ok,
         NEW i \in DOMAIN names, NEW f \in {names[i]} \cup Reaches(d, names[i])
  PROVE  f \in DOMAIN d /\ f \notin Reaches(d, f)
<1> SUFFICES ASSUME f \notin DOMAIN d \/ f \in Reaches(d, f) PROVE FALSE
  OBVIOUS
<1> DEFINE B == {x \in ImportNames : f = x \/ f \in Reaches(d, x)}
<1>1. Endless(d, B)
  <2>1. ASSUME NEW x \in B, x \in DOMAIN d PROVE \E u \in B : Holds(d[x], u)
    <3>1. f \in Reaches(d, x)  BY <2>1
    <3>2. PICK j \in DOMAIN d[x] : f = d[x][j] \/ f \in Reaches(d, d[x][j])
      BY <2>1, <3>1, ReachesThrough
    <3>3. d[x] \in Seq(ImportNames)  BY <2>1 DEF Graph
    <3>4. d[x][j] \in B  BY <3>2, <3>3
    <3> HIDE DEF B
    <3> QED  BY <3>4 DEF Holds
  <2> HIDE DEF B
  <2> QED  BY <2>1 DEF Endless
<1>2. names[i] \in B
  BY DEF Reaches
<1>3. Meets(names, B)
  <2> HIDE DEF B
  <2> QED  BY <1>2 DEF Meets, Holds
<1> HIDE DEF B
<1> QED  BY <1>1, <1>3, ReadEnds

LEMMA ValidateIs ==
  ASSUME NEW h \in Files, NEW d, Graph(d), NEW v, v \in {Validate(h, d), NoVerdict(h, d)}
  PROVE  /\ v.text = h /\ v.disk = d
         /\ \A r \in v.reads : r.bytes <= MaxBytes
         /\ Valid(v) =>
              \A names \in ImportLists(h) : \A i \in DOMAIN names :
                \A f \in {names[i]} \cup Reaches(d, names[i]) :
                  f \in DOMAIN d /\ f \notin Reaches(d, f)
<1>1. ImportLists(h) \subseteq Seq(ImportNames)
  BY FilesAssumption
<1>2. CASE v = Validate(h, d)
  <2>1. v.text = h /\ v.disk = d /\ v.reads = {ReadAll(d, names) : names \in ImportLists(h)}
    BY <1>2 DEF Validate
  <2>2. \A r \in v.reads : r.bytes <= MaxBytes
    BY <1>1, <2>1, ReadEnds
  <2>3. ASSUME Valid(v), NEW names \in ImportLists(h), NEW i \in DOMAIN names,
               NEW f \in {names[i]} \cup Reaches(d, names[i])
        PROVE  f \in DOMAIN d /\ f \notin Reaches(d, f)
    <3>1. ReadAll(d, names).ok  BY <2>1, <2>3 DEF Valid
    <3> QED  BY <1>1, <3>1, ReadFinds
  <2> QED  BY <2>1, <2>2, <2>3
<1>3. CASE v = NoVerdict(h, d)
  <2> DEFINE r == [Beginnings(<<>>) EXCEPT !.ok = FALSE]
  <2>1. r.bytes = 0 /\ ~r.ok  BY DEF Beginnings
  <2>2. v.text = h /\ v.disk = d /\ v.reads = {r}  BY <1>3 DEF NoVerdict
  <2> HIDE DEF r
  <2> QED  BY <2>1, <2>2, LimitsAssumption DEF Valid
<1> QED  BY <1>2, <1>3

\* A verdict depends on the imports of a text alone.
LEMMA ValidSame ==
  ASSUME NEW g, NEW h, ImportLists(g) = ImportLists(h), NEW d
  PROVE  Valid(Validate(g, d)) <=> Valid(Validate(h, d))
BY DEF Valid, Validate

LEMMA RoundIs ==
  ASSUME NEW h \in Files, NEW c, c = Fixed(h, Replacements(h))
  PROVE  /\ c \in Files /\ ImportLists(c) = ImportLists(h)
         /\ Len(h) \in Nat /\ Len(c) \in Nat
         /\ c = h => Replacements(h) = {}
         /\ c # h => Len(c) < Len(h)
BY RuleAssumption, FilesAssumption

-----------------------------------------------------------------------------
(* The loop *)

LintTypeOK ==
  /\ Graph(disk)
  /\ linting # "editor" => host \in Files
  /\ writes \in Nat
  /\ last.text \in Files /\ Graph(last.disk)
  /\ last \in {Validate(last.text, last.disk), NoVerdict(last.text, last.disk)}

\* The texts of the loop get shorter, and it only leaves one that has no fixes
\* or is not valid.
Rounds ==
  /\ linting # "diverged"
  /\ linting \in {"lint", "editor"} => seen = {}
  /\ seen \subseteq Files
  /\ \A t \in seen \ {host} : Len(host) < Len(t)
  /\ linting = "fix" => fixes = Replacements(host)
  /\ linting = "report" /\ writes = 0 => Replacements(host) = {} \/ ~Valid(Validate(host, disk))
  /\ linting = "done" /\ Valid(last) /\ writes = 0 => fixes = {}

LintInv == LintTypeOK /\ Rounds

LEMMA VerdictTyped ==
  ASSUME NEW h \in Files, NEW d, Graph(d), NEW v, v \in {Validate(h, d), NoVerdict(h, d)}
  PROVE  /\ v.text \in Files /\ Graph(v.disk)
         /\ v \in {Validate(v.text, v.disk), NoVerdict(v.text, v.disk)}
BY ValidateIs

LEMMA DisksTyped ==
  ASSUME NEW h \in Files, NEW d \in Disks(h)
  PROVE  Graph(d)
BY FilesAssumption DEF Graph

LEMMA LintInitInv == LintInit => LintInv
<1> SUFFICES ASSUME LintInit PROVE LintInv
  OBVIOUS
<1>1. host \in Files /\ Graph(disk)
  BY FilesAssumption, DisksTyped DEF LintInit
<1>2. last = NoVerdict(host, disk)
  BY DEF LintInit
<1>3. LintTypeOK
  BY <1>1, <1>2, VerdictTyped DEF LintInit, LintTypeOK
<1>4. Rounds
  BY DEF LintInit, Rounds
<1> QED  BY <1>3, <1>4 DEF LintInv

LEMMA StartInv == LintInv /\ Start => LintInv'
<1> SUFFICES ASSUME LintInv, Start PROVE LintInv'
  OBVIOUS
<1>1. host \in Files /\ Graph(disk)
  BY DEF LintInv, LintTypeOK, Start
<1>2. last' = Validate(host, disk)
  BY DEF Start
<1>3. LintTypeOK'
  <2>1. PICK v : v = Validate(host, disk)  OBVIOUS
  <2>2. /\ v.text \in Files /\ Graph(v.disk)
        /\ v \in {Validate(v.text, v.disk), NoVerdict(v.text, v.disk)}
    BY <1>1, <2>1, VerdictTyped
  <2> QED  BY <1>1, <1>2, <2>1, <2>2 DEF LintInv, LintTypeOK, Start, Graph
<1>4. Rounds'
  <2>1. linting' = "find" \/ (linting' = "report" /\ ~Valid(Validate(host, disk)))
    BY <1>2 DEF Start
  <2> QED  BY <1>1, <2>1 DEF Rounds, Start, Valid, Validate
<1> QED  BY <1>3, <1>4 DEF LintInv

LEMMA FindInv == LintInv /\ Find => LintInv'
<1> SUFFICES ASSUME LintInv, Find PROVE LintInv'
  OBVIOUS
<1>1. host \in Files /\ Graph(disk)
  BY DEF LintInv, LintTypeOK, Find
<1>2. LintTypeOK'
  <2>1. PICK v : v = Validate(host, disk)  OBVIOUS
  <2>2. /\ v.text \in Files /\ Graph(v.disk)
        /\ v \in {Validate(v.text, v.disk), NoVerdict(v.text, v.disk)}
    BY <1>1, <2>1, VerdictTyped
  <2> QED  BY <1>1, <2>1, <2>2 DEF LintInv, LintTypeOK, Find, Graph
<1>3. Rounds'
  BY DEF LintInv, Rounds, Find
<1> QED  BY <1>2, <1>3 DEF LintInv

LEMMA FixInv == LintInv /\ Fix => LintInv'
<1> SUFFICES ASSUME LintInv, Fix PROVE LintInv'
  OBVIOUS
<1>1. host \in Files /\ Graph(disk) /\ linting = "fix" /\ fixes = Replacements(host)
  BY DEF LintInv, LintTypeOK, Rounds, Fix
<1>2. PICK c : c = Fixed(host, fixes)
  OBVIOUS
<1>3. /\ c \in Files /\ ImportLists(c) = ImportLists(host)
      /\ Len(host) \in Nat /\ Len(c) \in Nat
      /\ c = host => Replacements(host) = {}
      /\ c # host => Len(c) < Len(host)
  BY <1>1, <1>2, RoundIs
<1>4. PICK v : v = Validate(c, disk)
  OBVIOUS
<1>5. /\ v.text \in Files /\ Graph(v.disk)
      /\ v \in {Validate(v.text, v.disk), NoVerdict(v.text, v.disk)}
  BY <1>1, <1>3, <1>4, VerdictTyped
<1>6. disk' = disk /\ fixes' = fixes /\ writes' = writes
  BY DEF Fix
<1>7. CASE c = host /\ linting' = "report" /\ UNCHANGED <<host, seen, last>>
  BY <1>1, <1>3, <1>6, <1>7 DEF LintInv, LintTypeOK, Rounds, Graph
<1>8. CASE /\ c # host /\ last' = v /\ ~Valid(v)
           /\ linting' = "report" /\ UNCHANGED <<host, seen>>
  <2>1. ~Valid(Validate(host, disk))
    BY <1>3, <1>4, <1>8, ValidSame
  <2>2. Rounds'
    BY <1>6, <1>8, <2>1 DEF LintInv, Rounds, Valid, Validate
  <2> QED  BY <1>1, <1>5, <1>6, <1>8, <2>2 DEF LintInv, LintTypeOK, Graph
<1>9. ASSUME c # host, c \in seen PROVE FALSE
  <2>1. Len(host) < Len(c)  BY <1>9 DEF LintInv, Rounds
  <2> QED  BY <1>3, <1>9, <2>1
<1>10. CASE /\ c # host /\ last' = v /\ linting' = "find"
            /\ host' = c /\ seen' = seen \cup {c}
  <2>1. ASSUME NEW t \in seen' \ {host'} PROVE Len(host') < Len(t)
    <3>1. t \in seen /\ t \in Files  BY <1>10, <2>1 DEF LintInv, Rounds
    <3>2. Len(t) \in Nat  BY <3>1, FilesAssumption
    <3>3. t = host \/ Len(host) < Len(t)  BY <3>1 DEF LintInv, Rounds
    <3> QED  BY <1>3, <1>10, <3>2, <3>3
  <2>2. Rounds'
    BY <1>3, <1>10, <2>1 DEF LintInv, Rounds
  <2> QED  BY <1>1, <1>3, <1>5, <1>6, <1>10, <2>2 DEF LintInv, LintTypeOK, Graph
<1> QED  BY <1>2, <1>4, <1>7, <1>8, <1>9, <1>10 DEF Fix

LEMMA ReportInv == LintInv /\ Report => LintInv'
<1> SUFFICES ASSUME LintInv, Report PROVE LintInv'
  OBVIOUS
<1>1. host \in Files /\ Graph(disk)
  BY DEF LintInv, LintTypeOK, Report
<1>2. LintTypeOK'
  <2>1. PICK v : v = Validate(host, disk)  OBVIOUS
  <2>2. /\ v.text \in Files /\ Graph(v.disk)
        /\ v \in {Validate(v.text, v.disk), NoVerdict(v.text, v.disk)}
    BY <1>1, <2>1, VerdictTyped
  <2> QED  BY <1>1, <2>1, <2>2 DEF LintInv, LintTypeOK, Report, Graph
<1>3. writes = 0 => Replacements(host) = {} \/ ~Valid(last')
  BY DEF LintInv, Rounds, Report
<1>4. Rounds'
  BY <1>3 DEF LintInv, Rounds, Report, Valid
<1> QED  BY <1>2, <1>4 DEF LintInv

LEMMA OthersInv == LintInv /\ (CodeAction \/ WriteImports) => LintInv'
<1> SUFFICES ASSUME LintInv, CodeAction \/ WriteImports PROVE LintInv'
  OBVIOUS
<1>1. CASE CodeAction
  <2>1. LintTypeOK'
    BY <1>1 DEF CodeAction, LintInv, LintTypeOK, Graph
  <2>2. Rounds'
    BY <1>1 DEF CodeAction, LintInv, Rounds, Valid
  <2> QED  BY <2>1, <2>2 DEF LintInv
<1>2. CASE WriteImports
  <2>1. host \in Files /\ writes' # 0 /\ writes' \in Nat
    BY <1>2 DEF WriteImports, LintInv, LintTypeOK
  <2>2. Graph(disk')
    BY <1>2, <2>1, DisksTyped DEF WriteImports
  <2>3. LintTypeOK'
    BY <1>2, <2>1, <2>2 DEF WriteImports, LintInv, LintTypeOK, Graph
  <2>4. Rounds'
    BY <1>2, <2>1 DEF WriteImports, LintInv, Rounds, Valid
  <2> QED  BY <2>3, <2>4 DEF LintInv
<1> QED  BY <1>1, <1>2

LEMMA LintStepInv == LintInv /\ [LintNext]_lintVars => LintInv'
<1>1. LintInv /\ UNCHANGED lintVars => LintInv'
  <2> SUFFICES ASSUME LintInv, UNCHANGED lintVars PROVE LintInv'
    OBVIOUS
  <2>1. LintTypeOK'  BY DEF lintVars, LintInv, LintTypeOK, Graph
  <2>2. Rounds'  BY DEF lintVars, LintInv, Rounds, Valid
  <2> QED  BY <2>1, <2>2 DEF LintInv
<1> QED  BY <1>1, StartInv, FindInv, FixInv, ReportInv, OthersInv DEF LintNext

\* The loop of lint --fix, whatever its rule and whatever other processes write
\* (tooling.go:303).
THEOREM LintInvariant == LintSpec => []LintInv
BY LintInitInv, LintStepInv, PTL DEF LintSpec

\* Whatever imports what, a validation stays within its bounds, and it succeeds
\* only if nothing behind an import is missing or reaches itself
\* (tooling.go:122).
THEOREM CyclesAreFound == LintSpec => []CyclesEnd
<1>1. LintInv => CyclesEnd
  <2> SUFFICES ASSUME LintInv PROVE CyclesEnd
    OBVIOUS
  <2>1. PICK h, d : h = last.text /\ d = last.disk  OBVIOUS
  <2>2. PICK v : v = last  OBVIOUS
  <2>3. h \in Files /\ Graph(d) /\ v \in {Validate(h, d), NoVerdict(h, d)}
    BY <2>1, <2>2 DEF LintInv, LintTypeOK
  <2>4. /\ \A r \in v.reads : r.bytes <= MaxBytes
        /\ Valid(v) =>
             \A names \in ImportLists(h) : \A i \in DOMAIN names :
               \A f \in {names[i]} \cup Reaches(d, names[i]) :
                 f \in DOMAIN d /\ f \notin Reaches(d, f)
    BY <2>3, ValidateIs
  <2> QED  BY <2>1, <2>2, <2>4 DEF CyclesEnd
<1> QED  BY <1>1, LintInvariant, PTL

\* No text of the loop comes back, so that it ends, and it ends without a safe
\* fix left (tooling.go:304).
THEOREM LintConverges == LintSpec => []Converges
<1>1. LintInv => Converges
  BY DEF LintInv, Rounds, Converges
<1> QED  BY <1>1, LintInvariant, PTL
=============================================================================
