------------------------ MODULE ExecutionCacheProofs ------------------------
(***************************************************************************)
(* Proofs about ExecutionCache for any number of callers, documents, keys  *)
(* and calls, and for every configuration of the cache.                    *)
(*                                                                         *)
(* No property of the module is inductive alone.  A result can only be     *)
(* resurrected by a leader whose revision is over, so one has to know that *)
(* such a leader no longer owns its key (Ownership), which needs flights   *)
(* to have one leader each (Leaders).  The accounts of the list hold       *)
(* because a leader that owns its key inserts what is not cached, and      *)
(* because sums over finite sets behave as sums.                           *)
(***************************************************************************)
EXTENDS ExecutionCache, TLAPS, FiniteSetTheorems, WellFoundedInduction

\* A leader has a flight of its own, whose channel it has not closed, and the
\* revision it began at is not in the future.
Leaders ==
  /\ \A c \in Callers : pc[c] \in Leading =>
       /\ flight[c] \in 1..flights
       /\ flight[c] \notin closed
       /\ result[c].revision <= CurrentRevision(key[c])
  /\ \A c, e \in Callers :
       c # e /\ pc[c] \in Leading /\ pc[e] \in Leading => flight[c] # flight[e]

\* A leader of the current revision owns the pending slot of its key, ...
Ownership ==
  \A c \in Callers :
    pc[c] \in Leading /\ result[c].revision = CurrentRevision(key[c]) =>
      CurrentFlight(c)

\* ... and whoever owns a slot is a leader of the current revision.
Owned ==
  \A k \in DOMAIN pending :
    \E e \in Callers :
      /\ pc[e] \in Leading
      /\ flight[e] = pending[k]
      /\ key[e] = k
      /\ result[e].revision = CurrentRevision(k)

\* Whoever waits knows a flight that is closed or has a leader.
Waiters ==
  \A c \in Callers : pc[c] = "wait" =>
    \/ flight[c] \in closed
    \/ \E e \in Callers : pc[e] \in Leading /\ flight[e] = flight[c]

\* The inductive invariant of the flights.
FlightInv == TypeOK /\ Leaders /\ Ownership /\ Owned /\ Waiters
             /\ NoResurrection /\ SingleFlight

----------------------------------------------------------------------------

LEMMA CanceledIsResult == CanceledResult \in Result
  BY DEF CanceledResult, Result, Canceled

LEMMA InitTypeOK == Init => TypeOK
  <1> SUFFICES ASSUME Init PROVE TypeOK
    OBVIOUS
  <1>1. (CHOOSE k \in Keys : TRUE) \in Keys
    BY CacheAssumption
  <1> QED
    BY <1>1 DEF Init, TypeOK, PC, CanceledResult, Result, Canceled, Entry

\* Type correctness, one step per action of Next.
LEMMA NextTypeOK == TypeOK /\ Leaders /\ [Next]_vars => TypeOK'
  <1> SUFFICES ASSUME TypeOK, Leaders, [Next]_vars PROVE TypeOK'
    OBVIOUS
  <1> USE CacheAssumption DEF TypeOK, cache, history, PC, Goto, Return, CurrentRevision
  <1>1. ASSUME NEW c \in Callers, NEW k \in Keys, Call(c, k) PROVE TypeOK'
    BY <1>1 DEF Call
  <1>2. ASSUME NEW c \in Callers, Cancel(c) PROVE TypeOK'
    BY <1>2 DEF Cancel
  <1>3. ASSUME NEW c \in Callers, Check(c) PROVE TypeOK'
    <2>1. pc' \in [Callers -> PC] /\ result' \in [Callers -> Result]
      BY <1>3, CanceledIsResult DEF Check
    <2> QED
      BY <1>3, <2>1 DEF Check
  <1>4. ASSUME NEW c \in Callers, LookupHit(c) PROVE TypeOK'
    <2>1. newer' \subseteq Keys \X Keys
      BY <1>4 DEF LookupHit, AfterHit, InFront, OrderWithout
    <2>3. uses' \in Nat /\ used' \in [Keys -> 0..uses']
      BY <1>4 DEF LookupHit, Use
    <2>2. result' \in [Callers -> Result]
      BY <1>4 DEF LookupHit, Fresh, Entry, Result
    <2> QED
      BY <1>4, <2>1, <2>2, <2>3 DEF LookupHit
  <1>5. ASSUME NEW k \in Keys, RemoveExpired(k)
        PROVE  /\ DOMAIN entries' \subseteq Keys
               /\ entries' \in [DOMAIN entries' -> Entry]
               /\ newer' \subseteq Keys \X Keys
               /\ UNCHANGED <<uses, used>>
    BY <1>5 DEF RemoveExpired, Dropped, OrderWithout, Restrict
  <1>6. ASSUME NEW c \in Callers, LookupWait(c) PROVE TypeOK'
    BY <1>5, <1>6 DEF LookupWait
  <1>7. ASSUME NEW c \in Callers, LookupLead(c) PROVE TypeOK'
    <2>1. pending' \in [DOMAIN pending' -> Nat] /\ DOMAIN pending' \subseteq Keys
      BY <1>7 DEF LookupLead, NextFlight
    <2>2. result' \in [Callers -> Result]
      BY <1>7 DEF LookupLead, Result, Canceled
    <2>3. closed' \subseteq 1..flights'
      BY <1>7 DEF LookupLead, NextFlight
    <2> QED
      BY <1>5, <1>7, <2>1, <2>2, <2>3 DEF LookupLead, NextFlight
  <1>8. ASSUME NEW c \in Callers, AnswerHit(c) PROVE TypeOK'
    BY <1>8, CanceledIsResult DEF AnswerHit
  <1>9. ASSUME NEW c \in Callers, WaitCanceled(c) PROVE TypeOK'
    BY <1>9, CanceledIsResult DEF WaitCanceled
  <1>10. ASSUME NEW c \in Callers, WaitDone(c) PROVE TypeOK'
    BY <1>10 DEF WaitDone
  <1>11. ASSUME NEW c \in Callers, Begin(c) PROVE TypeOK'
    BY <1>11 DEF Begin
  <1>12. ASSUME NEW c \in Callers, Execute(c) PROVE TypeOK'
    <2>1. Outcomes(c) \subseteq Result
      BY DEF Outcomes, Result
    <2> QED
      BY <1>12, <2>1 DEF Execute
  <1>13. ASSUME NEW k \in Keys, NEW r \in Result,
                Insert(k, r)
         PROVE  /\ DOMAIN entries' \subseteq Keys
                /\ entries' \in [DOMAIN entries' -> Entry]
                /\ newer' \subseteq Keys \X Keys
                /\ uses' \in Nat /\ used' \in [Keys -> 0..uses']
    <2>1. uses' \in Nat /\ used' \in [Keys -> 0..uses']
      BY <1>13 DEF Insert, Use
    <2> QED
      BY <1>13, <2>1 DEF Insert, InFront, OrderWithout, Restrict, Entry, Result
  <1>14. ASSUME NEW c \in Callers, Commit(c) PROVE TypeOK'
    <2>1. /\ DOMAIN entries' \subseteq Keys
          /\ entries' \in [DOMAIN entries' -> Entry]
          /\ newer' \subseteq Keys \X Keys
          /\ uses' \in Nat /\ used' \in [Keys -> 0..uses']
      BY <1>13, <1>14 DEF Commit
    <2>2. pending' \in [DOMAIN pending' -> Nat] /\ DOMAIN pending' \subseteq Keys
      BY <1>14 DEF Commit, Restrict
    <2>3. closed' \subseteq 1..flights'
      BY <1>14 DEF Commit, ClosedBy, Leaders, Leading
    <2> QED
      BY <1>14, <2>1, <2>2, <2>3 DEF Commit
  <1>15. ASSUME NEW c \in Callers, Bypass(c) PROVE TypeOK'
    <2>1. PICK r \in [kind : IF canceled[c] THEN {Canceled} ELSE {Value, Failure},
                      revision : {since[c]}, bytes : Sizes] : Return(c, r)
      BY <1>15 DEF Bypass
    <2>2. r \in Result
      BY <2>1 DEF Result
    <2>3. pc' \in [Callers -> PC] /\ result' \in [Callers -> Result]
      BY <2>1, <2>2
    <2> QED
      BY <1>15, <2>3 DEF Bypass
  <1>16. ASSUME NEW d \in Documents, InvalidateDocument(d) PROVE TypeOK'
    <2>1. /\ DOMAIN entries' \subseteq Keys
          /\ entries' \in [DOMAIN entries' -> Entry]
          /\ newer' \subseteq Keys \X Keys
      BY <1>16 DEF InvalidateDocument, Dropped, OrderWithout, Restrict
    <2>2. pending' \in [DOMAIN pending' -> Nat] /\ DOMAIN pending' \subseteq Keys
      BY <1>16 DEF InvalidateDocument, Restrict
    <2>3. revision' \in [Documents -> Nat]
      BY <1>16 DEF InvalidateDocument
    <2>4. UNCHANGED <<uses, used, flights, closed, calls, pc, key, since,
                      canceled, flight, result>>
      BY <1>16 DEF InvalidateDocument
    <2> QED
      BY <2>1, <2>2, <2>3, <2>4
  <1>17. ASSUME NEW k \in Keys, Expire(k) PROVE TypeOK'
    BY <1>17 DEF Expire, Fresh, Entry
  <1>18. CASE UNCHANGED vars
    BY <1>18 DEF vars
  <1> QED
    BY <1>1, <1>2, <1>3, <1>4, <1>6, <1>7, <1>8, <1>9, <1>10, <1>11, <1>12,
       <1>14, <1>15, <1>16, <1>17, <1>18 DEF Next, CallerStep

----------------------------------------------------------------------------
\* Most steps leave leaders, flights and revisions alone, start waiting only
\* for a pending flight, and cache nothing new.

Quiet ==
  /\ UNCHANGED <<pending, flights, closed, revision>>
  /\ \A e \in Callers : pc'[e] \in Leading <=> pc[e] \in Leading
  /\ \A e \in Callers : pc[e] \in Leading =>
       /\ flight'[e] = flight[e]
       /\ key'[e] = key[e]
       /\ result'[e].revision = result[e].revision
  /\ \A e \in Callers : pc'[e] = "wait" =>
       \/ pc[e] = "wait" /\ flight'[e] = flight[e]
       \/ \E k \in DOMAIN pending : flight'[e] = pending[k]
  /\ DOMAIN entries' \subseteq DOMAIN entries
  /\ \A k \in DOMAIN entries' : entries'[k].revision = entries[k].revision

\* A quiet step preserves the invariant of the flights.
LEMMA QuietStep == FlightInv /\ TypeOK' /\ Quiet => FlightInv'
  <1> SUFFICES ASSUME FlightInv, TypeOK', Quiet PROVE FlightInv'
    OBVIOUS
  <1> USE DEF CurrentRevision
  <1>1. Leaders'
    BY DEF FlightInv, Leaders, Quiet
  <1>2. Ownership'
    BY DEF FlightInv, Ownership, Quiet, CurrentFlight
  <1>3. Owned'
    BY DEF FlightInv, Owned, Quiet
  <1>4. Waiters'
    BY DEF FlightInv, Waiters, Owned, Quiet
  <1>5. NoResurrection'
    BY DEF FlightInv, NoResurrection, Quiet
  <1>6. SingleFlight'
    BY DEF FlightInv, SingleFlight, Quiet
  <1> QED
    BY <1>1, <1>2, <1>3, <1>4, <1>5, <1>6 DEF FlightInv

\* A caller that is not a leader and changes only its own state to another one
\* that does not lead and does not wait is quiet.
LEMMA QuietActions ==
  ASSUME FlightInv, NEW c \in Callers,
         \/ \E k \in Keys : Call(c, k)
         \/ Cancel(c) \/ Check(c) \/ LookupHit(c) \/ LookupWait(c)
         \/ AnswerHit(c) \/ WaitCanceled(c) \/ WaitDone(c) \/ Begin(c)
         \/ Execute(c) \/ Bypass(c)
  PROVE  Quiet
  <1> USE DEF FlightInv, TypeOK, Quiet, Leading, cache, history, Goto, Return
  <1>1. ASSUME NEW k \in Keys, Call(c, k) PROVE Quiet
    BY <1>1 DEF Call
  <1>2. CASE Cancel(c)
    BY <1>2 DEF Cancel
  <1>3. CASE Check(c)
    BY <1>3 DEF Check
  <1>4. CASE LookupHit(c)
    BY <1>4 DEF LookupHit
  <1>5. CASE LookupWait(c)
    BY <1>5 DEF LookupWait, RemoveExpired, Dropped, Restrict
  <1>6. CASE AnswerHit(c)
    BY <1>6 DEF AnswerHit
  <1>7. CASE WaitCanceled(c)
    BY <1>7 DEF WaitCanceled
  <1>8. CASE WaitDone(c)
    BY <1>8 DEF WaitDone
  <1>9. CASE Begin(c)
    BY <1>9 DEF Begin
  <1>10. CASE Execute(c)
    <2>1. PICK r \in Outcomes(c) : result' = [result EXCEPT ![c] = r]
      BY <1>10 DEF Execute
    <2>2. r.revision = result[c].revision
      BY DEF Outcomes
    <2> QED
      BY <1>10, <2>1, <2>2 DEF Execute
  <1>11. CASE Bypass(c)
    BY <1>11 DEF Bypass
  <1> QED
    BY <1>1, <1>2, <1>3, <1>4, <1>5, <1>6, <1>7, <1>8, <1>9, <1>10, <1>11

\* A new leader takes a new flight for a key that has none.
LEMMA LeadStep ==
  ASSUME FlightInv, TypeOK', NEW c \in Callers, LookupLead(c)
  PROVE  FlightInv'
  <1> USE DEF FlightInv, TypeOK, CurrentRevision
  <1>1. /\ flights' = flights + 1 /\ closed' = closed /\ revision' = revision
        /\ key' = key
        /\ flight'[c] = flights + 1
        /\ key[c] \notin DOMAIN pending
        /\ DOMAIN pending' = DOMAIN pending \cup {key[c]}
        /\ pending'[key[c]] = flights + 1
        /\ \A k \in DOMAIN pending : pending'[k] = pending[k]
        /\ pc[c] = "lookup" /\ pc'[c] = "begin"
        /\ result'[c].revision = revision[DocumentOf[key[c]]]
    BY DEF LookupLead, NextFlight, Goto
  <1>2. \A e \in Callers \ {c} :
          pc'[e] = pc[e] /\ flight'[e] = flight[e] /\ result'[e] = result[e]
    BY DEF LookupLead, Goto
  <1>3. key[c] \in Keys /\ DocumentOf[key[c]] \in Documents
    BY CacheAssumption
  <1>4. Leaders'
    BY <1>1, <1>2, <1>3 DEF Leaders, Leading
  <1>5. Ownership'
    BY <1>1, <1>2 DEF Ownership, CurrentFlight, Leading
  <1>6. Owned'
    <2> SUFFICES ASSUME NEW k \in DOMAIN pending'
                 PROVE  \E e \in Callers :
                          /\ pc'[e] \in Leading /\ flight'[e] = pending'[k]
                          /\ key'[e] = k
                          /\ result'[e].revision = revision'[DocumentOf[k]]
      BY DEF Owned
    <2>1. CASE k = key[c]
      BY <1>1, <2>1 DEF Leading
    <2>2. CASE k # key[c]
      <3>1. PICK e \in Callers : /\ pc[e] \in Leading /\ flight[e] = pending[k]
                                /\ key[e] = k
                                /\ result[e].revision = revision[DocumentOf[k]]
        BY <1>1, <2>2 DEF Owned
      <3> QED
        BY <1>1, <1>2, <2>2, <3>1 DEF Leading
    <2> QED
      BY <2>1, <2>2
  <1>7. Waiters'
    BY <1>1, <1>2 DEF Waiters, Leading
  <1>8. NoResurrection'
    BY <1>1 DEF NoResurrection, LookupLead, RemoveExpired, Dropped, Restrict
  <1>9. SingleFlight'
    BY <1>1, <1>2 DEF SingleFlight, Ownership, CurrentFlight, Leading
  <1> QED
    BY <1>4, <1>5, <1>6, <1>7, <1>8, <1>9

\* A leader leaves: its channel is closed, its slot is free if it was its own,
\* and what it inserts is of the current revision because the slot was.
LEMMA CommitStep ==
  ASSUME FlightInv, TypeOK', NEW c \in Callers, Commit(c)
  PROVE  FlightInv'
  <1> USE DEF FlightInv, TypeOK, CurrentRevision
  <1>1. /\ UNCHANGED <<flights, revision, key, flight, result>>
        /\ closed' = closed \cup {flight[c]}
        /\ pc[c] = "commit" /\ pc'[c] = "idle"
        /\ \A e \in Callers \ {c} : pc'[e] = pc[e]
        /\ pc[c] \in Leading /\ pc'[c] \notin Leading
    BY DEF Commit, Goto, ClosedBy, Leading
  <1>2. /\ DOMAIN pending' = IF CurrentFlight(c) THEN DOMAIN pending \ {key[c]}
                             ELSE DOMAIN pending
        /\ \A k \in DOMAIN pending' : pending'[k] = pending[k]
    BY DEF Commit, Restrict
  <1>3. CurrentFlight(c) => result[c].revision = revision[DocumentOf[key[c]]]
    BY <1>1 DEF CurrentFlight, Owned, Leaders
  <1>4. Leaders'
    BY <1>1 DEF Leaders
  <1>5. Ownership'
    BY <1>1, <1>2 DEF Ownership, CurrentFlight, Leaders
  <1>6. Owned'
    BY <1>1, <1>2 DEF Owned, CurrentFlight
  <1>7. Waiters'
    BY <1>1 DEF Waiters
  <1>8. NoResurrection'
    <2>1. CASE Cacheable(c)
      <3>1. Insert(key[c], result[c])
        BY <2>1 DEF Commit
      <3>2. \A k \in DOMAIN entries' :
              \/ k = key[c] /\ entries'[k].revision = result[c].revision
              \/ k \in DOMAIN entries /\ entries'[k] = entries[k]
        BY <3>1 DEF Insert, Restrict
      <3> QED
        BY <1>1, <1>3, <2>1, <3>2 DEF NoResurrection, Cacheable
    <2>2. CASE ~Cacheable(c)
      BY <1>1, <2>2 DEF Commit, cache, history, NoResurrection
    <2> QED
      BY <2>1, <2>2
  <1>9. SingleFlight'
    BY <1>1 DEF SingleFlight
  <1> QED
    BY <1>4, <1>5, <1>6, <1>7, <1>8, <1>9

\* An invalidation begins a revision that no leader belongs to.
LEMMA InvalidateStep ==
  ASSUME FlightInv, TypeOK', NEW d \in Documents, InvalidateDocument(d)
  PROVE  FlightInv'
  <1> USE CacheAssumption DEF FlightInv, TypeOK, CurrentRevision
  <1>1. /\ UNCHANGED <<flights, closed, pc, key, flight, result>>
        /\ revision' = [revision EXCEPT ![d] = revision[d] + 1]
        /\ DOMAIN pending' = {k \in DOMAIN pending : DocumentOf[k] # d}
        /\ \A k \in DOMAIN pending' : pending'[k] = pending[k]
        /\ DOMAIN entries' = {k \in DOMAIN entries : DocumentOf[k] # d}
        /\ \A k \in DOMAIN entries' : entries'[k] = entries[k]
    BY DEF InvalidateDocument, Disowned, KeysOf, Restrict, Dropped
  <1>2. /\ revision'[d] = revision[d] + 1
        /\ \A k \in Keys : DocumentOf[k] # d =>
             revision'[DocumentOf[k]] = revision[DocumentOf[k]]
    BY <1>1
  <1>3. \A c \in Callers : key[c] \in Keys
    OBVIOUS
  <1>4. Leaders'
    <2>1. \A c \in Callers : revision[DocumentOf[key[c]]] \in Nat
             /\ revision[DocumentOf[key[c]]] <= revision'[DocumentOf[key[c]]]
      BY <1>1, <1>2
    <2>2. \A c \in Callers : result[c].revision \in Nat
      BY DEF Result
    <2> QED
      BY <1>1, <2>1, <2>2 DEF Leaders
  <1>5. Ownership'
    <2>1. ASSUME NEW c \in Callers, pc[c] \in Leading,
                 result[c].revision = revision'[DocumentOf[key[c]]]
          PROVE  DocumentOf[key[c]] # d
      <3>1. result[c].revision <= revision[DocumentOf[key[c]]]
        BY <2>1 DEF Leaders
      <3> QED
        BY <1>2, <2>1, <3>1
    <2> QED
      BY <1>1, <1>2, <2>1 DEF Ownership, CurrentFlight
  <1>6. Owned'
    BY <1>1, <1>2 DEF Owned
  <1>7. Waiters'
    BY <1>1 DEF Waiters
  <1>8. NoResurrection'
    BY <1>1, <1>2 DEF NoResurrection
  <1>9. SingleFlight'
    BY <1>1 DEF SingleFlight
  <1> QED
    BY <1>4, <1>5, <1>6, <1>7, <1>8, <1>9

----------------------------------------------------------------------------

LEMMA InitFlightInv == Init => FlightInv
  <1> SUFFICES ASSUME Init PROVE FlightInv
    OBVIOUS
  <1>1. TypeOK
    BY InitTypeOK
  <1>2. Leaders /\ Ownership /\ Waiters /\ SingleFlight
    BY DEF Init, Leaders, Leading, Ownership, Waiters, SingleFlight
  <1>3. Owned /\ NoResurrection
    BY DEF Init, Owned, NoResurrection
  <1> QED
    BY <1>1, <1>2, <1>3 DEF FlightInv

LEMMA NextFlightInv == FlightInv /\ [Next]_vars => FlightInv'
  <1> SUFFICES ASSUME FlightInv, [Next]_vars PROVE FlightInv'
    OBVIOUS
  <1>1. TypeOK'
    BY NextTypeOK DEF FlightInv
  <1>2. ASSUME NEW c \in Callers, CallerStep(c) PROVE FlightInv'
    <2>1. CASE LookupLead(c)
      BY <1>1, <2>1, LeadStep
    <2>2. CASE Commit(c)
      BY <1>1, <2>2, CommitStep
    <2>3. CASE ~LookupLead(c) /\ ~Commit(c)
      BY <1>1, <1>2, <2>3, QuietActions, QuietStep DEF CallerStep
    <2> QED
      BY <2>1, <2>2, <2>3
  <1>3. ASSUME NEW d \in Documents, InvalidateDocument(d) PROVE FlightInv'
    BY <1>1, <1>3, InvalidateStep
  <1>4. ASSUME NEW k \in Keys, Expire(k) PROVE FlightInv'
    <2>1. Quiet
      BY <1>4 DEF Expire, Fresh, Quiet, FlightInv, TypeOK
    <2> QED
      BY <1>1, <2>1, QuietStep
  <1>5. CASE UNCHANGED vars
    <2>1. Quiet
      BY <1>5 DEF vars, cache, Quiet
    <2> QED
      BY <1>1, <2>1, QuietStep
  <1> QED
    BY <1>2, <1>3, <1>4, <1>5 DEF Next

LEMMA FlightInvariant == SafeSpec => []FlightInv
  BY InitFlightInv, NextFlightInv, PTL DEF SafeSpec

\* The maps, flights and callers of the cache keep their types.
THEOREM TypeCorrect == SafeSpec => []TypeOK
  <1>1. FlightInv => TypeOK
    BY DEF FlightInv
  <1> QED
    BY <1>1, FlightInvariant, PTL

\* An execution that an invalidation overtook never reaches the cache.
THEOREM NothingResurrected == SafeSpec => []NoResurrection
  <1>1. FlightInv => NoResurrection
    BY DEF FlightInv
  <1> QED
    BY <1>1, FlightInvariant, PTL

\* A key is executed once at a time within a revision of its document.
THEOREM ExecutedOnce == SafeSpec => []SingleFlight
  <1>1. FlightInv => SingleFlight
    BY DEF FlightInv
  <1> QED
    BY <1>1, FlightInvariant, PTL

\* No waiter waits for a flight that nobody will close.
THEOREM NobodyStranded == SafeSpec => []FlightsLand
  <1>1. FlightInv => FlightsLand
    BY DEF FlightInv, FlightsLand, Waiters, Owned
  <1> QED
    BY <1>1, FlightInvariant, PTL

-----------------------------------------------------------------------------
(* Sums of the sizes of entries *)

\* The element a sum takes first.
First(s) == CHOOSE k \in s : TRUE

\* f sums the sizes of every set of keys of K.
Sums(ent, K, f) ==
  f = [s \in SUBSET K |-> IF s = {} THEN 0 ELSE ent[First(s)].bytes + f[s \ {First(s)}]]

\* The entries of K have one size in both maps.
SameSizes(ent, other, K) == \A k \in K : ent[k].bytes = other[k].bytes

\* The entries of K have sizes.
Sized(ent, K) == IsFiniteSet(K) /\ \A k \in K : ent[k].bytes \in Nat

\* BytesOf is a fold over the keys.
LEMMA BytesOfFolds ==
  ASSUME NEW ent, NEW K
  PROVE  BytesOf(ent, K) = (CHOOSE f : Sums(ent, K, f))[K]
  BY DEF BytesOf, MapThenSumSet, MapThenFoldSet, Sums, First

\* A set of finite sets has one that has no other one as a subset: the way to
\* induction on a finite set where no operator can be a parameter.
LEMMA SmallestExists ==
  ASSUME NEW K, IsFiniteSet(K), NEW Bad \in SUBSET SUBSET K, Bad # {}
  PROVE  \E s \in Bad : \A t \in Bad : t \subseteq s => t = s
  <1>1. IsWellFoundedOn(StrictSubsetOrdering(K), FiniteSubsetsOf(K))
    BY FS_StrictSubsetOrderingWellFounded
  <1>2. Bad \subseteq FiniteSubsetsOf(K)
    BY FS_FiniteSubsetsOfFinite
  <1>3. PICK s \in Bad : \A t \in Bad : ~(<<t, s>> \in StrictSubsetOrdering(K))
    BY <1>1, <1>2, WFMin
  <1>4. \A t \in Bad : t \subseteq s => t = s
    BY <1>3 DEF StrictSubsetOrdering
  <1> QED
    BY <1>4

LEMMA FirstIn ==
  ASSUME NEW s, s # {}
  PROVE  First(s) \in s /\ s \ {First(s)} \subseteq s /\ s \ {First(s)} # s
  BY DEF First

\* One step of a sum.
LEMMA SumsStep ==
  ASSUME NEW ent, NEW K, NEW f, Sums(ent, K, f), NEW s \in SUBSET K
  PROVE  f[s] = IF s = {} THEN 0 ELSE ent[First(s)].bytes + f[s \ {First(s)}]
  BY DEF Sums

\* A sum depends on the sizes of what is summed and on nothing else.
LEMMA SumsAgree ==
  ASSUME NEW ent, NEW other, NEW K, NEW L, NEW f, NEW g, NEW S,
         IsFiniteSet(S), S \subseteq K, S \subseteq L,
         Sums(ent, K, f), Sums(other, L, g),
         SameSizes(ent, other, S)
  PROVE  f[S] = g[S]
  <1> DEFINE Bad == {s \in SUBSET S : f[s] # g[s]}
  <1> SUFFICES ASSUME Bad # {} PROVE FALSE
    OBVIOUS
  <1>1. PICK s \in Bad : \A t \in Bad : t \subseteq s => t = s
    <2> Bad \in SUBSET SUBSET S
      OBVIOUS
    <2> HIDE DEF Bad
    <2> QED
      BY SmallestExists
  <1>2. s \in SUBSET K /\ s \in SUBSET L
    OBVIOUS
  <1>3. /\ f[s] = IF s = {} THEN 0 ELSE ent[First(s)].bytes + f[s \ {First(s)}]
        /\ g[s] = IF s = {} THEN 0 ELSE other[First(s)].bytes + g[s \ {First(s)}]
    BY <1>2, SumsStep
  <1>4. s # {}
    BY <1>3
  <1>5. First(s) \in s /\ s \ {First(s)} \subseteq s /\ s \ {First(s)} # s
    BY <1>4, FirstIn
  <1>6. f[s \ {First(s)}] = g[s \ {First(s)}]
    BY <1>1, <1>5
  <1>7. ent[First(s)].bytes = other[First(s)].bytes
    BY <1>5 DEF SameSizes
  <1>8. f[s] = g[s]
    BY <1>3, <1>4, <1>6, <1>7
  <1> QED
    BY <1>8

LEMMA SumsWithin ==
  ASSUME NEW ent, NEW K, NEW f, NEW g, NEW S, IsFiniteSet(S), S \subseteq K,
         Sums(ent, K, f), Sums(ent, S, g)
  PROVE  f[S] = g[S]
  <1>1. SameSizes(ent, ent, S)
    BY DEF SameSizes
  <1>2. S \subseteq S
    OBVIOUS
  <1> QED
    BY <1>1, <1>2, SumsAgree

\* There is a sum.
LEMMA SumsExist ==
  ASSUME NEW ent, NEW S, Sized(ent, S)
  PROVE  \E f \in [SUBSET S -> Nat] : Sums(ent, S, f)
  <1> DEFINE Bad == {s \in SUBSET S : ~\E f \in [SUBSET s -> Nat] : Sums(ent, s, f)}
  <1> SUFFICES ASSUME Bad # {} PROVE FALSE
    OBVIOUS
  <1>1. PICK s \in Bad : \A t \in Bad : t \subseteq s => t = s
    <2> Bad \in SUBSET SUBSET S
      OBVIOUS
    <2> HIDE DEF Bad
    <2> QED
      BY SmallestExists DEF Sized
  <1> DEFINE Good(t, g) == g \in [SUBSET t -> Nat] /\ Sums(ent, t, g)
             sum(t) == (CHOOSE g : Good(t, g))[t]
             f == [t \in SUBSET s |->
                     IF t = {} THEN 0 ELSE ent[First(t)].bytes + sum(t \ {First(t)})]
  <1>2. ASSUME NEW t, t \subseteq s, t # s
        PROVE  Good(t, CHOOSE g : Good(t, g))
    <2>1. t \notin Bad /\ t \in SUBSET S
      BY <1>1, <1>2
    <2>2. \E g : Good(t, g)
      BY <2>1
    <2> HIDE DEF Good
    <2> QED
      BY <2>2
  <1>3. \A t : t \subseteq s /\ t # s => IsFiniteSet(t)
    BY FS_Subset DEF Sized
  <1>4. ASSUME NEW t, t \subseteq s, t # s
        PROVE  f[t] = sum(t) /\ sum(t) \in Nat
    <2> DEFINE g == CHOOSE g : Good(t, g)
    <2>1. Good(t, g)
      BY <1>2, <1>4
    <2>2. sum(t) = g[t] /\ g[t] \in Nat
      BY <2>1
    <2>3. CASE t = {}
      BY <2>1, <2>2, <2>3, SumsStep
    <2>4. CASE t # {}
      <3> DEFINE u == t \ {First(t)}
                 h == CHOOSE h : Good(u, h)
      <3>1. First(t) \in t /\ u \subseteq t /\ u # t
        BY <2>4, FirstIn
      <3>2. u \subseteq s /\ u # s
        BY <3>1, <1>4
      <3>3. Good(u, h) /\ sum(u) = h[u]
        BY <3>2, <1>2
      <3>4. g[t] = ent[First(t)].bytes + g[u]
        BY <2>1, <2>4, SumsStep
      <3>5. g[u] = h[u]
        <4>1. IsFiniteSet(u) /\ u \subseteq t
          BY <3>1, <3>2, <1>3
        <4>2. Sums(ent, t, g) /\ Sums(ent, u, h)
          BY <2>1, <3>3
        <4> HIDE DEF u, g, h, Good
        <4> QED
          BY <4>1, <4>2, SumsWithin
      <3>6. f[t] = ent[First(t)].bytes + sum(u)
        BY <2>4, <1>4
      <3> HIDE DEF f, u, g, h, sum, Good
      <3> QED
        BY <2>2, <3>3, <3>4, <3>5, <3>6
    <2> QED
      BY <2>3, <2>4
  <1>5. \A t \in SUBSET s : t # {} => t \ {First(t)} \subseteq s /\ t \ {First(t)} # s
                                       /\ First(t) \in S
    <2>1. s \subseteq S
      OBVIOUS
    <2> QED
      BY <2>1, FirstIn
  <1>6. Sums(ent, s, f)
    <2>1. \A t \in SUBSET s : t # {} => sum(t \ {First(t)}) = f[t \ {First(t)}]
      <3> HIDE DEF f, sum
      <3> QED
        BY <1>4, <1>5
    <2>2. f = [t \in SUBSET s |->
                 IF t = {} THEN 0 ELSE ent[First(t)].bytes + f[t \ {First(t)}]]
      <3> DEFINE r(t) == ent[First(t)].bytes + f[t \ {First(t)}]
                 q(t) == ent[First(t)].bytes + sum(t \ {First(t)})
      <3>1. \A t \in SUBSET s : t # {} => q(t) = r(t)
        BY <2>1
      <3>2. f = [t \in SUBSET s |-> IF t = {} THEN 0 ELSE q(t)]
        OBVIOUS
      <3> HIDE DEF f, q, r
      <3>3. f = [t \in SUBSET s |-> IF t = {} THEN 0 ELSE r(t)]
        BY <3>1, <3>2
      <3> QED
        BY <3>3 DEF r
    <2> QED
      BY <2>2 DEF Sums
  <1>7. f \in [SUBSET s -> Nat]
    <2> SUFFICES ASSUME NEW t \in SUBSET s, t # {}
                 PROVE  ent[First(t)].bytes + sum(t \ {First(t)}) \in Nat
      OBVIOUS
    <2>1. sum(t \ {First(t)}) \in Nat
      BY <1>4, <1>5
    <2>2. ent[First(t)].bytes \in Nat
      BY <1>5 DEF Sized
    <2> QED
      BY <2>1, <2>2
  <1> QED
    BY <1>1, <1>6, <1>7

LEMMA SizedWithin ==
  ASSUME NEW ent, NEW K, Sized(ent, K), NEW s \in SUBSET K
  PROVE  Sized(ent, s)
  BY FS_Subset DEF Sized

\* BytesOf is the sum of all sets of keys at once.
LEMMA BytesOfSums ==
  ASSUME NEW ent, NEW K, Sized(ent, K)
  PROVE  \E f \in [SUBSET K -> Nat] :
           Sums(ent, K, f) /\ \A s \in SUBSET K : BytesOf(ent, s) = f[s]
  <1>1. PICK f \in [SUBSET K -> Nat] : Sums(ent, K, f)
    BY SumsExist
  <1>2. ASSUME NEW s \in SUBSET K PROVE BytesOf(ent, s) = f[s]
    <2> DEFINE g == CHOOSE g : Sums(ent, s, g)
    <2>1. Sized(ent, s)
      BY SizedWithin
    <2>2. Sums(ent, s, g)
      <3>1. \E h : Sums(ent, s, h)
        BY <2>1, SumsExist
      <3> QED
        BY <3>1
    <2>3. BytesOf(ent, s) = g[s]
      BY BytesOfFolds
    <2> HIDE DEF g
    <2>4. f[s] = g[s]
      BY <1>1, <2>1, <2>2, SumsWithin DEF Sized
    <2> QED
      BY <2>3, <2>4
  <1> QED
    BY <1>1, <1>2

LEMMA BytesOfNat ==
  ASSUME NEW ent, NEW K, Sized(ent, K)
  PROVE  BytesOf(ent, K) \in Nat
  <1>1. PICK f \in [SUBSET K -> Nat] : \A s \in SUBSET K : BytesOf(ent, s) = f[s]
    BY BytesOfSums
  <1>2. K \in SUBSET K
    OBVIOUS
  <1> QED
    BY <1>1, <1>2

LEMMA BytesOfNone ==
  ASSUME NEW ent
  PROVE  BytesOf(ent, {}) = 0
  <1>1. Sized(ent, {})
    BY FS_EmptySet DEF Sized
  <1>2. PICK f : Sums(ent, {}, f) /\ BytesOf(ent, {}) = f[{}]
    BY <1>1, BytesOfSums
  <1> QED
    BY <1>2, SumsStep

\* Nothing but the sizes counts.
LEMMA BytesOfSame ==
  ASSUME NEW ent, NEW other, NEW K, Sized(ent, K), SameSizes(ent, other, K)
  PROVE  BytesOf(other, K) = BytesOf(ent, K)
  <1>1. Sized(other, K)
    BY DEF Sized, SameSizes
  <1>2. PICK f : Sums(ent, K, f) /\ BytesOf(ent, K) = f[K]
    BY BytesOfSums
  <1>3. PICK g : Sums(other, K, g) /\ BytesOf(other, K) = g[K]
    BY <1>1, BytesOfSums
  <1>4. IsFiniteSet(K) /\ K \subseteq K
    BY DEF Sized
  <1>5. f[K] = g[K]
    BY <1>2, <1>3, <1>4, SumsAgree
  <1> QED
    BY <1>2, <1>3, <1>5

\* It does not matter which key is taken first.
LEMMA BytesOfOne ==
  ASSUME NEW ent, NEW K, Sized(ent, K), NEW k \in K
  PROVE  BytesOf(ent, K) = ent[k].bytes + BytesOf(ent, K \ {k})
  <1>1. PICK f \in [SUBSET K -> Nat] :
          Sums(ent, K, f) /\ \A s \in SUBSET K : BytesOf(ent, s) = f[s]
    BY BytesOfSums
  <1> DEFINE Bad == {s \in SUBSET K : \E x \in s : f[s] # ent[x].bytes + f[s \ {x}]}
  <1>2. Bad = {}
    <2> SUFFICES ASSUME Bad # {} PROVE FALSE
      OBVIOUS
    <2>1. PICK s \in Bad : \A t \in Bad : t \subseteq s => t = s
      <3> Bad \in SUBSET SUBSET K
        OBVIOUS
      <3> HIDE DEF Bad
      <3> QED
        BY SmallestExists DEF Sized
    <2>2. PICK x \in s : f[s] # ent[x].bytes + f[s \ {x}]
      OBVIOUS
    <2> DEFINE y == First(s)
    <2>3. s \in SUBSET K /\ x \in s /\ y \in s
      BY FirstIn
    <2>4. f[s] = ent[y].bytes + f[s \ {y}]
      BY <1>1, <2>3, SumsStep
    <2> HIDE DEF y
    <2>5. x # y
      BY <2>2, <2>4
    <2>6. f[s \ {y}] = ent[x].bytes + f[(s \ {y}) \ {x}]
      <3>1. s \ {y} \in SUBSET K /\ s \ {y} \subseteq s /\ s \ {y} # s /\ x \in s \ {y}
        BY <2>3, <2>5
      <3>2. s \ {y} \notin Bad
        BY <2>1, <3>1
      <3> QED
        BY <3>1, <3>2
    <2>7. f[s \ {x}] = ent[y].bytes + f[(s \ {x}) \ {y}]
      <3>1. s \ {x} \in SUBSET K /\ s \ {x} \subseteq s /\ s \ {x} # s /\ y \in s \ {x}
        BY <2>3, <2>5
      <3>2. s \ {x} \notin Bad
        BY <2>1, <3>1
      <3> QED
        BY <3>1, <3>2
    <2> DEFINE r == f[(s \ {y}) \ {x}]
    <2>8. f[s \ {y}] = ent[x].bytes + r /\ f[s \ {x}] = ent[y].bytes + r
      <3>1. (s \ {x}) \ {y} = (s \ {y}) \ {x}
        OBVIOUS
      <3> QED
        BY <2>6, <2>7, <3>1
    <2>9. ent[x].bytes \in Nat /\ ent[y].bytes \in Nat /\ r \in Nat
      <3>1. (s \ {y}) \ {x} \in SUBSET K
        BY <2>3
      <3>2. r \in Nat
        BY <1>1, <3>1
      <3> QED
        BY <2>3, <3>2 DEF Sized
    <2> HIDE DEF r
    <2>10. f[s] = ent[x].bytes + f[s \ {x}]
      BY <2>4, <2>8, <2>9
    <2> QED
      BY <2>2, <2>10
  <1>3. f[K] = ent[k].bytes + f[K \ {k}]
    BY <1>2
  <1> QED
    BY <1>1, <1>3

\* The bytes of some keys and of the others are the bytes of all.
LEMMA BytesOfSplit ==
  ASSUME NEW ent, NEW D, Sized(ent, D), NEW K \in SUBSET D
  PROVE  BytesOf(ent, D) = BytesOf(ent, K) + BytesOf(ent, D \ K)
  <1> DEFINE Bad == {s \in SUBSET D :
                       BytesOf(ent, D) # BytesOf(ent, s) + BytesOf(ent, D \ s)}
  <1> SUFFICES Bad = {}
    OBVIOUS
  <1> SUFFICES ASSUME Bad # {} PROVE FALSE
    OBVIOUS
  <1>1. PICK s \in Bad : \A t \in Bad : t \subseteq s => t = s
    <2> Bad \in SUBSET SUBSET D
      OBVIOUS
    <2> HIDE DEF Bad
    <2> QED
      BY SmallestExists DEF Sized
  <1>2. \A t \in SUBSET D : Sized(ent, t) /\ BytesOf(ent, t) \in Nat
    BY SizedWithin, BytesOfNat
  <1>3. s # {}
    <2>1. BytesOf(ent, {}) = 0 /\ D \ {} = D /\ D \in SUBSET D
      BY BytesOfNone
    <2>2. BytesOf(ent, D) = BytesOf(ent, {}) + BytesOf(ent, D \ {})
      BY <1>2, <2>1
    <2> QED
      BY <2>2
  <1>4. PICK x : x \in s
    BY <1>3
  <1> DEFINE r == s \ {x}
  <1>5. r \in SUBSET D /\ r \subseteq s /\ r # s
    BY <1>4
  <1>6. BytesOf(ent, D) = BytesOf(ent, r) + BytesOf(ent, D \ r)
    <2>1. r \notin Bad
      BY <1>1, <1>5
    <2> QED
      BY <1>5, <2>1
  <1>7. BytesOf(ent, s) = ent[x].bytes + BytesOf(ent, r)
    BY <1>2, <1>4, BytesOfOne
  <1>8. BytesOf(ent, D \ r) = ent[x].bytes + BytesOf(ent, D \ s)
    <2>1. x \in D \ r /\ D \ r \in SUBSET D /\ (D \ r) \ {x} = D \ s
      BY <1>4
    <2> HIDE DEF r
    <2> QED
      BY <1>2, <2>1, BytesOfOne
  <1>9. /\ ent[x].bytes \in Nat /\ BytesOf(ent, r) \in Nat
        /\ BytesOf(ent, D \ s) \in Nat
    <2>1. D \ s \in SUBSET D
      OBVIOUS
    <2> QED
      BY <1>2, <1>4, <1>5, <2>1 DEF Sized
  <1>10. BytesOf(ent, D) = BytesOf(ent, s) + BytesOf(ent, D \ s)
    <2> HIDE DEF r
    <2> QED
      BY <1>6, <1>7, <1>8, <1>9
  <1> QED
    BY <1>1, <1>10

-----------------------------------------------------------------------------
(* The list, the maps and the total *)

\* order is that of a list of the keys D.
Lists(D, order) ==
  /\ \A j, k \in D : j # k =>
       (<<j, k>> \in order /\ <<k, j>> \notin order)
         \/ (<<k, j>> \in order /\ <<j, k>> \notin order)
  /\ \A p \in order : p = <<p[1], p[2]>> /\ {p[1], p[2]} \subseteq D /\ p[1] # p[2]

\* Only a cache that has room for an entry is looked at.
Enabled == \A c \in Callers :
  pc[c] \in {"lookup", "hit", "wait"} \cup Leading => PartialExecCacheSize # 0

\* Accounted, as the steps keep it.
Books ==
  /\ bytes = BytesOf(entries, DOMAIN entries)
  /\ bytes <= MaxExecutionCacheBytes
  /\ Cardinality(DOMAIN entries) <= PartialExecCacheSize
  /\ Lists(DOMAIN entries, newer)
  /\ DOMAIN entries \cap DOMAIN pending = {}

BookInv == FlightInv /\ Books /\ Enabled

LEMMA EntriesSized ==
  ASSUME TypeOK
  PROVE  Sized(entries, DOMAIN entries)
  <1>1. IsFiniteSet(DOMAIN entries)
    BY CacheAssumption, FS_Subset DEF TypeOK
  <1>2. \A k \in DOMAIN entries : entries[k].bytes \in Nat
    BY DEF TypeOK, Entry
  <1> QED
    BY <1>1, <1>2 DEF Sized

LEMMA BooksAccount ==
  ASSUME Books
  PROVE  Accounted
  BY DEF Books, Lists, Accounted

\* A part of a list is a list.
LEMMA PartLists ==
  ASSUME NEW D, NEW order, Lists(D, order), NEW K \in SUBSET D
  PROVE  Lists(K, {p \in order : p[1] \in K /\ p[2] \in K})
  BY DEF Lists

\* What is moved or pushed to the front makes a list with the others.
LEMMA FrontLists ==
  ASSUME Lists(DOMAIN entries, newer), NEW k
  PROVE  Lists(DOMAIN entries \cup {k}, InFront(k))
  <1> DEFINE D == DOMAIN entries
  <1>1. ASSUME NEW p \in InFront(k)
        PROVE  p = <<p[1], p[2]>> /\ {p[1], p[2]} \subseteq D \cup {k} /\ p[1] # p[2]
    BY <1>1 DEF InFront, OrderWithout, Lists
  <1>2. \A i, j \in D \ {k} : <<i, j>> \in InFront(k) <=> <<i, j>> \in newer
    BY DEF InFront, OrderWithout
  <1>3. \A j \in D \ {k} : <<k, j>> \in InFront(k) /\ <<j, k>> \notin InFront(k)
    BY DEF InFront, OrderWithout
  <1>4. ASSUME NEW i \in D \cup {k}, NEW j \in D \cup {k}, i # j
        PROVE  \/ <<i, j>> \in InFront(k) /\ <<j, i>> \notin InFront(k)
               \/ <<j, i>> \in InFront(k) /\ <<i, j>> \notin InFront(k)
    <2>1. CASE i # k /\ j # k
      BY <1>2, <1>4, <2>1 DEF Lists
    <2>2. CASE i = k \/ j = k
      BY <1>3, <1>4, <2>2
    <2> QED
      BY <2>1, <2>2
  <1> QED
    BY <1>1, <1>4 DEF Lists

-----------------------------------------------------------------------------
\* What is removed from the list and the maps leaves the total too.
LEMMA DropKeeps ==
  ASSUME BookInv, TypeOK', NEW K,
         entries' = Dropped(K), newer' = OrderWithout(K), bytes' = BytesWithout(K)
  PROVE  /\ DOMAIN entries' = DOMAIN entries \ K
         /\ bytes' = BytesOf(entries', DOMAIN entries')
         /\ bytes' <= MaxExecutionCacheBytes
         /\ Cardinality(DOMAIN entries') <= PartialExecCacheSize
         /\ Lists(DOMAIN entries', newer')
  <1> DEFINE D == DOMAIN entries
             L == D \ K
  <1> USE DEF BookInv, Books
  <1>1. /\ DOMAIN entries' = L
        /\ \A k \in L : entries'[k] = entries[k]
    BY DEF Dropped, Restrict
  <1>2. Sized(entries, D) /\ Sized(entries, L) /\ Sized(entries, K \cap D)
    BY EntriesSized, SizedWithin DEF FlightInv
  <1>3. BytesOf(entries', L) = BytesOf(entries, L)
    <2>1. SameSizes(entries, entries', L)
      BY <1>1 DEF SameSizes
    <2> HIDE DEF L
    <2> QED
      BY <1>2, <2>1, BytesOfSame
  <1>4. BytesOf(entries, D) = BytesOf(entries, K \cap D) + BytesOf(entries, L)
    <2>1. K \cap D \in SUBSET D /\ D \ (K \cap D) = L
      OBVIOUS
    <2> HIDE DEF D, L
    <2> QED
      BY <1>2, <2>1, BytesOfSplit
  <1>5. BytesOf(entries, K \cap D) \in Nat /\ BytesOf(entries, L) \in Nat
    BY <1>2, BytesOfNat
  <1>6. bytes' = bytes - BytesOf(entries, K \cap D) /\ bytes = BytesOf(entries, D)
    BY DEF BytesWithout
  <1>7. bytes' = BytesOf(entries', L) /\ bytes' <= MaxExecutionCacheBytes
    <2> HIDE DEF D, L
    <2>1. bytes <= MaxExecutionCacheBytes /\ MaxExecutionCacheBytes \in Nat
      BY CacheAssumption
    <2> QED
      BY <1>3, <1>4, <1>5, <1>6, <2>1
  <1>8. Cardinality(L) <= PartialExecCacheSize
    <2>1. IsFiniteSet(D) /\ L \subseteq D
      BY <1>2 DEF Sized
    <2>2. /\ Cardinality(L) \in Nat /\ Cardinality(D) \in Nat
          /\ Cardinality(L) <= Cardinality(D)
      BY <2>1, FS_Subset, FS_CardinalityType
    <2>3. Cardinality(D) <= PartialExecCacheSize
      OBVIOUS
    <2> HIDE DEF D, L
    <2> QED
      BY <2>2, <2>3, CacheAssumption
  <1>9. Lists(L, newer')
    <2>1. Lists(L, {p \in newer : p[1] \in L /\ p[2] \in L})
      BY PartLists
    <2>2. newer' = {p \in newer : p[1] \in L /\ p[2] \in L}
      <3>1. \A p \in newer : {p[1], p[2]} \subseteq D
        BY DEF Lists
      <3> QED
        BY <3>1 DEF OrderWithout
    <2> QED
      BY <2>1, <2>2
  <1> QED
    BY <1>1, <1>7, <1>8, <1>9

\* A hit moves its entry to the front.
LEMMA HitBooks ==
  ASSUME BookInv, NEW c \in Callers, LookupHit(c)
  PROVE  Books'
  <1>1. Lists(DOMAIN entries \cup {key[c]}, InFront(key[c]))
    BY FrontLists DEF BookInv, Books
  <1>2. DOMAIN entries \cup {key[c]} = DOMAIN entries /\ newer' = InFront(key[c])
    BY DEF LookupHit, AfterHit, Fresh
  <1>3. UNCHANGED <<entries, bytes, pending>>
    BY DEF LookupHit
  <1> QED
    BY <1>1, <1>2, <1>3 DEF BookInv, Books

\* A miss removes what is expired, and a new flight is for a key that is not
\* cached.
LEMMA MissBooks ==
  ASSUME BookInv, TypeOK', NEW c \in Callers, LookupWait(c) \/ LookupLead(c)
  PROVE  Books'
  <1>1. /\ entries' = Dropped({key[c]}) /\ newer' = OrderWithout({key[c]})
        /\ bytes' = BytesWithout({key[c]})
    BY DEF LookupWait, LookupLead, RemoveExpired
  <1>2. DOMAIN pending' \subseteq DOMAIN pending \cup {key[c]}
    BY DEF LookupWait, LookupLead
  <1>3. DOMAIN entries' = DOMAIN entries \ {key[c]}
    BY <1>1, DropKeeps
  <1>4. DOMAIN entries' \cap DOMAIN pending' = {}
    BY <1>2, <1>3 DEF BookInv, Books
  <1> QED
    BY <1>1, <1>4, DropKeeps DEF Books

\* An invalidation removes the entries and the flights of a document.
LEMMA InvalidateBooks ==
  ASSUME BookInv, TypeOK', NEW d \in Documents, InvalidateDocument(d)
  PROVE  Books'
  <1>1. /\ entries' = Dropped(KeysOf(d)) /\ newer' = OrderWithout(KeysOf(d))
        /\ bytes' = BytesWithout(KeysOf(d))
    BY DEF InvalidateDocument
  <1>2. DOMAIN pending' \subseteq DOMAIN pending
    BY DEF InvalidateDocument, Restrict
  <1>3. DOMAIN entries' = DOMAIN entries \ KeysOf(d)
    BY <1>1, DropKeeps
  <1>4. DOMAIN entries' \cap DOMAIN pending' = {}
    BY <1>2, <1>3 DEF BookInv, Books
  <1> QED
    BY <1>1, <1>4, DropKeeps DEF Books

\* The clock changes no size.
LEMMA ExpireBooks ==
  ASSUME BookInv, NEW k \in Keys, Expire(k)
  PROVE  Books'
  <1>1. /\ DOMAIN entries' = DOMAIN entries
        /\ UNCHANGED <<newer, bytes, pending>>
    BY DEF Expire
  <1>2. SameSizes(entries, entries', DOMAIN entries)
    BY DEF Expire, SameSizes, BookInv, FlightInv, TypeOK, Entry
  <1>3. BytesOf(entries', DOMAIN entries) = BytesOf(entries, DOMAIN entries)
    BY <1>2, EntriesSized, BytesOfSame DEF BookInv, FlightInv
  <1> QED
    BY <1>1, <1>3 DEF BookInv, Books

-----------------------------------------------------------------------------
\* What cachedExecution inserts is not cached yet: its leader owns the flight.
LEMMA InsertsNew ==
  ASSUME BookInv, NEW c \in Callers, Cacheable(c)
  PROVE  /\ key[c] \in Keys /\ key[c] \notin DOMAIN entries
         /\ result[c].bytes \in Nat /\ result[c].bytes <= MaxExecutionCacheEntryBytes
  <1>1. key[c] \in DOMAIN pending
    BY DEF Cacheable, CurrentFlight
  <1>2. DOMAIN entries \cap DOMAIN pending = {}
    BY DEF BookInv, Books
  <1>3. key[c] \in Keys /\ result[c] \in Result
    BY DEF BookInv, FlightInv, TypeOK
  <1> QED
    BY <1>1, <1>2, <1>3 DEF Cacheable, Result

\* The list before the eviction: the total counts the new entry.
Enlarged(k, r, ent, order, total) ==
  /\ DOMAIN ent = DOMAIN entries \cup {k}
  /\ Sized(ent, DOMAIN ent)
  /\ total = BytesOf(ent, DOMAIN ent)
  /\ BytesOf(ent, DOMAIN ent \ {k}) = bytes
  /\ total = bytes + r.bytes
  /\ order = InFront(k)
  /\ Lists(DOMAIN ent, order)

\* What is kept of it.
Evicted(ent, order, total, K) ==
  /\ K \in SUBSET DOMAIN ent
  /\ Survive(K, ent, order, total)
  /\ entries' = Restrict(ent, K)
  /\ newer' = {p \in order : p[1] \in K /\ p[2] \in K}
  /\ bytes' = total - BytesOf(ent, DOMAIN ent \ K)

LEMMA CommitEvicts ==
  ASSUME BookInv, NEW c \in Callers, Commit(c), Cacheable(c)
  PROVE  \E ent, order, total, K :
           /\ Enlarged(key[c], result[c], ent, order, total)
           /\ Evicted(ent, order, total, K)
  <1> DEFINE k == key[c]
             r == result[c]
             new == [kind |-> r.kind, revision |-> r.revision,
                     bytes |-> r.bytes, expired |-> FALSE]
             ent == [j \in DOMAIN entries \cup {k} |-> IF j = k THEN new ELSE entries[j]]
             total == bytes + r.bytes
  <1>1. /\ k \notin DOMAIN entries
        /\ r.bytes \in Nat
    BY InsertsNew
  <1>2. PICK K \in SUBSET DOMAIN ent : Evicted(ent, InFront(k), total, K)
    <2>1. Insert(k, r)
      BY DEF Commit
    <2> QED
      BY <2>1 DEF Insert, Evicted
  <1>3. Sized(entries, DOMAIN entries)
    BY EntriesSized DEF BookInv, FlightInv
  <1>4. /\ DOMAIN ent = DOMAIN entries \cup {k}
        /\ DOMAIN ent \ {k} = DOMAIN entries
        /\ ent[k].bytes = r.bytes
        /\ \A j \in DOMAIN entries : ent[j] = entries[j]
    BY <1>1
  <1> HIDE DEF ent, k, r
  <1>5. Sized(ent, DOMAIN ent)
    <2>1. IsFiniteSet(DOMAIN ent)
      BY <1>3, <1>4, FS_AddElement DEF Sized
    <2>2. \A j \in DOMAIN ent : ent[j].bytes \in Nat
      BY <1>1, <1>3, <1>4 DEF Sized
    <2> QED
      BY <2>1, <2>2 DEF Sized
  <1>6. BytesOf(ent, DOMAIN entries) = bytes
    <2>1. SameSizes(entries, ent, DOMAIN entries)
      BY <1>4 DEF SameSizes
    <2>2. BytesOf(ent, DOMAIN entries) = BytesOf(entries, DOMAIN entries)
      BY <1>3, <2>1, BytesOfSame
    <2> QED
      BY <2>2 DEF BookInv, Books
  <1>7. total = BytesOf(ent, DOMAIN ent)
    <2>1. k \in DOMAIN ent
      BY <1>4
    <2>2. BytesOf(ent, DOMAIN ent) = ent[k].bytes + BytesOf(ent, DOMAIN ent \ {k})
      BY <1>5, <2>1, BytesOfOne
    <2>3. bytes \in Nat
      BY <1>3, BytesOfNat DEF BookInv, Books
    <2> QED
      BY <1>1, <1>4, <1>6, <2>2, <2>3
  <1>8. Lists(DOMAIN ent, InFront(k))
    BY <1>4, FrontLists DEF BookInv, Books
  <1>9. Enlarged(k, r, ent, InFront(k), total)
    BY <1>4, <1>5, <1>6, <1>7, <1>8 DEF Enlarged
  <1> QED
    BY <1>2, <1>9 DEF k, r

\* The eviction leaves a list within both limits, and a total that counts it.
LEMMA EvictionAccounts ==
  ASSUME NEW k, NEW r, NEW ent, NEW order, NEW total, NEW K,
         Enlarged(k, r, ent, order, total), Evicted(ent, order, total, K)
  PROVE  /\ DOMAIN entries' = K
         /\ bytes' = BytesOf(entries', DOMAIN entries')
         /\ bytes' <= MaxExecutionCacheBytes
         /\ Cardinality(DOMAIN entries') <= PartialExecCacheSize
         /\ Lists(DOMAIN entries', newer')
  <1> DEFINE D == DOMAIN ent
  <1>1. DOMAIN entries' = K /\ \A j \in K : entries'[j] = ent[j]
    BY DEF Evicted, Restrict
  <1>2. Sized(ent, D) /\ K \in SUBSET D /\ D \ K \in SUBSET D
    BY DEF Enlarged, Evicted
  <1>3. Sized(ent, K) /\ Sized(ent, D \ K)
    BY <1>2, SizedWithin
  <1>4. BytesOf(ent, K) \in Nat /\ BytesOf(ent, D \ K) \in Nat
    BY <1>3, BytesOfNat
  <1>5. total = BytesOf(ent, K) + BytesOf(ent, D \ K)
    BY <1>2, BytesOfSplit DEF Enlarged
  <1>6. BytesOf(entries', K) = BytesOf(ent, K)
    <2>1. SameSizes(ent, entries', K)
      BY <1>1 DEF SameSizes
    <2> QED
      BY <1>3, <2>1, BytesOfSame
  <1>7. /\ bytes' = total - BytesOf(ent, D \ K)
        /\ total <= MaxExecutionCacheBytes + BytesOf(ent, D \ K)
        /\ Cardinality(K) <= PartialExecCacheSize
    BY DEF Evicted, Survive, WithinLimits
  <1>8. bytes' = BytesOf(entries', K) /\ bytes' <= MaxExecutionCacheBytes
    <2> HIDE DEF D
    <2> QED
      BY <1>4, <1>5, <1>6, <1>7, CacheAssumption
  <1>9. Lists(K, newer')
    BY <1>2, PartLists DEF Enlarged, Evicted
  <1> QED
    BY <1>1, <1>7, <1>8, <1>9

\* The new entry fits alone, so that it survives.
LEMMA NewSurvives ==
  ASSUME TypeOK, PartialExecCacheSize # 0, NEW k, NEW r, NEW ent, NEW order, NEW total,
         NEW K, Enlarged(k, r, ent, order, total), Evicted(ent, order, total, K),
         r.bytes \in Nat, r.bytes <= MaxExecutionCacheEntryBytes, bytes \in Nat
  PROVE  k \in K
  <1>1. Front({k}, ent, order)
    BY DEF Front, Enlarged, InFront, OrderWithout, Lists
  <1>2. WithinLimits({k}, ent, total)
    <2>1. Cardinality({k}) <= PartialExecCacheSize
      <3>1. Cardinality({k}) = 1
        BY FS_Singleton
      <3>2. PartialExecCacheSize \in Nat
        BY CacheAssumption
      <3> QED
        BY <3>1, <3>2
    <2>2. total <= MaxExecutionCacheBytes + BytesOf(ent, DOMAIN ent \ {k})
      BY CacheAssumption DEF Enlarged
    <2> QED
      BY <2>1, <2>2 DEF WithinLimits
  <1>3. {k} \in SUBSET DOMAIN ent
    BY DEF Enlarged
  <1> QED
    BY <1>1, <1>2, <1>3 DEF Evicted, Survive

\* What goes was behind what stays.
LEMMA OldestGo ==
  ASSUME NEW k, NEW r, NEW ent, NEW order, NEW total, NEW K,
         Books, k \notin DOMAIN entries,
         Enlarged(k, r, ent, order, total), Evicted(ent, order, total, K),
         NEW i \in DOMAIN entries \ K, NEW j \in DOMAIN entries \cap K
  PROVE  <<j, i>> \in newer
  <1>1. i # j /\ i # k /\ j # k
    OBVIOUS
  <1>2. <<i, j>> \notin order
    BY DEF Enlarged, Evicted, Survive, Front
  <1>3. <<i, j>> \notin newer
    BY <1>1, <1>2 DEF Enlarged, InFront, OrderWithout
  <1> QED
    BY <1>1, <1>3 DEF Books, Lists

LEMMA CommitBooks ==
  ASSUME BookInv, NEW c \in Callers, Commit(c)
  PROVE  Books'
  <1>1. CASE Cacheable(c)
    <2>1. PICK ent, order, total, K :
            /\ Enlarged(key[c], result[c], ent, order, total)
            /\ Evicted(ent, order, total, K)
      BY <1>1, CommitEvicts
    <2>2. DOMAIN entries' \subseteq DOMAIN entries \cup {key[c]}
      <3>1. DOMAIN entries' = K
        BY <2>1, EvictionAccounts
      <3>2. K \subseteq DOMAIN entries \cup {key[c]}
        BY <2>1 DEF Enlarged, Evicted
      <3> QED
        BY <3>1, <3>2
    <2>3. DOMAIN pending' = DOMAIN pending \ {key[c]}
      BY <1>1 DEF Commit, Cacheable, Restrict
    <2>4. DOMAIN entries' \cap DOMAIN pending' = {}
      BY <2>2, <2>3 DEF BookInv, Books
    <2> QED
      BY <2>1, <2>4, EvictionAccounts DEF Books
  <1>2. CASE ~Cacheable(c)
    <2>1. UNCHANGED <<entries, newer, bytes>>
      BY <1>2 DEF Commit, cache
    <2>2. DOMAIN pending' \subseteq DOMAIN pending
      BY DEF Commit, Restrict
    <2> QED
      BY <2>1, <2>2 DEF BookInv, Books
  <1> QED
    BY <1>1, <1>2

\* Nothing else touches the list, the maps or the total.
LEMMA OtherBooks ==
  ASSUME BookInv, UNCHANGED <<cache, pending>>
  PROVE  Books'
  BY DEF BookInv, Books, cache

LEMMA CallerBooks ==
  ASSUME BookInv, TypeOK', NEW c \in Callers, CallerStep(c)
  PROVE  Books'
  <1>1. CASE LookupHit(c)
    BY <1>1, HitBooks
  <1>2. CASE LookupWait(c) \/ LookupLead(c)
    BY <1>2, MissBooks
  <1>3. CASE Commit(c)
    BY <1>3, CommitBooks
  <1>4. CASE \/ \E k \in Keys : Call(c, k)
             \/ Cancel(c) \/ Check(c) \/ AnswerHit(c) \/ WaitCanceled(c)
             \/ WaitDone(c) \/ Begin(c) \/ Execute(c) \/ Bypass(c)
    <2>1. UNCHANGED <<cache, pending>>
      BY <1>4 DEF Call, Cancel, Check, AnswerHit, WaitCanceled, WaitDone, Begin,
         Execute, Bypass
    <2> QED
      BY <2>1, OtherBooks
  <1> QED
    BY <1>1, <1>2, <1>3, <1>4 DEF CallerStep

\* A disabled cache is passed by.
LEMMA EnabledKept ==
  ASSUME BookInv, [Next]_vars
  PROVE  Enabled'
  <1> USE DEF BookInv, Enabled, Leading
  <1>1. ASSUME NEW c \in Callers, CallerStep(c) PROVE Enabled'
    <2> DEFINE At == {"lookup", "hit", "wait"} \cup Leading
    <2>1. pc' = [pc EXCEPT ![c] = pc'[c]]
      <3>1. \E label : pc' = [pc EXCEPT ![c] = label]
        <4>1. CASE Cancel(c)
          <5>1. pc' = [pc EXCEPT ![c] = pc[c]]
            BY <4>1 DEF Cancel, FlightInv, TypeOK
          <5> QED
            BY <5>1
        <4>2. CASE ~Cancel(c)
          BY <1>1, <4>2 DEF CallerStep, Call, Check, LookupHit, LookupWait, LookupLead,
             AnswerHit, WaitCanceled, WaitDone, Begin, Execute, Commit, Bypass, Goto, Return
        <4> QED
          BY <4>1, <4>2
      <3> QED
        BY <3>1 DEF FlightInv, TypeOK
    <2>2. pc'[c] \in At => pc[c] \in At \/ PartialExecCacheSize # 0
      BY <1>1 DEF CallerStep, Call, Cancel, Check, Bypassed, LookupHit, LookupWait,
         LookupLead, AnswerHit, WaitCanceled, WaitDone, Begin, Execute, Commit, Bypass,
         Goto, Return, FlightInv, TypeOK, PC
    <2> QED
      BY <2>1, <2>2 DEF FlightInv, TypeOK
  <1>2. ASSUME NEW d \in Documents, InvalidateDocument(d) PROVE Enabled'
    BY <1>2 DEF InvalidateDocument
  <1>3. ASSUME NEW k \in Keys, Expire(k) PROVE Enabled'
    BY <1>3 DEF Expire
  <1>4. CASE UNCHANGED vars
    BY <1>4 DEF vars
  <1> QED
    BY <1>1, <1>2, <1>3, <1>4 DEF Next

LEMMA InitBookInv == Init => BookInv
  <1> SUFFICES ASSUME Init PROVE BookInv
    OBVIOUS
  <1>1. FlightInv
    BY InitFlightInv
  <1>2. DOMAIN entries = {} /\ newer = {} /\ bytes = 0
    BY DEF Init
  <1>3. Books
    <2>1. BytesOf(entries, {}) = 0 /\ Cardinality({}) = 0
      BY BytesOfNone, FS_EmptySet
    <2>2. Lists({}, {})
      BY DEF Lists
    <2> QED
      BY <1>2, <2>1, <2>2, CacheAssumption DEF Books
  <1>4. Enabled
    BY DEF Init, Enabled, Leading
  <1> QED
    BY <1>1, <1>3, <1>4 DEF BookInv

LEMMA NextBookInv == BookInv /\ [Next]_vars => BookInv'
  <1> SUFFICES ASSUME BookInv, [Next]_vars PROVE BookInv'
    OBVIOUS
  <1>1. FlightInv' /\ TypeOK'
    BY NextFlightInv DEF BookInv, FlightInv
  <1>2. Books'
    <2>1. CASE UNCHANGED vars
      BY <2>1, OtherBooks DEF vars, cache
    <2> QED
      BY <1>1, <2>1, CallerBooks, InvalidateBooks, ExpireBooks DEF Next
  <1>3. Enabled'
    BY EnabledKept
  <1> QED
    BY <1>1, <1>2, <1>3 DEF BookInv

LEMMA BookInvariant == SafeSpec => []BookInv
  BY InitBookInv, NextBookInv, PTL DEF SafeSpec

\* The list, the maps and the byte total describe the same entries, within both
\* limits, whatever sizes executions report and whenever they are invalidated.
THEOREM TotalsAgree == SafeSpec => []Accounted
  <1>1. BookInv => Accounted
    BY BooksAccount DEF BookInv
  <1> QED
    BY <1>1, BookInvariant, PTL

-----------------------------------------------------------------------------
\* Whatever is nearer the front of the list was used later.
UsedInOrder == \A p \in newer : used[p[2]] < used[p[1]]

\* What is used now comes to the front.
LEMMA UseInOrder ==
  ASSUME TypeOK, UsedInOrder, NEW k \in Keys, newer' \subseteq InFront(k), Use(k)
  PROVE  UsedInOrder'
  <1> SUFFICES ASSUME NEW p \in newer' PROVE used'[p[2]] < used'[p[1]]
    BY DEF UsedInOrder
  <1>1. /\ uses \in Nat /\ used'[k] = uses + 1
        /\ \A j \in Keys : used[j] \in 0..uses
        /\ \A j \in Keys \ {k} : used'[j] = used[j]
    BY DEF TypeOK, Use
  <1>2. CASE p \in OrderWithout({k})
    <2>1. p \in newer /\ p[1] \in Keys \ {k} /\ p[2] \in Keys \ {k}
      BY <1>2 DEF OrderWithout, TypeOK
    <2> QED
      BY <1>1, <2>1 DEF UsedInOrder
  <1>3. CASE p \notin OrderWithout({k})
    <2>1. PICK j \in DOMAIN entries \ {k} : p = <<k, j>>
      BY <1>3 DEF InFront
    <2>2. j \in Keys \ {k} /\ p[1] = k /\ p[2] = j
      BY <2>1 DEF TypeOK
    <2>3. used[j] < uses + 1
      BY <1>1, <2>2
    <2> QED
      BY <1>1, <2>2, <2>3
  <1> QED
    BY <1>2, <1>3

\* What leaves the list leaves the others in order.
LEMMA PartInOrder ==
  ASSUME UsedInOrder, newer' \subseteq newer, UNCHANGED used
  PROVE  UsedInOrder'
  BY DEF UsedInOrder

LEMMA NextUsedInOrder == TypeOK /\ UsedInOrder /\ [Next]_vars => UsedInOrder'
  <1> SUFFICES ASSUME TypeOK, UsedInOrder, [Next]_vars PROVE UsedInOrder'
    OBVIOUS
  <1>1. ASSUME NEW c \in Callers, CallerStep(c) PROVE UsedInOrder'
    <2>1. key[c] \in Keys
      BY DEF TypeOK
    <2>2. CASE LookupHit(c)
      BY <2>1, <2>2, UseInOrder DEF LookupHit, AfterHit
    <2>3. CASE Commit(c) /\ Cacheable(c)
      <3>1. Insert(key[c], result[c])
        BY <2>3 DEF Commit
      <3>2. Use(key[c]) /\ newer' \subseteq InFront(key[c])
        BY <3>1 DEF Insert
      <3> QED
        BY <2>1, <3>2, UseInOrder
    <2>4. CASE LookupWait(c) \/ LookupLead(c)
      BY <2>4, PartInOrder DEF LookupWait, LookupLead, RemoveExpired, OrderWithout, history
    <2>5. CASE \/ \E k \in Keys : Call(c, k)
               \/ Cancel(c) \/ Check(c) \/ AnswerHit(c) \/ WaitCanceled(c)
               \/ WaitDone(c) \/ Begin(c) \/ Execute(c) \/ Bypass(c)
               \/ Commit(c) /\ ~Cacheable(c)
      <3>1. UNCHANGED cache
        BY <2>5 DEF Call, Cancel, Check, AnswerHit, WaitCanceled, WaitDone, Begin,
           Execute, Bypass, Commit
      <3> QED
        BY <3>1, PartInOrder DEF cache, history
    <2> QED
      BY <1>1, <2>2, <2>3, <2>4, <2>5 DEF CallerStep
  <1>2. ASSUME NEW d \in Documents, InvalidateDocument(d) PROVE UsedInOrder'
    BY <1>2, PartInOrder DEF InvalidateDocument, OrderWithout, history
  <1>3. ASSUME NEW k \in Keys, Expire(k) PROVE UsedInOrder'
    BY <1>3, PartInOrder DEF Expire, history
  <1>4. CASE UNCHANGED vars
    BY <1>4, PartInOrder DEF vars, cache, history
  <1> QED
    BY <1>1, <1>2, <1>3, <1>4 DEF Next

LEMMA UsedInvariant == SafeSpec => []UsedInOrder
  <1>1. Init => UsedInOrder
    BY DEF Init, UsedInOrder
  <1>2. BookInv => TypeOK
    BY DEF BookInv, FlightInv
  <1> QED
    BY <1>1, <1>2, NextUsedInOrder, BookInvariant, PTL DEF SafeSpec

\* What is inserted is cached, and the last insertion or hit of what it evicts
\* came before that of everything that stays.
THEOREM OldestEvicted == SafeSpec => EvictsOldest
  <1> DEFINE Evicts(c) ==
        Commit(c) /\ Cacheable(c) =>
          /\ key[c] \in DOMAIN entries'
          /\ \A j \in DOMAIN entries \ DOMAIN entries' :
               \A k \in DOMAIN entries \cap DOMAIN entries' : used[j] < used[k]
  <1>1. ASSUME BookInv, UsedInOrder, NEW c \in Callers PROVE Evicts(c)
    <2> SUFFICES ASSUME Commit(c), Cacheable(c)
                 PROVE  /\ key[c] \in DOMAIN entries'
                        /\ \A j \in DOMAIN entries \ DOMAIN entries' :
                             \A k \in DOMAIN entries \cap DOMAIN entries' :
                               used[j] < used[k]
      OBVIOUS
    <2>1. PICK ent, order, total, K :
            /\ Enlarged(key[c], result[c], ent, order, total)
            /\ Evicted(ent, order, total, K)
      BY <1>1, CommitEvicts
    <2>2. DOMAIN entries' = K
      BY <2>1, EvictionAccounts
    <2>3. /\ key[c] \notin DOMAIN entries
          /\ result[c].bytes \in Nat
          /\ result[c].bytes <= MaxExecutionCacheEntryBytes
      BY <1>1, InsertsNew
    <2>4. TypeOK /\ Books /\ bytes \in Nat
      BY <1>1, EntriesSized, BytesOfNat DEF BookInv, FlightInv, Books
    <2>5. PartialExecCacheSize # 0
      BY <1>1 DEF BookInv, Enabled, Commit, Leading
    <2>6. key[c] \in K
      BY <2>1, <2>3, <2>4, <2>5, NewSurvives
    <2>7. ASSUME NEW j \in DOMAIN entries \ K, NEW k \in DOMAIN entries \cap K
          PROVE  used[j] < used[k]
      <3>1. <<k, j>> \in newer
        BY <2>1, <2>3, <2>4, OldestGo
      <3>2. used[<<k, j>>[2]] < used[<<k, j>>[1]]
        BY <1>1, <3>1 DEF UsedInOrder
      <3> QED
        BY <3>2
    <2> QED
      BY <2>2, <2>6, <2>7
  <1>2. BookInv /\ UsedInOrder => \A c \in Callers : Evicts(c)
    BY <1>1
  <1>3. BookInv /\ UsedInOrder => [\A c \in Callers : Evicts(c)]_vars
    BY <1>2
  <1> QED
    BY <1>3, BookInvariant, UsedInvariant, PTL DEF EvictsOldest

-----------------------------------------------------------------------------
(***************************************************************************)
(* The cache implements ExecutionService, for any number of callers,       *)
(* documents and keys and every configuration of the cache.                *)
(*                                                                         *)
(* A result a caller holds is no older than its call because it is from    *)
(* its own execution, which is registered after the call, or from the      *)
(* cache, which holds nothing old (NoResurrection).                        *)
(***************************************************************************)

\* What an execution or the cache may give a caller.
Content(r) == r.kind \in {Value, Failure} /\ r.bytes \in Sizes

\* Revisions only grow, so a call is never ahead of its document.
Called == \A c \in Callers : pc[c] # "idle" => since[c] <= CurrentRevision(key[c])

\* What a leader or a hit holds is neither older than the call nor newer than
\* the document ...
Timely ==
  \A c \in Callers : pc[c] \in Leading \cup {"hit"} =>
    since[c] <= result[c].revision /\ result[c].revision <= CurrentRevision(key[c])

\* ... and is a result, or the context of the leader itself is done.
Contents ==
  /\ \A k \in DOMAIN entries : Content(entries[k])
  /\ \A c \in Callers :
       /\ pc[c] = "hit" => Content(result[c])
       /\ pc[c] = "begin" => result[c].kind = Canceled
       /\ pc[c] = "commit" =>
            Content(result[c]) \/ (canceled[c] /\ result[c].kind = Canceled)

ServiceInv == Called /\ Timely /\ Contents

-----------------------------------------------------------------------------
\* The refinement mapping.

active == {c \in Callers : pc[c] # "idle"}

AnswerOf(c) ==
  CASE pc[c] # "idle" -> [kind |-> "none", revision |-> 0, bytes |-> 0]
    [] pc[c] = "idle" /\ result[c].kind = Canceled -> CanceledResult
    [] OTHER -> result[c]

\* What the service may answer.
MayAnswer(c, r) ==
  \/ Content(r) /\ r.revision \in since[c]..CurrentRevision(key[c])
  \/ canceled[c] /\ r.kind = Canceled

LEMMA AnswerCases ==
  ASSUME NEW c \in Callers
  PROVE  /\ pc[c] # "idle" => AnswerOf(c) = Service!NoAnswer
         /\ pc[c] = "idle" /\ result[c].kind = Canceled => AnswerOf(c) = Service!CanceledAnswer
         /\ pc[c] = "idle" /\ result[c].kind # Canceled => AnswerOf(c) = result[c]
  BY DEF AnswerOf, Service!NoAnswer, Service!CanceledAnswer, CanceledResult, Canceled,
         Service!Canceled

\* A step that moves one caller at most, and none to or from idle, is hidden.
LEMMA HiddenStep ==
  ASSUME UNCHANGED <<revision, calls, key, since, canceled>>,
         \A c \in Callers : pc'[c] = "idle" <=> pc[c] = "idle",
         \A c \in Callers : pc[c] = "idle" => result'[c] = result[c]
  PROVE  UNCHANGED Service!vars
<1>1. active' = active
  BY DEF active
<1>2. \A c \in Callers : AnswerOf(c)' = AnswerOf(c)
  BY DEF AnswerOf
<1>3. [c \in Callers |-> AnswerOf(c)]' = [c \in Callers |-> AnswerOf(c)]
  BY <1>2
<1> QED  BY <1>1, <1>3 DEF Service!vars, active, AnswerOf, CanceledResult, Service!CanceledAnswer,
            Service!Canceled, Canceled

-----------------------------------------------------------------------------
\* The invariant.

LEMMA InitServiceInv == Init => ServiceInv
  BY DEF Init, ServiceInv, Called, Timely, Contents, Leading

\* What a caller has to show when it is the only one that moves, the documents
\* stay as they are, and so do the entries or some of them are dropped.
CallerKeeps(c) ==
  /\ pc'[c] # "idle" => since'[c] <= CurrentRevision(key'[c])
  /\ pc'[c] \in Leading \cup {"hit"} =>
       since'[c] <= result'[c].revision /\ result'[c].revision <= CurrentRevision(key'[c])
  /\ pc'[c] = "hit" => Content(result'[c])
  /\ pc'[c] = "begin" => result'[c].kind = Canceled
  /\ pc'[c] = "commit" =>
       Content(result'[c]) \/ (canceled'[c] /\ result'[c].kind = Canceled)

LEMMA CallerMoves ==
  ASSUME ServiceInv, NEW c \in Callers, CallerKeeps(c), revision' = revision,
         \A k \in DOMAIN entries' : Content(entries'[k]),
         \A e \in Callers \ {c} :
           /\ pc'[e] = pc[e] /\ key'[e] = key[e] /\ since'[e] = since[e]
           /\ canceled'[e] = canceled[e] /\ result'[e] = result[e]
  PROVE  ServiceInv'
<1>1. ASSUME NEW e \in Callers
      PROVE  /\ (pc[e] # "idle" => since[e] <= CurrentRevision(key[e]))'
             /\ (pc[e] \in Leading \cup {"hit"} =>
                  /\ since[e] <= result[e].revision
                  /\ result[e].revision <= CurrentRevision(key[e]))'
             /\ (pc[e] = "hit" => Content(result[e]))'
             /\ (pc[e] = "begin" => result[e].kind = Canceled)'
             /\ (pc[e] = "commit" =>
                  Content(result[e]) \/ (canceled[e] /\ result[e].kind = Canceled))'
  <2>1. CASE e = c
    BY <2>1 DEF CallerKeeps, CurrentRevision, Content
  <2>2. CASE e # c
    BY <2>2 DEF ServiceInv, Called, Timely, Contents, CurrentRevision, Content
  <2> QED  BY <2>1, <2>2
<1> QED  BY <1>1 DEF ServiceInv, Called, Timely, Contents, Content

\* Entries that are dropped, or expire, are otherwise what they were.
LEMMA EntriesKept ==
  ASSUME ServiceInv, NEW k, RemoveExpired(k)
  PROVE  \A j \in DOMAIN entries' : Content(entries'[j])
  BY DEF ServiceInv, Contents, RemoveExpired, Dropped, Restrict

LEMMA CallerStepKeeps ==
  ASSUME FlightInv, ServiceInv, NEW c \in Callers, CallerStep(c)
  PROVE  ServiceInv'
<1> USE DEF FlightInv, TypeOK, Goto, Return, cache, CallerKeeps, CurrentRevision
<1>0. /\ key[c] \in Keys /\ DocumentOf[key[c]] \in Documents
      /\ revision[DocumentOf[key[c]]] \in Nat
  BY CacheAssumption
<1>1. \A j \in DOMAIN entries : Content(entries[j])
  BY DEF ServiceInv, Contents
<1>2. /\ pc[c] # "idle" => since[c] <= CurrentRevision(key[c])
      /\ pc[c] \in Leading \cup {"hit"} =>
           since[c] <= result[c].revision /\ result[c].revision <= CurrentRevision(key[c])
      /\ pc[c] = "commit" =>
           Content(result[c]) \/ (canceled[c] /\ result[c].kind = Canceled)
      /\ pc[c] = "hit" => Content(result[c])
      /\ pc[c] = "begin" => result[c].kind = Canceled
  BY DEF ServiceInv, Called, Timely, Contents
<1>3. ASSUME NEW k \in Keys, Call(c, k) PROVE ServiceInv'
  <2>1. revision[DocumentOf[k]] \in Nat
    BY CacheAssumption
  <2>2. CallerKeeps(c)
    BY <1>3, <2>1 DEF Call, Leading
  <2> QED  BY <1>1, <1>3, <2>2, CallerMoves DEF Call
<1>4. CASE Cancel(c)
  <2>1. CallerKeeps(c)
    BY <1>2, <1>4 DEF Cancel
  <2> QED  BY <1>1, <1>4, <2>1, CallerMoves DEF Cancel
<1>5. CASE Check(c) \/ AnswerHit(c) \/ WaitCanceled(c) \/ WaitDone(c)
  <2>1. pc[c] # "idle" /\ pc'[c] \notin Leading \cup {"hit"} /\ key'[c] = key[c]
        /\ since'[c] = since[c] /\ revision' = revision
    BY <1>5 DEF Check, AnswerHit, WaitCanceled, WaitDone, Leading
  <2>2. CallerKeeps(c)
    BY <1>2, <2>1 DEF Leading
  <2> QED  BY <1>1, <1>5, <2>2, CallerMoves DEF Check, AnswerHit, WaitCanceled, WaitDone
<1>6. CASE LookupHit(c)
  <2>1. entries[key[c]].revision = CurrentRevision(key[c]) /\ Content(entries[key[c]])
    BY <1>1, <1>6 DEF LookupHit, Fresh, NoResurrection
  <2>2. /\ result'[c].revision = entries[key[c]].revision
        /\ result'[c].kind = entries[key[c]].kind /\ result'[c].bytes = entries[key[c]].bytes
    BY <1>6 DEF LookupHit
  <2>3. CallerKeeps(c)
    BY <1>0, <1>2, <1>6, <2>1, <2>2 DEF LookupHit, Content
  <2> QED  BY <1>1, <1>6, <2>3, CallerMoves DEF LookupHit
<1>7. CASE LookupWait(c)
  <2>1. CallerKeeps(c)
    BY <1>2, <1>7 DEF LookupWait, Leading
  <2> QED  BY <1>7, <2>1, CallerMoves, EntriesKept DEF LookupWait
<1>8. CASE LookupLead(c)
  <2>1. CallerKeeps(c)
    BY <1>0, <1>2, <1>8 DEF LookupLead
  <2> QED  BY <1>8, <2>1, CallerMoves, EntriesKept DEF LookupLead
<1>9. CASE Begin(c)
  <2>1. result' = result /\ pc[c] = "begin" /\ pc'[c] \in {"commit", "running"}
        /\ (pc'[c] = "commit" => canceled'[c])
    BY <1>9 DEF Begin
  <2>2. CallerKeeps(c)
    BY <1>2, <1>9, <2>1 DEF Begin, Leading
  <2> QED  BY <1>1, <1>9, <2>2, CallerMoves DEF Begin
<1>10. CASE Execute(c)
  <2>1. PICK r \in Outcomes(c) : result' = [result EXCEPT ![c] = r]
    BY <1>10 DEF Execute
  <2>2. r.revision = result[c].revision
        /\ (Content(r) \/ (canceled[c] /\ r.kind = Canceled))
    BY DEF Outcomes, Content
  <2>3. CallerKeeps(c)
    BY <1>2, <1>10, <2>1, <2>2 DEF Execute, Leading
  <2> QED  BY <1>1, <1>10, <2>1, <2>3, CallerMoves DEF Execute
<1>11. CASE Commit(c)
  <2>1. CallerKeeps(c)
    BY <1>11 DEF Commit, Leading
  <2>2. \A k \in DOMAIN entries' : Content(entries'[k])
    <3>1. CASE Cacheable(c)
      <4>1. Insert(key[c], result[c]) /\ Content(result[c])
        BY <1>2, <1>11, <3>1 DEF Commit, Cacheable
      <4> QED  BY <1>1, <4>1 DEF Insert, Restrict, Content
    <3>2. CASE ~Cacheable(c)
      BY <1>1, <1>11, <3>2 DEF Commit
    <3> QED  BY <3>1, <3>2
  <2> QED  BY <1>11, <2>1, <2>2, CallerMoves DEF Commit
<1>12. CASE Bypass(c)
  <2>1. CallerKeeps(c)
    BY <1>12 DEF Bypass, Leading
  <2> QED  BY <1>1, <1>12, <2>1, CallerMoves DEF Bypass
<1> QED
  BY <1>3, <1>4, <1>5, <1>6, <1>7, <1>8, <1>9, <1>10, <1>11, <1>12 DEF CallerStep

LEMMA NextServiceInv ==
  ASSUME FlightInv, ServiceInv, [Next]_vars PROVE ServiceInv'
<1>1. ASSUME NEW c \in Callers, CallerStep(c) PROVE ServiceInv'
  BY <1>1, CallerStepKeeps
<1>2. ASSUME NEW d \in Documents, InvalidateDocument(d) PROVE ServiceInv'
  <2>1. UNCHANGED <<pc, key, since, canceled, result>>
    BY <1>2 DEF InvalidateDocument
  <2>2. ASSUME NEW c \in Callers
        PROVE  /\ CurrentRevision(key[c]) \in Nat /\ CurrentRevision(key[c])' \in Nat
               /\ CurrentRevision(key[c]) <= CurrentRevision(key[c])'
               /\ since[c] \in Nat /\ result[c].revision \in Nat
    BY <1>2, <2>1, CacheAssumption
       DEF InvalidateDocument, CurrentRevision, FlightInv, TypeOK, Result
  <2>3. Called' /\ Timely'
    BY <2>1, <2>2 DEF ServiceInv, Called, Timely
  <2>4. Contents'
    BY <1>2, <2>1 DEF ServiceInv, Contents, Content, InvalidateDocument, Dropped, Restrict
  <2> QED  BY <2>3, <2>4 DEF ServiceInv
<1>3. ASSUME NEW k \in Keys, Expire(k) PROVE ServiceInv'
  <2>1. UNCHANGED <<revision, pc, key, since, canceled, result>>
        /\ DOMAIN entries' = DOMAIN entries
        /\ \A j \in DOMAIN entries :
             entries'[j].kind = entries[j].kind /\ entries'[j].bytes = entries[j].bytes
    BY <1>3 DEF Expire, Fresh, FlightInv, TypeOK, Entry
  <2> QED
    BY <2>1 DEF ServiceInv, Called, Timely, Contents, Content, CurrentRevision
<1>4. CASE UNCHANGED vars
  BY <1>4 DEF vars, cache, ServiceInv, Called, Timely, Contents, Content, CurrentRevision
<1> QED  BY <1>1, <1>2, <1>3, <1>4 DEF Next

-----------------------------------------------------------------------------
\* The steps of the cache are steps of the service.

LEMMA InitImplements == Init => Service!Init
<1> SUFFICES ASSUME Init PROVE Service!Init
  OBVIOUS
<1>1. (CHOOSE k \in Keys : TRUE) \in Keys
  BY CacheAssumption
<1>2. active = {}
  BY DEF Init, active
<1>3. [c \in Callers |-> AnswerOf(c)] = [c \in Callers |-> Service!CanceledAnswer]
  BY DEF Init, AnswerOf, CanceledResult, Service!CanceledAnswer, Service!Canceled, Canceled
<1> QED
  BY <1>1, <1>2, <1>3
     DEF Init, Service!Init, active, AnswerOf, CanceledResult, Service!CanceledAnswer,
         Service!Canceled, Canceled

\* A caller that returns what it may is answered.
LEMMA AnswerStep ==
  ASSUME TypeOK, NEW c \in Callers, pc[c] # "idle",
         UNCHANGED <<revision, calls, key, since, canceled>>,
         pc' = [pc EXCEPT ![c] = "idle"],
         \A e \in Callers \ {c} : result'[e] = result[e],
         MayAnswer(c, result'[c]), result'[c] \in Result
  PROVE  Service!Answer(c)
<1>1. c \in active /\ active' = active \ {c}
  BY DEF active, TypeOK
<1>2. PICK a \in Service!Answers(c) \cup (IF canceled[c] THEN {Service!CanceledAnswer} ELSE {}) :
        AnswerOf(c)' = a
  <2>1. pc'[c] = "idle"
    BY DEF TypeOK
  <2>2. CASE canceled[c] /\ result'[c].kind = Canceled
    BY <2>1, <2>2 DEF AnswerOf, Service!CanceledAnswer, CanceledResult, Service!Canceled, Canceled
  <2>3. CASE Content(result'[c]) /\ result'[c].revision \in since[c]..CurrentRevision(key[c])
    <3>1. AnswerOf(c)' = result'[c]
      BY <2>1, <2>3 DEF AnswerOf, Content, Value, Failure, Canceled
    <3>2. result'[c] \in Service!Answers(c)
      BY <2>3 DEF Service!Answers, Content, Value, Failure, Result, CurrentRevision
    <3> QED  BY <3>1, <3>2
  <2> QED  BY <2>2, <2>3 DEF MayAnswer, CurrentRevision, Content
<1>3. \A e \in Callers \ {c} : AnswerOf(e)' = AnswerOf(e)
  BY DEF AnswerOf, TypeOK
<1>4. [e \in Callers |-> AnswerOf(e)]' = [[e \in Callers |-> AnswerOf(e)] EXCEPT ![c] = a]
  BY <1>2, <1>3
<1> QED
  BY <1>1, <1>2, <1>4
     DEF Service!Answer, active, AnswerOf, CanceledResult

LEMMA CallImplements ==
  ASSUME TypeOK, NEW c \in Callers, NEW k \in Keys, Call(c, k)
  PROVE  Service!Call(c, k)
<1> USE DEF TypeOK, Goto
<1>1. c \notin active /\ active' = active \cup {c}
  BY DEF Call, active
<1>2. \A e \in Callers \ {c} : AnswerOf(e)' = AnswerOf(e)
  BY DEF Call, AnswerOf, cache
<1>3. AnswerOf(c)' = Service!NoAnswer
  BY DEF Call, AnswerOf, Service!NoAnswer
<1>4. [e \in Callers |-> AnswerOf(e)]'
        = [[e \in Callers |-> AnswerOf(e)] EXCEPT ![c] = Service!NoAnswer]
  BY <1>2, <1>3
<1> QED
  BY <1>1, <1>4
     DEF Call, Service!Call, active, AnswerOf, CanceledResult, CurrentRevision, cache

LEMMA AnswerOfKept ==
  ASSUME UNCHANGED <<pc, result>>
  PROVE  /\ active' = active
         /\ [e \in Callers |-> AnswerOf(e)]' = [e \in Callers |-> AnswerOf(e)]
  BY DEF active, AnswerOf

LEMMA CallerImplements ==
  ASSUME FlightInv, ServiceInv, TypeOK', NEW c \in Callers, CallerStep(c)
  PROVE  Service!Next \/ UNCHANGED Service!vars
<1> USE DEF FlightInv, TypeOK, Goto, Return
<1>1. ASSUME NEW k \in Keys, Call(c, k) PROVE Service!Next
  BY <1>1, CallImplements DEF Service!Next
<1>2. CASE Cancel(c)
  <2>1. UNCHANGED <<pc, result>>
    BY <1>2 DEF Cancel
  <2>2. c \in active
    BY <1>2 DEF Cancel, active
  <2>3. Service!Cancel(c)
    BY <1>2, <2>1, <2>2, AnswerOfKept
       DEF Cancel, Service!Cancel, active, AnswerOf, CanceledResult
  <2> QED  BY <2>3 DEF Service!Next
<1>3. CASE \/ LookupHit(c) \/ LookupWait(c) \/ LookupLead(c) \/ WaitDone(c)
           \/ Begin(c) \/ Execute(c)
  <2>1. /\ UNCHANGED <<revision, calls, key, since, canceled>>
        /\ \A e \in Callers : pc'[e] = "idle" <=> pc[e] = "idle"
        /\ \A e \in Callers : pc[e] = "idle" => result'[e] = result[e]
    BY <1>3 DEF LookupHit, LookupWait, LookupLead, WaitDone, Begin, Execute
  <2> QED  BY <2>1, HiddenStep
<1>4. CASE Check(c)
  <2>1. CASE canceled[c]
    <3>1. Service!Answer(c)
      BY <1>4, <2>1, AnswerStep DEF Check, MayAnswer, CanceledResult
    <3> QED  BY <3>1 DEF Service!Next
  <2>2. CASE ~canceled[c]
    <3>1. /\ UNCHANGED <<revision, calls, key, since, canceled, result>>
          /\ \A e \in Callers : pc'[e] = "idle" <=> pc[e] = "idle"
      BY <1>4, <2>2 DEF Check
    <3> QED  BY <3>1, HiddenStep
  <2> QED  BY <2>1, <2>2
<1>5. CASE AnswerHit(c)
  <2>1. /\ Content(result[c]) /\ since[c] <= result[c].revision
        /\ result[c].revision <= CurrentRevision(key[c])
    BY <1>5 DEF AnswerHit, ServiceInv, Contents, Timely
  <2>2. result'[c] = IF canceled[c] THEN CanceledResult ELSE result[c]
    BY <1>5 DEF AnswerHit
  <2>3. UNCHANGED <<revision, calls, key, since, canceled>>
    BY <1>5 DEF AnswerHit
  <2>4. MayAnswer(c, result'[c])
    BY <2>1, <2>2, <2>3, CacheAssumption
       DEF MayAnswer, CanceledResult, Content, CurrentRevision, Result
  <2>5. Service!Answer(c)
    BY <1>5, <2>3, <2>4, AnswerStep DEF AnswerHit
  <2> QED  BY <2>5 DEF Service!Next
<1>6. CASE WaitCanceled(c)
  <2>1. Service!Answer(c)
    BY <1>6, AnswerStep DEF WaitCanceled, MayAnswer, CanceledResult
  <2> QED  BY <2>1 DEF Service!Next
<1>7. CASE Commit(c)
  <2>1. /\ Content(result[c]) \/ (canceled[c] /\ result[c].kind = Canceled)
        /\ since[c] <= result[c].revision
        /\ result[c].revision <= CurrentRevision(key[c])
    BY <1>7 DEF Commit, ServiceInv, Contents, Timely, Leading
  <2>2. UNCHANGED <<revision, calls, key, since, canceled, result>>
    BY <1>7 DEF Commit
  <2>3. MayAnswer(c, result'[c])
    BY <2>1, <2>2, CacheAssumption DEF MayAnswer, Content, CurrentRevision, Result
  <2>4. Service!Answer(c)
    BY <1>7, <2>2, <2>3, AnswerStep DEF Commit
  <2> QED  BY <2>4 DEF Service!Next
<1>8. CASE Bypass(c)
  <2>1. PICK r \in [kind : IF canceled[c] THEN {Canceled} ELSE {Value, Failure},
                    revision : {since[c]}, bytes : Sizes] : Return(c, r)
    BY <1>8 DEF Bypass
  <2>2. UNCHANGED <<revision, calls, key, since, canceled>> /\ pc[c] = "bypass"
    BY <1>8 DEF Bypass
  <2>3. since[c] <= CurrentRevision(key[c])
    BY <2>2 DEF ServiceInv, Called
  <2>4. result'[c] = r
    BY <2>1
  <2>5. MayAnswer(c, result'[c])
    BY <2>1, <2>2, <2>3, <2>4, CacheAssumption DEF MayAnswer, Content, CurrentRevision
  <2>6. Service!Answer(c)
    BY <2>1, <2>2, <2>5, AnswerStep
  <2> QED  BY <2>6 DEF Service!Next
<1> QED
  BY <1>1, <1>2, <1>3, <1>4, <1>5, <1>6, <1>7, <1>8 DEF CallerStep

LEMMA NextImplements ==
  ASSUME FlightInv, ServiceInv, TypeOK', [Next]_vars
  PROVE  [Service!Next]_(Service!vars)
<1>1. ASSUME NEW c \in Callers, CallerStep(c) PROVE [Service!Next]_(Service!vars)
  BY <1>1, CallerImplements
<1>2. ASSUME NEW d \in Documents, InvalidateDocument(d) PROVE Service!Next
  <2>1. Service!Invalidate(d)
    BY <1>2, AnswerOfKept
       DEF InvalidateDocument, Service!Invalidate, active, AnswerOf, CanceledResult
  <2> QED  BY <2>1 DEF Service!Next
<1>3. CASE UNCHANGED vars \/ \E k \in Keys : Expire(k)
  <2>1. UNCHANGED <<revision, calls, pc, key, since, canceled, result>>
    BY <1>3 DEF vars, Expire
  <2> QED  BY <2>1, HiddenStep
<1> QED  BY <1>1, <1>2, <1>3 DEF Next

\* Whatever the cache, the flights and the other callers do, each caller gets
\* what it would get from the service: an answer no older than its call, and a
\* context error only if its own context is done (executor_cache.go:60-144).
THEOREM CacheImplementsService == SafeSpec => ImplementsService
<1>1. FlightInv => TypeOK
  BY DEF FlightInv
<1>2. Init => ServiceInv
  BY InitServiceInv
<1>3. SafeSpec => [](FlightInv /\ ServiceInv)
  BY <1>2, InitFlightInv, NextFlightInv, NextServiceInv, PTL DEF SafeSpec
<1>4. FlightInv /\ FlightInv' /\ ServiceInv /\ [Next]_vars => [Service!Next]_(Service!vars)
  BY <1>1, NextImplements DEF FlightInv
<1> QED
  BY <1>3, <1>4, InitImplements, PTL DEF SafeSpec, ImplementsService, Service!Spec
=============================================================================
