--------------------------- MODULE ExecutionCache ---------------------------
(***************************************************************************)
(* The execution cache of internal/benthos/executor_cache.go: a bounded    *)
(* LRU of preview results, with one execution in flight per key, shared by *)
(* every hover, inlay and lens request of the language server.             *)
(*                                                                         *)
(* Every caller is a goroutine running cachedExecution.  A step is what    *)
(* the goroutine does between two points where another one may run: the    *)
(* critical sections of c.mu are single actions, the checks of ctx.Err()   *)
(* and the execution itself lie outside of them.                           *)
(*                                                                         *)
(* A result is abstracted to its kind, its size, and the revision of its   *)
(* document at which its execution was registered: an execution reads      *)
(* imports and fixtures from disk, so whatever it returns is only as new   *)
(* as that.  InvalidateDocument starts the next revision of a document.    *)
(***************************************************************************)
EXTENDS Naturals, FiniteSets, FiniteSetsExt, Functions

CONSTANTS
  Callers,                     \* goroutines that call cachedExecution
  Documents,                   \* host documents, the unit of invalidation
  Keys,                        \* execution keys: a URI and a content digest
  DocumentOf,                  \* the host whose invalidation drops a key
  Unmarshalable,               \* keys whose sample cannot be digested
  Sizes,                       \* byte sizes an execution may report
  PartialExecCacheSize,        \* config: number of entries, 0 disables
  MaxExecutionCacheBytes,      \* bytes of all entries together
  MaxExecutionCacheEntryBytes, \* bytes of one entry
  MaxCalls,                    \* bound: calls of all callers together
  MaxRevision                  \* bound: invalidations of one document

ASSUME CacheAssumption ==
  /\ IsFiniteSet(Keys) /\ Keys # {}
  /\ DocumentOf \in [Keys -> Documents]
  /\ Unmarshalable \subseteq Keys
  /\ Sizes \subseteq Nat
  /\ PartialExecCacheSize \in Nat
  /\ MaxExecutionCacheBytes \in Nat
  /\ MaxExecutionCacheEntryBytes \in Nat
  /\ MaxExecutionCacheEntryBytes <= MaxExecutionCacheBytes
  /\ MaxCalls \in Nat
  /\ MaxRevision \in Nat

VARIABLES
  entries,   \* map from key to cached entry
  newer,     \* order of the LRU list: <<a, b>> when a is nearer the front
  bytes,     \* running total kept beside the list
  uses,      \* number of uses of entries: insertions and hits (history)
  used,      \* per key, which of them was the last one of it (history)
  pending,   \* map from key to the flight that executes it
  flights,   \* number of flights created, which names the next one
  closed,    \* flights whose done channel is closed
  revision,  \* per document, the number of invalidations (history)
  calls,     \* number of calls made (bounds the model)
  pc,        \* where each caller is
  key,       \* the key of its call
  since,     \* revision of its document when the call began (history)
  canceled,  \* whether its context is done
  flight,    \* the flight it leads or waits for
  result     \* the result it holds or, when idle, returned last

history == <<uses, used>>
cache == <<entries, newer, bytes, history>>
vars == <<cache, pending, flights, closed, revision, calls,
          pc, key, since, canceled, flight, result>>

Value == "value"        \* execute returned a result
Failure == "failure"    \* execute returned an error of the mapping
Canceled == "canceled"  \* a context error

Result == [kind : {Value, Failure, Canceled}, revision : Nat, bytes : Nat]
Entry == [kind : {Value, Failure, Canceled}, revision : Nat, bytes : Nat,
          expired : BOOLEAN]
PC == {"idle", "check", "lookup", "hit", "wait", "begin", "running", "commit",
       "bypass"}
Leading == {"begin", "running", "commit"}

CanceledResult == [kind |-> Canceled, revision |-> 0, bytes |-> 0]

\* Type invariant.  The type of bytes is part of Accounted.
TypeOK ==
  /\ DOMAIN entries \subseteq Keys
  /\ entries \in [DOMAIN entries -> Entry]
  /\ newer \subseteq Keys \X Keys
  /\ uses \in Nat
  /\ used \in [Keys -> 0..uses]
  /\ DOMAIN pending \subseteq Keys
  /\ pending \in [DOMAIN pending -> Nat]
  /\ flights \in Nat
  /\ closed \subseteq 1..flights
  /\ revision \in [Documents -> Nat]
  /\ calls \in Nat
  /\ pc \in [Callers -> PC]
  /\ key \in [Callers -> Keys]
  /\ since \in [Callers -> Nat]
  /\ canceled \in [Callers -> BOOLEAN]
  /\ flight \in [Callers -> Nat]
  /\ result \in [Callers -> Result]

----------------------------------------------------------------------------
\* The list and the maps.

Goto(c, label) == pc' = [pc EXCEPT ![c] = label]

CurrentRevision(k) == revision[DocumentOf[k]]

BytesOf(ent, K) == MapThenSumSet(LAMBDA k : ent[k].bytes, K)

\* removeFrom: the entries, the order and the total without the keys K
Dropped(K) == Restrict(entries, DOMAIN entries \ K)
OrderWithout(K) == {p \in newer : p[1] \notin K /\ p[2] \notin K}
\* Mutant: an entry is removed from the list but stays in the total.
BytesWithoutForgotten(K) == bytes
BytesWithout(K) == bytes - BytesOf(entries, K \cap DOMAIN entries)

\* The order after k is moved, or pushed, to the front of the list.
\* Mutant: a used entry goes to the back.
InFrontReversed(k) ==
  OrderWithout({k}) \cup {<<j, k>> : j \in DOMAIN entries \ {k}}
InFront(k) == OrderWithout({k}) \cup {<<k, j>> : j \in DOMAIN entries \ {k}}

\* The order after a hit on k.
\* Mutant: the list stays as it was inserted.
AsInserted(k) == newer
AfterHit(k) == InFront(k)

\* The history alone: k is used now, whatever the list makes of it.
Use(k) ==
  /\ uses' = uses + 1
  /\ used' = [used EXCEPT ![k] = uses + 1]

\* The keys that survive eviction are the longest front of the list that
\* respects both limits.
Front(K, ent, order) ==
  \A k \in K : \A j \in DOMAIN ent : <<j, k>> \in order => j \in K
WithinLimits(K, ent, total) ==
  /\ Cardinality(K) <= PartialExecCacheSize
  /\ total <= MaxExecutionCacheBytes + BytesOf(ent, DOMAIN ent \ K)
Survive(K, ent, order, total) ==
  /\ Front(K, ent, order) /\ WithinLimits(K, ent, total)
  /\ \A L \in SUBSET DOMAIN ent :
       Front(L, ent, order) /\ WithinLimits(L, ent, total) => L \subseteq K

Fresh(k) == k \in DOMAIN entries /\ ~entries[k].expired

----------------------------------------------------------------------------
\* cachedExecution, one action per stretch of code without a scheduling point.

Return(c, r) ==
  /\ Goto(c, "idle")
  /\ result' = [result EXCEPT ![c] = r]

Call(c, k) ==
  /\ pc[c] = "idle"
  /\ calls < MaxCalls
  /\ Goto(c, "check")
  /\ calls' = calls + 1
  /\ key' = [key EXCEPT ![c] = k]
  /\ since' = [since EXCEPT ![c] = CurrentRevision(k)]
  /\ canceled' = [canceled EXCEPT ![c] = FALSE]
  /\ UNCHANGED <<cache, pending, flights, closed, revision, flight, result>>

\* The edit of a document, its close, a shutdown or the client cancel a request.
Cancel(c) ==
  /\ pc[c] # "idle" /\ ~canceled[c]
  /\ canceled' = [canceled EXCEPT ![c] = TRUE]
  /\ UNCHANGED <<cache, pending, flights, closed, revision, calls, pc, key,
                 since, flight, result>>

Bypassed(k) == PartialExecCacheSize = 0 \/ k \in Unmarshalable

Check(c) ==
  /\ pc[c] = "check"
  /\ IF canceled[c]
     THEN Return(c, CanceledResult)
     ELSE /\ Goto(c, IF Bypassed(key[c]) THEN "bypass" ELSE "lookup")
          /\ UNCHANGED result
  /\ UNCHANGED <<cache, pending, flights, closed, revision, calls, key, since,
                 canceled, flight>>

LookupHit(c) ==
  /\ pc[c] = "lookup"
  /\ Fresh(key[c])
  /\ newer' = AfterHit(key[c])
  /\ Use(key[c])
  /\ result' = [result EXCEPT ![c] = [f \in {"kind", "revision", "bytes"} |->
                                        entries[key[c]][f]]]
  /\ Goto(c, "hit")
  /\ UNCHANGED <<entries, bytes, pending, flights, closed, revision, calls,
                 key, since, canceled, flight>>

\* A miss first removes the entry that has outlived the TTL, if there is one.
RemoveExpired(k) ==
  /\ entries' = Dropped({k})
  /\ newer' = OrderWithout({k})
  /\ bytes' = BytesWithout({k})
  /\ UNCHANGED history

LookupWait(c) ==
  /\ pc[c] = "lookup"
  /\ ~Fresh(key[c])
  /\ RemoveExpired(key[c])
  /\ key[c] \in DOMAIN pending
  /\ flight' = [flight EXCEPT ![c] = pending[key[c]]]
  /\ Goto(c, "wait")
  /\ UNCHANGED <<pending, flights, closed, revision, calls, key, since,
                 canceled, result>>

\* A flight is a new channel.
\* Mutant: the last one is used again.
NextFlightReused == flights
NextFlight == flights + 1

LookupLead(c) ==
  /\ pc[c] = "lookup"
  /\ ~Fresh(key[c])
  /\ RemoveExpired(key[c])
  /\ key[c] \notin DOMAIN pending
  /\ flights' = NextFlight
  /\ flight' = [flight EXCEPT ![c] = NextFlight]
  /\ pending' = [k \in DOMAIN pending \cup {key[c]} |->
                   IF k = key[c] THEN NextFlight ELSE pending[k]]
  /\ result' = [result EXCEPT ![c] = [kind |-> Canceled, bytes |-> 0,
                                      revision |-> CurrentRevision(key[c])]]
  /\ Goto(c, "begin")
  /\ UNCHANGED <<closed, revision, calls, key, since, canceled>>

AnswerHit(c) ==
  /\ pc[c] = "hit"
  /\ Return(c, IF canceled[c] THEN CanceledResult ELSE result[c])
  /\ UNCHANGED <<cache, pending, flights, closed, revision, calls, key, since,
                 canceled, flight>>

\* The select of a waiter: either case when both are ready.  Note that the
\* retry does not look at the context again.
\* Mutant: a plain receive from the channel, deaf to the context.
WaitCanceledDeaf(c) == /\ pc[c] = "wait" /\ FALSE
                       /\ UNCHANGED vars
WaitCanceled(c) ==
  /\ pc[c] = "wait" /\ canceled[c]
  /\ Return(c, CanceledResult)
  /\ UNCHANGED <<cache, pending, flights, closed, revision, calls, key, since,
                 canceled, flight>>

Landed(c) == flight[c] \in closed

WaitDone(c) ==
  /\ pc[c] = "wait" /\ Landed(c)
  /\ Goto(c, "lookup")
  /\ UNCHANGED <<cache, pending, flights, closed, revision, calls, key, since,
                 canceled, flight, result>>

\* executeUncached begins by returning the error of a context already done.
Begin(c) ==
  /\ pc[c] = "begin"
  /\ Goto(c, IF canceled[c] THEN "commit" ELSE "running")
  /\ UNCHANGED <<cache, pending, flights, closed, revision, calls, key, since,
                 canceled, flight, result>>

\* The mapping is parsed and run.  A context that was canceled meanwhile
\* replaces whatever it produced.
Outcomes(c) ==
  [kind : IF canceled[c] THEN {Canceled} ELSE {Value, Failure},
   revision : {result[c].revision},
   bytes : Sizes]

Execute(c) ==
  /\ pc[c] = "running"
  /\ \E r \in Outcomes(c) : result' = [result EXCEPT ![c] = r]
  /\ Goto(c, "commit")
  /\ UNCHANGED <<cache, pending, flights, closed, revision, calls, key, since,
                 canceled, flight>>

\* Invalidation or a later leader may have taken the flight's place.
\* Mutant: any flight of the key is taken for one's own.
CurrentFlightAnybodys(c) == key[c] \in DOMAIN pending
CurrentFlight(c) == key[c] \in DOMAIN pending /\ pending[key[c]] = flight[c]

\* Mutant: the context is not looked at.
CacheableCanceled(c) ==
  CurrentFlight(c) /\ result[c].bytes <= MaxExecutionCacheEntryBytes
Cacheable(c) ==
  /\ CurrentFlight(c)
  /\ ~canceled[c]
  /\ result[c].kind # Canceled
  /\ result[c].bytes <= MaxExecutionCacheEntryBytes

Insert(k, r) ==
  LET ent == [j \in DOMAIN entries \cup {k} |->
                IF j = k
                THEN [kind |-> r.kind, revision |-> r.revision,
                      bytes |-> r.bytes, expired |-> FALSE]
                ELSE entries[j]]
      order == InFront(k)
      total == bytes + r.bytes
  IN  /\ Use(k)
      /\ \E K \in SUBSET DOMAIN ent :
        /\ Survive(K, ent, order, total)
        /\ entries' = Restrict(ent, K)
        /\ newer' = {p \in order : p[1] \in K /\ p[2] \in K}
        /\ bytes' = total - BytesOf(ent, DOMAIN ent \ K)

\* Every leader closes its own channel, whatever became of its flight.
\* Mutant: only a current flight is closed.
ClosedByOwner(c) == IF CurrentFlight(c) THEN closed \cup {flight[c]} ELSE closed
ClosedBy(c) == closed \cup {flight[c]}

Commit(c) ==
  /\ pc[c] = "commit"
  /\ pending' = IF CurrentFlight(c)
                THEN Restrict(pending, DOMAIN pending \ {key[c]})
                ELSE pending
  /\ IF Cacheable(c) THEN Insert(key[c], result[c]) ELSE UNCHANGED cache
  /\ closed' = ClosedBy(c)
  /\ Goto(c, "idle")
  /\ UNCHANGED <<flights, revision, calls, key, since, canceled, flight,
                 result>>

\* The cache is disabled, or the sample has no digest: execute and return.
Bypass(c) ==
  /\ pc[c] = "bypass"
  /\ \E r \in [kind : IF canceled[c] THEN {Canceled} ELSE {Value, Failure},
               revision : {since[c]}, bytes : Sizes] : Return(c, r)
  /\ UNCHANGED <<cache, pending, flights, closed, revision, calls, key, since,
                 canceled, flight>>

----------------------------------------------------------------------------
\* InvalidateDocument, and the clock.

KeysOf(d) == {k \in Keys : DocumentOf[k] = d}

\* The flights an invalidation disowns.
\* Mutant: an invalidation only looks at the entries.
DisownedNone(d) == {}
Disowned(d) == KeysOf(d)

InvalidateDocument(d) ==
  /\ revision[d] < MaxRevision
  /\ revision' = [revision EXCEPT ![d] = @ + 1]
  /\ entries' = Dropped(KeysOf(d))
  /\ newer' = OrderWithout(KeysOf(d))
  /\ bytes' = BytesWithout(KeysOf(d))
  /\ pending' = Restrict(pending, DOMAIN pending \ Disowned(d))
  /\ UNCHANGED <<history, flights, closed, calls, pc, key, since, canceled,
                 flight, result>>

\* PartialExecCacheTTL elapses for an entry.
Expire(k) ==
  /\ Fresh(k)
  /\ entries' = [entries EXCEPT ![k].expired = TRUE]
  /\ UNCHANGED <<newer, bytes, history, pending, flights, closed, revision, calls, pc,
                 key, since, canceled, flight, result>>

----------------------------------------------------------------------------

Init ==
  /\ entries = <<>>
  /\ newer = {}
  /\ bytes = 0
  /\ uses = 0
  /\ used = [k \in Keys |-> 0]
  /\ pending = <<>>
  /\ flights = 0
  /\ closed = {}
  /\ revision = [d \in Documents |-> 0]
  /\ calls = 0
  /\ pc = [c \in Callers |-> "idle"]
  /\ key = [c \in Callers |-> CHOOSE k \in Keys : TRUE]
  /\ since = [c \in Callers |-> 0]
  /\ canceled = [c \in Callers |-> TRUE]
  /\ flight = [c \in Callers |-> 0]
  /\ result = [c \in Callers |-> CanceledResult]

CallerStep(c) ==
  \/ \E k \in Keys : Call(c, k)
  \/ Cancel(c)
  \/ Check(c)
  \/ LookupHit(c)
  \/ LookupWait(c)
  \/ LookupLead(c)
  \/ AnswerHit(c)
  \/ WaitCanceled(c)
  \/ WaitDone(c)
  \/ Begin(c)
  \/ Execute(c)
  \/ Commit(c)
  \/ Bypass(c)

Next ==
  \/ \E c \in Callers : CallerStep(c)
  \/ \E d \in Documents : InvalidateDocument(d)
  \/ \E k \in Keys : Expire(k)

SafeSpec == Init /\ [][Next]_vars

\* Goroutines are scheduled and a mutex is granted; the select of a waiter is
\* one step.
Advance(c) ==
  Check(c) \/ LookupHit(c) \/ LookupWait(c) \/ LookupLead(c) \/ AnswerHit(c)
    \/ WaitCanceled(c) \/ WaitDone(c) \/ Begin(c) \/ Commit(c)

\* Executions may hang: nothing makes Execute or Bypass happen.
Spec == SafeSpec /\ \A c \in Callers : WF_vars(Advance(c))

----------------------------------------------------------------------------
\* Properties.

\* No result is resurrected: an execution that began before the last
\* InvalidateDocument of its document leaves nothing in the cache
\* (executor_cache.go:124-131), so what is cached began after it.
NoResurrection ==
  \A k \in DOMAIN entries : entries[k].revision = CurrentRevision(k)

\* No two goroutines execute one key at the same revision: whoever comes
\* while a flight is current waits for it (executor_cache.go:90-100).
SingleFlight ==
  \A c, e \in Callers :
    /\ c # e /\ key[c] = key[e]
    /\ pc[c] \in Leading /\ pc[e] \in Leading
    => result[c].revision # result[e].revision

\* Whoever waits, waits for a channel that is closed or that a goroutine still
\* on its way to executor_cache.go:133 will close, and a pending key is being
\* executed by one: a disowned flight is not forgotten.
FlightsLand ==
  /\ \A c \in Callers :
       pc[c] = "wait" /\ flight[c] \notin closed =>
         \E e \in Callers : pc[e] \in Leading /\ flight[e] = flight[c]
  /\ \A k \in DOMAIN pending :
       \E e \in Callers :
         pc[e] \in Leading /\ flight[e] = pending[k] /\ key[e] = k

\* The list, the maps and the byte total describe the same entries, and both
\* limits hold whenever the mutex is free (executor_cache.go:119-144).  Without
\* it eviction would call Back on an empty list and remove nil.
Accounted ==
  /\ bytes = BytesOf(entries, DOMAIN entries)
  /\ bytes <= MaxExecutionCacheBytes
  /\ Cardinality(DOMAIN entries) <= PartialExecCacheSize
  /\ \A j, k \in DOMAIN entries : j # k =>
       (<<j, k>> \in newer /\ <<k, j>> \notin newer)
         \/ (<<k, j>> \in newer /\ <<j, k>> \notin newer)
  /\ \A p \in newer :
       {p[1], p[2]} \subseteq DOMAIN entries /\ p[1] # p[2]
  /\ DOMAIN entries \cap DOMAIN pending = {}

\* Eviction gives up the least recently used entries and nothing else: what a
\* commit inserts is cached when it ends, and the last insertion or hit of
\* whatever it evicts came before that of everything it keeps, so a hit has
\* moved its entry (executor_cache.go:80 and 127-131).
EvictsOldest ==
  [][\A c \in Callers : Commit(c) /\ Cacheable(c) =>
       /\ key[c] \in DOMAIN entries'
       /\ \A j \in DOMAIN entries \ DOMAIN entries' :
            \A k \in DOMAIN entries \cap DOMAIN entries' : used[j] < used[k]]_vars

\* The promise to each caller, with the cache and the flights hidden: answers
\* are fresh and no caller is answered with another's cancellation.
Service == INSTANCE ExecutionService WITH
  active <- {c \in Callers : pc[c] # "idle"},
  answer <- [c \in Callers |->
               CASE pc[c] # "idle" -> [kind |-> "none", revision |-> 0,
                                       bytes |-> 0]
                 [] pc[c] = "idle" /\ result[c].kind = Canceled ->
                      CanceledResult
                 [] OTHER -> result[c]]

\* The cache implements the service it stands in front of.
ImplementsService == Service!Spec

\* Every call returns unless its own execution hangs, or it waits for the
\* flight of one that does: no waiter is left behind, and one whose context is
\* done returns even then (executor_cache.go:92-97; executor_cache_test.go:118,
\* TestExecutionCacheSharesInflightWorkAndCancelsWaiters).
HeldUp(c) ==
  \/ pc[c] \in {"running", "bypass"}
  \/ /\ pc[c] = "wait" /\ ~canceled[c]
     /\ \E e \in Callers : pc[e] = "running" /\ flight[e] = flight[c]

EveryCallReturns == \A c \in Callers : []<>(pc[c] = "idle" \/ HeldUp(c))
=============================================================================
