--------------------------- MODULE LifecycleProofs ---------------------------
(***************************************************************************)
(* Proofs about DocumentLifecycle and the outbox it feeds, for any number  *)
(* of documents, requests, parts and generations.                          *)
(*                                                                         *)
(* The invariants build on each other: what the variables hold and who     *)
(* holds a document (TypeInv), what the latest generation of a document    *)
(* stands for (LatestInv), and then what each property needs besides.      *)
(***************************************************************************)
EXTENDS DocumentLifecycle, TLAPS, FiniteSetTheorems, SequenceTheorems

-----------------------------------------------------------------------------
(* The invariants *)

\* The two halves of TypeOK.
EditsTyped ==
  /\ text \in [Hosts -> Nat] /\ sample \in [Hosts -> Nat]
  /\ latest \in [Hosts -> Nat]
  /\ nextVersion \in Nat
  /\ superseded \subseteq Generations
  /\ editing \in Hosts \cup {NoHost}
  /\ source \in [Generations -> Nat]
  /\ base \in [Hosts -> Base]
  /\ exec \in [Hosts -> [Parts -> Nat]]
  /\ trees \subseteq Hosts
  /\ vpc \in [Generations -> VPC]
  /\ vhost \in [Generations -> Hosts \cup {NoHost}]
  /\ vtexts \in [Generations -> SUBSET Nat]
  /\ vsamples \in [Generations -> SUBSET Nat]
  /\ rpc \in [Requests -> RPC]
  /\ rhost \in [Requests -> Hosts \cup {NoHost}]
  /\ rversion \in [Requests -> Nat]

OutboxTyped ==
  /\ DOMAIN outPending \subseteq Hosts
  /\ outPending \in [DOMAIN outPending -> Publication]
  /\ order \in Seq(Hosts)
  /\ wake \in BOOLEAN /\ stopped \in BOOLEAN
  /\ sender \in SenderPC
  /\ sending \in Publication \cup {NoPublication}
  /\ shown \in [Hosts -> Publication]
  /\ lost \in [Hosts -> BOOLEAN]

\* Whoever works for a document knows which one.
Hosted ==
  /\ \A g \in Generations : vpc[g] # "none" => vhost[g] \in Hosts
  /\ \A r \in Requests : rpc[r] # "idle" => rhost[r] \in Hosts

\* Generations are counted, and begin one after the other.
Counted ==
  /\ nextVersion <= MaxGeneration
  /\ editing # NoHost => nextVersion < MaxGeneration
  /\ \A d \in Hosts : latest[d] <= nextVersion
  /\ superseded \subseteq 1..nextVersion
  /\ \A g \in Generations : g > nextVersion => vpc[g] = "none"

\* The sender holds a publication exactly between its two steps, and documents
\* are pending under their own names.
Carried ==
  /\ sender \in {"check", "send"} => sending \in Publication
  /\ sender \notin {"check", "send"} => sending = NoPublication
  /\ \A d \in DOMAIN outPending : outPending[d].host = d

EditsInv == EditsTyped /\ Hosted /\ Counted
OutboxInv == OutboxTyped /\ QueueDrains /\ Carried
TypeInv == EditsInv /\ OutboxInv

\* The latest generation of a document is of the document's sample and, unless
\* an edit is under way, of its text; it is being validated, or was.
Latest(d) ==
  latest[d] # 0 =>
    /\ Open(d)
    /\ sample[d] = latest[d]
    /\ editing # d => text[d] = source[latest[d]]
    /\ latest[d] \notin superseded
    /\ vhost[latest[d]] = d /\ vpc[latest[d]] # "none"

LatestInv ==
  /\ \A d \in Hosts : Latest(d)
  /\ \A d \in Hosts : Open(d) /\ editing # d /\ ~stopped => latest[d] # 0
  /\ editing # NoHost => Open(editing) /\ ~stopped

\* What a base is that was read from one revision.
OfOneRevision(b) ==
  b.of # 0 => b.of \in 1..nextVersion /\ b.texts = {source[b.of]} /\ b.samples = {b.of}

\* A validation that may still publish has read one revision; before its reads
\* it has seen no sample.
Reading(g) ==
  /\ vpc[g] \in {"none", "debounce", "capture"} => vsamples[g] = {}
  /\ vpc[g] = "compute" /\ latest[vhost[g]] = g /\ editing # vhost[g] =>
       vtexts[g] = {source[g]} /\ vsamples[g] \subseteq {g}

CoherentInv ==
  /\ \A g \in Generations : Reading(g)
  /\ \A d \in Hosts : OfOneRevision(base[d])
  /\ \A p \in Publications : OfOneRevision(p.base)

\* The newest publication of a document on its way to the client, or there.
InTransit(d) ==
  d \in DOMAIN outPending \/ (sender \in {"check", "send"} /\ sending.host = d)

Newest(d) ==
  IF d \in DOMAIN outPending THEN outPending[d]
  ELSE IF sender \in {"check", "send"} /\ sending.host = d THEN sending ELSE shown[d]

\* The validation of the latest generation is past its publication.
Validated(d) == latest[d] # 0 /\ vpc[latest[d]] \in {"discard", "done"}

\* The publication clears a document that is closed, and has the diagnostics of
\* an open one that is validated; both are of the generation the sender wants.
Answers(d, p) ==
  /\ ~Open(d) => p.generation = 0 /\ p.base = NoBase /\ p.exec = NoExec
  /\ Validated(d) =>
       p.generation = latest[d] /\ p.base = base[d] /\ p.exec = Shareable(d, exec[d])

Due(d) ==
  ~stopped =>
    /\ Validated(d) => base[d].of = latest[d]
    /\ InTransit(d) \/ ~lost[d] => Answers(d, Newest(d))

SettleInv == \A d \in Hosts : Due(d)

-----------------------------------------------------------------------------
(* The outbox *)

LEMMA TypeHalves == TypeOK <=> EditsTyped /\ OutboxTyped
  BY DEF TypeOK, EditsTyped, OutboxTyped

\* What the queue and the sender hold stays in line.
LEMMA OutboxKept ==
  ASSUME OutboxInv, UNCHANGED <<outbox, stopped>> PROVE OutboxInv'
<1>1. UNCHANGED <<outPending, order, wake, stopped, sender, sending, shown, lost>>
  BY DEF outbox, queue, client
<1> QED
  BY <1>1 DEF OutboxInv, OutboxTyped, QueueDrains, Queued, NeverAsleepOnWork, Carried

\* A publication takes the place of the pending one, or the end of the line.
LEMMA EnqueueStep ==
  ASSUME OutboxInv, NEW d \in Hosts, NEW p \in Publication, p.host = d, Enqueue(d, p),
         UNCHANGED <<sending, client, stopped>>
  PROVE  OutboxInv'
<1> USE DEF OutboxInv, OutboxTyped, Carried, client
<1>1. CASE stopped
  <2>1. UNCHANGED <<outPending, order, wake, sender>>
    BY <1>1 DEF Enqueue, queue
  <2> QED  BY <2>1 DEF QueueDrains, Queued, NeverAsleepOnWork
<1>2. CASE ~stopped
  <2>1. /\ outPending' = [e \in DOMAIN outPending \cup {d} |->
                            IF e = d THEN p ELSE outPending[e]]
        /\ order' = IF d \in DOMAIN outPending THEN order ELSE Append(order, d)
        /\ wake' = TRUE
        /\ sender' = IF sender = "none" THEN "asleep" ELSE sender
    BY <1>2 DEF Enqueue, Replaced, Enlisted, Woken
  <2>2. order' \in Seq(Hosts) /\ sender' \in SenderPC
    BY <2>1 DEF SenderPC
  <2>3. Queued'
    <3>1. CASE d \in DOMAIN outPending
      BY <2>1, <3>1 DEF QueueDrains, Queued
    <3>2. CASE d \notin DOMAIN outPending
      <4>1. /\ DOMAIN order = 1..Len(order) /\ Len(order) \in Nat
            /\ DOMAIN order' = 1..(Len(order) + 1)
            /\ order'[Len(order) + 1] = d
            /\ \A i \in 1..Len(order) : order'[i] = order[i]
        BY <2>1, <3>2
      <4>2. \A i \in DOMAIN order : order[i] \in DOMAIN outPending
        BY DEF QueueDrains, Queued
      <4>3. \A i, j \in DOMAIN order : order[i] = order[j] => i = j
        BY DEF QueueDrains, Queued
      <4>4. ASSUME NEW i \in DOMAIN order', NEW j \in DOMAIN order', order'[i] = order'[j]
            PROVE  i = j
        <5>1. (i = Len(order) + 1 \/ i \in DOMAIN order) /\ (j = Len(order) + 1 \/ j \in DOMAIN order)
          BY <4>1
        <5> QED  BY <3>2, <4>1, <4>2, <4>3, <4>4, <5>1
      <4>5. {order'[i] : i \in DOMAIN order'} = DOMAIN outPending \cup {d}
        <5>1. {order[i] : i \in DOMAIN order} = DOMAIN outPending
          BY DEF QueueDrains, Queued
        <5>2. ASSUME NEW e \in DOMAIN outPending PROVE \E i \in DOMAIN order' : order'[i] = e
          <6>1. PICK i \in DOMAIN order : order[i] = e
            BY <5>1
          <6> QED  BY <4>1, <6>1
        <5>3. \A i \in DOMAIN order' : order'[i] \in DOMAIN outPending \cup {d}
          <6> TAKE i \in DOMAIN order'
          <6>1. i = Len(order) + 1 \/ i \in DOMAIN order
            BY <4>1
          <6> QED  BY <4>1, <4>2, <6>1
        <5>4. Len(order) + 1 \in DOMAIN order'
          BY <4>1
        <5> QED  BY <4>1, <5>2, <5>3, <5>4
      <4> QED  BY <2>1, <4>4, <4>5 DEF Queued
    <3> QED  BY <3>1, <3>2
  <2>4. NeverAsleepOnWork'
    BY <1>2, <2>1 DEF QueueDrains, NeverAsleepOnWork, SenderPC
  <2>5. /\ DOMAIN outPending' \subseteq Hosts
        /\ outPending' \in [DOMAIN outPending' -> Publication]
        /\ \A e \in DOMAIN outPending' : outPending'[e].host = e
    BY <2>1
  <2>6. sender' \in {"check", "send"} <=> sender \in {"check", "send"}
    BY <2>1
  <2> QED  BY <2>1, <2>2, <2>3, <2>4, <2>5, <2>6 DEF QueueDrains
<1> QED  BY <1>1, <1>2 DEF OutboxTyped

\* The stop empties the queue.
LEMMA StopStep ==
  ASSUME OutboxInv, StopOutbox, UNCHANGED <<sending, client>> PROVE OutboxInv'
<1> USE DEF OutboxInv, OutboxTyped, Carried, client
<1>1. /\ stopped' = TRUE /\ DOMAIN outPending' = {} /\ order' = <<>>
      /\ outPending' \in [DOMAIN outPending' -> Publication]
      /\ UNCHANGED <<wake, sender, sending, shown, lost>>
  BY DEF StopOutbox
<1>2. order' \in Seq(Hosts) /\ DOMAIN order' = {}
  BY <1>1
<1>3. QueueDrains'
  BY <1>1, <1>2 DEF QueueDrains, Queued, NeverAsleepOnWork
<1> QED  BY <1>1, <1>2, <1>3

\* The sender takes what is first in line, and writes it or drops it.
LEMMA SenderKeepsLine ==
  ASSUME OutboxInv, SenderStep PROVE OutboxInv'
<1> USE DEF OutboxInv, OutboxTyped, Carried, client, queue, SenderPC
<1>1. CASE SenderWake \/ SenderExit
  <2>1. /\ UNCHANGED <<outPending, order, sending, shown, lost, stopped>>
        /\ sender = "asleep" /\ wake' \in BOOLEAN
        /\ sender' = "next" \/ (sender' = "exited" /\ stopped)
    BY <1>1 DEF SenderWake, SenderExit
  <2>2. Queued' /\ NeverAsleepOnWork'
    BY <2>1 DEF QueueDrains, Queued, NeverAsleepOnWork
  <2> QED  BY <2>1, <2>2 DEF QueueDrains
<1>2. CASE SenderNext /\ order = <<>>
  BY <1>2 DEF SenderNext, QueueDrains, Queued, NeverAsleepOnWork
<1>3. CASE SenderNext /\ order # <<>>
  <2> DEFINE h == Head(order)
  <2>1. /\ sender' = "check" /\ sending' = outPending[h]
        /\ outPending' = [e \in DOMAIN outPending \ {h} |-> outPending[e]]
        /\ order' = Tail(order)
        /\ UNCHANGED <<wake, shown, lost, stopped>>
    BY <1>3 DEF SenderNext, Restrict
  <2>2. /\ Len(order) \in Nat \ {0} /\ DOMAIN order = 1..Len(order)
        /\ order' \in Seq(Hosts) /\ h = order[1]
        /\ DOMAIN order' = 1..(Len(order) - 1)
        /\ \A i \in 1..(Len(order) - 1) : order'[i] = order[i + 1]
    BY <1>3, <2>1
  <2>3. /\ {order[i] : i \in DOMAIN order} = DOMAIN outPending
        /\ \A i, j \in DOMAIN order : order[i] = order[j] => i = j
    BY DEF QueueDrains, Queued
  <2>4. h \in DOMAIN outPending
    <3>1. 1 \in DOMAIN order
      BY <2>2
    <3> QED  BY <2>2, <2>3, <3>1
  <2>5. Queued'
    <3>1. \A i \in DOMAIN order' : i + 1 \in DOMAIN order /\ i + 1 # 1 /\ order'[i] = order[i + 1]
      BY <2>2
    <3>2. \A i, j \in DOMAIN order' : order'[i] = order'[j] => i = j
      <4> TAKE i, j \in DOMAIN order'
      <4>1. order'[i] = order'[j] => i + 1 = j + 1
        BY <2>3, <3>1
      <4> QED  BY <2>2, <4>1
    <3>3. \A i \in DOMAIN order' : order'[i] \in DOMAIN outPending \ {h}
      <4> TAKE i \in DOMAIN order'
      <4>1. 1 \in DOMAIN order
        BY <2>2
      <4> QED  BY <2>2, <2>3, <3>1, <4>1
    <3>4. ASSUME NEW e \in DOMAIN outPending \ {h} PROVE \E i \in DOMAIN order' : order'[i] = e
      <4>1. PICK i \in DOMAIN order : order[i] = e
        BY <2>3
      <4>2. i # 1 /\ i - 1 \in DOMAIN order' /\ (i - 1) + 1 = i
        BY <2>2, <4>1
      <4>3. order'[i - 1] = e
        BY <3>1, <4>1, <4>2
      <4> QED  BY <4>2, <4>3
    <3>5. {order'[i] : i \in DOMAIN order'} = DOMAIN outPending \ {h}
      BY <3>3, <3>4
    <3> QED  BY <2>1, <3>2, <3>5 DEF Queued
  <2>6. NeverAsleepOnWork'
    BY <1>3, <2>1, <2>2 DEF QueueDrains, NeverAsleepOnWork
  <2>7. sending' \in Publication
    BY <2>1, <2>4
  <2>8. /\ DOMAIN outPending' \subseteq Hosts
        /\ outPending' \in [DOMAIN outPending' -> Publication]
        /\ \A e \in DOMAIN outPending' : outPending'[e].host = e
    BY <2>1
  <2> HIDE DEF h
  <2> QED  BY <2>1, <2>2, <2>5, <2>6, <2>7, <2>8 DEF QueueDrains
<1>4. CASE CheckWanted
  BY <1>4 DEF CheckWanted, SenderCheck, QueueDrains, Queued, NeverAsleepOnWork
<1>5. CASE Deliver \/ FailToDeliver
  <2>1. /\ sender = "send" /\ sender' = "next" /\ sending' = NoPublication
        /\ UNCHANGED <<outPending, order, wake, stopped>>
        /\ sending \in Publication
    BY <1>5 DEF Deliver, FailToDeliver
  <2>2. shown' \in [Hosts -> Publication] /\ lost' \in [Hosts -> BOOLEAN]
    BY <1>5, <2>1 DEF Deliver, FailToDeliver
  <2>3. QueueDrains'
    BY <2>1 DEF QueueDrains, Queued, NeverAsleepOnWork
  <2> QED  BY <2>1, <2>2, <2>3
<1> QED  BY <1>1, <1>2, <1>3, <1>4, <1>5 DEF SenderStep

-----------------------------------------------------------------------------
(* The generations that begin *)

\* What beginDocumentVersion does for the hosts D, with the generation each of
\* them gets as its latest one.
Begun(D) ==
  /\ nextVersion' \in nextVersion..MaxGeneration
  /\ \A d \in D :
       /\ latest'[d] \in (nextVersion + 1)..nextVersion'
       /\ sample'[d] = latest'[d] /\ exec'[d] = NoExec
       /\ vpc'[latest'[d]] = "debounce" /\ vhost'[latest'[d]] = d
       /\ source'[latest'[d]] = text[d]
  /\ \A d \in Hosts \ D :
       latest'[d] = latest[d] /\ sample'[d] = sample[d] /\ exec'[d] = exec[d]
  /\ \A g \in Generations :
       \/ \E d \in D : g = latest'[d]
       \/ vpc'[g] = vpc[g] /\ vhost'[g] = vhost[g] /\ source'[g] = source[g]
  /\ superseded' = superseded \cup ({latest[d] : d \in D} \ {0})
  /\ trees' = trees \cup D

BegunTyped ==
  /\ latest' \in [Hosts -> Nat] /\ sample' \in [Hosts -> Nat]
  /\ exec' \in [Hosts -> [Parts -> Nat]]
  /\ source' \in [Generations -> Nat]
  /\ vpc' \in [Generations -> VPC] /\ vhost' \in [Generations -> Hosts \cup {NoHost}]

LEMMA BeginFacts ==
  ASSUME EditsInv, NEW D \in SUBSET Hosts, NEW n \in Nat,
         NEW f \in [D -> (nextVersion + 1)..(nextVersion + n)], IsInjective(f),
         Cardinality(D) = n, nextVersion + n <= MaxGeneration,
         BeginVersions(D, f)
  PROVE  Begun(D) /\ BegunTyped
<1> USE LifecycleAssumption DEF EditsInv, EditsTyped
<1> DEFINE New == {f[d] : d \in D}
           HostOf(g) == CHOOSE d \in D : f[d] = g
<1>1. /\ nextVersion' = nextVersion + n
      /\ latest' = [d \in Hosts |-> IF d \in D THEN f[d] ELSE latest[d]]
      /\ superseded' = superseded \cup UNION {ContextOf(d) : d \in D}
      /\ source' = [g \in Generations |-> IF g \in New THEN text[HostOf(g)] ELSE source[g]]
      /\ sample' = [d \in Hosts |-> IF d \in D THEN f[d] ELSE sample[d]]
      /\ exec' = [d \in Hosts |-> IF d \in D THEN NoExec ELSE exec[d]]
      /\ trees' = trees \cup D
      /\ vpc' = [g \in Generations |-> IF g \in New THEN "debounce" ELSE vpc[g]]
      /\ vhost' = [g \in Generations |-> IF g \in New THEN HostOf(g) ELSE vhost[g]]
  BY DEF BeginVersions, ClearedExec, CanceledContexts
<1>2. \A d, e \in D : f[d] = f[e] => d = e
  BY DEF IsInjective
<1>3. ASSUME NEW d \in D
      PROVE  f[d] \in Generations /\ f[d] \in New /\ HostOf(f[d]) = d
  <2>1. f[d] \in Generations
    BY DEF Generations
  <2>2. HostOf(f[d]) = d
    BY <1>2
  <2> QED  BY <2>1, <2>2
<1>4. \A g \in New : HostOf(g) \in D /\ f[HostOf(g)] = g
  BY <1>3
<1>5. UNION {ContextOf(d) : d \in D} = {latest[d] : d \in D} \ {0}
  BY DEF ContextOf
<1> HIDE DEF New, HostOf
<1>6. Begun(D)
  <2>1. ASSUME NEW d \in D
        PROVE  /\ latest'[d] = f[d] /\ latest'[d] \in (nextVersion + 1)..nextVersion'
               /\ sample'[d] = latest'[d] /\ exec'[d] = NoExec
               /\ vpc'[latest'[d]] = "debounce" /\ vhost'[latest'[d]] = d
               /\ source'[latest'[d]] = text[d]
    BY <1>1, <1>3
  <2>2. \A d \in Hosts \ D :
          latest'[d] = latest[d] /\ sample'[d] = sample[d] /\ exec'[d] = exec[d]
    BY <1>1
  <2>3. ASSUME NEW g \in Generations
        PROVE  \/ \E d \in D : g = latest'[d]
               \/ vpc'[g] = vpc[g] /\ vhost'[g] = vhost[g] /\ source'[g] = source[g]
    <3>1. CASE g \in New
      BY <1>4, <2>1, <3>1
    <3>2. CASE g \notin New
      BY <1>1, <3>2
    <3> QED  BY <3>1, <3>2
  <2>4. nextVersion' \in nextVersion..MaxGeneration
    BY <1>1
  <2> QED  BY <1>1, <1>5, <2>1, <2>2, <2>3, <2>4 DEF Begun
<1>7. BegunTyped
  <2>1. latest' \in [Hosts -> Nat] /\ sample' \in [Hosts -> Nat]
    BY <1>1
  <2>2. NoExec \in [Parts -> Nat]
    BY DEF NoExec
  <2>3. exec' \in [Hosts -> [Parts -> Nat]]
    BY <1>1, <2>2
  <2>4. source' \in [Generations -> Nat] /\ vhost' \in [Generations -> Hosts \cup {NoHost}]
    BY <1>1, <1>4
  <2>5. vpc' \in [Generations -> VPC]
    BY <1>1 DEF VPC
  <2> QED  BY <2>1, <2>3, <2>4, <2>5 DEF BegunTyped
<1> QED  BY <1>6, <1>7

\* An edit begins one generation, a watched file one for each open document.
LEMMA EditBegins ==
  ASSUME EditsInv, NEW d \in Hosts, FinishEdit(d)
  PROVE  Begun({d}) /\ BegunTyped
<1> DEFINE f == [e \in {d} |-> nextVersion + 1]
<1>1. BeginVersions({d}, f) /\ editing = d
  BY DEF FinishEdit
<1>2. nextVersion + 1 <= MaxGeneration /\ nextVersion \in Nat
  BY <1>1, LifecycleAssumption DEF EditsInv, EditsTyped, Counted
<1>3. f \in [{d} -> (nextVersion + 1)..(nextVersion + 1)] /\ IsInjective(f)
  BY <1>2 DEF IsInjective
<1>4. Cardinality({d}) = 1
  BY FS_Singleton
<1> HIDE DEF f
<1> QED  BY <1>1, <1>2, <1>3, <1>4, BeginFacts

LEMMA WatchedFilesBegin ==
  ASSUME EditsInv, DidChangeWatchedFiles
  PROVE  Begun(OpenHosts) /\ BegunTyped
<1>1. PICK f \in [OpenHosts -> (nextVersion + 1)..(nextVersion + Cardinality(OpenHosts))] :
        IsInjective(f) /\ BeginVersions(OpenHosts, f)
  BY DEF DidChangeWatchedFiles
<1>2. OpenHosts \subseteq Hosts
  BY DEF OpenHosts
<1>3. Cardinality(OpenHosts) \in Nat
  BY <1>2, LifecycleAssumption, FS_Subset, FS_CardinalityType
<1>4. nextVersion + Cardinality(OpenHosts) <= MaxGeneration
  BY DEF DidChangeWatchedFiles
<1> QED  BY <1>1, <1>2, <1>3, <1>4, BeginFacts

\* A generation that begins keeps what the variables hold.
LEMMA BegunKeepsTypes ==
  ASSUME EditsInv, NEW D \in SUBSET Hosts, Begun(D), BegunTyped,
         UNCHANGED <<text, base, vtexts, vsamples, rpc, rhost, rversion>>,
         editing' = NoHost
  PROVE  EditsInv'
<1> USE LifecycleAssumption DEF EditsInv, EditsTyped
<1>1. /\ nextVersion' \in nextVersion..MaxGeneration
      /\ \A d \in D : /\ latest'[d] \in (nextVersion + 1)..nextVersion'
                      /\ vhost'[latest'[d]] = d
      /\ \A d \in Hosts \ D : latest'[d] = latest[d]
      /\ \A g \in Generations :
           (\E d \in D : g = latest'[d]) \/ (vpc'[g] = vpc[g] /\ vhost'[g] = vhost[g])
      /\ superseded' = superseded \cup ({latest[d] : d \in D} \ {0})
      /\ trees' = trees \cup D
  BY DEF Begun
<1>2. \A d \in Hosts : latest[d] \in 0..nextVersion
  BY DEF Counted
<1>3. superseded' \subseteq 1..nextVersion
  <2>1. superseded \subseteq 1..nextVersion
    BY DEF Counted
  <2>2. \A d \in D : latest[d] # 0 => latest[d] \in 1..nextVersion
    BY <1>2
  <2>3. ASSUME NEW x \in superseded' PROVE x \in 1..nextVersion
    <3>1. x \in superseded \/ \E d \in D : x = latest[d] /\ x # 0
      BY <1>1, <2>3
    <3> QED  BY <2>1, <2>2, <3>1
  <2> QED  BY <2>3
<1>4. EditsTyped'
  <2>1. superseded' \subseteq Generations
    BY <1>1, <1>3 DEF Generations
  <2>2. nextVersion' \in Nat /\ trees' \subseteq Hosts
    BY <1>1
  <2> QED  BY <2>1, <2>2 DEF BegunTyped
<1>5. Hosted'
  <2>1. ASSUME NEW g \in Generations, vpc'[g] # "none" PROVE vhost'[g] \in Hosts
    BY <1>1, <2>1 DEF Hosted
  <2> QED  BY <2>1 DEF Hosted
<1>6. Counted'
  <2>1. \A d \in Hosts : latest'[d] <= nextVersion'
    <3> TAKE d \in Hosts
    <3>1. d \in D \/ latest'[d] = latest[d]
      BY <1>1
    <3> QED  BY <1>1, <1>2, <3>1
  <2>2. ASSUME NEW g \in Generations, g > nextVersion' PROVE vpc'[g] = "none"
    <3>1. g > nextVersion /\ \A d \in D : g # latest'[d]
      BY <1>1, <2>2 DEF Generations
    <3> QED  BY <1>1, <3>1 DEF Counted
  <2>3. superseded' \subseteq 1..nextVersion'
    BY <1>1, <1>3
  <2> QED  BY <1>1, <2>1, <2>2, <2>3 DEF Counted
<1> QED  BY <1>4, <1>5, <1>6

-----------------------------------------------------------------------------
(* What the variables hold *)

\* What the handlers leave in the outbox are publications.
LEMMA ClearIsPublication ==
  ASSUME NEW d \in Hosts PROVE Clear(d) \in Publication /\ Clear(d).host = d
  BY DEF Clear, Publication, Base, NoBase, NoExec

LEMMA PublicationTyped ==
  ASSUME NEW d \in Hosts, NEW g \in Nat, NEW b \in Base, NEW e \in [Parts -> Nat]
  PROVE  /\ [host |-> d, generation |-> g, base |-> b, exec |-> e] \in Publication
         /\ [host |-> d, generation |-> g, base |-> b, exec |-> e].host = d
  BY DEF Publication

LEMMA ShareableTyped ==
  ASSUME NEW d \in Hosts, NEW e \in [Parts -> Nat] PROVE Shareable(d, e) \in [Parts -> Nat]
  BY DEF Shareable, NoExec

\* The actions that leave the outbox, or begin, end and clear documents.
LEMMA HandlersKeepTypes ==
  ASSUME TypeInv, NEW d \in Hosts, Edit(d) PROVE TypeInv'
<1> USE LifecycleAssumption DEF TypeInv, EditsInv, EditsTyped, edits, validations, requests
<1>1. CASE SetText(d)
  <2>1. OutboxInv'
    BY <1>1, OutboxKept DEF SetText
  <2>2. EditsTyped'
    BY <1>1 DEF SetText
  <2>3. Hosted' /\ Counted'
    BY <1>1 DEF SetText, Unlocked, Hosted, Counted
  <2> QED  BY <2>1, <2>2, <2>3
<1>2. CASE FinishEdit(d)
  <2>1. OutboxInv'
    BY <1>2, OutboxKept DEF FinishEdit
  <2>2. Begun({d}) /\ BegunTyped
    BY <1>2, EditBegins
  <2>3. UNCHANGED <<text, base, vtexts, vsamples, rpc, rhost, rversion>> /\ editing' = NoHost
    BY <1>2 DEF FinishEdit
  <2>4. EditsTyped' /\ Hosted' /\ Counted'
    BY <2>2, <2>3, BegunKeepsTypes
  <2> QED  BY <2>1, <2>4
<1>3. CASE DidClose(d)
  <2>1. Enqueue(d, Clear(d)) /\ UNCHANGED <<sending, client, stopped>>
    BY <1>3 DEF DidClose
  <2>2. OutboxInv'
    BY <2>1, ClearIsPublication, EnqueueStep
  <2>3. NoExec \in [Parts -> Nat] /\ NoBase \in Base
    BY DEF NoExec, NoBase, Base
  <2>4. superseded' = superseded \cup ({latest[d]} \ {0})
    BY <1>3 DEF DidClose, ContextOf
  <2>5. latest[d] # 0 => latest[d] \in 1..nextVersion /\ latest[d] \in Generations
    BY DEF Counted, Generations
  <2>6. EditsTyped'
    BY <1>3, <2>3, <2>4, <2>5 DEF DidClose
  <2>7. Hosted'
    BY <1>3 DEF DidClose, Hosted
  <2>8. Counted'
    <3>1. latest' = [latest EXCEPT ![d] = 0] /\ UNCHANGED <<nextVersion, editing, vpc>>
      BY <1>3 DEF DidClose
    <3>2. superseded' \subseteq 1..nextVersion
      BY <2>4, <2>5 DEF Counted
    <3> QED  BY <3>1, <3>2 DEF Counted
  <2> QED  BY <2>2, <2>6, <2>7, <2>8
<1> QED  BY <1>1, <1>2, <1>3 DEF Edit, DidOpen, DidChange

\* Watched files, the shutdown and the sender.
LEMMA RestKeepTypes ==
  ASSUME TypeInv, DidChangeWatchedFiles \/ Shutdown \/ SenderStep \/ UNCHANGED vars
  PROVE  TypeInv'
<1> USE LifecycleAssumption DEF TypeInv, EditsInv, EditsTyped, edits, validations, requests
<1>1. CASE DidChangeWatchedFiles
  <2>1. OutboxInv'
    BY <1>1, OutboxKept DEF DidChangeWatchedFiles
  <2>2. Begun(OpenHosts) /\ BegunTyped /\ OpenHosts \in SUBSET Hosts
    BY <1>1, WatchedFilesBegin DEF OpenHosts
  <2>3. UNCHANGED <<text, base, vtexts, vsamples, rpc, rhost, rversion>> /\ editing' = NoHost
    BY <1>1 DEF DidChangeWatchedFiles, Unlocked
  <2>4. EditsInv'
    BY <2>2, <2>3, BegunKeepsTypes
  <2> QED  BY <2>1, <2>4
<1>2. CASE Shutdown
  <2>1. OutboxInv'
    BY <1>2, StopStep DEF Shutdown
  <2>2. /\ UNCHANGED <<text, sample, nextVersion, editing, source, base, exec,
                       vpc, vhost, vtexts, vsamples, rpc, rhost, rversion>>
        /\ latest' = [e \in Hosts |-> 0] /\ trees' = {}
        /\ superseded' = superseded \cup UNION {{latest[e]} \ {0} : e \in Hosts}
    BY <1>2 DEF Shutdown, ContextOf
  <2>3. \A e \in Hosts : latest[e] # 0 => latest[e] \in 1..nextVersion
    BY DEF Counted
  <2>4. superseded' \subseteq 1..nextVersion
    <3>1. superseded \subseteq 1..nextVersion
      BY DEF Counted
    <3>2. ASSUME NEW x \in superseded' PROVE x \in 1..nextVersion
      <4>1. x \in superseded \/ \E e \in Hosts : x = latest[e] /\ x # 0
        BY <2>2, <3>2
      <4> QED  BY <2>3, <3>1, <4>1
    <3> QED  BY <3>2
  <2>5. superseded' \subseteq Generations
    BY <2>4 DEF Generations, Counted
  <2>6. EditsTyped'
    BY <2>2, <2>5
  <2>7. Hosted' /\ Counted'
    BY <2>2, <2>4 DEF Hosted, Counted
  <2> QED  BY <2>1, <2>6, <2>7
<1>3. CASE SenderStep
  <2>1. OutboxInv'
    BY <1>3, SenderKeepsLine
  <2>2. UNCHANGED <<edits, base, exec, trees, validations, requests>>
    BY <1>3 DEF SenderStep
  <2>3. EditsTyped' /\ Hosted' /\ Counted'
    BY <2>2 DEF Hosted, Counted
  <2> QED  BY <2>1, <2>3
<1>4. CASE UNCHANGED vars
  <2>1. OutboxInv'
    BY <1>4, OutboxKept DEF vars
  <2>2. EditsTyped' /\ Hosted' /\ Counted'
    BY <1>4 DEF vars, Hosted, Counted
  <2> QED  BY <2>1, <2>2
<1> QED  BY <1>1, <1>2, <1>3, <1>4

\* The validations.
LEMMA ValidationsKeepTypes ==
  ASSUME TypeInv, NEW g \in Generations, Validate(g) PROVE TypeInv'
<1> USE LifecycleAssumption DEF TypeInv, EditsInv, EditsTyped, edits, validations, requests
<1>g. g \in Nat
  BY DEF Generations
<1>1. CASE Debounce(g) \/ Capture(g) \/ Abandon(g) \/ DiscardValidated(g)
  <2>1. OutboxInv'
    BY <1>1, OutboxKept DEF Debounce, Capture, Abandon, DiscardValidated
  <2>2. /\ UNCHANGED <<edits, base, exec, vhost, rpc, rhost, rversion>>
        /\ vpc[g] # "none"
    BY <1>1 DEF Debounce, Capture, Abandon, DiscardValidated
  <2>3. /\ vpc' = [vpc EXCEPT ![g] = vpc'[g]] /\ vpc'[g] \in VPC
        /\ trees' \subseteq Hosts
        /\ vsamples' \in [Generations -> SUBSET Nat]
    BY <1>1 DEF Debounce, Capture, Abandon, DiscardValidated, GotoV, VPC, Discarded
  <2>4. vtexts' \in [Generations -> SUBSET Nat]
    <3>1. CASE Capture(g)
      <4>1. vhost[g] \in Hosts
        BY <2>2 DEF Hosted
      <4> QED  BY <3>1, <4>1 DEF Capture
    <3>2. CASE ~Capture(g)
      BY <1>1, <3>2 DEF Debounce, Abandon, DiscardValidated
    <3> QED  BY <3>1, <3>2
  <2>5. EditsTyped'
    BY <2>2, <2>3, <2>4
  <2>6. Hosted' /\ Counted'
    BY <2>2, <2>3 DEF Hosted, Counted
  <2> QED  BY <2>1, <2>5, <2>6
<1>2. CASE Read(g)
  <2>1. OutboxInv'
    BY <1>2, OutboxKept DEF Read
  <2>2. vhost[g] \in Hosts
    BY <1>2 DEF Read, Hosted
  <2>3. EditsTyped'
    BY <1>2, <2>2 DEF Read, ReadAgain, Parsed
  <2>4. Hosted' /\ Counted'
    BY <1>2 DEF Read, Hosted, Counted
  <2> QED  BY <2>1, <2>3, <2>4
<1>3. CASE Publish(g)
  <2> DEFINE d == vhost[g]
             b == [of |-> g, texts |-> vtexts[g], samples |-> vsamples[g]]
             p == [host |-> d, generation |-> g, base |-> b, exec |-> Shareable(d, exec[d])]
  <2>1. /\ vpc[g] = "compute" /\ vpc' = [vpc EXCEPT ![g] = "discard"]
        /\ UNCHANGED <<edits, exec, trees, vhost, vtexts, vsamples, rpc, rhost, rversion>>
        /\ UNCHANGED <<sending, client, stopped>>
        /\ \/ base' = [base EXCEPT ![d] = b] /\ Enqueue(d, p)
           \/ UNCHANGED <<base, queue, sender>>
    BY <1>3 DEF Publish, GotoV
  <2>2. d \in Hosts
    BY <2>1 DEF Hosted
  <2>3. b \in Base
    BY <1>g DEF Base
  <2>4. p \in Publication /\ p.host = d
    <3>1. Shareable(d, exec[d]) \in [Parts -> Nat]
      BY <2>2, ShareableTyped
    <3> HIDE DEF d, b
    <3> QED  BY <1>g, <2>2, <2>3, <3>1, PublicationTyped
  <2>5. OutboxInv'
    <3> HIDE DEF d, p, b
    <3>1. CASE Enqueue(d, p)
      BY <2>1, <2>2, <2>4, <3>1, EnqueueStep
    <3>2. CASE UNCHANGED <<queue, sender>>
      BY <2>1, <3>2, OutboxKept DEF outbox
    <3> QED  BY <2>1, <3>1, <3>2
  <2>6. base' \in [Hosts -> Base]
    <3> HIDE DEF d, p, b
    <3> QED  BY <2>1, <2>2, <2>3
  <2>7. EditsTyped'
    <3> HIDE DEF d, p, b
    <3> QED  BY <2>1, <2>6 DEF VPC
  <2>8. Hosted' /\ Counted'
    <3> HIDE DEF d, p, b
    <3> QED  BY <2>1 DEF Hosted, Counted
  <2> QED  BY <2>5, <2>7, <2>8
<1> QED  BY <1>1, <1>2, <1>3 DEF Validate

\* The requests.
LEMMA RequestsKeepTypes ==
  ASSUME TypeInv, NEW r \in Requests, Serve(r) PROVE TypeInv'
<1> USE LifecycleAssumption DEF TypeInv, EditsInv, EditsTyped, edits, validations, requests
<1>1. ASSUME NEW d \in Hosts, Snapshot(r, d) PROVE TypeInv'
  <2>1. OutboxInv'
    BY <1>1, OutboxKept DEF Snapshot
  <2>2. EditsTyped'
    BY <1>1 DEF Snapshot, GotoR, RPC
  <2>3. Hosted' /\ Counted'
    BY <1>1 DEF Snapshot, GotoR, Hosted, Counted
  <2> QED  BY <2>1, <2>2, <2>3
<1>2. CASE CancelRequest(r) \/ CheckContext(r) \/ ParseRequested(r) \/ Answer(r)
           \/ DiscardRequested(r)
  <2>1. OutboxInv'
    BY <1>2, OutboxKept DEF CancelRequest, CheckContext, ParseRequested, Answer, DiscardRequested
  <2>2. /\ UNCHANGED <<edits, base, exec, vpc, vhost, vtexts, vsamples>>
        /\ rpc[r] # "idle" /\ rpc' = [rpc EXCEPT ![r] = rpc'[r]] /\ rpc'[r] \in RPC
        /\ \/ UNCHANGED <<rhost, rversion>>
           \/ /\ rpc'[r] = "idle"
              /\ rhost' = [rhost EXCEPT ![r] = NoHost]
              /\ rversion' = [rversion EXCEPT ![r] = 0]
    BY <1>2 DEF CancelRequest, CheckContext, ParseRequested, Answer, DiscardRequested, GotoR, RPC
  <2>3. trees' \subseteq Hosts
    <3>1. rhost[r] \in Hosts
      BY <2>2 DEF Hosted
    <3> QED  BY <1>2, <3>1 DEF CancelRequest, CheckContext, ParseRequested, Answer,
                               DiscardRequested, Parsed, Discarded, ReleasedBy
  <2>4. /\ rhost' \in [Requests -> Hosts \cup {NoHost}] /\ rversion' \in [Requests -> Nat]
        /\ rpc' \in [Requests -> RPC]
    <3>1. CASE UNCHANGED <<rhost, rversion>>
      BY <2>2, <3>1
    <3>2. CASE /\ rhost' = [rhost EXCEPT ![r] = NoHost]
               /\ rversion' = [rversion EXCEPT ![r] = 0]
      <4>1. rpc' \in [Requests -> RPC]
        BY <2>2
      <4> QED  BY <3>2, <4>1
    <3> QED  BY <2>2, <3>1, <3>2
  <2>5. EditsTyped'
    BY <2>2, <2>3, <2>4
  <2>6. Hosted' /\ Counted'
    BY <2>2 DEF Hosted, Counted
  <2> QED  BY <2>1, <2>5, <2>6
<1>3. ASSUME NEW scope \in SUBSET Parts, NEW E \in SUBSET scope, PublishExec(r, scope, E)
      PROVE  TypeInv'
  <2> DEFINE d == rhost[r]
             e == [x \in Parts |-> IF x \in E THEN rversion[r]
                                   ELSE IF x \in scope THEN 0 ELSE exec[d][x]]
             p == [host |-> d, generation |-> rversion[r], base |-> base[d], exec |-> e]
  <2>1. /\ rpc[r] = "evaluate" /\ rpc' = [rpc EXCEPT ![r] = "discard"]
        /\ UNCHANGED <<edits, base, trees, vpc, vhost, vtexts, vsamples, rhost, rversion>>
        /\ UNCHANGED <<sending, client, stopped>>
        /\ exec' = [exec EXCEPT ![d] = e] \/ UNCHANGED exec
        /\ Enqueue(d, p) \/ UNCHANGED <<queue, sender>>
    BY <1>3 DEF PublishExec, GotoR
  <2>2. d \in Hosts
    BY <2>1 DEF Hosted
  <2>3. e \in [Parts -> Nat] /\ base[d] \in Base /\ rversion[r] \in Nat
    BY <2>2
  <2>4. p \in Publication /\ p.host = d
    <3> HIDE DEF d, e
    <3> QED  BY <2>2, <2>3, PublicationTyped
  <2> HIDE DEF d, e, p
  <2>5. OutboxInv'
    <3>1. CASE Enqueue(d, p)
      BY <2>1, <2>2, <2>4, <3>1, EnqueueStep
    <3>2. CASE UNCHANGED <<queue, sender>>
      BY <2>1, <3>2, OutboxKept DEF outbox
    <3> QED  BY <2>1, <3>1, <3>2
  <2>6. exec' \in [Hosts -> [Parts -> Nat]]
    BY <2>1, <2>2, <2>3
  <2>7. EditsTyped'
    BY <2>1, <2>6 DEF RPC
  <2>8. Hosted' /\ Counted'
    BY <2>1 DEF Hosted, Counted
  <2> QED  BY <2>5, <2>7, <2>8
<1> QED  BY <1>1, <1>2, <1>3 DEF Serve

LEMMA TypeInit == Init => TypeInv
<1> SUFFICES ASSUME Init PROVE TypeInv
  OBVIOUS
<1> USE LifecycleAssumption
<1>1. EditsTyped
  BY DEF Init, EditsTyped, NoBase, Base, NoExec, VPC, RPC
<1>2. Hosted /\ Counted
  BY DEF Init, Hosted, Counted
<1>3. OutboxTyped
  <2>1. /\ outPending = [d \in {} |-> 0] /\ order = <<>> /\ wake = FALSE /\ stopped = FALSE
        /\ sender = "none" /\ sending = NoPublication
        /\ shown = [d \in Hosts |-> Clear(d)] /\ lost = [d \in Hosts |-> FALSE]
    BY DEF Init
  <2>2. shown \in [Hosts -> Publication]
    BY <2>1, ClearIsPublication
  <2>3. outPending \in [DOMAIN outPending -> Publication] /\ DOMAIN outPending = {}
    BY <2>1
  <2>4. order \in Seq(Hosts) /\ lost \in [Hosts -> BOOLEAN]
    BY <2>1
  <2>5. /\ wake \in BOOLEAN /\ stopped \in BOOLEAN /\ sender \in SenderPC
        /\ sending \in Publication \cup {NoPublication}
    BY <2>1 DEF SenderPC
  <2> QED  BY <2>2, <2>3, <2>4, <2>5 DEF OutboxTyped
<1>4. QueueDrains /\ Carried
  <2>1. DOMAIN outPending = {} /\ order = <<>> /\ stopped = FALSE /\ sender = "none"
        /\ sending = NoPublication /\ DOMAIN order = {}
    BY DEF Init
  <2> QED  BY <2>1 DEF QueueDrains, Queued, NeverAsleepOnWork, Carried
<1> QED  BY <1>1, <1>2, <1>3, <1>4 DEF TypeInv, EditsInv, OutboxInv

LEMMA TypeStep == TypeInv /\ [Next]_vars => TypeInv'
<1> SUFFICES ASSUME TypeInv, [Next]_vars PROVE TypeInv'
  OBVIOUS
<1>1. ASSUME NEW d \in Hosts, Edit(d) PROVE TypeInv'
  BY <1>1, HandlersKeepTypes
<1>2. ASSUME NEW g \in Generations, Validate(g) PROVE TypeInv'
  BY <1>2, ValidationsKeepTypes
<1>3. ASSUME NEW r \in Requests, Serve(r) PROVE TypeInv'
  BY <1>3, RequestsKeepTypes
<1>4. CASE DidChangeWatchedFiles \/ Shutdown \/ SenderStep \/ UNCHANGED vars
  BY <1>4, RestKeepTypes
<1> QED  BY <1>1, <1>2, <1>3, <1>4 DEF Next

\* What every variable of the documents and of the outbox holds.
THEOREM LifecycleTyped == SafeSpec => []TypeOK
<1>1. TypeInv => TypeOK
  BY TypeHalves DEF TypeInv, EditsInv, OutboxInv
<1> QED  BY TypeInit, TypeStep, <1>1, PTL DEF SafeSpec

\* The outbox neither loses, doubles nor sleeps on a publication.
THEOREM OutboxDrains == SafeSpec => []QueueDrains
<1>1. TypeInv => QueueDrains
  BY DEF TypeInv, OutboxInv
<1> QED  BY TypeInit, TypeStep, <1>1, PTL DEF SafeSpec

-----------------------------------------------------------------------------
(* What the latest generation of a document stands for *)

LEMMA LatestTyped ==
  ASSUME TypeInv, NEW d \in Hosts
  PROVE  latest[d] \in 0..nextVersion /\ (latest[d] # 0 => latest[d] \in Generations)
  BY LifecycleAssumption DEF TypeInv, EditsInv, EditsTyped, Counted, Generations

\* Two documents never share their latest generation.
LEMMA LatestApart ==
  ASSUME TypeInv, LatestInv, NEW d \in Hosts, NEW e \in Hosts, latest[d] # 0, latest[d] = latest[e]
  PROVE  d = e
  BY DEF LatestInv, Latest

\* Steps that edit nothing and start no validation.
LEMMA LatestKept ==
  ASSUME TypeInv, LatestInv, UNCHANGED <<edits, vhost, stopped>>,
         \A g \in Generations : vpc[g] # "none" => vpc'[g] # "none"
  PROVE  LatestInv'
<1>1. UNCHANGED <<text, sample, latest, superseded, editing, source, vhost, stopped>>
  BY DEF edits
<1>2. ASSUME NEW d \in Hosts PROVE Latest(d)'
  <2>1. latest[d] # 0 => latest[d] \in Generations
    BY LatestTyped
  <2> QED  BY <1>1, <2>1 DEF LatestInv, Latest, Open
<1> QED  BY <1>1, <1>2 DEF LatestInv, Open

\* The generations that begin are those of open documents.
LEMMA LatestBegun ==
  ASSUME TypeInv, LatestInv, NEW D \in SUBSET Hosts, Begun(D), ~stopped,
         \A d \in D : Open(d), editing \in D \cup {NoHost}, editing' = NoHost,
         UNCHANGED <<text, stopped>>
  PROVE  LatestInv'
<1> USE LifecycleAssumption
<1>1. nextVersion \in Nat /\ superseded \subseteq 1..nextVersion
  BY DEF TypeInv, EditsInv, EditsTyped, Counted
<1>2. /\ nextVersion' \in Nat
      /\ \A d \in D : /\ latest'[d] \in Nat /\ latest'[d] > nextVersion
                      /\ sample'[d] = latest'[d] /\ source'[latest'[d]] = text[d]
                      /\ vpc'[latest'[d]] = "debounce" /\ vhost'[latest'[d]] = d
      /\ \A d \in Hosts \ D : latest'[d] = latest[d] /\ sample'[d] = sample[d]
      /\ \A g \in Generations :
           \/ \E d \in D : g = latest'[d]
           \/ vpc'[g] = vpc[g] /\ vhost'[g] = vhost[g] /\ source'[g] = source[g]
      /\ superseded' = superseded \cup ({latest[d] : d \in D} \ {0})
  BY <1>1 DEF Begun
<1>3. ASSUME NEW d \in D PROVE Latest(d)'
  <2>1. latest'[d] \notin superseded'
    <3>1. \A e \in D : latest[e] \in 0..nextVersion
      BY LatestTyped
    <3>2. latest'[d] > nextVersion /\ latest'[d] \in Nat
      BY <1>2
    <3> QED  BY <1>1, <1>2, <3>1, <3>2
  <2>2. Open(d)'
    BY DEF Open
  <2>3. /\ sample'[d] = latest'[d] /\ source'[latest'[d]] = text'[d]
        /\ vpc'[latest'[d]] # "none" /\ vhost'[latest'[d]] = d
    BY <1>2
  <2> QED  BY <2>1, <2>2, <2>3 DEF Latest
<1>4. ASSUME NEW d \in Hosts \ D PROVE Latest(d)'
  <2> DEFINE g == latest[d]
  <2>1. latest'[d] = g /\ sample'[d] = sample[d]
    BY <1>2
  <2>2. CASE g = 0
    BY <2>1, <2>2 DEF Latest
  <2>3. CASE g # 0
    <3>1. g \in Generations /\ g \in 0..nextVersion
      BY <2>3, LatestTyped
    <3>2. \A e \in D : latest'[e] # g
      <4> TAKE e \in D
      <4>1. latest'[e] \in Nat /\ latest'[e] > nextVersion
        BY <1>2
      <4> QED  BY <1>1, <3>1, <4>1
    <3>3. vpc'[g] = vpc[g] /\ vhost'[g] = vhost[g] /\ source'[g] = source[g]
      BY <1>2, <3>1, <3>2
    <3>4. /\ Open(d) /\ sample[d] = g /\ text[d] = source[g] /\ g \notin superseded
          /\ vhost[g] = d /\ vpc[g] # "none"
      BY <2>3 DEF LatestInv, Latest
    <3>5. \A e \in D : latest[e] # g
      BY <2>3, LatestApart
    <3>6. g \notin superseded'
      BY <1>2, <3>4, <3>5
    <3> HIDE DEF g
    <3> QED  BY <2>1, <3>3, <3>4, <3>6 DEF Latest, Open
  <2> QED  BY <2>2, <2>3
<1>5. \A d \in Hosts : Open(d)' => latest'[d] # 0
  <2> TAKE d \in Hosts
  <2>1. CASE d \in D
    BY <1>1, <1>2, <2>1
  <2>2. CASE d \notin D
    BY <1>2, <2>2 DEF LatestInv, Open
  <2> QED  BY <2>1, <2>2
<1> QED  BY <1>3, <1>4, <1>5 DEF LatestInv

LEMMA LatestHandlers ==
  ASSUME TypeInv, LatestInv, NEW d \in Hosts, Edit(d) PROVE LatestInv'
<1> USE LifecycleAssumption DEF TypeInv, EditsInv, EditsTyped
<1>1. CASE SetText(d)
  <2>1. /\ editing = NoHost /\ editing' = d /\ ~stopped
        /\ text' = [text EXCEPT ![d] = nextVersion + 1]
        /\ UNCHANGED <<sample, latest, superseded, source, vhost, vpc, stopped>>
    BY <1>1 DEF SetText, Unlocked, validations
  <2>2. Open(d)' /\ \A e \in Hosts \ {d} : text'[e] = text[e]
    BY <2>1 DEF Open
  <2>3. ASSUME NEW e \in Hosts PROVE Latest(e)'
    BY <2>1, <2>2 DEF LatestInv, Latest, Open
  <2> QED  BY <2>1, <2>2, <2>3 DEF LatestInv, Open
<1>2. CASE FinishEdit(d)
  <2>1. Begun({d})
    BY <1>2, EditBegins
  <2>2. editing = d /\ editing' = NoHost /\ UNCHANGED <<text, stopped>>
    BY <1>2 DEF FinishEdit
  <2>3. Open(d) /\ ~stopped
    BY <2>2 DEF LatestInv
  <2>4. {d} \in SUBSET Hosts /\ editing \in {d} \cup {NoHost} /\ \A e \in {d} : Open(e)
    BY <2>2, <2>3
  <2> QED  BY <2>1, <2>2, <2>3, <2>4, LatestBegun
<1>3. CASE DidClose(d)
  <2>1. /\ editing = NoHost
        /\ superseded' = superseded \cup ({latest[d]} \ {0})
        /\ latest' = [latest EXCEPT ![d] = 0]
        /\ text' = [text EXCEPT ![d] = 0]
        /\ sample' = [sample EXCEPT ![d] = 0]
        /\ UNCHANGED <<editing, source, vpc, vhost, stopped>>
    BY <1>3 DEF DidClose, Unlocked, ContextOf, validations
  <2>2. ~Open(d)' /\ latest'[d] = 0
    BY <2>1 DEF Open
  <2>3. ASSUME NEW e \in Hosts \ {d} PROVE Latest(e)'
    <3>1. latest[e] # 0 => latest[d] # latest[e]
      BY LatestApart
    <3> QED  BY <2>1, <3>1 DEF LatestInv, Latest, Open
  <2>4. Latest(d)'
    BY <2>2 DEF Latest
  <2> QED  BY <2>1, <2>2, <2>3, <2>4 DEF LatestInv, Open
<1> QED  BY <1>1, <1>2, <1>3 DEF Edit, DidOpen, DidChange

LEMMA LatestStep == TypeInv /\ LatestInv /\ [Next]_vars => LatestInv'
<1> SUFFICES ASSUME TypeInv, LatestInv, [Next]_vars PROVE LatestInv'
  OBVIOUS
<1>1. ASSUME NEW d \in Hosts, Edit(d) PROVE LatestInv'
  BY <1>1, LatestHandlers
<1>2. CASE DidChangeWatchedFiles
  <2>1. Begun(OpenHosts)
    BY <1>2, WatchedFilesBegin DEF TypeInv
  <2>2. ~stopped /\ editing = NoHost /\ editing' = NoHost /\ UNCHANGED <<text, stopped>>
    BY <1>2 DEF DidChangeWatchedFiles, Unlocked
  <2>3. OpenHosts \in SUBSET Hosts /\ editing \in OpenHosts \cup {NoHost}
    BY <2>2 DEF OpenHosts
  <2>4. \A d \in OpenHosts : Open(d)
    BY DEF OpenHosts
  <2> QED  BY <2>1, <2>2, <2>3, <2>4, LatestBegun
<1>3. CASE Shutdown
  BY <1>3 DEF Shutdown, StopOutbox, Unlocked, LatestInv, Latest
<1>4. ASSUME NEW g \in Generations, Validate(g) PROVE LatestInv'
  <2>1. UNCHANGED <<edits, vhost, stopped>>
    BY <1>4 DEF Validate, Debounce, Capture, Read, Abandon, Publish, DiscardValidated
  <2>2. vpc' = vpc \/ \E pc \in VPC \ {"none"} : vpc' = [vpc EXCEPT ![g] = pc]
    BY <1>4 DEF Validate, Debounce, Capture, Read, Abandon, Publish, DiscardValidated,
                GotoV, VPC
  <2>3. \A h \in Generations : vpc[h] # "none" => vpc'[h] # "none"
    BY <2>2 DEF TypeInv, EditsInv, EditsTyped
  <2> QED  BY <2>1, <2>3, LatestKept
<1>5. ASSUME NEW r \in Requests, Serve(r) PROVE LatestInv'
  <2>1. UNCHANGED <<edits, vpc, vhost, stopped>>
    BY <1>5 DEF Serve, Snapshot, CancelRequest, CheckContext, ParseRequested, Answer,
                PublishExec, DiscardRequested, validations
  <2> QED  BY <2>1, LatestKept
<1>6. CASE SenderStep \/ UNCHANGED vars
  <2>1. UNCHANGED <<edits, vpc, vhost, stopped>>
    BY <1>6 DEF SenderStep, SenderWake, SenderExit, SenderNext, CheckWanted, SenderCheck,
                Deliver, FailToDeliver, vars, validations
  <2> QED  BY <2>1, LatestKept
<1> QED  BY <1>1, <1>2, <1>3, <1>4, <1>5, <1>6 DEF Next

LEMMA LatestInit == Init => LatestInv
  BY LifecycleAssumption DEF Init, LatestInv, Latest, Open

-----------------------------------------------------------------------------
(* Publications, wherever they are *)

\* Every other step leaves the documents, the diagnostics that are kept, and
\* the outbox alone.
Quiet == UNCHANGED <<edits, base, exec, outbox, stopped>>

LEMMA StepKinds ==
  ASSUME [Next]_vars
  PROVE  \/ Quiet
         \/ \E d \in Hosts : SetText(d) \/ FinishEdit(d) \/ DidClose(d)
         \/ DidChangeWatchedFiles \/ Shutdown \/ SenderStep
         \/ \E g \in Generations : Publish(g)
         \/ \E r \in Requests, scope \in SUBSET Parts :
              \E E \in SUBSET scope : PublishExec(r, scope, E)
<1>1. ASSUME NEW g \in Generations, Validate(g) PROVE Publish(g) \/ Quiet
  BY <1>1 DEF Validate, Debounce, Capture, Read, Abandon, DiscardValidated, Quiet
<1>2. ASSUME NEW r \in Requests, Serve(r)
      PROVE  \/ \E scope \in SUBSET Parts : \E E \in SUBSET scope : PublishExec(r, scope, E)
             \/ Quiet
  BY <1>2 DEF Serve, Snapshot, CancelRequest, CheckContext, ParseRequested, Answer,
              DiscardRequested, Quiet
<1>3. UNCHANGED vars => Quiet
  BY DEF vars, Quiet
<1> QED  BY <1>1, <1>2, <1>3 DEF Next, Edit, DidOpen, DidChange

\* A handler adds the publication that it leaves, and no other.
LEMMA EnqueuePublishes ==
  ASSUME TypeInv, NEW d \in Hosts, NEW p, Enqueue(d, p), UNCHANGED <<sending, client>>
  PROVE  Publications' \subseteq Publications \cup {p}
<1>1. UNCHANGED <<sending, shown>>
  BY DEF client
<1>2. \A e \in DOMAIN outPending' :
        outPending'[e] = p \/ (e \in DOMAIN outPending /\ outPending'[e] = outPending[e])
  BY DEF Enqueue, Replaced, queue
<1> QED  BY <1>1, <1>2 DEF Publications

\* The sender moves publications on, and the stop drops them.
LEMMA SenderPublishes ==
  ASSUME TypeInv, SenderStep PROVE Publications' \subseteq Publications
<1> USE DEF TypeInv, OutboxInv, OutboxTyped, client, queue
<1>1. CASE SenderWake \/ SenderExit \/ CheckWanted \/ FailToDeliver \/ (SenderNext /\ order = <<>>)
  <2>1. UNCHANGED <<outPending, shown>> /\ (sending' = sending \/ sending' = NoPublication)
    BY <1>1 DEF SenderWake, SenderExit, CheckWanted, SenderCheck, FailToDeliver, SenderNext
  <2> QED  BY <2>1 DEF Publications
<1>2. CASE SenderNext /\ order # <<>>
  <2>1. 1 \in DOMAIN order /\ Head(order) = order[1]
    BY <1>2
  <2>2. Head(order) \in DOMAIN outPending
    BY <2>1 DEF QueueDrains, Queued
  <2>3. /\ sending' = outPending[Head(order)] /\ shown' = shown
        /\ outPending' = [e \in DOMAIN outPending \ {Head(order)} |-> outPending[e]]
    BY <1>2 DEF SenderNext, Restrict
  <2> QED  BY <2>2, <2>3 DEF Publications
<1>3. CASE Deliver
  <2>1. /\ UNCHANGED outPending /\ sending' = NoPublication
        /\ shown' = [shown EXCEPT ![sending.host] = sending]
        /\ sending \in Publication
    BY <1>3 DEF Deliver, Carried
  <2>2. sending # NoPublication
    BY <2>1, PublicationAssumption
  <2>3. \A d \in Hosts : shown'[d] = shown[d] \/ shown'[d] = sending
    BY <2>1
  <2> QED  BY <2>1, <2>2, <2>3 DEF Publications
<1> QED  BY <1>1, <1>2, <1>3 DEF SenderStep

LEMMA StopPublishes ==
  ASSUME StopOutbox, UNCHANGED <<sending, client>> PROVE Publications' \subseteq Publications
  BY DEF StopOutbox, client, Publications

LEMMA SamePublications == UNCHANGED outbox => Publications' = Publications
  BY DEF outbox, queue, client, Publications

-----------------------------------------------------------------------------
(* Coherent: a published base was read from one revision *)

\* What began keeps the revision that it began with.
LEMMA SourceKept ==
  ASSUME TypeInv, [Next]_vars
  PROVE  /\ nextVersion \in Nat /\ nextVersion' \in Nat /\ nextVersion' >= nextVersion
         /\ \A g \in 1..nextVersion : source'[g] = source[g]
<1> USE LifecycleAssumption DEF TypeInv, EditsInv, EditsTyped
<1>1. ASSUME NEW D \in SUBSET Hosts, Begun(D)
      PROVE  /\ nextVersion' \in Nat /\ nextVersion' >= nextVersion
             /\ \A g \in 1..nextVersion : source'[g] = source[g]
  <2>1. nextVersion' \in Nat /\ nextVersion' >= nextVersion
    BY <1>1 DEF Begun
  <2>2. ASSUME NEW g \in 1..nextVersion PROVE source'[g] = source[g]
    <3>1. g \in Generations /\ \A d \in D : g # latest'[d]
      BY <1>1 DEF Begun, Counted, Generations
    <3> QED  BY <1>1, <3>1 DEF Begun
  <2> QED  BY <2>1, <2>2
<1>2. CASE \E d \in Hosts : FinishEdit(d)
  <2>1. PICK d \in Hosts : FinishEdit(d)
    BY <1>2
  <2>2. Begun({d}) /\ {d} \in SUBSET Hosts
    BY <2>1, EditBegins
  <2> QED  BY <1>1, <2>2
<1>3. CASE DidChangeWatchedFiles
  BY <1>1, <1>3, WatchedFilesBegin DEF OpenHosts
<1>4. CASE UNCHANGED <<nextVersion, source>>
  BY <1>4
<1>5. ASSUME NEW g \in Generations, Validate(g) PROVE UNCHANGED edits
  BY <1>5 DEF Validate, Debounce, Capture, Read, Abandon, Publish, DiscardValidated
<1>6. ASSUME NEW r \in Requests, Serve(r) PROVE UNCHANGED edits
  BY <1>6 DEF Serve, Snapshot, CancelRequest, CheckContext, ParseRequested, Answer,
              PublishExec, DiscardRequested
<1> QED
  BY <1>2, <1>3, <1>4, <1>5, <1>6
  DEF Next, Edit, DidOpen, DidChange, SetText, DidClose, Shutdown, SenderStep, vars, edits

\* What was read from one revision still is.
LEMMA RevisionKept ==
  ASSUME TypeInv, [Next]_vars, NEW b, OfOneRevision(b) PROVE OfOneRevision(b)'
<1>1. /\ nextVersion \in Nat /\ nextVersion' \in Nat /\ nextVersion' >= nextVersion
      /\ \A g \in 1..nextVersion : source'[g] = source[g]
  BY SourceKept
<1> QED  BY <1>1 DEF OfOneRevision

\* The reads of a validation that neither begins nor reads in this step.
LEMMA ReadingKept ==
  ASSUME TypeInv, CoherentInv, NEW g \in Generations,
         UNCHANGED <<latest, editing, source, vhost>>,
         vpc'[g] = vpc[g] \/ vpc'[g] \in {"discard", "done"},
         (vtexts'[g] = vtexts[g] /\ vsamples'[g] = vsamples[g]) \/ vpc'[g] \in {"discard", "done"}
  PROVE  Reading(g)'
  BY DEF CoherentInv, Reading

LEMMA ReadingBegun ==
  ASSUME TypeInv, CoherentInv, NEW D \in SUBSET Hosts, Begun(D),
         editing \in D \cup {NoHost}, UNCHANGED <<vtexts, vsamples>>, NEW g \in Generations
  PROVE  Reading(g)'
<1> USE LifecycleAssumption DEF TypeInv, EditsInv, EditsTyped
<1>1. CASE \E d \in D : g = latest'[d]
  <2>1. PICK d \in D : g = latest'[d]
    BY <1>1
  <2>2. g > nextVersion /\ vpc'[g] = "debounce"
    BY <2>1 DEF Begun
  <2>3. vsamples[g] = {}
    BY <2>2 DEF Counted, CoherentInv, Reading
  <2> QED  BY <2>2, <2>3 DEF Reading
<1>2. CASE ~\E d \in D : g = latest'[d]
  <2>1. vpc'[g] = vpc[g] /\ vhost'[g] = vhost[g] /\ source'[g] = source[g]
    BY <1>2 DEF Begun
  <2>2. vpc[g] = "compute" => vhost[g] \in Hosts
    BY DEF Hosted
  <2>3. vpc[g] = "compute" /\ latest'[vhost[g]] = g => vhost[g] \notin D
    BY <1>2
  <2>4. vpc[g] = "compute" /\ latest'[vhost[g]] = g =>
          latest[vhost[g]] = g /\ editing # vhost[g]
    BY <2>2, <2>3 DEF Begun
  <2> QED  BY <2>1, <2>4 DEF CoherentInv, Reading
<1> QED  BY <1>1, <1>2

\* The steps of a validation, which reads under and outside of the lock.
LEMMA ReadingStep ==
  ASSUME TypeInv, LatestInv, CoherentInv, NEW g \in Generations, Validate(g)
  PROVE  Reading(g)'
<1> USE LifecycleAssumption DEF TypeInv, EditsInv, EditsTyped
<1>0. /\ UNCHANGED <<latest, editing, source, vhost>>
      /\ vpc' = [vpc EXCEPT ![g] = vpc'[g]]
  BY DEF Validate, Debounce, Capture, Read, Abandon, Publish, DiscardValidated, GotoV, edits
<1>1. CASE Debounce(g)
  BY <1>0, <1>1 DEF Debounce, GotoV, CoherentInv, Reading
<1>2. CASE Capture(g)
  <2>1. CASE Open(vhost[g]) /\ latest[vhost[g]] = g
    <3>1. /\ vpc[g] = "capture" /\ editing = NoHost /\ vhost[g] \in Hosts
          /\ vtexts'[g] = {text[vhost[g]]} /\ vsamples'[g] = vsamples[g]
          /\ vpc'[g] = "compute"
      BY <1>2, <2>1 DEF Capture, Unlocked, GotoV, Hosted
    <3>2. vsamples[g] = {}
      BY <3>1 DEF CoherentInv, Reading
    <3>3. text[vhost[g]] = source[g]
      <4>1. g # 0 /\ editing # vhost[g]
        BY <3>1 DEF Generations
      <4> QED  BY <2>1, <3>1, <4>1 DEF LatestInv, Latest
    <3> QED  BY <1>0, <3>1, <3>2, <3>3 DEF Reading
  <2>2. CASE ~(Open(vhost[g]) /\ latest[vhost[g]] = g)
    BY <1>2, <2>2 DEF Capture, GotoV, Reading
  <2> QED  BY <2>1, <2>2
<1>3. CASE Read(g)
  <2>1. /\ vpc[g] = "compute" /\ vpc' = vpc /\ vhost[g] \in Hosts
        /\ vtexts'[g] = vtexts[g] \cup ReadAgain(vhost[g])
        /\ vsamples'[g] = vsamples[g] \cup {sample[vhost[g]]}
    BY <1>3 DEF Read, Hosted
  <2>2. ASSUME latest[vhost[g]] = g, editing # vhost[g]
        PROVE  vtexts'[g] = {source[g]} /\ vsamples'[g] \subseteq {g}
    <3>1. vtexts[g] = {source[g]} /\ vsamples[g] \subseteq {g}
      BY <2>1, <2>2 DEF CoherentInv, Reading
    <3>2. text[vhost[g]] = source[g] /\ sample[vhost[g]] = g
      <4>1. g # 0
        BY DEF Generations
      <4> QED  BY <2>1, <2>2, <4>1 DEF LatestInv, Latest
    <3>3. ReadAgain(vhost[g]) \subseteq {source[g]}
      BY <3>2 DEF ReadAgain
    <3> QED  BY <2>1, <3>1, <3>2, <3>3
  <2> QED  BY <1>0, <2>1, <2>2 DEF Reading
<1>4. CASE Abandon(g) \/ Publish(g) \/ DiscardValidated(g)
  <2>1. vpc'[g] \in {"discard", "done"}
    BY <1>4 DEF Abandon, Publish, DiscardValidated, GotoV
  <2> QED  BY <2>1 DEF Reading
<1> QED  BY <1>1, <1>2, <1>3, <1>4 DEF Validate

LEMMA ReadingAlways ==
  ASSUME TypeInv, LatestInv, CoherentInv, [Next]_vars, NEW h \in Generations
  PROVE  Reading(h)'
<1> USE LifecycleAssumption DEF TypeInv, EditsInv, EditsTyped
<1>1. CASE UNCHANGED <<latest, editing, source, validations>>
  BY <1>1, ReadingKept DEF validations
<1>2. ASSUME NEW d \in Hosts, SetText(d) PROVE Reading(h)'
  <2>1. /\ editing = NoHost
        /\ UNCHANGED <<latest, source, vpc, vhost, vtexts, vsamples>>
    BY <1>2 DEF SetText, Unlocked, validations
  <2>2. vpc[h] = "compute" => vhost[h] \in Hosts
    BY DEF Hosted
  <2> QED  BY <2>1, <2>2 DEF CoherentInv, Reading
<1>3. ASSUME NEW d \in Hosts, FinishEdit(d) PROVE Reading(h)'
  <2>1. Begun({d}) /\ {d} \in SUBSET Hosts
    BY <1>3, EditBegins
  <2>2. editing \in {d} \cup {NoHost} /\ UNCHANGED <<vtexts, vsamples>>
    BY <1>3 DEF FinishEdit
  <2> QED  BY <2>1, <2>2, ReadingBegun
<1>4. CASE DidChangeWatchedFiles
  <2>1. Begun(OpenHosts) /\ OpenHosts \in SUBSET Hosts
    BY <1>4, WatchedFilesBegin DEF OpenHosts
  <2>2. editing \in OpenHosts \cup {NoHost} /\ UNCHANGED <<vtexts, vsamples>>
    BY <1>4 DEF DidChangeWatchedFiles, Unlocked
  <2> QED  BY <2>1, <2>2, ReadingBegun
<1>5. ASSUME NEW d \in Hosts, DidClose(d) PROVE Reading(h)'
  <2>1. /\ latest' = [latest EXCEPT ![d] = 0]
        /\ UNCHANGED <<editing, source, vpc, vhost, vtexts, vsamples>>
    BY <1>5 DEF DidClose, validations
  <2>2. vpc[h] = "compute" => vhost[h] \in Hosts
    BY DEF Hosted
  <2>3. h # 0
    BY DEF Generations
  <2>4. vpc[h] = "compute" /\ latest'[vhost[h]] = h => latest[vhost[h]] = h
    BY <2>1, <2>2, <2>3
  <2> QED  BY <2>1, <2>4 DEF CoherentInv, Reading
<1>6. CASE Shutdown
  <2>1. /\ latest' = [d \in Hosts |-> 0]
        /\ UNCHANGED <<editing, source, vpc, vhost, vtexts, vsamples>>
    BY <1>6 DEF Shutdown, validations
  <2>2. vpc[h] = "compute" => vhost[h] \in Hosts
    BY DEF Hosted
  <2>3. h # 0
    BY DEF Generations
  <2> QED  BY <2>1, <2>2, <2>3 DEF CoherentInv, Reading
<1>7. ASSUME NEW g \in Generations, Validate(g) PROVE Reading(h)'
  <2>1. CASE h = g
    BY <1>7, <2>1, ReadingStep
  <2>2. CASE h # g
    <3>1. UNCHANGED <<latest, editing, source, vhost>>
      BY <1>7 DEF Validate, Debounce, Capture, Read, Abandon, Publish, DiscardValidated, edits
    <3>2. vpc'[h] = vpc[h] /\ vtexts'[h] = vtexts[h] /\ vsamples'[h] = vsamples[h]
      BY <1>7, <2>2
      DEF Validate, Debounce, Capture, Read, Abandon, Publish, DiscardValidated, GotoV
    <3> QED  BY <3>1, <3>2, ReadingKept
  <2> QED  BY <2>1, <2>2
<1>8. ASSUME NEW r \in Requests, Serve(r) PROVE UNCHANGED <<edits, validations>>
  BY <1>8 DEF Serve, Snapshot, CancelRequest, CheckContext, ParseRequested, Answer,
              PublishExec, DiscardRequested
<1>9. SenderStep \/ UNCHANGED vars => UNCHANGED <<edits, validations>>
  BY DEF SenderStep, vars
<1> QED
  BY <1>1, <1>2, <1>3, <1>4, <1>5, <1>6, <1>7, <1>8, <1>9
  DEF Next, Edit, DidOpen, DidChange, edits

\* What a validation publishes, or what a request publishes again.
LEMMA BasesStep ==
  ASSUME TypeInv, LatestInv, CoherentInv, [Next]_vars
  PROVE  /\ \A d \in Hosts : OfOneRevision(base[d])'
         /\ \A p \in Publications' : OfOneRevision(p.base)'
<1> USE LifecycleAssumption
<1>0. ASSUME NEW b, OfOneRevision(b) PROVE OfOneRevision(b)'
  BY <1>0, RevisionKept
<1>1. CASE UNCHANGED base /\ Publications' \subseteq Publications
  <2>1. ASSUME NEW d \in Hosts PROVE OfOneRevision(base[d])'
    <3>1. OfOneRevision(base[d])
      BY DEF CoherentInv
    <3> QED  BY <1>0, <1>1, <3>1 DEF OfOneRevision
  <2>2. ASSUME NEW p \in Publications' PROVE OfOneRevision(p.base)'
    <3>1. OfOneRevision(p.base)
      BY <1>1 DEF CoherentInv
    <3> QED  BY <1>0, <3>1
  <2> QED  BY <2>1, <2>2
<1>2. ASSUME NEW d \in Hosts, NEW q, NEW c, q.base = c,
             c.of # 0 =>
               /\ c.of \in 1..nextVersion'
               /\ c.texts = {source'[c.of]} /\ c.samples = {c.of},
             base' = base \/ base' = [base EXCEPT ![d] = c],
             Publications' \subseteq Publications \cup {q}
      PROVE  /\ \A e \in Hosts : OfOneRevision(base[e])'
             /\ \A p \in Publications' : OfOneRevision(p.base)'
  <2>1. ASSUME NEW e \in Hosts PROVE OfOneRevision(base[e])'
    <3>1. OfOneRevision(base[e])
      BY DEF CoherentInv
    <3>2. base'[e] = base[e] \/ base'[e] = c
      BY <1>2 DEF TypeInv, EditsInv, EditsTyped
    <3> QED  BY <1>0, <1>2, <3>1, <3>2 DEF OfOneRevision
  <2>2. ASSUME NEW p \in Publications' PROVE OfOneRevision(p.base)'
    <3>1. p = q \/ OfOneRevision(p.base)
      BY <1>2 DEF CoherentInv
    <3> QED  BY <1>0, <1>2, <3>1 DEF OfOneRevision
  <2> QED  BY <2>1, <2>2
<1>3. ASSUME NEW d \in Hosts, DidClose(d)
      PROVE  /\ \A e \in Hosts : OfOneRevision(base[e])'
             /\ \A p \in Publications' : OfOneRevision(p.base)'
  <2>1. Publications' \subseteq Publications \cup {Clear(d)}
    BY <1>3, EnqueuePublishes DEF DidClose
  <2>2. Clear(d).base = NoBase /\ NoBase.of = 0
    BY DEF Clear, NoBase
  <2>3. base' = [base EXCEPT ![d] = NoBase]
    BY <1>3 DEF DidClose
  <2> QED  BY <1>2, <2>1, <2>2, <2>3
<1>4. ASSUME NEW g \in Generations, Publish(g)
      PROVE  /\ \A e \in Hosts : OfOneRevision(base[e])'
             /\ \A p \in Publications' : OfOneRevision(p.base)'
  <2> DEFINE d == vhost[g]
             b == [of |-> g, texts |-> vtexts[g], samples |-> vsamples[g]]
             q == [host |-> d, generation |-> g, base |-> b, exec |-> Shareable(d, exec[d])]
  <2>1. /\ vpc[g] = "compute" /\ vsamples[g] # {} /\ editing = NoHost
        /\ UNCHANGED <<sending, client, nextVersion, source>>
        /\ \/ latest[d] = g /\ base' = [base EXCEPT ![d] = b] /\ Enqueue(d, q)
           \/ UNCHANGED <<base, queue, sender>>
    BY <1>4 DEF Publish, Unlocked, StillCurrent, edits
  <2>2. d \in Hosts
    BY <2>1 DEF TypeInv, EditsInv, Hosted
  <2>3. CASE UNCHANGED <<base, queue, sender>>
    <3>1. Publications' = Publications
      BY <2>1, <2>3, SamePublications DEF outbox
    <3> QED  BY <1>1, <2>3, <3>1
  <2>4. CASE latest[d] = g /\ base' = [base EXCEPT ![d] = b] /\ Enqueue(d, q)
    <3>1. editing # d
      BY <2>1, <2>2
    <3>2. vtexts[g] = {source[g]} /\ vsamples[g] = {g}
      BY <2>1, <2>4, <3>1 DEF CoherentInv, Reading
    <3>3. g \in 1..nextVersion
      BY <2>1 DEF TypeInv, EditsInv, EditsTyped, Counted, Generations
    <3>4. /\ b.of \in 1..nextVersion'
          /\ b.texts = {source'[b.of]} /\ b.samples = {b.of}
      BY <2>1, <3>2, <3>3
    <3>5. q.base = b
      OBVIOUS
    <3> HIDE DEF d, b, q
    <3>6. Publications' \subseteq Publications \cup {q}
      BY <2>1, <2>2, <2>4, EnqueuePublishes
    <3> QED  BY <1>2, <2>2, <2>4, <3>4, <3>5, <3>6
  <2> QED  BY <2>1, <2>3, <2>4
<1>5. ASSUME NEW r \in Requests, NEW scope \in SUBSET Parts, NEW E \in SUBSET scope,
             PublishExec(r, scope, E)
      PROVE  /\ \A e \in Hosts : OfOneRevision(base[e])'
             /\ \A p \in Publications' : OfOneRevision(p.base)'
  <2> DEFINE d == rhost[r]
             e == [x \in Parts |-> IF x \in E THEN rversion[r]
                                   ELSE IF x \in scope THEN 0 ELSE exec[d][x]]
             q == [host |-> d, generation |-> rversion[r], base |-> base[d], exec |-> e]
  <2>1. /\ rpc[r] = "evaluate" /\ UNCHANGED <<base, sending, client>>
        /\ Enqueue(d, q) \/ UNCHANGED <<queue, sender>>
    BY <1>5 DEF PublishExec
  <2>2. d \in Hosts
    BY <2>1 DEF TypeInv, EditsInv, Hosted
  <2>3. base[d].of # 0 =>
          /\ base[d].of \in 1..nextVersion'
          /\ base[d].texts = {source'[base[d].of]} /\ base[d].samples = {base[d].of}
    <3>1. OfOneRevision(base[d])
      BY <2>2 DEF CoherentInv
    <3> QED  BY <3>1, <1>0 DEF OfOneRevision
  <2>4. q.base = base[d]
    OBVIOUS
  <2> HIDE DEF d, e, q
  <2>5. CASE UNCHANGED <<queue, sender>>
    <3>1. Publications' = Publications
      BY <2>1, <2>5, SamePublications DEF outbox
    <3> QED  BY <1>1, <2>1, <3>1
  <2>6. CASE Enqueue(d, q)
    <3>1. Publications' \subseteq Publications \cup {q}
      BY <2>1, <2>2, <2>6, EnqueuePublishes
    <3> QED  BY <1>2, <2>1, <2>2, <2>3, <2>4, <3>1
  <2> QED  BY <2>1, <2>5, <2>6
<1>6. CASE Shutdown
  BY <1>1, <1>6, StopPublishes DEF Shutdown
<1>7. CASE SenderStep
  BY <1>1, <1>7, SenderPublishes DEF SenderStep
<1>8. ASSUME NEW d \in Hosts, SetText(d) \/ FinishEdit(d) PROVE UNCHANGED <<base, outbox>>
  BY <1>8 DEF SetText, FinishEdit
<1>9. DidChangeWatchedFiles \/ Quiet => UNCHANGED <<base, outbox>>
  BY DEF DidChangeWatchedFiles, Quiet
<1>10. UNCHANGED <<base, outbox>> => UNCHANGED base /\ Publications' \subseteq Publications
  BY SamePublications
<1> QED
  BY StepKinds, <1>1, <1>3, <1>4, <1>5, <1>6, <1>7, <1>8, <1>9, <1>10

LEMMA CoherentInit == Init => CoherentInv
<1> SUFFICES ASSUME Init PROVE CoherentInv
  OBVIOUS
<1>1. \A g \in Generations : Reading(g)
  BY DEF Init, Reading
<1>2. \A d \in Hosts : OfOneRevision(base[d])
  BY DEF Init, OfOneRevision, NoBase
<1>3. Publications = {Clear(d) : d \in Hosts}
  BY DEF Init, Publications
<1>4. \A p \in Publications : p.base = NoBase
  BY <1>3 DEF Clear
<1> QED  BY <1>1, <1>2, <1>4 DEF CoherentInv, OfOneRevision, NoBase

LEMMA CoherentStep == TypeInv /\ LatestInv /\ CoherentInv /\ [Next]_vars => CoherentInv'
  BY ReadingAlways, BasesStep DEF CoherentInv

\* What is published, and what the next publication of a document repeats, was
\* read from one revision, although the reads are not made under one lock.
THEOREM PublishedCoherent == SafeSpec => []Coherent
<1>1. CoherentInv => Coherent
  BY DEF CoherentInv, OfOneRevision, Coherent
<1> QED
  BY TypeInit, TypeStep, LatestInit, LatestStep, CoherentInit, CoherentStep, <1>1, PTL
  DEF SafeSpec

-----------------------------------------------------------------------------
(* FreshExec: a superseded request never restores execution diagnostics *)

\* What is kept stems from the latest generation, what is published from the
\* generation of its publication.
Fresh(p) == \A x \in Parts : p.exec[x] \in {0, p.generation}

LEMMA FreshInit == Init => FreshExec
<1> SUFFICES ASSUME Init PROVE FreshExec
  OBVIOUS
<1>1. \A d \in Hosts, x \in Parts : exec[d][x] = 0
  BY DEF Init, NoExec
<1>2. Publications = {Clear(d) : d \in Hosts}
  BY DEF Init, Publications
<1>3. \A p \in Publications, x \in Parts : p.exec[x] = 0
  BY <1>2 DEF Clear, NoExec
<1> QED  BY <1>1, <1>3 DEF FreshExec

LEMMA FreshStep == TypeInv /\ LatestInv /\ FreshExec /\ [Next]_vars => FreshExec'
<1> SUFFICES ASSUME TypeInv, LatestInv, FreshExec, [Next]_vars PROVE FreshExec'
  OBVIOUS
<1> USE LifecycleAssumption
<1> DEFINE Kept(d) == \A x \in Parts : exec[d][x] \in {0, latest[d]} \/ stopped
<1>0. (\A d \in Hosts : Kept(d)) /\ (\A p \in Publications : Fresh(p))
  BY DEF FreshExec, Fresh
<1>1. ASSUME \A d \in Hosts : Kept(d)', \A p \in Publications' : Fresh(p) PROVE FreshExec'
  BY <1>1 DEF FreshExec, Fresh
<1>2. CASE UNCHANGED <<exec, latest, stopped>> /\ Publications' \subseteq Publications
  BY <1>0, <1>1, <1>2
<1>3. ASSUME NEW D \in SUBSET Hosts, Begun(D), UNCHANGED <<outbox, stopped>> PROVE FreshExec'
  <2>1. Publications' = Publications
    BY <1>3, SamePublications
  <2>2. ASSUME NEW d \in Hosts PROVE Kept(d)'
    <3>1. \/ exec'[d] = NoExec
          \/ exec'[d] = exec[d] /\ latest'[d] = latest[d]
      BY <1>3 DEF Begun
    <3> QED  BY <1>0, <1>3, <3>1 DEF NoExec
  <2> QED  BY <1>0, <1>1, <2>1, <2>2
<1>4. ASSUME NEW d \in Hosts, FinishEdit(d) PROVE FreshExec'
  <2>1. Begun({d}) /\ {d} \in SUBSET Hosts
    BY <1>4, EditBegins DEF TypeInv
  <2> QED  BY <1>3, <1>4, <2>1 DEF FinishEdit
<1>5. CASE DidChangeWatchedFiles
  <2>1. Begun(OpenHosts) /\ OpenHosts \in SUBSET Hosts
    BY <1>5, WatchedFilesBegin DEF OpenHosts, TypeInv
  <2> QED  BY <1>3, <1>5, <2>1 DEF DidChangeWatchedFiles
<1>6. ASSUME NEW d \in Hosts, DidClose(d) PROVE FreshExec'
  <2>1. /\ exec' = [exec EXCEPT ![d] = NoExec]
        /\ latest' = [latest EXCEPT ![d] = 0]
        /\ UNCHANGED stopped
    BY <1>6 DEF DidClose
  <2>2. Publications' \subseteq Publications \cup {Clear(d)}
    BY <1>6, EnqueuePublishes DEF DidClose
  <2>3. Fresh(Clear(d))
    BY DEF Fresh, Clear, NoExec
  <2>4. ASSUME NEW e \in Hosts PROVE Kept(e)'
    <3>1. \/ exec'[e] = NoExec
          \/ exec'[e] = exec[e] /\ latest'[e] = latest[e]
      BY <2>1 DEF TypeInv, EditsInv, EditsTyped
    <3> QED  BY <1>0, <2>1, <3>1 DEF NoExec
  <2> QED  BY <1>0, <1>1, <2>2, <2>3, <2>4
<1>7. ASSUME NEW g \in Generations, Publish(g) PROVE FreshExec'
  <2> DEFINE d == vhost[g]
             b == [of |-> g, texts |-> vtexts[g], samples |-> vsamples[g]]
             q == [host |-> d, generation |-> g, base |-> b, exec |-> Shareable(d, exec[d])]
  <2>1. /\ vpc[g] = "compute" /\ UNCHANGED <<exec, latest, stopped, sending, client>>
        /\ \/ latest[d] = g /\ ~stopped /\ Enqueue(d, q)
           \/ UNCHANGED <<queue, sender>>
    BY <1>7 DEF Publish, StillCurrent, edits
  <2>2. d \in Hosts
    BY <2>1 DEF TypeInv, EditsInv, Hosted
  <2>3. CASE UNCHANGED <<queue, sender>>
    BY <1>2, <2>1, <2>3, SamePublications DEF outbox
  <2>4. CASE latest[d] = g /\ ~stopped /\ Enqueue(d, q)
    <3>1. \A x \in Parts : Shareable(d, exec[d])[x] \in {0, g}
      BY <1>0, <2>2, <2>4 DEF Shareable, NoExec
    <3>2. Fresh(q)
      BY <3>1 DEF Fresh
    <3>3. Publications' \subseteq Publications \cup {q}
      <4> HIDE DEF d, q
      <4> QED  BY <2>1, <2>2, <2>4, EnqueuePublishes
    <3>4. \A e \in Hosts : Kept(e)'
      BY <1>0, <2>1
    <3> HIDE DEF d, b, q, Kept
    <3> QED  BY <1>0, <1>1, <3>2, <3>3, <3>4
  <2> QED  BY <2>1, <2>3, <2>4
<1>8. ASSUME NEW r \in Requests, NEW scope \in SUBSET Parts, NEW E \in SUBSET scope,
             PublishExec(r, scope, E)
      PROVE  FreshExec'
  <2> DEFINE d == rhost[r]
             e == [x \in Parts |-> IF x \in E THEN rversion[r]
                                   ELSE IF x \in scope THEN 0 ELSE exec[d][x]]
             q == [host |-> d, generation |-> rversion[r], base |-> base[d], exec |-> e]
  <2>1. /\ rpc[r] = "evaluate" /\ UNCHANGED <<latest, stopped, sending, client>>
        /\ \/ /\ latest[d] = rversion[r] /\ ~stopped /\ exec' = [exec EXCEPT ![d] = e]
              /\ Enqueue(d, q) \/ UNCHANGED <<queue, sender>>
           \/ UNCHANGED <<exec, queue, sender>>
    BY <1>8 DEF PublishExec, Publishable, edits
  <2>2. d \in Hosts
    BY <2>1 DEF TypeInv, EditsInv, Hosted
  <2>3. CASE UNCHANGED <<exec, queue, sender>>
    BY <1>2, <2>1, <2>3, SamePublications DEF outbox
  <2>4. CASE /\ latest[d] = rversion[r] /\ ~stopped /\ exec' = [exec EXCEPT ![d] = e]
             /\ Enqueue(d, q) \/ UNCHANGED <<queue, sender>>
    <3>1. \A x \in Parts : e[x] \in {0, latest[d]}
      BY <1>0, <2>2, <2>4
    <3>2. Fresh(q)
      BY <2>4, <3>1 DEF Fresh
    <3>3. ASSUME NEW c \in Hosts PROVE Kept(c)'
      <4> HIDE DEF d, e
      <4>1. exec'[c] = (IF c = d THEN e ELSE exec[c])
        BY <2>2, <2>4 DEF TypeInv, EditsInv, EditsTyped
      <4> QED  BY <1>0, <2>1, <3>1, <4>1
    <3> HIDE DEF d, e, q, Kept
    <3>4. Publications' \subseteq Publications \cup {q}
      <4>1. CASE Enqueue(d, q)
        BY <2>1, <2>2, <4>1, EnqueuePublishes
      <4>2. CASE UNCHANGED <<queue, sender>>
        BY <2>1, <4>2, SamePublications DEF outbox
      <4> QED  BY <2>4, <4>1, <4>2
    <3> QED  BY <1>0, <1>1, <3>2, <3>3, <3>4
  <2> QED  BY <2>1, <2>3, <2>4
<1>9. CASE Shutdown
  <2>1. Publications' \subseteq Publications
    BY <1>9, StopPublishes DEF Shutdown
  <2>2. stopped'
    BY <1>9 DEF Shutdown, StopOutbox
  <2> QED  BY <1>0, <1>1, <2>1, <2>2
<1>10. CASE SenderStep
  <2>1. UNCHANGED <<exec, latest, stopped>>
    BY <1>10 DEF SenderStep, SenderWake, SenderExit, SenderNext, CheckWanted, SenderCheck,
                 Deliver, FailToDeliver, edits
  <2> QED  BY <1>2, <1>10, <2>1, SenderPublishes
<1>11. (\E d \in Hosts : SetText(d)) \/ Quiet =>
         UNCHANGED <<exec, latest, stopped>> /\ Publications' \subseteq Publications
  BY SamePublications DEF SetText, Quiet, edits
<1> QED  BY StepKinds, <1>2, <1>4, <1>5, <1>6, <1>7, <1>8, <1>9, <1>10, <1>11

\* An evaluation that an edit, a sample or a close has superseded neither
\* restores the execution diagnostics it found nor publishes them.
THEOREM ExecutionFresh == SafeSpec => []FreshExec
  BY TypeInit, TypeStep, LatestInit, LatestStep, FreshInit, FreshStep, PTL DEF SafeSpec

-----------------------------------------------------------------------------
(* TreesOwned: somebody will release the syntax tree of a closed document *)

Validating(g, d) == vhost[g] = d /\ vpc[g] \in {"compute", "discard"}
Serving(r, d) == rhost[r] = d /\ rpc[r] \in {"parse", "evaluate", "discard"}
Owned(d) ==
  \/ Open(d)
  \/ \E g \in Generations : Validating(g, d)
  \/ \E r \in Requests : Serving(r, d)

\* Whoever works for a document goes on, and the document stays open.
LEMMA OwnersKept ==
  ASSUME NEW d \in Hosts, Owned(d), Open(d) => Open(d)',
         \A g \in Generations : Validating(g, d) => Validating(g, d)' \/ Open(d)',
         \A r \in Requests : Serving(r, d) => Serving(r, d)' \/ Open(d)'
  PROVE  Owned(d)'
  BY DEF Owned

\* The goroutines that a step does not move are where they were.
LEMMA GoroutineMoves ==
  ASSUME TypeInv
  PROVE  /\ \A g \in Generations : Validate(g) =>
              /\ UNCHANGED <<text, vhost, rpc, rhost, stopped>>
              /\ \A h \in Generations \ {g} : vpc'[h] = vpc[h]
         /\ \A r \in Requests : Serve(r) =>
              /\ UNCHANGED <<text, vpc, vhost, stopped>>
              /\ \A q \in Requests \ {r} : rpc'[q] = rpc[q] /\ rhost'[q] = rhost[q]
<1> USE DEF TypeInv, EditsInv, EditsTyped
<1>1. ASSUME NEW g \in Generations, Validate(g)
      PROVE  /\ UNCHANGED <<text, vhost, rpc, rhost, stopped>>
             /\ \A h \in Generations \ {g} : vpc'[h] = vpc[h]
  <2>1. UNCHANGED <<text, vhost, rpc, rhost, stopped>>
    BY <1>1 DEF Validate, Debounce, Capture, Read, Abandon, Publish, DiscardValidated,
                edits, requests
  <2>2. \A h \in Generations \ {g} : vpc'[h] = vpc[h]
    BY <1>1 DEF Validate, Debounce, Capture, Read, Abandon, Publish, DiscardValidated, GotoV
  <2> QED  BY <2>1, <2>2
<1>2. ASSUME NEW r \in Requests, Serve(r)
      PROVE  /\ UNCHANGED <<text, vpc, vhost, stopped>>
             /\ \A q \in Requests \ {r} : rpc'[q] = rpc[q] /\ rhost'[q] = rhost[q]
  <2>1. UNCHANGED <<text, vpc, vhost, stopped>>
    BY <1>2 DEF Serve, Snapshot, CancelRequest, CheckContext, ParseRequested, Answer,
                PublishExec, DiscardRequested, edits, validations
  <2>2. \A q \in Requests \ {r} : rpc'[q] = rpc[q] /\ rhost'[q] = rhost[q]
    BY <1>2 DEF Serve, Snapshot, CancelRequest, CheckContext, ParseRequested, Answer,
                PublishExec, DiscardRequested, GotoR
  <2> QED  BY <2>1, <2>2
<1> QED  BY <1>1, <1>2

LEMMA TreesOfGenerations ==
  ASSUME TypeInv, TreesOwned, NEW D \in SUBSET Hosts, Begun(D), ~stopped,
         \A d \in D : Open(d), UNCHANGED <<text, rpc, rhost, stopped>>
  PROVE  TreesOwned'
<1> USE LifecycleAssumption DEF TypeInv, EditsInv, EditsTyped
<1>1. ASSUME NEW g \in Generations, vpc[g] \in {"compute", "discard"}
      PROVE  vpc'[g] = vpc[g] /\ vhost'[g] = vhost[g]
  <2>1. g <= nextVersion
    BY <1>1 DEF Counted, Generations
  <2>2. \A d \in D : g # latest'[d]
    BY <2>1 DEF Begun, Generations
  <2> QED  BY <2>2 DEF Begun
<1>2. ASSUME NEW d \in trees' PROVE d \in Hosts /\ Owned(d)'
  <2>1. CASE d \in D
    BY <2>1 DEF Owned, Open
  <2>2. CASE d \notin D
    <3>1. d \in trees
      BY <1>2, <2>2 DEF Begun
    <3>2. d \in Hosts /\ Owned(d)
      BY <3>1 DEF TreesOwned, Owned, Validating, Serving
    <3>3. \A g \in Generations : Validating(g, d) => Validating(g, d)'
      BY <1>1 DEF Validating
    <3> QED  BY <3>2, <3>3, OwnersKept DEF Open, Serving
  <2> QED  BY <2>1, <2>2
<1> QED  BY <1>2 DEF TreesOwned, Owned, Validating, Serving

LEMMA TreesOfHandlers ==
  ASSUME TypeInv, LatestInv, TreesOwned, NEW d \in Hosts, Edit(d) PROVE TreesOwned'
<1> USE LifecycleAssumption DEF TypeInv, EditsInv, EditsTyped
<1>1. CASE SetText(d)
  <2>1. /\ text' = [text EXCEPT ![d] = nextVersion + 1]
        /\ UNCHANGED <<trees, vpc, vhost, rpc, rhost, stopped>>
    BY <1>1 DEF SetText, validations, requests
  <2>2. \A e \in Hosts : Open(e) => Open(e)'
    BY <2>1 DEF Open
  <2> QED  BY <2>1, <2>2 DEF TreesOwned
<1>2. CASE FinishEdit(d)
  <2>1. Begun({d}) /\ {d} \in SUBSET Hosts
    BY <1>2, EditBegins
  <2>2. Open(d) /\ ~stopped /\ UNCHANGED <<text, rpc, rhost, stopped>>
    BY <1>2 DEF FinishEdit, LatestInv, requests
  <2> QED  BY <2>1, <2>2, TreesOfGenerations
<1>3. CASE DidClose(d)
  <2>1. /\ text' = [text EXCEPT ![d] = 0] /\ trees' = trees \ {d}
        /\ UNCHANGED <<vpc, vhost, rpc, rhost, stopped>>
    BY <1>3 DEF DidClose, validations, requests
  <2>2. \A e \in Hosts \ {d} : Open(e) => Open(e)'
    BY <2>1 DEF Open
  <2> QED  BY <2>1, <2>2 DEF TreesOwned
<1> QED  BY <1>1, <1>2, <1>3 DEF Edit, DidOpen, DidChange

LEMMA TreesOfValidations ==
  ASSUME TypeInv, TreesOwned, NEW g \in Generations, Validate(g) PROVE TreesOwned'
<1> USE DEF TypeInv, EditsInv, EditsTyped
<1>1. /\ UNCHANGED <<text, vhost, rpc, rhost, stopped>>
      /\ \A h \in Generations \ {g} : vpc'[h] = vpc[h]
  BY GoroutineMoves
<1>2. ASSUME NEW d \in trees, ~Validating(g, d) \/ Validating(g, d)' \/ Open(d)'
      PROVE  Owned(d)'
  <2>1. d \in Hosts /\ Owned(d)
    BY DEF TreesOwned, Owned, Validating, Serving
  <2>2. ASSUME NEW h \in Generations, Validating(h, d) PROVE Validating(h, d)' \/ Open(d)'
    BY <1>1, <1>2, <2>2 DEF Validating
  <2> QED  BY <1>1, <2>1, <2>2, OwnersKept DEF Open, Serving
<1>3. ASSUME \A d \in trees' : Owned(d)', stopped => trees' = {} PROVE TreesOwned'
  BY <1>1, <1>3 DEF TreesOwned, Owned, Validating, Serving
<1>4. CASE Debounce(g) \/ Capture(g)
  <2>1. trees' = trees /\ vpc[g] \in {"debounce", "capture"}
    BY <1>4 DEF Debounce, Capture
  <2>2. \A d \in trees : ~Validating(g, d)
    BY <2>1 DEF Validating
  <2> QED  BY <1>2, <1>3, <2>1, <2>2 DEF TreesOwned
<1>5. CASE Abandon(g) \/ Publish(g)
  <2>1. trees' = trees /\ vpc'[g] = "discard"
    BY <1>5 DEF Abandon, Publish, GotoV
  <2>2. \A d \in trees : ~Validating(g, d) \/ Validating(g, d)'
    BY <1>1, <2>1 DEF Validating
  <2> QED  BY <1>2, <1>3, <2>1, <2>2 DEF TreesOwned
<1>6. CASE Read(g)
  <2>1. vpc[g] = "compute" /\ vpc' = vpc /\ trees' = Parsed(vhost[g])
    BY <1>6 DEF Read
  <2>2. \A d \in trees : ~Validating(g, d) \/ Validating(g, d)'
    BY <1>1, <2>1 DEF Validating
  <2>3. Owned(vhost[g])'
    BY <1>1, <2>1 DEF Owned, Validating
  <2>4. \A d \in trees' : d \in trees \/ d = vhost[g]
    BY <2>1 DEF Parsed
  <2>5. \A d \in trees' : Owned(d)'
    <3> TAKE d \in trees'
    <3>1. CASE d \in trees
      BY <1>2, <2>2, <3>1
    <3>2. CASE d = vhost[g]
      BY <1>1, <2>1, <3>2 DEF Owned, Validating
    <3> QED  BY <2>4, <3>1, <3>2
  <2> QED  BY <1>3, <2>1, <2>5 DEF Parsed, TreesOwned
<1>7. CASE DiscardValidated(g)
  <2>1. trees' = Discarded(vhost[g])
    BY <1>7 DEF DiscardValidated
  <2>2. ASSUME NEW d \in trees' PROVE d \in trees /\ (~Validating(g, d) \/ Open(d)')
    BY <1>1, <2>1 DEF Discarded, Open, Validating
  <2> QED  BY <1>2, <1>3, <2>1, <2>2 DEF TreesOwned, Discarded
<1> QED  BY <1>4, <1>5, <1>6, <1>7 DEF Validate

LEMMA TreesOfRequests ==
  ASSUME TypeInv, TreesOwned, NEW r \in Requests, Serve(r) PROVE TreesOwned'
<1> USE DEF TypeInv, EditsInv, EditsTyped
<1>1. /\ UNCHANGED <<text, vpc, vhost, stopped>>
      /\ \A q \in Requests \ {r} : rpc'[q] = rpc[q] /\ rhost'[q] = rhost[q]
  BY GoroutineMoves
<1>2. ASSUME NEW d \in trees, ~Serving(r, d) \/ Serving(r, d)' \/ Open(d)'
      PROVE  Owned(d)'
  <2>1. d \in Hosts /\ Owned(d)
    BY DEF TreesOwned, Owned, Validating, Serving
  <2>2. ASSUME NEW q \in Requests, Serving(q, d) PROVE Serving(q, d)' \/ Open(d)'
    BY <1>1, <1>2, <2>2 DEF Serving
  <2> QED  BY <1>1, <2>1, <2>2, OwnersKept DEF Open, Validating
<1>3. ASSUME \A d \in trees' : Owned(d)', stopped => trees' = {} PROVE TreesOwned'
  BY <1>1, <1>3 DEF TreesOwned, Owned, Validating, Serving
<1>4. CASE \/ \E d \in Hosts : Snapshot(r, d)
           \/ CancelRequest(r) \/ CheckContext(r) \/ Answer(r)
           \/ \E scope \in SUBSET Parts : \E E \in SUBSET scope : PublishExec(r, scope, E)
  <2>1. trees' = trees /\ (rpc[r] = "idle" \/ (rhost' = rhost /\ rpc'[r] \in {"parse", "discard"}))
    BY <1>4 DEF Snapshot, CancelRequest, CheckContext, Answer, PublishExec, GotoR
  <2>2. \A d \in trees : ~Serving(r, d) \/ Serving(r, d)'
    BY <2>1 DEF Serving
  <2> QED  BY <1>2, <1>3, <2>1, <2>2 DEF TreesOwned
<1>5. CASE ParseRequested(r)
  <2>1. rhost' = rhost /\ trees' = Parsed(rhost[r]) /\ rpc'[r] = "evaluate"
    BY <1>5 DEF ParseRequested, GotoR
  <2>2. \A d \in trees : ~Serving(r, d) \/ Serving(r, d)'
    BY <2>1 DEF Serving
  <2>3. ASSUME NEW d \in trees' PROVE Owned(d)'
    <3>1. CASE d \in trees
      BY <1>2, <2>2, <3>1
    <3>2. CASE d \notin trees
      <4>1. d = rhost[r] /\ rpc'[r] = "evaluate"
        BY <2>1, <2>3, <3>2 DEF Parsed
      <4> QED  BY <2>1, <4>1 DEF Owned, Serving
    <3> QED  BY <3>1, <3>2
  <2> QED  BY <1>3, <2>1, <2>3 DEF Parsed, TreesOwned
<1>6. CASE DiscardRequested(r)
  <2>1. trees' = Discarded(rhost[r])
    BY <1>6 DEF DiscardRequested, ReleasedBy
  <2>2. ASSUME NEW d \in trees' PROVE d \in trees /\ (~Serving(r, d) \/ Open(d)')
    BY <1>1, <2>1 DEF Discarded, Open, Serving
  <2> QED  BY <1>2, <1>3, <2>1, <2>2 DEF TreesOwned, Discarded
<1> QED  BY <1>4, <1>5, <1>6 DEF Serve

LEMMA TreesStep == TypeInv /\ LatestInv /\ TreesOwned /\ [Next]_vars => TreesOwned'
<1> SUFFICES ASSUME TypeInv, LatestInv, TreesOwned, [Next]_vars PROVE TreesOwned'
  OBVIOUS
<1>1. CASE DidChangeWatchedFiles
  <2>1. Begun(OpenHosts) /\ OpenHosts \in SUBSET Hosts /\ \A d \in OpenHosts : Open(d)
    BY <1>1, WatchedFilesBegin DEF TypeInv, OpenHosts
  <2>2. ~stopped /\ UNCHANGED <<text, rpc, rhost, stopped>>
    BY <1>1 DEF DidChangeWatchedFiles, requests
  <2> QED  BY <2>1, <2>2, TreesOfGenerations
<1>2. CASE Shutdown
  BY <1>2 DEF Shutdown, TreesOwned
<1>3. CASE SenderStep \/ UNCHANGED vars
  <2>1. UNCHANGED <<text, trees, vpc, vhost, rpc, rhost, stopped>>
    BY <1>3 DEF SenderStep, SenderWake, SenderExit, SenderNext, CheckWanted, SenderCheck,
                Deliver, FailToDeliver, vars, edits, validations, requests
  <2> QED  BY <2>1 DEF TreesOwned, Open
<1> QED
  BY <1>1, <1>2, <1>3, TreesOfHandlers, TreesOfValidations, TreesOfRequests DEF Next

\* A syntax tree of a closed document has an owner that releases it.
THEOREM TreesHaveOwners == SafeSpec => []TreesOwned
<1>1. Init => TreesOwned
  BY DEF Init, TreesOwned
<1> QED  BY TypeInit, TypeStep, LatestInit, LatestStep, TreesStep, <1>1, PTL DEF SafeSpec

-----------------------------------------------------------------------------
(* Settles: the client shows what the server has *)

\* A handler that leaves a publication makes it the newest of its document.
LEMMA EnqueueNewest ==
  ASSUME TypeInv, NEW d \in Hosts, NEW p, Enqueue(d, p), ~stopped, UNCHANGED <<sending, client>>
  PROVE  /\ InTransit(d)' /\ Newest(d)' = p
         /\ \A e \in Hosts \ {d} :
              (InTransit(e)' <=> InTransit(e)) /\ Newest(e)' = Newest(e) /\ lost'[e] = lost[e]
<1>1. /\ outPending' = [e \in DOMAIN outPending \cup {d} |-> IF e = d THEN p ELSE outPending[e]]
      /\ sender' = sender \/ (sender = "none" /\ sender' = "asleep")
      /\ UNCHANGED <<sending, shown, lost>>
  BY DEF Enqueue, Replaced, client
<1>2. sender' \in {"check", "send"} <=> sender \in {"check", "send"}
  BY <1>1
<1>3. InTransit(d)' /\ Newest(d)' = p
  BY <1>1 DEF InTransit, Newest
<1>4. ASSUME NEW e \in Hosts \ {d}
      PROVE  (InTransit(e)' <=> InTransit(e)) /\ Newest(e)' = Newest(e)
  <2>1. /\ e \in DOMAIN outPending' <=> e \in DOMAIN outPending
        /\ e \in DOMAIN outPending => outPending'[e] = outPending[e]
    BY <1>1
  <2> QED  BY <1>1, <1>2, <2>1 DEF InTransit, Newest
<1> QED  BY <1>1, <1>3, <1>4

\* A step that changes nothing the client must learn of a document.
LEMMA DueKept ==
  ASSUME NEW d \in Hosts, Due(d), stopped' = stopped, Open(d) => Open(d)',
         Validated(d)' =>
           /\ Validated(d) /\ latest'[d] = latest[d] /\ base'[d] = base[d]
           /\ Shareable(d, exec'[d]) = Shareable(d, exec[d]),
         InTransit(d)' \/ ~lost'[d] => Newest(d)' = Newest(d) /\ (InTransit(d) \/ ~lost[d])
  PROVE  Due(d)'
<1>1. ASSUME ~stopped, Validated(d)' PROVE base'[d].of = latest'[d]
  BY <1>1 DEF Due
<1>2. ASSUME ~stopped, InTransit(d)' \/ ~lost'[d] PROVE Answers(d, Newest(d))'
  <2>1. Answers(d, Newest(d)) /\ Newest(d)' = Newest(d)
    BY <1>2 DEF Due
  <2>2. ~Open(d)' =>
          Newest(d)'.generation = 0 /\ Newest(d)'.base = NoBase /\ Newest(d)'.exec = NoExec
    BY <2>1 DEF Answers
  <2>3. Validated(d)' =>
          /\ Newest(d)'.generation = latest'[d] /\ Newest(d)'.base = base'[d]
          /\ Newest(d)'.exec = Shareable(d, exec'[d])
    BY <2>1 DEF Answers
  <2>4. Shareable(d, exec[d])' = Shareable(d, exec'[d])
    BY DEF Shareable
  <2> QED  BY <2>2, <2>3, <2>4 DEF Answers
<1> QED  BY <1>1, <1>2 DEF Due

\* Outside the outbox.
LEMMA QueueKeepsNewest ==
  ASSUME UNCHANGED outbox, NEW d \in Hosts
  PROVE  Newest(d)' = Newest(d) /\ (InTransit(d)' <=> InTransit(d)) /\ lost' = lost
  BY DEF outbox, queue, client, Newest, InTransit

LEMMA SettleOfGenerations ==
  ASSUME TypeInv, LatestInv, SettleInv, NEW D \in SUBSET Hosts, Begun(D),
         \A d \in D : Open(d), UNCHANGED <<text, base, outbox, stopped>>
  PROVE  SettleInv'
<1> USE LifecycleAssumption DEF TypeInv, EditsInv, EditsTyped
<1>1. ASSUME NEW d \in Hosts PROVE Due(d)'
  <2>1. CASE d \in D
    <3>1. ~Validated(d)'
      BY <2>1 DEF Begun, Validated
    <3> QED  BY <3>1, QueueKeepsNewest, DueKept DEF SettleInv, Open
  <2>2. CASE d \notin D
    <3>1. latest'[d] = latest[d] /\ exec'[d] = exec[d]
      BY <2>2 DEF Begun
    <3>2. ASSUME latest[d] # 0 PROVE vpc'[latest[d]] = vpc[latest[d]]
      <4>1. latest[d] \in Generations /\ latest[d] \in 0..nextVersion
        BY <3>2, LatestTyped
      <4>2. \A e \in D : latest[d] # latest'[e]
        BY <4>1 DEF Begun
      <4> QED  BY <4>1, <4>2 DEF Begun
    <3>3. Validated(d)' => Validated(d)
      BY <3>1, <3>2 DEF Validated
    <3> QED  BY <3>1, <3>3, QueueKeepsNewest, DueKept DEF SettleInv, Open
  <2> QED  BY <2>1, <2>2
<1> QED  BY <1>1 DEF SettleInv

LEMMA SettleOfHandlers ==
  ASSUME TypeInv, LatestInv, SettleInv, NEW d \in Hosts, Edit(d) PROVE SettleInv'
<1> USE LifecycleAssumption DEF TypeInv, EditsInv, EditsTyped
<1>1. CASE SetText(d)
  <2>1. /\ text' = [text EXCEPT ![d] = nextVersion + 1]
        /\ UNCHANGED <<latest, base, exec, vpc, outbox, stopped>>
    BY <1>1 DEF SetText, validations
  <2>2. ASSUME NEW e \in Hosts PROVE Due(e)'
    <3>1. Open(e) => Open(e)'
      BY <2>1 DEF Open
    <3>2. Validated(e)' => Validated(e)
      BY <2>1 DEF Validated
    <3> QED  BY <2>1, <3>1, <3>2, QueueKeepsNewest, DueKept DEF SettleInv
  <2> QED  BY <2>2 DEF SettleInv
<1>2. CASE FinishEdit(d)
  <2>1. Begun({d}) /\ {d} \in SUBSET Hosts
    BY <1>2, EditBegins
  <2>2. Open(d) /\ UNCHANGED <<text, base, outbox, stopped>>
    BY <1>2 DEF FinishEdit, LatestInv
  <2> QED  BY <2>1, <2>2, SettleOfGenerations
<1>3. CASE DidClose(d)
  <2>1. /\ latest' = [latest EXCEPT ![d] = 0] /\ text' = [text EXCEPT ![d] = 0]
        /\ exec' = [exec EXCEPT ![d] = NoExec] /\ base' = [base EXCEPT ![d] = NoBase]
        /\ UNCHANGED <<vpc, stopped, sending, client>> /\ Enqueue(d, Clear(d))
    BY <1>3 DEF DidClose, validations
  <2>2. CASE stopped
    BY <2>1, <2>2 DEF SettleInv, Due
  <2>3. CASE ~stopped
    <3>1. /\ InTransit(d)' /\ Newest(d)' = Clear(d)
          /\ \A e \in Hosts \ {d} :
               (InTransit(e)' <=> InTransit(e)) /\ Newest(e)' = Newest(e) /\ lost'[e] = lost[e]
      BY <2>1, <2>3, EnqueueNewest
    <3>2. Due(d)'
      <4>1. ~Validated(d)'
        BY <2>1 DEF Validated
      <4>2. /\ Newest(d)'.generation = 0 /\ Newest(d)'.base = NoBase
            /\ Newest(d)'.exec = NoExec
        BY <3>1 DEF Clear
      <4> QED  BY <4>1, <4>2 DEF Due, Answers
    <3>3. ASSUME NEW e \in Hosts \ {d} PROVE Due(e)'
      <4>1. /\ latest'[e] = latest[e] /\ base'[e] = base[e] /\ exec'[e] = exec[e]
            /\ Open(e) => Open(e)'
        BY <2>1 DEF Open
      <4>2. Validated(e)' => Validated(e)
        BY <2>1, <4>1 DEF Validated
      <4> QED  BY <2>1, <3>1, <4>1, <4>2, DueKept DEF SettleInv
    <3> QED  BY <3>2, <3>3 DEF SettleInv
  <2> QED  BY <2>2, <2>3
<1> QED  BY <1>1, <1>2, <1>3 DEF Edit, DidOpen, DidChange

\* The latest generation's validation gives up only after a shutdown: nobody
\* supersedes it, so it publishes before it discards.
LEMMA SettleOfValidations ==
  ASSUME TypeInv, LatestInv, SettleInv, NEW g \in Generations, Validate(g) PROVE SettleInv'
<1> USE LifecycleAssumption DEF TypeInv, EditsInv, EditsTyped
<1>1. /\ UNCHANGED <<text, latest, superseded, exec, vhost, stopped>>
      /\ \A h \in Generations \ {g} : vpc'[h] = vpc[h]
  BY GoroutineMoves DEF Validate, Debounce, Capture, Read, Abandon, Publish,
                        DiscardValidated, edits
<1>2. ASSUME NEW d \in Hosts, latest[d] = g
      PROVE  vhost[g] = d /\ Open(d) /\ g \notin superseded
  <2>1. g # 0
    BY DEF Generations
  <2> QED  BY <1>2, <2>1 DEF LatestInv, Latest
<1>3. CASE ~Publish(g)
  <2>1. UNCHANGED <<base, outbox>>
    BY <1>3 DEF Validate, Debounce, Capture, Read, Abandon, DiscardValidated
  <2>2. ASSUME NEW d \in Hosts, Validated(d)' PROVE Validated(d)
    <3>1. CASE latest[d] # g
      <4>1. latest[d] # 0 => latest[d] \in Generations
        BY LatestTyped
      <4> QED  BY <1>1, <2>2, <3>1, <4>1 DEF Validated
    <3>2. CASE latest[d] = g
      <4>1. vpc'[g] \in {"discard", "done"} /\ g # 0
        BY <1>1, <2>2, <3>2 DEF Validated
      <4>2. vhost[g] = d /\ Open(d) /\ g \notin superseded
        BY <1>2, <3>2
      <4>3. vpc[g] \in {"discard", "done"}
        BY <1>3, <3>2, <4>1, <4>2
        DEF Validate, Debounce, Capture, Read, Abandon, DiscardValidated, GotoV
      <4> QED  BY <3>2, <4>1, <4>3 DEF Validated
    <3> QED  BY <3>1, <3>2
  <2> QED  BY <1>1, <2>1, <2>2, QueueKeepsNewest, DueKept DEF SettleInv, Open
<1>4. CASE Publish(g)
  <2>2. PICK d \in Hosts : d = vhost[g]
    BY <1>4 DEF Publish, Hosted
  <2> DEFINE b == [of |-> g, texts |-> vtexts[g], samples |-> vsamples[g]]
             q == [host |-> d, generation |-> g, base |-> b, exec |-> Shareable(d, exec[d])]
  <2>1. /\ vpc[g] = "compute" /\ vpc'[g] = "discard" /\ UNCHANGED <<sending, client>>
        /\ IF StillCurrent(g) THEN base' = [base EXCEPT ![d] = b] /\ Enqueue(d, q)
           ELSE UNCHANGED <<base, queue, sender>>
    BY <1>4, <2>2 DEF Publish, GotoV
  <2>3. CASE stopped
    BY <1>1, <2>3 DEF SettleInv, Due
  <2>4. ASSUME NEW e \in Hosts, latest[e] # g, Validated(e)' PROVE Validated(e)
    <3>1. latest[e] # 0 => latest[e] \in Generations
      BY LatestTyped
    <3> QED  BY <1>1, <2>4, <3>1 DEF Validated
  <2>5. CASE ~stopped /\ latest[d] # g
    <3>1. UNCHANGED <<base, outbox>>
      BY <2>1, <2>2, <2>5 DEF StillCurrent, outbox
    <3>2. \A e \in Hosts : latest[e] # g
      BY <1>2, <2>2, <2>5
    <3> QED  BY <1>1, <2>4, <3>1, <3>2, QueueKeepsNewest, DueKept DEF SettleInv, Open
  <2>6. CASE ~stopped /\ latest[d] = g
    <3>1. StillCurrent(g)
      BY <1>2, <2>2, <2>6 DEF StillCurrent
    <3>2. base' = [base EXCEPT ![d] = b] /\ Enqueue(d, q)
      BY <2>1, <3>1
    <3>3. Open(d)
      BY <1>2, <2>2, <2>6
    <3>4. q.generation = g /\ q.base = b /\ q.exec = Shareable(d, exec[d]) /\ b.of = g
      OBVIOUS
    <3> HIDE DEF b, q
    <3>5. /\ InTransit(d)' /\ Newest(d)' = q
          /\ \A e \in Hosts \ {d} :
               (InTransit(e)' <=> InTransit(e)) /\ Newest(e)' = Newest(e) /\ lost'[e] = lost[e]
      BY <2>1, <2>2, <2>6, <3>2, EnqueueNewest
    <3>6. ASSUME NEW e \in Hosts PROVE Due(e)'
      <4>1. CASE e = d
        <5>1. Open(e)' /\ base'[e] = b /\ latest'[e] = g /\ exec'[e] = exec[e]
          BY <1>1, <2>2, <2>6, <3>2, <3>3, <4>1 DEF Open
        <5>2. /\ Newest(e)' = q /\ Newest(e)'.generation = latest'[e]
              /\ Newest(e)'.base = base'[e] /\ Newest(e)'.exec = Shareable(e, exec'[e])
          BY <3>4, <3>5, <4>1, <5>1
        <5>3. Shareable(e, exec[e])' = Shareable(e, exec'[e])
          BY DEF Shareable
        <5>4. Answers(e, Newest(e))'
          BY <5>1, <5>2, <5>3 DEF Answers
        <5>5. base'[e].of = latest'[e]
          BY <3>4, <5>1
        <5> QED  BY <5>4, <5>5 DEF Due
      <4>2. CASE e # d
        <5>1. latest[e] # g
          BY <1>2, <2>2, <4>2
        <5>2. Validated(e)' => Validated(e)
          BY <2>4, <5>1
        <5>3. base'[e] = base[e]
          BY <3>2, <4>2
        <5> QED  BY <1>1, <3>5, <4>2, <5>2, <5>3, DueKept DEF SettleInv, Open
      <4> QED  BY <4>1, <4>2
    <3> QED  BY <3>6 DEF SettleInv
  <2> QED  BY <2>3, <2>5, <2>6
<1> QED  BY <1>3, <1>4

LEMMA SettleOfRequests ==
  ASSUME TypeInv, LatestInv, SettleInv, NEW r \in Requests, Serve(r) PROVE SettleInv'
<1> USE LifecycleAssumption DEF TypeInv, EditsInv, EditsTyped
<1>1. UNCHANGED <<text, latest, base, vpc, stopped>>
  BY DEF Serve, Snapshot, CancelRequest, CheckContext, ParseRequested, Answer,
         PublishExec, DiscardRequested, edits, validations
<1>2. \A e \in Hosts : (Open(e) => Open(e)') /\ (Validated(e)' => Validated(e))
  BY <1>1 DEF Open, Validated
<1>3. CASE UNCHANGED <<exec, outbox>>
  BY <1>1, <1>2, <1>3, QueueKeepsNewest, DueKept DEF SettleInv
<1>4. ASSUME NEW scope \in SUBSET Parts, NEW E \in SUBSET scope, PublishExec(r, scope, E)
      PROVE  SettleInv'
  <2>2. PICK d \in Hosts : d = rhost[r]
    BY <1>4 DEF PublishExec, Hosted
  <2> DEFINE e == [x \in Parts |-> IF x \in E THEN rversion[r]
                                   ELSE IF x \in scope THEN 0 ELSE exec[d][x]]
             q == [host |-> d, generation |-> rversion[r], base |-> base[d], exec |-> e]
  <2>1. /\ rpc[r] = "evaluate" /\ UNCHANGED <<sending, client>>
        /\ \/ UNCHANGED <<exec, queue, sender>>
           \/ /\ Publishable(r) /\ exec' = [exec EXCEPT ![d] = e]
              /\ IF d \in Yaml THEN UNCHANGED <<queue, sender>> ELSE Enqueue(d, q)
    BY <1>4, <2>2 DEF PublishExec
  <2>3. CASE UNCHANGED <<exec, queue, sender>>
    BY <1>3, <2>1, <2>3 DEF outbox
  <2>4. q.generation = rversion[r] /\ q.base = base[d] /\ q.exec = e
    OBVIOUS
  <2> HIDE DEF e, q
  <2>5. CASE d \in Yaml /\ exec' = [exec EXCEPT ![d] = e] /\ UNCHANGED <<queue, sender>>
    <3>1. UNCHANGED outbox
      BY <2>1, <2>5 DEF outbox
    <3>2. \A c \in Hosts : Shareable(c, exec'[c]) = Shareable(c, exec[c])
      BY <2>2, <2>5 DEF Shareable
    <3> QED  BY <1>1, <1>2, <3>1, <3>2, QueueKeepsNewest, DueKept DEF SettleInv
  <2>6. CASE d \notin Yaml /\ exec' = [exec EXCEPT ![d] = e] /\ Enqueue(d, q) /\ Publishable(r)
    <3>1. ~stopped /\ Open(d) /\ latest[d] = rversion[r]
      BY <2>2, <2>6 DEF Publishable
    <3>2. /\ InTransit(d)' /\ Newest(d)' = q
          /\ \A c \in Hosts \ {d} :
               (InTransit(c)' <=> InTransit(c)) /\ Newest(c)' = Newest(c) /\ lost'[c] = lost[c]
      BY <2>1, <2>2, <2>6, <3>1, EnqueueNewest
    <3>3. Due(d)'
      <4>1. Open(d)' /\ exec'[d] = e /\ Shareable(d, exec[d])' = e
        BY <1>1, <2>2, <2>6, <3>1 DEF Open, Shareable
      <4>2. /\ Newest(d)'.generation = latest'[d] /\ Newest(d)'.base = base'[d]
            /\ Newest(d)'.exec = e
        BY <1>1, <2>4, <3>1, <3>2
      <4>3. Validated(d)' => base'[d].of = latest'[d]
        BY <1>1, <1>2, <2>2, <3>1 DEF SettleInv, Due
      <4> QED  BY <4>1, <4>2, <4>3 DEF Due, Answers
    <3>4. ASSUME NEW c \in Hosts \ {d} PROVE Due(c)'
      <4>1. exec'[c] = exec[c]
        BY <2>6
      <4> QED  BY <1>1, <1>2, <3>2, <4>1, DueKept DEF SettleInv
    <3> QED  BY <3>3, <3>4 DEF SettleInv
  <2> QED  BY <2>1, <2>3, <2>5, <2>6
<1>5. CASE \/ \E d \in Hosts : Snapshot(r, d)
           \/ CancelRequest(r) \/ CheckContext(r) \/ ParseRequested(r) \/ Answer(r)
           \/ DiscardRequested(r)
  BY <1>3, <1>5 DEF Snapshot, CancelRequest, CheckContext, ParseRequested, Answer,
                    DiscardRequested
<1> QED  BY <1>4, <1>5 DEF Serve

\* The newest publication of a document that is closed or validated is of the
\* generation that the sender wants, so it is written, unless the write fails.
LEMMA SettleOfSender ==
  ASSUME TypeInv, LatestInv, SettleInv, SenderStep PROVE SettleInv'
<1> USE DEF TypeInv, OutboxInv, OutboxTyped, client, queue
<1>1. UNCHANGED <<text, latest, base, exec, vpc, stopped>>
  BY DEF SenderStep, SenderWake, SenderExit, SenderNext, CheckWanted, SenderCheck, Deliver,
         FailToDeliver, edits, validations
<1>2. \A d \in Hosts : (Open(d) => Open(d)') /\ (Validated(d)' => Validated(d))
  BY <1>1 DEF Open, Validated
<1>3. ASSUME NEW d \in Hosts, lost'[d] = lost[d], InTransit(d)' <=> InTransit(d),
             Newest(d)' = Newest(d)
      PROVE  Due(d)'
  BY <1>1, <1>2, <1>3, DueKept DEF SettleInv
<1>4. CASE SenderWake \/ SenderExit \/ (SenderNext /\ order = <<>>)
  <2>1. /\ UNCHANGED <<outPending, shown, lost, sending>>
        /\ sender \notin {"check", "send"} /\ sender' \notin {"check", "send"}
    BY <1>4 DEF SenderWake, SenderExit, SenderNext
  <2> QED  BY <1>3, <2>1 DEF SettleInv, InTransit, Newest
<1>5. CASE SenderNext /\ order # <<>>
  <2> DEFINE h == Head(order)
  <2>1. 1 \in DOMAIN order /\ h = order[1]
    BY <1>5
  <2>2. h \in DOMAIN outPending
    BY <2>1 DEF QueueDrains, Queued
  <2>3. /\ sender = "next" /\ sender' = "check" /\ sending' = outPending[h]
        /\ outPending' = [e \in DOMAIN outPending \ {h} |-> outPending[e]]
        /\ UNCHANGED <<shown, lost>>
    BY <1>5 DEF SenderNext, Restrict
  <2>4. sending'.host = h
    BY <2>2, <2>3 DEF Carried
  <2> HIDE DEF h
  <2>5. ASSUME NEW d \in Hosts PROVE (InTransit(d)' <=> InTransit(d)) /\ Newest(d)' = Newest(d)
    <3>1. CASE d = h
      BY <2>2, <2>3, <2>4, <3>1 DEF InTransit, Newest
    <3>2. CASE d # h
      BY <2>2, <2>3, <2>4, <3>2 DEF InTransit, Newest
    <3> QED  BY <3>1, <3>2
  <2> QED  BY <1>3, <2>3, <2>5 DEF SettleInv
<1>6. CASE CheckWanted
  <2>1. sender = "check" /\ UNCHANGED <<outPending, shown, lost>>
    BY <1>6 DEF CheckWanted, SenderCheck
  <2>2. CASE Wanted(sending) /\ ~stopped
    <3>1. sender' = "send" /\ sending' = sending
      BY <1>6, <2>2 DEF CheckWanted, SenderCheck
    <3> QED  BY <1>3, <2>1, <3>1 DEF SettleInv, InTransit, Newest
  <2>3. CASE ~(Wanted(sending) /\ ~stopped)
    <3>1. sender' = "next"
      BY <1>6, <2>3 DEF CheckWanted, SenderCheck
    <3>2. CASE stopped
      BY <1>1, <3>2 DEF SettleInv, Due
    <3>3. ASSUME NEW d \in Hosts, ~stopped PROVE Due(d)'
      <4>1. CASE d \in DOMAIN outPending \/ sending.host # d
        BY <1>3, <2>1, <3>1, <4>1 DEF InTransit, Newest
      <4>2. CASE d \notin DOMAIN outPending /\ sending.host = d
        <5>1. InTransit(d) /\ Newest(d) = sending
          BY <2>1, <4>2 DEF InTransit, Newest
        <5>2. Answers(d, sending)
          BY <3>3, <5>1 DEF SettleInv, Due
        <5>3. sending.generation # latest[d]
          BY <2>3, <3>3, <4>2 DEF Wanted
        <5>4. Open(d) /\ ~Validated(d)
          <6>1. ~Open(d) => latest[d] = 0
            BY DEF LatestInv, Latest
          <6> QED  BY <5>2, <5>3, <6>1 DEF Answers
        <5> QED  BY <1>2, <5>4 DEF Due, Answers
      <4> QED  BY <4>1, <4>2
    <3> QED  BY <3>2, <3>3 DEF SettleInv
  <2> QED  BY <2>2, <2>3
<1>7. CASE Deliver \/ FailToDeliver
  <2> DEFINE h == sending.host
  <2>1. /\ sender = "send" /\ sender' = "next" /\ sending \in Publication
        /\ UNCHANGED outPending
        /\ \/ /\ shown' = [shown EXCEPT ![h] = sending]
              /\ lost' = [lost EXCEPT ![h] = FALSE]
           \/ shown' = shown /\ lost' = [lost EXCEPT ![h] = TRUE]
    BY <1>7 DEF Deliver, FailToDeliver, Carried
  <2>2. h \in Hosts
    BY <2>1 DEF Publication
  <2>3. ASSUME NEW d \in Hosts PROVE Due(d)'
    <3>1. CASE d # h
      <4>1. lost'[d] = lost[d] /\ shown'[d] = shown[d]
        BY <2>1, <3>1
      <4> QED  BY <1>3, <2>1, <3>1, <4>1 DEF InTransit, Newest
    <3>2. CASE d = h
      <4>1. InTransit(d)
        BY <2>1, <3>2 DEF InTransit
      <4>2. InTransit(d)' \/ ~lost'[d] => Newest(d)' = Newest(d)
        <5>1. CASE d \in DOMAIN outPending
          BY <2>1, <5>1 DEF Newest
        <5>2. CASE d \notin DOMAIN outPending /\ shown' = [shown EXCEPT ![h] = sending]
          BY <2>1, <2>2, <3>2, <5>2 DEF Newest
        <5>3. CASE d \notin DOMAIN outPending /\ lost' = [lost EXCEPT ![h] = TRUE]
          BY <2>1, <2>2, <3>2, <5>3 DEF InTransit
        <5> QED  BY <2>1, <5>1, <5>2, <5>3
      <4> QED  BY <1>1, <1>2, <4>1, <4>2, DueKept DEF SettleInv
    <3> QED  BY <3>1, <3>2
  <2> QED  BY <2>3 DEF SettleInv
<1> QED  BY <1>4, <1>5, <1>6, <1>7 DEF SenderStep

LEMMA SettleStep == TypeInv /\ LatestInv /\ SettleInv /\ [Next]_vars => SettleInv'
<1> SUFFICES ASSUME TypeInv, LatestInv, SettleInv, [Next]_vars PROVE SettleInv'
  OBVIOUS
<1>1. CASE DidChangeWatchedFiles
  <2>1. Begun(OpenHosts) /\ OpenHosts \in SUBSET Hosts /\ \A d \in OpenHosts : Open(d)
    BY <1>1, WatchedFilesBegin DEF TypeInv, OpenHosts
  <2>2. UNCHANGED <<text, base, outbox, stopped>>
    BY <1>1 DEF DidChangeWatchedFiles
  <2> QED  BY <2>1, <2>2, SettleOfGenerations
<1>2. CASE Shutdown
  BY <1>2 DEF Shutdown, StopOutbox, SettleInv, Due
<1>3. CASE UNCHANGED vars
  <2>1. UNCHANGED <<text, latest, base, exec, vpc, stopped, outbox>>
    BY <1>3 DEF vars, edits, validations
  <2>2. \A d \in Hosts : (Open(d) => Open(d)') /\ (Validated(d)' => Validated(d))
    BY <2>1 DEF Open, Validated
  <2> QED  BY <2>1, <2>2, QueueKeepsNewest, DueKept DEF SettleInv
<1> QED
  BY <1>1, <1>2, <1>3, SettleOfHandlers, SettleOfValidations, SettleOfRequests,
     SettleOfSender DEF Next

LEMMA SettleInit == Init => SettleInv
<1> SUFFICES ASSUME Init, NEW d \in Hosts PROVE Due(d)
  BY DEF SettleInv
<1>1. ~Validated(d) /\ Newest(d) = Clear(d)
  BY DEF Init, Validated, Newest
<1> QED  BY <1>1 DEF Due, Answers, Clear

\* When nothing of a document is on its way and no write failed, the client
\* shows its diagnostics, or none once it is closed.
THEOREM ClientSettles == SafeSpec => []Settles
<1>1. TypeInv /\ LatestInv /\ SettleInv => Settles
  <2> SUFFICES ASSUME TypeInv, LatestInv, SettleInv, NEW d \in Hosts, AtRest(d)
               PROVE  /\ ~Open(d) => shown[d].base = NoBase /\ shown[d].exec = NoExec
                      /\ Open(d) /\ vpc[latest[d]] \in {"discard", "done"} =>
                           /\ base[d].of = latest[d]
                           /\ shown[d].base = base[d]
                           /\ shown[d].exec = Shareable(d, exec[d])
    BY DEF Settles
  <2>1. sender \in {"check", "send"} => sending # NoPublication
    BY PublicationAssumption DEF TypeInv, OutboxInv, Carried
  <2>2. Newest(d) = shown[d]
    BY <2>1 DEF AtRest, Newest
  <2>3. Answers(d, shown[d]) /\ (Validated(d) => base[d].of = latest[d])
    BY <2>2 DEF SettleInv, Due, AtRest
  <2>4. Open(d) => latest[d] # 0
    BY DEF LatestInv, AtRest
  <2> QED  BY <2>3, <2>4 DEF Answers, Validated
<1> QED
  BY TypeInit, TypeStep, LatestInit, LatestStep, SettleInit, SettleStep, <1>1, PTL
  DEF SafeSpec

=============================================================================
