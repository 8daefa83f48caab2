-------------------------- MODULE DiagnosticOutbox --------------------------
(***************************************************************************)
(* The diagnostic outbox of internal/lsp/diagnostic_outbox.go: handlers    *)
(* leave the newest publication of each document, one goroutine writes     *)
(* them to the client.  DocumentLifecycle composes these steps with the    *)
(* handlers; a publication is whatever record the handlers leave.          *)
(*                                                                         *)
(* Handler.Shutdown sets h.stopped and stops the outbox in one critical    *)
(* section of h.mu, so one variable stands for both flags and for the      *)
(* sender's context, which only the stop cancels.                          *)
(***************************************************************************)
EXTENDS Naturals, Sequences, Functions

CONSTANTS
  Hosts,          \* documents of the client
  NoPublication   \* the sender holds none

VARIABLES
  outPending,  \* partial map from document to its newest publication
  order,       \* documents in the order in which they will be written
  wake,        \* the wake channel holds its one token
  stopped,     \* h.stopped and outbox.stopped
  sender,      \* where the sending goroutine is, "none" before it starts
  sending,     \* the publication it holds
  shown,       \* per document, the last publication that reached the client
  lost         \* per document, whether the last write of one failed

queue == <<outPending, order, wake>>
client == <<shown, lost>>
outbox == <<queue, sender, sending, client>>

SenderPC == {"none", "asleep", "next", "check", "send", "exited"}

\* enqueueDiagnostics: overwrite what is pending, keep the place in the order,
\* start the sender with the first publication, wake it without blocking.
Enlisted(d) == IF d \in DOMAIN outPending THEN order ELSE Append(order, d)
\* Mutant: the channel has no buffer, so only a sender that waits gets it.
WokenUnbuffered == wake \/ sender = "asleep"
Woken == TRUE

\* Mutant: the publication that is already pending is kept.
ReplacedOldest(d, p) ==
  [e \in DOMAIN outPending \cup {d} |->
     IF e \in DOMAIN outPending THEN outPending[e] ELSE p]
Replaced(d, p) ==
  [e \in DOMAIN outPending \cup {d} |-> IF e = d THEN p ELSE outPending[e]]

Enqueue(d, p) ==
  /\ sender' = IF ~stopped /\ sender = "none" THEN "asleep" ELSE sender
  /\ IF stopped THEN UNCHANGED queue
     ELSE /\ outPending' = Replaced(d, p)
          /\ order' = Enlisted(d)
          /\ wake' = Woken

\* outbox.stop
StopOutbox ==
  /\ stopped' = TRUE
  /\ outPending' = [d \in {} |-> 0]
  /\ order' = <<>>
  /\ UNCHANGED <<wake, sender>>

----------------------------------------------------------------------------
\* sendDiagnostics

\* select: either case may be taken when both are ready
SenderWake ==
  /\ sender = "asleep" /\ wake
  /\ sender' = "next"
  /\ wake' = FALSE
  /\ UNCHANGED <<outPending, order, sending, client, stopped>>

\* Mutant: a plain receive from the channel, deaf to the stop.
SenderExitDeaf == sender = "asleep" /\ FALSE /\ UNCHANGED outbox
SenderExit ==
  /\ sender = "asleep" /\ stopped
  /\ sender' = "exited"
  /\ UNCHANGED <<queue, sending, client, stopped>>

\* outbox.next: false when nothing is pending, otherwise the first document
SenderNext ==
  /\ sender = "next"
  /\ IF order = <<>>
     THEN /\ sender' = "asleep"
          /\ UNCHANGED <<queue, sending>>
     ELSE /\ sender' = "check"
          /\ sending' = outPending[Head(order)]
          /\ outPending' = Restrict(outPending, DOMAIN outPending \ {Head(order)})
          /\ order' = Tail(order)
          /\ UNCHANGED wake
  /\ UNCHANGED <<client, stopped>>

\* Under h.mu: only a publication of the current generation is written.
SenderCheck(current) ==
  /\ sender = "check"
  /\ IF current /\ ~stopped
     THEN sender' = "send" /\ UNCHANGED sending
     ELSE sender' = "next" /\ sending' = NoPublication
  /\ UNCHANGED <<queue, client, stopped>>

\* client.PublishDiagnostics, with no lock held: it is written, or the write
\* fails, or the stop cancels it.  A failure is logged and never retried.
Deliver ==
  /\ sender = "send"
  /\ sender' = "next"
  /\ sending' = NoPublication
  /\ shown' = [shown EXCEPT ![sending.host] = sending]
  /\ lost' = [lost EXCEPT ![sending.host] = FALSE]
  /\ UNCHANGED <<queue, stopped>>

FailToDeliver ==
  /\ sender = "send"
  /\ sender' = "next"
  /\ sending' = NoPublication
  /\ lost' = [lost EXCEPT ![sending.host] = TRUE]
  /\ UNCHANGED <<queue, shown, stopped>>

----------------------------------------------------------------------------
\* Every pending publication is in line once, the sender is there to write
\* it, and it never sleeps on a publication without a token to wake it; after
\* the stop nothing is queued.  A duplicate, a gap or a lost wake-up would
\* leave diagnostics in the editor for good.
Queued ==
  /\ {order[i] : i \in DOMAIN order} = DOMAIN outPending
  /\ \A i, j \in DOMAIN order : order[i] = order[j] => i = j
NeverAsleepOnWork ==
  /\ order # <<>> =>
       \/ sender \in {"next", "check", "send"}
       \/ sender = "asleep" /\ wake
  /\ stopped => order = <<>>
  /\ sender = "exited" => stopped
QueueDrains == Queued /\ NeverAsleepOnWork
=============================================================================
