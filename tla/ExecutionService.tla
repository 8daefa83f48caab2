-------------------------- MODULE ExecutionService --------------------------
(***************************************************************************)
(* What cachedExecution promises to one caller, whatever the others do: it *)
(* answers once, with the context error of the caller's own context, or    *)
(* with a result that no invalidation made between the call and the        *)
(* beginning of the execution has outdated.  There is no cache, no flight  *)
(* and no waiting here.                                                    *)
(***************************************************************************)
EXTENDS Naturals

CONSTANTS Callers, Documents, Keys, DocumentOf, Sizes, MaxCalls, MaxRevision

VARIABLES
  revision,  \* per document, the number of invalidations
  calls,     \* number of calls made
  active,    \* the callers that wait for their answer
  key,       \* what each caller asked for
  since,     \* the revision its call began at
  canceled,  \* whether its context is done
  answer     \* the last answer of an idle caller

vars == <<revision, calls, active, key, since, canceled, answer>>

Canceled == "canceled"
NoAnswer == [kind |-> "none", revision |-> 0, bytes |-> 0]
CanceledAnswer == [kind |-> Canceled, revision |-> 0, bytes |-> 0]

Answers(c) ==
  [kind : {"value", "failure"}, bytes : Sizes,
   revision : since[c]..revision[DocumentOf[key[c]]]]

Init ==
  /\ revision = [d \in Documents |-> 0]
  /\ calls = 0
  /\ active = {}
  /\ key \in [Callers -> Keys]
  /\ since = [c \in Callers |-> 0]
  /\ canceled = [c \in Callers |-> TRUE]
  /\ answer = [c \in Callers |-> CanceledAnswer]

Call(c, k) ==
  /\ c \notin active /\ calls < MaxCalls
  /\ active' = active \cup {c}
  /\ calls' = calls + 1
  /\ key' = [key EXCEPT ![c] = k]
  /\ since' = [since EXCEPT ![c] = revision[DocumentOf[k]]]
  /\ canceled' = [canceled EXCEPT ![c] = FALSE]
  /\ answer' = [answer EXCEPT ![c] = NoAnswer]
  /\ UNCHANGED revision

Cancel(c) ==
  /\ c \in active /\ ~canceled[c]
  /\ canceled' = [canceled EXCEPT ![c] = TRUE]
  /\ UNCHANGED <<revision, calls, active, key, since, answer>>

Answer(c) ==
  /\ c \in active
  /\ active' = active \ {c}
  /\ \E a \in Answers(c) \cup (IF canceled[c] THEN {CanceledAnswer} ELSE {}) :
       answer' = [answer EXCEPT ![c] = a]
  /\ UNCHANGED <<revision, calls, key, since, canceled>>

Invalidate(d) ==
  /\ revision[d] < MaxRevision
  /\ revision' = [revision EXCEPT ![d] = @ + 1]
  /\ UNCHANGED <<calls, active, key, since, canceled, answer>>

Next ==
  \/ \E c \in Callers : (\E k \in Keys : Call(c, k)) \/ Cancel(c) \/ Answer(c)
  \/ \E d \in Documents : Invalidate(d)

Spec == Init /\ [][Next]_vars
=============================================================================
