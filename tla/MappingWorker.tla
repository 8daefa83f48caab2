---------------------------- MODULE MappingWorker ----------------------------
(***************************************************************************)
(* A suite of fixtures, each run by mapping.Execute in a worker process    *)
(* with a deadline: RunSuite of internal/mapping/fixtures.go, the runner   *)
(* of blobl test, and executeWorker and ServeWorker of isolated.go.        *)
(*                                                                         *)
(* os/exec is external, modelled from its use: a goroutine kills the       *)
(* process when its context is done, another one copies the output of the  *)
(* process into a bounded buffer, Wait returns when both and the process   *)
(* have ended.  A mapping may answer, with a value or an error of its own, *)
(* crash the worker, or never end.                                         *)
(***************************************************************************)
EXTENDS Naturals, Sequences

CONSTANTS
  MaxCases,       \* cases of the suite
  MaxResultBytes, \* limit of the buffer
  MaxAnswerBytes  \* bound: bytes of an answer

ASSUME WorkerAssumption ==
  /\ MaxCases \in Nat /\ MaxResultBytes \in Nat /\ MaxAnswerBytes \in Nat

VARIABLES
  suite,    \* the context of the suite: live, canceled or past its deadline
  ctx,      \* the context of the execution
  pc,       \* where RunSuite and the execution it calls are
  worker,   \* the process
  killed,   \* it was sent the kill signal
  unsent,   \* bytes of its answer it has yet to write
  output,   \* bytes in the buffer
  copied,   \* the buffer has taken everything so far
  result,   \* what the execution returned, and the suite's context by then
  results   \* the cases collected

process == <<worker, killed, unsent, output, copied>>
suiteVars == <<suite, ctx, pc, process, result, results>>

Contexts == {"live", "canceled", "deadline"}
Alive == {"evaluating", "writing"}
Results == [kind : {"answer", "input", "timeout", "canceled", "worker"},
            killed : BOOLEAN, suite : Contexts]
NoResult == [kind |-> "input", killed |-> FALSE, suite |-> "live"]

Return(kind) ==
  /\ result' = [kind |-> kind, killed |-> killed, suite |-> suite]
  /\ pc' = "collect"

-----------------------------------------------------------------------------
\* RunSuite, and the deadline its runner gives each case.
NextCase ==
  /\ pc = "next"
  /\ IF suite # "live" \/ Len(results) = MaxCases
     THEN pc' = "ended" /\ UNCHANGED <<ctx, process>>
     ELSE /\ pc' = "request"
          /\ ctx' = suite
          /\ worker' = "none" /\ killed' = FALSE
          /\ unsent' = 0 /\ output' = 0 /\ copied' = TRUE
  /\ UNCHANGED <<suite, result, results>>

\* The second look at the context of the suite, after the run.
\* Mutant: every result is collected.
InterruptedNever == FALSE
Interrupted == suite # "live"

Collect ==
  /\ pc = "collect"
  /\ IF Interrupted
     THEN pc' = "ended" /\ UNCHANGED results
     ELSE pc' = "next" /\ results' = Append(results, result)
  /\ UNCHANGED <<suite, ctx, process, result>>

-----------------------------------------------------------------------------
\* executeWorker: a request that is too large is refused.
Request ==
  /\ pc = "request"
  /\ \/ pc' = "start" /\ UNCHANGED result
     \/ Return("input")
  /\ UNCHANGED <<suite, ctx, process, results>>

\* What an error of cmd.Run is called.
\* Mutant: it is the error of the process that is looked at, and a process that
\* was killed has one of its own.
CauseOfExit == IF worker = "killed" THEN "worker"
               ELSE IF ctx = "deadline" THEN "timeout"
               ELSE IF ctx = "canceled" THEN "canceled" ELSE "worker"
Cause == CASE ctx = "deadline" -> "timeout"
           [] ctx = "canceled" -> "canceled"
           [] ctx = "live" -> "worker"

\* cmd.Start fails when the context is done, or because the system says so.
StartWorker ==
  /\ pc = "start"
  /\ \/ ctx = "live" /\ pc' = "wait" /\ worker' = "evaluating"
     \/ pc' = "classify" /\ worker' = "failed"
  /\ UNCHANGED <<suite, ctx, killed, unsent, output, copied, result, results>>

\* The process has ended and is reaped.
\* Mutant: a context that is done is enough.
EndedOrDone == worker \notin Alive \/ ctx # "live"
Ended == worker \notin Alive

Wait ==
  /\ pc = "wait"
  /\ Ended
  /\ pc' = "classify"
  /\ UNCHANGED <<suite, ctx, process, result, results>>

\* A kill that finds the process dead but not reaped still makes an error.
Classify ==
  /\ pc = "classify"
  /\ Return(IF worker # "exited" \/ ~copied \/ killed THEN Cause ELSE "answer")
  /\ UNCHANGED <<suite, ctx, process, results>>

\* Mutant: nobody waits for the context.
KillsNever == FALSE
Kills == ctx # "live"

\* exec.CommandContext
KillWorker ==
  /\ pc = "wait" /\ ~killed
  /\ Kills
  /\ killed' = TRUE
  /\ worker' = IF worker \in Alive THEN "killed" ELSE worker
  /\ UNCHANGED <<suite, ctx, pc, unsent, output, copied, result, results>>

-----------------------------------------------------------------------------
\* ServeWorker
Evaluate ==
  /\ worker = "evaluating"
  /\ \/ worker' = "writing" /\ unsent' \in 1..MaxAnswerBytes
     \/ worker' = "failed" /\ UNCHANGED unsent
  /\ UNCHANGED <<suite, ctx, pc, killed, output, copied, result, results>>

\* The boundedBuffer takes a write, or refuses it and breaks the pipe.
Accepts == output < MaxResultBytes

WriteAnswer ==
  /\ worker = "writing"
  /\ CASE unsent = 0 -> worker' = "exited" /\ UNCHANGED <<unsent, output, copied>>
       [] unsent > 0 /\ ~copied -> worker' = "failed" /\ UNCHANGED <<unsent, output, copied>>
       [] OTHER -> /\ unsent' = unsent - 1
                   /\ output' = IF Accepts THEN output + 1 ELSE output
                   /\ copied' = Accepts
                   /\ UNCHANGED worker
  /\ UNCHANGED <<suite, ctx, pc, killed, result, results>>

-----------------------------------------------------------------------------
\* The deadline of the case, and the caller of the suite.
Running == pc \in {"request", "start", "wait", "classify"}

DeadlinePasses ==
  /\ Running /\ ctx = "live"
  /\ ctx' = "deadline"
  /\ UNCHANGED <<suite, pc, process, result, results>>

EndSuite ==
  /\ suite = "live" /\ pc # "ended"
  /\ suite' \in {"canceled", "deadline"}
  /\ ctx' = IF Running /\ ctx = "live" THEN suite' ELSE ctx
  /\ UNCHANGED <<pc, process, result, results>>

SuiteInit ==
  /\ suite = "live" /\ ctx = "live"
  /\ pc = "next"
  /\ worker = "none" /\ killed = FALSE
  /\ unsent = 0 /\ output = 0 /\ copied = TRUE
  /\ result = NoResult
  /\ results = <<>>

Suite == NextCase \/ Collect \/ Request \/ StartWorker \/ Wait \/ Classify
Process == KillWorker \/ Evaluate \/ WriteAnswer
SuiteNext == Suite \/ Process \/ DeadlinePasses \/ EndSuite

SafeSuiteSpec == SuiteInit /\ [][SuiteNext]_suiteVars

\* Goroutines and processes that can run do, a kill is delivered and the
\* deadline passes.  A mapping need not end.
Fairness ==
  /\ WF_suiteVars(Suite) /\ WF_suiteVars(KillWorker) /\ WF_suiteVars(WriteAnswer)
  /\ WF_suiteVars(DeadlinePasses)

SuiteSpec == SafeSuiteSpec /\ Fairness

-----------------------------------------------------------------------------
\* Every variable has its type.
TypeOK ==
  /\ suite \in Contexts /\ ctx \in Contexts
  /\ pc \in {"next", "request", "start", "wait", "classify", "collect", "ended"}
  /\ worker \in Alive \cup {"none", "exited", "failed", "killed"}
  /\ killed \in BOOLEAN /\ copied \in BOOLEAN
  /\ unsent \in Nat /\ output \in 0..MaxResultBytes
  /\ result \in Results
  /\ results \in Seq(Results)

\* Whatever Execute has returned, its mapping is not running any more: the
\* worker is killed, "unlike abandoning a goroutine" (isolated.go:21-22).
NoRunaway == pc \in {"next", "collect", "ended"} => worker \notin Alive

\* No case is collected, and so none passes or fails, that ended after the
\* context of the suite was done: the cancellation is never taken for a
\* result of the mapping (fixtures.go:140-142).
NotBlamed == \A i \in DOMAIN results : results[i].suite = "live"

\* A mapping that was killed is reported as what killed it, not as a broken
\* worker, and never as an answer.
KilledByName ==
  pc = "collect" /\ result.killed => result.kind \in {"timeout", "canceled"}

\* The suite ends although a mapping may run for ever.
SuiteEnds == <>(pc = "ended")
=============================================================================
