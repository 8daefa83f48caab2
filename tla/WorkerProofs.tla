------------------------------ MODULE WorkerProofs ------------------------------
(***************************************************************************)
(* MappingWorker for suites, answers and buffers of any size: no mapping   *)
(* runs on after its execution has returned, nothing that the end of the   *)
(* suite interrupted counts as a result, a killed mapping is reported by   *)
(* what killed it, and an answer is never a part of one.                   *)
(*                                                                         *)
(* NoRunaway, NotBlamed and KilledByName speak of an execution that has    *)
(* returned.  The invariant says what is so before it returns: who may be  *)
(* alive (Contained), that a kill has a reason that stays (Justified), and *)
(* that a result not yet collected was complete before the suite's context *)
(* was done, if that is not done now (Punctual).                           *)
(***************************************************************************)
EXTENDS MappingWorker, TLAPS

\* A process runs only while executeWorker waits for it.
Contained == worker \in Alive => pc = "wait"

\* A process is killed after it was started, and because the context is done.
Justified ==
  /\ pc \in {"request", "start"} => ~killed
  /\ pc \in {"wait", "classify"} /\ killed => ctx # "live"

\* A context that is not done now was not done before.
Punctual == pc = "collect" /\ suite = "live" => result.suite = "live"

\* A process that has ended well has written all of its answer.
Written == worker = "exited" => unsent = 0

\* What is returned as an answer is all the worker wrote: neither the limit of
\* the buffer nor a kill leaves a part of an answer to be decoded.
AnswerWhole ==
  pc = "collect" /\ result.kind = "answer" =>
    worker = "exited" /\ unsent = 0 /\ copied /\ ~killed

WorkerInv ==
  /\ TypeOK
  /\ Contained /\ Justified /\ Punctual /\ Written
  /\ NotBlamed /\ KilledByName /\ AnswerWhole

-----------------------------------------------------------------------------
\* A result has its kind, whether the process was killed, and the suite's context.
LEMMA ReturnTyped ==
  ASSUME TypeOK,
         NEW kind \in {"answer", "input", "timeout", "canceled", "worker"},
         Return(kind)
  PROVE  /\ result' \in Results
         /\ result'.kind = kind /\ result'.killed = killed /\ result'.suite = suite
  BY DEF Return, TypeOK, Results

\* What an error is called is a kind of result, and the end of a context if the
\* context is done.
LEMMA CauseNamed ==
  ASSUME ctx \in Contexts
  PROVE  /\ Cause \in {"timeout", "canceled", "worker"}
         /\ ctx # "live" => Cause \in {"timeout", "canceled"}
  BY DEF Cause, Contexts

\* The first case is about to be taken.
LEMMA InitInv ==
  ASSUME SuiteInit
  PROVE  WorkerInv
  <1> USE DEF SuiteInit
  <1>1. TypeOK
    <2>1. NoResult \in Results
      BY DEF NoResult, Results, Contexts
    <2>2. results \in Seq(Results)
      OBVIOUS
    <2>3. unsent \in Nat /\ output \in 0..MaxResultBytes
      BY WorkerAssumption
    <2> QED
      BY <2>1, <2>2, <2>3 DEF TypeOK, Contexts, Alive
  <1>2. Contained /\ Justified /\ Punctual /\ Written
    BY DEF Contained, Justified, Punctual, Written, Alive
  <1>3. NotBlamed /\ KilledByName /\ AnswerWhole
    BY DEF NotBlamed, KilledByName, AnswerWhole
  <1> QED
    BY <1>1, <1>2, <1>3 DEF WorkerInv

-----------------------------------------------------------------------------
(* RunSuite *)

\* A case starts with a context and a process of its own.
LEMMA NextCaseKeeps ==
  ASSUME WorkerInv, NextCase
  PROVE  WorkerInv'
  <1> USE DEF WorkerInv, NextCase, process
  <1>1. TypeOK'
    <2>1. unsent' \in Nat /\ output' \in 0..MaxResultBytes
      BY WorkerAssumption DEF TypeOK
    <2>2. UNCHANGED <<suite, result, results>> /\ pc' \in {"ended", "request"}
      OBVIOUS
    <2>3. ctx' \in Contexts /\ killed' \in BOOLEAN /\ copied' \in BOOLEAN
      BY DEF TypeOK
    <2>4. worker' \in Alive \cup {"none", "exited", "failed", "killed"}
      BY DEF TypeOK
    <2> QED
      BY <2>1, <2>2, <2>3, <2>4 DEF TypeOK
  <1>2. Contained' /\ Justified' /\ Punctual' /\ Written'
    BY DEF Contained, Justified, Punctual, Written, Alive
  <1>3. NotBlamed' /\ KilledByName' /\ AnswerWhole'
    BY DEF NotBlamed, KilledByName, AnswerWhole
  <1> QED
    BY <1>1, <1>2, <1>3

\* A result is collected only if the suite's context is not done after the run:
\* then it was not done during the run either.
LEMMA CollectKeeps ==
  ASSUME WorkerInv, Collect
  PROVE  WorkerInv'
  <1> USE DEF WorkerInv, Collect, process
  <1>1. TypeOK'
    BY DEF TypeOK
  <1>2. Contained' /\ Justified' /\ Punctual' /\ Written'
    BY DEF Contained, Justified, Punctual, Written
  <1>3. NotBlamed'
    <2>1. CASE Interrupted
      BY <2>1 DEF NotBlamed
    <2>2. CASE ~Interrupted
      <3>1. result.suite = "live"
        BY <2>2 DEF Interrupted, Punctual
      <3>2. results \in Seq(Results) /\ results' = Append(results, result)
        BY <2>2 DEF TypeOK
      <3>3. SUFFICES ASSUME NEW i \in 1..Len(results) + 1
                     PROVE  results'[i].suite = "live"
        BY <3>2 DEF NotBlamed
      <3>4. i \in DOMAIN results => results'[i] = results[i]
        BY <3>2
      <3>5. i \notin DOMAIN results => results'[i] = result
        BY <3>2
      <3> QED
        BY <3>1, <3>4, <3>5 DEF NotBlamed
    <2> QED
      BY <2>1, <2>2
  <1>4. KilledByName' /\ AnswerWhole'
    BY DEF KilledByName, AnswerWhole
  <1> QED
    BY <1>1, <1>2, <1>3, <1>4

-----------------------------------------------------------------------------
(* executeWorker *)

\* What is refused was never started, so never killed.
LEMMA RequestKeeps ==
  ASSUME WorkerInv, Request
  PROVE  WorkerInv'
  <1> USE DEF WorkerInv, process
  <1>1. CASE pc' = "start" /\ UNCHANGED result
    <2>1. TypeOK'
      BY <1>1 DEF TypeOK, Request
    <2>2. Contained' /\ Justified' /\ Punctual' /\ Written'
      BY <1>1 DEF Contained, Justified, Punctual, Written, Request
    <2>3. NotBlamed' /\ KilledByName' /\ AnswerWhole'
      BY <1>1 DEF NotBlamed, KilledByName, AnswerWhole, Request
    <2> QED
      BY <2>1, <2>2, <2>3
  <1>2. CASE Return("input")
    <2>1. /\ result' \in Results
          /\ result'.kind = "input" /\ result'.killed = killed /\ result'.suite = suite
      BY <1>2, ReturnTyped
    <2>2. /\ pc = "request" /\ pc' = "collect"
          /\ UNCHANGED <<suite, ctx, process, results>>
      BY <1>2 DEF Request, Return
    <2>3. TypeOK'
      BY <2>1, <2>2 DEF TypeOK
    <2>4. Contained' /\ Justified' /\ Punctual' /\ Written'
      BY <2>1, <2>2 DEF Contained, Justified, Punctual, Written
    <2>5. NotBlamed' /\ KilledByName' /\ AnswerWhole'
      BY <2>1, <2>2 DEF NotBlamed, KilledByName, AnswerWhole, Justified
    <2> QED
      BY <2>3, <2>4, <2>5
  <1> QED
    BY <1>1, <1>2 DEF Request

\* A process is started, or not at all.
LEMMA StartWorkerKeeps ==
  ASSUME WorkerInv, StartWorker
  PROVE  WorkerInv'
  <1> USE DEF WorkerInv, StartWorker
  <1>1. TypeOK'
    BY DEF TypeOK, Alive
  <1>2. Contained' /\ Justified' /\ Punctual' /\ Written'
    BY DEF Contained, Justified, Punctual, Written, Alive
  <1>3. NotBlamed' /\ KilledByName' /\ AnswerWhole'
    BY DEF NotBlamed, KilledByName, AnswerWhole
  <1> QED
    BY <1>1, <1>2, <1>3

\* The process is not alive when Wait returns.
LEMMA WaitKeeps ==
  ASSUME WorkerInv, Wait
  PROVE  WorkerInv'
  <1> USE DEF WorkerInv, Wait, process
  <1>1. TypeOK'
    BY DEF TypeOK
  <1>2. Contained' /\ Justified' /\ Punctual' /\ Written'
    BY DEF Contained, Justified, Punctual, Written, Ended
  <1>3. NotBlamed' /\ KilledByName' /\ AnswerWhole'
    BY DEF NotBlamed, KilledByName, AnswerWhole
  <1> QED
    BY <1>1, <1>2, <1>3

\* A process that was killed has a context that is done, which gives the error
\* its name; one that was not and ended well has written its answer.
LEMMA ClassifyKeeps ==
  ASSUME WorkerInv, Classify
  PROVE  WorkerInv'
  <1> USE DEF WorkerInv, process
  <1> DEFINE fails == worker # "exited" \/ ~copied \/ killed
             kind == IF fails THEN Cause ELSE "answer"
  <1>1. ctx \in Contexts
    BY DEF TypeOK
  <1>2. /\ kind \in {"answer", "input", "timeout", "canceled", "worker"}
        /\ kind = "answer" => ~fails
        /\ killed /\ ctx # "live" => kind \in {"timeout", "canceled"}
    BY <1>1, CauseNamed
  <1>3. Return(kind)
    BY DEF Classify
  <1>4. pc = "classify" /\ pc' = "collect" /\ UNCHANGED <<suite, ctx, process, results>>
    BY <1>3 DEF Classify, Return
  <1> HIDE DEF kind
  <1>5. /\ result' \in Results
        /\ result'.kind = kind /\ result'.killed = killed /\ result'.suite = suite
    BY <1>2, <1>3, ReturnTyped
  <1>6. TypeOK'
    BY <1>4, <1>5 DEF TypeOK
  <1>7. Contained' /\ Justified' /\ Punctual' /\ Written'
    BY <1>4, <1>5 DEF Contained, Justified, Punctual, Written
  <1>8. NotBlamed'
    BY <1>4 DEF NotBlamed
  <1>9. KilledByName'
    BY <1>2, <1>4, <1>5 DEF KilledByName, Justified
  <1>10. AnswerWhole'
    BY <1>2, <1>4, <1>5 DEF AnswerWhole, Written
  <1> QED
    BY <1>6, <1>7, <1>8, <1>9, <1>10

\* A kill has its reason in the context.
LEMMA KillWorkerKeeps ==
  ASSUME WorkerInv, KillWorker
  PROVE  WorkerInv'
  <1> USE DEF WorkerInv, KillWorker
  <1>1. TypeOK'
    BY DEF TypeOK, Alive
  <1>2. Contained' /\ Justified' /\ Punctual' /\ Written'
    BY DEF Contained, Justified, Punctual, Written, Alive, Kills
  <1>3. NotBlamed' /\ KilledByName' /\ AnswerWhole'
    BY DEF NotBlamed, KilledByName, AnswerWhole
  <1> QED
    BY <1>1, <1>2, <1>3

-----------------------------------------------------------------------------
(* ServeWorker, the deadline and the caller *)

\* The worker computes its answer while it is waited for.
LEMMA EvaluateKeeps ==
  ASSUME WorkerInv, Evaluate
  PROVE  WorkerInv'
  <1> USE DEF WorkerInv, Evaluate
  <1>1. pc = "wait"
    BY DEF Contained, Alive
  <1>2. TypeOK'
    BY WorkerAssumption DEF TypeOK, Alive
  <1>3. Contained' /\ Justified' /\ Punctual' /\ Written'
    BY <1>1 DEF Contained, Justified, Punctual, Written, Alive
  <1>4. NotBlamed' /\ KilledByName' /\ AnswerWhole'
    BY <1>1 DEF NotBlamed, KilledByName, AnswerWhole
  <1> QED
    BY <1>2, <1>3, <1>4

\* It writes a byte, or ends, and the buffer stays within its limit.
LEMMA WriteAnswerKeeps ==
  ASSUME WorkerInv, WriteAnswer
  PROVE  WorkerInv'
  <1> USE DEF WorkerInv
  <1>1. /\ pc = "wait" /\ worker = "writing"
        /\ UNCHANGED <<suite, ctx, pc, killed, result, results>>
    BY DEF WriteAnswer, Contained, Alive
  <1>2. \/ unsent = 0 /\ worker' = "exited" /\ UNCHANGED <<unsent, output, copied>>
        \/ worker' = "failed" /\ UNCHANGED <<unsent, output, copied>>
        \/ /\ unsent # 0 /\ unsent' = unsent - 1
           /\ output' = IF Accepts THEN output + 1 ELSE output
           /\ copied' = Accepts
           /\ worker' = "writing"
    BY <1>1 DEF WriteAnswer, TypeOK
  <1>3. TypeOK'
    <2>1. unsent' \in Nat /\ worker' \in Alive \cup {"exited", "failed"}
      BY <1>2 DEF TypeOK, Alive
    <2>2. output' \in 0..MaxResultBytes
      BY <1>2, WorkerAssumption DEF TypeOK, Accepts
    <2>3. copied' \in BOOLEAN
      <3>1. CASE copied' = copied
        BY <3>1 DEF TypeOK
      <3>2. CASE copied' = Accepts /\ output < MaxResultBytes
        BY <3>2 DEF Accepts
      <3>3. CASE copied' = Accepts /\ ~(output < MaxResultBytes)
        BY <3>3 DEF Accepts
      <3> QED
        BY <1>2, <3>1, <3>2, <3>3
    <2> QED
      BY <1>1, <2>1, <2>2, <2>3 DEF TypeOK
  <1>4. Contained' /\ Justified' /\ Punctual' /\ Written'
    BY <1>1, <1>2 DEF Contained, Justified, Punctual, Written
  <1>5. NotBlamed' /\ KilledByName' /\ AnswerWhole'
    BY <1>1 DEF NotBlamed, KilledByName, AnswerWhole
  <1> QED
    BY <1>3, <1>4, <1>5

\* A context that is done stays done.
LEMMA ContextsEnd ==
  ASSUME WorkerInv, DeadlinePasses \/ EndSuite
  PROVE  WorkerInv'
  <1> USE DEF WorkerInv, process
  <1>1. /\ UNCHANGED <<pc, process, result, results>>
        /\ suite' = suite \/ suite' # "live"
        /\ ctx' = ctx \/ ctx' # "live"
        /\ suite' \in Contexts /\ ctx' \in Contexts
    BY DEF DeadlinePasses, EndSuite, TypeOK, Contexts
  <1>2. TypeOK'
    BY <1>1 DEF TypeOK
  <1>3. Contained' /\ Justified' /\ Punctual' /\ Written'
    BY <1>1 DEF Contained, Justified, Punctual, Written
  <1>4. NotBlamed' /\ KilledByName' /\ AnswerWhole'
    BY <1>1 DEF NotBlamed, KilledByName, AnswerWhole
  <1> QED
    BY <1>2, <1>3, <1>4

-----------------------------------------------------------------------------
\* Every step keeps the invariant.
LEMMA StepKeeps ==
  ASSUME WorkerInv, [SuiteNext]_suiteVars
  PROVE  WorkerInv'
  <1>1. CASE Suite
    BY <1>1, NextCaseKeeps, CollectKeeps, RequestKeeps, StartWorkerKeeps, WaitKeeps,
       ClassifyKeeps DEF Suite
  <1>2. CASE Process
    BY <1>2, KillWorkerKeeps, EvaluateKeeps, WriteAnswerKeeps DEF Process
  <1>3. CASE DeadlinePasses \/ EndSuite
    BY <1>3, ContextsEnd
  <1>4. CASE UNCHANGED suiteVars
    <2> USE <1>4 DEF suiteVars, process, WorkerInv
    <2>1. TypeOK' /\ Contained' /\ Justified' /\ Punctual' /\ Written'
      BY DEF TypeOK, Contained, Justified, Punctual, Written
    <2>2. NotBlamed' /\ KilledByName' /\ AnswerWhole'
      BY DEF NotBlamed, KilledByName, AnswerWhole
    <2> QED
      BY <2>1, <2>2
  <1> QED
    BY <1>1, <1>2, <1>3, <1>4 DEF SuiteNext

\* The invariant holds in every reachable state.
LEMMA Invariance == SafeSuiteSpec => []WorkerInv
  BY InitInv, StepKeeps, PTL DEF SafeSuiteSpec

\* The suite, its worker and its buffer are type correct: the buffer never holds
\* more than its limit.
THEOREM WorkerTyped == SafeSuiteSpec => []TypeOK
  <1>1. WorkerInv => TypeOK
    BY DEF WorkerInv
  <1> QED
    BY <1>1, Invariance, PTL

\* Whatever executeWorker has returned, its worker is not running.
THEOREM WorkerStops == SafeSuiteSpec => []NoRunaway
  <1>1. WorkerInv => NoRunaway
    BY DEF WorkerInv, Contained, NoRunaway
  <1> QED
    BY <1>1, Invariance, PTL

\* No result is collected that the end of the suite may have caused.
THEOREM CancellationNotBlamed == SafeSuiteSpec => []NotBlamed
  <1>1. WorkerInv => NotBlamed
    BY DEF WorkerInv
  <1> QED
    BY <1>1, Invariance, PTL

\* A mapping that was killed is reported as a timeout or a cancellation.
THEOREM KillNamed == SafeSuiteSpec => []KilledByName
  <1>1. WorkerInv => KilledByName
    BY DEF WorkerInv
  <1> QED
    BY <1>1, Invariance, PTL

\* Neither the limit of the buffer nor a kill makes a part of an answer an answer.
THEOREM AnswersWhole == SafeSuiteSpec => []AnswerWhole
  <1>1. WorkerInv => AnswerWhole
    BY DEF WorkerInv
  <1> QED
    BY <1>1, Invariance, PTL
=============================================================================
