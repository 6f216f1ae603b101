--------------------------- MODULE AsyncEnvProofs ---------------------------
(* Proofs about ActionExecutor and AsyncEnv, for every replanning interval, *)
(* set of plan lengths, set of environments and number of calls, with       *)
(* auto_reset and without; and about AsyncRecorder, the other half of the   *)
(* same worker process, for every number of environments and every queue.   *)
EXTENDS AsyncEnv, AsyncRecorder, SequenceTheorems, WellFoundedInduction, TLAPS

-----------------------------------------------------------------------------
(* Lemmas about the queue *)

\* What is left of a plan after its first e actions, n of them.
LEMMA RestOfPlan ==
  ASSUME NEW n \in Int, NEW e \in Nat
  PROVE  LET rest == [k \in 1..n |-> e + k - 1] IN
         /\ rest \in Seq(Nat)
         /\ Len(rest) = Max0(n)
         /\ \A k \in 1..Len(rest) : rest[k] = e + k - 1
<1> DEFINE m == Max0(n)
           rest == [k \in 1..m |-> e + k - 1]
<1>1. m \in Nat /\ 1..m = 1..n
  BY DEF Max0
<1>2. \A k \in 1..m : e + k - 1 \in Nat
  BY <1>1
<1>3. rest \in Seq(Nat)
  <2> HIDE DEF m
  <2> QED
    BY <1>1, <1>2, IsASeq
<1>4. Len(rest) = m /\ DOMAIN rest = 1..m
  BY <1>1, <1>3
<1> QED
  BY <1>1, <1>3, <1>4

\* Taking an action off the queue moves every other one up by one place.
LEMMA TailOfQueue ==
  ASSUME TypeOK, queue # <<>>
  PROVE  /\ Len(queue) \in Nat \ {0}
         /\ Tail(queue) \in Seq(Nat)
         /\ Len(Tail(queue)) = Len(queue) - 1
         /\ \A k \in 1..Len(Tail(queue)) : Tail(queue)[k] = queue[k + 1]
<1>1. queue \in Seq(Nat)
  BY DEF TypeOK
<1> QED
  BY <1>1, HeadTailProperties, EmptySeq

LEMMA EmptyQueue == <<>> \in Seq(Nat) /\ Len(<<>>) = 0
BY EmptySeq

LEMMA InitInv == Init => ExecInv
<1> SUFFICES ASSUME Init PROVE ExecInv
  OBVIOUS
<1>1. TypeOK
  <2>1. origin \in 0..completed /\ planOrigin \in 0..origin /\ target \in Nat /\ calls \in Nat
    BY DEF Init, NoTarget
  <2>2. queue \in Seq(Nat) /\ completed \in Nat
    BY EmptyQueue DEF Init
  <2>3. /\ paused \in BOOLEAN /\ closed \in BOOLEAN /\ failed \in BOOLEAN
        /\ late \in BOOLEAN /\ episodeReset \in BOOLEAN
    BY DEF Init
  <2> QED
    BY <2>1, <2>2, <2>3 DEF Init, TypeOK, CallerStates
<1>2. Aligned /\ Covered /\ OnTime /\ Quiescent
  BY EmptyQueue DEF Init, Aligned, Covered, OnTime, Quiescent
<1> QED
  BY <1>1, <1>2 DEF Init, ExecInv

-----------------------------------------------------------------------------
(* The steps of the control thread *)

LEMMA ThreadKeepsInv ==
  ASSUME ExecInv, ThreadStep
  PROVE  ExecInv'
<1> USE DEF queueVars, flags, NoTarget
<1>1. TypeOK /\ Len(queue) \in Nat
  BY LenProperties DEF ExecInv, TypeOK
<1>2. CASE ThreadWaits
  <2>1. TypeOK'
    BY <1>1, <1>2 DEF ThreadWaits, Wait, TypeOK, Threads
  <2> QED
    BY <1>2, <2>1 DEF ThreadWaits, ExecInv, Aligned, Covered, OnTime, Quiescent, Busy
<1>3. CASE ThreadReturns
  <2>1. TypeOK'
    BY <1>1, <1>3 DEF ThreadReturns, TypeOK
  <2> QED
    BY <1>3, <2>1 DEF ThreadReturns, ThreadAwake, ExecInv, Aligned, Covered, OnTime,
                      Quiescent, Busy
<1>4. CASE Take
  <2>1. /\ queue # <<>> /\ ~paused /\ thread = "idle" /\ caller # "snapshot" /\ ~closed
        /\ target # NoTarget => completed < target
    BY <1>1, <1>4 DEF Take, ThreadAwake, Held, Locked, TypeOK
  <2>2. TypeOK'
    BY <1>1, <1>4, <2>1, TailOfQueue DEF Take, TypeOK
  <2>3. Busy = 0 /\ Busy' = 1
    BY <1>4, <2>1 DEF Take, Busy
  <2>4. Aligned'
    <3> SUFFICES ASSUME ~failed, NEW k \in 1..Len(Tail(queue))
                 PROVE  Tail(queue)[k] = completed + 1 + (k - 1) - planOrigin
      BY <1>4, <2>3 DEF Take, Aligned
    <3>1. k + 1 \in 1..Len(queue) /\ Tail(queue)[k] = queue[k + 1]
      BY <1>1, <2>1, TailOfQueue
    <3>2. queue[k + 1] = completed + 0 + (k + 1 - 1) - planOrigin
      BY <3>1, <2>3 DEF ExecInv, Aligned
    <3> QED
      BY <1>1, <3>1, <3>2, TailOfQueue DEF TypeOK
  <2>5. Covered'
    BY <1>1, <1>4, <2>1, <2>3, TailOfQueue DEF Take, ExecInv, Covered, TypeOK
  <2>6. OnTime' /\ Quiescent'
    BY <1>4, <2>1 DEF Take, OnTime, Quiescent
  <2>7. (caller = "exchange" /\ ~late => completed + Busy <= target)'
    BY <1>1, <1>4, <2>1, <2>3, ExecutorAssumption DEF Take, ExecInv, TypeOK
  <2> QED
    BY <1>4, <2>1, <2>2, <2>4, <2>5, <2>6, <2>7 DEF Take, ExecInv
<1>5. CASE Finish
  <2>1. TypeOK'
    BY <1>1, <1>5 DEF Finish, NotifyAll, TypeOK
  <2>2. completed' + Busy' = completed + Busy
    BY <1>1, <1>5 DEF Finish, Busy, TypeOK
  <2> QED
    BY <1>1, <1>5, <2>1, <2>2 DEF Finish, Locked, ExecInv, Aligned, Covered, OnTime,
                                  Quiescent, TypeOK
<1>6. CASE Fail
  <2>1. TypeOK'
    BY <1>1, <1>6 DEF Fail, NotifyAll, TypeOK
  <2> QED
    BY <1>1, <1>6, <2>1 DEF Fail, Locked, ExecInv, Aligned, Covered, OnTime, Quiescent,
                            Busy, TypeOK
<1> QED
  BY <1>2, <1>3, <1>4, <1>5, <1>6 DEF ThreadStep

-----------------------------------------------------------------------------
(* The steps of the caller *)

LEMMA WaitKeepsInv ==
  ASSUME ExecInv, ExchangeWaits \/ ExchangeRaises \/ SnapshotBegin \/ ResetWaits \/ CloseReturns
  PROVE  ExecInv'
<1> USE DEF queueVars, flags, NoTarget, CallerAwake
<1>1. TypeOK /\ Busy' = Busy
  BY DEF ExecInv, Busy, ExchangeWaits, ExchangeRaises, SnapshotBegin, ResetWaits, CloseReturns
<1>2. TypeOK'
  BY <1>1 DEF TypeOK, Wait, Threads, CallerStates, ExchangeWaits, ExchangeRaises,
              SnapshotBegin, ResetWaits, CloseReturns
<1>3. CASE ExchangeWaits \/ ResetWaits
  BY <1>1, <1>2, <1>3 DEF ExchangeWaits, ResetWaits, ExecInv, Aligned, Covered, OnTime, Quiescent
<1>4. CASE ExchangeRaises
  BY <1>1, <1>2, <1>4 DEF ExchangeRaises, ExecInv, Aligned, Covered, OnTime, Quiescent
<1>5. CASE SnapshotBegin
  <2>1. ~late => completed = target /\ thread # "stepping"
    BY <1>1, <1>5 DEF SnapshotBegin, ExecInv, Busy, TypeOK
  <2> QED
    BY <1>1, <1>2, <1>5, <2>1 DEF SnapshotBegin, ExecInv, Aligned, Covered, OnTime, Quiescent
<1>6. CASE CloseReturns
  BY <1>1, <1>2, <1>6 DEF CloseReturns, ExecInv, Aligned, Covered, OnTime, Quiescent
<1> QED
  BY <1>3, <1>4, <1>5, <1>6

LEMMA SnapshotKeepsInv ==
  ASSUME ExecInv, Snapshot
  PROVE  ExecInv'
<1> USE DEF queueVars, flags, NoTarget
<1>1. TypeOK /\ Busy' = Busy
  BY DEF ExecInv, Busy, Snapshot, SnapshotEnd, SnapshotRaises
<1>2. ASSUME NEW reset \in BOOLEAN, SnapshotEnd(reset) PROVE ExecInv'
  <2>1. queue' \in {queue, <<>>} /\ (episodeReset' => queue' = <<>>)
    BY <1>2 DEF SnapshotEnd
  <2>2. TypeOK'
    BY <1>1, <1>2, <2>1, EmptyQueue DEF SnapshotEnd, NotifyAll, TypeOK, CallerStates
  <2>3. Aligned'
    BY <1>1, <1>2, <2>1, EmptyQueue DEF SnapshotEnd, ExecInv, Aligned
  <2>4. Quiescent'
    BY <1>2, <2>1 DEF SnapshotEnd, ExecInv, Quiescent
  <2> QED
    BY <1>2, <2>1, <2>2, <2>3, <2>4 DEF SnapshotEnd, ExecInv, Covered, OnTime
<1>3. CASE SnapshotRaises
  <2>1. TypeOK'
    BY <1>1, <1>3 DEF SnapshotRaises, NotifyAll, TypeOK, CallerStates
  <2> QED
    BY <1>1, <1>3, <2>1 DEF SnapshotRaises, ExecInv, Aligned, Covered, OnTime, Quiescent
<1> QED
  BY <1>2, <1>3 DEF Snapshot

LEMMA ExchangeKeepsInv ==
  ASSUME ExecInv, NEW length \in Lengths, Exchange(length)
  PROVE  ExecInv'
<1> USE DEF queueVars, flags, NoTarget
<1>1. TypeOK /\ Busy' = Busy /\ Busy \in {0, 1}
  BY DEF ExecInv, Busy, Exchange
<1>2. Replan \in Nat \ {0} /\ length \in Nat /\ length >= Replan
  BY ExecutorAssumption, <1>1 DEF Exchange, Refused, TypeOK
<1>3. ~failed /\ caller = "idle" /\ ~closed /\ thread # "stopped"
  BY DEF Exchange, Call, Refused, ExecInv
<1>4. Elapsed = completed + Busy - origin /\ Elapsed \in Nat
  BY <1>1 DEF Elapsed, Max0, TypeOK
<1>5. /\ queue' \in Seq(Nat)
      /\ Len(queue') = Max0(length - Elapsed)
      /\ \A k \in 1..Len(queue') : queue'[k] = Elapsed + k - 1
  <2>1. queue' = [k \in 1..(length - Elapsed) |-> Elapsed + k - 1]
    BY DEF Exchange
  <2>2. length - Elapsed \in Int
    BY <1>2, <1>4
  <2> HIDE DEF Exchange
  <2> QED
    BY <2>1, <2>2, <1>4, RestOfPlan
<1>6. /\ target' = origin + Replan /\ planOrigin' = origin /\ ~paused' /\ ~episodeReset'
      /\ late' <=> completed + Busy > target'
      /\ UNCHANGED <<completed, origin, closed, failed, thread>>
  BY DEF Exchange
<1>7. \/ completed < target' /\ caller' = "exchange" /\ waiting' = {"caller"}
      \/ completed >= target' /\ caller' = "snapshot" /\ waiting' = {}
  BY DEF Exchange, NotifyAll
<1>8. TypeOK'
  <2>1. target' \in Nat /\ planOrigin' \in 0..origin'
    BY <1>1, <1>2, <1>6 DEF TypeOK
  <2>2. calls' \in Nat
    BY <1>1 DEF Exchange, Call, TypeOK
  <2>3. paused' \in BOOLEAN /\ episodeReset' \in BOOLEAN
    BY DEF Exchange
  <2>4. late' \in BOOLEAN
    <3>1. late' = (completed + Busy > target')
      BY DEF Exchange
    <3>2. (completed + Busy > target') \in BOOLEAN
      BY <1>1, <2>1 DEF TypeOK
    <3> QED
      BY <3>1, <3>2, Zenon
  <2>5. caller' \in CallerStates /\ waiting' \subseteq Threads
    BY <1>7 DEF CallerStates, Threads
  <2> QED
    BY <1>1, <1>5, <1>6, <2>1, <2>2, <2>3, <2>4, <2>5 DEF TypeOK
<1>9. Aligned'
  BY <1>1, <1>4, <1>5, <1>6 DEF Aligned, TypeOK
<1>10. Covered'
  BY <1>1, <1>2, <1>4, <1>5, <1>6 DEF Covered, Max0, TypeOK
<1>11. OnTime'
  <2>1. CASE late'
    BY <2>1 DEF OnTime
  <2>2. CASE ~late' /\ completed < target'
    BY <1>7, <2>2, <1>1, <1>2, <1>6 DEF OnTime, TypeOK
  <2>3. CASE ~late' /\ completed >= target'
    <3>1. ~(completed + Busy > target')
      BY <1>6, <2>3
    <3>2. target' \in Nat /\ completed \in Nat
      BY <1>8, <1>1 DEF TypeOK
    <3>3. completed = target' /\ Busy = 0
      BY <3>1, <3>2, <2>3, <1>1
    <3> QED
      BY <3>3, <1>6 DEF OnTime, Busy
  <2>4. completed < target' \/ completed >= target'
    BY <1>1, <1>8 DEF TypeOK
  <2> QED
    BY <2>1, <2>2, <2>3, <2>4
<1>12. Quiescent'
  BY <1>6 DEF Quiescent
<1>13. (caller = "exchange" /\ ~late => completed + Busy <= target)'
  <2>1. completed' + Busy' = completed + Busy /\ completed + Busy \in Nat /\ target' \in Nat
    BY <1>1, <1>6, <1>8 DEF TypeOK
  <2>2. ~late' => ~(completed + Busy > target')
    BY <1>6
  <2> QED
    BY <2>1, <2>2
<1> QED
  BY <1>3, <1>6, <1>7, <1>8, <1>9, <1>10, <1>11, <1>12, <1>13 DEF ExecInv

LEMMA CallKeepsInv ==
  ASSUME ExecInv, \/ \E length \in Lengths : ExchangeRefused(length)
                  \/ ResetCall \/ ResetReturns \/ CloseCall \/ Terminated
  PROVE  ExecInv'
<1> USE DEF queueVars, flags, NoTarget
<1>1. TypeOK
  BY DEF ExecInv
<1>2. CASE \E length \in Lengths : ExchangeRefused(length)
  <2>1. TypeOK'
    BY <1>1, <1>2 DEF ExchangeRefused, Call, TypeOK
  <2> QED
    BY <1>2, <2>1 DEF ExchangeRefused, ExecInv, Aligned, Covered, OnTime, Quiescent, Busy
<1>3. CASE ResetCall
  <2>1. TypeOK'
    BY <1>1, <1>3, EmptyQueue DEF ResetCall, Call, TypeOK, CallerStates
  <2>2. Aligned'
    BY <1>3, EmptyQueue DEF ResetCall, Aligned
  <2> QED
    BY <1>3, <2>1, <2>2 DEF ResetCall, Call, ExecInv, Covered, OnTime, Quiescent
<1>4. CASE ResetReturns
  <2>1. queue = <<>> /\ paused /\ thread # "stepping" /\ ~closed /\ caller = "reset"
    BY <1>1, <1>4 DEF ResetReturns, CallerAwake, ExecInv
  <2>2. TypeOK'
    <3>1. origin' \in 0..completed' /\ planOrigin' \in 0..origin' /\ completed' \in Nat
      BY <1>4 DEF ResetReturns
    <3>2. episodeReset' \in BOOLEAN /\ caller' \in CallerStates
      BY <1>4 DEF ResetReturns, CallerStates
    <3> QED
      BY <1>1, <1>4, <3>1, <3>2 DEF ResetReturns, TypeOK
  <2>3. Aligned'
    BY <1>4, <2>1, EmptyQueue DEF ResetReturns, Aligned
  <2> QED
    BY <1>4, <2>1, <2>2, <2>3 DEF ResetReturns, ExecInv, Covered, OnTime, Quiescent
<1>5. CASE CloseCall
  <2>1. TypeOK'
    BY <1>1, <1>5 DEF CloseCall, NotifyAll, TypeOK, CallerStates
  <2> QED
    BY <1>5, <2>1 DEF CloseCall, ExecInv, Aligned, Covered, OnTime, Quiescent, Busy
<1>6. CASE Terminated
  BY <1>6 DEF Terminated, execVars, TypeOK, ExecInv, Aligned, Covered, OnTime, Quiescent, Busy
<1> QED
  BY <1>2, <1>3, <1>4, <1>5, <1>6

LEMMA NextKeepsInv == ExecInv /\ [Next]_execVars => ExecInv'
<1> SUFFICES ASSUME ExecInv, [Next]_execVars PROVE ExecInv'
  OBVIOUS
<1>1. CASE UNCHANGED execVars
  BY <1>1 DEF execVars, TypeOK, ExecInv, Aligned, Covered, OnTime, Quiescent, Busy
<1>2. CASE Next
  BY <1>2, ThreadKeepsInv, WaitKeepsInv, SnapshotKeepsInv, ExchangeKeepsInv, CallKeepsInv
     DEF Next, CallerStep, NewCall
<1> QED
  BY <1>1, <1>2

-----------------------------------------------------------------------------
(* Theorems *)

\* ExecInv holds in every reachable state.
THEOREM ExecutorInvariance == Spec => []ExecInv
<1> QED
  BY InitInv, NextKeepsInv, PTL DEF Spec

\* The executor's variables keep their types (the counters never cross).
THEOREM ExecutorTypeCorrect == Spec => []TypeOK
<1>1. ExecInv => TypeOK
  BY DEF ExecInv
<1> QED
  BY <1>1, ExecutorInvariance, PTL

\* Every queued action is the one planned for the tick it will be executed at,
\* whatever the control thread did between the observation and the plan.
THEOREM PlansStayAligned == Spec => []Aligned
<1>1. ExecInv => Aligned
  BY DEF ExecInv
<1> QED
  BY <1>1, ExecutorInvariance, PTL

\* The tick an exchange waits for is always reached by the queued actions.
THEOREM TargetsAreReachable == Spec => []Covered
<1>1. ExecInv => Covered
  BY DEF ExecInv
<1> QED
  BY <1>1, ExecutorInvariance, PTL

\* An exchange that arrives in time gets the observation of its own tick.
THEOREM ObservationsOnTime == Spec => []OnTime
<1>1. ExecInv => OnTime
  BY DEF ExecInv
<1> QED
  BY <1>1, ExecutorInvariance, PTL

\* A paused executor runs nothing and has nothing to run.
THEOREM PauseIsQuiescent == Spec => []Quiescent
<1>1. ExecInv => Quiescent
  BY DEF ExecInv
<1> QED
  BY <1>1, ExecutorInvariance, PTL

\* No action of an ended episode's plan is started in the next episode.
THEOREM OldPlansAreDropped == Spec => NothingLeftOver
<1>1. ExecInv => (Take => ~episodeReset)
  BY DEF ExecInv, Take, Held
<1> QED
  BY <1>1, ExecutorInvariance, PTL DEF Spec, NothingLeftOver

-----------------------------------------------------------------------------
(* The environment only makes steps of the executor it is built on *)

LEMMA StepIsExecutorStep == [EnvNext]_vars => [Next]_execVars
<1> USE DEF ThreadStep, CallerStep, NewCall, Snapshot, Next
<1>1. UNCHANGED vars => UNCHANGED execVars
  BY DEF vars
<1>2. StepTake \/ StepRaises \/ StepFinish \/ ThreadIdles => ThreadStep
  BY DEF StepTake, StepRaises, StepFinish, ThreadIdles
<1>3. StepCopy \/ StepFlag \/ (\E over \in SUBSET Envs : StepEnv(over))
        \/ SnapshotRead \/ SnapshotReset => UNCHANGED execVars
  BY DEF StepCopy, StepFlag, StepEnv, SnapshotRead, SnapshotReset
<1>4. Step \/ StepRefused \/ Reset \/ FinishRollout => NewCall
  BY DEF Step, StepRefused, Reset, FinishRollout
<1>5. SnapshotClear \/ SnapshotFails => Snapshot
  BY DEF SnapshotClear, SnapshotFails
<1>6. StepBlocks \/ StepWakes \/ StepFails \/ ResetBlocks \/ ResetOnly
        \/ (\E resetEval \in BOOLEAN : EnvReset(resetEval)) => CallerStep
  BY DEF StepBlocks, StepWakes, StepFails, ResetBlocks, ResetOnly, EnvReset
<1>7. Close => Next
  BY DEF Close
<1> QED
  BY <1>1, <1>2, <1>3, <1>4, <1>5, <1>6, <1>7 DEF EnvNext, EnvThreadStep, EnvCallerStep, Close

LEMMA EnvInitInv == EnvInit => EnvInv
<1> SUFFICES ASSUME EnvInit PROVE EnvInv
  OBVIOUS
<1>1. ExecInv
  BY InitInv DEF EnvInit
<1>2. EnvTypeOK
  BY <1>1 DEF ExecInv, EnvInit, Init, EnvTypeOK
<1>3. InTime
  BY DEF EnvInit, Init, InTime, Ledger
<1> QED
  BY <1>1, <1>2, <1>3 DEF EnvInv

-----------------------------------------------------------------------------
(* A snapshot taken in time does not overlap a step *)

LEMMA NoOverlap ==
  ASSUME EnvInv, AutoReset, ~overrun, snap # "none"
  PROVE  phase = "none" /\ completed # origin
<1>1. caller = "snapshot" /\ ~late
  BY DEF EnvInv, EnvTypeOK, InTime
<1>2. completed = target /\ thread # "stepping" /\ target = origin + Replan
  BY <1>1 DEF EnvInv, ExecInv, OnTime
<1>3. Replan \in Nat \ {0} /\ origin \in Nat
  BY ExecutorAssumption DEF EnvInv, ExecInv, TypeOK
<1> QED
  BY <1>2, <1>3 DEF EnvInv, EnvTypeOK

-----------------------------------------------------------------------------
(* Steps of the control thread *)

LEMMA ThreadKeepsEnv ==
  ASSUME EnvInv, ExecInv',
         \/ StepTake \/ StepCopy \/ StepRaises \/ StepFlag \/ StepFinish \/ ThreadIdles
         \/ \E over \in SUBSET Envs : StepEnv(over)
  PROVE  EnvTypeOK' /\ InTime'
<1> USE DEF episodeVars, stepVars, snapVars, useVars, queueVars, flags
<1>1. TypeOK' /\ EnvTypeOK /\ InTime /\ completed \in Nat /\ origin \in 0..completed
  BY DEF EnvInv, EnvTypeOK, ExecInv, TypeOK
<1>2. CASE StepTake
  <2>1. thread = "idle" /\ phase = "none" /\ caller # "snapshot" /\ snap = "none"
    BY <1>1, <1>2 DEF StepTake, Take, ThreadAwake, Locked, EnvTypeOK
  <2>2. EnvTypeOK'
    BY <1>1, <1>2, <2>1 DEF StepTake, Take, EnvTypeOK
  <2>3. caller # "reset"
    BY <1>2 DEF StepTake, Take, Held, EnvInv, ExecInv
  <2> QED
    BY <1>1, <1>2, <2>1, <2>2, <2>3 DEF StepTake, Take, InTime, Ledger
<1>3. CASE StepCopy
  <2>1. EnvTypeOK'
    BY <1>1, <1>3 DEF StepCopy, EnvTypeOK, execVars
  <2> QED
    BY <1>1, <1>3, <2>1 DEF StepCopy, InTime, Ledger, execVars
<1>4. CASE StepRaises
  <2>1. EnvTypeOK'
    BY <1>1, <1>4 DEF StepRaises, Fail, EnvTypeOK
  <2> QED
    BY <1>1, <1>4, <2>1 DEF StepRaises, Fail, InTime, Ledger
<1>5. CASE StepFlag
  <2>1. EnvTypeOK'
    BY <1>1, <1>5 DEF StepFlag, EnvTypeOK, execVars
  <2>2. AutoReset /\ ~overrun => snap = "none"
    BY <1>5, NoOverlap DEF StepFlag
  <2> QED
    BY <1>1, <1>5, <2>1, <2>2 DEF StepFlag, InTime, Ledger, execVars
<1>6. CASE StepFinish
  <2>1. EnvTypeOK'
    BY <1>1, <1>6 DEF StepFinish, Finish, EnvTypeOK
  <2>2. completed' # origin'
    BY <1>1, <1>6 DEF StepFinish, Finish
  <2> QED
    BY <1>1, <1>6, <2>1, <2>2 DEF StepFinish, Finish, InTime, Ledger
<1>7. CASE ThreadIdles
  <2>1. EnvTypeOK'
    BY <1>1, <1>7 DEF ThreadIdles, ThreadWaits, ThreadReturns, ThreadAwake, envVars, EnvTypeOK
  <2> QED
    BY <1>1, <1>7, <2>1 DEF ThreadIdles, ThreadWaits, ThreadReturns, envVars, InTime, Ledger
<1>8. ASSUME NEW over \in SUBSET Envs, StepEnv(over) PROVE EnvTypeOK' /\ InTime'
  <2>1. EnvTypeOK'
    BY <1>1, <1>8 DEF StepEnv, Stepped, EnvTypeOK, execVars
  <2>2. AutoReset /\ ~overrun => snap = "none"
    BY <1>8, NoOverlap DEF StepEnv
  <2>3. ~overrun => ended' = execDone \cup merged'
    <3>1. SUFFICES ASSUME ~overrun PROVE ended' = execDone \cup merged'
      OBVIOUS
    <3>2. ended = execDone /\ stepDone = execDone
      BY <1>1, <1>8, <2>2, <3>1 DEF StepEnv, InTime, Ledger
    <3> QED
      BY <1>1, <1>8, <3>2 DEF StepEnv, Stepped, EnvTypeOK
  <2> QED
    BY <1>1, <1>8, <2>1, <2>2, <2>3 DEF StepEnv, InTime, Ledger, execVars
<1> QED
  BY <1>2, <1>3, <1>4, <1>5, <1>6, <1>7, <1>8

-----------------------------------------------------------------------------
(* Calls and snapshots *)

LEMMA SnapshotKeepsEnv ==
  ASSUME EnvInv, ExecInv',
         SnapshotRead \/ SnapshotReset \/ SnapshotClear \/ SnapshotFails
  PROVE  EnvTypeOK' /\ InTime'
<1> USE DEF episodeVars, stepVars, snapVars, useVars, queueVars, flags
<1>1. TypeOK' /\ EnvTypeOK /\ InTime
  BY DEF EnvInv, ExecInv
<1>2. snap # "none" /\ caller = "snapshot"
  BY <1>1 DEF SnapshotRead, SnapshotReset, SnapshotClear, SnapshotFails, EnvTypeOK
<1>3. AutoReset /\ ~overrun => phase = "none" /\ completed # origin
  BY <1>2, NoOverlap
<1>4. CASE SnapshotRead
  <2>1. EnvTypeOK'
    BY <1>1, <1>4 DEF SnapshotRead, EnvTypeOK, execVars
  <2> QED
    BY <1>1, <1>3, <1>4, <2>1 DEF SnapshotRead, InTime, Ledger, execVars
<1>5. CASE SnapshotReset
  <2>1. EnvTypeOK'
    BY <1>1, <1>5 DEF SnapshotReset, EnvTypeOK, execVars
  <2> QED
    BY <1>1, <1>2, <1>3, <1>5, <2>1 DEF SnapshotReset, InTime, Ledger, execVars
<1>6. CASE SnapshotClear
  <2>1. caller' = "idle" /\ UNCHANGED <<thread, late>>
    BY <1>6 DEF SnapshotClear, SnapshotEnd
  <2>2. EnvTypeOK'
    BY <1>1, <1>6, <2>1 DEF SnapshotClear, EnvTypeOK
  <2> QED
    BY <1>1, <1>3, <1>6, <2>1, <2>2 DEF SnapshotClear, InTime, Ledger
<1>7. CASE SnapshotFails
  <2>1. caller' = "idle" /\ UNCHANGED <<thread, late, completed, origin>>
    BY <1>7 DEF SnapshotFails, SnapshotRaises
  <2>2. EnvTypeOK'
    BY <1>1, <1>7, <2>1 DEF SnapshotFails, EnvTypeOK
  <2> QED
    BY <1>1, <1>3, <1>7, <2>1, <2>2 DEF SnapshotFails, InTime, Ledger
<1> QED
  BY <1>4, <1>5, <1>6, <1>7

LEMMA StepCallKeepsEnv ==
  ASSUME EnvInv, ExecInv',
         Step \/ StepRefused \/ StepBlocks \/ StepWakes \/ StepFails
  PROVE  EnvTypeOK' /\ InTime'
<1> USE DEF episodeVars, stepVars, snapVars, useVars, queueVars, flags
<1>1. TypeOK' /\ EnvTypeOK /\ InTime
  BY DEF EnvInv, ExecInv
<1>2. CASE Step
  <2>1. /\ UNCHANGED <<thread, completed, origin>> /\ caller = "idle"
        /\ caller' \in {"exchange", "snapshot"}
    BY <1>2 DEF Step, Exchange, Call
  <2>2. snap = "none" /\ (snap' # "none" <=> caller' = "snapshot") /\ snap' \in {"none", "read"}
    BY <1>1, <1>2, <2>1 DEF Step, EnvTypeOK
  <2>3. late' \in BOOLEAN /\ overrun' \in BOOLEAN
    BY <1>1, <1>2, EnvAssumption DEF Step, TypeOK, EnvTypeOK
  <2>4. EnvTypeOK'
    BY <1>1, <1>2, <2>1, <2>2, <2>3 DEF Step, EnvTypeOK
  <2>5. ~overrun' => ~overrun /\ (AutoReset => ~late')
    BY <1>2, <2>3 DEF Step
  <2> QED
    BY <1>1, <1>2, <2>1, <2>2, <2>4, <2>5 DEF Step, InTime, Ledger
<1>3. CASE StepRefused
  <2>1. UNCHANGED <<thread, completed, origin, late>> /\ caller' = caller
    BY <1>3 DEF StepRefused, ExchangeRefused
  <2>2. EnvTypeOK'
    BY <1>1, <1>3, <2>1 DEF StepRefused, EnvTypeOK
  <2> QED
    BY <1>1, <1>3, <2>1, <2>2 DEF StepRefused, InTime, Ledger
<1>4. CASE StepBlocks
  <2>1. EnvTypeOK'
    BY <1>1, <1>4 DEF StepBlocks, ExchangeWaits, envVars, EnvTypeOK
  <2> QED
    BY <1>1, <1>4, <2>1 DEF StepBlocks, ExchangeWaits, envVars, InTime, Ledger
<1>5. CASE StepWakes
  <2>1. caller = "exchange" /\ caller' = "snapshot" /\ UNCHANGED <<thread, completed, origin, late>>
    BY <1>5 DEF StepWakes, SnapshotBegin, CallerAwake
  <2>2. EnvTypeOK'
    BY <1>1, <1>5, <2>1 DEF StepWakes, EnvTypeOK
  <2> QED
    BY <1>1, <1>5, <2>1, <2>2 DEF StepWakes, InTime, Ledger, EnvTypeOK
<1>6. CASE StepFails
  <2>1. caller = "exchange" /\ caller' = "idle" /\ UNCHANGED <<thread, completed, origin, late>>
    BY <1>6 DEF StepFails, ExchangeRaises, CallerAwake
  <2>2. EnvTypeOK'
    BY <1>1, <1>6, <2>1 DEF StepFails, EnvTypeOK
  <2> QED
    BY <1>1, <1>6, <2>1, <2>2 DEF StepFails, InTime, Ledger
<1> QED
  BY <1>2, <1>3, <1>4, <1>5, <1>6

LEMMA ResetKeepsEnv ==
  ASSUME EnvInv, ExecInv',
         \/ Reset \/ FinishRollout \/ ResetBlocks \/ ResetOnly \/ Close
         \/ \E resetEval \in BOOLEAN : EnvReset(resetEval)
  PROVE  EnvTypeOK' /\ InTime'
<1> USE DEF episodeVars, stepVars, snapVars, useVars, queueVars, flags
<1>1. /\ TypeOK' /\ EnvTypeOK /\ InTime /\ completed \in Nat /\ origin \in 0..completed
      /\ Busy \in {0, 1}
  BY DEF EnvInv, ExecInv, TypeOK, Busy
<1>2. CASE Reset \/ FinishRollout
  <2>1. /\ ResetCall /\ overrun' = (overrun \/ Unreported) /\ finishing' \in BOOLEAN
        /\ UNCHANGED <<episodeVars, stepVars, snapVars, cached, raised>>
    BY <1>2 DEF Reset, FinishRollout
  <2>2. /\ caller = "idle" /\ caller' = "reset"
        /\ UNCHANGED <<thread, completed, origin, late>>
    BY <2>1 DEF ResetCall, Call
  <2>3. Unreported \in BOOLEAN /\ overrun' \in BOOLEAN
    <3>1. (completed + Busy > origin) \in BOOLEAN
      BY <1>1
    <3> QED
      BY <1>1, <2>1, <3>1, EnvAssumption, Zenon DEF Unreported, EnvTypeOK
  <2>4. EnvTypeOK'
    BY <1>1, <2>1, <2>2, <2>3 DEF EnvTypeOK
  <2>5. AutoReset /\ ~Unreported => completed = origin /\ phase = "none"
    <3>1. SUFFICES ASSUME AutoReset, ~(completed + Busy > origin)
                   PROVE  completed = origin /\ Busy = 0
      BY <1>1 DEF Unreported, Busy, EnvTypeOK
    <3> QED
      BY <1>1, <3>1
  <2>6. ~overrun' => ~overrun /\ ~Unreported
    BY <2>1, <2>3
  <2> QED
    BY <1>1, <2>1, <2>2, <2>4, <2>5, <2>6 DEF InTime, Ledger
<1>3. CASE ResetBlocks
  <2>1. EnvTypeOK'
    BY <1>1, <1>3 DEF ResetBlocks, ResetWaits, envVars, EnvTypeOK
  <2> QED
    BY <1>1, <1>3, <2>1 DEF ResetBlocks, ResetWaits, envVars, InTime, Ledger
<1>4. CASE ResetOnly
  <2>1. /\ caller = "reset" /\ caller' = "idle" /\ thread # "stepping"
        /\ completed' = 0 /\ origin' = 0 /\ UNCHANGED <<thread, late, failed>>
    BY <1>4 DEF ResetOnly, ResetReturns, CallerAwake
  <2>2. failed \in BOOLEAN
    BY DEF EnvInv, ExecInv, TypeOK
  <2>3. EnvTypeOK'
    BY <1>1, <1>4, <2>1, <2>2 DEF ResetOnly, EnvTypeOK
  <2> QED
    BY <1>1, <1>4, <2>1, <2>3 DEF ResetOnly, InTime, Ledger
<1>5. ASSUME NEW resetEval \in BOOLEAN, EnvReset(resetEval) PROVE EnvTypeOK' /\ InTime'
  <2>1. /\ caller = "reset" /\ caller' = "idle" /\ thread # "stepping"
        /\ completed' = 0 /\ origin' = 0 /\ UNCHANGED <<thread, late>>
    BY <1>5 DEF EnvReset, ResetReturns, CallerAwake
  <2>2. phase = "none" /\ snap = "none"
    BY <1>1, <2>1 DEF EnvTypeOK
  <2>3. ended' \in {ended, {}} /\ (~overrun => ended' = {})
    BY <1>1, <1>5, <2>1, <2>2 DEF EnvReset, InTime
  <2>4. EnvTypeOK'
    BY <1>1, <1>5, <2>1, <2>3 DEF EnvReset, EnvTypeOK
  <2> QED
    BY <1>1, <1>5, <2>1, <2>2, <2>3, <2>4 DEF EnvReset, InTime, Ledger
<1>6. CASE Close
  <2>1. UNCHANGED <<thread, completed, origin, late>>
    BY <1>6 DEF Close, CloseCall, CloseReturns, Terminated, execVars
  <2>2. /\ (caller = "snapshot" <=> caller' = "snapshot")
        /\ caller' = "reset" => caller = "reset"
    BY <1>6 DEF Close, CloseCall, CloseReturns, Terminated, execVars
  <2>3. EnvTypeOK'
    BY <1>1, <1>6, <2>1, <2>2 DEF Close, envVars, EnvTypeOK
  <2> QED
    BY <1>1, <1>6, <2>1, <2>2, <2>3 DEF Close, envVars, InTime, Ledger
<1> QED
  BY <1>2, <1>3, <1>4, <1>5, <1>6

LEMMA EnvNextKeepsInv == EnvInv /\ [EnvNext]_vars => EnvInv'
<1> SUFFICES ASSUME EnvInv, [EnvNext]_vars PROVE EnvInv'
  OBVIOUS
<1>1. ExecInv'
  BY StepIsExecutorStep, NextKeepsInv DEF EnvInv
<1>2. CASE UNCHANGED vars
  BY <1>1, <1>2 DEF vars, execVars, envVars, episodeVars, stepVars, snapVars, useVars,
                    EnvInv, ExecInv, EnvTypeOK, InTime, Ledger
<1>3. CASE EnvNext
  <2>1. EnvTypeOK' /\ InTime'
    BY <1>1, <1>3, ThreadKeepsEnv, SnapshotKeepsEnv, StepCallKeepsEnv, ResetKeepsEnv
    DEF EnvNext, EnvThreadStep, EnvCallerStep, Close
  <2> QED
    BY <1>1, <2>1 DEF EnvInv
<1> QED
  BY <1>2, <1>3

-----------------------------------------------------------------------------
(* Theorems *)

\* The environment uses the executor by its rules: every behaviour of AsyncEnv is
\* a behaviour of ActionExecutor.
THEOREM EnvImplementsExecutor == EnvSpec => Spec
<1>1. EnvInit => Init
  BY DEF EnvInit
<1> QED
  BY <1>1, StepIsExecutorStep, PTL DEF EnvSpec, Spec

\* EnvInv holds in every reachable state.
THEOREM EnvInvariance == EnvSpec => []EnvInv
<1> QED
  BY EnvInitInv, EnvNextKeepsInv, PTL DEF EnvSpec

\* The sets stay sets of environments; a step is in progress exactly while the
\* executor has one in flight, and likewise for the snapshot.
THEOREM EnvTypeCorrect == EnvSpec => []EnvTypeOK
<1>1. EnvInv => EnvTypeOK
  BY DEF EnvInv
<1> QED
  BY <1>1, EnvInvariance, PTL

\* In time, ended environments are neither stepped nor forgotten, no running
\* episode is reset, and the simulator is not reset while it steps.
THEOREM InTimeIsConsistent == EnvSpec => []ConsistentInTime
<1>1. EnvInv => ConsistentInTime
  <2> SUFFICES ASSUME EnvInv, ~overrun PROVE NeverStepsEnded /\ ResetsOnlyEnded /\ SimulatorExclusive
    BY DEF ConsistentInTime
  <2>1. AutoReset /\ snap = "reset" => phase = "none"
    BY NoOverlap
  <2>2. phase = "step" => ended = stepDone
    BY NoOverlap DEF EnvInv, InTime, Ledger
  <2> QED
    BY <2>1, <2>2 DEF EnvInv, InTime, NeverStepsEnded, ResetsOnlyEnded, SimulatorExclusive, Stepped
<1> QED
  BY <1>1, EnvInvariance, PTL
-----------------------------------------------------------------------------
(* The recorder: what the recorders hold, as a state the commands act on   *)

\* What the recorders hold, as far as the caller can predict it: the frames of
\* the running episodes, the saved episodes no pop has returned, and whether
\* there is a dataset to save into.
Holdings == [pend : [EnvIds -> Frames], eps : SUBSET Episodes, open : BOOLEAN]

\* What a command that succeeds makes of them while the mode is m.
Emptied == [e \in EnvIds |-> <<>>]
Holding(p, x, o) == [pend |-> p, eps |-> x, open |-> o]
Effect(c, s, m) ==
  CASE c.name = "record_once" ->
         Holding([s.pend EXCEPT ![c.env] = Append(s.pend[c.env], c.frame)], s.eps, TRUE)
    [] c.name = "save_episode" ->
         IF s.pend[c.env] = <<>> THEN s
         ELSE Holding([s.pend EXCEPT ![c.env] = <<>>],
                      s.eps \cup {Episode(c.env, s.pend[c.env])}, s.open)
    [] c.name = "clear_episode" -> Holding([s.pend EXCEPT ![c.env] = <<>>], s.eps, s.open)
    [] c.name = "set_mode" -> IF c.mode = m THEN s ELSE Holding(Emptied, s.eps, s.open)
    [] c.name = "pop_completed" -> Holding(s.pend, s.eps, s.open /\ s.eps = {})
    [] OTHER -> s

\* Frames are saved into an open dataset only.
Legal(c, s) == c.name = "save_episode" /\ s.pend[c.env] # <<>> => s.open

\* The commands of cs, applied one after the other, lead from s to t.
Trace(cs, b, s, t, m) ==
  /\ b \in [0..Len(cs) -> Holdings] /\ b[0] = s /\ b[Len(cs)] = t
  /\ \A k \in 1..Len(cs) : Legal(cs[k], b[k - 1]) /\ b[k] = Effect(cs[k], b[k - 1], m)
Leads(cs, s, t, m) == \E b : Trace(cs, b, s, t, m)

-----------------------------------------------------------------------------
(* Induction, for sets of numbers; and flattening by prefixes *)

LEMMA SetInduction ==
  ASSUME NEW S, 0 \in S, \A n \in Nat : n \in S => n + 1 \in S
  PROVE  Nat \subseteq S
<1> DEFINE R == OpToRel(<, Nat)
           T == Nat \ S
<1>1. IsWellFoundedOn(R, Nat)
  BY NatLessThanWellFounded
<1>2. \A x, y \in Nat : x < y => <<x, y>> \in R
  BY DEF OpToRel
<1> HIDE DEF R
<1>3. SUFFICES ASSUME T # {} PROVE FALSE
  OBVIOUS
<1>4. PICK x \in T : \A y \in T : ~ (<<y, x>> \in R)
  <2>1. T \subseteq Nat
    OBVIOUS
  <2> HIDE DEF T
  <2> QED
    BY <1>1, <1>3, <2>1, WFMin
<1>5. x \in Nat /\ x # 0 /\ x - 1 \in Nat /\ x - 1 < x
  BY <1>4
<1>6. x - 1 \in S
  BY <1>2, <1>4, <1>5
<1> QED
  BY <1>4, <1>5, <1>6

\* FlattenSeq appends one sequence after the other.
Concatenates(f, b, n, X) ==
  /\ f \in [1..n -> Seq(X)] /\ f[1] = b[1]
  /\ \A i \in 1..n : i # 1 => f[i] = f[i - 1] \o b[i]

LEMMA FlattenByPrefix ==
  ASSUME NEW X, NEW n \in Nat \ {0}, NEW b \in [1..n -> Seq(X)]
  PROVE  \E f : Concatenates(f, b, n, X) /\ FlattenSeq(b) = f[n]
<1> DEFINE Def(f, i) == IF i = 1 THEN b[i] ELSE f[i - 1] \o b[i]
           Pre(k, f) == /\ f \in [1..k -> Seq(X)] /\ f[1] = b[1]
                        /\ \A i \in 1..k : i # 1 => f[i] = f[i - 1] \o b[i]
           S == {k \in Nat : k + 1 <= n => \E f : Pre(k + 1, f)}
<1>0. b \in Seq(Seq(X)) /\ Len(b) = n
  BY IsASeq
<1>1. 0 \in S
  <2>1. Pre(1, [i \in 1..1 |-> b[1]])
    OBVIOUS
  <2> HIDE DEF Pre
  <2> QED
    BY <2>1
<1>2. ASSUME NEW k \in Nat, k \in S PROVE k + 1 \in S
  <2>0. k + 1 \in Nat /\ k + 1 + 1 = k + 2 /\ (k + 2 <= n => k + 1 <= n)
    OBVIOUS
  <2>1. SUFFICES ASSUME k + 2 <= n PROVE \E f : Pre(k + 2, f)
    <3> HIDE DEF Pre
    <3> QED
      BY <2>0
  <2>2. PICK f : Pre(k + 1, f)
    <3> HIDE DEF Pre
    <3> QED
      BY <1>2, <2>0, <2>1
  <2> DEFINE g == [i \in 1..(k + 2) |-> IF i = k + 2 THEN f[i - 1] \o b[i] ELSE f[i]]
  <2>3. ASSUME NEW i \in 1..(k + 2), i = k + 2 PROVE f[i - 1] \o b[i] \in Seq(X)
    <3>1. i \in 1..n /\ i - 1 \in 1..(k + 1)
      BY <2>1, <2>3
    <3>2. b[i] \in Seq(X) /\ f[i - 1] \in Seq(X)
      BY <2>2, <3>1
    <3> QED
      BY <3>2, ConcatProperties
  <2>5. g \in [1..(k + 2) -> Seq(X)]
    BY <2>2, <2>3
  <2>6. g[1] = b[1]
    BY <2>2
  <2>7. ASSUME NEW i \in 1..(k + 2), i # 1 PROVE g[i] = g[i - 1] \o b[i]
    <3>1. i - 1 \in 1..(k + 1) /\ i - 1 # k + 2
      BY <2>7
    <3>2. g[i - 1] = f[i - 1]
      BY <3>1
    <3>3. CASE i = k + 2
      <4>1. g[i] = f[i - 1] \o b[i]
        BY <3>3
      <4> QED
        BY <3>2, <4>1
    <3>4. CASE i # k + 2
      <4>1. i \in 1..(k + 1) /\ g[i] = f[i]
        BY <3>4
      <4> QED
        BY <2>2, <2>7, <3>2, <4>1
    <3> QED
      BY <3>3, <3>4
  <2> QED
    BY <2>5, <2>6, <2>7
<1>3. Nat \subseteq S
  <2> HIDE DEF S
  <2> QED
    BY <1>1, <1>2, SetInduction
<1>4. PICK f : Pre(n, f)
  <2>1. n - 1 \in S /\ n - 1 + 1 = n
    <3> HIDE DEF S
    <3> QED
      BY <1>3
  <2> HIDE DEF Pre
  <2> QED
    BY <2>1
<1> DEFINE h == CHOOSE h : h = [i \in 1..Len(b) |-> Def(h, i)]
<1>5. f = [i \in 1..Len(b) |-> Def(f, i)]
  BY <1>0, <1>4
<1>6. h = [i \in 1..Len(b) |-> Def(h, i)]
  BY <1>5
<1>7. FlattenSeq(b) = h[n]
  BY <1>0 DEF FlattenSeq
<1> HIDE DEF h
<1> DEFINE U == {k \in Nat : k + 1 <= n => h[k + 1] = f[k + 1]}
<1>8. 0 \in U
  BY <1>0, <1>4, <1>6
<1>9. ASSUME NEW k \in Nat, k \in U PROVE k + 1 \in U
  <2>1. SUFFICES ASSUME NEW i \in 1..n, i = k + 2 PROVE h[i] = f[i]
    <3>1. k + 1 \in Nat /\ k + 1 + 1 = k + 2 /\ (k + 2 <= n => k + 2 \in 1..n)
      OBVIOUS
    <3> QED
      BY <3>1
  <2>2. i # 1 /\ i - 1 = k + 1 /\ k + 1 <= n
    BY <2>1
  <2>3. h[i] = h[i - 1] \o b[i]
    BY <1>0, <1>6, <2>2
  <2>4. f[i] = f[i - 1] \o b[i]
    BY <1>4, <2>2
  <2>5. h[i - 1] = f[i - 1]
    BY <1>9, <2>2
  <2> QED
    BY <2>3, <2>4, <2>5
<1>10. Nat \subseteq U
  <2> HIDE DEF U
  <2> QED
    BY <1>8, <1>9, SetInduction
<1>11. h[n] = f[n]
  <2>1. n - 1 \in U /\ n - 1 + 1 = n
    <3> HIDE DEF U
    <3> QED
      BY <1>10
  <2> QED
    BY <2>1
<1> QED
  BY <1>4, <1>7, <1>11 DEF Concatenates

-----------------------------------------------------------------------------
(* Sequences of commands *)

LEMMA LeadsNowhere ==
  ASSUME NEW s \in Holdings, NEW m
  PROVE  Leads(<<>>, s, s, m)
<1> DEFINE b == [k \in 0..0 |-> s]
<1>1. Len(<<>>) = 0
  OBVIOUS
<1>2. Trace(<<>>, b, s, s, m)
  BY <1>1 DEF Trace
<1> QED
  BY <1>2 DEF Leads

LEMMA NowhereLeads ==
  ASSUME NEW s, NEW t, NEW m, Leads(<<>>, s, t, m)
  PROVE  s = t
<1>1. Len(<<>>) = 0
  OBVIOUS
<1> QED
  BY <1>1 DEF Leads, Trace

LEMMA LeadsOne ==
  ASSUME NEW c, NEW s \in Holdings, NEW m, Legal(c, s), Effect(c, s, m) \in Holdings
  PROVE  Leads(<<c>>, s, Effect(c, s, m), m)
<1> DEFINE t == Effect(c, s, m)
           b == [k \in 0..1 |-> IF k = 0 THEN s ELSE t]
<1>1. Len(<<c>>) = 1 /\ <<c>>[1] = c
  OBVIOUS
<1>2. Trace(<<c>>, b, s, t, m)
  <2> HIDE DEF t
  <2>1. b \in [0..1 -> Holdings] /\ b[0] = s /\ b[1] = t
    BY DEF t
  <2>2. \A k \in 1..1 : k = 1 /\ k - 1 = 0
    OBVIOUS
  <2>3. t = Effect(c, s, m)
    BY DEF t
  <2> QED
    BY <1>1, <2>1, <2>2, <2>3 DEF Trace
<1> QED
  BY <1>2 DEF Leads

LEMMA LeadsJoin ==
  ASSUME NEW a \in Seq(Commands), NEW c \in Seq(Commands), NEW s, NEW t, NEW u, NEW m,
         Leads(a, s, t, m), Leads(c, t, u, m)
  PROVE  Leads(a \o c, s, u, m)
<1>1. PICK f : Trace(a, f, s, t, m)
  BY DEF Leads
<1>2. PICK g : Trace(c, g, t, u, m)
  BY DEF Leads
<1> DEFINE p == Len(a)
           q == Len(c)
           h == [k \in 0..(p + q) |-> IF k <= p THEN f[k] ELSE g[k - p]]
<1>3. p \in Nat /\ q \in Nat /\ Len(a \o c) = p + q /\ a \o c \in Seq(Commands)
  BY ConcatProperties
<1>4. \A k \in 1..(p + q) : (a \o c)[k] = IF k <= p THEN a[k] ELSE c[k - p]
  BY ConcatProperties
<1>5. /\ f \in [0..p -> Holdings] /\ f[0] = s /\ f[p] = t
      /\ \A k \in 1..p : Legal(a[k], f[k - 1]) /\ f[k] = Effect(a[k], f[k - 1], m)
  BY <1>1 DEF Trace
<1>6. /\ g \in [0..q -> Holdings] /\ g[0] = t /\ g[q] = u
      /\ \A k \in 1..q : Legal(c[k], g[k - 1]) /\ g[k] = Effect(c[k], g[k - 1], m)
  BY <1>2 DEF Trace
<1> HIDE DEF p, q
<1>7. h \in [0..(p + q) -> Holdings]
  BY <1>3, <1>5, <1>6
<1>8. h[0] = s
  BY <1>3, <1>5
<1>9. h[p + q] = u
  <2>1. CASE q = 0
    BY <1>3, <1>5, <1>6, <2>1
  <2>2. CASE q # 0
    <3> DEFINE j == p + q
    <3>1. j \in 0..(p + q) /\ ~ (j <= p) /\ j - p = q
      BY <1>3, <2>2
    <3> HIDE DEF j
    <3>2. h[j] = g[j - p]
      BY <3>1
    <3> QED
      BY <1>6, <3>1, <3>2 DEF j
  <2> QED
    BY <2>1, <2>2
<1>10. ASSUME NEW k \in 1..(p + q)
       PROVE  Legal((a \o c)[k], h[k - 1]) /\ h[k] = Effect((a \o c)[k], h[k - 1], m)
  <2>1. k \in 0..(p + q) /\ k - 1 \in 0..(p + q)
    BY <1>3
  <2>2. CASE k <= p
    <3>1. k \in 1..p /\ k - 1 <= p
      BY <1>3, <2>2
    <3>2. h[k] = f[k] /\ h[k - 1] = f[k - 1] /\ (a \o c)[k] = a[k]
      BY <1>4, <2>1, <2>2, <3>1
    <3> QED
      BY <1>5, <3>1, <3>2
  <2>3. CASE k > p
    <3>1. k - p \in 1..q /\ ~ (k <= p) /\ k \in Int /\ p \in Nat
      BY <1>3, <2>3
    <3>2. h[k] = g[k - p] /\ (a \o c)[k] = c[k - p]
      BY <1>4, <2>1, <3>1
    <3>3. h[k - 1] = g[k - p - 1]
      <4>1. CASE k - 1 = p
        <5>1. k - 1 <= p /\ k - p - 1 = 0 /\ h[k - 1] = f[p]
          BY <1>3, <2>1, <4>1
        <5> QED
          BY <1>5, <1>6, <5>1
      <4>2. CASE k - 1 # p
        <5>1. ~ (k - 1 <= p) /\ k - 1 - p = k - p - 1
          BY <3>1, <4>2
        <5> QED
          BY <2>1, <5>1
      <4> QED
        BY <4>1, <4>2
    <3> DEFINE i == k - p
    <3>4. i \in 1..q
      BY <3>1
    <3> HIDE DEF i
    <3>5. Legal(c[i], g[i - 1]) /\ g[i] = Effect(c[i], g[i - 1], m)
      BY <1>6, <3>4
    <3> QED
      BY <3>2, <3>3, <3>5 DEF i
  <2> QED
    BY <1>3, <2>2, <2>3
<1>11. Trace(a \o c, h, s, u, m)
  <2> HIDE DEF h
  <2> QED
    BY <1>3, <1>7, <1>8, <1>9, <1>10 DEF Trace
<1> QED
  BY <1>11 DEF Leads

LEMMA LeadsTail ==
  ASSUME NEW a \in Seq(Commands), a # <<>>, NEW s, NEW t, NEW m, Leads(a, s, t, m)
  PROVE  Legal(Head(a), s) /\ Effect(Head(a), s, m) \in Holdings
         /\ Leads(Tail(a), Effect(Head(a), s, m), t, m)
<1>1. PICK f : Trace(a, f, s, t, m)
  BY DEF Leads
<1> DEFINE p == Len(a)
           g == [k \in 0..(p - 1) |-> f[k + 1]]
<1>2. p \in Nat \ {0} /\ Head(a) = a[1] /\ Len(Tail(a)) = p - 1 /\ Tail(a) \in Seq(Commands)
  BY EmptySeq, HeadTailProperties
<1>3. \A k \in 1..(p - 1) : Tail(a)[k] = a[k + 1]
  BY <1>2, HeadTailProperties
<1>4. /\ f \in [0..p -> Holdings] /\ f[0] = s /\ f[p] = t
      /\ \A k \in 1..p : Legal(a[k], f[k - 1]) /\ f[k] = Effect(a[k], f[k - 1], m)
  BY <1>1 DEF Trace
<1> HIDE DEF p
<1>5. Legal(a[1], f[0]) /\ f[1] = Effect(a[1], f[0], m) /\ f[1] \in Holdings
  <2>1. 1 \in 1..p /\ 1 - 1 = 0 /\ 1 \in 0..p
    BY <1>2
  <2>2. Legal(a[1], f[1 - 1]) /\ f[1] = Effect(a[1], f[1 - 1], m)
    BY <1>4, <2>1
  <2> QED
    BY <1>4, <2>1, <2>2
<1>6. g \in [0..(p - 1) -> Holdings] /\ g[0] = f[1] /\ g[p - 1] = t
  BY <1>2, <1>4
<1>7. ASSUME NEW k \in 1..(p - 1)
      PROVE  Legal(Tail(a)[k], g[k - 1]) /\ g[k] = Effect(Tail(a)[k], g[k - 1], m)
  <2>1. k \in 0..(p - 1) /\ k - 1 \in 0..(p - 1) /\ k - 1 + 1 = k
    BY <1>2
  <2>2. g[k] = f[k + 1] /\ g[k - 1] = f[k] /\ Tail(a)[k] = a[k + 1]
    BY <1>3, <2>1
  <2> DEFINE i == k + 1
  <2>3. i \in 1..p /\ i - 1 = k
    BY <1>2
  <2> HIDE DEF i
  <2>4. Legal(a[i], f[i - 1]) /\ f[i] = Effect(a[i], f[i - 1], m)
    BY <1>4, <2>3
  <2>5. Legal(a[i], f[k]) /\ f[i] = Effect(a[i], f[k], m)
    BY <2>3, <2>4
  <2> QED
    BY <2>2, <2>5 DEF i
<1>8. Trace(Tail(a), g, f[1], t, m)
  <2> HIDE DEF g
  <2> QED
    BY <1>2, <1>6, <1>7 DEF Trace
<1> QED
  BY <1>2, <1>4, <1>5, <1>8 DEF Leads

LEMMA EffectOfMode ==
  ASSUME NEW c, NEW s, NEW m, NEW n, c.name # "set_mode"
  PROVE  Effect(c, s, m) = Effect(c, s, n)
BY DEF Effect

LEMMA LeadsInMode ==
  ASSUME NEW a \in Seq(Commands), NEW s, NEW t, NEW m, NEW n, Leads(a, s, t, m),
         \A k \in 1..Len(a) : a[k].name # "set_mode"
  PROVE  Leads(a, s, t, n)
<1>1. PICK f : Trace(a, f, s, t, m)
  BY DEF Leads
<1>2. \A k \in 1..Len(a) : Effect(a[k], f[k - 1], m) = Effect(a[k], f[k - 1], n)
  BY EffectOfMode
<1>3. Trace(a, f, s, t, n)
  BY <1>1, <1>2 DEF Trace
<1> QED
  BY <1>3 DEF Leads

\* A loop over the environments leads from one to the next.
LEMMA LeadsLoop ==
  ASSUME NEW X, X \subseteq Commands, NEW n \in Nat \ {0}, NEW b \in [1..n -> Seq(X)],
         NEW st \in [0..n -> Holdings], NEW m,
         \A i \in 1..n : Leads(b[i], st[i - 1], st[i], m)
  PROVE  FlattenSeq(b) \in Seq(X) /\ Leads(FlattenSeq(b), st[0], st[n], m)
<1>0. PICK f : Concatenates(f, b, n, X) /\ FlattenSeq(b) = f[n]
  BY FlattenByPrefix
<1>1. /\ f \in [1..n -> Seq(X)] /\ FlattenSeq(b) = f[n] /\ f[1] = b[1]
      /\ \A i \in 1..n : i # 1 => f[i] = f[i - 1] \o b[i]
  BY <1>0 DEF Concatenates
<1>2. Seq(X) \subseteq Seq(Commands)
  OBVIOUS
<1> DEFINE S == {k \in Nat : \A i \in 1..n : i = k + 1 => Leads(f[i], st[0], st[i], m)}
<1>3. 0 \in S
  <2>1. 1 \in 1..n /\ 1 - 1 = 0
    OBVIOUS
  <2>2. Leads(b[1], st[1 - 1], st[1], m)
    BY <2>1
  <2> QED
    BY <1>1, <2>1, <2>2
<1>4. ASSUME NEW k \in Nat, k \in S PROVE k + 1 \in S
  <2>1. SUFFICES ASSUME NEW i \in 1..n, i = k + 2 PROVE Leads(f[i], st[0], st[i], m)
    <3>1. k + 1 \in Nat /\ k + 1 + 1 = k + 2
      OBVIOUS
    <3> QED
      BY <3>1
  <2>2. i - 1 \in 1..n /\ i - 1 = k + 1 /\ i # 1
    BY <2>1
  <2>3. Leads(f[i - 1], st[0], st[i - 1], m)
    BY <1>4, <2>2
  <2>4. f[i] = f[i - 1] \o b[i] /\ f[i - 1] \in Seq(Commands) /\ b[i] \in Seq(Commands)
    BY <1>1, <1>2, <2>2
  <2>5. Leads(b[i], st[i - 1], st[i], m)
    OBVIOUS
  <2> QED
    BY <2>3, <2>4, <2>5, LeadsJoin
<1>5. Nat \subseteq S
  <2> HIDE DEF S
  <2> QED
    BY <1>3, <1>4, SetInduction
<1>6. n - 1 \in S /\ n \in 1..n /\ n = n - 1 + 1
  <2> HIDE DEF S
  <2> QED
    BY <1>5
<1>7. Leads(f[n], st[0], st[n], m)
  BY <1>6
<1> QED
  BY <1>1, <1>7

-----------------------------------------------------------------------------
(* What each command does *)

Named(names) == {c \in Commands : c.name \in names}

LEMMA HoldingType ==
  ASSUME NEW p \in [EnvIds -> Frames], NEW x \in SUBSET Episodes, NEW o \in BOOLEAN
  PROVE  /\ Holding(p, x, o) \in Holdings
         /\ Holding(p, x, o).pend = p /\ Holding(p, x, o).eps = x /\ Holding(p, x, o).open = o
BY DEF Holding, Holdings

LEMMA HoldingParts ==
  ASSUME NEW s \in Holdings
  PROVE  /\ s.pend \in [EnvIds -> Frames] /\ s.eps \in SUBSET Episodes /\ s.open \in BOOLEAN
         /\ s = Holding(s.pend, s.eps, s.open)
BY DEF Holding, Holdings

LEMMA EmptiedType == Emptied \in [EnvIds -> Frames]
BY DEF Emptied, Frames

LEMMA CommandParts ==
  ASSUME NEW c \in Commands
  PROVE  /\ c.name \in {"record_once", "save_episode", "clear_episode"} => c.env \in EnvIds
         /\ c.name = "record_once" => c.frame \in 1..MaxOps
         /\ c.name \in {"record_once", "save_episode", "clear_episode"} \cup Sync
         /\ c.mode \in Modes
BY DEF Commands, Sync

LEMMA RecordEffect ==
  ASSUME NEW c \in Commands, c.name = "record_once", NEW s \in Holdings, NEW m
  PROVE  /\ Effect(c, s, m) =
              Holding([s.pend EXCEPT ![c.env] = Append(s.pend[c.env], c.frame)], s.eps, TRUE)
         /\ Effect(c, s, m) \in Holdings /\ Legal(c, s)
<1>1. c.env \in EnvIds /\ c.frame \in 1..MaxOps
  BY CommandParts
<1>2. s.pend[c.env] \in Seq(1..MaxOps)
  BY <1>1, HoldingParts DEF Frames
<1>3. Append(s.pend[c.env], c.frame) \in Frames
  BY <1>1, <1>2 DEF Frames
<1>4. [s.pend EXCEPT ![c.env] = Append(s.pend[c.env], c.frame)] \in [EnvIds -> Frames]
  BY <1>3, HoldingParts
<1>5. Effect(c, s, m) =
        Holding([s.pend EXCEPT ![c.env] = Append(s.pend[c.env], c.frame)], s.eps, TRUE)
  BY DEF Effect
<1>6. s.eps \in SUBSET Episodes /\ TRUE \in BOOLEAN
  BY HoldingParts
<1>7. Effect(c, s, m) \in Holdings
  BY <1>4, <1>5, <1>6, HoldingType
<1>8. Legal(c, s)
  BY DEF Legal
<1> QED
  BY <1>5, <1>7, <1>8

LEMMA SaveEffect ==
  ASSUME NEW c \in Commands, c.name = "save_episode", NEW s \in Holdings, NEW m
  PROVE  /\ Effect(c, s, m) =
              IF s.pend[c.env] = <<>> THEN s
              ELSE Holding([s.pend EXCEPT ![c.env] = <<>>],
                           s.eps \cup {Episode(c.env, s.pend[c.env])}, s.open)
         /\ Effect(c, s, m) \in Holdings
         /\ Legal(c, s) <=> (s.pend[c.env] # <<>> => s.open)
<1>1. c.env \in EnvIds /\ <<>> \in Frames
  BY CommandParts DEF Frames
<1>2. s.pend[c.env] \in Frames
  BY <1>1, HoldingParts
<1>3. Episode(c.env, s.pend[c.env]) \in Episodes
  BY <1>1, <1>2 DEF Episode, Episodes
<1>4. [s.pend EXCEPT ![c.env] = <<>>] \in [EnvIds -> Frames]
  BY <1>1, HoldingParts
<1>5. Effect(c, s, m) =
        IF s.pend[c.env] = <<>> THEN s
        ELSE Holding([s.pend EXCEPT ![c.env] = <<>>],
                     s.eps \cup {Episode(c.env, s.pend[c.env])}, s.open)
  BY DEF Effect
<1>6. s.eps \cup {Episode(c.env, s.pend[c.env])} \in SUBSET Episodes
  BY <1>3, HoldingParts
<1> QED
  BY <1>4, <1>5, <1>6, HoldingParts, HoldingType DEF Legal

LEMMA ClearEffect ==
  ASSUME NEW c \in Commands, c.name = "clear_episode", NEW s \in Holdings, NEW m
  PROVE  /\ Effect(c, s, m) = Holding([s.pend EXCEPT ![c.env] = <<>>], s.eps, s.open)
         /\ Effect(c, s, m) \in Holdings /\ Legal(c, s)
<1>1. c.env \in EnvIds /\ <<>> \in Frames
  BY CommandParts DEF Frames
<1>2. [s.pend EXCEPT ![c.env] = <<>>] \in [EnvIds -> Frames]
  BY <1>1, HoldingParts
<1>3. Effect(c, s, m) = Holding([s.pend EXCEPT ![c.env] = <<>>], s.eps, s.open)
  BY DEF Effect
<1> QED
  BY <1>2, <1>3, HoldingParts, HoldingType DEF Legal

LEMMA SyncEffect ==
  ASSUME NEW c, c.name \in Sync, NEW s \in Holdings, NEW m
  PROVE  /\ c.name = "set_mode" =>
              Effect(c, s, m) = IF c.mode = m THEN s ELSE Holding(Emptied, s.eps, s.open)
         /\ c.name = "pop_completed" =>
              Effect(c, s, m) = Holding(s.pend, s.eps, s.open /\ s.eps = {})
         /\ c.name = "flush" => Effect(c, s, m) = s
         /\ Effect(c, s, m) \in Holdings /\ Legal(c, s)
<1>1. CASE c.name = "set_mode"
  <2>1. Effect(c, s, m) = IF c.mode = m THEN s ELSE Holding(Emptied, s.eps, s.open)
    BY <1>1 DEF Effect
  <2> QED
    BY <1>1, <2>1, EmptiedType, HoldingParts, HoldingType DEF Legal
<1>2. CASE c.name = "pop_completed"
  <2>1. Effect(c, s, m) = Holding(s.pend, s.eps, s.open /\ s.eps = {})
    BY <1>2 DEF Effect
  <2>2. (s.open /\ s.eps = {}) \in BOOLEAN
    OBVIOUS
  <2>3. s.pend \in [EnvIds -> Frames] /\ s.eps \in SUBSET Episodes
    BY HoldingParts
  <2> DEFINE o == s.open /\ s.eps = {}
  <2>4. o \in BOOLEAN
    BY <2>2
  <2> HIDE DEF o
  <2>5. Holding(s.pend, s.eps, o) \in Holdings
    BY <2>3, <2>4, HoldingType
  <2>6. Effect(c, s, m) \in Holdings
    BY <2>1, <2>5 DEF o
  <2>7. Legal(c, s)
    BY <1>2 DEF Legal
  <2> QED
    BY <1>2, <2>1, <2>6, <2>7
<1>3. CASE c.name = "flush"
  <2>1. Effect(c, s, m) = s
    BY <1>3 DEF Effect
  <2> QED
    BY <1>3, <2>1 DEF Legal
<1> QED
  BY <1>1, <1>2, <1>3 DEF Sync

\* The commands of the caller are commands.
LEMMA CommandTypes ==
  ASSUME mode \in Modes, NEW e \in EnvIds
  PROVE  /\ SaveEpisode(e) \in Named({"save_episode"}) /\ SaveEpisode(e).env = e
         /\ ClearEpisode(e) \in Named({"clear_episode"}) /\ ClearEpisode(e).env = e
         /\ \A n \in 1..MaxOps :
              /\ Record(e, n) \in Named({"record_once"})
              /\ Record(e, n).env = e /\ Record(e, n).frame = n
BY DEF SaveEpisode, ClearEpisode, Record, Command, Named, Commands

LEMMA SyncTypes ==
  ASSUME NEW name \in Sync, NEW m \in Modes
  PROVE  /\ SyncCommand(name, m) \in Commands /\ SyncCommand(name, m).name = name
         /\ SyncCommand(name, m).mode = m
BY DEF SyncCommand, Command, Commands

-----------------------------------------------------------------------------
(* The loops over the environments *)

\* Every environment of S is cleared.
Clears(S) == Each(S, LAMBDA e : <<ClearEpisode(e)>>)
ClearedOn(S, s) ==
  Holding([e \in EnvIds |-> IF e \in S THEN <<>> ELSE s.pend[e]], s.eps, s.open)

LEMMA ClearsLead ==
  ASSUME mode \in Modes, NEW S \in SUBSET EnvIds, NEW s \in Holdings, NEW m
  PROVE  /\ Clears(S) \in Seq(Named({"clear_episode"}))
         /\ Leads(Clears(S), s, ClearedOn(S, s), m)
<1> DEFINE X == Named({"clear_episode"})
           b == [e \in EnvIds |-> IF e \in S THEN <<ClearEpisode(e)>> ELSE <<>>]
           pd(i) == [e \in EnvIds |-> IF e \in S /\ e <= i THEN <<>> ELSE s.pend[e]]
           st == [i \in 0..NumEnvs |-> Holding(pd(i), s.eps, s.open)]
<1>0. NumEnvs \in Nat \ {0} /\ EnvIds = 1..NumEnvs
  BY AsyncRecorderAssumption DEF EnvIds
<1>1. X \subseteq Commands
  BY DEF Named
<1>2. b \in [1..NumEnvs -> Seq(X)]
  <2>1. \A e \in EnvIds : ClearEpisode(e) \in X
    BY CommandTypes
  <2> HIDE DEF X
  <2>2. \A e \in EnvIds : <<ClearEpisode(e)>> \in Seq(X) /\ <<>> \in Seq(X)
    BY <2>1
  <2> QED
    BY <1>0, <2>2
<1>3. s.pend \in [EnvIds -> Frames] /\ s.eps \in SUBSET Episodes /\ s.open \in BOOLEAN
      /\ s = Holding(s.pend, s.eps, s.open) /\ <<>> \in Frames
  BY HoldingParts DEF Frames
<1>4. \A i \in 0..NumEnvs : pd(i) \in [EnvIds -> Frames]
  BY <1>3
<1> HIDE DEF pd
<1>5. \A i \in 0..NumEnvs : st[i] \in Holdings /\ st[i] = Holding(pd(i), s.eps, s.open)
  BY <1>3, <1>4, HoldingType
<1>6. st \in [0..NumEnvs -> Holdings]
  BY <1>5
<1> HIDE DEF st
<1>7. ASSUME NEW i \in 1..NumEnvs PROVE Leads(b[i], st[i - 1], st[i], m)
  <2>0. i \in EnvIds /\ i \in 0..NumEnvs /\ i - 1 \in 0..NumEnvs
    BY <1>0
  <2>1. CASE i \in S
    <3>1. b[i] = <<ClearEpisode(i)>>
      BY <2>0, <2>1
    <3>2. ClearEpisode(i) \in Commands /\ ClearEpisode(i).name = "clear_episode"
          /\ ClearEpisode(i).env = i
      BY <2>0, CommandTypes DEF Named
    <3>3. st[i - 1] = Holding(pd(i - 1), s.eps, s.open) /\ st[i - 1] \in Holdings
      BY <1>5, <2>0
    <3>4. st[i - 1].pend = pd(i - 1) /\ st[i - 1].eps = s.eps /\ st[i - 1].open = s.open
      BY <3>3 DEF Holding
    <3>5. [pd(i - 1) EXCEPT ![i] = <<>>] = pd(i)
      <4>1. \A e \in EnvIds : [pd(i - 1) EXCEPT ![i] = <<>>][e] = pd(i)[e]
        BY <1>0, <2>0, <2>1 DEF pd
      <4> QED
        BY <4>1 DEF pd
    <3>6. Effect(ClearEpisode(i), st[i - 1], m) = st[i]
      BY <1>5, <2>0, <3>2, <3>3, <3>4, <3>5, ClearEffect
    <3>7. Legal(ClearEpisode(i), st[i - 1])
      BY <3>2, <3>3, ClearEffect
    <3>8. st[i] \in Holdings
      BY <1>5, <2>0
    <3> QED
      BY <3>1, <3>3, <3>6, <3>7, <3>8, LeadsOne
  <2>2. CASE i \notin S
    <3>1. b[i] = <<>>
      BY <2>0, <2>2
    <3>2. pd(i) = pd(i - 1)
      <4>1. \A e \in EnvIds : e \in S => (e <= i <=> e <= i - 1)
        BY <1>0, <2>0, <2>2
      <4> QED
        BY <4>1 DEF pd
    <3>3. st[i] = st[i - 1] /\ st[i] \in Holdings
      BY <1>5, <2>0, <3>2
    <3> QED
      BY <3>1, <3>3, LeadsNowhere
  <2> QED
    BY <2>1, <2>2
<1>8. FlattenSeq(b) \in Seq(X) /\ Leads(FlattenSeq(b), st[0], st[NumEnvs], m)
  <2> HIDE DEF b, X
  <2> QED
    BY <1>0, <1>1, <1>2, <1>6, <1>7, LeadsLoop
<1>9. st[0] = s
  <2>1. pd(0) = s.pend
    BY <1>0, <1>3 DEF pd
  <2> QED
    BY <1>0, <1>3, <1>5, <2>1
<1>10. st[NumEnvs] = ClearedOn(S, s)
  <2>1. pd(NumEnvs) = [e \in EnvIds |-> IF e \in S THEN <<>> ELSE s.pend[e]]
    BY <1>0 DEF pd
  <2> QED
    BY <1>0, <1>5, <2>1 DEF ClearedOn
<1>11. Clears(S) = FlattenSeq(b)
  BY DEF Clears, Each
<1> QED
  BY <1>8, <1>9, <1>10, <1>11

\* Every environment of S is saved: what has frames becomes an episode.
Saves(S) == Each(S, LAMBDA e : <<SaveEpisode(e)>>)
SavedOn(S, s) ==
  Holding([e \in EnvIds |-> IF e \in S THEN <<>> ELSE s.pend[e]],
          s.eps \cup {Episode(e, s.pend[e]) : e \in {x \in S : s.pend[x] # <<>>}}, s.open)

LEMMA SavesLead ==
  ASSUME mode \in Modes, NEW S \in SUBSET EnvIds, NEW s \in Holdings, NEW m,
         (\E e \in S : s.pend[e] # <<>>) => s.open
  PROVE  /\ Saves(S) \in Seq(Named({"save_episode"}))
         /\ Leads(Saves(S), s, SavedOn(S, s), m)
<1> DEFINE X == Named({"save_episode"})
           b == [e \in EnvIds |-> IF e \in S THEN <<SaveEpisode(e)>> ELSE <<>>]
           pd(i) == [e \in EnvIds |-> IF e \in S /\ e <= i THEN <<>> ELSE s.pend[e]]
           has == {x \in S : s.pend[x] # <<>>}
           upto(i) == {x \in has : x <= i}
           ep(i) == s.eps \cup {Episode(e, s.pend[e]) : e \in upto(i)}
           st == [i \in 0..NumEnvs |-> Holding(pd(i), ep(i), s.open)]
<1>0. NumEnvs \in Nat \ {0} /\ EnvIds = 1..NumEnvs
  BY AsyncRecorderAssumption DEF EnvIds
<1>12. has \subseteq EnvIds /\ \A x \in S : x \in has <=> s.pend[x] # <<>>
  OBVIOUS
<1>1. X \subseteq Commands
  BY DEF Named
<1>2. b \in [1..NumEnvs -> Seq(X)]
  <2>1. \A e \in EnvIds : SaveEpisode(e) \in X
    BY CommandTypes
  <2> HIDE DEF X
  <2>2. \A e \in EnvIds : <<SaveEpisode(e)>> \in Seq(X) /\ <<>> \in Seq(X)
    BY <2>1
  <2> QED
    BY <1>0, <2>2
<1>3. s.pend \in [EnvIds -> Frames] /\ s.eps \in SUBSET Episodes /\ s.open \in BOOLEAN
      /\ s = Holding(s.pend, s.eps, s.open) /\ <<>> \in Frames
  BY HoldingParts DEF Frames
<1>4. \A i \in 0..NumEnvs : pd(i) \in [EnvIds -> Frames] /\ ep(i) \in SUBSET Episodes
  <2>1. \A e \in S : Episode(e, s.pend[e]) \in Episodes
    BY <1>3 DEF Episode, Episodes
  <2>2. \A i \in 0..NumEnvs : upto(i) \subseteq S
    OBVIOUS
  <2> HIDE DEF upto, has
  <2> QED
    BY <1>3, <2>1, <2>2
<1> HIDE DEF pd, ep, has, upto
<1>5. \A i \in 0..NumEnvs : st[i] \in Holdings /\ st[i] = Holding(pd(i), ep(i), s.open)
  BY <1>3, <1>4, HoldingType
<1>6. st \in [0..NumEnvs -> Holdings]
  BY <1>5
<1> HIDE DEF st
<1>7. ASSUME NEW i \in 1..NumEnvs PROVE Leads(b[i], st[i - 1], st[i], m)
  <2>0. i \in EnvIds /\ i \in 0..NumEnvs /\ i - 1 \in 0..NumEnvs
    BY <1>0
  <2>9. st[i] \in Holdings
    BY <1>5, <2>0
  <2>1. CASE i \in S
    <3>1. b[i] = <<SaveEpisode(i)>>
      BY <2>0, <2>1
    <3>2. SaveEpisode(i) \in Commands /\ SaveEpisode(i).name = "save_episode"
          /\ SaveEpisode(i).env = i
      BY <2>0, CommandTypes DEF Named
    <3>3. st[i - 1] = Holding(pd(i - 1), ep(i - 1), s.open) /\ st[i - 1] \in Holdings
      BY <1>5, <2>0
    <3>4. st[i - 1].pend = pd(i - 1) /\ st[i - 1].eps = ep(i - 1) /\ st[i - 1].open = s.open
      BY <3>3 DEF Holding
    <3>5. pd(i - 1)[i] = s.pend[i]
      BY <1>0, <2>0 DEF pd
    <3>6. [pd(i - 1) EXCEPT ![i] = <<>>] = pd(i)
      <4>1. \A e \in EnvIds : [pd(i - 1) EXCEPT ![i] = <<>>][e] = pd(i)[e]
        BY <1>0, <2>0, <2>1 DEF pd
      <4> QED
        BY <4>1 DEF pd
    <3>7. Legal(SaveEpisode(i), st[i - 1])
      BY <2>1, <3>2, <3>3, <3>4, <3>5, SaveEffect
    <3>8. Effect(SaveEpisode(i), st[i - 1], m) = st[i]
      <4>1. Effect(SaveEpisode(i), st[i - 1], m) =
              IF s.pend[i] = <<>> THEN st[i - 1]
              ELSE Holding(pd(i), ep(i - 1) \cup {Episode(i, s.pend[i])}, s.open)
        <5>1. Effect(SaveEpisode(i), st[i - 1], m) =
                IF st[i - 1].pend[i] = <<>> THEN st[i - 1]
                ELSE Holding([st[i - 1].pend EXCEPT ![i] = <<>>],
                             st[i - 1].eps \cup {Episode(i, st[i - 1].pend[i])}, st[i - 1].open)
          <6>1. PICK c \in Commands : c = SaveEpisode(i)
            BY <3>2
          <6>2. PICK z \in Holdings : z = st[i - 1]
            BY <3>3
          <6>3. c.name = "save_episode" /\ c.env = i
            BY <3>2, <6>1
          <6>4. Effect(c, z, m) =
                  IF z.pend[c.env] = <<>> THEN z
                  ELSE Holding([z.pend EXCEPT ![c.env] = <<>>],
                               z.eps \cup {Episode(c.env, z.pend[c.env])}, z.open)
            BY <6>3, SaveEffect
          <6> QED
            BY <6>1, <6>2, <6>3, <6>4
        <5> QED
          BY <3>4, <3>5, <3>6, <5>1
      <4>2. CASE s.pend[i] = <<>>
        <5>1. pd(i) = pd(i - 1)
          <6>1. \A e \in EnvIds : pd(i)[e] = pd(i - 1)[e]
            BY <1>0, <2>0, <4>2 DEF pd
          <6> QED
            BY <6>1 DEF pd
        <5>2. upto(i) = upto(i - 1)
          <6>1. i \notin has
            BY <1>12, <2>1, <4>2
          <6>2. \A x \in has : x <= i <=> x <= i - 1
            BY <1>0, <1>12, <2>0, <6>1
          <6> QED
            BY <6>2 DEF upto
        <5>3. ep(i) = ep(i - 1)
          BY <5>2 DEF ep
        <5> QED
          BY <1>5, <2>0, <3>3, <4>1, <4>2, <5>1, <5>3
      <4>3. CASE s.pend[i] # <<>>
        <5>1. upto(i) = upto(i - 1) \cup {i}
          <6>1. i \in has /\ i <= i
            BY <1>12, <2>0, <2>1, <4>3
          <6>2. \A x \in has : x <= i <=> (x <= i - 1 \/ x = i)
            BY <1>0, <1>12, <2>0
          <6> QED
            BY <6>1, <6>2 DEF upto
        <5>2. ep(i) = ep(i - 1) \cup {Episode(i, s.pend[i])}
          BY <5>1 DEF ep
        <5> QED
          BY <1>5, <2>0, <4>1, <4>3, <5>2
      <4> QED
        BY <4>2, <4>3
    <3> QED
      BY <2>9, <3>1, <3>3, <3>7, <3>8, LeadsOne
  <2>2. CASE i \notin S
    <3>1. b[i] = <<>>
      BY <2>0, <2>2
    <3>2. \A e \in EnvIds : e \in S => (e <= i <=> e <= i - 1)
      BY <1>0, <2>0, <2>2
    <3>3. pd(i) = pd(i - 1)
      BY <3>2 DEF pd
    <3>4. upto(i) = upto(i - 1)
      <4>1. has \subseteq S
        BY DEF has
      <4> QED
        BY <1>12, <3>2, <4>1 DEF upto
    <3>5. ep(i) = ep(i - 1)
      BY <3>4 DEF ep
    <3>6. st[i] = st[i - 1]
      BY <1>5, <2>0, <3>3, <3>5
    <3> QED
      BY <2>9, <3>1, <3>6, LeadsNowhere
  <2> QED
    BY <2>1, <2>2
<1>8. FlattenSeq(b) \in Seq(X) /\ Leads(FlattenSeq(b), st[0], st[NumEnvs], m)
  <2> HIDE DEF b, X
  <2> QED
    BY <1>0, <1>1, <1>2, <1>6, <1>7, LeadsLoop
<1>9. st[0] = s
  <2>1. pd(0) = s.pend
    BY <1>0, <1>3 DEF pd
  <2>2. upto(0) = {}
    <3>1. \A x \in has : ~ (x <= 0)
      BY <1>0, <1>12
    <3> QED
      BY <3>1 DEF upto
  <2>3. ep(0) = s.eps
    BY <2>2 DEF ep
  <2> QED
    BY <1>0, <1>3, <1>5, <2>1, <2>3
<1>10. st[NumEnvs] = SavedOn(S, s)
  <2>1. pd(NumEnvs) = [e \in EnvIds |-> IF e \in S THEN <<>> ELSE s.pend[e]]
    BY <1>0 DEF pd
  <2>2. upto(NumEnvs) = has
    <3>1. \A x \in has : x <= NumEnvs
      BY <1>0, <1>12
    <3> QED
      BY <3>1 DEF upto
  <2>3. ep(NumEnvs) = s.eps \cup {Episode(e, s.pend[e]) : e \in {x \in S : s.pend[x] # <<>>}}
    BY <2>2 DEF ep, has
  <2> QED
    <3>1. st[NumEnvs] = Holding(pd(NumEnvs), ep(NumEnvs), s.open)
      BY <1>0, <1>5
    <3> QED
      BY <2>1, <2>3, <3>1 DEF SavedOn
<1>11. Saves(S) = FlattenSeq(b)
  BY DEF Saves, Each
<1> QED
  BY <1>8, <1>9, <1>10, <1>11

\* Every environment of O records frame n; those of D then save their episode.
Records(O, D, n) ==
  Each(O, LAMBDA e : <<Record(e, n)>> \o (IF e \in D THEN <<SaveEpisode(e)>> ELSE <<>>))
SteppedOn(O, D, n, s) ==
  Holding([e \in EnvIds |-> IF e \in D THEN <<>>
                            ELSE IF e \in O THEN Append(s.pend[e], n) ELSE s.pend[e]],
          s.eps \cup {Episode(e, Append(s.pend[e], n)) : e \in D}, s.open \/ O # {})

LEMMA EpisodeLeads ==
  ASSUME mode \in Modes, NEW e \in EnvIds, NEW n \in 1..MaxOps, NEW s \in Holdings, NEW m,
         NEW last \in BOOLEAN
  PROVE  LET cs == <<Record(e, n)>> \o (IF last THEN <<SaveEpisode(e)>> ELSE <<>>)
             f == Append(s.pend[e], n)
             t == IF last THEN Holding([s.pend EXCEPT ![e] = <<>>],
                                       s.eps \cup {Episode(e, f)}, TRUE)
                  ELSE Holding([s.pend EXCEPT ![e] = f], s.eps, TRUE)
         IN cs \in Seq(Named({"record_once", "save_episode"})) /\ f \in Frames
            /\ t \in Holdings /\ Leads(cs, s, t, m)
<1> DEFINE X == Named({"record_once", "save_episode"})
           f == Append(s.pend[e], n)
           p == [s.pend EXCEPT ![e] = f]
           z == Holding(p, s.eps, TRUE)
           t == Holding([s.pend EXCEPT ![e] = <<>>], s.eps \cup {Episode(e, f)}, TRUE)
<1>1. PICK r : r = Record(e, n)
  OBVIOUS
<1>2. PICK v : v = SaveEpisode(e)
  OBVIOUS
<1>3. /\ r \in X /\ r \in Commands /\ r.name = "record_once" /\ r.env = e /\ r.frame = n
      /\ v \in X /\ v \in Commands /\ v.name = "save_episode" /\ v.env = e
  BY <1>1, <1>2, CommandTypes DEF Named
<1>4. s.pend \in [EnvIds -> Frames] /\ s.pend[e] \in Seq(1..MaxOps)
  BY HoldingParts DEF Frames
<1>5. f \in Frames /\ f # <<>>
  BY <1>4 DEF Frames
<1> HIDE DEF X, f
<1>6. Effect(r, s, m) = z /\ z \in Holdings /\ Legal(r, s)
  BY <1>3, RecordEffect DEF f
<1>7. z.pend = p /\ z.eps = s.eps /\ z.open = TRUE /\ p[e] = f
      /\ [p EXCEPT ![e] = <<>>] = [s.pend EXCEPT ![e] = <<>>]
  BY <1>4 DEF Holding
<1>8. Leads(<<r>>, s, z, m)
  BY <1>6, LeadsOne
<1> HIDE DEF z, p
<1>9. Effect(v, z, m) = t /\ t \in Holdings /\ Legal(v, z)
  <2>1. Effect(v, z, m) =
          IF z.pend[v.env] = <<>> THEN z
          ELSE Holding([z.pend EXCEPT ![v.env] = <<>>],
                       z.eps \cup {Episode(v.env, z.pend[v.env])}, z.open)
    BY <1>3, <1>6, SaveEffect
  <2>2. Effect(v, z, m) \in Holdings /\ (z.open => Legal(v, z))
    BY <1>3, <1>6, SaveEffect
  <2> QED
    BY <1>3, <1>5, <1>7, <2>1, <2>2
<1>10. Leads(<<v>>, z, t, m)
  BY <1>6, <1>9, LeadsOne
<1> HIDE DEF t
<1>11. <<r>> \in Seq(Commands) /\ <<v>> \in Seq(Commands) /\ <<>> \in Seq(Commands)
       /\ <<r>> \in Seq(X) /\ <<v>> \in Seq(X) /\ <<>> \in Seq(X)
  BY <1>3
<1>12. Leads(<<r>> \o <<v>>, s, t, m) /\ <<r>> \o <<v>> \in Seq(X)
  BY <1>8, <1>10, <1>11, LeadsJoin, ConcatProperties
<1>13. Leads(<<r>> \o <<>>, s, z, m) /\ <<r>> \o <<>> \in Seq(X)
  <2>1. Leads(<<>>, z, z, m)
    BY <1>6, LeadsNowhere
  <2> QED
    BY <1>8, <1>11, <2>1, LeadsJoin, ConcatProperties
<1>14. CASE last
  BY <1>1, <1>2, <1>5, <1>9, <1>12, <1>14 DEF f, t, X
<1>15. CASE ~last
  BY <1>1, <1>5, <1>6, <1>13, <1>15 DEF f, z, p, X
<1> QED
  BY <1>14, <1>15

LEMMA StepLeads ==
  ASSUME mode \in Modes, NEW O \in SUBSET EnvIds, NEW D \in SUBSET O, NEW n \in 1..MaxOps,
         NEW s \in Holdings, NEW m
  PROVE  /\ Records(O, D, n) \in Seq(Named({"record_once", "save_episode"}))
         /\ Leads(Records(O, D, n), s, SteppedOn(O, D, n, s), m)
<1> DEFINE X == Named({"record_once", "save_episode"})
           one(e) == <<Record(e, n)>> \o (IF e \in D THEN <<SaveEpisode(e)>> ELSE <<>>)
           b == [e \in EnvIds |-> IF e \in O THEN one(e) ELSE <<>>]
           fr(e) == Append(s.pend[e], n)
           pd(i) == [e \in EnvIds |-> IF e <= i THEN (IF e \in D THEN <<>>
                                                      ELSE IF e \in O THEN fr(e) ELSE s.pend[e])
                                      ELSE s.pend[e]]
           upto(i) == {x \in D : x <= i}
           ep(i) == s.eps \cup {Episode(e, fr(e)) : e \in upto(i)}
           op0(i) == s.open \/ \E x \in O : x <= i
           st == [i \in 0..NumEnvs |-> Holding(pd(i), ep(i), op0(i))]
<1>0. NumEnvs \in Nat \ {0} /\ EnvIds = 1..NumEnvs /\ D \subseteq EnvIds
  BY AsyncRecorderAssumption DEF EnvIds
<1>1. X \subseteq Commands
  BY DEF Named
<1>2. b \in [1..NumEnvs -> Seq(X)]
  <2>1. \A e \in EnvIds : one(e) \in Seq(X)
    BY EpisodeLeads
  <2> HIDE DEF X, one
  <2>2. <<>> \in Seq(X)
    OBVIOUS
  <2> QED
    BY <1>0, <2>1, <2>2
<1>3. s.pend \in [EnvIds -> Frames] /\ s.eps \in SUBSET Episodes /\ s.open \in BOOLEAN
      /\ s = Holding(s.pend, s.eps, s.open) /\ <<>> \in Frames
  BY HoldingParts DEF Frames
<1>14. \A e \in EnvIds : fr(e) \in Frames
  BY EpisodeLeads
<1> HIDE DEF fr
<1>4. \A i \in 0..NumEnvs : pd(i) \in [EnvIds -> Frames] /\ ep(i) \in SUBSET Episodes
                            /\ op0(i) \in BOOLEAN
  <2>1. \A e \in D : Episode(e, fr(e)) \in Episodes
    BY <1>14 DEF Episode, Episodes
  <2>2. \A i \in 0..NumEnvs : upto(i) \subseteq D
    OBVIOUS
  <2> HIDE DEF upto
  <2>3. \A i \in 0..NumEnvs : ep(i) \in SUBSET Episodes
    BY <1>3, <2>1, <2>2
  <2>4. \A i \in 0..NumEnvs : pd(i) \in [EnvIds -> Frames]
    BY <1>3, <1>14
  <2> QED
    BY <2>3, <2>4
<1> HIDE DEF pd, ep, op0, upto
<1>5. \A i \in 0..NumEnvs : st[i] \in Holdings /\ st[i] = Holding(pd(i), ep(i), op0(i))
  BY <1>4, HoldingType
<1>6. st \in [0..NumEnvs -> Holdings]
  BY <1>5
<1> HIDE DEF st
<1>7. ASSUME NEW i \in 1..NumEnvs PROVE Leads(b[i], st[i - 1], st[i], m)
  <2>0. i \in EnvIds /\ i \in 0..NumEnvs /\ i - 1 \in 0..NumEnvs
    BY <1>0
  <2>9. st[i] \in Holdings
    BY <1>5, <2>0
  <2>3. st[i - 1] = Holding(pd(i - 1), ep(i - 1), op0(i - 1)) /\ st[i - 1] \in Holdings
        /\ st[i] = Holding(pd(i), ep(i), op0(i))
    BY <1>5, <2>0
  <2>4. st[i - 1].pend = pd(i - 1) /\ st[i - 1].eps = ep(i - 1) /\ st[i - 1].open = op0(i - 1)
    BY <2>3 DEF Holding
  <2>5. pd(i - 1)[i] = s.pend[i]
    BY <1>0, <2>0 DEF pd
  <2>6. \A x \in EnvIds : x <= i <=> (x <= i - 1 \/ x = i)
    BY <1>0, <2>0
  <2>1. CASE i \in O
    <3>1. b[i] = one(i) /\ i <= i
      BY <2>0, <2>1
    <3>2. op0(i) = TRUE
      BY <2>0, <2>1, <3>1 DEF op0
    <3>3. PICK z \in Holdings : z = st[i - 1]
      BY <2>3
    <3>4. CASE i \in D
      <4>1. [pd(i - 1) EXCEPT ![i] = <<>>] = pd(i)
        <5>1. \A e \in EnvIds : [pd(i - 1) EXCEPT ![i] = <<>>][e] = pd(i)[e]
          BY <2>0, <2>6, <3>4 DEF pd
        <5> QED
          BY <5>1 DEF pd
      <4>2. upto(i) = upto(i - 1) \cup {i}
        BY <1>0, <2>6, <3>1, <3>4 DEF upto
      <4>3. ep(i) = ep(i - 1) \cup {Episode(i, fr(i))}
        BY <4>2 DEF ep
      <4>4. Leads(one(i), z, Holding([z.pend EXCEPT ![i] = <<>>],
                                     z.eps \cup {Episode(i, Append(z.pend[i], n))}, TRUE), m)
        BY <2>0, <3>4, EpisodeLeads
      <4> HIDE DEF one
      <4> QED
        BY <2>3, <2>4, <2>5, <3>1, <3>2, <3>3, <4>1, <4>3, <4>4 DEF fr
    <3>5. CASE i \notin D
      <4>1. [pd(i - 1) EXCEPT ![i] = fr(i)] = pd(i)
        <5>1. \A e \in EnvIds : [pd(i - 1) EXCEPT ![i] = fr(i)][e] = pd(i)[e]
          BY <2>0, <2>1, <2>6, <3>5 DEF pd
        <5> QED
          BY <5>1 DEF pd
      <4>2. upto(i) = upto(i - 1)
        BY <1>0, <2>6, <3>5 DEF upto
      <4>3. ep(i) = ep(i - 1)
        BY <4>2 DEF ep
      <4>4. Leads(one(i), z, Holding([z.pend EXCEPT ![i] = Append(z.pend[i], n)], z.eps, TRUE), m)
        BY <2>0, <3>5, EpisodeLeads
      <4> HIDE DEF one
      <4> QED
        BY <2>3, <2>4, <2>5, <3>1, <3>2, <3>3, <4>1, <4>3, <4>4 DEF fr
    <3> QED
      BY <3>4, <3>5
  <2>2. CASE i \notin O
    <3>1. b[i] = <<>>
      BY <2>0, <2>2
    <3>2. \A e \in O : e <= i <=> e <= i - 1
      BY <1>0, <2>2, <2>6
    <3>3. pd(i) = pd(i - 1)
      <4>1. \A e \in EnvIds : pd(i)[e] = pd(i - 1)[e]
        BY <3>2, <2>2, <2>6 DEF pd
      <4> QED
        BY <4>1 DEF pd
    <3>4. upto(i) = upto(i - 1) /\ op0(i) = op0(i - 1)
      BY <3>2 DEF upto, op0
    <3>5. ep(i) = ep(i - 1)
      BY <3>4 DEF ep
    <3>6. st[i] = st[i - 1]
      BY <2>3, <3>3, <3>4, <3>5
    <3> QED
      BY <2>9, <3>1, <3>6, LeadsNowhere
  <2> QED
    BY <2>1, <2>2
<1>8. FlattenSeq(b) \in Seq(X) /\ Leads(FlattenSeq(b), st[0], st[NumEnvs], m)
  <2> HIDE DEF b, X
  <2> QED
    BY <1>0, <1>1, <1>2, <1>6, <1>7, LeadsLoop
<1>9. st[0] = s
  <2>0. \A e \in EnvIds : ~ (e <= 0)
    BY <1>0
  <2>1. pd(0) = s.pend
    BY <1>3, <2>0 DEF pd
  <2>2. upto(0) = {} /\ op0(0) = s.open
    BY <1>0, <1>3, <2>0 DEF upto, op0
  <2>3. ep(0) = s.eps
    BY <2>2 DEF ep
  <2> QED
    BY <1>0, <1>3, <1>5, <2>1, <2>2, <2>3
<1>10. st[NumEnvs] = SteppedOn(O, D, n, s)
  <2>0. \A e \in EnvIds : e <= NumEnvs
    BY <1>0
  <2>1. pd(NumEnvs) = [e \in EnvIds |-> IF e \in D THEN <<>>
                            ELSE IF e \in O THEN Append(s.pend[e], n) ELSE s.pend[e]]
    BY <2>0 DEF pd, fr
  <2>2. upto(NumEnvs) = D /\ op0(NumEnvs) = (s.open \/ O # {})
    BY <1>0, <2>0 DEF upto, op0
  <2>3. ep(NumEnvs) = s.eps \cup {Episode(e, Append(s.pend[e], n)) : e \in D}
    BY <2>2 DEF ep, fr
  <2>4. st[NumEnvs] = Holding(pd(NumEnvs), ep(NumEnvs), op0(NumEnvs))
    BY <1>0, <1>5
  <2> QED
    BY <2>1, <2>2, <2>3, <2>4 DEF SteppedOn
<1>11. Records(O, D, n) = FlattenSeq(b)
  BY DEF Records, Each
<1> QED
  BY <1>8, <1>9, <1>10, <1>11

-----------------------------------------------------------------------------
(* The inductive invariant of the recorder *)

\* The synchronous command of a call.
Awaits(call, c) ==
  \/ call = "reset" /\ c.name = "set_mode"
  \/ call = "finish" /\ c.name = "flush"
  \/ call = "pop" /\ c.name = "pop_completed"
\* Where a call has it among its commands.
Placed(call, cs) ==
  \A k \in 1..Len(cs) : cs[k].name \in Sync =>
    Awaits(call, cs[k]) /\ k = (IF call = "reset" THEN 1 ELSE Len(cs))
NoSync(cs) == \A k \in 1..Len(cs) : cs[k].name \notin Sync

\* A synchronous command is the last one in the queue and the thread waits for it.
Waiting ==
  /\ \A k \in 1..Len(commands) : commands[k].name \in Sync =>
       k = Len(commands) /\ at = "wait" /\ Awaits(op, commands[k])
  /\ answer.is # "none" => at = "wait" /\ commands = <<>>
  /\ answer.is = "none" => answer.root = {}
  /\ answer.is = "exception" => error
  /\ at = "wait" => NoSync(todo) /\ (op # "reset" => todo = <<>>)
  /\ at = "raised" => error
\* The commands a call still has to give.
Giving ==
  /\ at = "idle" => todo = <<>>
  /\ at = "put" => todo # <<>>
  /\ Placed(op, todo)
  /\ op \in {"finish", "pop"} /\ todo # <<>> => todo[Len(todo)].name \in Sync
  /\ op = "pop" => Len(todo) \in 0..1
\* Between rollouts, without auto_reset, a call that has given its commands finds none queued.
Barrier ==
  rollout = "between" /\ ~auto =>
    /\ op \in {"finish", "pop"}
    /\ at \in {"idle", "check"} /\ todo = <<>> => commands = <<>> /\ ~error
\* Whose episode is running.
Lives ==
  /\ auto => \A e \in EnvIds : ~done[e]
  /\ \A e \in EnvIds : done[e] => life[e] = <<>>
  /\ ~auto /\ rollout # "running" => \A e \in EnvIds : life[e] = <<>>
\* The videos of this process are counted; so the next one has a new name.
VideosCounted ==
  \A v \in DOMAIN videos :
    videos[v].by \in 0..proc /\ (videos[v].by = proc => v[3] < counts[v[1]][v[2]])

\* While no recording has failed, what the recorders hold, after the commands that are under
\* way, is what the caller has made: the running episodes and the ended ones.
Answered == op = "pop" /\ answer.is = "result"
Now == Holding(pending, IF Answered THEN answer.root ELSE dataset.eps, dataset.open)
Running(lives, o) == ~auto /\ (\E e \in EnvIds : lives[e] # <<>>) => o
Converges ==
  \E o \in BOOLEAN :
    Leads(commands \o todo, Now, Holding(life, owed, o), mode) /\ Running(life, o)
Filmed ==
  \A x \in dataset.eps :
    \E v \in DOMAIN videos : videos[v] = [by |-> proc, frames |-> x.frames]
Good ==
  /\ films = pending /\ dataset.buffer = <<>> /\ (hasEpisode <=> dataset.eps # {})
  /\ dataset.eps # {} => dataset.open
  /\ Answered => dataset.eps = {}
  /\ Filmed /\ Converges

RInv ==
  /\ RecorderTypeOK /\ VideosCounted /\ Waiting /\ Giving /\ Barrier /\ Lives
  /\ error => faults > 0
  /\ ~error => Good
  /\ out.root = out.due

LEMMA NoSyncIn ==
  ASSUME NEW names, names \cap Sync = {}, NEW cs \in Seq(Named(names))
  PROVE  cs \in Seq(Commands) /\ NoSync(cs)
<1>1. \A k \in 1..Len(cs) : cs[k] \in Named(names)
  OBVIOUS
<1>2. Named(names) \subseteq Commands /\ \A c \in Named(names) : c.name \notin Sync
  BY DEF Named
<1>3. cs \in Seq(Commands)
  BY <1>2
<1> QED
  BY <1>1, <1>2, <1>3 DEF NoSync

\* What the invariant says of the values, in parts.
LEMMA RecorderParts ==
  ASSUME RecorderTypeOK
  PROVE  /\ todo \in Seq(Commands) /\ commands \in Seq(Commands) /\ Len(commands) <= QueueSize
         /\ mode \in Modes /\ life \in [EnvIds -> Frames] /\ owed \in SUBSET Episodes
         /\ pending \in [EnvIds -> Frames] /\ films \in [EnvIds -> Frames]
         /\ dataset.open \in BOOLEAN /\ dataset.eps \in SUBSET Episodes
         /\ dataset.buffer \in Frames
         /\ dataset = [open |-> dataset.open, eps |-> dataset.eps, buffer |-> dataset.buffer]
         /\ answer.root \in SUBSET Episodes
         /\ Now \in Holdings /\ Now.pend = pending /\ Now.open = dataset.open
         /\ Now.eps = IF Answered THEN answer.root ELSE dataset.eps
         /\ \A o \in BOOLEAN : Holding(life, owed, o) \in Holdings
<1>1. /\ todo \in Seq(Commands) /\ commands \in Seq(Commands) /\ Len(commands) <= QueueSize
      /\ mode \in Modes /\ life \in [EnvIds -> Frames] /\ owed \in SUBSET Episodes
      /\ pending \in [EnvIds -> Frames] /\ films \in [EnvIds -> Frames]
  BY DEF RecorderTypeOK
<1>2. /\ dataset.open \in BOOLEAN /\ dataset.eps \in SUBSET Episodes
      /\ dataset.buffer \in Frames
      /\ dataset = [open |-> dataset.open, eps |-> dataset.eps, buffer |-> dataset.buffer]
      /\ answer.root \in SUBSET Episodes
  BY DEF RecorderTypeOK
<1> DEFINE x == IF Answered THEN answer.root ELSE dataset.eps
<1>3. x \in SUBSET Episodes
  BY <1>2
<1> HIDE DEF x
<1>4. /\ Holding(pending, x, dataset.open) \in Holdings
      /\ Holding(pending, x, dataset.open).pend = pending
      /\ Holding(pending, x, dataset.open).eps = x
      /\ Holding(pending, x, dataset.open).open = dataset.open
  BY <1>1, <1>2, <1>3, HoldingType
<1>5. /\ Now \in Holdings /\ Now.pend = pending /\ Now.open = dataset.open
      /\ Now.eps = IF Answered THEN answer.root ELSE dataset.eps
  BY <1>4 DEF Now, x
<1>6. \A o \in BOOLEAN : Holding(life, owed, o) \in Holdings
  BY <1>1, HoldingType
<1> QED
  BY <1>1, <1>2, <1>5, <1>6

LEMMA RInvInit ==
  ASSUME RecorderInit
  PROVE  RInv
<1>1. RecorderTypeOK
  <2>1. <<>> \in Frames /\ <<>> \in Seq(Commands) /\ Len(<<>>) = 0
    BY DEF Frames
  <2>2. answer \in [is : {"none", "result", "exception"}, root : SUBSET Episodes]
    BY DEF RecorderInit, NoAnswer
  <2>3. dataset \in [open : BOOLEAN, eps : SUBSET Episodes, buffer : Frames]
    BY <2>1 DEF RecorderInit, NoDataset
  <2>4. DOMAIN videos \subseteq Modes \X EnvIds \X Nat
    BY DEF RecorderInit
  <2>5. counts \in [Modes -> [EnvIds -> Nat]] /\ mode \in Modes
    BY DEF RecorderInit, Modes
  <2>6. out \in [root : SUBSET Episodes, due : SUBSET Episodes]
    BY DEF RecorderInit
  <2>7. pending \in [EnvIds -> Frames] /\ films \in [EnvIds -> Frames]
        /\ life \in [EnvIds -> Frames] /\ done \in [EnvIds -> BOOLEAN]
    BY <2>1 DEF RecorderInit
  <2>8. Len(commands) <= QueueSize /\ todo \in Seq(Commands) /\ commands \in Seq(Commands)
    BY <2>1, AsyncRecorderAssumption DEF RecorderInit
  <2>9. /\ auto \in BOOLEAN /\ at = "idle" /\ op = "none" /\ rollout = "new"
        /\ error = FALSE /\ hasEpisode = FALSE /\ owed = {} /\ lost = {}
        /\ proc = 0 /\ ops = 0 /\ faults = 0
    BY DEF RecorderInit
  <2>10. /\ at \in {"idle", "check", "put", "wait", "raised"}
         /\ op \in {"none", "reset", "step", "finish", "pop"}
         /\ rollout \in {"new", "ready", "running", "between"}
         /\ owed \subseteq Episodes /\ lost \subseteq Episodes
    BY <2>9
  <2>11. error \in BOOLEAN /\ hasEpisode \in BOOLEAN
    BY <2>9
  <2>12. proc \in Nat /\ ops \in 0..MaxOps /\ faults \in 0..MaxFaults
    BY <2>9, AsyncRecorderAssumption
  <2> QED
    BY <2>2, <2>3, <2>4, <2>5, <2>6, <2>7, <2>8, <2>9, <2>10, <2>11, <2>12 DEF RecorderTypeOK
<1>2. VideosCounted
  BY DEF RecorderInit, VideosCounted
<1>3. Waiting /\ Giving /\ Barrier
  BY DEF RecorderInit, Waiting, Giving, Barrier, NoSync, Placed, NoAnswer
<1>4. Lives
  BY DEF RecorderInit, Lives
<1>5. Good
  <2>1. Now = Holding(life, owed, TRUE)
    BY DEF RecorderInit, Now, Answered, NoAnswer, NoDataset
  <2>2. Leads(<<>>, Now, Holding(life, owed, TRUE), mode)
    BY <1>1, <2>1, LeadsNowhere, RecorderParts
  <2>3. commands \o todo = <<>>
    BY DEF RecorderInit
  <2>4. Converges
    BY <2>2, <2>3 DEF Converges, Running
  <2> QED
    BY <2>4 DEF RecorderInit, Good, NoDataset, NoAnswer, Answered, Filmed
<1> QED
  BY <1>1, <1>2, <1>3, <1>4, <1>5 DEF RInv, RecorderInit

-----------------------------------------------------------------------------
(* The calling thread keeps it *)

\* The commands of a call do to the recorders what the call does to the caller's history.
Follows(cs) ==
  \A o \in BOOLEAN : Running(life, o) =>
    \E q \in BOOLEAN : /\ Leads(cs, Holding(life, owed, o), Holding(life', owed', q), mode)
                       /\ Running(life', q)

LEMMA Beginning ==
  ASSUME RInv, NEW name \in {"reset", "step", "finish", "pop"}, NEW cs \in Seq(Commands),
         Begin(name, cs), Lives',
         rollout' \in {"new", "ready", "running", "between"}, done' \in [EnvIds -> BOOLEAN],
         life' \in [EnvIds -> Frames], owed' \subseteq Episodes,
         Placed(name, cs),
         name \in {"finish", "pop"} /\ cs # <<>> => cs[Len(cs)].name \in Sync,
         name = "pop" => Len(cs) \in 0..1,
         rollout' = "between" /\ ~auto => name \in {"finish", "pop"} /\ cs # <<>>,
         Follows(cs)
  PROVE  RInv'
<1>1. /\ at = "idle" /\ ops < MaxOps /\ ops' = ops + 1 /\ at' = "check" /\ op' = name /\ todo' = cs
      /\ auto' = auto /\ commands' = commands /\ answer' = answer /\ error' = error
      /\ mode' = mode /\ pending' = pending /\ dataset' = dataset /\ hasEpisode' = hasEpisode
      /\ films' = films /\ videos' = videos /\ counts' = counts
      /\ proc' = proc /\ out' = out /\ lost' = lost /\ faults' = faults
  BY DEF Begin, recorders
<1>2. RecorderTypeOK /\ todo = <<>> /\ answer.is = "none"
  BY <1>1 DEF RInv, Giving, Waiting
<1>3. RecorderTypeOK'
  <2>1. ops' \in 0..MaxOps
    BY <1>1, <1>2, AsyncRecorderAssumption DEF RecorderTypeOK
  <2> QED
    BY <1>1, <1>2, <2>1 DEF RecorderTypeOK
<1>4. VideosCounted'
  BY <1>1 DEF RInv, VideosCounted
<1>5. Waiting'
  BY <1>1, <1>2 DEF RInv, Waiting, NoSync
<1>6. Giving'
  BY <1>1 DEF Giving
<1>7. Barrier'
  BY <1>1 DEF Barrier
<1>8. (error => faults > 0)' /\ (out.root = out.due)'
  BY <1>1 DEF RInv
<1>9. ASSUME ~error' PROVE Good'
  <2>1. Good
    BY <1>1, <1>9 DEF RInv
  <2>2. PICK o \in BOOLEAN :
          Leads(commands \o todo, Now, Holding(life, owed, o), mode) /\ Running(life, o)
    BY <2>1 DEF Good, Converges
  <2>3. PICK q \in BOOLEAN :
          Leads(cs, Holding(life, owed, o), Holding(life', owed', q), mode) /\ Running(life', q)
    BY <2>2 DEF Follows
  <2>4. commands \o todo = commands /\ commands \in Seq(Commands)
    BY <1>2, RecorderParts
  <2>5. Leads(commands \o cs, Now, Holding(life', owed', q), mode)
    BY <2>2, <2>3, <2>4, LeadsJoin
  <2>6. ~ Answered /\ ~ Answered' /\ Now' = Now
    BY <1>1, <1>2 DEF Answered, Now
  <2>7. Converges'
    BY <1>1, <2>3, <2>5, <2>6 DEF Converges, Running
  <2>8. Filmed'
    BY <1>1, <2>1 DEF Good, Filmed
  <2> QED
    BY <1>1, <2>1, <2>6, <2>7, <2>8 DEF Good
<1> QED
  BY <1>3, <1>4, <1>5, <1>6, <1>7, <1>8, <1>9 DEF RInv

LEMMA PopBegins ==
  ASSUME RInv, PopCompletedDataset
  PROVE  RInv'
<1>1. RecorderTypeOK /\ Lives /\ rollout # "running" /\ mode \in Modes
      /\ rollout' = rollout /\ done' = done /\ life' = life /\ owed' = owed /\ auto' = auto
  BY DEF RInv, PopCompletedDataset, Begin, RecorderTypeOK
<1> DEFINE c == SyncCommand("pop_completed", mode)
<1>2. c \in Commands /\ c.name = "pop_completed" /\ c.name \in Sync
  BY <1>1, SyncTypes DEF Sync
<1>3. Begin("pop", <<c>>)
  BY DEF PopCompletedDataset
<1> HIDE DEF c
<1>4. <<c>> \in Seq(Commands) /\ Len(<<c>>) = 1 /\ <<c>>[1] = c /\ <<c>> # <<>>
  BY <1>2
<1>5. Follows(<<c>>)
  <2> SUFFICES ASSUME NEW o \in BOOLEAN, Running(life, o)
               PROVE  \E q \in BOOLEAN :
                        Leads(<<c>>, Holding(life, owed, o), Holding(life', owed', q), mode)
                        /\ Running(life', q)
    BY DEF Follows
  <2> DEFINE s == Holding(life, owed, o)
             q == o /\ owed = {}
  <2>1. s \in Holdings /\ s.pend = life /\ s.eps = owed /\ s.open = o
    BY <1>1, RecorderParts, HoldingType
  <2>2. q \in BOOLEAN
    OBVIOUS
  <2> HIDE DEF s
  <2>3. Effect(c, s, mode) = Holding(life, owed, q) /\ Effect(c, s, mode) \in Holdings
        /\ Legal(c, s)
    BY <1>2, <2>1, SyncEffect
  <2>4. Leads(<<c>>, s, Holding(life, owed, q), mode)
    BY <2>1, <2>3, LeadsOne
  <2>5. Running(life, q)
    BY <1>1 DEF Running, Lives
  <2> QED
    BY <1>1, <2>2, <2>4, <2>5 DEF s
<1>6. Placed("pop", <<c>>)
  <2>1. \A k \in 1..1 : k = 1
    OBVIOUS
  <2> QED
    BY <1>2, <1>4, <2>1 DEF Placed, Awaits
<1>7. Lives'
  BY <1>1 DEF Lives
<1>8. /\ rollout' \in {"new", "ready", "running", "between"} /\ done' \in [EnvIds -> BOOLEAN]
      /\ life' \in [EnvIds -> Frames] /\ owed' \subseteq Episodes
  BY <1>1 DEF RecorderTypeOK
<1>9. PICK cs \in Seq(Commands) : cs = <<c>>
  BY <1>4
<1>10. /\ "pop" \in {"finish", "pop"} /\ cs # <<>> => cs[Len(cs)].name \in Sync
       /\ "pop" = "pop" => Len(cs) \in 0..1
       /\ rollout' = "between" /\ ~auto => "pop" \in {"finish", "pop"} /\ cs # <<>>
       /\ "pop" \in {"reset", "step", "finish", "pop"}
  BY <1>2, <1>4, <1>9
<1> QED
  BY <1>3, <1>5, <1>6, <1>7, <1>8, <1>9, <1>10, Beginning

\* A synchronous command after, or before, others that are not.
LEMMA SyncAtEnd ==
  ASSUME NEW a \in Seq(Commands), NoSync(a), NEW c \in Commands, c.name \in Sync
  PROVE  /\ a \o <<c>> \in Seq(Commands) /\ a \o <<c>> # <<>>
         /\ (a \o <<c>>)[Len(a \o <<c>>)] = c
         /\ \A k \in 1..Len(a \o <<c>>) :
              (a \o <<c>>)[k].name \in Sync => k = Len(a \o <<c>>) /\ (a \o <<c>>)[k] = c
<1>1. <<c>> \in Seq(Commands) /\ Len(<<c>>) = 1 /\ <<c>>[1] = c /\ Len(a) \in Nat
  OBVIOUS
<1>2. PICK b : b = a \o <<c>>
  OBVIOUS
<1>3. b \in Seq(Commands) /\ Len(b) = Len(a) + 1
      /\ \A k \in 1..Len(b) : b[k] = IF k <= Len(a) THEN a[k] ELSE <<c>>[k - Len(a)]
  BY <1>1, <1>2, ConcatProperties
<1>4. b[Len(b)] = c /\ b # <<>>
  <2>1. Len(b) \in 1..Len(b) /\ ~ (Len(b) <= Len(a)) /\ Len(b) - Len(a) = 1
    BY <1>1, <1>3
  <2> QED
    BY <1>1, <1>3, <2>1
<1>5. ASSUME NEW k \in 1..Len(b), b[k].name \in Sync PROVE k = Len(b)
  <2>1. SUFFICES ASSUME k <= Len(a) PROVE FALSE
    BY <1>1, <1>3
  <2>2. k \in 1..Len(a) /\ b[k] = a[k]
    BY <1>1, <1>3, <2>1
  <2> QED
    BY <1>5, <2>2 DEF NoSync
<1> QED
  BY <1>2, <1>3, <1>4, <1>5

LEMMA SyncAtFront ==
  ASSUME NEW a \in Seq(Commands), NoSync(a), NEW c \in Commands
  PROVE  /\ <<c>> \o a \in Seq(Commands)
         /\ \A k \in 1..Len(<<c>> \o a) :
              (<<c>> \o a)[k].name \in Sync => k = 1 /\ (<<c>> \o a)[k] = c
<1>1. <<c>> \in Seq(Commands) /\ Len(<<c>>) = 1 /\ <<c>>[1] = c /\ Len(a) \in Nat
  OBVIOUS
<1>2. PICK b : b = <<c>> \o a
  OBVIOUS
<1>3. b \in Seq(Commands) /\ Len(b) = 1 + Len(a)
      /\ \A k \in 1..Len(b) : b[k] = IF k <= 1 THEN <<c>>[k] ELSE a[k - 1]
  BY <1>1, <1>2, ConcatProperties
<1>4. ASSUME NEW k \in 1..Len(b), b[k].name \in Sync PROVE k = 1 /\ b[k] = c
  <2>1. CASE k <= 1
    BY <1>1, <1>3, <2>1
  <2>2. CASE ~ (k <= 1)
    <3>1. k - 1 \in 1..Len(a) /\ b[k] = a[k - 1]
      BY <1>1, <1>3, <2>2
    <3> QED
      BY <1>4, <3>1 DEF NoSync
  <2> QED
    BY <2>1, <2>2
<1> QED
  BY <1>2, <1>3, <1>4

LEMMA FinishBegins ==
  ASSUME RInv, RecordFinish
  PROVE  RInv'
<1> DEFINE O == {e \in EnvIds : ~done[e]}
           a == Saves(O)
           c == SyncCommand("flush", mode)
<1>1. RecorderTypeOK /\ Lives /\ mode \in Modes /\ rollout = "running" /\ rollout' = "between"
  BY DEF RInv, RecordFinish, RecorderTypeOK
<1>2. c \in Commands /\ c.name = "flush" /\ c.name \in Sync
  BY <1>1, SyncTypes DEF Sync
<1>3. Begin("finish", IF auto THEN <<>> ELSE a \o <<c>>)
  BY DEF RecordFinish, Saves
<1>4. auto' = auto
  BY DEF RecordFinish, Begin
<1> HIDE DEF c
<1>5. CASE auto
  <2>1. done' = done /\ owed' = owed /\ life' = life
    BY <1>5 DEF RecordFinish
  <2>9. <<>> \in Seq(Commands)
    OBVIOUS
  <2>2. PICK cs \in Seq(Commands) : cs = <<>>
    BY <2>9
  <2>3. Begin("finish", cs)
    BY <1>3, <1>5, <2>2
  <2>4. Follows(cs)
    <3>1. \A o \in BOOLEAN :
            Leads(<<>>, Holding(life, owed, o), Holding(life, owed, o), mode)
      BY <1>1, RecorderParts, LeadsNowhere
    <3> QED
      BY <1>5, <2>1, <2>2, <3>1 DEF Follows, Running
  <2>5. Placed("finish", cs)
    <3>1. Len(cs) = 0
      BY <2>2
    <3> QED
      BY <3>1 DEF Placed
  <2>6. Lives'
    BY <1>1, <1>4, <1>5, <2>1 DEF Lives
  <2>7. /\ rollout' \in {"new", "ready", "running", "between"} /\ done' \in [EnvIds -> BOOLEAN]
        /\ life' \in [EnvIds -> Frames] /\ owed' \subseteq Episodes
    BY <1>1, <2>1 DEF RecorderTypeOK
  <2>8. /\ "finish" \in {"finish", "pop"} /\ cs # <<>> => cs[Len(cs)].name \in Sync
        /\ "finish" = "pop" => Len(cs) \in 0..1
        /\ rollout' = "between" /\ ~auto => "finish" \in {"finish", "pop"} /\ cs # <<>>
        /\ "finish" \in {"reset", "step", "finish", "pop"}
    BY <1>5, <2>2
  <2> QED
    BY <2>2, <2>3, <2>4, <2>5, <2>6, <2>7, <2>8, Beginning
<1>6. CASE ~auto
  <2> DEFINE more == {Episode(e, life[e]) : e \in {x \in EnvIds : life[x] # <<>>}}
  <2>1. /\ done' = [e \in EnvIds |-> TRUE] /\ owed' = owed \cup more
        /\ life' = [e \in EnvIds |-> <<>>]
    BY <1>6 DEF RecordFinish
  <2>2. /\ life \in [EnvIds -> Frames] /\ owed \in SUBSET Episodes
    BY <1>1, RecorderParts
  <2>3. more \in SUBSET Episodes
    BY <2>2 DEF Episode, Episodes
  <2>4. \A s \in Holdings :
          ((\E e \in O : s.pend[e] # <<>>) => s.open) =>
             a \in Seq(Named({"save_episode"})) /\ Leads(a, s, SavedOn(O, s), mode)
    <3>1. O \in SUBSET EnvIds
      OBVIOUS
    <3> HIDE DEF O
    <3> QED
      BY <1>1, <3>1, SavesLead
  <2>5. a \in Seq(Named({"save_episode"}))
    <3>1. Holding(life, owed, TRUE) \in Holdings /\ Holding(life, owed, TRUE).open = TRUE
      BY <1>1, RecorderParts DEF Holding
    <3> QED
      BY <2>4, <3>1
  <2> HIDE DEF a
  <2>6. a \in Seq(Commands) /\ NoSync(a)
    <3>1. {"save_episode"} \cap Sync = {}
      BY DEF Sync
    <3> QED
      BY <2>5, <3>1, NoSyncIn
  <2>7. PICK cs : cs = a \o <<c>>
    OBVIOUS
  <2>8. /\ cs \in Seq(Commands) /\ cs # <<>> /\ cs[Len(cs)] = c
        /\ \A k \in 1..Len(cs) : cs[k].name \in Sync => k = Len(cs) /\ cs[k] = c
    BY <1>2, <2>6, <2>7, SyncAtEnd
  <2>9. Begin("finish", cs)
    BY <1>3, <1>6, <2>7
  <2>10. Placed("finish", cs)
    BY <1>2, <2>8 DEF Placed, Awaits
  <2>11. Follows(cs)
    <3> SUFFICES ASSUME NEW o \in BOOLEAN, Running(life, o)
                 PROVE  Leads(cs, Holding(life, owed, o), Holding(life', owed', o), mode)
                        /\ Running(life', o)
      BY DEF Follows
    <3> DEFINE s == Holding(life, owed, o)
               u == Holding(life', owed', o)
    <3>1. s \in Holdings /\ s.pend = life /\ s.eps = owed /\ s.open = o
      BY <1>1, RecorderParts, <2>2, HoldingType
    <3>2. SavedOn(O, s) = u
      <4>1. [e \in EnvIds |-> IF e \in O THEN <<>> ELSE s.pend[e]] = life'
        BY <1>1, <2>1, <3>1 DEF Lives
      <4>2. {x \in O : s.pend[x] # <<>>} = {x \in EnvIds : life[x] # <<>>}
        BY <1>1, <3>1 DEF Lives
      <4>3. {Episode(e, s.pend[e]) : e \in {x \in O : s.pend[x] # <<>>}} = more
        BY <3>1, <4>2
      <4> HIDE DEF more, O, s
      <4> QED
        BY <2>1, <3>1, <4>1, <4>3 DEF SavedOn
    <3>3. (\E e \in O : s.pend[e] # <<>>) => s.open
      BY <1>6, <3>1 DEF Running
    <3> HIDE DEF s, u
    <3>4. Leads(a, s, u, mode)
      BY <2>4, <3>1, <3>2, <3>3
    <3>5. u \in Holdings
      <4>1. owed' \in SUBSET Episodes /\ life' \in [EnvIds -> Frames]
        BY <2>1, <2>2, <2>3 DEF Frames
      <4> QED
        BY <4>1, HoldingType DEF u
    <3>6. Effect(c, u, mode) = u /\ Legal(c, u)
      BY <1>2, <3>5, SyncEffect
    <3>7. Leads(<<c>>, u, u, mode)
      BY <3>5, <3>6, LeadsOne
    <3>8. <<c>> \in Seq(Commands)
      BY <1>2
    <3>9. Leads(cs, s, u, mode)
      BY <2>6, <2>7, <3>4, <3>7, <3>8, LeadsJoin
    <3>10. Running(life', o)
      BY <2>1 DEF Running
    <3> QED
      BY <3>9, <3>10 DEF s, u
  <2>12. Lives'
    BY <1>4, <1>6, <2>1 DEF Lives
  <2>13. /\ rollout' \in {"new", "ready", "running", "between"} /\ done' \in [EnvIds -> BOOLEAN]
         /\ life' \in [EnvIds -> Frames] /\ owed' \subseteq Episodes
    <3>1. <<>> \in Frames
      BY DEF Frames
    <3> QED
      BY <1>1, <2>1, <2>2, <2>3, <3>1
  <2>14. /\ "finish" \in {"finish", "pop"} /\ cs # <<>> => cs[Len(cs)].name \in Sync
         /\ "finish" = "pop" => Len(cs) \in 0..1
         /\ rollout' = "between" /\ ~auto => "finish" \in {"finish", "pop"} /\ cs # <<>>
         /\ "finish" \in {"reset", "step", "finish", "pop"}
    BY <1>2, <2>8
  <2> QED
    BY <2>8, <2>9, <2>10, <2>11, <2>12, <2>13, <2>14, Beginning
<1> QED
  BY <1>5, <1>6

LEMMA ResetBegins ==
  ASSUME RInv, NEW m \in Modes, NEW resetEval \in BOOLEAN, RecordReset(m, resetEval)
  PROVE  RInv'
<1> DEFINE kept == auto /\ rollout # "new" /\ ~resetEval
           drop == m # mode \/ ~kept
           a == IF kept THEN <<>> ELSE Clears(EnvIds)
           c == SyncCommand("set_mode", m)
<1>1. RecorderTypeOK /\ Lives /\ mode \in Modes /\ rollout # "running"
      /\ rollout' = "ready" /\ auto' = auto /\ owed' = owed
      /\ done' = (IF drop THEN [e \in EnvIds |-> FALSE] ELSE done)
      /\ life' = (IF drop THEN Emptied ELSE life)
  BY DEF RInv, RecordReset, Begin, RecorderTypeOK, Emptied
<1>2. c \in Commands /\ c.name = "set_mode" /\ c.mode = m /\ c.name \in Sync
  BY SyncTypes DEF Sync
<1>3. Begin("reset", <<c>> \o a)
  BY DEF RecordReset, Clears
<1>4. kept => auto
  OBVIOUS
<1>5. drop <=> (m # mode \/ ~kept)
  OBVIOUS
<1>6. \A s \in Holdings :
        /\ Clears(EnvIds) \in Seq(Named({"clear_episode"}))
        /\ Leads(Clears(EnvIds), s, ClearedOn(EnvIds, s), mode)
  <2>1. EnvIds \in SUBSET EnvIds
    OBVIOUS
  <2> QED
    BY <1>1, <2>1, ClearsLead
<1> HIDE DEF c, kept, drop
<1>7. \A o \in BOOLEAN : Holding(life, owed, o) \in Holdings
  BY <1>1, RecorderParts
<1>8. a \in Seq(Commands) /\ NoSync(a)
  <2>1. {"clear_episode"} \cap Sync = {}
    BY DEF Sync
  <2>2. Clears(EnvIds) \in Seq(Commands) /\ NoSync(Clears(EnvIds))
    BY <1>6, <1>7, <2>1, NoSyncIn
  <2>3. <<>> \in Seq(Commands) /\ Len(<<>>) = 0
    OBVIOUS
  <2>4. NoSync(<<>>)
    BY <2>3 DEF NoSync
  <2> QED
    BY <2>2, <2>3, <2>4
<1>9. PICK cs : cs = <<c>> \o a
  OBVIOUS
<1> HIDE DEF a
<1>10. /\ cs \in Seq(Commands)
       /\ \A k \in 1..Len(cs) : cs[k].name \in Sync => k = 1 /\ cs[k] = c
  BY <1>2, <1>8, <1>9, SyncAtFront
<1>11. Placed("reset", cs)
  BY <1>2, <1>10 DEF Placed, Awaits
<1>12. Follows(cs)
  <2> SUFFICES ASSUME NEW o \in BOOLEAN, Running(life, o)
               PROVE  Leads(cs, Holding(life, owed, o), Holding(life', owed', o), mode)
                      /\ Running(life', o)
    BY DEF Follows
  <2> DEFINE s == Holding(life, owed, o)
             z == Effect(c, s, mode)
  <2>1. s \in Holdings /\ s.pend = life /\ s.eps = owed /\ s.open = o
    BY <1>1, RecorderParts, HoldingType
  <2>2. z = (IF m = mode THEN s ELSE Holding(Emptied, owed, o)) /\ z \in Holdings /\ Legal(c, s)
    BY <1>2, <2>1, SyncEffect
  <2> HIDE DEF s, z
  <2>3. Leads(<<c>>, s, z, mode)
    BY <2>1, <2>2, LeadsOne DEF z
  <2>4. z.eps = owed /\ z.open = o
    BY <2>1, <2>2 DEF Holding
  <2>5. Leads(a, z, Holding(life', owed', o), mode)
    <3>1. CASE kept
      <4>1. Leads(<<>>, z, z, mode)
        BY <2>2, LeadsNowhere
      <4>2. z = Holding(life', owed', o)
        <5>1. CASE m = mode
          BY <1>1, <1>5, <2>2, <3>1, <5>1 DEF s
        <5>2. CASE m # mode
          BY <1>1, <1>5, <2>2, <3>1, <5>2
        <5> QED
          BY <5>1, <5>2
      <4> QED
        BY <3>1, <4>1, <4>2 DEF a
    <3>2. CASE ~kept
      <4>1. ClearedOn(EnvIds, z) = Holding(Emptied, owed, o)
        <5>1. [e \in EnvIds |-> IF e \in EnvIds THEN <<>> ELSE z.pend[e]] = Emptied
          BY DEF Emptied
        <5> QED
          BY <2>4, <5>1 DEF ClearedOn
      <4>2. life' = Emptied
        BY <1>1, <1>5, <3>2
      <4> QED
        BY <1>1, <1>6, <2>2, <3>2, <4>1, <4>2 DEF a
    <3> QED
      BY <3>1, <3>2
  <2>6. <<c>> \in Seq(Commands)
    BY <1>2
  <2>7. Leads(cs, s, Holding(life', owed', o), mode)
    BY <1>8, <1>9, <2>3, <2>5, <2>6, LeadsJoin
  <2>8. Running(life', o)
    <3>1. CASE drop
      BY <1>1, <3>1 DEF Running, Emptied
    <3>2. CASE ~drop
      BY <1>1, <3>2
    <3> QED
      BY <3>1, <3>2
  <2> QED
    BY <2>7, <2>8 DEF s
<1>13. Lives'
  <2>1. CASE drop
    BY <1>1, <2>1 DEF Lives, Emptied
  <2>2. CASE ~drop
    BY <1>1, <1>4, <1>5, <2>2 DEF Lives
  <2> QED
    BY <2>1, <2>2
<1>14. /\ rollout' \in {"new", "ready", "running", "between"} /\ done' \in [EnvIds -> BOOLEAN]
       /\ life' \in [EnvIds -> Frames] /\ owed' \subseteq Episodes
  BY <1>1, EmptiedType DEF RecorderTypeOK
<1>15. /\ "reset" \in {"finish", "pop"} /\ cs # <<>> => cs[Len(cs)].name \in Sync
       /\ "reset" = "pop" => Len(cs) \in 0..1
       /\ rollout' = "between" /\ ~auto => "reset" \in {"finish", "pop"} /\ cs # <<>>
       /\ "reset" \in {"reset", "step", "finish", "pop"}
  BY <1>1
<1>16. Begin("reset", cs)
  BY <1>3, <1>9 DEF a
<1> QED
  BY <1>10, <1>11, <1>12, <1>13, <1>14, <1>15, <1>16, Beginning

LEMMA StepBegins ==
  ASSUME RInv, NEW D \in SUBSET EnvIds, RecordStep(D)
  PROVE  RInv'
<1> DEFINE n == ops + 1
           O == {e \in EnvIds : ~done[e]}
           a == Records(O, D, n)
           b == IF auto THEN Clears(D) ELSE <<>>
           more == {Episode(e, Append(life[e], n)) : e \in D}
<1>1. /\ RecorderTypeOK /\ Lives /\ mode \in Modes /\ rollout' = "running" /\ auto' = auto
      /\ D \in SUBSET O /\ O \in SUBSET EnvIds
      /\ life \in [EnvIds -> Frames] /\ owed \in SUBSET Episodes
  BY DEF RInv, RecordStep, Begin, RecorderTypeOK
<1>2. n \in 1..MaxOps
  <2>1. ops < MaxOps
    BY DEF RecordStep, Begin
  <2>2. ops \in 0..MaxOps /\ MaxOps \in Nat
    BY <1>1, AsyncRecorderAssumption DEF RecorderTypeOK
  <2> QED
    BY <2>1, <2>2
<1>3. Begin("step", a \o b)
  BY DEF RecordStep, Records, Clears
<1>4. /\ done' = [e \in EnvIds |-> done[e] \/ (e \in D /\ ~auto)]
      /\ owed' = owed \cup more
      /\ life' = [e \in EnvIds |-> IF e \in D THEN <<>>
                                   ELSE IF done[e] THEN life[e] ELSE Append(life[e], n)]
  BY DEF RecordStep
<1>5. \A e \in EnvIds : e \in O <=> ~done[e]
  OBVIOUS
<1> HIDE DEF n, O
<1>6. \A e \in EnvIds : Append(life[e], n) \in Frames
  <2>1. \A e \in EnvIds : life[e] \in Seq(1..MaxOps)
    BY <1>1 DEF Frames
  <2> QED
    BY <1>2, <2>1 DEF Frames
<1>7. more \in SUBSET Episodes
  <2>1. \A e \in EnvIds : Episode(e, Append(life[e], n)) \in Episodes
    BY <1>6 DEF Episode, Episodes
  <2> QED
    BY <2>1
<1>8. life' \in [EnvIds -> Frames] /\ owed' \in SUBSET Episodes
  <2>1. <<>> \in Frames
    BY DEF Frames
  <2> QED
    BY <1>1, <1>4, <1>6, <1>7, <2>1
<1>9. \A s \in Holdings :
        /\ a \in Seq(Named({"record_once", "save_episode"}))
        /\ Leads(a, s, SteppedOn(O, D, n, s), mode)
        /\ Clears(D) \in Seq(Named({"clear_episode"}))
        /\ Leads(Clears(D), s, ClearedOn(D, s), mode)
  BY <1>1, <1>2, StepLeads, ClearsLead
<1>10. \A o \in BOOLEAN : Holding(life, owed, o) \in Holdings
  BY <1>1, RecorderParts
<1>11. a \in Seq(Commands) /\ NoSync(a)
  <2>1. {"record_once", "save_episode"} \cap Sync = {}
    BY DEF Sync
  <2>2. a \in Seq(Named({"record_once", "save_episode"}))
    BY <1>9, <1>10
  <2> HIDE DEF a
  <2> QED
    BY <2>1, <2>2, NoSyncIn
<1>12. b \in Seq(Commands) /\ NoSync(b)
  <2>1. {"clear_episode"} \cap Sync = {}
    BY DEF Sync
  <2>2. Clears(D) \in Seq(Commands) /\ NoSync(Clears(D))
    BY <1>9, <1>10, <2>1, NoSyncIn
  <2>3. <<>> \in Seq(Commands) /\ Len(<<>>) = 0
    OBVIOUS
  <2>4. NoSync(<<>>)
    BY <2>3 DEF NoSync
  <2> QED
    BY <2>2, <2>3, <2>4
<1>13. PICK cs : cs = a \o b
  OBVIOUS
<1> HIDE DEF a, b
<1>14. cs \in Seq(Commands) /\ NoSync(cs)
  <2>1. /\ cs \in Seq(Commands) /\ Len(cs) = Len(a) + Len(b)
        /\ \A k \in 1..Len(cs) : cs[k] = IF k <= Len(a) THEN a[k] ELSE b[k - Len(a)]
    BY <1>11, <1>12, <1>13, ConcatProperties
  <2>2. Len(a) \in Nat /\ Len(b) \in Nat
    BY <1>11, <1>12
  <2>3. ASSUME NEW k \in 1..Len(cs) PROVE cs[k].name \notin Sync
    <3>1. CASE k <= Len(a)
      <4>1. k \in 1..Len(a) /\ cs[k] = a[k]
        BY <2>1, <2>2, <3>1
      <4> QED
        BY <1>11, <4>1 DEF NoSync
    <3>2. CASE ~ (k <= Len(a))
      <4>1. k - Len(a) \in 1..Len(b) /\ cs[k] = b[k - Len(a)]
        BY <2>1, <2>2, <3>2
      <4> QED
        BY <1>12, <4>1 DEF NoSync
    <3> QED
      BY <3>1, <3>2
  <2> QED
    BY <2>1, <2>3 DEF NoSync
<1>15. Placed("step", cs)
  BY <1>14 DEF Placed, NoSync
<1>16. Follows(cs)
  <2> SUFFICES ASSUME NEW o \in BOOLEAN, Running(life, o)
               PROVE  \E q \in BOOLEAN :
                        Leads(cs, Holding(life, owed, o), Holding(life', owed', q), mode)
                        /\ Running(life', q)
    BY DEF Follows
  <2> DEFINE s == Holding(life, owed, o)
             q == o \/ O # {}
             u == Holding(life', owed', q)
  <2>0. q \in BOOLEAN
    OBVIOUS
  <2>1. s \in Holdings /\ s.pend = life /\ s.eps = owed /\ s.open = o
    BY <1>1, <1>10, HoldingType
  <2>2. u \in Holdings /\ u.pend = life' /\ u.eps = owed' /\ u.open = q
    <3> HIDE DEF q
    <3> QED
      BY <1>8, <2>0, HoldingType
  <2>3. SteppedOn(O, D, n, s) = u
    <3>1. [e \in EnvIds |-> IF e \in D THEN <<>>
                            ELSE IF e \in O THEN Append(s.pend[e], n) ELSE s.pend[e]] = life'
      BY <1>4, <1>5, <2>1
    <3>2. {Episode(e, Append(s.pend[e], n)) : e \in D} = more
      BY <2>1
    <3> HIDE DEF s, more
    <3> QED
      BY <1>4, <2>1, <3>1, <3>2 DEF SteppedOn
  <2> HIDE DEF s, u
  <2>4. Leads(a, s, u, mode)
    BY <1>9, <2>1, <2>3
  <2>5. Leads(b, u, u, mode)
    <3>1. CASE auto
      <4>1. [e \in EnvIds |-> IF e \in D THEN <<>> ELSE u.pend[e]] = u.pend
        BY <1>4, <2>2
      <4>2. ClearedOn(D, u) = u
        BY <2>2, <4>1 DEF ClearedOn, u
      <4> QED
        BY <1>9, <2>2, <3>1, <4>2 DEF b
    <3>2. CASE ~auto
      BY <2>2, <3>2, LeadsNowhere DEF b
    <3> QED
      BY <3>1, <3>2
  <2>6. Leads(cs, s, u, mode)
    BY <1>11, <1>12, <1>13, <2>4, <2>5, LeadsJoin
  <2>7. Running(life', q)
    <3>1. ASSUME NEW e \in EnvIds, life'[e] # <<>> PROVE e \in O
      BY <1>1, <1>4, <1>5, <3>1 DEF Lives
    <3> QED
      BY <3>1 DEF Running
  <2> QED
    BY <2>0, <2>6, <2>7 DEF s, u
<1>17. Lives'
  <2>1. auto => \A e \in EnvIds : ~done'[e]
    BY <1>1, <1>4 DEF Lives
  <2>2. ASSUME NEW e \in EnvIds, done'[e] PROVE life'[e] = <<>>
    <3>1. CASE e \in D
      BY <1>4, <3>1
    <3>2. CASE e \notin D
      <4>1. done[e]
        BY <1>4, <2>2, <3>2
      <4> QED
        BY <1>1, <1>4, <3>2, <4>1 DEF Lives
    <3> QED
      BY <3>1, <3>2
  <2> QED
    BY <1>1, <2>1, <2>2 DEF Lives
<1>18. /\ rollout' \in {"new", "ready", "running", "between"} /\ done' \in [EnvIds -> BOOLEAN]
       /\ life' \in [EnvIds -> Frames] /\ owed' \subseteq Episodes
  <2>1. \A e \in EnvIds : (done[e] \/ (e \in D /\ ~auto)) \in BOOLEAN
    OBVIOUS
  <2>2. done' \in [EnvIds -> BOOLEAN]
    BY <1>4, <2>1
  <2> QED
    BY <1>1, <1>8, <2>2
<1>19. /\ "step" \in {"finish", "pop"} /\ cs # <<>> => cs[Len(cs)].name \in Sync
       /\ "step" = "pop" => Len(cs) \in 0..1
       /\ rollout' = "between" /\ ~auto => "step" \in {"finish", "pop"} /\ cs # <<>>
       /\ "step" \in {"reset", "step", "finish", "pop"}
  BY <1>1
<1>20. Begin("step", cs)
  BY <1>3, <1>13 DEF a, b
<1> QED
  BY <1>14, <1>15, <1>16, <1>17, <1>18, <1>19, <1>20, Beginning

LEMMA CheckKeeps ==
  ASSUME RInv, Check
  PROVE  RInv'
<1>1. /\ at = "check" /\ at' = (IF todo = <<>> THEN "idle" ELSE IF error THEN "raised" ELSE "put")
      /\ auto' = auto /\ op' = op /\ todo' = todo /\ rollout' = rollout /\ done' = done
      /\ commands' = commands /\ answer' = answer /\ error' = error
      /\ mode' = mode /\ pending' = pending /\ dataset' = dataset /\ hasEpisode' = hasEpisode
      /\ films' = films /\ videos' = videos /\ counts' = counts
      /\ life' = life /\ owed' = owed /\ proc' = proc /\ out' = out /\ lost' = lost
      /\ ops' = ops /\ faults' = faults
  BY DEF Check, recorders, history
<1>2. RecorderTypeOK'
  BY <1>1 DEF RInv, RecorderTypeOK
<1>3. VideosCounted' /\ Lives' /\ (error => faults > 0)' /\ (out.root = out.due)'
  BY <1>1 DEF RInv, VideosCounted, Lives
<1>4. Waiting'
  BY <1>1 DEF RInv, Waiting
<1>5. Giving'
  BY <1>1 DEF RInv, Giving
<1>6. Barrier'
  BY <1>1 DEF RInv, Barrier
<1>7. ASSUME ~error' PROVE Good'
  <2>1. Good /\ Now' = Now
    BY <1>1, <1>7 DEF RInv, Now, Answered
  <2> QED
    BY <1>1, <2>1 DEF Good, Filmed, Answered, Converges, Running
<1> QED
  BY <1>2, <1>3, <1>4, <1>5, <1>6, <1>7 DEF RInv

\* The first command of the one sequence becomes the last of the other.
LEMMA Handover ==
  ASSUME NEW a \in Seq(Commands), NEW b \in Seq(Commands), b # <<>>
  PROVE  /\ Append(a, Head(b)) \in Seq(Commands) /\ Tail(b) \in Seq(Commands)
         /\ Head(b) = b[1] /\ b[1] \in Commands /\ Len(b) \in Nat \ {0}
         /\ Len(Append(a, Head(b))) = Len(a) + 1
         /\ Append(a, Head(b))[Len(a) + 1] = Head(b)
         /\ \A k \in 1..Len(a) : Append(a, Head(b))[k] = a[k]
         /\ Len(Tail(b)) = Len(b) - 1
         /\ \A k \in 1..(Len(b) - 1) : Tail(b)[k] = b[k + 1]
         /\ Append(a, Head(b)) \o Tail(b) = a \o b
<1>1. Head(b) = b[1] /\ Len(b) \in Nat \ {0} /\ Len(Tail(b)) = Len(b) - 1
      /\ Tail(b) \in Seq(Commands)
  BY EmptySeq, HeadTailProperties
<1>2. \A k \in 1..(Len(b) - 1) : Tail(b)[k] = b[k + 1]
  BY <1>1, HeadTailProperties
<1>3. b[1] \in Commands
  BY <1>1
<1>4. PICK c : c = Append(a, Head(b))
  OBVIOUS
<1>5. /\ c \in Seq(Commands) /\ Len(c) = Len(a) + 1 /\ c[Len(a) + 1] = Head(b)
      /\ \A k \in 1..Len(a) : c[k] = a[k]
  BY <1>1, <1>3, <1>4, AppendProperties
<1>6. Len(a) \in Nat
  OBVIOUS
<1>7. c \o Tail(b) = a \o b
  <2>1. /\ c \o Tail(b) \in Seq(Commands) /\ Len(c \o Tail(b)) = Len(a) + Len(b)
        /\ \A k \in 1..(Len(a) + Len(b)) : (c \o Tail(b))[k] =
             IF k <= Len(a) + 1 THEN c[k] ELSE Tail(b)[k - (Len(a) + 1)]
    <3>1. PICK z \in Seq(Commands) : z = Tail(b)
      BY <1>1
    <3>2. /\ c \o z \in Seq(Commands) /\ Len(c \o z) = Len(c) + Len(z)
          /\ \A k \in 1..(Len(c) + Len(z)) : (c \o z)[k] =
               IF k <= Len(c) THEN c[k] ELSE z[k - Len(c)]
      BY <1>5, ConcatProperties
    <3>3. Len(c) = Len(a) + 1 /\ Len(c) + Len(z) = Len(a) + Len(b)
      BY <1>1, <1>5, <1>6, <3>1
    <3> QED
      BY <3>1, <3>2, <3>3
  <2>2. /\ a \o b \in Seq(Commands) /\ Len(a \o b) = Len(a) + Len(b)
        /\ \A k \in 1..(Len(a) + Len(b)) : (a \o b)[k] = IF k <= Len(a) THEN a[k] ELSE b[k - Len(a)]
    BY <1>1, <1>6, ConcatProperties
  <2>3. PICK x \in Seq(Commands), y \in Seq(Commands) : x = c \o Tail(b) /\ y = a \o b
    BY <2>1, <2>2
  <2>4. Len(x) = Len(y)
    BY <2>1, <2>2, <2>3
  <2>5. ASSUME NEW k \in 1..Len(x) PROVE x[k] = y[k]
    <3>0. k \in 1..(Len(a) + Len(b))
      BY <2>1, <2>3
    <3>1. CASE k <= Len(a)
      <4>1. k <= Len(a) + 1 /\ k \in 1..Len(a)
        BY <1>6, <3>0, <3>1
      <4> QED
        BY <1>5, <2>1, <2>2, <2>3, <3>0, <3>1, <4>1
    <3>2. CASE k = Len(a) + 1
      <4>1. ~ (k <= Len(a)) /\ k <= Len(a) + 1 /\ k - Len(a) = 1
        BY <1>6, <3>2
      <4> QED
        BY <1>1, <1>5, <2>1, <2>2, <2>3, <3>0, <3>2, <4>1
    <3>3. CASE k > Len(a) + 1
      <4>1. /\ ~ (k <= Len(a)) /\ ~ (k <= Len(a) + 1)
            /\ k - (Len(a) + 1) \in 1..(Len(b) - 1) /\ k - (Len(a) + 1) + 1 = k - Len(a)
        BY <1>1, <1>6, <3>0, <3>3
      <4>2. Tail(b)[k - (Len(a) + 1)] = b[k - Len(a)]
        BY <1>2, <4>1
      <4> QED
        BY <2>1, <2>2, <2>3, <3>0, <4>1, <4>2
    <3> QED
      BY <1>6, <3>0, <3>1, <3>2, <3>3
  <2> QED
    BY <2>3, <2>4, <2>5, SeqEqual
<1> QED
  BY <1>1, <1>2, <1>3, <1>4, <1>5, <1>7

LEMMA PutKeeps ==
  ASSUME RInv, Put
  PROVE  RInv'
<1>1. /\ at = "put" /\ Len(commands) < QueueSize
      /\ commands' = Append(commands, Head(todo)) /\ todo' = Tail(todo)
      /\ at' = (IF Head(todo).name \in Sync THEN "wait" ELSE "check")
      /\ auto' = auto /\ op' = op /\ rollout' = rollout /\ done' = done
      /\ answer' = answer /\ error' = error
      /\ mode' = mode /\ pending' = pending /\ dataset' = dataset /\ hasEpisode' = hasEpisode
      /\ films' = films /\ videos' = videos /\ counts' = counts
      /\ life' = life /\ owed' = owed /\ proc' = proc /\ out' = out /\ lost' = lost
      /\ ops' = ops /\ faults' = faults
  BY DEF Put, recorders, history
<1>2. RecorderTypeOK /\ todo # <<>> /\ answer.is = "none" /\ todo \in Seq(Commands)
      /\ commands \in Seq(Commands)
  BY <1>1 DEF RInv, Giving, Waiting, RecorderTypeOK
<1>3. /\ commands' \in Seq(Commands) /\ todo' \in Seq(Commands)
      /\ Head(todo) = todo[1] /\ todo[1] \in Commands /\ Len(todo) \in Nat \ {0}
      /\ Len(commands') = Len(commands) + 1 /\ commands'[Len(commands) + 1] = todo[1]
      /\ \A k \in 1..Len(commands) : commands'[k] = commands[k]
      /\ Len(todo') = Len(todo) - 1 /\ \A k \in 1..(Len(todo) - 1) : todo'[k] = todo[k + 1]
      /\ commands' \o todo' = commands \o todo
  BY <1>1, <1>2, Handover
<1>4. RecorderTypeOK'
  <2>1. Len(commands') <= QueueSize
    <3>1. Len(commands) \in Nat
      BY <1>2
    <3> QED
      BY <1>1, <1>3, <3>1, AsyncRecorderAssumption
  <2>2. at' \in {"idle", "check", "put", "wait", "raised"}
    BY <1>1
  <2> QED
    BY <1>1, <1>2, <1>3, <2>1, <2>2 DEF RecorderTypeOK
<1>5. VideosCounted' /\ Lives' /\ (error => faults > 0)' /\ (out.root = out.due)'
  BY <1>1 DEF RInv, VideosCounted, Lives
<1>6. NoSync(commands)
  BY <1>1 DEF RInv, Waiting, NoSync
<1>7. todo[1].name \in Sync => Awaits(op, todo[1]) /\ (op # "reset" => Len(todo) = 1)
  <2>1. 1 \in 1..Len(todo)
    BY <1>3
  <2> QED
    BY <2>1 DEF RInv, Giving, Placed
<1>8. \A k \in 1..(Len(todo) - 1) : k + 1 \in 1..Len(todo) /\ k + 1 # 1
  BY <1>3
<1>9. \A k \in 1..(Len(todo) - 1) : todo[k + 1].name \in Sync =>
        Awaits(op, todo[k + 1]) /\ op # "reset" /\ k + 1 = Len(todo)
  BY <1>8 DEF RInv, Giving, Placed
<1>10. todo[1].name \in Sync => NoSync(todo') /\ (op # "reset" => todo' = <<>>)
  <2>1. SUFFICES ASSUME todo[1].name \in Sync PROVE NoSync(todo') /\ (op # "reset" => todo' = <<>>)
    OBVIOUS
  <2>2. CASE op # "reset"
    <3>1. Len(todo') = 0
      BY <1>3, <1>7, <2>1, <2>2
    <3>2. todo' = <<>>
      BY <1>3, <3>1, EmptySeq
    <3> QED
      BY <3>1, <3>2 DEF NoSync
  <2>3. CASE op = "reset"
    BY <1>3, <1>9, <2>3 DEF NoSync
  <2> QED
    BY <2>2, <2>3
<1>11. Waiting'
  <2>1. ASSUME NEW k \in 1..Len(commands'), commands'[k].name \in Sync
        PROVE  k = Len(commands') /\ at' = "wait" /\ Awaits(op', commands'[k])
    <3>0. Len(commands) \in Nat
      BY <1>2
    <3>1. k = Len(commands) + 1
      <4>1. SUFFICES ASSUME k \in 1..Len(commands) PROVE FALSE
        BY <1>3, <3>0
      <4> QED
        BY <1>3, <1>6, <2>1, <4>1 DEF NoSync
    <3> QED
      BY <1>1, <1>3, <1>7, <2>1, <3>1
  <2>2. at' # "raised" /\ (at' = "wait" => todo[1].name \in Sync)
    BY <1>1, <1>3
  <2>3. answer'.is = "none" /\ answer'.root = {}
    BY <1>1, <1>2 DEF RInv, Waiting
  <2> QED
    BY <1>1, <1>10, <2>1, <2>2, <2>3 DEF Waiting
<1>12. Giving'
  <2>1. Placed(op, todo)'
    <3>1. ASSUME NEW k \in 1..Len(todo'), todo'[k].name \in Sync
          PROVE  Awaits(op, todo'[k]) /\ k = (IF op = "reset" THEN 1 ELSE Len(todo'))
      <4>1. k \in 1..(Len(todo) - 1) /\ todo'[k] = todo[k + 1]
        BY <1>3
      <4>2. Awaits(op, todo[k + 1]) /\ op # "reset" /\ k + 1 = Len(todo)
        BY <1>9, <3>1, <4>1
      <4> QED
        BY <1>3, <4>1, <4>2
    <3> QED
      BY <1>1, <3>1 DEF Placed
  <2>2. op' \in {"finish", "pop"} /\ todo' # <<>> => todo'[Len(todo')].name \in Sync
    <3>1. SUFFICES ASSUME op \in {"finish", "pop"}, todo' # <<>>
                   PROVE  todo'[Len(todo')].name \in Sync
      BY <1>1
    <3>2. Len(todo') # 0
      BY <1>3, <3>1, EmptySeq
    <3>3. Len(todo') \in 1..(Len(todo) - 1) /\ Len(todo') + 1 = Len(todo)
      BY <1>3, <3>2
    <3>4. todo'[Len(todo')] = todo[Len(todo)]
      BY <1>3, <3>3
    <3> QED
      BY <1>2, <3>1, <3>4 DEF RInv, Giving
  <2>3. op' = "pop" => Len(todo') \in 0..1
    BY <1>1, <1>3 DEF RInv, Giving
  <2>4. at' # "idle" /\ at' # "put"
    BY <1>1
  <2> QED
    BY <2>1, <2>2, <2>3, <2>4 DEF Giving
<1>13. Barrier'
  <2>1. SUFFICES ASSUME rollout = "between", ~auto
                 PROVE  /\ op \in {"finish", "pop"}
                        /\ at' \in {"idle", "check"} /\ todo' = <<>> => FALSE
    BY <1>1 DEF Barrier
  <2>2. op \in {"finish", "pop"}
    BY <2>1 DEF RInv, Barrier
  <2>3. SUFFICES ASSUME todo' = <<>> PROVE at' = "wait"
    BY <2>2
  <2>4. Len(todo) = 1
    BY <1>3, <2>3
  <2>5. todo[1].name \in Sync
    BY <1>2, <2>2, <2>4 DEF RInv, Giving
  <2> QED
    BY <1>1, <1>3, <2>5
<1>14. ASSUME ~error' PROVE Good'
  <2>1. Good /\ Now' = Now
    BY <1>1, <1>14 DEF RInv, Now, Answered
  <2>2. Converges'
    BY <1>1, <1>3, <2>1 DEF Good, Converges, Running
  <2> QED
    BY <1>1, <2>1, <2>2 DEF Good, Filmed, Answered
<1> QED
  BY <1>4, <1>5, <1>11, <1>12, <1>13, <1>14 DEF RInv

LEMMA ReceiveKeeps ==
  ASSUME RInv, Receive
  PROVE  RInv'
<1> DEFINE lost0 == answer.is = "exception" \/ error
<1>1. /\ at = "wait" /\ answer.is # "none" /\ answer' = NoAnswer
      /\ at' = (IF lost0 THEN "raised" ELSE "check")
      /\ auto' = auto /\ op' = op /\ todo' = todo /\ rollout' = rollout /\ done' = done
      /\ commands' = commands /\ error' = error
      /\ mode' = mode /\ pending' = pending /\ dataset' = dataset /\ hasEpisode' = hasEpisode
      /\ films' = films /\ videos' = videos /\ counts' = counts
      /\ life' = life /\ proc' = proc /\ lost' = lost /\ ops' = ops /\ faults' = faults
  BY DEF Receive, recorders
<1>2. (lost0 \/ op # "pop") => out' = out /\ owed' = owed
  BY DEF Receive, Took
<1>3. ~lost0 /\ op = "pop" => out' = [root |-> answer.root, due |-> owed] /\ owed' = {}
  BY DEF Receive, Took
<1>4. /\ RecorderTypeOK /\ commands = <<>> /\ NoSync(todo) /\ (op # "reset" => todo = <<>>)
      /\ (lost0 => error) /\ answer.is \in {"result", "exception"}
  BY <1>1 DEF RInv, Waiting, RecorderTypeOK
<1>5. answer'.is = "none" /\ answer'.root = {}
  BY <1>1 DEF NoAnswer
<1> HIDE DEF lost0
<1>6. RecorderTypeOK'
  <2>1. answer' \in [is : {"none", "result", "exception"}, root : SUBSET Episodes]
    BY <1>1 DEF NoAnswer
  <2>2. out' \in [root : SUBSET Episodes, due : SUBSET Episodes] /\ owed' \subseteq Episodes
    <3>1. CASE lost0 \/ op # "pop"
      BY <1>2, <1>4, <3>1 DEF RecorderTypeOK
    <3>2. CASE ~lost0 /\ op = "pop"
      BY <1>3, <1>4, <3>2, RecorderParts
    <3> QED
      BY <3>1, <3>2
  <2>3. at' \in {"idle", "check", "put", "wait", "raised"}
    BY <1>1
  <2> QED
    BY <1>1, <1>4, <2>1, <2>2, <2>3 DEF RecorderTypeOK
<1>7. VideosCounted' /\ Lives' /\ (error => faults > 0)'
  BY <1>1 DEF RInv, VideosCounted, Lives
<1>8. Waiting'
  <2>1. Len(commands') = 0
    BY <1>1, <1>4
  <2> QED
    BY <1>1, <1>4, <1>5, <2>1 DEF Waiting
<1>9. Giving'
  BY <1>1, <1>4 DEF RInv, Giving
<1>10. Barrier'
  <2>1. at' # "raised" => ~error
    BY <1>1 DEF lost0
  <2> QED
    BY <1>1, <1>4, <2>1 DEF RInv, Barrier
<1>11. ASSUME ~error, op = "pop" PROVE Now = Holding(life, owed, dataset.open)
  <2>1. Good
    BY <1>11 DEF RInv
  <2>2. PICK o \in BOOLEAN : Leads(commands \o todo, Now, Holding(life, owed, o), mode)
    BY <2>1 DEF Good, Converges
  <2>3. commands \o todo = <<>>
    BY <1>4, <1>11
  <2>4. Now = Holding(life, owed, o)
    BY <2>2, <2>3, NowhereLeads
  <2>5. Now.open = dataset.open
    BY DEF Now, Holding
  <2> QED
    BY <2>4, <2>5 DEF Holding
<1>12. (out.root = out.due)'
  <2>1. CASE lost0 \/ op # "pop"
    BY <1>2, <2>1 DEF RInv
  <2>2. CASE ~lost0 /\ op = "pop"
    <3>1. ~error /\ answer.is = "result"
      BY <1>4, <2>2 DEF lost0
    <3>2. Now.eps = owed /\ Now.eps = answer.root
      BY <1>11, <2>2, <3>1 DEF Now, Holding, Answered
    <3> QED
      BY <1>3, <2>2, <3>2
  <2> QED
    BY <2>1, <2>2
<1>13. ASSUME ~error' PROVE Good'
  <2>0. ~error /\ ~lost0 /\ answer.is = "result"
    BY <1>1, <1>4, <1>13 DEF lost0
  <2>1. Good
    BY <2>0 DEF RInv
  <2>2. ~Answered'
    BY <1>5 DEF Answered
  <2>3. Now' = Holding(pending, dataset.eps, dataset.open)
    BY <1>1, <2>2 DEF Now
  <2>4. Converges'
    <3>1. CASE op = "pop"
      <4>1. dataset.eps = {} /\ pending = life
        <5>1. Answered
          BY <2>0, <3>1 DEF Answered
        <5>2. Now.pend = pending /\ Now.pend = life
          BY <1>11, <2>0, <3>1 DEF Now, Holding
        <5> QED
          BY <2>1, <5>1, <5>2 DEF Good
      <4>2. owed' = {}
        BY <1>3, <2>0, <3>1
      <4>3. Now' = Holding(life', owed', dataset.open) /\ dataset.open \in BOOLEAN
        BY <1>1, <1>4, <2>3, <4>1, <4>2, RecorderParts
      <4>4. commands' \o todo' = <<>>
        BY <1>1, <1>4, <3>1
      <4>5. Leads(<<>>, Now', Holding(life', owed', dataset.open), mode')
        <5>1. Holding(life', owed', dataset.open) \in Holdings
          BY <1>6, <4>3, HoldingType DEF RecorderTypeOK
        <5> QED
          BY <4>3, <5>1, LeadsNowhere
      <4>6. Running(life, dataset.open)
        <5>1. PICK o \in BOOLEAN :
                Leads(commands \o todo, Now, Holding(life, owed, o), mode) /\ Running(life, o)
          BY <2>1 DEF Good, Converges
        <5>2. commands \o todo = <<>>
          BY <1>4, <3>1
        <5>3. Holding(life, owed, dataset.open) = Holding(life, owed, o)
          BY <1>11, <2>0, <3>1, <5>1, <5>2, NowhereLeads
        <5>4. o = dataset.open
          BY <5>3 DEF Holding
        <5> QED
          BY <5>1, <5>4
      <4>7. Running(life, dataset.open)'
        BY <1>1, <4>6 DEF Running
      <4>8. \E q \in BOOLEAN :
              Leads(commands' \o todo', Now', Holding(life', owed', q), mode')
              /\ (~auto' /\ (\E e \in EnvIds : life'[e] # <<>>) => q)
        BY <1>1, <4>3, <4>4, <4>5, <4>7 DEF Running
      <4> QED
        BY <4>8 DEF Converges, Running
    <3>2. CASE op # "pop"
      <4>1. ~Answered /\ owed' = owed
        BY <1>2, <3>2 DEF Answered
      <4>2. Now' = Now
        BY <2>3, <4>1 DEF Now
      <4> QED
        BY <1>1, <2>1, <4>1, <4>2 DEF Good, Converges, Running
    <3> QED
      BY <3>1, <3>2
  <2> QED
    BY <1>1, <2>1, <2>2, <2>4 DEF Good, Filmed
<1> QED
  BY <1>6, <1>7, <1>8, <1>9, <1>10, <1>12, <1>13 DEF RInv

LEMMA ReplaceKeeps ==
  ASSUME RInv, Replace
  PROVE  RInv'
<1>1. /\ Fresh /\ faults' = faults + 1 /\ faults < MaxFaults /\ lost' = lost \cup owed
      /\ proc' = proc + 1 /\ auto' = auto /\ videos' = videos /\ out' = out /\ ops' = ops
      /\ RecorderTypeOK
  BY DEF Replace, Fault, RInv
<1>2. /\ at' = "idle" /\ op' = "none" /\ todo' = <<>> /\ rollout' = "new"
      /\ done' = [e \in EnvIds |-> FALSE]
      /\ commands' = <<>> /\ answer' = NoAnswer /\ error' = FALSE
      /\ mode' = "train" /\ hasEpisode' = FALSE /\ dataset' = [NoDataset EXCEPT !.open = TRUE]
      /\ pending' = Emptied /\ films' = Emptied
      /\ counts' = [m \in Modes |-> [e \in EnvIds |-> 0]]
      /\ life' = Emptied /\ owed' = {}
  BY <1>1 DEF Fresh, Emptied
<1>3. dataset' = [open |-> TRUE, eps |-> {}, buffer |-> <<>>]
      /\ answer' = [is |-> "none", root |-> {}]
  BY <1>2 DEF NoDataset, NoAnswer
<1>4. RecorderTypeOK'
  <2>1. <<>> \in Frames /\ <<>> \in Seq(Commands) /\ Len(<<>>) = 0
    BY DEF Frames
  <2>2. answer' \in [is : {"none", "result", "exception"}, root : SUBSET Episodes]
    BY <1>3
  <2>3. dataset' \in [open : BOOLEAN, eps : SUBSET Episodes, buffer : Frames]
    BY <1>3, <2>1
  <2>4. counts' \in [Modes -> [EnvIds -> Nat]] /\ mode' \in Modes
    BY <1>2 DEF Modes
  <2>5. done' \in [EnvIds -> BOOLEAN]
    BY <1>2
  <2>6. proc' \in Nat /\ faults' \in 0..MaxFaults
    BY <1>1, AsyncRecorderAssumption DEF RecorderTypeOK
  <2>7. Len(commands') <= QueueSize /\ commands' \in Seq(Commands) /\ todo' \in Seq(Commands)
    BY <1>2, <2>1, AsyncRecorderAssumption
  <2>8. lost' \subseteq Episodes /\ owed' \subseteq Episodes
    BY <1>1, <1>2 DEF RecorderTypeOK
  <2>9. /\ at' \in {"idle", "check", "put", "wait", "raised"}
        /\ op' \in {"none", "reset", "step", "finish", "pop"}
        /\ rollout' \in {"new", "ready", "running", "between"}
    BY <1>2
  <2>10. error' \in BOOLEAN /\ hasEpisode' \in BOOLEAN
    BY <1>2
  <2>11. /\ auto' \in BOOLEAN /\ DOMAIN videos' \subseteq Modes \X EnvIds \X Nat
         /\ out' \in [root : SUBSET Episodes, due : SUBSET Episodes] /\ ops' \in 0..MaxOps
    BY <1>1 DEF RecorderTypeOK
  <2> QED
    BY <1>2, <2>2, <2>3, <2>4, <2>5, <2>6, <2>7, <2>8, <2>9, <2>10, <2>11, EmptiedType
       DEF RecorderTypeOK
<1>5. VideosCounted'
  <2>1. proc \in Nat
    BY <1>1 DEF RecorderTypeOK
  <2>2. ASSUME NEW v \in DOMAIN videos PROVE videos[v].by \in 0..proc' /\ videos[v].by # proc'
    <3>1. videos[v].by \in 0..proc
      BY DEF RInv, VideosCounted
    <3> QED
      BY <1>1, <2>1, <3>1
  <2> QED
    BY <1>1, <2>2 DEF VideosCounted
<1>6. Waiting' /\ Giving' /\ Barrier'
  <2>1. Len(<<>>) = 0
    OBVIOUS
  <2> QED
    BY <1>2, <1>3, <2>1 DEF Waiting, Giving, Barrier, NoSync, Placed
<1>7. Lives'
  BY <1>2 DEF Lives, Emptied
<1>8. Good'
  <2>1. ~Answered' /\ dataset'.eps = {} /\ dataset'.open = TRUE /\ dataset'.buffer = <<>>
    BY <1>2, <1>3 DEF Answered
  <2>2. Now' = Holding(life', owed', TRUE)
    BY <1>2, <2>1 DEF Now
  <2>3. Holding(life', owed', TRUE) \in Holdings
    <3>1. owed' \in SUBSET Episodes /\ TRUE \in BOOLEAN
      BY <1>2
    <3> QED
      BY <1>2, <3>1, EmptiedType, HoldingType
  <2>4. Leads(<<>>, Now', Holding(life', owed', TRUE), mode')
    BY <2>2, <2>3, LeadsNowhere
  <2>5. commands' \o todo' = <<>>
    BY <1>2
  <2>6. Converges'
    BY <2>4, <2>5 DEF Converges, Running
  <2> QED
    BY <1>2, <2>1, <2>6 DEF Good, Filmed
<1>9. (error => faults > 0)' /\ (out.root = out.due)'
  BY <1>1, <1>2 DEF RInv
<1> QED
  BY <1>4, <1>5, <1>6, <1>7, <1>8, <1>9 DEF RInv

-----------------------------------------------------------------------------
(* The worker keeps it *)

LEMMA TailJoins ==
  ASSUME NEW a \in Seq(Commands), NEW b \in Seq(Commands), a # <<>>
  PROVE  /\ a \o b \in Seq(Commands) /\ a \o b # <<>>
         /\ Head(a \o b) = Head(a) /\ Tail(a \o b) = Tail(a) \o b
         /\ Head(a) = a[1] /\ a[1] \in Commands /\ Tail(a) \in Seq(Commands)
         /\ Len(a) \in Nat \ {0} /\ Len(Tail(a)) = Len(a) - 1
         /\ \A k \in 1..(Len(a) - 1) : Tail(a)[k] = a[k + 1]
<1>1. Head(a) = a[1] /\ Len(a) \in Nat \ {0} /\ Len(Tail(a)) = Len(a) - 1
      /\ Tail(a) \in Seq(Commands) /\ Len(b) \in Nat
  BY EmptySeq, HeadTailProperties
<1>2. \A k \in 1..(Len(a) - 1) : Tail(a)[k] = a[k + 1]
  BY <1>1, HeadTailProperties
<1>3. a[1] \in Commands
  BY <1>1
<1>4. PICK c : c = a \o b
  OBVIOUS
<1>5. /\ c \in Seq(Commands) /\ Len(c) = Len(a) + Len(b)
      /\ \A k \in 1..Len(c) : c[k] = IF k <= Len(a) THEN a[k] ELSE b[k - Len(a)]
  BY <1>4, ConcatProperties
<1>6. c # <<>> /\ Head(c) = c[1] /\ Len(Tail(c)) = Len(c) - 1 /\ Tail(c) \in Seq(Commands)
  <2>1. Len(c) \in Nat \ {0} /\ Len(<<>>) = 0
    BY <1>1, <1>5
  <2>2. c # <<>> /\ c \in Seq(Commands)
    BY <1>5, <2>1
  <2> QED
    BY <2>2, HeadTailProperties
<1>7. \A k \in 1..(Len(c) - 1) : Tail(c)[k] = c[k + 1]
  BY <1>6, <1>5, HeadTailProperties
<1>8. c[1] = a[1]
  <2>1. 1 \in 1..Len(c) /\ 1 <= Len(a)
    BY <1>1, <1>5
  <2> QED
    BY <1>5, <2>1
<1>9. Tail(c) = Tail(a) \o b
  <2>1. PICK z \in Seq(Commands) : z = Tail(a)
    BY <1>1
  <2>2. /\ z \o b \in Seq(Commands) /\ Len(z \o b) = Len(z) + Len(b)
        /\ \A k \in 1..(Len(z) + Len(b)) :
             (z \o b)[k] = IF k <= Len(z) THEN z[k] ELSE b[k - Len(z)]
    BY ConcatProperties
  <2>3. PICK y \in Seq(Commands) : y = z \o b
    BY <2>2
  <2>4. PICK x \in Seq(Commands) : x = Tail(c)
    BY <1>6
  <2>5. Len(z) = Len(a) - 1 /\ Len(x) = Len(a) + Len(b) - 1 /\ Len(y) = Len(x)
    BY <1>1, <1>5, <1>6, <2>1, <2>2, <2>3, <2>4
  <2>6. ASSUME NEW k \in 1..Len(x) PROVE x[k] = y[k]
    <3>1. k \in 1..(Len(c) - 1) /\ k + 1 \in 1..Len(c) /\ k \in 1..(Len(z) + Len(b))
      BY <1>1, <1>5, <2>5
    <3>2. x[k] = IF k + 1 <= Len(a) THEN a[k + 1] ELSE b[k + 1 - Len(a)]
      BY <1>5, <1>7, <2>4, <3>1
    <3>3. y[k] = IF k <= Len(z) THEN z[k] ELSE b[k - Len(z)]
      BY <2>2, <2>3, <3>1
    <3>4. CASE k <= Len(z)
      <4>1. k + 1 <= Len(a) /\ k \in 1..(Len(a) - 1)
        BY <1>1, <2>5, <3>1, <3>4
      <4> QED
        BY <1>2, <2>1, <3>2, <3>3, <3>4, <4>1
    <3>5. CASE ~ (k <= Len(z))
      <4>1. ~ (k + 1 <= Len(a)) /\ k + 1 - Len(a) = k - Len(z)
        BY <1>1, <2>5, <3>1, <3>5
      <4> QED
        BY <3>2, <3>3, <3>5, <4>1
    <3> QED
      BY <3>4, <3>5
  <2> QED
    BY <2>1, <2>3, <2>4, <2>5, <2>6, SeqEqual
<1> QED
  BY <1>1, <1>2, <1>3, <1>4, <1>5, <1>6, <1>8, <1>9

\* What the worker finds when it takes a command, whatever it then makes of it.
LEMMA Takes ==
  ASSUME RInv, NEW name, Serving(name)
  PROVE  /\ auto' = auto /\ at' = at /\ op' = op /\ todo' = todo /\ rollout' = rollout
         /\ done' = done /\ life' = life /\ owed' = owed /\ proc' = proc /\ out' = out
         /\ lost' = lost /\ ops' = ops /\ RecorderTypeOK
         /\ commands' \in Seq(Commands) /\ Len(commands') <= QueueSize
         /\ Head(commands) \in Commands /\ Head(commands).name = name
         /\ answer.is = "none" /\ ~Answered
         /\ name \in Sync => at = "wait" /\ commands' = <<>> /\ Awaits(op, Head(commands))
         /\ \A k \in 1..Len(commands') : commands'[k].name \in Sync =>
              k = Len(commands') /\ at = "wait" /\ Awaits(op, commands'[k])
         /\ Giving' /\ Lives' /\ Barrier'
<1>1. /\ auto' = auto /\ at' = at /\ op' = op /\ todo' = todo /\ rollout' = rollout
      /\ done' = done /\ life' = life /\ owed' = owed /\ proc' = proc /\ out' = out
      /\ lost' = lost /\ ops' = ops
      /\ commands # <<>> /\ Head(commands).name = name /\ commands' = Tail(commands)
  BY DEF Serving, callingThread, history
<1>2. RecorderTypeOK /\ commands \in Seq(Commands) /\ todo \in Seq(Commands)
      /\ Len(commands) <= QueueSize
  BY DEF RInv, RecorderTypeOK
<1>3. /\ Head(commands) = commands[1] /\ commands[1] \in Commands
      /\ commands' \in Seq(Commands) /\ Len(commands) \in Nat \ {0}
      /\ Len(commands') = Len(commands) - 1
      /\ \A k \in 1..(Len(commands) - 1) : commands'[k] = commands[k + 1]
  BY <1>1, <1>2, TailJoins
<1>4. Len(commands') <= QueueSize
  BY <1>2, <1>3, AsyncRecorderAssumption
<1>5. answer.is = "none"
  BY <1>1 DEF RInv, Waiting
<1>6. name \in Sync => at = "wait" /\ commands' = <<>> /\ Awaits(op, Head(commands))
  <2>1. SUFFICES ASSUME name \in Sync
                 PROVE  at = "wait" /\ commands' = <<>> /\ Awaits(op, Head(commands))
    OBVIOUS
  <2>2. 1 \in 1..Len(commands) /\ commands[1].name \in Sync
    BY <1>1, <1>3, <2>1
  <2>3. 1 = Len(commands) /\ at = "wait" /\ Awaits(op, commands[1])
    BY <2>2 DEF RInv, Waiting
  <2>4. Len(commands') = 0
    <3>1. Len(commands) = 1
      BY <2>3
    <3>2. Len(commands') = Len(commands) - 1
      BY <1>3
    <3> QED
      BY <3>1, <3>2
  <2> QED
    BY <1>3, <2>3, <2>4, EmptySeq
<1>7. ASSUME NEW k \in 1..Len(commands'), commands'[k].name \in Sync
      PROVE  k = Len(commands') /\ at = "wait" /\ Awaits(op, commands'[k])
  <2>1. k \in 1..(Len(commands) - 1) /\ k + 1 \in 1..Len(commands) /\ commands'[k] = commands[k + 1]
    BY <1>3
  <2>2. k + 1 = Len(commands) /\ at = "wait" /\ Awaits(op, commands[k + 1])
    BY <1>7, <2>1 DEF RInv, Waiting
  <2> QED
    BY <1>3, <2>1, <2>2
<1>8. Giving' /\ Lives'
  BY <1>1 DEF RInv, Giving, Lives
<1>9. Barrier'
  BY <1>1 DEF RInv, Barrier
<1>10. ~Answered
  BY <1>5 DEF Answered
<1> QED
  BY <1>1, <1>2, <1>3, <1>4, <1>5, <1>6, <1>7, <1>8, <1>9, <1>10

\* What it has to do for the command.
Does == Now' = Effect(Head(commands), Now, mode)

LEMMA Serves ==
  ASSUME RInv, NEW name, Serving(name), RecorderTypeOK', VideosCounted',
         error => error', error' => faults' > 0,
         answer' = answer \/ (name \in Sync /\ answer'.is # "none"),
         answer'.is = "exception" => error',
         mode' = mode \/ name = "set_mode",
         ~error' => Does /\ films' = pending' /\ dataset'.buffer = <<>> /\ Filmed'
                    /\ (hasEpisode' <=> dataset'.eps # {}) /\ (dataset'.eps # {} => dataset'.open)
                    /\ (Answered' => dataset'.eps = {})
  PROVE  RInv'
<1>1. /\ auto' = auto /\ at' = at /\ op' = op /\ todo' = todo /\ rollout' = rollout
      /\ done' = done /\ life' = life /\ owed' = owed /\ proc' = proc /\ out' = out
      /\ lost' = lost /\ ops' = ops /\ RecorderTypeOK
      /\ commands' \in Seq(Commands)
      /\ Head(commands) \in Commands /\ Head(commands).name = name
      /\ answer.is = "none" /\ ~Answered
      /\ name \in Sync => at = "wait" /\ commands' = <<>> /\ Awaits(op, Head(commands))
      /\ \A k \in 1..Len(commands') : commands'[k].name \in Sync =>
           k = Len(commands') /\ at = "wait" /\ Awaits(op, commands'[k])
      /\ Giving' /\ Lives' /\ Barrier'
  BY Takes
<1>2. answer.root = {} /\ (at = "raised" => error) /\ (at = "wait" => NoSync(todo))
      /\ (at = "wait" /\ op # "reset" => todo = <<>>)
  BY <1>1 DEF RInv, Waiting
<1>3. Waiting'
  <2>1. answer'.is # "none" => at = "wait" /\ commands' = <<>>
    BY <1>1
  <2>2. answer'.is = "none" => answer'.root = {}
    BY <1>2
  <2> QED
    BY <1>1, <1>2, <2>1, <2>2 DEF Waiting
<1>4. (out.root = out.due)'
  BY <1>1 DEF RInv
<1>5. ASSUME ~error' PROVE Good'
  <2>1. Good
    BY <1>5 DEF RInv
  <2>2. PICK o \in BOOLEAN :
          Leads(commands \o todo, Now, Holding(life, owed, o), mode) /\ Running(life, o)
    BY <2>1 DEF Good, Converges
  <2>3. commands # <<>> /\ commands' = Tail(commands) /\ commands \in Seq(Commands)
        /\ todo \in Seq(Commands)
    BY <1>1 DEF Serving, RecorderTypeOK
  <2>4. /\ commands \o todo \in Seq(Commands) /\ commands \o todo # <<>>
        /\ Head(commands \o todo) = Head(commands)
        /\ Tail(commands \o todo) = commands' \o todo'
    BY <1>1, <2>3, TailJoins
  <2>5. Leads(commands' \o todo', Now', Holding(life, owed, o), mode)
    <3>1. Leads(Tail(commands \o todo), Effect(Head(commands \o todo), Now, mode),
                Holding(life, owed, o), mode)
      BY <2>2, <2>4, LeadsTail
    <3> QED
      BY <1>5, <2>4, <3>1 DEF Does
  <2>6. Leads(commands' \o todo', Now', Holding(life, owed, o), mode')
    <3>1. CASE mode' = mode
      BY <2>5, <3>1
    <3>2. CASE name = "set_mode"
      <4>1. commands' = <<>> /\ NoSync(todo) /\ commands' \o todo' = todo
        <5>1. name \in Sync
          BY <3>2 DEF Sync
        <5> QED
          <6>1. commands' = <<>> /\ NoSync(todo) /\ todo' = todo
            BY <1>1, <1>2, <5>1
          <6>2. <<>> \o todo = todo
            BY <2>3
          <6> QED
            BY <6>1, <6>2
      <4>2. \A k \in 1..Len(todo) : todo[k].name # "set_mode"
        BY <4>1 DEF NoSync, Sync
      <4> QED
        BY <2>3, <2>5, <4>1, <4>2, LeadsInMode
    <3> QED
      BY <3>1, <3>2
  <2>7. Converges'
    BY <1>1, <2>2, <2>6 DEF Converges, Running
  <2> QED
    BY <1>5, <2>7 DEF Good
<1> QED
  BY <1>1, <1>3, <1>4, <1>5 DEF RInv

\* The commands for one environment.
LEMMA TakesEnv ==
  ASSUME RInv, NEW name \in {"record_once", "save_episode", "clear_episode"}, Serving(name)
  PROVE  /\ Env \in EnvIds /\ Head(commands) \in Commands /\ Head(commands).name = name
         /\ Head(commands).env = Env
         /\ name = "record_once" => Head(commands).frame \in 1..MaxOps
         /\ Clear(pending) \in [EnvIds -> Frames] /\ Clear(films) \in [EnvIds -> Frames]
         /\ Clear(pending) = [pending EXCEPT ![Env] = <<>>]
<1>1. /\ Head(commands) \in Commands /\ Head(commands).name = name /\ RecorderTypeOK
  BY Takes
<1>2. Head(commands).env \in EnvIds /\ (name = "record_once" => Head(commands).frame \in 1..MaxOps)
  BY <1>1, CommandParts
<1>3. <<>> \in Frames
  BY DEF Frames
<1>4. pending \in [EnvIds -> Frames] /\ films \in [EnvIds -> Frames]
  BY <1>1, RecorderParts
<1> QED
  BY <1>1, <1>2, <1>3, <1>4 DEF Env, Clear

LEMMA RecordOnceKeeps ==
  ASSUME RInv, RecordOnce
  PROVE  RInv'
<1> DEFINE c == Head(commands)
<1>1. /\ Serving("record_once") /\ dataset' = Opened /\ answer' = answer /\ mode' = mode
      /\ hasEpisode' = hasEpisode /\ videos' = videos /\ counts' = counts
      /\ \/ error' = error /\ faults' = faults /\ pending' = Add(pending) /\ films' = Add(films)
         \/ Fails /\ pending' \in {pending, Add(pending)} /\ films' = films
  BY DEF RecordOnce, Succeeds
<1>2. /\ Env \in EnvIds /\ c \in Commands /\ c.name = "record_once" /\ c.env = Env
      /\ c.frame \in 1..MaxOps
  BY <1>1, TakesEnv
<1>3. /\ auto' = auto /\ at' = at /\ op' = op /\ todo' = todo /\ rollout' = rollout
      /\ done' = done /\ life' = life /\ owed' = owed /\ proc' = proc /\ out' = out
      /\ lost' = lost /\ ops' = ops /\ RecorderTypeOK
      /\ commands' \in Seq(Commands) /\ Len(commands') <= QueueSize /\ answer.is = "none" /\ ~Answered
  BY <1>1, Takes
<1>4. pending \in [EnvIds -> Frames] /\ films \in [EnvIds -> Frames]
      /\ dataset.open \in BOOLEAN /\ dataset.eps \in SUBSET Episodes /\ dataset.buffer \in Frames
      /\ dataset = [open |-> dataset.open, eps |-> dataset.eps, buffer |-> dataset.buffer]
      /\ Now \in Holdings /\ Now.pend = pending /\ Now.eps = dataset.eps
  BY <1>3, RecorderParts
<1>5. Add(pending) = [pending EXCEPT ![c.env] = Append(pending[c.env], c.frame)]
  BY <1>2, <1>4 DEF Add
<1>6. \A f \in [EnvIds -> Frames] : Add(f) \in [EnvIds -> Frames]
  <2>1. ASSUME NEW f \in [EnvIds -> Frames] PROVE Append(f[Env], c.frame) \in Frames
    <3>1. f[Env] \in Seq(1..MaxOps)
      BY <1>2 DEF Frames
    <3> QED
      BY <1>2, <3>1 DEF Frames
  <2> QED
    BY <1>2, <2>1 DEF Add
<1>7. dataset' \in [open : BOOLEAN, eps : SUBSET Episodes, buffer : Frames]
  <2>1. <<>> \in Frames
    BY DEF Frames
  <2> QED
    BY <1>1, <1>4, <2>1 DEF Opened, NoDataset
<1>8. /\ error' \in BOOLEAN /\ faults' \in 0..MaxFaults /\ (error => error')
      /\ (error' => faults' > 0)
  <2>1. error \in BOOLEAN /\ faults \in 0..MaxFaults /\ MaxFaults \in Nat /\ (error => faults > 0)
    BY <1>3, AsyncRecorderAssumption DEF RInv, RecorderTypeOK
  <2>2. CASE Fails
    BY <2>1, <2>2 DEF Fails, Fault
  <2>3. CASE error' = error /\ faults' = faults
    BY <2>1, <2>3
  <2> QED
    BY <1>1, <2>2, <2>3
<1>9. RecorderTypeOK'
  <2>1. pending' \in [EnvIds -> Frames] /\ films' \in [EnvIds -> Frames]
    BY <1>1, <1>4, <1>6
  <2> QED
    BY <1>1, <1>3, <1>7, <1>8, <2>1 DEF RecorderTypeOK
<1>10. VideosCounted'
  BY <1>1, <1>3 DEF RInv, VideosCounted
<1>11. ASSUME ~error'
       PROVE  Does /\ films' = pending' /\ dataset'.buffer = <<>> /\ Filmed'
              /\ (hasEpisode' <=> dataset'.eps # {}) /\ (dataset'.eps # {} => dataset'.open)
              /\ (Answered' => dataset'.eps = {})
  <2>1. Good
    BY <1>8, <1>11 DEF RInv
  <2>2. pending' = Add(pending) /\ films' = Add(films)
    BY <1>1, <1>11 DEF Fails
  <2>3. films' = pending'
    BY <2>1, <2>2 DEF Good
  <2>4. dataset'.eps = dataset.eps /\ dataset'.open = TRUE /\ dataset'.buffer = <<>>
    <3>1. CASE dataset.open
      BY <1>1, <1>4, <2>1, <3>1 DEF Opened, Good
    <3>2. CASE ~dataset.open
      BY <1>1, <2>1, <3>2 DEF Opened, Good, NoDataset
    <3> QED
      BY <3>1, <3>2
  <2>5. ~Answered'
    BY <1>1, <1>3 DEF Answered
  <2>6. Effect(c, Now, mode) =
          Holding([pending EXCEPT ![c.env] = Append(pending[c.env], c.frame)], dataset.eps, TRUE)
    BY <1>2, <1>4, RecordEffect
  <2>7. Does
    BY <1>5, <2>2, <2>4, <2>5, <2>6 DEF Does, Now
  <2>8. Filmed'
    BY <1>1, <1>3, <2>1, <2>4 DEF Filmed, Good
  <2> QED
    BY <1>1, <2>1, <2>3, <2>4, <2>5, <2>7, <2>8 DEF Good
<1>12. answer'.is = "none"
  BY <1>1, <1>3
<1> QED
  BY <1>1, <1>8, <1>9, <1>10, <1>11, <1>12, Serves

LEMMA DiscardKeeps ==
  ASSUME RInv, Discard
  PROVE  RInv'
<1> DEFINE c == Head(commands)
<1>1. /\ Serving("clear_episode") /\ error' = error /\ faults' = faults
      /\ pending' = Clear(pending) /\ films' = Clear(films)
      /\ answer' = answer /\ mode' = mode /\ dataset' = dataset
      /\ hasEpisode' = hasEpisode /\ videos' = videos /\ counts' = counts
  BY DEF Discard, Succeeds
<1>2. /\ Env \in EnvIds /\ c \in Commands /\ c.name = "clear_episode" /\ c.env = Env
      /\ Clear(pending) \in [EnvIds -> Frames] /\ Clear(films) \in [EnvIds -> Frames]
      /\ Clear(pending) = [pending EXCEPT ![Env] = <<>>]
  BY <1>1, TakesEnv
<1>3. /\ auto' = auto /\ at' = at /\ op' = op /\ todo' = todo /\ rollout' = rollout
      /\ done' = done /\ life' = life /\ owed' = owed /\ proc' = proc /\ out' = out
      /\ lost' = lost /\ ops' = ops /\ RecorderTypeOK
      /\ commands' \in Seq(Commands) /\ Len(commands') <= QueueSize /\ answer.is = "none" /\ ~Answered
  BY <1>1, Takes
<1>4. Now \in Holdings /\ Now.pend = pending /\ Now.eps = dataset.eps /\ Now.open = dataset.open
  BY <1>3, RecorderParts
<1>5. RecorderTypeOK'
  BY <1>1, <1>2, <1>3 DEF RecorderTypeOK
<1>6. VideosCounted'
  BY <1>1, <1>3 DEF RInv, VideosCounted
<1>7. ASSUME ~error'
      PROVE  Does /\ films' = pending' /\ dataset'.buffer = <<>> /\ Filmed'
             /\ (hasEpisode' <=> dataset'.eps # {}) /\ (dataset'.eps # {} => dataset'.open)
             /\ (Answered' => dataset'.eps = {})
  <2>1. Good
    BY <1>1, <1>7 DEF RInv
  <2>2. Effect(c, Now, mode) = Holding([pending EXCEPT ![Env] = <<>>], dataset.eps, dataset.open)
    <3>1. PICK z \in Holdings : z = Now
      BY <1>4
    <3>2. Effect(c, z, mode) = Holding([z.pend EXCEPT ![c.env] = <<>>], z.eps, z.open)
      BY <1>2, ClearEffect
    <3> QED
      BY <1>2, <1>4, <3>1, <3>2
  <2>3. ~Answered'
    BY <1>1, <1>3 DEF Answered
  <2>4. Does
    BY <1>1, <1>2, <2>2, <2>3 DEF Does, Now
  <2>5. Filmed'
    BY <1>1, <1>3, <2>1 DEF Filmed, Good
  <2> QED
    BY <1>1, <2>1, <2>3, <2>4, <2>5 DEF Good
<1>8. (error => error') /\ (error' => faults' > 0) /\ answer'.is = "none"
  BY <1>1, <1>3 DEF RInv
<1> QED
  BY <1>1, <1>5, <1>6, <1>7, <1>8, Serves

LEMMA FlushKeeps ==
  ASSUME RInv, Flush
  PROVE  RInv'
<1> DEFINE c == Head(commands)
<1>1. /\ Serving("flush") /\ error' = error /\ faults' = faults
      /\ answer' = [is |-> "result", root |-> {}]
      /\ pending' = pending /\ films' = films /\ mode' = mode /\ dataset' = dataset
      /\ hasEpisode' = hasEpisode /\ videos' = videos /\ counts' = counts
  BY DEF Flush, Succeeds, Responds, recorders
<1>2. "flush" \in Sync
  BY DEF Sync
<1>3. /\ auto' = auto /\ at' = at /\ op' = op /\ todo' = todo /\ rollout' = rollout
      /\ done' = done /\ life' = life /\ owed' = owed /\ proc' = proc /\ out' = out
      /\ lost' = lost /\ ops' = ops /\ RecorderTypeOK
      /\ commands' \in Seq(Commands) /\ Len(commands') <= QueueSize /\ ~Answered
      /\ c \in Commands /\ c.name = "flush" /\ Awaits(op, c)
  BY <1>1, <1>2, Takes
<1>4. Now \in Holdings
  BY <1>3, RecorderParts
<1>5. RecorderTypeOK'
  <2>1. answer' \in [is : {"none", "result", "exception"}, root : SUBSET Episodes]
    BY <1>1
  <2> QED
    BY <1>1, <1>3, <2>1 DEF RecorderTypeOK
<1>6. VideosCounted'
  BY <1>1, <1>3 DEF RInv, VideosCounted
<1>7. ASSUME ~error'
      PROVE  Does /\ films' = pending' /\ dataset'.buffer = <<>> /\ Filmed'
             /\ (hasEpisode' <=> dataset'.eps # {}) /\ (dataset'.eps # {} => dataset'.open)
             /\ (Answered' => dataset'.eps = {})
  <2>1. Good
    BY <1>1, <1>7 DEF RInv
  <2>2. Effect(c, Now, mode) = Now
    BY <1>2, <1>3, <1>4, SyncEffect
  <2>3. ~Answered'
    BY <1>3 DEF Answered, Awaits
  <2>4. Does
    BY <1>1, <1>3, <2>2, <2>3 DEF Does, Now
  <2>5. Filmed'
    BY <1>1, <1>3, <2>1 DEF Filmed, Good
  <2> QED
    BY <1>1, <2>1, <2>3, <2>4, <2>5 DEF Good
<1>8. (error => error') /\ (error' => faults' > 0) /\ answer'.is = "result"
  BY <1>1, <1>3 DEF RInv
<1> QED
  BY <1>1, <1>2, <1>5, <1>6, <1>7, <1>8, Serves

LEMMA SetModeKeeps ==
  ASSUME RInv, SetMode
  PROVE  RInv'
<1> DEFINE c == Head(commands)
<1>1. /\ Serving("set_mode") /\ error' = error /\ faults' = faults
      /\ answer' = [is |-> "result", root |-> {}] /\ mode' = c.mode
      /\ pending' = (IF c.mode = mode THEN pending ELSE Emptied)
      /\ films' = (IF c.mode = mode THEN films ELSE Emptied)
      /\ dataset' = dataset /\ hasEpisode' = hasEpisode /\ videos' = videos /\ counts' = counts
  BY DEF SetMode, Succeeds, Responds, Emptied
<1>2. "set_mode" \in Sync
  BY DEF Sync
<1>3. /\ auto' = auto /\ at' = at /\ op' = op /\ todo' = todo /\ rollout' = rollout
      /\ done' = done /\ life' = life /\ owed' = owed /\ proc' = proc /\ out' = out
      /\ lost' = lost /\ ops' = ops /\ RecorderTypeOK
      /\ commands' \in Seq(Commands) /\ Len(commands') <= QueueSize /\ ~Answered
      /\ c \in Commands /\ c.name = "set_mode" /\ Awaits(op, c)
  BY <1>1, <1>2, Takes
<1>4. Now \in Holdings /\ Now.pend = pending /\ Now.eps = dataset.eps /\ Now.open = dataset.open
  BY <1>3, RecorderParts
<1>5. RecorderTypeOK'
  <2>1. answer' \in [is : {"none", "result", "exception"}, root : SUBSET Episodes]
    BY <1>1
  <2>2. mode' \in Modes
    BY <1>1, <1>3, CommandParts
  <2>3. pending' \in [EnvIds -> Frames] /\ films' \in [EnvIds -> Frames]
    BY <1>1, <1>3, EmptiedType DEF RecorderTypeOK
  <2> QED
    BY <1>1, <1>3, <2>1, <2>2, <2>3 DEF RecorderTypeOK
<1>6. VideosCounted'
  BY <1>1, <1>3 DEF RInv, VideosCounted
<1>7. ASSUME ~error'
      PROVE  Does /\ films' = pending' /\ dataset'.buffer = <<>> /\ Filmed'
             /\ (hasEpisode' <=> dataset'.eps # {}) /\ (dataset'.eps # {} => dataset'.open)
             /\ (Answered' => dataset'.eps = {})
  <2>1. Good
    BY <1>1, <1>7 DEF RInv
  <2>2. Effect(c, Now, mode) =
          IF c.mode = mode THEN Now ELSE Holding(Emptied, dataset.eps, dataset.open)
    BY <1>2, <1>3, <1>4, SyncEffect
  <2>3. ~Answered'
    BY <1>3 DEF Answered, Awaits
  <2>4. Does
    BY <1>1, <1>3, <2>2, <2>3 DEF Does, Now
  <2>5. Filmed'
    BY <1>1, <1>3, <2>1 DEF Filmed, Good
  <2> QED
    BY <1>1, <2>1, <2>3, <2>4, <2>5 DEF Good
<1>8. (error => error') /\ (error' => faults' > 0) /\ answer'.is = "result"
  BY <1>1, <1>3 DEF RInv
<1> QED
  BY <1>1, <1>2, <1>5, <1>6, <1>7, <1>8, Serves

LEMMA PopKeeps ==
  ASSUME RInv, Pop
  PROVE  RInv'
<1> DEFINE c == Head(commands)
<1>1. /\ Serving("pop_completed") /\ error' = error /\ faults' = faults
      /\ pending' = pending /\ films' = films /\ mode' = mode
      /\ hasEpisode' = FALSE /\ videos' = videos /\ counts' = counts
  BY DEF Pop, Succeeds
<1>2. /\ answer' = [is |-> "result", root |-> IF hasEpisode THEN dataset.eps ELSE {}]
      /\ dataset' = IF hasEpisode THEN NoDataset ELSE dataset
  BY DEF Pop, Responds
<1>3. "pop_completed" \in Sync
  BY DEF Sync
<1>4. /\ auto' = auto /\ at' = at /\ op' = op /\ todo' = todo /\ rollout' = rollout
      /\ done' = done /\ life' = life /\ owed' = owed /\ proc' = proc /\ out' = out
      /\ lost' = lost /\ ops' = ops /\ RecorderTypeOK
      /\ commands' \in Seq(Commands) /\ Len(commands') <= QueueSize /\ ~Answered
      /\ c \in Commands /\ c.name = "pop_completed" /\ Awaits(op, c)
  BY <1>1, <1>3, Takes
<1>5. /\ Now \in Holdings /\ Now.pend = pending /\ Now.eps = dataset.eps
      /\ Now.open = dataset.open /\ dataset.open \in BOOLEAN /\ dataset.eps \in SUBSET Episodes
  BY <1>4, RecorderParts
<1>6. /\ answer'.is = "result" /\ (hasEpisode => answer'.root = dataset.eps)
      /\ (~hasEpisode => answer'.root = {})
  BY <1>2
<1>7. RecorderTypeOK'
  <2>1. answer' \in [is : {"none", "result", "exception"}, root : SUBSET Episodes]
    BY <1>2, <1>5
  <2>2. dataset' \in [open : BOOLEAN, eps : SUBSET Episodes, buffer : Frames]
    <3>1. <<>> \in Frames
      BY DEF Frames
    <3> QED
      BY <1>2, <1>4, <3>1 DEF NoDataset, RecorderTypeOK
  <2> QED
    BY <1>1, <1>4, <2>1, <2>2 DEF RecorderTypeOK
<1>8. VideosCounted'
  BY <1>1, <1>4 DEF RInv, VideosCounted
<1>9. ASSUME ~error'
      PROVE  Does /\ films' = pending' /\ dataset'.buffer = <<>> /\ Filmed'
             /\ (hasEpisode' <=> dataset'.eps # {}) /\ (dataset'.eps # {} => dataset'.open)
             /\ (Answered' => dataset'.eps = {})
  <2>1. Good
    BY <1>1, <1>9 DEF RInv
  <2>2. Effect(c, Now, mode) = Holding(pending, dataset.eps, dataset.open /\ dataset.eps = {})
    BY <1>3, <1>4, <1>5, SyncEffect
  <2>3. Answered'
    BY <1>4, <1>6 DEF Answered, Awaits
  <2>4. dataset'.eps = {} /\ dataset'.buffer = <<>>
        /\ dataset'.open = (dataset.open /\ dataset.eps = {})
    <3>1. CASE hasEpisode
      BY <1>2, <2>1, <3>1 DEF Good, NoDataset
    <3>2. CASE ~hasEpisode
      BY <1>2, <1>5, <2>1, <3>2 DEF Good
    <3> QED
      BY <3>1, <3>2
  <2>5. answer'.root = dataset.eps
    BY <1>6, <2>1 DEF Good
  <2>6. Does
    BY <1>1, <2>2, <2>3, <2>4, <2>5 DEF Does, Now
  <2>7. Filmed'
    BY <2>4 DEF Filmed
  <2> QED
    BY <1>1, <2>1, <2>4, <2>6, <2>7 DEF Good
<1>10. (error => error') /\ (error' => faults' > 0)
  BY <1>1 DEF RInv
<1> QED
  BY <1>1, <1>3, <1>6, <1>7, <1>8, <1>9, <1>10, Serves

LEMMA FailsType ==
  ASSUME RecorderTypeOK, Fails
  PROVE  error' = TRUE /\ faults' \in 0..MaxFaults /\ faults' > 0
BY AsyncRecorderAssumption DEF RecorderTypeOK, Fails, Fault

LEMMA PopFailsKeeps ==
  ASSUME RInv, PopFails
  PROVE  RInv'
<1>1. /\ Serving("pop_completed") /\ Fails
      /\ answer' = [is |-> "exception", root |-> {}]
      /\ pending' = pending /\ films' = films /\ mode' = mode /\ dataset' = dataset
      /\ hasEpisode' = hasEpisode /\ videos' = videos /\ counts' = counts
  BY DEF PopFails, recorders
<1>2. "pop_completed" \in Sync
  BY DEF Sync
<1>3. /\ auto' = auto /\ at' = at /\ op' = op /\ todo' = todo /\ rollout' = rollout
      /\ done' = done /\ life' = life /\ owed' = owed /\ proc' = proc /\ out' = out
      /\ lost' = lost /\ ops' = ops /\ RecorderTypeOK
      /\ commands' \in Seq(Commands) /\ Len(commands') <= QueueSize
  BY <1>1, Takes
<1>4. error' = TRUE /\ faults' \in 0..MaxFaults /\ faults' > 0
  BY <1>1, <1>3, FailsType
<1>5. RecorderTypeOK'
  <2>1. answer' \in [is : {"none", "result", "exception"}, root : SUBSET Episodes]
    BY <1>1
  <2>2. error' \in BOOLEAN
    BY <1>4
  <2> QED
    BY <1>1, <1>3, <1>4, <2>1, <2>2 DEF RecorderTypeOK
<1>6. VideosCounted'
  BY <1>1, <1>3 DEF RInv, VideosCounted
<1>7. answer'.is = "exception"
  BY <1>1
<1> QED
  BY <1>1, <1>2, <1>4, <1>5, <1>6, <1>7, Serves

LEMMA SaveFailsKeeps ==
  ASSUME RInv, SaveFails
  PROVE  RInv'
<1>1. /\ Serving("save_episode") /\ Fails /\ answer' = answer
      /\ pending' = pending /\ films' = films /\ mode' = mode
      /\ hasEpisode' = hasEpisode /\ videos' = videos /\ counts' = counts
  BY DEF SaveFails
<1>2. PICK k \in 0..Len(pending[Env]) :
        dataset' = [dataset EXCEPT !.buffer = @ \o SubSeq(pending[Env], 1, k)]
  BY DEF SaveFails
<1>3. /\ auto' = auto /\ at' = at /\ op' = op /\ todo' = todo /\ rollout' = rollout
      /\ done' = done /\ life' = life /\ owed' = owed /\ proc' = proc /\ out' = out
      /\ lost' = lost /\ ops' = ops /\ RecorderTypeOK
      /\ commands' \in Seq(Commands) /\ Len(commands') <= QueueSize /\ answer.is = "none"
  BY <1>1, Takes
<1>4. error' = TRUE /\ faults' \in 0..MaxFaults /\ faults' > 0
  BY <1>1, <1>3, FailsType
<1>5. dataset' \in [open : BOOLEAN, eps : SUBSET Episodes, buffer : Frames]
  <2>1. Env \in EnvIds /\ pending \in [EnvIds -> Frames] /\ dataset.buffer \in Seq(1..MaxOps)
    BY <1>1, <1>3, TakesEnv, RecorderParts DEF Frames
  <2>2. pending[Env] \in Seq(1..MaxOps)
    BY <2>1 DEF Frames
  <2>3. SubSeq(pending[Env], 1, k) \in Seq(1..MaxOps)
    <3>1. PICK q \in Seq(1..MaxOps) : q = pending[Env]
      BY <2>2
    <3>2. k \in 0..Len(q)
      BY <3>1
    <3>3. Len(q) \in Nat /\ \A j \in 1..Len(q) : q[j] \in 1..MaxOps
      BY ElementOfSeq, LenProperties
    <3>4. k \in Int /\ 1 \in Int /\ \A j \in 1..k : q[j] \in 1..MaxOps
      BY <3>2, <3>3
    <3>5. SubSeq(q, 1, k) \in Seq(1..MaxOps)
      BY <3>4, SubSeqProperties
    <3> QED
      BY <3>1, <3>5
  <2>4. dataset.buffer \o SubSeq(pending[Env], 1, k) \in Frames
    BY <2>1, <2>3, ConcatProperties DEF Frames
  <2> QED
    BY <1>2, <1>3, <2>4 DEF RecorderTypeOK
<1>6. RecorderTypeOK'
  <2>1. error' \in BOOLEAN
    BY <1>4
  <2> QED
    BY <1>1, <1>3, <1>4, <1>5, <2>1 DEF RecorderTypeOK
<1>7. VideosCounted'
  BY <1>1, <1>3 DEF RInv, VideosCounted
<1>8. answer'.is = "none"
  BY <1>1, <1>3
<1> QED
  BY <1>1, <1>4, <1>6, <1>7, <1>8, Serves

\* A finished video has a name no other of this process has.
LEMMA VideoIsNew ==
  ASSUME RecorderTypeOK, VideosCounted, Env \in EnvIds, VideoSaved, mode' = mode, proc' = proc
  PROVE  /\ VideosCounted' /\ DOMAIN videos' \subseteq Modes \X EnvIds \X Nat
         /\ counts' \in [Modes -> [EnvIds -> Nat]] /\ films' \in [EnvIds -> Frames]
         /\ \A v \in DOMAIN videos :
              v \in DOMAIN videos' /\ (videos'[v] # videos[v] => videos[v].by # proc)
         /\ films[Env] = <<>> => films' = films
         /\ films[Env] # <<>> =>
              /\ films' = Clear(films)
              /\ \E v \in DOMAIN videos' : videos'[v] = [by |-> proc, frames |-> films[Env]]
<1>1. /\ mode \in Modes /\ films \in [EnvIds -> Frames] /\ proc \in Nat
      /\ counts \in [Modes -> [EnvIds -> Nat]] /\ DOMAIN videos \subseteq Modes \X EnvIds \X Nat
  BY DEF RecorderTypeOK
<1>2. CASE films[Env] = <<>>
  <2>1. films' = films /\ videos' = videos /\ counts' = counts
    BY <1>2 DEF VideoSaved
  <2> QED
    BY <1>1, <1>2, <2>1 DEF VideosCounted
<1>3. CASE films[Env] # <<>>
  <2> DEFINE n == counts[mode][Env]
             name == <<mode, Env, n>>
             film == [by |-> proc, frames |-> films[Env]]
  <2>1. /\ videos' = [v \in DOMAIN videos \cup {name} |-> IF v = name THEN film ELSE videos[v]]
        /\ counts' = [counts EXCEPT ![mode][Env] = n + 1] /\ films' = Clear(films)
    BY <1>3 DEF VideoSaved
  <2>2. n \in Nat
    BY <1>1
  <2> HIDE DEF n
  <2>3. name \in Modes \X EnvIds \X Nat /\ name[1] = mode /\ name[2] = Env /\ name[3] = n
    BY <1>1, <2>2
  <2>4. film.by = proc
    OBVIOUS
  <2> HIDE DEF name, film
  <2>5. /\ DOMAIN videos' = DOMAIN videos \cup {name} /\ videos'[name] = film
        /\ \A v \in DOMAIN videos : v # name => videos'[v] = videos[v]
    BY <2>1
  <2>6. counts' \in [Modes -> [EnvIds -> Nat]] /\ counts'[mode][Env] = n + 1
        /\ \A m \in Modes, e \in EnvIds : counts'[m][e] >= counts[m][e]
    <3>1. counts' = [m \in Modes |-> IF m = mode
                       THEN [counts[mode] EXCEPT ![Env] = n + 1] ELSE counts[m]]
      BY <1>1, <2>1
    <3>2. counts[mode] \in [EnvIds -> Nat] /\ n + 1 \in Nat
      BY <1>1, <2>2
    <3>3. counts' \in [Modes -> [EnvIds -> Nat]]
      BY <1>1, <3>1, <3>2
    <3>4. counts'[mode][Env] = n + 1
      BY <1>1, <3>1, <3>2
    <3>5. ASSUME NEW m \in Modes, NEW e \in EnvIds PROVE counts'[m][e] >= counts[m][e]
      <4>1. counts[m][e] \in Nat
        BY <1>1
      <4>2. CASE m = mode /\ e = Env
        BY <2>2, <3>4, <4>2 DEF n
      <4>3. CASE ~ (m = mode /\ e = Env)
        <5>1. counts'[m][e] = counts[m][e]
          BY <1>1, <3>1, <3>2, <4>3
        <5> QED
          BY <4>1, <5>1
      <4> QED
        BY <4>2, <4>3
    <3> QED
      BY <3>3, <3>4, <3>5
  <2>7. ASSUME NEW v \in DOMAIN videos, videos[v].by = proc PROVE v # name
    <3>1. v[3] < counts[v[1]][v[2]]
      BY <2>7 DEF VideosCounted
    <3> QED
      BY <2>2, <2>3, <3>1 DEF n
  <2>8. VideosCounted'
    <3>1. SUFFICES ASSUME NEW v \in DOMAIN videos'
                   PROVE  /\ videos'[v].by \in 0..proc
                          /\ videos'[v].by = proc => v[3] < counts'[v[1]][v[2]]
      BY DEF VideosCounted
    <3>2. CASE v = name
      <4>1. videos'[v].by = proc
        BY <2>4, <2>5, <3>2
      <4>2. v[3] < counts'[v[1]][v[2]]
        BY <2>2, <2>3, <2>6, <3>2
      <4> QED
        BY <1>1, <4>1, <4>2
    <3>3. CASE v # name
      <4>1. v \in DOMAIN videos /\ videos'[v] = videos[v]
        BY <2>5, <3>3
      <4>2. videos[v].by \in 0..proc /\ (videos[v].by = proc => v[3] < counts[v[1]][v[2]])
        BY <4>1 DEF VideosCounted
      <4>3. v \in Modes \X EnvIds \X Nat
        BY <1>1, <4>1
      <4>4. v[1] \in Modes /\ v[2] \in EnvIds /\ v[3] \in Nat
        BY <4>3
      <4>5. counts[v[1]][v[2]] \in Nat /\ counts'[v[1]][v[2]] \in Nat
            /\ counts'[v[1]][v[2]] >= counts[v[1]][v[2]]
        BY <1>1, <2>6, <4>4
      <4> QED
        BY <4>1, <4>2, <4>4, <4>5
    <3> QED
      BY <3>2, <3>3
  <2>9. films' \in [EnvIds -> Frames]
    <3>1. <<>> \in Frames
      BY DEF Frames
    <3> QED
      BY <1>1, <2>1, <3>1 DEF Clear
  <2>10. DOMAIN videos' \subseteq Modes \X EnvIds \X Nat
    BY <1>1, <2>3, <2>5
  <2>11. \A v \in DOMAIN videos :
           v \in DOMAIN videos' /\ (videos'[v] # videos[v] => videos[v].by # proc)
    BY <2>5, <2>7
  <2>12. \E v \in DOMAIN videos' : videos'[v] = [by |-> proc, frames |-> films[Env]]
    BY <2>5 DEF film
  <2> QED
    BY <1>3, <2>1, <2>6, <2>8, <2>9, <2>10, <2>11, <2>12
<1> QED
  BY <1>2, <1>3

LEMMA SaveKeeps ==
  ASSUME RInv, Save
  PROVE  RInv'
<1> DEFINE c == Head(commands)
           f == pending[Env]
           stuck == f # <<>> /\ ~dataset.open
<1>1. /\ Serving("save_episode") /\ answer' = answer
      /\ \/ /\ stuck /\ error' = TRUE /\ UNCHANGED <<recorders, faults>>
         \/ /\ ~stuck /\ DatasetSaved /\ mode' = mode
            /\ \/ error' = error /\ faults' = faults /\ VideoSaved
               \/ Fails /\ films' = films /\ videos' = videos /\ counts' = counts
  BY DEF Save, Succeeds
<1>2. /\ Env \in EnvIds /\ c \in Commands /\ c.name = "save_episode" /\ c.env = Env
      /\ Clear(pending) \in [EnvIds -> Frames] /\ Clear(films) \in [EnvIds -> Frames]
      /\ Clear(pending) = [pending EXCEPT ![Env] = <<>>]
  BY <1>1, TakesEnv
<1>3. /\ auto' = auto /\ at' = at /\ op' = op /\ todo' = todo /\ rollout' = rollout
      /\ done' = done /\ life' = life /\ owed' = owed /\ proc' = proc /\ out' = out
      /\ lost' = lost /\ ops' = ops /\ RecorderTypeOK
      /\ commands' \in Seq(Commands) /\ Len(commands') <= QueueSize /\ answer.is = "none"
      /\ ~Answered
  BY <1>1, Takes
<1>4. /\ pending \in [EnvIds -> Frames] /\ films \in [EnvIds -> Frames] /\ f \in Frames
      /\ dataset.open \in BOOLEAN /\ dataset.eps \in SUBSET Episodes /\ dataset.buffer \in Frames
      /\ dataset = [open |-> dataset.open, eps |-> dataset.eps, buffer |-> dataset.buffer]
      /\ Now \in Holdings /\ Now.pend = pending /\ Now.eps = dataset.eps
      /\ Now.open = dataset.open
  BY <1>2, <1>3, RecorderParts
<1>5. answer'.is = "none" /\ ~Answered'
  BY <1>1, <1>3 DEF Answered
<1> HIDE DEF stuck
<1>6. CASE stuck /\ error' = TRUE /\ UNCHANGED <<recorders, faults>>
  <2>1. /\ pending' = pending /\ films' = films /\ mode' = mode /\ dataset' = dataset
        /\ hasEpisode' = hasEpisode /\ videos' = videos /\ counts' = counts /\ faults' = faults
    BY <1>6 DEF recorders
  <2>2. error' \in BOOLEAN /\ error' = TRUE
    BY <1>6
  <2>3. RecorderTypeOK'
    BY <1>1, <1>3, <2>1, <2>2 DEF RecorderTypeOK
  <2>4. VideosCounted'
    BY <1>3, <2>1 DEF RInv, VideosCounted
  \* A recording has failed before: else there would be a dataset to save into.
  <2>5. error
    <3>1. SUFFICES ASSUME ~error PROVE FALSE
      OBVIOUS
    <3>2. PICK o \in BOOLEAN : Leads(commands \o todo, Now, Holding(life, owed, o), mode)
      BY <3>1 DEF RInv, Good, Converges
    <3>3. commands # <<>> /\ commands \in Seq(Commands) /\ todo \in Seq(Commands)
      BY <1>1, <1>3 DEF Serving, RecorderTypeOK
    <3>4. /\ commands \o todo \in Seq(Commands) /\ commands \o todo # <<>>
          /\ Head(commands \o todo) = c
      BY <3>3, TailJoins
    <3>5. Legal(c, Now)
      BY <3>2, <3>4, LeadsTail
    <3> QED
      BY <1>2, <1>4, <1>6, <3>5 DEF Legal, stuck
  <2>6. error' => faults' > 0
    BY <2>1, <2>5 DEF RInv
  <2> QED
    BY <1>1, <1>5, <2>1, <2>2, <2>3, <2>4, <2>6, Serves
<1>7. CASE ~stuck /\ DatasetSaved /\ mode' = mode
           /\ \/ error' = error /\ faults' = faults /\ VideoSaved
              \/ Fails /\ films' = films /\ videos' = videos /\ counts' = counts
  <2>1. /\ f = <<>> => pending' = pending /\ dataset' = dataset /\ hasEpisode' = hasEpisode
        /\ f # <<>> =>
             /\ pending' = Clear(pending) /\ hasEpisode' = TRUE
             /\ dataset' = [open |-> dataset.open, buffer |-> <<>>,
                            eps |-> dataset.eps \cup {Episode(Env, dataset.buffer \o f)}]
    BY <1>4, <1>7 DEF DatasetSaved
  <2>2. /\ dataset' \in [open : BOOLEAN, eps : SUBSET Episodes, buffer : Frames]
        /\ pending' \in [EnvIds -> Frames] /\ hasEpisode' \in BOOLEAN
    <3>1. <<>> \in Frames /\ dataset.buffer \o f \in Frames
      BY <1>4, ConcatProperties DEF Frames
    <3>2. Episode(Env, dataset.buffer \o f) \in Episodes
      BY <1>2, <3>1 DEF Episode, Episodes
    <3>3. dataset.eps \cup {Episode(Env, dataset.buffer \o f)} \in SUBSET Episodes
      BY <1>4, <3>2
    <3>4. CASE f = <<>>
      BY <1>3, <2>1, <3>4 DEF RecorderTypeOK
    <3>5. CASE f # <<>>
      BY <1>2, <1>4, <2>1, <3>1, <3>3, <3>5
    <3> QED
      BY <3>4, <3>5
  <2>3. CASE Fails /\ films' = films /\ videos' = videos /\ counts' = counts
    <3>1. error' = TRUE /\ error' \in BOOLEAN /\ faults' \in 0..MaxFaults /\ faults' > 0
      BY <1>3, <2>3, FailsType
    <3>2. RecorderTypeOK'
      BY <1>1, <1>3, <1>7, <2>2, <2>3, <3>1 DEF RecorderTypeOK
    <3>3. VideosCounted'
      BY <1>3, <2>3 DEF RInv, VideosCounted
    <3> QED
      BY <1>1, <1>5, <1>7, <3>1, <3>2, <3>3, Serves
  <2>4. CASE error' = error /\ faults' = faults /\ VideoSaved
    <3>1. /\ VideosCounted' /\ DOMAIN videos' \subseteq Modes \X EnvIds \X Nat
          /\ counts' \in [Modes -> [EnvIds -> Nat]] /\ films' \in [EnvIds -> Frames]
          /\ \A v \in DOMAIN videos :
               v \in DOMAIN videos' /\ (videos'[v] # videos[v] => videos[v].by # proc)
          /\ films[Env] = <<>> => films' = films
          /\ films[Env] # <<>> =>
               /\ films' = Clear(films)
               /\ \E v \in DOMAIN videos' : videos'[v] = [by |-> proc, frames |-> films[Env]]
      BY <1>2, <1>3, <1>7, <2>4, VideoIsNew DEF RInv
    <3>2. RecorderTypeOK'
      BY <1>1, <1>3, <1>7, <2>2, <2>4, <3>1 DEF RecorderTypeOK
    <3>3. ASSUME ~error'
          PROVE  Does /\ films' = pending' /\ dataset'.buffer = <<>> /\ Filmed'
                 /\ (hasEpisode' <=> dataset'.eps # {}) /\ (dataset'.eps # {} => dataset'.open)
                 /\ (Answered' => dataset'.eps = {})
      <4>1. Good
        BY <2>4, <3>3 DEF RInv
      <4>2. films = pending /\ dataset.buffer = <<>>
        BY <4>1 DEF Good
      <4>3. ASSUME NEW x \in dataset.eps
            PROVE  \E v \in DOMAIN videos' : videos'[v] = [by |-> proc', frames |-> x.frames]
        <5>1. PICK v \in DOMAIN videos : videos[v] = [by |-> proc, frames |-> x.frames]
          BY <4>1, <4>3 DEF Good, Filmed
        <5>2. v \in DOMAIN videos' /\ videos'[v] = videos[v]
          BY <3>1, <5>1
        <5> QED
          BY <1>3, <5>1, <5>2
      <4>4. Effect(c, Now, mode) =
              IF f = <<>> THEN Now
              ELSE Holding(Clear(pending), dataset.eps \cup {Episode(Env, f)}, dataset.open)
        <5>1. PICK z \in Holdings : z = Now
          BY <1>4
        <5>2. Effect(c, z, mode) =
                IF z.pend[c.env] = <<>> THEN z
                ELSE Holding([z.pend EXCEPT ![c.env] = <<>>],
                             z.eps \cup {Episode(c.env, z.pend[c.env])}, z.open)
          BY <1>2, SaveEffect
        <5> QED
          BY <1>2, <1>4, <5>1, <5>2
      <4>5. Now = Holding(pending, dataset.eps, dataset.open)
            /\ Now' = Holding(pending', dataset'.eps, dataset'.open)
        BY <1>3, <1>5 DEF Now
      <4>6. CASE f = <<>>
        <5>1. films' = films /\ pending' = pending /\ dataset' = dataset
              /\ hasEpisode' = hasEpisode
          BY <2>1, <3>1, <4>2, <4>6
        <5>2. Does
          BY <4>4, <4>5, <4>6, <5>1 DEF Does
        <5>3. Filmed'
          BY <4>3, <5>1 DEF Filmed
        <5> QED
          BY <1>5, <4>1, <5>1, <5>2, <5>3 DEF Good
      <4>7. CASE f # <<>>
        <5>1. dataset.buffer \o f = f
          BY <1>4, <4>2 DEF Frames
        <5>2. /\ pending' = Clear(pending) /\ hasEpisode' = TRUE /\ dataset'.open = dataset.open
              /\ dataset'.buffer = <<>> /\ dataset'.eps = dataset.eps \cup {Episode(Env, f)}
          BY <2>1, <4>7, <5>1
        <5>3. films' = pending'
              /\ \E v \in DOMAIN videos' : videos'[v] = [by |-> proc, frames |-> f]
          BY <3>1, <4>2, <4>7, <5>2
        <5>4. dataset.open
          BY <1>4, <1>7, <4>7 DEF stuck
        <5>5. Does
          BY <4>4, <4>5, <4>7, <5>2 DEF Does
        <5>6. Filmed'
          <6>1. Episode(Env, f).frames = f
            BY DEF Episode
          <6>2. ASSUME NEW x \in dataset'.eps
                PROVE  \E v \in DOMAIN videos' : videos'[v] = [by |-> proc', frames |-> x.frames]
            <7>1. CASE x \in dataset.eps
              BY <4>3, <7>1
            <7>2. CASE x = Episode(Env, f)
              BY <1>3, <5>3, <6>1, <7>2
            <7> QED
              BY <5>2, <7>1, <7>2
          <6> QED
            BY <6>2 DEF Filmed
        <5>7. dataset'.eps # {}
          BY <5>2
        <5> QED
          BY <1>5, <5>2, <5>3, <5>4, <5>5, <5>6, <5>7
      <4> QED
        BY <4>6, <4>7
    <3>4. (error => error') /\ (error' => faults' > 0)
      BY <2>4 DEF RInv
    <3> QED
      BY <1>1, <1>5, <1>7, <3>1, <3>2, <3>3, <3>4, Serves
  <2> QED
    BY <1>7, <2>3, <2>4
<1> QED
  BY <1>1, <1>6, <1>7

-----------------------------------------------------------------------------
(* The theorems of the recorder *)

LEMMA RInvStutter ==
  ASSUME RInv, UNCHANGED recorderVars
  PROVE  RInv'
<1>1. /\ auto' = auto /\ at' = at /\ op' = op /\ todo' = todo /\ rollout' = rollout
      /\ done' = done /\ commands' = commands /\ answer' = answer /\ error' = error
      /\ mode' = mode /\ pending' = pending /\ dataset' = dataset /\ hasEpisode' = hasEpisode
      /\ films' = films /\ videos' = videos /\ counts' = counts
      /\ life' = life /\ owed' = owed /\ proc' = proc /\ out' = out /\ lost' = lost
      /\ ops' = ops /\ faults' = faults
  BY DEF recorderVars, callingThread, recorders, history
<1>2. RecorderTypeOK' /\ VideosCounted' /\ Lives' /\ Giving' /\ Barrier'
  BY <1>1 DEF RInv, RecorderTypeOK, VideosCounted, Lives, Giving, Barrier
<1>3. Waiting'
  BY <1>1 DEF RInv, Waiting
<1>4. ~error' => Good'
  BY <1>1 DEF RInv, Good, Filmed, Converges, Running, Now, Answered
<1> QED
  BY <1>1, <1>2, <1>3, <1>4 DEF RInv

LEMMA RInvStep ==
  ASSUME RInv, RecorderNext
  PROVE  RInv'
<1>1. ASSUME NEW m \in Modes, NEW resetEval \in BOOLEAN, RecordReset(m, resetEval) PROVE RInv'
  BY <1>1, ResetBegins
<1>2. ASSUME NEW D \in SUBSET EnvIds, RecordStep(D) PROVE RInv'
  BY <1>2, StepBegins
<1>3. CASE RecordFinish
  BY <1>3, FinishBegins
<1>4. CASE PopCompletedDataset
  BY <1>4, PopBegins
<1>5. CASE Caller
  BY <1>5, CheckKeeps, PutKeeps, ReceiveKeeps DEF Caller
<1>6. CASE Worker
  BY <1>6, RecordOnceKeeps, SaveKeeps, SaveFailsKeeps, DiscardKeeps, SetModeKeeps, PopKeeps,
     PopFailsKeeps, FlushKeeps DEF Worker
<1>7. CASE Replace
  BY <1>7, ReplaceKeeps
<1>8. CASE UNCHANGED recorderVars
  BY <1>8, RInvStutter
<1> QED
  BY <1>1, <1>2, <1>3, <1>4, <1>5, <1>6, <1>7, <1>8 DEF RecorderNext, Over

\* What the recorders hold converges to what the caller has made (envs/base.py with
\* recorder/recorder.py): in every reachable state, unless a recording has failed, the commands
\* that are queued and still to be given lead to exactly the running and the ended episodes.
THEOREM RecorderInvariant == RecorderSpec => []RInv
<1>1. RecorderInit => RInv
  BY RInvInit
<1>2. RInv /\ [RecorderNext]_recorderVars => RInv'
  BY RInvStep, RInvStutter
<1> QED
  BY <1>1, <1>2, PTL DEF RecorderSpec

\* A pop returns the episodes ended since the pop before it, each with all its frames, and no
\* other (recorder/async_recorder.py, impl/lerobot.py), whatever the order of the calls and
\* however far the worker is behind.
THEOREM PopIsExact == RecorderSpec => []PopExact
<1>1. RInv => PopExact
  BY DEF RInv, PopExact
<1> QED
  BY <1>1, RecorderInvariant, PTL

\* When finish_rollout has returned, every ended episode is in the dataset and on video
\* (base.py finish_rollout): the flush is behind every save, and no error was left unread.
THEOREM FlushIsDurable == RecorderSpec => []FlushDurable
<1>1. RInv => FlushDurable
  <2>1. SUFFICES ASSUME RInv, rollout = "between", at = "idle", ~auto, NEW x \in owed
                 PROVE  /\ x \in dataset.eps
                        /\ \E v \in DOMAIN videos : videos[v] = [by |-> proc, frames |-> x.frames]
    BY DEF FlushDurable
  <2>2. todo = <<>> /\ commands = <<>> /\ ~error /\ Good /\ answer.is = "none"
    BY <2>1 DEF RInv, Giving, Barrier, Waiting
  <2>3. commands \o todo = <<>>
    BY <2>2
  <2>4. PICK o \in BOOLEAN : Leads(<<>>, Now, Holding(life, owed, o), mode)
    BY <2>2, <2>3 DEF Good, Converges
  <2>5. Now = Holding(life, owed, o)
    BY <2>4, NowhereLeads
  <2>6. dataset.eps = owed
    BY <2>2, <2>5 DEF Now, Holding, Answered
  <2> QED
    BY <2>1, <2>2, <2>6 DEF Good, Filmed
<1> QED
  BY <1>1, RecorderInvariant, PTL

LEMMA VideosStep ==
  ASSUME RInv, RecorderNext, NEW v \in DOMAIN videos
  PROVE  v \in DOMAIN videos' /\ (videos'[v] # videos[v] => videos[v].by # proc)
<1>1. CASE videos' = videos
  BY <1>1
<1>2. CASE Save
  <2>1. Serving("save_episode")
    BY <1>2 DEF Save
  <2>2. Env \in EnvIds /\ proc' = proc
    BY <2>1, Takes, TakesEnv
  <2>3. CASE mode' = mode /\ VideoSaved
    BY <2>2, <2>3, VideoIsNew DEF RInv
  <2>4. CASE videos' = videos
    BY <1>1, <2>4
  <2> QED
    BY <1>2, <2>3, <2>4 DEF Save, recorders
<1>3. CASE Worker
  <2>1. ~Save => videos' = videos
    BY <1>3 DEF Worker, RecordOnce, SaveFails, Discard, SetMode, Pop, PopFails, Flush, recorders
  <2> QED
    BY <1>1, <1>2, <2>1
<1>4. CASE Caller
  <2>1. videos' = videos
    BY <1>4 DEF Caller, Check, Put, Receive, recorders
  <2> QED
    BY <1>1, <2>1
<1>5. CASE \E m \in Modes, resetEval \in BOOLEAN : RecordReset(m, resetEval)
  <2>1. videos' = videos
    BY <1>5 DEF RecordReset, Begin, recorders
  <2> QED
    BY <1>1, <2>1
<1>6. CASE \E D \in SUBSET EnvIds : RecordStep(D)
  <2>1. videos' = videos
    BY <1>6 DEF RecordStep, Begin, recorders
  <2> QED
    BY <1>1, <2>1
<1>7. CASE RecordFinish \/ PopCompletedDataset \/ Replace \/ Over
  <2>1. videos' = videos
    BY <1>7 DEF RecordFinish, PopCompletedDataset, Begin, Replace, Over, recorders, recorderVars
  <2> QED
    BY <1>1, <2>1
<1> QED
  BY <1>3, <1>4, <1>5, <1>6, <1>7 DEF RecorderNext

\* No step of a process overwrites one of its videos (recorder/impl/video.py names them by
\* episode counters), in whichever order the modes alternate.
THEOREM VideosAreKept == RecorderSpec => VideosKept
<1>1. ASSUME RInv, [RecorderNext]_recorderVars
      PROVE  [\A v \in DOMAIN videos :
                v \in DOMAIN videos' /\ (videos'[v] # videos[v] => videos[v].by # proc)]_recorderVars
  <2>1. CASE RecorderNext
    BY <1>1, <2>1, VideosStep
  <2>2. CASE UNCHANGED recorderVars
    BY <2>2
  <2> QED
    BY <1>1, <2>1, <2>2
<1> QED
  BY <1>1, RecorderInvariant, PTL DEF RecorderSpec, VideosKept

\* All variables have their types: no command is given for an environment that does not exist,
\* and the queue is never over-full.
THEOREM RecorderTypes == RecorderSpec => []RecorderTypeOK
<1>1. RInv => RecorderTypeOK
  BY DEF RInv
<1> QED
  BY <1>1, RecorderInvariant, PTL
=============================================================================
