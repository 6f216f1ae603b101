--------------------------- MODULE ActionExecutor ---------------------------
(***************************************************************************)
(* AsyncActionExecutor of envs/action_executor.py: a control thread that   *)
(* consumes queued actions, one per control tick, while its caller (one    *)
(* thread, calls in sequence) exchanges plans of actions for observations. *)
(*                                                                         *)
(* The critical sections of self._condition are single steps; only the     *)
(* snapshot holds the lock for longer (caller = "snapshot"), and the step  *)
(* function runs without it.  waiting holds the threads blocked in         *)
(* condition.wait(); they look again only after a notify_all().            *)
(*                                                                         *)
(* Abstractions: a queued action is its index in the plan it came from;    *)
(* _in_step is thread = "stepping"; interpolation and smoothing change     *)
(* values and the length of a plan only, and Lengths are the lengths after *)
(* them; the outcomes of the step and snapshot functions are chosen.       *)
(* Bound: MaxCalls, the calls the caller makes.                            *)
(***************************************************************************)
EXTENDS Integers, Sequences

CONSTANTS Replan,     \* replan_after_steps
          Lengths,    \* lengths of the plans the policy submits
          MaxCalls

ASSUME ExecutorAssumption ==
  Replan \in Nat \ {0} /\ Lengths \subseteq Nat \ {0} /\ MaxCalls \in Nat

VARIABLES
  queue,              \* _action_queue
  completed, origin,  \* _completed_steps, _chunk_origin_step
  target,             \* _return_target
  paused, closed,     \* _paused, _closed
  failed,             \* _error is not None
  thread, caller,     \* where the control thread and the caller are
  waiting,            \* who is blocked in condition.wait()
  calls,              \* calls made so far
  planOrigin,         \* history: origin when the queued plan was submitted
  late,               \* history: the exchange found its tick already taken
  episodeReset        \* history: an environment was reset by the last snapshot,
                      \* and no plan has come in since

queueVars == <<queue, planOrigin, late>>
flags == <<paused, closed, failed>>
execVars == <<queue, completed, origin, target, paused, closed, failed, thread,
              caller, waiting, calls, planOrigin, late, episodeReset>>

NoTarget == 0         \* a target is at least Replan
Threads == {"thread", "caller"}
CallerStates == {"idle", "exchange", "snapshot", "reset", "joining", "closed"}

TypeOK ==
  /\ queue \in Seq(Nat)
  /\ completed \in Nat /\ origin \in 0..completed /\ planOrigin \in 0..origin
  /\ target \in Nat
  /\ paused \in BOOLEAN /\ closed \in BOOLEAN /\ failed \in BOOLEAN
  /\ thread \in {"idle", "stepping", "stopped"}
  /\ caller \in CallerStates
  /\ waiting \subseteq Threads
  /\ calls \in Nat /\ late \in BOOLEAN /\ episodeReset \in BOOLEAN

Init ==
  /\ queue = <<>> /\ completed = 0 /\ origin = 0 /\ planOrigin = 0
  /\ target = NoTarget
  /\ paused = TRUE /\ closed = FALSE /\ failed = FALSE
  /\ thread = "idle" /\ caller = "idle" /\ waiting = {}
  /\ calls = 0 /\ late = FALSE /\ episodeReset = FALSE

Busy == IF thread = "stepping" THEN 1 ELSE 0      \* int(self._in_step)
Locked == caller = "snapshot"
NotifyAll == waiting' = {}
Wait(t) == waiting' = waiting \cup {t}
Max0(n) == IF n > 0 THEN n ELSE 0

-----------------------------------------------------------------------------
(* The control thread, _run *)

\* The thread may not take an action now.
Held ==
  \/ paused
  \/ queue = <<>>
  \/ target # NoTarget /\ completed >= target

ThreadAwake == thread = "idle" /\ "thread" \notin waiting /\ ~Locked

ThreadWaits ==
  /\ ThreadAwake /\ ~closed /\ Held
  /\ Wait("thread")
  /\ UNCHANGED <<queueVars, completed, origin, target, flags, thread, caller,
                 calls, episodeReset>>

ThreadReturns ==
  /\ ThreadAwake /\ closed
  /\ thread' = "stopped"
  /\ UNCHANGED <<queueVars, completed, origin, target, flags, caller, waiting,
                 calls, episodeReset>>

\* Pop an action and commit to it; the step function then runs unlocked.
Take ==
  /\ ThreadAwake /\ ~closed /\ ~Held
  /\ queue' = Tail(queue) /\ thread' = "stepping"
  /\ UNCHANGED <<planOrigin, late, completed, origin, target, flags, caller, waiting,
                 calls, episodeReset>>

\* Mutant: the last notify_all of the loop is missing.
FinishSilently ==
  /\ thread = "stepping" /\ ~Locked
  /\ completed' = completed + 1 /\ thread' = "idle"
  /\ UNCHANGED <<queueVars, origin, target, flags, caller, waiting, calls,
                 episodeReset>>

\* The step function returned.
Finish ==
  /\ thread = "stepping" /\ ~Locked
  /\ completed' = completed + 1 /\ thread' = "idle"
  /\ NotifyAll
  /\ UNCHANGED <<queueVars, origin, target, flags, caller, calls, episodeReset>>

\* The step function raised: the thread records the error and ends.
Fail ==
  /\ thread = "stepping" /\ ~Locked
  /\ thread' = "stopped" /\ failed' = TRUE /\ paused' = TRUE
  /\ NotifyAll
  /\ UNCHANGED <<queueVars, completed, origin, target, closed, caller, calls,
                 episodeReset>>

-----------------------------------------------------------------------------
(* The caller: exchange, reset, close *)

Call == caller = "idle" /\ calls < MaxCalls /\ calls' = calls + 1

Refused(length) == length < Replan \/ failed \/ target # NoTarget

\* exchange raises before it touches anything.
ExchangeRefused(length) ==
  /\ Call /\ Refused(length)
  /\ UNCHANGED <<queueVars, completed, origin, target, flags, thread, caller,
                 waiting, episodeReset>>

\* Mutant: the action already taken off the queue is not counted.
ElapsedWithoutCommitted == Max0(completed - origin)

\* Ticks since the observation the plan was computed from, the committed one
\* included: that many actions of the plan are in the past.
Elapsed == Max0(completed + Busy - origin)

\* The actions of the plan that are not in the past replace the queue.  The caller
\* goes to sleep, or on to the snapshot if its tick has passed already.
Exchange(length) ==
  /\ Call /\ ~Refused(length)
  /\ queue' = [k \in 1..(length - Elapsed) |-> Elapsed + k - 1]
  /\ planOrigin' = origin
  /\ target' = origin + Replan
  /\ late' = (completed + Busy > target')
  /\ paused' = FALSE
  /\ \/ /\ completed < target'
        /\ caller' = "exchange" /\ waiting' = {"caller"}
     \/ /\ completed >= target'
        /\ caller' = "snapshot" /\ NotifyAll
  /\ episodeReset' = FALSE
  /\ UNCHANGED <<completed, origin, closed, failed, thread>>

CallerAwake(state) == caller = state /\ "caller" \notin waiting

ExchangeWaits ==
  /\ CallerAwake("exchange") /\ completed < target /\ ~failed
  /\ Wait("caller")
  /\ UNCHANGED <<queueVars, completed, origin, target, flags, thread, caller,
                 calls, episodeReset>>

\* The control thread failed during the wait; the target stays set.
ExchangeRaises ==
  /\ CallerAwake("exchange") /\ completed < target /\ failed
  /\ caller' = "idle"
  /\ UNCHANGED <<queueVars, completed, origin, target, flags, thread, waiting,
                 calls, episodeReset>>

\* The interval is complete: snapshot_fn is called with the lock held.
SnapshotBegin ==
  /\ CallerAwake("exchange") /\ completed >= target
  /\ caller' = "snapshot"
  /\ UNCHANGED <<queueVars, completed, origin, target, flags, thread, waiting,
                 calls, episodeReset>>

\* The snapshot is taken; reset says that it reset some environment.
SnapshotEnd(reset) ==
  /\ caller = "snapshot"
  /\ queue' = IF reset THEN <<>> ELSE queue
  /\ episodeReset' = reset
  /\ origin' = completed
  /\ target' = NoTarget /\ caller' = "idle" /\ NotifyAll
  /\ UNCHANGED <<planOrigin, late, completed, flags, thread, calls>>

\* snapshot_fn raised: only the finally clause runs.
SnapshotRaises ==
  /\ caller = "snapshot"
  /\ target' = NoTarget /\ caller' = "idle" /\ NotifyAll
  /\ UNCHANGED <<queueVars, completed, origin, flags, thread, calls, episodeReset>>

ResetCall ==
  /\ Call
  /\ paused' = TRUE /\ queue' = <<>> /\ target' = NoTarget
  /\ caller' = "reset"
  /\ UNCHANGED <<planOrigin, late, completed, origin, closed, failed, thread, waiting,
                 episodeReset>>

ResetWaits ==
  /\ CallerAwake("reset") /\ thread = "stepping"
  /\ Wait("caller")
  /\ UNCHANGED <<queueVars, completed, origin, target, flags, thread, caller,
                 calls, episodeReset>>

\* No tick is in progress: the counters restart (reset raises if failed).
ResetReturns ==
  /\ CallerAwake("reset") /\ thread # "stepping"
  /\ completed' = 0 /\ origin' = 0 /\ planOrigin' = 0 /\ episodeReset' = FALSE
  /\ caller' = "idle"
  /\ UNCHANGED <<queue, late, target, flags, thread, waiting, calls>>

CloseCall ==
  /\ caller = "idle"
  /\ closed' = TRUE /\ caller' = "joining" /\ NotifyAll
  /\ UNCHANGED <<queueVars, completed, origin, target, paused, failed, thread,
                 calls, episodeReset>>

CloseReturns ==
  /\ caller = "joining" /\ thread = "stopped"
  /\ caller' = "closed"
  /\ UNCHANGED <<queueVars, completed, origin, target, flags, thread, waiting,
                 calls, episodeReset>>

Terminated == caller = "closed" /\ UNCHANGED execVars

-----------------------------------------------------------------------------
ThreadStep == ThreadWaits \/ ThreadReturns \/ Take \/ Finish \/ Fail
Snapshot == \/ \E reset \in BOOLEAN : SnapshotEnd(reset)
            \/ SnapshotRaises
CallerStep == \/ ExchangeWaits \/ ExchangeRaises \/ SnapshotBegin \/ Snapshot
              \/ ResetWaits \/ ResetReturns \/ CloseReturns
NewCall == \/ \E length \in Lengths : Exchange(length) \/ ExchangeRefused(length)
           \/ ResetCall \/ CloseCall

Next == ThreadStep \/ CallerStep \/ NewCall \/ Terminated

Spec == Init /\ [][Next]_execVars

-----------------------------------------------------------------------------
(* Properties *)

\* A plan stays aligned with the observation it was computed from: whatever was
\* executed or committed between that observation and the plan's arrival, the
\* action at index i is the one for tick planOrigin + i (exchange, elapsed_steps).
Aligned ==
  ~failed => \A k \in 1..Len(queue) :
               queue[k] = completed + Busy + (k - 1) - planOrigin

\* What the thread has committed to or still finds in the queue reaches the tick
\* an exchange waits for, however long the previous plans were (the check of
\* replan_after_steps in exchange is enough).
Covered ==
  caller = "exchange" /\ ~failed => completed + Busy + Len(queue) >= target

\* An exchange that arrives in time gets its observation exactly at the tick it
\* asked for, with no step in flight (the thread halts at _return_target).
OnTime == caller = "snapshot" /\ ~late => completed = target /\ thread # "stepping"

\* Once paused and not in the middle of a reset, no step is running and nothing
\* will start one: reset stops execution at a tick boundary.
Quiescent ==
  paused /\ caller # "reset" => thread # "stepping" /\ (queue = <<>> \/ thread = "stopped")

\* The inductive invariant: the four properties above and what they rest on.  An
\* exchange waits for its own tick and, if it was in time, the thread has not
\* passed it; a failed thread has stopped and leaves the executor paused; only
\* close stops a healthy one; a reset has emptied the queue before it waits.
ExecInv ==
  /\ TypeOK /\ Aligned /\ Covered /\ OnTime /\ Quiescent
  /\ caller \in {"exchange", "snapshot"} => target = origin + Replan
  /\ caller = "exchange" /\ ~late => completed + Busy <= target
  /\ failed => thread = "stopped" /\ paused
  /\ thread = "stopped" => failed \/ closed
  /\ closed <=> caller \in {"joining", "closed"}
  /\ caller = "reset" => paused /\ queue = <<>>
  /\ episodeReset => queue = <<>>

\* Between the reset of an environment and the next plan no action is started:
\* what the old episode's plan left is never taken into the new episode.
NothingLeftOver == [][Take => ~episodeReset]_execVars

\* Every exchange, reset and close returns or raises, even if the step function
\* fails at any point: no wake-up is lost.
CallsReturn == caller \notin {"idle", "closed"} ~> caller \in {"idle", "closed"}

=============================================================================
