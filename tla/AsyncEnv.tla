------------------------------ MODULE AsyncEnv ------------------------------
(***************************************************************************)
(* BaseEnv (envs/base.py) with action_execution.mode = async: the control  *)
(* thread of ActionExecutor runs _execute_action_step, its snapshot runs   *)
(* _async_execution_result on the caller's thread, and the two share       *)
(* _execution_done and _execution_merged_step_result without a lock.       *)
(*                                                                         *)
(* Each step here is one access to that shared state, so a step and a      *)
(* snapshot that overlap interleave in every order.  Not modelled:         *)
(* teleoperation (no interventions, no manual restarts), recording, and    *)
(* observations; _execution_done and the terminated-or-truncated flags of  *)
(* the merged result are the sets of environments they hold for.           *)
(***************************************************************************)
EXTENDS ActionExecutor

CONSTANTS Envs,         \* the vectorised environments
          AutoReset     \* auto_reset_enabled

ASSUME EnvAssumption == AutoReset \in BOOLEAN

VARIABLES
  ended,       \* environments whose episode is over and that were not reset
  execDone,    \* _execution_done
  merged,      \* done flags of _execution_merged_step_result
  cached,      \* _latest_obs is not None
  stepDone,    \* local copy of _execution_done in the running step
  phase,       \* where the running step is
  resetMask,   \* local reset_mask of the running snapshot
  snap,        \* where the running snapshot is
  finishing,   \* the executor reset in progress is finish_rollout's
  raised,      \* a call raised: the exception reaches the trainer, which only
               \* closes the environment
  overrun      \* history: with auto_reset, an exchange came late, or a reset or
               \* finish_rollout after ticks that no snapshot has reported

episodeVars == <<ended, execDone, merged>>
stepVars == <<stepDone, phase>>
snapVars == <<resetMask, snap>>
useVars == <<cached, finishing, raised, overrun>>
envVars == <<episodeVars, stepVars, snapVars, useVars>>
vars == <<execVars, envVars>>

EnvTypeOK ==
  /\ TypeOK
  /\ ended \subseteq Envs /\ execDone \subseteq Envs /\ merged \subseteq Envs
  /\ stepDone \subseteq Envs /\ resetMask \subseteq Envs
  /\ cached \in BOOLEAN /\ finishing \in BOOLEAN /\ raised \in BOOLEAN
  /\ overrun \in BOOLEAN
  /\ phase \in {"none", "copy", "step", "flag", "finish"}
  /\ phase # "none" <=> thread = "stepping"
  /\ snap \in {"none", "read", "reset", "clear"}
  /\ snap # "none" <=> caller = "snapshot"

EnvInit ==
  /\ Init
  /\ ended = {} /\ execDone = {} /\ merged = {} /\ cached = FALSE
  /\ stepDone = {} /\ phase = "none" /\ resetMask = {} /\ snap = "none"
  /\ finishing = FALSE /\ raised = FALSE /\ overrun = FALSE

-----------------------------------------------------------------------------
(* The control thread: _execute_action_step *)

StepTake ==
  /\ Take /\ phase' = "copy"
  /\ UNCHANGED <<episodeVars, stepDone, snapVars, useVars>>

\* done = self._execution_done.copy()
StepCopy ==
  /\ phase = "copy"
  /\ stepDone' = execDone /\ phase' = "step"
  /\ UNCHANGED <<execVars, episodeVars, snapVars, useVars>>

Stepped == Envs \ stepDone      \* execute_mask

\* env_step runs for the environments not done; over is where the episode ends.
StepEnv(over) ==
  /\ phase = "step" /\ over \subseteq Stepped
  /\ ended' = ended \cup over
  /\ merged' = (merged \ Stepped) \cup over
  /\ phase' = "flag"
  /\ UNCHANGED <<execVars, execDone, stepDone, snapVars, useVars>>

\* env_step raised: the control thread fails.
StepRaises ==
  /\ phase = "step" /\ Fail /\ phase' = "none"
  /\ UNCHANGED <<episodeVars, stepDone, snapVars, useVars>>

\* self._execution_done |= terminated, truncated of the merged result
StepFlag ==
  /\ phase = "flag"
  /\ execDone' = execDone \cup merged /\ phase' = "finish"
  /\ UNCHANGED <<execVars, ended, merged, stepDone, snapVars, useVars>>

StepFinish ==
  /\ phase = "finish" /\ Finish /\ phase' = "none"
  /\ UNCHANGED <<episodeVars, stepDone, snapVars, useVars>>

ThreadIdles ==
  /\ ThreadWaits \/ ThreadReturns
  /\ UNCHANGED envVars

-----------------------------------------------------------------------------
(* The caller: step, reset, finish_rollout, close *)

\* BaseEnv.step: no policy call comes before the first reset.
Step ==
  /\ cached /\ ~raised
  /\ \E length \in Lengths : Exchange(length)
  /\ snap' = IF caller' = "snapshot" THEN "read" ELSE snap
  /\ overrun' = (overrun \/ (AutoReset /\ late'))
  /\ UNCHANGED <<episodeVars, stepVars, resetMask, cached, finishing, raised>>

StepRefused ==
  /\ cached /\ ~raised
  /\ \E length \in Lengths : ExchangeRefused(length)
  /\ raised' = TRUE
  /\ UNCHANGED <<episodeVars, stepVars, snapVars, cached, finishing, overrun>>

StepBlocks == ExchangeWaits /\ UNCHANGED envVars

StepFails ==
  /\ ExchangeRaises /\ raised' = TRUE
  /\ UNCHANGED <<episodeVars, stepVars, snapVars, cached, finishing, overrun>>

StepWakes ==
  /\ SnapshotBegin /\ snap' = "read"
  /\ UNCHANGED <<episodeVars, stepVars, resetMask, useVars>>

\* _async_execution_result reads _execution_done ...
SnapshotRead ==
  /\ snap = "read" /\ snap' = "reset"
  /\ resetMask' = execDone
  /\ UNCHANGED <<execVars, episodeVars, stepVars, useVars>>

\* ... resets the environments it found done (_reset_done_envs) ...
SnapshotReset ==
  /\ snap = "reset" /\ snap' = "clear"
  /\ ended' = IF AutoReset THEN ended \ resetMask ELSE ended
  /\ UNCHANGED <<execVars, execDone, merged, stepVars, resetMask, useVars>>

\* Mutant: the done flags are never cleared.
SnapshotKeepsFlags ==
  /\ snap = "clear" /\ SnapshotEnd(AutoReset /\ resetMask # {})
  /\ snap' = "none"
  /\ UNCHANGED <<episodeVars, stepVars, resetMask, useVars>>

\* ... and clears the flags.
SnapshotClear ==
  /\ snap = "clear" /\ SnapshotEnd(AutoReset /\ resetMask # {})
  /\ snap' = "none"
  /\ execDone' = IF AutoReset THEN {} ELSE execDone
  /\ UNCHANGED <<ended, merged, stepVars, resetMask, useVars>>

\* env_reset raised: the finally clause of exchange runs.
SnapshotFails ==
  /\ snap = "reset" /\ AutoReset /\ resetMask # {}
  /\ SnapshotRaises /\ snap' = "none" /\ raised' = TRUE
  /\ UNCHANGED <<episodeVars, stepVars, resetMask, cached, finishing, overrun>>

Unreported == AutoReset /\ completed + Busy > origin

Reset ==
  /\ ~raised /\ ResetCall /\ finishing' = FALSE
  /\ overrun' = (overrun \/ Unreported)
  /\ UNCHANGED <<episodeVars, stepVars, snapVars, cached, raised>>

FinishRollout ==
  /\ cached /\ ~raised /\ ResetCall /\ finishing' = TRUE
  /\ overrun' = (overrun \/ Unreported)
  /\ UNCHANGED <<episodeVars, stepVars, snapVars, cached, raised>>

ResetBlocks == ResetWaits /\ UNCHANGED envVars

\* The executor is at rest.  reset clears the flags, but with auto_reset it
\* returns the cached observation instead of resetting the environments, unless
\* the caller asked for a fresh evaluation.
EnvReset(resetEval) ==
  /\ ResetReturns /\ ~failed /\ ~finishing
  /\ merged' = {} /\ execDone' = {}
  /\ ended' = IF AutoReset /\ cached /\ ~resetEval THEN ended ELSE {}
  /\ cached' = TRUE
  /\ UNCHANGED <<stepVars, snapVars, finishing, raised, overrun>>

\* finish_rollout keeps the flags; after a failed step the reset itself raises.
ResetOnly ==
  /\ ResetReturns /\ (failed \/ finishing)
  /\ raised' = failed
  /\ UNCHANGED <<episodeVars, stepVars, snapVars, cached, finishing, overrun>>

Close == (CloseCall \/ CloseReturns \/ Terminated) /\ UNCHANGED envVars

EnvThreadStep ==
  \/ StepTake \/ StepCopy \/ StepRaises \/ StepFlag \/ StepFinish \/ ThreadIdles
  \/ \E over \in SUBSET Envs : StepEnv(over)

\* What a call that has been made does until it returns or raises.
EnvCallerStep ==
  \/ StepBlocks \/ StepWakes \/ StepFails
  \/ SnapshotRead \/ SnapshotReset \/ SnapshotClear \/ SnapshotFails
  \/ ResetBlocks \/ ResetOnly
  \/ \E resetEval \in BOOLEAN : EnvReset(resetEval)
  \/ CloseReturns /\ UNCHANGED envVars

EnvNext ==
  \/ EnvThreadStep \/ EnvCallerStep
  \/ Step \/ StepRefused \/ Reset \/ FinishRollout \/ Close

EnvSpec == EnvInit /\ [][EnvNext]_vars

\* env_step and env_reset return or raise and both threads are scheduled; new
\* calls are the caller's choice.
EnvFairSpec == EnvSpec /\ WF_vars(EnvThreadStep) /\ WF_vars(EnvCallerStep)

-----------------------------------------------------------------------------
(* Properties *)

\* No environment is stepped between the end of its episode and its reset
\* ("completed envs must not be submitted to the backend again",
\* step_with_teleop_and_recording).
NeverStepsEnded == phase = "step" => Stepped \cap ended = {}

\* An environment is reset by a snapshot only if its episode is over
\* (_async_execution_result, reset_mask).
ResetsOnlyEnded ==
  snap = "reset" /\ AutoReset => resetMask \subseteq ended

\* env_reset never runs on the simulator while env_step may be running on it.
SimulatorExclusive ==
  ~(snap = "reset" /\ AutoReset /\ resetMask # {} /\ phase = "step" /\ Stepped # {})

\* As long as every policy call arrives within its interval and no reset or
\* finish_rollout comes after unreported ticks, the unlocked sharing between
\* step and snapshot is harmless: ended environments are neither stepped nor
\* forgotten, no running episode is reset, and the simulator is not reset while
\* it steps.
ConsistentInTime ==
  ~overrun => NeverStepsEnded /\ ResetsOnlyEnded /\ SimulatorExclusive

\* The done flags agree with the episodes, up to what the running step has not
\* flagged yet and the running snapshot has not cleared yet.
Ledger ==
  IF AutoReset /\ snap = "clear" THEN ended = {}
  ELSE ended = IF phase = "flag" THEN execDone \cup merged ELSE execDone

\* In time, step and snapshot never overlap, each works on a copy of flags that
\* have not changed since, and a reset finds no episode that ended unreported.
InTime ==
  ~overrun => /\ AutoReset => ~late
              /\ Ledger
              /\ phase = "step" => stepDone = execDone
              /\ AutoReset /\ snap = "reset" => resetMask = ended
              /\ AutoReset /\ caller = "reset" => completed = origin /\ phase = "none"
              /\ AutoReset /\ completed = origin /\ phase \notin {"flag", "finish"}
                   => ended = {}

\* The inductive invariant behind ConsistentInTime.
EnvInv == ExecInv /\ EnvTypeOK /\ InTime

=============================================================================
