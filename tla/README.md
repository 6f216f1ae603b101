# Verification of verl-vla

verl-vla trains vision-language-action models with reinforcement learning in robot
simulators and on robots (`src/src/verl_vla`, abbreviated V below). Its newest and most
stateful part is fragmented Group-Relative FPO: groups of rollouts are collected on
preemptible Slurm nodes, kept in durable windows on a shared filesystem, and trained on by
a job that may itself be preempted. Around it are environment workers with simulator
subprocesses, a control thread that executes action plans in real time, recorders, and
several trainers. Checkpoints are evaluated by Slurm jobs under a monitor.

The directory holds ten models, each with its runs for TLC and proofs for TLAPS:

| Module | Models | Proofs |
| --- | --- | --- |
| `CollectionWindow`, `WindowContract` | one collection window, its collectors, its operators; the contract it implements | `CollectionWindowProofs` |
| `ActionExecutor`, `AsyncEnv` | the asynchronous action executor, and BaseEnv on top of it | `AsyncEnvProofs` |
| `CandidateLoop` | the candidate loop of the GRFPO trainer with resume after preemption | `CandidateLoopProofs` |
| `UpdateChain` | the chain of policy updates: controller, submitters, training jobs, receipts | `UpdateChainProofs` |
| `EnvManager` | simulator processes, their command protocol, recovery and case cursors | `EnvManagerProofs` |
| `AsyncRecorder` | the recording thread, the dataset and the videos | `AsyncEnvProofs` |
| `RolloutLoop` | rollouts of the train cluster, evaluation, and the SAC trainer around them | `RolloutLoopProofs` |
| `SharedModelBroker` | one collector process with several simulator children | `SharedModelBrokerProofs` |
| `LerobotIpc` | a LeRobot environment and its robot runtime | `LerobotIpcProofs` |
| `EvalRun` | a fixed-topology evaluation: lanes, bundles, completion markers, monitor | `UpdateChainProofs` |

`MC*.tla` give the constants that a .cfg cannot write; `*.cfg` are the instances.
`PROJECT.json` has the runs, the mutants (a plausible bug for every checked property, which
TLC finds), the lines each definition models, the findings, the hazards and the theorems.

The models meet at their edges. A window closes in one step of `UpdateChain`, whose life is
`CollectionWindow`; a claim of `SharedModelBroker` is a claim of that window; resets are reliable in
`CandidateLoop` and `RolloutLoop`, which is what `EnvManager` shows; the resets and steps that
`AsyncRecorder` records are those of `RolloutLoop`.

## 1. Inventory

For each part: the state it keeps, its operations, what it interacts with, what makes it
hard, and what makes it correct.

**Collection window** (V/trainer/grfpo/collection_store.py, V/workflows/grfpo_fragmented_collection.py,
scripts/grfpo/*collector*.sbatch, monitor_fragmented_window.sbatch). State: a directory with
manifest.json, OPEN, CLOSED.json, one directory per decided candidate (groups/, rejected
groups, skips) and leases/. Operations: initialize, claim_candidate, heartbeat_lease,
commit_group, release_lease, close_if_ready, skip, abandon_owner_leases. Many collectors on
many nodes call it through one flock. Hard: preemption between two writes, leases that expire
under a live holder, a second process with the same owner id, late commits, round barriers.
Correct: one claimant per candidate, no stale publication, a closing record that stays true,
closing exactly once, closing eventually.

**Spooled training** (V/trainer/grfpo/spooled_trainer.py, V/workflows/train/spooled_group_rl.py,
V/train_cluster/checkpoint.py, scripts/grfpo/submit_spooled_window.sh, run_fragmented_chain.sh).
State: training lock, receipt TRAINED.json, checkpoint, TRAIN_SUBMITTED.json, the chain's theta.
Operations: submit, train under training_transaction, checkpoint, receipt, next theta. Hard:
preemption between checkpoint and receipt, resubmission while the first job is only invisible
to squeue. Correct: one update per window, in order of theta.

**Action execution** (V/envs/action_executor.py, V/envs/base.py). State: the action queue, the
counters of completed and committed ticks, the tick the caller waits for, the done flags of
every environment. Operations: exchange, reset, close from the policy's side, step and snapshot
on the control thread's. Hard: the step runs without the lock, the snapshot shares flags with
it, inference may be late. Correct: plans stay aligned with observations, nobody waits for ever,
only ended episodes are reset and none of them is stepped.

**GRFPO candidate loop** (V/trainer/grfpo/grfpo_ray_trainer.py). State: on disk the checkpoint,
the evidence file, the spool of accepted groups and the resume state; in the process the
schedule slot, attempt number and accepted groups; in the environment workers the case cursor
and a reset dispatched ahead. Hard: resume after a preemption between any two writes; counters in
three places that must stay in step. Correct: the resumed window is the interrupted one.

**Train cluster and environment loop** (V/train_cluster/cluster.py, env_loop.py). State: the
rollout state (prefetched reset, carry), the pending or ready asynchronous rollout, collection
flags, worker groups. Operations: rollout, eval, train, begin/end_rollout_collection, checkpoints.
Hard: a rollout in flight across a weight update or an evaluation. Correct: each batch is used
once and with the policy version it is labelled with.

**Environment worker and simulator processes** (V/workers/env/env_manager.py, env_worker.py,
V/envs/robodojo). State: subprocess, command and result queues, recovery snapshot, case cursors.
Operations: call, reset with recovery, stop, force_stop, restart. Hard: a timed-out reply that
arrives later, snapshot and reset in one retry, a start that fails half-way. Correct: a reply
belongs to its command; the k-th training reset delivers wave k on every stage.

**Recorder** (V/recorder/async_recorder.py, recorder.py, impl/lerobot.py). State: command queue,
worker thread, first error, episode buffers. Hard: errors surface at a later call. Correct: a saved
episode has all its frames in order; flush and finalize are barriers.

**Shared-model broker** (in grfpo_fragmented_collection.py). One model process serves several
simulator children through pipes, batches their requests, has timeouts on both sides and aborts
all on one failure. Correct: every request is answered once, by its own answer, or the job fails.

**SAC trainer and replay pool** (V/trainer/sac, V/utils/replay_pool.py). State: ring buffers on
each worker, one per task and sign, a file per rank; the lanes of the episode buffer. Correct: whole
episodes only, valid samples only, every rank takes part in every update, also after save and load.

**LeRobot runtime** (V/envs/lerobot). State: the tmux session with the runtime, two named pipes, the
robot's episode. Operations: ensure and restart the session, send a request and wait for its reply
with a timeout, close; in the runtime receive, execute, reply, and a watchdog of the process that
started it. Hard: every failure is met by killing the runtime and sending the request again, and the
robot has already moved. Correct: replies are not confused, no action runs twice, every call returns.

**Fixed-topology evaluation** (scripts/eval/mainline: eval.py, monitor_split_eval.py, launch_split_after_complete.sh). State:
per work item the metrics of its attempts and COMPLETE.json, EVAL_COMPLETE.json, the Slurm queue, the monitor's state file.
Operations: one lane of a packed or coalesced topology, one item with retries, summaries; scan the markers and submit
a lane again. Hard: jobs die between any two files, the monitor acts on old scans, jobs and monitor compute owners
separately. Correct: no item is evaluated twice, what is marked complete stays valid, every item is completed in the end.

**Teleoperation** (V/teleop). Devices, key maps, and a store of the latest observation with
subscribers.

**The rest**: engines, models, losses, data loading, simulator adapters, the drivers of
evaluation and recording, configuration, documentation. Numerical or sequential code, or adapters to software that is
not in the repository. PROJECT.json lists every part with the reason it is not modelled.

## 2. Plan

Done: the ten models with their runs; every safety property a run checks is also a theorem, for all values of the constants
(two of them under a hypothesis; section 14).

Left, most important first:

1. `ReplayPool`: the ranks of the SAC training worker, their ring buffers, the file each of them writes, and the
   collective update in which every rank must take part. Wanted: a rank never lacks a sample the others have, and
   a restart continues from the pools of the last step.
2. `ObsStore`: the teleoperation server's store of the latest observation.
3. Within the modelled parts: rollouts of collection_only and of the asynchronous candidate loop, step commands of
   the simulator process, closing of the recorder, frozen recovery plans of an evaluation.

## 3. The collection window

Every operation of `CollectionWindowStore` runs under one flock, so it is one step: `Start` (initialize),
`ClaimGranted`, `ClaimNothing` and `ClaimRaises` (claim_candidate), `Heartbeat`, `Commit`, `CommitRefused` and
`CommitRaises` (commit_group with the lease check), `Release`, `CloseAfterCommit`, `Poll` and `Status`
(close_if_ready), `Skip`, `Abandon`. The kernel drops the flock of a killed process, so an operation that makes two durable
writes has a second action that stops between them: `StartCut` (manifest.json without OPEN), `CommitCut`
(group directory published, lease still there), `CloseCut` (CLOSED.json and OPEN both there), `SkipCut`. `Crash`
kills a collector anywhere else. `Expire` lets a lease run out; `LaneTake`/`LaneStop` are the fixed-lane collector,
which takes its own residue class of candidates and uses no leases.

A lease token is a fresh number, where the code draws 128 random bits. Two processes may have the same
owner id: that is what a requeued Slurm task and its not yet killed predecessor look like, and the code's
stable owner id makes the newer one reclaim the lease at once.

| Run | Shows |
| --- | --- |
| `window_target` | target mode; a collector, a lingering twin and a rival on three candidates |
| `window_modes` | target and drain mode with the queue, round mode with fixed lanes, under fairness; two collectors, four candidates |

The configuration of a window (mode, shared queue or fixed lanes) is a variable that `Init` chooses from `Windows` and no step
changes (`WindowFinal`), so one run covers several.

`OneClaimant`: two processes on one candidate never both pass the lease check. `RevokedNeverPublishes`: no group
becomes durable under a token that was reclaimed, released, skipped or abandoned. `SelectionSound`: CLOSED.json
agrees with the directories for ever. `RoundBarrier`: nothing of a round is claimed before the round below it is decided;
for the shared queue it is the theorem RoundsInOrder. `ImplementsContract` (also a theorem): the files refine
`WindowContract`, in which a candidate gets at most one verdict, none after closing, and the window closes once.
`WindowCloses`: a window with leases is closed in the end.

Bounds: three or four candidates, two rounds, two or three processes with two owners, three to six claims and one
fault. They suffice for the critical patterns: reclaim while the old holder works (two claims of one candidate by
two processes), a second commit past the target, a skip between claim and commit, a second round; a second
fault adds repetitions of what the single fault already separates. The faults and claims are bounded because the code bounds neither:
an integrity failure that repeats for ever keeps a window open for ever, and the code does not promise otherwise.

Fairness (`FairSpec`): a process that is not killed proceeds, which covers restarts (Slurm requeues the array
element and the watcher resubmits it) and rollouts that end; a lease with a dead holder expires, since wall-clock
time passes. No fairness of heartbeats, operators or faults.

## 4. Action execution

`ActionExecutor` has one action per critical section of `_condition`. `Take`/`Finish`/`Fail` are the control thread around
the step function, which runs without the lock; `Exchange` to `SnapshotEnd` is the caller's exchange; `ResetCall` to
`ResetReturns` and `CloseCall`/`CloseReturns` are reset and close. A condition variable is the set `waiting`: a thread in it
sleeps until a notify_all, so a lost wake-up would be a deadlock or a violation of `CallsReturn`. A queued action is
its index in its plan, which is what alignment is about; smoothing and interpolation change its value only.

`AsyncEnv` composes BaseEnv with it: the step function is `StepCopy`, `StepEnv`, `StepFlag`, `StepFinish`, the snapshot
is `SnapshotRead`, `SnapshotReset`, `SnapshotClear`, each one access to the done flags that the two share without a lock, and every
executor action is taken together with the environment's part of it.

Run `env_in_time` checks both: two environments with auto_reset, five calls in any order, plans shorter than, equal to
and longer than the replanning interval, functions that may raise. `Aligned`: a queued action is executed at the tick it was planned
for. `ConsistentInTime`: while calls arrive in time, ended environments are neither stepped nor forgotten, and no running episode is
reset. `CallsReturn`: nobody waits for ever. The further safety properties of the executor (`Covered`, `OnTime`, `Quiescent`,
`NothingLeftOver`) are theorems.

Bounds: an interval of two with plans of one to four actions and five calls: enough for a
plan that arrives while another is half executed, for an exchange that is late, and for a reset in the middle of
both. Fairness: both threads are scheduled, and the step and snapshot functions return or raise. New calls are never obliged.

`ConsistentInTime` is conditional on `overrun` being false: no exchange came after its tick, and no reset or
finish_rollout came after ticks that no snapshot has reported. The condition is a history of what the policy did, not
of the flags. Without it the code misbehaves (section 13).

## 5. The candidate loop

`CandidateLoop` models `_fit_group_relative` with candidate_spool_dir and candidate_resume_state_path configured (and
save_freq = 1, which the configuration demands then). One step is the code between two writes to disk, and `Crash` may strike between
any two. `Launch` is fit up to the loop, `Open` the recovery of an unfinished window (`Resumed`, `Loadable`), `Collect` one batch
through `RolloutOnce`, then for every group `TakeGroup`, `Persist` (spool directory), `AppendGroup` (evidence line), and `WriteState`
after the batch; `Train`, `Save`, `Close`, `Clean`, `Mark` the update; `Insufficient` a window with too few groups; `Eval` the fixed
evaluation, which replaces the prefetched reset. A case is the number of a schedule slot; its layout is that number modulo the length
of the schedule, which is all `Diverge` can see, and its policy seeds are its own.

Taken as given: `os.replace` and the append of one line are atomic, the checkpoint appears atomically, resets are reliable
(`EnvManager` shows what their recovery gives), and whoever launches the job passes the train cursor of the resume
state, as the trainer demands at its start; that launcher is not in the repository.

Run `candidate_resume`: two updates with an evaluation after each, two stages of two groups, batches of two (so one stage is
unused and a sibling group may be informative but not selected), a budget of five (so the last candidate cannot fund
a stage), three layouts (so a shift by one wave is visible), two preemptions, four uninformative groups (so a window may
be insufficient). With optional refill switched off, its default. Checked:

- `WindowKept`: the open window on disk is numbered without gaps, within its budget and target, loadable, and equal to
  what the process has accepted, after any number of preemptions.
- `CasesOnce`: no case is used twice in a window or again after an update, unless a preemption hit between the
  evidence and the resume state of one batch.
- `ScheduleInStep`: trainer and environments agree on the next case, unless an evaluation found no prefetched reset.
- `Resumable`: a restart is refused only after a preemption inside the very first batch; no spool directory is in the way.
- `RetrainsSame`: a training step cut off by a preemption is repeated on the same groups.
- `RunCompletes`, under weak fairness of the process: a preempted job is restarted and scheduled, and so is one that the
  diverged-schedule exception ended. A refused start is final, since every later one would be refused for the same reason.

## 6. The update chain

`UpdateChain`: the controller (`Top`, `Advance`, `GiveUp`; `Renew` is its successor), submit_spooled_window.sh run by the
controller and by every window's watcher (`Enter` takes the lock of the window, `Ask` is squeue, `Cancel` scancel, `Sbatch`, `Record`
the submission record), and a training job (`Begin` takes the training lock and loads theta_old, `SaveBegins`/`SaveEnds` write the
checkpoint in place, `Receipt`). `Start`, `Age` and `Preempt` are Slurm. A checkpoint has a generation, because an update that
is repeated gives other weights. squeue may fail and look like a job that is gone; sbatch may fail after it has submitted.

Run `update_chain` (two windows, two attempts, four jobs, one fault anywhere): `ReceiptDurable` (a receipt vouches
for the complete checkpoint that is there now), `OnPolicy` (a window's theta_old never changes once collection began, and the update
starts from it), `FallbackFollows` (a cancelled job has a successor), `ChainEnds`.
One fault separates every pair of writes; two windows are the least in which a checkpoint is both a result and a start.

Fairness: scripts poll; Slurm starts jobs of the preempt partition; nothing about the normal partition, whose jobs may
stay pending, which is why the script has a fallback. Taken as given: `os.replace` is atomic, flock excludes.

## 7. Simulator processes

`EnvManager`: one stage is a parent thread and a child process with two queues. `CallReset` and `CallRestart` are calls of the
worker to all stages, `Join` their end. `ResetReturns`, `SnapshotReturns`, `Timeout`, `Started`, `StartFails`, `Stopped`, `StopFails`,
`Exited` are the parent's side of reset with recovery, snapshot, forced stop and restart; `ServeReset` and `ServeState` the child's;
`Breaks` makes it hang or die. Cursors are counted in waves.

Run `env_recovery` (two stages, three calls in both modes, three faults): `OwnAnswer` (no command takes the answer to
one that timed out), `SameWave` (a reset that returns has all stages on the wave of the schedule), `CallReturns`. Three faults let one stage
use up its restarts, or two stages fail differently in one call. Both safety properties are theorems. Fairness: the worker's
threads run, a child that is up serves; a hung one is met by the parent's timeout, which therefore is fair as well.

## 8. Recording

`AsyncRecorder`: the calling thread gives commands one by one (`Check` looks for an earlier error, `Put` blocks at the
limit of the queue, `Receive` waits for an answer), the worker applies them (`RecordOnce`, `Save`, `Discard`, `SetMode`, `Pop`, `Flush`)
and may fail half-way (`SaveFails`, `PopFails`). The calls are those of BaseEnv: `RecordReset`, `RecordStep`,
`RecordFinish`, `PopCompletedDataset`; what a call still has to give is `todo`, what the worker has not yet taken `commands`. `Replace` is a new simulator process. A frame is the number of its step.

Run `recorder_episodes` (two environments, a queue of two, six calls, one fault or replacement, with and without
auto_reset): `PopExact` (a pop returns exactly the episodes that ended since the last, each with all its frames, or raises,
and fails only after a failed recording: no order of calls saves into a dataset that was given away),
`FlushDurable`, `VideosKept`. TLC's deadlock check covers
callers that would wait for ever. All three properties are theorems. A queue of two is full within one step of two environments; six calls make two rollouts.

## 9. Rollouts and the SAC trainer

`RolloutLoop`: `Launch`, `StageStep` (each stage at its own pace) and `RolloutEnds` are one generate_sequences with the
reset it asks for at its end; `RolloutSync`, `RolloutAsync`, `RolloutReady` and `Receive` are the ways `TrainCluster.rollout`
gets a batch; `Train` is `EpisodeBuffer.ingest` and the update; `EvalBegins`, `EvalRound` and `EvalEnds` are an evaluation, which keeps the
batch in flight. The configuration (auto_reset, async_rollout, a separate rollout model, shared simulators) is chosen in `Init`.

Run `rollout_trainer` (two stages, windows and episodes of up to three steps, two trainer steps, one evaluation, all twelve
configurations): `PolicyVersion` (one weight version per rollout, and no older than promised), `EachBatchOnce`, `FreshObs` (the policy
acts on what the simulator shows, also after a prefetched reset), `WholeEpisodes`, `RecordsExact` (the reported length of an episode
over rollouts), `FitEnds`. Episodes of three steps in windows of three end in, at and across the borders of a window. Fairness: every task
of the event loop runs. The exceptions after an evaluation that the properties name are the code's (section 13).

Run `rollout_raises` is the finding of section 12.

## 10. Broker and LeRobot runtime

`SharedModelBroker`: a child claims, builds, asks and commits (`Claim`, `Build`, `Ask`, `Answered`, `Commit`); the parent waits for
any message (`WaitAny`), for more within the coalescing time (`Coalesce`), answers a batch (`Infer`) and stops: `Done`,
`InferRaises`, `NoProgress` (600 s), then `Terminate` and `Joined`. Run `broker_collector` (three children, one bound to its condition, two
that take any; two requests each, one fault): `OwnAnswer` (an answer is for the request that waits, computed from that child's
observation), `ReturnsAllDone` (a collector that returns has heard from every child and leaves no lease), `CollectorEnds` with
fairness of the parent alone: children may hang. Three children are enough for a batch, a straggler and a failure at the same time.

`LerobotIpc`: the environment ensures a session (`Ensure`, `Ready`, `NotReady`), sends and waits (`Send`, `Return`), and meets every
failure with a new session and the same request (`Timeout`). The runtime makes the pipes, receives, executes and replies, with no limit on
its waiting for a reader. `OwnerKilled` is a simulator process that is killed and replaced while the session lives on, `Watchdog` the
thread that then ends it. Run `lerobot_calls` (four calls, three faults): `OwnReply`, `RobotInOrder` (no action twice in one runtime, none
out of order), `CallReturns`. Three faults let a runtime die while its replacement boots late and the owner is killed. Both safety
properties are theorems. Fairness: all threads run; a hung runtime is a fault of its own, and the timeouts of the environment run out.

## 11. Evaluation

`EvalRun` has the files of one launch, the Slurm queue, the processes of each job and the monitor. A process takes a unit
(`TakeUnit`: an item, or a bundle of items of one group), looks for results an earlier process left (`TryItem`),
evaluates (`EvaluatorEnds`, `EvaluatorFails`), checks and marks (`CheckItem`), or splits a bundle item by item
(`CheckBundle`, `SplitItem`, `AdoptItem`), and writes the summary (`Collect`). A packed job has a parent that leaves last (`ParentWakes`)
or with the first failure (`JobEnds`). The monitor scans the markers (`Scan`), looks at the latest job of each missing lane
(`LaneActive`, `Resubmit`, `ResubmitUnanswered`, `SubmitRefused`), saves its state (`RecordJob`), and summarizes at the end.

Run `eval_lanes` (three items in groups of two and one; packed: one lane with two evaluators; coalesced: two lanes, bundles of two;
two attempts; one fault anywhere): `ItemsOnce` (no item is in two processes' hands, or evaluated again after it was marked),
`CompletedValid` (a marker refers to a valid result for good; EVAL_COMPLETE.json means all items), both unless the monitor was restarted or
misinformed (section 13), and `LanesFinish` (every item is completed unless its lane is blocked by an invalid result). Bundles that span two lanes make the owners
of items and of bundles differ; two evaluators make one fail while the other is at work. Five jobs are enough: besides the fault, each lane can get one more
from a scan that is older than its last marker. Both invariants are theorems.

Fairness: the cluster works on some job as long as it can, which is enough because jobs are finite, and the monitor goes on; evaluators end.

## 12. Finding

`rollout_raises` checks what the docstring of `EpisodeBuffer` says (episode_buffer.py:27-28: the padding after a
finished lane is "discarded"): training without auto_reset never stops because a lane ended early. It does: `BaseEnv`
zeroes the feedback of a finished lane, its done flags included (base.py:300-301), so the padding looks like the
beginning of an unfinished episode, and `ingest` raises.

## 13. Behaviours to know, without a run

Met while modelling, and expressible in the models: most are definitions that the reader can check with TLC and see fail.

- `PreemptionKeepsWindow` (CollectionWindow): a preemption between manifest.json and OPEN (collection_store.py:393)
  is never repaired.
- `AbandonFreesElement` (CollectionWindow, with `SimElement` and `SimElementOwner`): with several simulators per GPU the
  watcher's owner id matches no lease (monitor_fragmented_window.sbatch:241); the leases run out instead.
- `WindowCloses` without leases: in fixed-lane mode nobody closes a window whose last committer was
  preempted before closing, or whose last candidates the operator skipped (grfpo_fragmented_collection.py:1128).
- `NeverStepsEnded`, `ResetsOnlyEnded` (AsyncEnv): when calls are late, a step in flight during a snapshot writes an old
  done flag back, so that a new episode is reset; reset with auto_reset forgets episodes that ended since the last exchange.
- CandidateLoop: a preemption after the first evidence line and before the first resume state leaves a run
  that every restart refuses; the same gap in a later batch makes cases repeat; a restart that trains without a
  rollout skips one wave after the next evaluation, and its next batch raises. These are the reservations of `Resumable`, `CasesOnce`
  and `ScheduleInStep`. With optional refill a restart does not look again whether the initial window was enough.
- A torn evidence line (a preemption inside one write) fails every restart; the model's append is atomic.
- `FallbackFollows` (UpdateChain) fails with an odd GRFPO_MAX_TRAIN_ATTEMPTS: the budget is looked at after the cancelling.
- `KeptUntilPopped` (AsyncRecorder): a simulator process that is replaced between flush and pop takes the finished episodes
  with it, since the new recorder clears the dataset root.
- `NewEpisodeAfterEval` (RolloutLoop): with auto_reset the reset after an evaluation continues an old episode.
- SharedModelBroker: `NoProgress` also ends a collector whose children all wait for candidates of other collectors, and a child
  that is terminated leaves its lease to run out.
- `EpisodeUnbroken` (LerobotIpc): a step that is sent again to a new runtime resets the robot, while the environment goes
  on counting the old episode.
- `ResubmitsIdle` (EvalRun), what the monitor's docstring says (monitor_split_eval.py:4-6): a requeued monitor registers the arrays of its
  command line as the latest jobs over a repair job that runs (monitor_split_eval.py:224; the repair job makes it two faults), and an unanswered squeue
  counts as a job that is gone (:46, `check=False`). Both give a lane a second job; then one may write over the metrics a marker refers to, and every summary raises.
- An invalid metrics.json is never overwritten (eval.py:415) while the monitor goes on submitting the lane: this is `Blocked`.
- summary.json can stay a stale partial one when two physical lanes end together (eval.py:1350-1352 speaks of the lanes of one job only); not modelled.
- A frozen recovery plan that leaves items out ends with a failing summary, since the monitor counts the items of the plan only; not modelled.
- With auto_reset and a first rollout in which no episode ends, the SAC workers sample from an empty pool and raise
  (replay_pool.py:124): seen in the code, not modelled.

## 14. Proofs

TLAPS checks, for every value of the constants that satisfies the named assumptions:

*Collection window* (from `SpecAssumption`, `CollectorAssumption`). `IInv` is inductive: types; whoever rolls out a candidate took it when
its round was ready (`Working`); at most one lease file carries a token and none carries a revoked one (`LeaseTokens`); at
most one process carries a token (`ProcTokens`); one verdict per candidate; the round barrier. The barrier alone is not inductive:
a commit happens long after the claim, so the invariant must remember that the candidate's round was ready, and that this stays true.
Uniqueness of tokens on both sides is what turns "the lease file carries my token" into exclusion. From it: `TypeCorrect`,
`ClaimsExclude` (OneClaimant), `RoundsInOrder` (RoundBarrier), `StaleNeverPublishes` (RevokedNeverPublishes, an action property).
`SelectionIsSound` (SelectionSound) is inductive beside `IInv`: when CLOSED.json is written it tells the truth, which takes the arithmetic of the
lowest `target` accepted candidates (`Lowest`, `ClosingRecordSound`), and no later step takes a verdict away. `WindowImplementsContract`
maps every step to one of `WindowContract`: a commit, a skip and a closing to its `Decide` or `Close`, all others to a stutter.

*Candidate loop* (from `CandidateAssumption`). `IInv` joins the four safety properties with what they need of one another: where the process is
(`Process`), that record, attempt and position in the batch count the same (`Numbering`), that a directory of this run is older than
the group at hand (`Directories`), that schedule, cursor and prefetched reset are on wave borders (`Environments`), and that every case
seen is behind the environments and behind the resume state, which is why a restart does not repeat it (`Frontier`). None of the four
is inductive alone: `CasesOnce` rests on the schedule, the schedule on what a restart reads, and that on `Numbering`. From it: `WindowIsKept`,
`CasesAreUsedOnce`, `ScheduleStaysInStep`, `RunIsResumable`; `TrainingIsRepeatable` (RetrainsSame) for the default, in which the optional refill
is off: `Redrawn` says that the records already suffice once an update was drawn from them.

*Update chain* (from `ChainAssumption`; generations of checkpoints are unbounded). `IInv`: one submission and one transaction at a time
for a window (`SubmitLock`, `Transaction`), windows launched in order (`LaunchedOnly`, `InOrder`), and a job in the transaction holds what
its window was collected with (`FromParent`). `OnPolicy` needs all of it: a checkpoint is written in place, so the one before must have no job left that
may write. From it: `ReceiptsAreDurable`, `UpdatesAreOnPolicy`. `CancelledJobsAreReplaced` (FallbackFollows) adds `Alternation` and the hypothesis
that the budget of attempts is even, as the default of 12 is; with an odd one it fails (section 13).

*Executor* (from `ExecutorAssumption`). `ExecInv` is inductive: types, the four state properties, and what they rest on: during an
exchange the target is the plan's origin plus the interval; an exchange in time has not been passed by the thread; a failed thread has stopped
and left the executor paused; a reset has emptied the queue before it waits. `Aligned` needs `Covered`'s arithmetic for the
tick in progress and both need the shape of an exchange. From it: one theorem per property, and `OldPlansAreDropped` for the action property.

*Environment* (from both modules' assumptions). `EnvImplementsExecutor`: every step of `AsyncEnv` is a step of `ActionExecutor` or leaves it alone, so
the composition uses the executor by its rules and `ExecInv` holds in it. `EnvInv` adds the ledger of episodes: the ended environments are the
flagged ones, up to what the running step has not yet flagged and the running snapshot has not yet cleared; in time the two
never overlap. From it `InTimeIsConsistent`.

*Recorder* (from `AsyncRecorderAssumption`; its proofs stand beside those of BaseEnv, whose calls it records). `RInv` says that the caller is ahead of the
recorders by exactly the commands under way: unless a recording has failed, the commands in the queue and those the call still has to
give, applied one after another, lead (`Leads`) from what the worker holds now to what the caller has made: the running episodes pending, the
ended ones saved, the rest given away (`Converges`). Neither property is inductive without it, because the episode a pop must
return may still be in the queue when the pop is called. Every kind of call keeps it by a lemma about its commands (`ClearsLead`,
`SavesLead`, `StepLeads`), the worker's step by taking the first command off the sequence. Besides: a synchronous call is
the last command given and has at most one answer (`Waiting`, `Giving`, `Barrier`), and every name of a video is below its counter
(`VideosCounted`). The calls give their commands environment by environment, so the lemmas need an induction over sets of environments; it is made with the
minimum of a well-founded order, which takes no operator as a parameter. From `RInv`: `PopIsExact`, `FlushIsDurable`, `VideosAreKept`.

*Simulator processes* (from `EnvManagerAssumption`). `IInv` says, for each stage by itself: which phases of the stage belong to which call
of the worker; that exactly one command is under way while the parent waits for one (in the command queue, in a healthy or broken child's hands, or as
one answer), and none otherwise; and that the cursors in the child and in the snapshot are the served ones, or, once the reset has been
served, one wave further in the mode of the call. `SameWave` needs all three: a late answer would pass for an early one, and a restart that
forgot or kept too much would shift the cursors. A step of a stage leaves the others alone, which one lemma says for all actions.
From it: `AnswersAreOwn`, `ResetsInStep`.

*Rollouts* (from `RolloutAssumption`). `IInv`: at most one rollout is started and not taken, and it is in one place (`Exclusive`, `Ledger`); the
versions of what is in flight lie between the last call's and the served one (`Versions`); whatever starts next starts from the observation and the
carry of the simulators as they are (`StartsRight`); and, per lane, with auto_reset one sequence of steps runs from the trainer's buffer over the
batch, the kept or finished result and the run in progress to the simulator (`Stream`), without it each rollout is one episode from its first
step (`Single`). `WholeEpisodes` is about the first part of that sequence only, but its steps come from the simulator through all the
others, so each joint needs its own link. Sequences are joined by `Joined`, cut by `RemainderStream` (the buffer after `ingest`), and
counted by `CarryIsStep` and `LengthIsStep` (the carry and the length of a record). The type invariant bounds the buffer by the horizon, which
follows only from the sequence. From it: `BatchesAreRecent`, `BatchesComeInOrder`, `ObservationsAreCurrent`, `EpisodesStayWhole`, `RecordLengthsAreTrue`.

*Broker* (from `BrokerAssumption`). `IInv`: a request is in the child's pipe, in the batch or answered, once (`Transit`); the pipes hold
nothing but answers until the parent stops (`Stopped`); a child that has sent its result has ended without a lease (`Returned`). The batch
outlives the children in it, so `OwnAnswer` needs the request's number wherever it is. From it: `AnswersAreOwn`, `ReturnsAreComplete`.

*LeRobot calls* (from `LerobotAssumption`). `IInv`: the pending call is the latest (`Pending`); a request in the pipe, a job in the runtime
and a reply in the pipe exclude one another and belong to the pending call, or to a killed environment's while its successor has no
episode yet (`Transit`); what will be executed next was executed by earlier runtimes only, and what is sent later is larger (`Order`); the robot's
episode is the environment's unless a reset is on its way or the runtime is new (`Episodes`). `RobotInOrder` is not inductive without
`Order`, nor `OwnReply` without `Transit` and `Episodes`. From it: `RepliesAreOwn`, `RobotFollowsCalls`.

*Evaluation* (from `EvalAssumption`; its proofs stand beside those of the other Slurm jobs). `EvalInv`: a process that has items in its hands
is an evaluator and has them from the unit of one of its turns (`Owning`); jobs are numbered one after another (`Numbered`); the monitor summarizes
only when nothing is missing (`Watching`); and, as long as it is neither restarted nor misinformed, one job of a lane is in the queue, the
latest the monitor knows or the one it is about to record (`LaneJobs`), what a process holds is not marked, and what it is about to mark is valid
(`Unmarked`, `MarkedValid`). `ItemsOnce` joins two exclusions that are computed apart: within a lane and between lanes the units of two
processes never meet, which is the uniqueness of `lane * evaluators + process + turn * logical lanes` (`DigitsDetermined`, `TurnsDetermined`), and
between two jobs of one lane it is the monitor's, which acts on an old scan but looks at the job itself before it submits (`OneJobPerLane`). `CompletedValid`
rests on `ItemsOnce`: nobody writes metrics for an item another process may mark. From it: `ItemsAreEvaluatedOnce`, `CompletedStaysValid`.

Only model-checked: liveness (`WindowCloses`, `CallsReturn`, `CallReturns`, `RunCompletes`, `ChainEnds`, `FitEnds`, `CollectorEnds`, `LanesFinish`),
which is out of this prover's reach. The named assumptions ask of the constants what the code's own checks or
types give (positive sizes, finite sets, a batch no larger than a wave); bounds that only keep TLC's instances small are any natural numbers.

## 15. Not modelled

Most lines of the repository are neural networks, training engines, losses, simulator adapters, launch scripts and
command-line or configuration code: numerical or sequential, with no interleaving, failure or order for a model checker to
explore, and tested as functions. The models cover the parts that keep state across processes, threads and restarts.
PROJECT.json lists every component with the reason. Left out within those parts: tensors, metrics, wording and logging;
filesystem weaknesses below POSIX (a flock that does not exclude on some network filesystem, a rename that is not atomic, torn appends);
Slurm beyond "a preempted job is eventually restarted"; and what the notes of PROJECT.json's components name.
The replay pool, the observation store and the operations of section 2 could be modelled and are not yet.
