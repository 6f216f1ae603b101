---------------------------- MODULE CandidateLoop ----------------------------
(***************************************************************************)
(* The candidate loop of the GRFPO trainer (_fit_group_relative) with      *)
(* durable candidates (candidate_spool_dir, candidate_resume_state_path):  *)
(* a window of candidate groups per optimizer update, collected in batches *)
(* of pipeline stages, resumed from disk after a preemption at any point;  *)
(* and the RoboDojo train cursor and prefetched reset of TrainCluster,     *)
(* which must stay in step with the candidate schedule.                    *)
(*                                                                         *)
(* A process step is the code between two writes to disk; Crash strikes    *)
(* between any two.  A case is the absolute number of a schedule slot: its *)
(* layout is that of the slot, its policy seeds are its own.  Not          *)
(* modelled: collection_only, groups of several physical waves, evidence   *)
(* that is never read again, metrics.                                      *)
(* Bounds: MaxCrashes preemptions, MaxDull uninformative groups.           *)
(***************************************************************************)
EXTENDS Integers, FiniteSets

CONSTANTS
  TotalSteps,       \* total_training_steps
  TestFreq,         \* test_freq
  Target,           \* accepted_groups_per_update
  MinPartial,       \* min_accepted_groups_for_partial_update
  MaxCandidates,    \* max_candidate_groups_per_update
  Initial,          \* initial_candidate_groups_per_update
  Threshold,        \* accepted_groups_before_optional_refill
  Concurrency,      \* concurrent_candidate_groups
  StageNum,         \* pipeline_stage_num
  GroupsPerStage,   \* _candidate_groups_per_stage
  Layouts,          \* length of train_layout_schedule (distinct layouts)
  MaxCrashes, MaxDull

Wave == StageNum * GroupsPerStage       \* groups reset together

ASSUME CandidateAssumption ==
  /\ TotalSteps \in Nat /\ TestFreq \in Nat /\ Initial \in Nat /\ Threshold \in 0..Target
  /\ Target \in Nat \ {0} /\ MinPartial \in 1..Target
  /\ MaxCandidates \in Nat /\ MaxCandidates >= Target /\ Initial <= MaxCandidates
  /\ StageNum \in Nat \ {0} /\ GroupsPerStage \in Nat \ {0}
  /\ Concurrency \in 1..Target /\ Concurrency <= Wave
  /\ Layouts \in Nat \ {0}
  /\ MaxCrashes \in Nat /\ MaxDull \in Nat

VARIABLES
  (* on disk *)
  checkpoint,       \* step of the latest actor checkpoint (save_freq = 1)
  evidence,         \* candidate_group records of windows not yet closed
  recorded,         \* the evidence file holds some candidate_group record
  spool,            \* committed candidate directories
  resume,           \* the resume-state file
  (* in the process *)
  pc, step,         \* where the process is, global_steps
  theta,            \* global_steps when the window began
  slot, attempt,    \* candidate_schedule_slot, candidate_attempt
  accepted,         \* groups selected for training
  batch, index,     \* the collected batch and the group being handled
  informative,      \* that group is selected_for_training
  (* in the environment workers and TrainCluster *)
  cursor,           \* next train wave a reset starts
  prefetch,         \* wave of the reset dispatched ahead (rollout_state)
  (* history *)
  run, crashes, dull,
  unsynced,         \* in this process an evaluation found no prefetched reset
  replayed,         \* a crash hit between the evidence and the resume state
  used,             \* cases the checkpoint was trained on
  drawn             \* groups of the last training attempt, and its theta

disk == <<checkpoint, evidence, recorded, spool, resume>>
window == <<theta, slot, attempt, accepted>>
group == <<batch, index, informative>>
env == <<cursor, prefetch>>
history == <<run, crashes, dull, unsynced, replayed, used, drawn>>
vars == <<disk, pc, step, window, group, env, history>>

None == -1
NoBatch == [base |-> 0, size |-> 0]
NoResume == [theta |-> None, slot |-> 0]
Groups == [theta : Nat, attempt : Nat, case : Nat, selected : BOOLEAN, run : Nat]
\* The directory of a group: its window, attempt and group id (which names the run).
Dir(g) == [theta |-> g.theta, attempt |-> g.attempt, run |-> g.run]
Dirs == [theta : Nat, attempt : Nat, run : Nat]
Min2(a, b) == IF a <= b THEN a ELSE b
Max2(a, b) == IF a >= b THEN a ELSE b

Running == {"open", "collect", "group", "persist", "append", "decide", "save", "close",
            "clean", "mark", "eval"}
Stopped == {"down", "refused", "done"}

TypeOK ==
  /\ checkpoint \in 0..TotalSteps /\ step \in 0..TotalSteps /\ theta \in 0..TotalSteps
  /\ evidence \subseteq Groups /\ accepted \subseteq evidence
  /\ spool \subseteq Dirs /\ recorded \in BOOLEAN
  /\ resume \in [theta : Nat \cup {None}, slot : Nat]
  /\ pc \in Running \cup Stopped
  /\ slot \in Nat /\ attempt \in Nat
  /\ batch \in [base : Nat, size : Nat] /\ index \in 0..batch.size
  /\ informative \in BOOLEAN
  /\ cursor \in Nat /\ prefetch \in Nat \cup {None}
  /\ run \in Nat /\ crashes \in 0..MaxCrashes /\ dull \in 0..MaxDull
  /\ unsynced \in BOOLEAN /\ replayed \in BOOLEAN
  /\ used \subseteq Nat
  /\ drawn.theta \in Nat \cup {None} /\ drawn.groups \subseteq Groups

Init ==
  /\ checkpoint = 0 /\ evidence = {} /\ recorded = FALSE /\ spool = {} /\ resume = NoResume
  /\ pc = "down" /\ step = 0 /\ theta = 0 /\ slot = 0 /\ attempt = 1 /\ accepted = {}
  /\ batch = NoBatch /\ index = 0 /\ informative = FALSE
  /\ cursor = 0 /\ prefetch = None
  /\ run = 0 /\ crashes = 0 /\ dull = 0 /\ unsynced = FALSE /\ replayed = FALSE
  /\ used = {} /\ drawn = [theta |-> None, groups |-> {}]

-----------------------------------------------------------------------------
(* Launch and resume *)

\* A state of a later policy, or evidence without a state.
ResumeRefused == resume.theta > checkpoint \/ (recorded /\ resume = NoResume)

\* fit loads the checkpoint; whoever launches the job restores the train cursor from
\* the resume state (the trainer compares the two and raises if they differ).
Launch ==
  /\ pc = "down"
  /\ run' = run + 1 /\ step' = checkpoint
  /\ slot' = resume.slot /\ cursor' = resume.slot \div Wave /\ prefetch' = None
  /\ pc' = IF ResumeRefused THEN "refused" ELSE "open"
  /\ unsynced' = FALSE
  /\ theta' = checkpoint /\ attempt' = 1 /\ accepted' = {} /\ batch' = NoBatch /\ index' = 0
  /\ informative' = FALSE
  /\ UNCHANGED <<disk, crashes, dull, replayed, used, drawn>>

\* _resume_candidate_records
Resumed == {g \in evidence : g.theta = step}
LastAttempt(S) ==
  IF S = {} THEN 0 ELSE CHOOSE a \in {g.attempt : g \in S} : \A g \in S : g.attempt <= a

\* _load_spooled_candidate
Loadable(g) == Dir(g) \in spool

\* Mutant: the attempts of the resumed records are not continued.
OpenFromOne ==
  /\ pc = "open" /\ step < TotalSteps
  /\ theta' = step /\ attempt' = 1
  /\ accepted' = {g \in Resumed : g.selected}
  /\ pc' = IF \A g \in accepted' : Loadable(g) THEN "collect" ELSE "refused"
  /\ UNCHANGED <<disk, step, slot, group, env, history>>

\* Mutant: the selected groups of the resumed records are forgotten.
OpenEmpty ==
  /\ pc = "open" /\ step < TotalSteps
  /\ theta' = step /\ attempt' = LastAttempt(Resumed) + 1
  /\ accepted' = {}
  /\ pc' = "collect"
  /\ UNCHANGED <<disk, step, slot, group, env, history>>

\* A window begins with whatever records of this policy are still open; a selected
\* group that cannot be loaded is an error.
Open ==
  /\ pc = "open" /\ step < TotalSteps
  /\ theta' = step /\ attempt' = LastAttempt(Resumed) + 1
  /\ accepted' = {g \in Resumed : g.selected}
  /\ pc' = IF \A g \in accepted' : Loadable(g) THEN "collect" ELSE "refused"
  /\ UNCHANGED <<disk, step, slot, group, env, history>>

Finish ==
  /\ pc = "open" /\ step = TotalSteps
  /\ pc' = "done"
  /\ UNCHANGED <<disk, step, window, group, env, history>>

-----------------------------------------------------------------------------
(* Collection *)

\* _quantized_candidate_batch_size: whole pipeline stages only.
BatchSize(next, selected) ==
  LET budget == MaxCandidates - next + 1
      open == Target - selected
      bound == Min2(Concurrency, budget)
  IN IF GroupsPerStage = 1 THEN Min2(bound, open)
     ELSE IF bound < GroupsPerStage THEN 0
     ELSE (Min2(bound, Max2(open, GroupsPerStage)) \div GroupsPerStage) * GroupsPerStage

Enough(next, selected) == next > MaxCandidates \/ selected >= Target

\* No further batch with this number of groups decided and selected.
Stops(next, selected) == Enough(next, selected) \/ BatchSize(next, selected) = 0

\* _rollout_once: roll out the prefetched wave (or reset one) and dispatch the next.
NextWave == IF prefetch = None THEN cursor ELSE prefetch
RolloutOnce ==
  LET next == IF prefetch = None THEN cursor + 1 ELSE cursor
  IN prefetch' = next /\ cursor' = next + 1

Collect ==
  /\ pc = "collect" /\ ~Stops(attempt, Cardinality(accepted))
  /\ batch' = [base |-> NextWave * Wave, size |-> BatchSize(attempt, Cardinality(accepted))]
  /\ RolloutOnce
  /\ index' = 0 /\ pc' = "group"
  /\ UNCHANGED <<disk, step, window, informative, history>>

StopCollecting ==
  /\ pc = "collect" /\ Stops(attempt, Cardinality(accepted))
  /\ pc' = "decide"
  /\ UNCHANGED <<disk, step, window, group, env, history>>

Diverged == (batch.base + index) % Layouts # (slot + index) % Layouts

\* "Candidate condition schedule diverged": the exception ends the process.
Diverge ==
  /\ pc = "group" /\ index < batch.size /\ Diverged
  /\ pc' = "down"
  /\ UNCHANGED <<disk, step, window, group, env, history>>

\* Mutant: the evidence comes before the spool.
TakeGroupAppendFirst(outcome) ==
  /\ pc = "group" /\ index < batch.size /\ ~Diverged
  /\ outcome \/ dull < MaxDull
  /\ dull' = IF outcome THEN dull ELSE dull + 1
  /\ informative' = (outcome /\ Cardinality(accepted) < Target)
  /\ pc' = "append"
  /\ UNCHANGED <<disk, step, window, batch, index, env, run, crashes, unsynced, replayed, used,
                 drawn>>

\* The next group of the batch is informative or not.
TakeGroup(outcome) ==
  /\ pc = "group" /\ index < batch.size /\ ~Diverged
  /\ outcome \/ dull < MaxDull
  /\ dull' = IF outcome THEN dull ELSE dull + 1
  /\ informative' = (outcome /\ Cardinality(accepted) < Target)
  /\ pc' = IF informative' THEN "persist" ELSE "append"
  /\ UNCHANGED <<disk, step, window, batch, index, env, run, crashes, unsynced, replayed, used,
                 drawn>>

Group == [theta |-> theta, attempt |-> attempt + index, case |-> batch.base + index,
          selected |-> informative, run |-> run]

\* _persist_accepted_candidate: the directory appears atomically.
Persist ==
  /\ pc = "persist"
  /\ spool' = spool \cup {Dir(Group)} /\ pc' = "append"
  /\ UNCHANGED <<checkpoint, evidence, recorded, resume, step, window, group, env, history>>

\* The candidate_group record of the group.
AppendEvidence(g) == evidence' = evidence \cup {g} /\ recorded' = TRUE

AppendGroup ==
  /\ pc = "append"
  /\ AppendEvidence(Group)
  /\ accepted' = IF informative THEN accepted \cup {Group} ELSE accepted
  /\ index' = index + 1 /\ pc' = "group"
  /\ UNCHANGED <<checkpoint, spool, resume, step, theta, slot, attempt, batch, informative, env,
                 history>>

\* _optional_refill_is_unnecessary
RefillUnnecessary ==
  /\ Initial > 0 /\ Threshold > 0
  /\ Cardinality(Resumed) >= Initial /\ Cardinality(accepted) >= Threshold

\* _write_candidate_resume_state: replaced atomically.
WriteResume(schedule) == resume' = [theta |-> step, slot |-> schedule]

\* Mutant: the state names the slot of the batch, not the one after it.
WriteStateEarly ==
  /\ pc = "group" /\ index = batch.size
  /\ slot' = slot + Wave /\ attempt' = attempt + batch.size
  /\ WriteResume(slot)
  /\ pc' = IF RefillUnnecessary THEN "decide" ELSE "collect"
  /\ batch' = NoBatch /\ index' = 0 /\ informative' = FALSE
  /\ UNCHANGED <<checkpoint, evidence, recorded, spool, step, theta, accepted, env, history>>

\* The batch is handled: advance the schedule by a whole wave, write the state,
\* and look whether the optional refill is needed.
WriteState ==
  /\ pc = "group" /\ index = batch.size
  /\ slot' = slot + Wave /\ attempt' = attempt + batch.size
  /\ WriteResume(slot')
  /\ pc' = IF RefillUnnecessary THEN "decide" ELSE "collect"
  /\ batch' = NoBatch /\ index' = 0 /\ informative' = FALSE
  /\ UNCHANGED <<checkpoint, evidence, recorded, spool, step, theta, accepted, env, history>>

-----------------------------------------------------------------------------
(* Update *)

\* Mutant: the window is not closed.
InsufficientLeavesOpen ==
  /\ pc = "decide" /\ Cardinality(accepted) < MinPartial
  /\ pc' = "open"
  /\ UNCHANGED <<disk, step, window, group, env, history>>

\* Too few groups: the window is closed without an update.
Insufficient ==
  /\ pc = "decide" /\ Cardinality(accepted) < MinPartial
  /\ pc' = "close"
  /\ UNCHANGED <<disk, step, window, group, env, history>>

Train ==
  /\ pc = "decide" /\ Cardinality(accepted) >= MinPartial
  /\ drawn' = [theta |-> step, groups |-> accepted]
  /\ pc' = "save"
  /\ UNCHANGED <<disk, step, window, group, env, run, crashes, dull, unsynced, replayed, used>>

Save ==
  /\ pc = "save"
  /\ step' = step + 1 /\ checkpoint' = step + 1
  /\ used' = used \cup {g.case : g \in accepted}
  /\ pc' = "close"
  /\ UNCHANGED <<evidence, recorded, spool, resume, window, group, env, run, crashes, dull,
                 unsynced, replayed, drawn>>

\* collection_window_closed: the records of the window are never resumed again.
Close ==
  /\ pc = "close"
  /\ evidence' = {g \in evidence : g.theta # theta} /\ accepted' = {}
  /\ pc' = "clean"
  /\ UNCHANGED <<checkpoint, recorded, spool, resume, step, theta, slot, attempt, group, env,
                 history>>

Clean ==
  /\ pc = "clean"
  /\ spool' = {d \in spool : d.theta # theta}
  /\ pc' = "mark"
  /\ UNCHANGED <<checkpoint, evidence, recorded, resume, step, window, group, env, history>>

EvalDue == TestFreq > 0 /\ (step = TotalSteps \/ step % TestFreq = 0)

Mark ==
  /\ pc = "mark"
  /\ WriteResume(slot)
  /\ pc' = IF step # theta /\ EvalDue THEN "eval" ELSE "open"
  /\ UNCHANGED <<checkpoint, evidence, recorded, spool, step, window, group, env, history>>

\* TrainCluster.eval ends with a fresh training reset in the place of the prefetched.
ClusterEval == prefetch' = cursor /\ cursor' = cursor + 1

\* Mutant: the schedule does not skip the wave that the evaluation discarded.
EvalKeepsSlot ==
  /\ pc = "eval"
  /\ unsynced' = (unsynced \/ prefetch = None)
  /\ ClusterEval
  /\ pc' = "open"
  /\ UNCHANGED <<disk, step, window, group, run, crashes, dull, replayed, used, drawn>>

\* The trainer skips the wave whose reset the evaluation replaced.
Eval ==
  /\ pc = "eval"
  /\ slot' = slot + Wave
  /\ unsynced' = (unsynced \/ prefetch = None)
  /\ ClusterEval
  /\ pc' = "open"
  /\ UNCHANGED <<disk, step, theta, attempt, accepted, group, run, crashes, dull, replayed, used,
                 drawn>>

-----------------------------------------------------------------------------
\* The job is preempted; only the disk survives.
Crash ==
  /\ pc \in Running /\ crashes < MaxCrashes
  /\ crashes' = crashes + 1 /\ pc' = "down"
  /\ replayed' = (replayed \/ (batch # NoBatch /\ index > 0))
  /\ UNCHANGED <<disk, step, window, group, env, run, dull, unsynced, used, drawn>>

Terminated == pc \in {"refused", "done"} /\ UNCHANGED vars

Progress ==
  \/ Launch \/ Open \/ Finish
  \/ Collect \/ StopCollecting \/ Diverge
  \/ \E outcome \in BOOLEAN : TakeGroup(outcome)
  \/ Persist \/ AppendGroup \/ WriteState
  \/ Insufficient \/ Train \/ Save \/ Close \/ Clean \/ Mark \/ Eval

Next == Progress \/ Crash \/ Terminated

Spec == Init /\ [][Next]_vars

\* The launcher restarts a preempted job and the job is scheduled.
FairSpec == Spec /\ WF_vars(Progress)

-----------------------------------------------------------------------------
(* Properties *)

\* Through any number of preemptions the open window is numbered without gaps or
\* repetitions, stays within the candidate budget and selects no more than the
\* target; what the process has accepted is exactly what a restart would load.
\* (The types are part of the invariant.)
WindowKept ==
  LET open == {g \in evidence : g.theta = checkpoint} IN
  /\ TypeOK
  /\ {g.attempt : g \in open} = 1..Cardinality(open) /\ Cardinality(open) <= MaxCandidates
  /\ Cardinality({g \in open : g.selected}) <= Target
  /\ \A g \in open : g.selected => Loadable(g)
  /\ pc \in {"collect", "group", "persist", "append", "decide", "save"} =>
       theta = checkpoint /\ accepted = {g \in open : g.selected}

\* No case is trained on twice, within an update or in two of them, unless a
\* preemption hit between the evidence and the resume state of a batch.
CasesOnce ==
  ~replayed => \A g \in evidence : g.theta = checkpoint =>
                 /\ g.case \notin used
                 /\ \A h \in evidence : h.theta = checkpoint /\ h.case = g.case => h = g

\* The environments roll out the cases the schedule expects ("the next assertion
\* compares against the fresh post-eval reset"), after a resume as well, unless
\* an evaluation found no prefetched reset to discard.
ScheduleInStep ==
  batch # NoBatch /\ pc # "down" /\ ~unsynced => batch.base = slot

\* A preempted run can be resumed: the state is there, every selected group loads
\* and no directory is in the way, unless the very first batch was cut off.
Resumable ==
  /\ pc = "refused" => replayed /\ resume = NoResume
  /\ pc = "persist" => Dir(Group) \notin spool

\* A training step cut off by a preemption is repeated on the same groups.
RetrainsSame ==
  [][Train /\ drawn.theta = step => drawn'.groups = drawn.groups]_vars

\* With finitely many preemptions and uninformative groups the run completes.
RunCompletes == <>(pc \in {"refused", "done"})

-----------------------------------------------------------------------------
(* The inductive invariant behind the safety properties. *)

InBatch == {"group", "persist", "append"}
InWindow == InBatch \cup {"collect", "decide", "save"}
Closing == {"close", "clean", "mark", "eval"}
Records == {g \in evidence : g.theta = checkpoint}      \* of the open window
Picked == {g \in Records : g.selected}

\* Where the process is and what it holds there.
Process ==
  /\ step = checkpoint
  /\ pc \in InWindow => theta = step /\ step < TotalSteps
  /\ pc \in Closing => theta <= step
  /\ pc \in InBatch => batch.size \in 1..Wave /\ attempt + batch.size <= MaxCandidates + 1
  /\ pc \notin InBatch \cup {"down"} => batch = NoBatch
  /\ pc \in {"persist", "append"} =>
       index < batch.size /\ (informative => Cardinality(accepted) < Target)
  /\ pc = "persist" => informative

\* The next record has the next number; a closed window has no records.
Numbering ==
  /\ IsFiniteSet(evidence) /\ \A g \in evidence : g.theta <= checkpoint
  /\ pc \in InWindow => attempt + index = Cardinality(Records) + 1
  /\ pc = "clean" => \A g \in evidence : g.theta # theta

\* The directories of this process are those of the groups it has taken in this window.
Directories ==
  /\ \A d \in spool : /\ d.theta <= checkpoint /\ d.run <= run
                      /\ pc \in Closing => d.theta <= theta
  /\ pc \in {"open", "mark", "eval"} => \A d \in spool : d.theta = step => d.run < run
  /\ pc \in InWindow => \A d \in spool : d.theta = step /\ d.run = run =>
       d.attempt < attempt + index \/ (pc = "append" /\ d.attempt = attempt + index)
  /\ pc = "append" /\ informative => Dir(Group) \in spool

\* The wave the environments are at is never ahead of the schedule.
Whole(n) == \E k \in 0..n : n = k * Wave

Environments ==
  /\ Whole(slot) /\ Whole(resume.slot)
  /\ pc \in Running => prefetch = None \/ cursor = prefetch + 1
  /\ pc \in Running \ InBatch =>
       NextWave * Wave <= slot /\ (~unsynced => NextWave * Wave = slot)
  /\ pc \in InBatch => /\ NextWave * Wave = batch.base + Wave
                       /\ batch.base <= slot /\ (~unsynced => batch.base = slot)
  /\ pc \in {"persist", "append"} \/ (pc = "group" /\ index > 0) => ~Diverged

\* Every case on record or used is behind the environments, and behind the resume state
\* as well unless the process is in the middle of a batch.
Seen == {g.case : g \in Records} \cup used

Frontier ==
  ~replayed =>
    /\ pc \in Running \ InBatch => \A c \in Seen : c < NextWave * Wave
    /\ pc \in InBatch => \A c \in Seen : c < batch.base + index
    /\ pc \notin InBatch \/ index = 0 => \A c \in Seen : c < resume.slot

\* The resume state is never of a later policy, and missing only before the first batch ends.
ResumeState ==
  /\ resume.theta <= checkpoint
  /\ recorded /\ resume = NoResume => replayed \/ (pc \in InBatch /\ index > 0)

\* What TLAPS proves inductive.
IInv == WindowKept /\ Process /\ Numbering /\ Directories /\ Environments /\ Frontier
        /\ ResumeState /\ CasesOnce /\ ScheduleInStep /\ Resumable

\* After a training attempt at this policy the window stays as it was drawn (without the
\* optional refill).
Redrawn ==
  /\ pc \in {"decide", "save"} => Stops(attempt, Cardinality(accepted))
  /\ drawn.theta <= checkpoint
  /\ drawn.theta = checkpoint =>
       /\ drawn.groups = Picked /\ Cardinality(Picked) >= MinPartial
       /\ Stops(Cardinality(Records) + 1, Cardinality(Picked))
       /\ pc \notin InBatch \cup Closing
=============================================================================
