------------------------------- MODULE EvalRun -------------------------------
(***************************************************************************)
(* A fixed-topology evaluation: scripts/eval/mainline/eval.py expands a    *)
(* spec into work items and evaluates them in Slurm jobs, one per physical *)
(* lane; monitor_split_eval.py watches the completion markers and submits  *)
(* a lane again whose job has left the queue.  Jobs, their processes and   *)
(* the monitor share nothing but files and may die between any two steps.  *)
(*                                                                         *)
(* Two topologies exclude each other: packed (several evaluator processes  *)
(* per job, each with every so many-th item, under a parent that stops     *)
(* them all when one fails) and coalesced (one process per job that        *)
(* evaluates bundles of items of one group in one vector of simulators).   *)
(*                                                                         *)
(* Abstractions: a metrics file is valid or invalid (validate_metrics);    *)
(* its cases and the videos are left out, and so are summary.json and its  *)
(* figures, which every process rewrites and none reads; Slurm starts,     *)
(* kills and requeues jobs on its own; markers only appear, so reading     *)
(* several of them is one step.                                            *)
(* Bounds: MaxSubmissions (jobs) and MaxEvalFaults (evaluators that fail   *)
(* or give an invalid result, jobs killed or requeued, refused             *)
(* submissions, restarts of the monitor, unanswered squeue calls).         *)
(***************************************************************************)
EXTENDS Naturals, SequencesExt

CONSTANTS
  NumItems,          \* work items of RUN_MANIFEST.json, in their order
  GroupOf,           \* policy, task, suite and repeat of each item
  Topologies,        \* [lanes, evaluators, items]: physical lanes, evaluators
                     \* per job, items per coalesced evaluator
  AttemptsPerItem,   \* attempts_per_item
  MaxSubmissions, MaxEvalFaults

Items == 0..(NumItems - 1)
JobIds == 1..MaxSubmissions
Attempts == 1..AttemptsPerItem

ASSUME EvalAssumption ==
  /\ NumItems \in Nat \ {0} /\ AttemptsPerItem \in Nat \ {0}
  /\ GroupOf \in [Items -> Nat]
  /\ Topologies \subseteq [lanes : Nat \ {0}, evaluators : Nat \ {0}, items : Nat \ {0}]
  /\ \A t \in Topologies : t.evaluators = 1 \/ t.items = 1
  /\ \A t \in Topologies : t.lanes <= MaxSubmissions
  /\ MaxSubmissions \in Nat /\ MaxEvalFaults \in Nat

VARIABLES
  topology,          \* the topology of this launch
  metrics, marker,   \* per item: metrics.json of each attempt; the attempt
                     \* COMPLETE.json names, 0 without it
  combined,          \* metrics files of coalesced bundles
  finished,          \* EVAL_COMPLETE.json exists
  jobState, jobLane, \* the Slurm queue
  proc,              \* the processes of each job
  monitor, history,  \* the monitor; lane_jobs of its state file
  jobFaults, monitorFaults

files == <<metrics, marker, combined, finished>>
slurm == <<jobState, jobLane>>
watch == <<monitor, history>>
evalVars == <<topology, files, slurm, proc, watch, jobFaults, monitorFaults>>

-----------------------------------------------------------------------------
(* Which process evaluates what *)

\* coalesced_item_bundles: the items of one group, in order, so many at a time,
\* the groups in the order of their first items.
Rank == [i \in Items |-> Cardinality({k \in Items : k < i /\ GroupOf[k] = GroupOf[i]})]
OpensGroup == [i \in Items |-> Min({k \in Items : GroupOf[k] = GroupOf[i]})]
Precedes(k, i, size) ==
  \/ OpensGroup[k] < OpensGroup[i]
  \/ OpensGroup[k] = OpensGroup[i] /\ Rank[k] \div size < Rank[i] \div size
BundleIndex(i, size) == Cardinality({k \in Items : Rank[k] % size = 0 /\ Precedes(k, i, size)})

\* The unit of an item: what a process takes in one turn of its loop.
UnitIndex == [t \in Topologies |-> [i \in Items |->
  IF t.items > 1 THEN BundleIndex(i, t.items) ELSE i]]
Unit(u) == {i \in Items : UnitIndex[topology][i] = u}
LogicalLanes == topology.lanes * topology.evaluators

\* Mutant: bundles are counted as if they were single items.
LaneOfItem(i) == i % topology.lanes

\* The physical lane that owns an item, as the monitor computes it.
LaneOf(i) == (UnitIndex[topology][i] % LogicalLanes) \div topology.evaluators

\* Processes of a packed job: the evaluators 0, 1, ... and their parent.
Packed == topology.items = 1
Evaluators == 0..(topology.evaluators - 1)
Parent == topology.evaluators
Procs == IF Packed THEN Evaluators \cup {Parent} ELSE Evaluators
MainProc == IF Packed THEN Parent ELSE 0

\* The unit process w of job j takes in its n-th turn (indices from n = 0).
Turn(j, w, n) == jobLane[j] * topology.evaluators + w + n * LogicalLanes

-----------------------------------------------------------------------------
Off == [pc |-> "off", turn |-> 0, items |-> {}, attempt |-> 1, good |-> {}]
AtStart(w) ==
  [Off EXCEPT !.pc = IF Packed /\ w = Parent THEN "wait" ELSE "unit"]

Lanes == 0..(topology.lanes - 1)
ArrayJob(l) == l + 1          \* the array element submitted at launch
NoJobs == [j \in JobIds |-> "none"]

EvalInit ==
  /\ topology \in Topologies
  /\ metrics = [i \in Items |-> [a \in Attempts |-> "none"]]
  /\ marker = [i \in Items |-> 0]
  /\ combined = {} /\ finished = FALSE
  /\ jobState = [j \in JobIds |-> IF j <= topology.lanes THEN "pending" ELSE "none"]
  /\ jobLane = [j \in JobIds |-> IF j <= topology.lanes THEN j - 1 ELSE 0]
  /\ proc = [j \in JobIds |-> [w \in Procs |-> Off]]
  /\ monitor = [pc |-> "scan", missing |-> {}, job |-> 0]
  /\ history = [l \in Lanes |-> <<ArrayJob(l)>>]
  /\ jobFaults = 0 /\ monitorFaults = 0

Marked == {i \in Items : marker[i] # 0}
ReadFails(S) == \E i \in S : marker[i] # 0 /\ metrics[i][marker[i]] # "valid"  \* read_complete raises

Budget == jobFaults + monitorFaults < MaxEvalFaults
JobFault == Budget /\ jobFaults' = jobFaults + 1
MonitorFault == Budget /\ monitorFaults' = monitorFaults + 1

\* Process w of job j, in state s, becomes t.
At(j, w, where) == jobState[j] = "running" /\ proc[j][w].pc = where
Becomes(j, w, t) == proc' = [proc EXCEPT ![j][w] = t]
Goes(j, w, where) == Becomes(j, w, [proc[j][w] EXCEPT !.pc = where])

-----------------------------------------------------------------------------
(* One turn of a process: skip, evaluate one item, or evaluate a bundle *)

\* command_lane and command_coalesced_lane; read_complete of the items.
TakeUnit(j, w) ==
  /\ At(j, w, "unit")
  /\ LET s == proc[j][w]
         mine == Unit(Turn(j, w, s.turn))
         missing == mine \ Marked
     IN  Becomes(j, w,
           [s EXCEPT !.turn = @ + 1, !.items = missing, !.attempt = 1, !.good = {},
              !.pc = IF ReadFails(mine) THEN "failed"
                     ELSE IF missing = {} THEN "collect"
                     ELSE IF Cardinality(missing) = 1 THEN "item" ELSE "eval"])
  /\ UNCHANGED <<topology, files, slurm, watch, jobFaults, monitorFaults>>

Single(s) == Cardinality(s.items) = 1
TheItem(s) == CHOOSE i \in s.items : TRUE
Mark(i, a) == marker' = [marker EXCEPT ![i] = a]

\* The loop head of run_item: results an earlier process left are adopted if
\* they are valid and never overwritten.
TryItem(j, w) ==
  /\ At(j, w, "item")
  /\ LET s == proc[j][w]
         i == TheItem(s)
     IN  \/ s.attempt > AttemptsPerItem /\ Goes(j, w, "failed") /\ UNCHANGED marker
         \/ /\ s.attempt <= AttemptsPerItem
            /\ \/ metrics[i][s.attempt] = "none" /\ Goes(j, w, "eval") /\ UNCHANGED marker
               \/ metrics[i][s.attempt] = "invalid" /\ Goes(j, w, "failed") /\ UNCHANGED marker
               \/ /\ metrics[i][s.attempt] = "valid"
                  /\ Mark(i, s.attempt) /\ Goes(j, w, "collect")
  /\ UNCHANGED <<topology, metrics, combined, finished, slurm, watch, jobFaults, monitorFaults>>

\* The evaluator leaves metrics.json, with valid cases for the items of G.
WriteMetrics(s, G) ==
  IF Single(s)
  THEN /\ metrics' = [metrics EXCEPT ![TheItem(s)][s.attempt] =
                        IF s.items = G THEN "valid" ELSE "invalid"]
       /\ UNCHANGED combined
  ELSE /\ combined' = {c \in combined : c.items # s.items \/ c.attempt # s.attempt}
                        \cup {[items |-> s.items, attempt |-> s.attempt, good |-> G]}
       /\ UNCHANGED metrics

EvaluatorEnds(j, w) ==
  /\ At(j, w, "eval")
  /\ WriteMetrics(proc[j][w], proc[j][w].items)
  /\ Goes(j, w, "check")
  /\ UNCHANGED <<topology, marker, finished, slurm, watch, jobFaults, monitorFaults>>

\* The evaluator crashes without metrics, or some trajectories are incomplete.
EvaluatorFails(j, w) ==
  /\ At(j, w, "eval")
  /\ JobFault
  /\ \/ UNCHANGED <<metrics, combined>>
     \/ \E G \in SUBSET proc[j][w].items :
          G # proc[j][w].items /\ WriteMetrics(proc[j][w], G)
  /\ Goes(j, w, "check")
  /\ UNCHANGED <<topology, marker, finished, slurm, watch, monitorFaults>>

\* Mutant: whatever the evaluator left is marked complete.
CheckItemUnread(j, w) ==
  /\ At(j, w, "check") /\ Single(proc[j][w])
  /\ LET s == proc[j][w]
         i == TheItem(s)
     IN  IF metrics[i][s.attempt] = "none"
         THEN Becomes(j, w, [s EXCEPT !.pc = "item", !.attempt = @ + 1]) /\ UNCHANGED marker
         ELSE Mark(i, s.attempt) /\ Goes(j, w, "collect")
  /\ UNCHANGED <<topology, metrics, combined, finished, slurm, watch, jobFaults, monitorFaults>>

\* run_item after the evaluator: no metrics is a retry, invalid ones raise.
CheckItem(j, w) ==
  /\ At(j, w, "check") /\ Single(proc[j][w])
  /\ LET s == proc[j][w]
         i == TheItem(s)
     IN  \/ /\ metrics[i][s.attempt] = "none"
            /\ Becomes(j, w, [s EXCEPT !.pc = "item", !.attempt = @ + 1])
            /\ UNCHANGED marker
         \/ metrics[i][s.attempt] = "invalid" /\ Goes(j, w, "failed") /\ UNCHANGED marker
         \/ metrics[i][s.attempt] = "valid" /\ Mark(i, s.attempt) /\ Goes(j, w, "collect")
  /\ UNCHANGED <<topology, metrics, combined, finished, slurm, watch, jobFaults, monitorFaults>>

\* run_coalesced_bundle after the evaluator: metrics of this bundle and
\* attempt, an earlier process's included, are split item by item.
CheckBundle(j, w) ==
  /\ At(j, w, "check") /\ ~Single(proc[j][w])
  /\ LET s == proc[j][w]
         found == {c \in combined : c.items = s.items /\ c.attempt = s.attempt}
     IN  IF found = {}
         THEN Becomes(j, w, [s EXCEPT !.attempt = @ + 1,
                              !.pc = IF s.attempt = AttemptsPerItem THEN "failed" ELSE "eval"])
         ELSE Becomes(j, w, [s EXCEPT !.pc = "split", !.good = (CHOOSE c \in found : TRUE).good])
  /\ UNCHANGED <<topology, files, slurm, watch, jobFaults, monitorFaults>>

\* The item's share of the bundle is written over what its attempt had ...
SplitItem(j, w) ==
  /\ At(j, w, "split")
  /\ LET s == proc[j][w]
         i == Min(s.items)
     IN  /\ metrics' = [metrics EXCEPT ![i][s.attempt] = IF i \in s.good THEN "valid" ELSE "invalid"]
         /\ Goes(j, w, IF i \in s.good THEN "adopt" ELSE "failed")
  /\ UNCHANGED <<topology, marker, combined, finished, slurm, watch, jobFaults, monitorFaults>>

\* ... and the item is marked complete.
AdoptItem(j, w) ==
  /\ At(j, w, "adopt")
  /\ LET s == proc[j][w]
         i == Min(s.items)
     IN  /\ Mark(i, s.attempt)
         /\ Becomes(j, w, [s EXCEPT !.items = @ \ {i},
                            !.pc = IF s.items = {i} THEN "collect" ELSE "split"])
  /\ UNCHANGED <<topology, metrics, combined, finished, slurm, watch, jobFaults, monitorFaults>>

-----------------------------------------------------------------------------
(* write_summary, after every turn and before leaving *)

\* The last summary is the parent's, or that of the turn that found no unit.
AfterTurn(j, w) ==
  IF w = Parent \/ Unit(Turn(j, w, proc[j][w].turn - 1)) = {} THEN "exit" ELSE "unit"

\* collect_rows validates the result behind every marker; when none is missing
\* the run is declared complete.
Collect(j, w) ==
  /\ At(j, w, "collect")
  /\ Becomes(j, w, [proc[j][w] EXCEPT !.items = {}, !.good = {}, !.attempt = 1,
       !.pc = IF ReadFails(Items) THEN "failed" ELSE AfterTurn(j, w)])
  /\ finished' = (finished \/ (Marked = Items /\ ~ReadFails(Items)))
  /\ UNCHANGED <<topology, metrics, marker, combined, slurm, watch, jobFaults, monitorFaults>>

\* command_packed_lane: the parent writes a last summary when all have left.
ParentWakes(j) ==
  /\ Packed /\ At(j, Parent, "wait")
  /\ \A w \in Evaluators : proc[j][w].pc = "exit"
  /\ Goes(j, Parent, "collect")
  /\ UNCHANGED <<topology, files, slurm, watch, jobFaults, monitorFaults>>

-----------------------------------------------------------------------------
(* Slurm *)

Leaves(j, where) ==
  /\ jobState' = [jobState EXCEPT ![j] = where]
  /\ proc' = [proc EXCEPT ![j] = [w \in Procs |-> Off]]
  /\ UNCHANGED <<topology, files, jobLane, watch, monitorFaults>>

JobStarts(j) ==
  /\ jobState[j] = "pending"
  /\ jobState' = [jobState EXCEPT ![j] = "running"]
  /\ proc' = [proc EXCEPT ![j] = [w \in Procs |-> AtStart(w)]]
  /\ UNCHANGED <<topology, files, jobLane, watch, jobFaults, monitorFaults>>

\* The job leaves the queue when its main process ends; the first failure of
\* a packed evaluator stops its siblings.
JobEnds(j) ==
  /\ jobState[j] = "running"
  /\ proc[j][MainProc].pc = "exit" \/ \E w \in Procs : proc[j][w].pc = "failed"
  /\ Leaves(j, "gone")
  /\ UNCHANGED jobFaults

\* Preempted and requeued, or killed for good.
JobKilled(j) ==
  /\ jobState[j] = "running"
  /\ JobFault
  /\ \E where \in {"pending", "gone"} : Leaves(j, where)

-----------------------------------------------------------------------------
(* The monitor *)

\* Mutant: a pending job does not count as active.
RunningOnly(j) == jobState[j] = "running"
Active(j) == jobState[j] \in {"pending", "running"}
Latest(l) == Last(history[l])
Moves(t) == monitor' = t

\* missing_physical_lanes looks for the markers only.
Scan ==
  /\ monitor.pc = "scan"
  /\ LET missing == {LaneOf(i) : i \in Items \ Marked} IN
     Moves([monitor EXCEPT !.missing = missing,
              !.pc = IF missing = {} THEN "summarize" ELSE "lanes"])
  /\ UNCHANGED <<topology, files, slurm, proc, history, jobFaults, monitorFaults>>

\* The lane of this step of the loop over the sorted missing lanes; after the
\* last one the monitor sleeps and scans again.
Lane == Min(monitor.missing)
LaneDone ==
  LET rest == monitor.missing \ {Lane} IN
  [pc |-> IF rest = {} THEN "scan" ELSE "lanes", missing |-> rest, job |-> 0]

LaneActive ==
  /\ monitor.pc = "lanes" /\ Active(Latest(Lane))
  /\ Moves(LaneDone)
  /\ UNCHANGED <<topology, files, slurm, proc, history, jobFaults, monitorFaults>>

\* sbatch accepts a new job for the lane.
SubmitPhysicalLane(j) ==
  /\ j = 1 + Cardinality({k \in JobIds : jobState[k] # "none"})
  /\ jobState' = [jobState EXCEPT ![j] = "pending"]
  /\ jobLane' = [jobLane EXCEPT ![j] = Lane]
  /\ Moves([monitor EXCEPT !.pc = "record", !.job = j])
  /\ UNCHANGED <<topology, files, proc, history, jobFaults>>

Resubmit(j) ==
  /\ monitor.pc = "lanes" /\ ~Active(Latest(Lane))
  /\ SubmitPhysicalLane(j)
  /\ UNCHANGED monitorFaults

\* squeue fails: no state is taken for a job that has left the queue.
ResubmitUnanswered(j) ==
  /\ monitor.pc = "lanes" /\ Active(Latest(Lane))
  /\ MonitorFault
  /\ SubmitPhysicalLane(j)

\* lane_resubmit_deferred: both partitions refuse the job.
SubmitRefused ==
  /\ monitor.pc = "lanes" /\ ~Active(Latest(Lane))
  /\ JobFault
  /\ Moves(LaneDone)
  /\ UNCHANGED <<topology, files, slurm, proc, history, monitorFaults>>

RecordJob ==
  /\ monitor.pc = "record"
  /\ history' = [history EXCEPT ![Lane] = Append(@, monitor.job)]
  /\ Moves(LaneDone)
  /\ UNCHANGED <<topology, files, slurm, proc, jobFaults, monitorFaults>>

\* No marker is missing: eval.py summarize, whose failure ends the monitor.
Summarize ==
  /\ monitor.pc = "summarize"
  /\ IF ReadFails(Items) THEN Moves([monitor EXCEPT !.pc = "dead"]) /\ UNCHANGED finished
     ELSE /\ Moves([monitor EXCEPT !.pc = "done"])
          /\ finished' = TRUE
  /\ UNCHANGED <<topology, metrics, marker, combined, slurm, proc, history, jobFaults, monitorFaults>>

\* The monitor's own job is requeued: the same command line registers the
\* arrays of the launch as the latest jobs of their lanes.
MonitorRestarts ==
  /\ monitor.pc \notin {"done", "dead"}
  /\ MonitorFault
  /\ Moves([pc |-> "scan", missing |-> {}, job |-> 0])
  /\ history' = [l \in Lanes |->
       IF Latest(l) = ArrayJob(l) THEN history[l] ELSE Append(history[l], ArrayJob(l))]
  /\ UNCHANGED <<topology, files, slurm, proc, jobFaults>>

-----------------------------------------------------------------------------
ProcStep(j, w) ==
  \/ TakeUnit(j, w) \/ TryItem(j, w) \/ EvaluatorEnds(j, w)
  \/ CheckItem(j, w) \/ CheckBundle(j, w) \/ SplitItem(j, w) \/ AdoptItem(j, w)
  \/ Collect(j, w)

JobStep(j) == JobStarts(j) \/ JobEnds(j) \/ ParentWakes(j) \/ \E w \in Procs : ProcStep(j, w)

MonitorStep == Scan \/ LaneActive \/ (\E j \in JobIds : Resubmit(j)) \/ RecordJob \/ Summarize

EvalNext ==
  \/ \E j \in JobIds : \/ JobStep(j) \/ JobKilled(j) \/ ResubmitUnanswered(j)
                     \/ \E w \in Procs : EvaluatorFails(j, w)
  \/ MonitorStep \/ SubmitRefused \/ MonitorRestarts

EvalSpec == EvalInit /\ [][EvalNext]_evalVars

\* The cluster works on what is queued, whatever it prefers, and the monitor
\* keeps going.  Nothing is assumed of failures.
Fairness == WF_evalVars(\E j \in JobIds : JobStep(j)) /\ WF_evalVars(MonitorStep)

EvalFairSpec == EvalSpec /\ Fairness

-----------------------------------------------------------------------------
(* Properties *)

Places == {"off", "wait", "unit", "item", "eval", "check", "split", "adopt", "collect", "exit",
           "failed"}
ProcStates == [pc : Places, turn : Nat, items : SUBSET Items, attempt : Nat \ {0},
               good : SUBSET Items]

EvalTypeOK ==
  /\ topology \in Topologies
  /\ metrics \in [Items -> [Attempts -> {"none", "valid", "invalid"}]]
  /\ marker \in [Items -> 0..AttemptsPerItem]
  /\ combined \subseteq [items : SUBSET Items, attempt : Attempts, good : SUBSET Items]
  /\ finished \in BOOLEAN
  /\ jobState \in [JobIds -> {"none", "pending", "running", "gone"}]
  /\ jobLane \in [JobIds -> Lanes]
  /\ proc \in [JobIds -> [Procs -> ProcStates]]
  /\ monitor.pc \in {"scan", "lanes", "record", "summarize", "done", "dead"}
  /\ history \in [Lanes -> Seq(JobIds)]
  /\ jobFaults \in Nat /\ monitorFaults \in Nat

Evaluating(j, w) == jobState[j] = "running" /\ proc[j][w].pc \in {"eval", "check", "split", "adopt"}

\* "Each evaluator lane owns work-item indices modulo the global lane count"
\* and "Completed items are durable and are skipped": as long as the monitor
\* is neither restarted nor misinformed, no item is evaluated by two processes
\* at once, nor again after it was marked complete.  (The types are part of
\* the invariant.)
ItemsOnce ==
  /\ EvalTypeOK
  /\ monitorFaults = 0 =>
       \A j, k \in JobIds, w, v \in Procs :
         Evaluating(j, w) =>
           /\ proc[j][w].items \cap Marked = {}
           /\ (Evaluating(k, v) /\ <<j, w>> # <<k, v>>) => proc[j][w].items \cap proc[k][v].items = {}

\* A marker names a valid result for good: whatever fails or dies in whatever
\* order, no process writes over the metrics a COMPLETE.json refers to, so that
\* no reader ever raises and EVAL_COMPLETE.json counts every item.
CompletedValid ==
  /\ monitorFaults = 0 => ~ReadFails(Items)
  /\ finished => Marked = Items

\* An item is out of reach when a result of its physical lane is invalid, which
\* run_item refuses to overwrite, or when a marked result has been spoiled.
Blocked(i) ==
  \/ ReadFails(Items)
  \/ \E k \in Items, a \in Attempts : LaneOf(k) = LaneOf(i) /\ metrics[k][a] = "invalid"

\* "Keep fixed-eval split lanes alive until every durable item is complete":
\* every item is completed in the end, unless its own lane is blocked by an
\* invalid result, and when all are, the run is declared complete.
LanesFinish ==
  <>(/\ \A i \in Items : i \in Marked \/ Blocked(i)
     /\ finished \/ \E i \in Items : Blocked(i))

\* "This monitor only resubmits a lane when ... its latest Slurm job is no
\* longer pending/running": no two recorded jobs of a lane are in the queue.
ResubmitsIdle ==
  \A l \in Lanes : \A m, n \in DOMAIN history[l] :
    Active(history[l][m]) /\ Active(history[l][n]) => history[l][m] = history[l][n]
=============================================================================
