----------------------------- MODULE UpdateChain -----------------------------
(***************************************************************************)
(* The chain of policy updates over closed collection windows: the         *)
(* controller (run_fragmented_chain.sh) launches the window of the next    *)
(* theta and waits for its receipt; the controller and the window's        *)
(* watcher submit the training job (submit_spooled_window.sh); a training  *)
(* job (SpooledGRFPOTrainer.fit_one_update) takes the training lock, loads *)
(* theta_old, trains, saves the checkpoint and writes the receipt.         *)
(*                                                                         *)
(* Slurm starts, preempts, requeues and loses jobs as it likes.  A         *)
(* checkpoint is told apart by a generation, a new one for every save,     *)
(* because a repeated update is not bit-identical (unseeded Monte Carlo).  *)
(* The life of a window between its launch and CLOSED.json is one step     *)
(* here (Close); CollectionWindow has the detail.  Window w makes theta w  *)
(* from theta w - 1.                                                       *)
(* Bounds: MaxJobs training jobs, MaxFaults faults of any kind.            *)
(***************************************************************************)
EXTENDS Integers, FiniteSets

CONSTANTS
  FinalTheta,       \* GRFPO_CHAIN_FINAL_THETA, counted from start_theta = 0
  MaxAttempts,      \* GRFPO_MAX_TRAIN_ATTEMPTS
  MaxJobs, MaxFaults

ASSUME ChainAssumption ==
  FinalTheta \in Nat \ {0} /\ MaxAttempts \in Nat \ {0} /\ MaxJobs \in Nat /\ MaxFaults \in Nat

Windows == 1..FinalTheta
Jobs == 1..MaxJobs
Chain == 0                              \* the controller as a submitter
Submitters == {Chain} \cup Windows      \* w: the watcher of window w

VARIABLES
  (* on disk *)
  launched,         \* windows with a submission record
  outcome,          \* CLOSED.json of each window, "open" before
  checkpoint,       \* global_step_<theta>: generation, complete, generation of theta_old
  receipt,          \* TRAINED.json: the generation it vouches for, or NoGeneration
  submission,       \* TRAIN_SUBMITTED.json
  (* processes *)
  jobs,             \* the training jobs Slurm knows
  sub,              \* each running submit_spooled_window.sh
  chain, theta,     \* the controller
  (* history *)
  collectedOn,      \* generation of theta_old the window was launched with
  faults,
  orphaned          \* windows whose last job the script cancelled without a successor

disk == <<launched, outcome, checkpoint, receipt, submission>>
vars == <<disk, jobs, sub, chain, theta, collectedOn, faults, orphaned>>

NoGeneration == 0
NoJob == 0
NoCheckpoint == [gen |-> NoGeneration, whole |-> FALSE, from |-> NoGeneration]
Native == [gen |-> 1, whole |-> TRUE, from |-> NoGeneration]   \* the immutable theta 0
NotSubmitted == [job |-> NoJob, attempt |-> 0, partition |-> "normal"]
Gone == [window |-> 0, partition |-> "normal", at |-> "gone", from |-> NoGeneration]
Idle == [pc |-> "idle", partition |-> "normal", job |-> NoJob]
Exited == [Idle EXCEPT !.pc = "exited"]

Partitions == {"normal", "preempt"}
Running == {"waiting", "loaded", "saving", "saved"}
Holding == {"loaded", "saving", "saved"}        \* inside training_transaction
Pending == {"pending", "overdue"}               \* overdue: for longer than the grace period
Live == Pending \cup Running
Ended == {"complete", "stopped", "failed"}
Generations == Nat

TypeOK ==
  /\ launched \subseteq Windows
  /\ outcome \in [Windows -> {"open", "ready", "insufficient"}]
  /\ checkpoint \in [0..FinalTheta ->
                      [gen : Generations, whole : BOOLEAN, from : Generations]]
  /\ receipt \in [Windows -> Generations]
  /\ submission \in [Windows -> [job : {NoJob} \cup Jobs, attempt : 0..MaxAttempts,
                                 partition : Partitions]]
  /\ jobs \in [Jobs -> [window : {0} \cup Windows, partition : Partitions,
                        at : Live \cup {"gone"}, from : Generations]]
  /\ sub \in [Submitters -> [pc : {"idle", "ask", "cancel", "sbatch", "record", "exited"},
                             partition : Partitions, job : {NoJob} \cup Jobs]]
  /\ chain \in {"top", "wait"} \cup Ended /\ theta \in 0..FinalTheta
  /\ collectedOn \in [Windows -> Generations]
  /\ faults \in 0..MaxFaults /\ orphaned \subseteq Windows

Init ==
  /\ launched = {} /\ outcome = [w \in Windows |-> "open"]
  /\ checkpoint = [t \in 0..FinalTheta |-> IF t = 0 THEN Native ELSE NoCheckpoint]
  /\ receipt = [w \in Windows |-> NoGeneration]
  /\ submission = [w \in Windows |-> NotSubmitted]
  /\ jobs = [j \in Jobs |-> Gone] /\ sub = [p \in Submitters |-> Idle]
  /\ chain = "top" /\ theta = 0
  /\ collectedOn = [w \in Windows |-> NoGeneration] /\ faults = 0 /\ orphaned = {}

Fault == faults < MaxFaults /\ faults' = faults + 1

Trained(w) == receipt[w] # NoGeneration
Current == theta + 1                    \* the window the controller works on
WindowOf(p) == IF p = Chain THEN Current ELSE p

----------------------------------------------------------------------------
(* The controller. *)

\* Top of the loop: done; or the operator's STOP_CHAIN marker is there, which may be at any
\* time; or the window, unless it has a receipt or a manifest, is launched
\* (launch_fragmented_update.sh, made idempotent by its submission record).
Top ==
  /\ chain = "top"
  /\ \/ /\ chain' = IF theta = FinalTheta THEN "complete" ELSE "stopped"
        /\ UNCHANGED <<launched, collectedOn>>
     \/ /\ theta < FinalTheta /\ chain' = "wait"
        /\ launched' = launched \cup {Current}
        /\ collectedOn' = IF Current \in launched THEN collectedOn
                          ELSE [collectedOn EXCEPT ![Current] = checkpoint[theta].gen]
  /\ UNCHANGED <<outcome, checkpoint, receipt, submission, jobs, sub, theta, faults, orphaned>>

\* The receipt has appeared: advance to its theta.
Advance ==
  /\ chain = "wait" /\ sub[Chain].pc = "idle" /\ Trained(Current)
  /\ IF checkpoint[Current].gen = NoGeneration
     THEN chain' = "failed" /\ UNCHANGED theta
     ELSE chain' = "top" /\ theta' = Current
  /\ UNCHANGED <<disk, jobs, sub, collectedOn, faults, orphaned>>

\* The window closed without a trainable batch.
GiveUp ==
  /\ chain = "wait" /\ sub[Chain].pc = "idle" /\ ~Trained(Current)
  /\ outcome[Current] = "insufficient"
  /\ chain' = "failed"
  /\ UNCHANGED <<disk, jobs, sub, theta, collectedOn, faults, orphaned>>

\* The controller's wall time ends or it is killed; its successor starts at start_theta.
Renew ==
  /\ chain \notin Ended /\ Fault
  /\ chain' = "top" /\ theta' = 0 /\ sub' = [sub EXCEPT ![Chain] = Idle]
  /\ UNCHANGED <<disk, jobs, collectedOn, orphaned>>

\* The collectors close a launched window (CollectionWindow).
Close(w) ==
  /\ w \in launched /\ outcome[w] = "open"
  /\ outcome' \in {[outcome EXCEPT ![w] = o] : o \in {"ready", "insufficient"}}
  /\ UNCHANGED <<launched, checkpoint, receipt, submission, jobs, sub, chain, theta,
                 collectedOn, faults, orphaned>>

----------------------------------------------------------------------------
(* submit_spooled_window.sh, run by submitter p for its window under the   *)
(* window's .train-submit.lock.  The watcher runs it once, the controller  *)
(* at every poll until the receipt is there.                               *)

Inside(p) == sub[p].pc \notin {"idle", "exited"}
Return(p) == sub' = [sub EXCEPT ![p] = IF p = Chain THEN Idle ELSE Exited]

Calls(p) ==
  /\ outcome[WindowOf(p)] = "ready" /\ sub[p].pc = "idle"
  /\ p = Chain => chain = "wait" /\ ~Trained(Current)

LockFree(p) == \A q \in Submitters : Inside(q) => WindowOf(q) # WindowOf(p)

\* Lock and look for the receipt.
Enter(p) ==
  /\ WindowOf(p) \in Windows /\ Calls(p) /\ LockFree(p)
  /\ IF Trained(WindowOf(p)) THEN Return(p) ELSE sub' = [sub EXCEPT ![p].pc = "ask"]
  /\ UNCHANGED <<disk, jobs, chain, theta, collectedOn, faults, orphaned>>

\* The next attempt in the given partition, unless the retry budget is exhausted.
Attempt(p, partition) ==
  IF submission[WindowOf(p)].attempt + 1 > MaxAttempts THEN Return(p)
  ELSE sub' = [sub EXCEPT ![p].pc = "sbatch", ![p].partition = partition]

\* After a job that is gone: the other partition.
NextPartitionStable(s) == "normal"
NextPartition(s) == IF s.partition = "normal" THEN "preempt" ELSE "normal"

OverdueNever(s) == FALSE
Overdue(s) == s.partition = "normal" /\ jobs[s.job].at = "overdue"

\* squeue: an empty answer is a job that is gone, or a failure of squeue itself.
Ask(p) ==
  LET s == submission[WindowOf(p)] IN
  /\ sub[p].pc = "ask"
  /\ \/ s.job = NoJob /\ Attempt(p, "normal") /\ UNCHANGED faults
     \/ /\ s.job # NoJob /\ jobs[s.job].at \in Live /\ UNCHANGED faults
        /\ IF Overdue(s) THEN sub' = [sub EXCEPT ![p].pc = "cancel"] ELSE Return(p)
     \/ s.job # NoJob /\ jobs[s.job].at = "gone" /\ Attempt(p, NextPartition(s)) /\ UNCHANGED faults
     \/ s.job # NoJob /\ jobs[s.job].at \in Live /\ Attempt(p, NextPartition(s)) /\ Fault
  /\ UNCHANGED <<disk, jobs, chain, theta, collectedOn, orphaned>>

\* scancel of a normal job that has been pending too long (it may have started since, and
\* scancel may fail); the budget is looked at only afterwards.
Cancel(p) ==
  LET w == WindowOf(p)  j == submission[w].job IN
  /\ sub[p].pc = "cancel"
  /\ \/ /\ jobs' = [jobs EXCEPT ![j] = Gone] /\ UNCHANGED faults
        /\ orphaned' = IF submission[w].attempt = MaxAttempts /\ jobs[j].at \in Live
                       THEN orphaned \cup {w} ELSE orphaned
     \/ UNCHANGED <<jobs, orphaned>> /\ Fault
  /\ Attempt(p, "preempt")
  /\ UNCHANGED <<disk, chain, theta, collectedOn>>

\* Job ids that are not in use: the job is gone and nobody remembers its id.
Free == {j \in Jobs : /\ jobs[j].at = "gone"
                      /\ \A w \in Windows : submission[w].job # j
                      /\ \A p \in Submitters : sub[p].job # j}
NextJob(ids) == CHOOSE j \in ids : \A k \in ids : j <= k
Submitted(p) == [window |-> WindowOf(p), partition |-> sub[p].partition, at |-> "pending",
                 from |-> NoGeneration]

\* sbatch, tried up to five times: it succeeds; or succeeds but is reported to have failed
\* and is repeated; or fails for good.
Sbatch(p) ==
  /\ sub[p].pc = "sbatch"
  /\ \/ /\ Free # {} /\ UNCHANGED faults
        /\ LET j == NextJob(Free) IN
           /\ jobs' = [jobs EXCEPT ![j] = Submitted(p)]
           /\ sub' = [sub EXCEPT ![p].pc = "record", ![p].job = j]
     \/ /\ Cardinality(Free) >= 2 /\ Fault
        /\ LET j == NextJob(Free)  k == NextJob(Free \ {j}) IN
           /\ jobs' = [jobs EXCEPT ![j] = Submitted(p), ![k] = Submitted(p)]
           /\ sub' = [sub EXCEPT ![p].pc = "record", ![p].job = k]
     \/ Return(p) /\ UNCHANGED jobs /\ Fault
  /\ UNCHANGED <<disk, chain, theta, collectedOn, orphaned>>

\* TRAIN_SUBMITTED.json is replaced.
Record(p) ==
  LET w == WindowOf(p) IN
  /\ sub[p].pc = "record"
  /\ submission' = [submission EXCEPT ![w] = [job |-> sub[p].job,
                                              attempt |-> submission[w].attempt + 1,
                                              partition |-> sub[p].partition]]
  /\ Return(p)
  /\ UNCHANGED <<launched, outcome, checkpoint, receipt, jobs, chain, theta,
                 collectedOn, faults, orphaned>>

\* The watcher is killed between two steps of the script (the controller: Renew).
WatcherDies(w) ==
  /\ Inside(w) /\ Fault /\ Return(w)
  /\ UNCHANGED <<disk, jobs, chain, theta, collectedOn, orphaned>>

Submit(p) == Enter(p) \/ Ask(p) \/ Cancel(p) \/ Sbatch(p) \/ Record(p)

----------------------------------------------------------------------------
(* A training job.                                                         *)

\* Slurm starts it.
Start(j) ==
  /\ jobs[j].at \in Pending /\ jobs' = [jobs EXCEPT ![j].at = "waiting"]
  /\ UNCHANGED <<disk, sub, chain, theta, collectedOn, faults, orphaned>>

\* It is pending and its submission older than GRFPO_NORMAL_PENDING_GRACE_SECONDS.
Age(j) ==
  /\ jobs[j].at = "pending" /\ jobs[j].partition = "normal"
  /\ jobs' = [jobs EXCEPT ![j].at = "overdue"]
  /\ UNCHANGED <<disk, sub, chain, theta, collectedOn, faults, orphaned>>

TrainingLockFreeAnyway(w) == TRUE
TrainingLockFree(w) == \A j \in Jobs : jobs[j].window = w => jobs[j].at \notin Holding

BeginAgain(j) ==
  /\ jobs[j].at = "waiting" /\ TrainingLockFree(jobs[j].window)
  /\ jobs' = [jobs EXCEPT ![j] = [@ EXCEPT !.at = "loaded",
                                          !.from = checkpoint[jobs[j].window - 1].gen]]
  /\ UNCHANGED <<disk, sub, chain, theta, collectedOn, faults, orphaned>>
\* training_transaction, and load_checkpoint of theta_old when there is no receipt.
Begin(j) ==
  LET w == jobs[j].window IN
  /\ jobs[j].at = "waiting" /\ TrainingLockFree(w)
  /\ jobs' = [jobs EXCEPT ![j] = IF Trained(w) THEN Gone
                                  ELSE [@ EXCEPT !.at = "loaded", !.from = checkpoint[w - 1].gen]]
  /\ UNCHANGED <<disk, sub, chain, theta, collectedOn, faults, orphaned>>

\* After the optimizer step: the checkpoint is being written over whatever is there.
SaveBegins(j) ==
  LET w == jobs[j].window IN
  /\ jobs[j].at = "loaded" /\ jobs' = [jobs EXCEPT ![j].at = "saving"]
  /\ checkpoint' = [checkpoint EXCEPT ![w] = [gen |-> @.gen + 1, whole |-> FALSE,
                                              from |-> jobs[j].from]]
  /\ UNCHANGED <<launched, outcome, receipt, submission, sub, chain, theta, collectedOn,
                 faults, orphaned>>

SaveEnds(j) ==
  /\ jobs[j].at = "saving" /\ jobs' = [jobs EXCEPT ![j].at = "saved"]
  /\ checkpoint' = [checkpoint EXCEPT ![jobs[j].window].whole = TRUE]
  /\ UNCHANGED <<launched, outcome, receipt, submission, sub, chain, theta, collectedOn,
                 faults, orphaned>>

\* write_training_receipt, then the lock is released.
Receipt(j) ==
  LET w == jobs[j].window IN
  /\ jobs[j].at = "saved" /\ jobs' = [jobs EXCEPT ![j] = Gone]
  /\ receipt' = [receipt EXCEPT ![w] = checkpoint[w].gen]
  /\ UNCHANGED <<launched, outcome, checkpoint, submission, sub, chain, theta,
                 collectedOn, faults, orphaned>>

Work(j) == Begin(j) \/ SaveBegins(j) \/ SaveEnds(j) \/ Receipt(j)

\* The job is preempted and requeued, or fails and leaves the queue.
Preempt(j) ==
  /\ jobs[j].at \in Running /\ Fault
  /\ \/ jobs' = [jobs EXCEPT ![j].at = "pending", ![j].from = NoGeneration]
     \/ jobs' = [jobs EXCEPT ![j] = Gone]
  /\ UNCHANGED <<disk, sub, chain, theta, collectedOn, orphaned>>

----------------------------------------------------------------------------
Finished == chain \in Ended /\ UNCHANGED vars

Next ==
  \/ Top \/ Advance \/ GiveUp \/ Renew \/ Finished
  \/ \E w \in Windows : Close(w) \/ WatcherDies(w)
  \/ \E p \in Submitters : Submit(p)
  \/ \E j \in Jobs : Start(j) \/ Age(j) \/ Work(j) \/ Preempt(j)

Spec == Init /\ [][Next]_vars

(* The scripts poll and Slurm eventually starts preemptible jobs; a job of  *)
(* the normal partition may stay pending for ever.                          *)
FairSpec ==
  /\ Spec /\ WF_vars(Top) /\ WF_vars(Advance) /\ WF_vars(GiveUp)
  /\ \A w \in Windows : WF_vars(Close(w))
  /\ \A p \in Submitters : WF_vars(Submit(p))
  /\ \A j \in Jobs : WF_vars(Age(j)) /\ WF_vars(Work(j))
                     /\ WF_vars(jobs[j].partition = "preempt" /\ Start(j))

----------------------------------------------------------------------------
(* Properties. *)

\* A receipt vouches for a complete checkpoint, and for the one that is there now: no second
\* training job, requeue or resubmission touches a checkpoint that has its receipt
\* (training_transaction, write_training_receipt).
ReceiptDurable ==
  \A w \in Windows : Trained(w) =>
    checkpoint[w].whole /\ checkpoint[w].gen = receipt[w]

\* The policy a window was collected with stays exactly the checkpoint that produced it, and
\* the update of the window starts from that checkpoint and no other, however often training
\* jobs are preempted, repeated or submitted twice.  (The types are part of the invariant.)
OnPolicy ==
  /\ TypeOK
  /\ \A w \in launched :
       /\ checkpoint[w - 1].whole /\ checkpoint[w - 1].gen = collectedOn[w]
       /\ checkpoint[w].gen # NoGeneration => checkpoint[w].from = collectedOn[w]

\* The last attempt is spent and its job is gone.
Exhausted(w) ==
  LET s == submission[w] IN
  s.attempt = MaxAttempts /\ ~Trained(w) /\ jobs[s.job].at = "gone"

\* The chain comes to an end (complete, stopped by the operator, or a window without a batch)
\* or a window has used up its training attempts, even if Slurm never starts a job of the
\* normal partition: the overdue job is replaced by a preemptible one.
ChainEnds == <>(chain \in Ended \/ \E w \in Windows : Exhausted(w))

\* submit_spooled_window.sh looks at the retry budget after it has cancelled an overdue job
\* (and announced "fallback=preempt"): no cancelled job is left without a successor.  It holds
\* because attempts alternate between the partitions and the budget is even (12 by default):
\* the last attempt is never a normal one.  With an odd budget it fails.
FallbackFollows == orphaned = {}

----------------------------------------------------------------------------
(* The inductive invariant behind the safety properties. *)

\* The submit script runs once at a time for a window, when it is ready, within the budget.
SubmitLock ==
  /\ \A p \in Submitters : Inside(p) => /\ WindowOf(p) \in Windows
                                        /\ outcome[WindowOf(p)] = "ready"
  /\ \A p \in Submitters : sub[p].pc \in {"sbatch", "record"} =>
                             submission[WindowOf(p)].attempt < MaxAttempts
  /\ \A p, q \in Submitters : Inside(p) /\ Inside(q) /\ WindowOf(p) = WindowOf(q) => p = q

\* A training job is one of a launched window; nothing is saved for any other, nor for
\* theta 0.
LaunchedOnly ==
  /\ checkpoint[0] = Native
  /\ \A w \in Windows : outcome[w] # "open" => w \in launched
  /\ \A w \in Windows \ launched : checkpoint[w].gen = NoGeneration
  /\ \A j \in Jobs : jobs[j].at \in Live => jobs[j].window \in launched

\* The controller launches the windows in order, each from a trained checkpoint.
InOrder ==
  /\ chain = "wait" => theta < FinalTheta
  /\ theta > 0 => Trained(theta)
  /\ \A w \in launched : w > 1 => Trained(w - 1)

\* At most one job is in the transaction of a window, and none once there is a receipt.
Transaction ==
  /\ \A j, k \in Jobs : jobs[j].at \in Holding /\ jobs[k].at \in Holding
                        /\ jobs[j].window = jobs[k].window => j = k
  /\ \A j \in Jobs : jobs[j].at \in Holding => ~Trained(jobs[j].window)

\* What a job in the transaction has loaded is the checkpoint the window was collected
\* with, and what it has saved is its own.
FromParent ==
  \A j \in Jobs : LET w == jobs[j].window IN
    /\ jobs[j].at \in Holding => jobs[j].from = collectedOn[w]
    /\ jobs[j].at \in {"saving", "saved"} => checkpoint[w].from = jobs[j].from
    /\ jobs[j].at = "saved" => checkpoint[w].whole

\* What TLAPS proves inductive.
IInv == TypeOK /\ SubmitLock /\ LaunchedOnly /\ InOrder /\ Transaction /\ FromParent
        /\ ReceiptDurable /\ OnPolicy

\* Attempts alternate between the partitions, beginning with the normal one.
PartitionOf(n) == IF n % 2 = 1 THEN "normal" ELSE "preempt"

Alternation ==
  /\ \A w \in Windows : LET s == submission[w] IN
       /\ s.attempt = 0 <=> s.job = NoJob
       /\ s.attempt # 0 => s.partition = PartitionOf(s.attempt)
  /\ \A p \in Submitters : LET s == submission[WindowOf(p)] IN
       /\ sub[p].pc = "cancel" => s.attempt # 0 /\ s.partition = "normal"
       /\ sub[p].pc \in {"sbatch", "record"} => sub[p].partition = PartitionOf(s.attempt + 1)
       /\ sub[p].pc = "record" => sub[p].job # NoJob
=============================================================================
