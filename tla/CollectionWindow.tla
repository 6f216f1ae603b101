-------------------------- MODULE CollectionWindow --------------------------
(***************************************************************************)
(* The durable collection window of fragmented Group-Relative FPO:         *)
(* trainer/grfpo/collection_store.py (the files of one window on a shared  *)
(* filesystem) driven by the collectors of                                 *)
(* workflows/grfpo_fragmented_collection.py, which run on nodes that may   *)
(* be preempted at any time, and by the operator's entrypoints.            *)
(*                                                                         *)
(* Every store operation runs under one flock on .window.lock, so each is  *)
(* one step.  The kernel drops the lock of a killed process: an operation  *)
(* that makes two durable writes has a second action, named ...Cut, that   *)
(* stops between them.  Unlocked reads see nothing that these two kinds of *)
(* step do not produce.                                                    *)
(*                                                                         *)
(* Abstractions: a random lease token is a fresh number (tokens are 128    *)
(* random bits); wall-clock expiry is one bit of the lease, set by Expire  *)
(* and cleared by a heartbeat; the outcome of a rollout is chosen by the   *)
(* environment; the counters of CLOSED.json are the set they count; staged *)
(* .candidate_*.tmp directories are invisible to every reader.             *)
(* Bounds: MaxToken (claims) and MaxFaults (crashes, failed rollouts,      *)
(* missed heartbeats, operator calls).                                     *)
(***************************************************************************)
EXTENDS Naturals, FiniteSets

CONSTANTS
  Procs,           \* collector processes (restarts of one process included)
  Owners,          \* owner ids written into leases
  NoOwner,         \* the owner of an absent lease file
  OwnerOf,         \* owner id of each process
  Element,         \* Slurm array element (job:lane) of each owner id
  ElementOwner,    \* owner id the watcher passes for each array element
  SlotOf,          \* collector_slot of each process
  MaxCandidates, Target, Minimum, RoundSize,   \* CollectionWindowSpec
  Windows,         \* [mode, leases]: collection_mode and shared_candidate_queue
                   \* (FALSE is the fixed-lane collector)
  Conditions,      \* number of (task, suite) conditions
  AnyCondition,    \* preferred_condition = None
  Skippable,       \* candidates the operator may skip
  MaxToken, MaxFaults

Candidates == 0..(MaxCandidates - 1)
Elements == {Element[o] : o \in Owners}

ASSUME SpecAssumption ==           \* CollectionWindowSpec.__post_init__
  /\ MaxCandidates \in Nat /\ Target \in Nat /\ Minimum \in Nat
  /\ 1 <= Minimum /\ Minimum <= Target /\ Target <= MaxCandidates
  /\ Windows \subseteq [mode : {"target", "round", "drain"}, leases : BOOLEAN]
  /\ RoundSize \in Nat \ {0}
  /\ \A w \in Windows : w.mode = "round" => MaxCandidates % RoundSize = 0

ASSUME CollectorAssumption ==
  /\ OwnerOf \in [Procs -> Owners] /\ NoOwner \notin Owners
  /\ Element \in [Owners -> Elements] /\ ElementOwner \in [Elements -> Owners \cup {NoOwner}]
  /\ SlotOf \in [Procs -> Nat] /\ Conditions \in Nat \ {0}
  /\ AnyCondition \notin Nat
  /\ Skippable \subseteq Candidates
  /\ MaxToken \in Nat /\ MaxFaults \in Nat

VARIABLES
  window,                       \* the configuration of the window, final
  manifest, open,               \* manifest.json and the OPEN marker exist
  closed,                       \* CLOSED.json
  accepted, rejected, skipped,  \* decided candidates, one directory each
  lease,                        \* leases/<candidate>.json
  nextToken,
  pc, cand, token, warm,        \* per process: program point, candidate and
                                \* lease it works on, condition it is warm for
  faults,                       \* faults so far
  revoked, publisher            \* history: tokens that lost their lease file
                                \* undecided; token each group came in under

storeVars == <<window, manifest, open, closed, accepted, rejected, skipped>>
leaseVars == <<lease, nextToken, revoked>>
procVars  == <<pc, cand, token, warm>>
vars == <<storeVars, leaseVars, procVars, faults, publisher>>

NoLease == [owner |-> NoOwner, token |-> 0, expired |-> FALSE]
NotClosed == [outcome |-> "none", selected |-> {}, completed |-> {}]
NoCandidate == MaxCandidates
PCs == {"start", "claim", "poll", "rollout", "raising", "closing", "lane", "done"}

Leases == [owner : Owners \cup {NoOwner}, token : Nat, expired : BOOLEAN]
ClosingRecords == [outcome : {"none", "ready", "insufficient"},
                   selected : SUBSET Candidates, completed : SUBSET Candidates]

TypeOK ==
  /\ window \in Windows
  /\ manifest \in BOOLEAN /\ open \in BOOLEAN
  /\ closed \in ClosingRecords
  /\ accepted \subseteq Candidates /\ rejected \subseteq Candidates
  /\ skipped \subseteq Candidates
  /\ lease \in [Candidates -> Leases]
  /\ nextToken \in Nat \ {0}
  /\ pc \in [Procs -> PCs]
  /\ cand \in [Procs -> Candidates \cup {NoCandidate}]
  /\ token \in [Procs -> Nat]
  /\ warm \in [Procs -> Nat \cup {AnyCondition}]
  /\ faults \in Nat
  /\ revoked \subseteq Nat
  /\ publisher \in [Candidates -> Nat]

Init ==
  /\ window \in Windows
  /\ manifest = FALSE /\ open = FALSE /\ closed = NotClosed
  /\ accepted = {} /\ rejected = {} /\ skipped = {}
  /\ lease = [c \in Candidates |-> NoLease]
  /\ nextToken = 1 /\ revoked = {} /\ faults = 0
  /\ pc = [p \in Procs |-> "start"]
  /\ cand = [p \in Procs |-> NoCandidate]
  /\ token = [p \in Procs |-> 0]
  /\ warm = [p \in Procs |-> AnyCondition]
  /\ publisher = [c \in Candidates |-> 0]

-----------------------------------------------------------------------------
(* Reading the window *)

Mode == window.mode
UseLeases == window.leases

IsClosed == closed.outcome # "none"
IsOpen == open /\ ~IsClosed                     \* _verify_open_locked passes
Decided == accepted \cup rejected \cup skipped  \* candidate_complete
Condition(c) == c % Conditions
RoundStart(c) == (c \div RoundSize) * RoundSize

\* round_ready_to_start: the earlier rounds are decided, in round mode.
RoundReady(c) ==
  Mode = "round" => \A d \in Candidates : d < RoundStart(c) => d \in Decided

\* Mutant: only the owner id is compared.
OwnsLease(p) == cand[p] \in Candidates /\ token[p] # 0 /\ lease[cand[p]].owner = OwnerOf[p]

\* The token of p is the one in the lease file of its candidate.
HoldsLease(p) ==
  /\ cand[p] \in Candidates /\ token[p] # 0
  /\ lease[cand[p]].token = token[p] /\ lease[cand[p]].owner = OwnerOf[p]

FirstOf(c, S) == c \in S /\ \A d \in S : c <= d   \* loops go in index order

CompletedCount == Cardinality(accepted) + Cardinality(rejected) + Cardinality(skipped)
BudgetExhausted == CompletedCount >= MaxCandidates
TargetReached == Cardinality(accepted) >= Target
CompleteRound ==
  /\ Decided # {} /\ Cardinality(Decided) % RoundSize = 0
  /\ Decided = 0..(Cardinality(Decided) - 1)

ReadyToClose ==
  /\ Mode = "round" => CompleteRound
  /\ BudgetExhausted \/ (Mode # "drain" /\ TargetReached)

\* Mutant: the selection is cut at the target in every mode.
SelectionCut == {c \in accepted : Cardinality({d \in accepted : d < c}) < Target}

\* state["accepted"] is sorted; only target mode truncates it.
Selection ==
  IF Mode = "target"
  THEN {c \in accepted : Cardinality({d \in accepted : d < c}) < Target}
  ELSE accepted

ClosingRecord ==
  IF Cardinality(accepted) < Minimum
  THEN [outcome |-> "insufficient", selected |-> {}, completed |-> Decided]
  ELSE [outcome |-> "ready", selected |-> Selection, completed |-> Decided]

-----------------------------------------------------------------------------
(* Starting, closing and dying *)

Fault == faults < MaxFaults /\ faults' = faults + 1

Become(p, where) == pc' = [pc EXCEPT ![p] = where]

\* The process forgets its candidate and lease, and carries on at where.
LetGo(p, where) ==
  /\ Become(p, where)
  /\ cand' = [cand EXCEPT ![p] = NoCandidate]
  /\ token' = [token EXCEPT ![p] = 0]

\* initialize, then the scan of run_grfpo_collector.
Start(p) ==
  /\ pc[p] = "start"
  /\ manifest' = TRUE
  /\ open' = (open \/ ~manifest)
  /\ Become(p, IF IsClosed THEN "done" ELSE IF UseLeases THEN "claim" ELSE "lane")
  /\ \E w \in {AnyCondition, SlotOf[p] % Conditions} : warm' = [warm EXCEPT ![p] = w]
  /\ UNCHANGED <<window, closed, accepted, rejected, skipped, leaseVars, cand, token, faults, publisher>>

\* Preempted inside initialize, after manifest.json and before OPEN.
StartCut(p) ==
  /\ pc[p] = "start" /\ ~manifest
  /\ Fault
  /\ manifest' = TRUE
  /\ UNCHANGED <<window, open, closed, accepted, rejected, skipped, leaseVars, procVars, publisher>>

\* close_if_ready, its two writes.
WriteClosed == closed' = IF ~IsClosed /\ ReadyToClose THEN ClosingRecord ELSE closed
CloseIfReady ==
  /\ WriteClosed
  /\ open' = (open /\ (IsClosed \/ ~ReadyToClose))
  /\ UNCHANGED <<window, manifest, accepted, rejected, skipped>>

\* The close_if_ready that follows a commit; p leaves when the window is closed.
CloseAfterCommit(p) ==
  /\ pc[p] = "closing"
  /\ CloseIfReady
  /\ LetGo(p, IF IsClosed' THEN "done" ELSE IF UseLeases THEN "claim" ELSE "lane")
  /\ UNCHANGED <<leaseVars, warm, faults, publisher>>

\* Mutant: a waiting collector looks at the window without closing it.
PollOnly(p) ==
  /\ pc[p] = "poll"
  /\ Become(p, IF IsClosed THEN "done" ELSE "claim")
  /\ UNCHANGED <<storeVars, leaseVars, cand, token, warm, faults, publisher>>

\* The waiting loop of a steal-any collector.
Poll(p) ==
  /\ pc[p] = "poll"
  /\ CloseIfReady
  /\ Become(p, IF IsClosed' THEN "done" ELSE "claim")
  /\ UNCHANGED <<leaseVars, cand, token, warm, faults, publisher>>

\* Preempted inside close_if_ready, after CLOSED.json and before OPEN is removed.
CloseCut(p) ==
  /\ pc[p] \in {"closing", "poll"}
  /\ ~IsClosed /\ ReadyToClose
  /\ Fault
  /\ WriteClosed
  /\ LetGo(p, "start")
  /\ UNCHANGED <<window, manifest, open, accepted, rejected, skipped, leaseVars, warm, publisher>>

\* Preemption, a node failure or a renderer crash; Slurm or the supervisor
\* starts the process again under the same owner id.
Crash(p) ==
  /\ pc[p] \notin {"start", "done"}
  /\ Fault
  /\ LetGo(p, "start")
  /\ UNCHANGED <<storeVars, leaseVars, warm, publisher>>

-----------------------------------------------------------------------------
(* The shared candidate queue *)

\* Candidates claim_candidate visits for p, in index order.
Queue(p) == {c \in Candidates : warm[p] \in {AnyCondition, Condition(c)} /\ RoundReady(c)}

Claimable(p) ==
  {c \in Queue(p) \ Decided :
      lease[c].token = 0 \/ lease[c].owner = OwnerOf[p] \/ lease[c].expired}

\* Lease files of decided candidates met before the index bound are removed.
Swept(p, bound) == {d \in Queue(p) \cap Decided : d < bound}

ClaimGranted(p) ==
  /\ pc[p] = "claim" /\ IsOpen
  /\ nextToken <= MaxToken
  /\ \E c \in Candidates :
     /\ FirstOf(c, Claimable(p))
     /\ lease' = [d \in Candidates |->
          IF d = c THEN [owner |-> OwnerOf[p], token |-> nextToken, expired |-> FALSE]
          ELSE IF d \in Swept(p, c) THEN NoLease ELSE lease[d]]
     /\ revoked' = revoked \cup ({lease[c].token} \ {0})
     /\ cand' = [cand EXCEPT ![p] = c]
     /\ token' = [token EXCEPT ![p] = nextToken]
     /\ warm' = [warm EXCEPT ![p] = Condition(c)]
  /\ nextToken' = nextToken + 1
  /\ Become(p, "rollout")
  /\ UNCHANGED <<storeVars, faults, publisher>>

\* Nothing to claim: a steal-any collector waits; a warm one reports
\* condition_drained and the supervisor restarts it in steal-any mode.
ClaimNothing(p) ==
  /\ pc[p] = "claim"
  /\ IsClosed \/ (IsOpen /\ Claimable(p) = {})
  /\ lease' = [d \in Candidates |->
       IF ~IsClosed /\ d \in Swept(p, MaxCandidates) THEN NoLease ELSE lease[d]]
  /\ Become(p, IF warm[p] = AnyCondition THEN "poll" ELSE "claim")
  /\ warm' = [warm EXCEPT ![p] = AnyCondition]
  /\ UNCHANGED <<storeVars, nextToken, revoked, cand, token, faults, publisher>>

\* claim_candidate raises: the window has neither OPEN nor CLOSED.json.
ClaimRaises(p) ==
  /\ pc[p] = "claim" /\ ~open /\ ~IsClosed
  /\ LetGo(p, "start")
  /\ UNCHANGED <<storeVars, leaseVars, warm, faults, publisher>>

\* renew_candidate_lease from the progress callback: extend, or raise.
Heartbeat(p) ==
  /\ pc[p] = "rollout" /\ UseLeases
  /\ IF HoldsLease(p)
     THEN /\ lease' = [lease EXCEPT ![cand[p]].expired = FALSE]
          /\ UNCHANGED pc
     ELSE Become(p, "raising") /\ UNCHANGED lease
  /\ UNCHANGED <<storeVars, nextToken, revoked, cand, token, warm, faults, publisher>>

\* The rollout fails, or inspect_rollout_state_integrity rejects it and
\* record_integrity_failure leaves the candidate undecided.
RolloutFails(p) ==
  /\ pc[p] = "rollout"
  /\ Fault
  /\ Become(p, "raising")
  /\ UNCHANGED <<storeVars, leaseVars, cand, token, warm, publisher>>

\* release_candidate_lease on the way out, when the lease is still p's.
Release(p) ==
  /\ pc[p] = "raising"
  /\ IF HoldsLease(p)
     THEN /\ lease' = [lease EXCEPT ![cand[p]] = NoLease]
          /\ revoked' = revoked \cup {token[p]}
     ELSE UNCHANGED <<lease, revoked>>
  /\ LetGo(p, "start")
  /\ UNCHANGED <<storeVars, nextToken, warm, faults, publisher>>

\* lease_timeout_seconds pass without a heartbeat.  A live holder that misses
\* them is a fault; a dead one cannot do otherwise.
HolderAlive(c) == \E p \in Procs : pc[p] = "rollout" /\ token[p] = lease[c].token
Expire(c) ==
  /\ lease[c].token # 0 /\ ~lease[c].expired
  /\ IF HolderAlive(c) THEN Fault ELSE UNCHANGED faults
  /\ lease' = [lease EXCEPT ![c].expired = TRUE]
  /\ UNCHANGED <<storeVars, nextToken, revoked, procVars, publisher>>

-----------------------------------------------------------------------------
(* The fixed-lane collector: no leases, one slice of the candidates each *)

Lane(p) == {c \in Candidates : c % Conditions = SlotOf[p] % Conditions}

\* Mutant: the collector does not wait for the earlier rounds.
LaneTakeNow(p) ==
  /\ pc[p] = "lane" /\ ~IsClosed
  /\ \E c \in Candidates :
       FirstOf(c, Lane(p) \ Decided) /\ cand' = [cand EXCEPT ![p] = c]
  /\ Become(p, "rollout")
  /\ UNCHANGED <<storeVars, leaseVars, token, warm, faults, publisher>>

LaneTake(p) ==
  /\ pc[p] = "lane" /\ ~IsClosed
  /\ \E c \in Candidates :
     /\ FirstOf(c, Lane(p) \ Decided)
     /\ RoundReady(c)
     /\ cand' = [cand EXCEPT ![p] = c]
  /\ Become(p, "rollout")
  /\ UNCHANGED <<storeVars, leaseVars, token, warm, faults, publisher>>

\* collector_complete, collector_finished or window_closed_at_round_boundary.
LaneStop(p) ==
  /\ pc[p] = "lane"
  /\ IsClosed \/ Lane(p) \subseteq Decided
  /\ Become(p, "done")
  /\ UNCHANGED <<storeVars, leaseVars, cand, token, warm, faults, publisher>>

-----------------------------------------------------------------------------
(* commit_group *)

\* Mutant: a lease file that is gone does not make the holder stale.
StaleIfReassigned(p) == UseLeases /\ lease[cand[p]].token # 0 /\ ~HoldsLease(p)
StaleLease(p) == UseLeases /\ ~HoldsLease(p)
\* Mutant: "duplicate" is not recognised.
RefusedNoDuplicate(p) == StaleLease(p) \/ IsClosed
Refused(p) == StaleLease(p) \/ cand[p] \in Decided \/ IsClosed

\* stale_lease, duplicate or late: the staged directory is dropped.
CommitRefused(p) ==
  /\ pc[p] = "rollout" /\ Refused(p)
  /\ Become(p, "closing")
  /\ UNCHANGED <<storeVars, leaseVars, cand, token, warm, faults, publisher>>

\* _verify_open_locked raises inside commit_group.
CommitRaises(p) ==
  /\ pc[p] = "rollout" /\ ~Refused(p) /\ ~open
  /\ Become(p, "raising")
  /\ UNCHANGED <<storeVars, leaseVars, cand, token, warm, faults, publisher>>

\* The durable write that decides the candidate.
Publish(p, informative) ==
  /\ accepted' = IF informative THEN accepted \cup {cand[p]} ELSE accepted
  /\ rejected' = IF informative THEN rejected ELSE rejected \cup {cand[p]}
  /\ publisher' = [publisher EXCEPT ![cand[p]] = token[p]]
  /\ UNCHANGED <<window, manifest, open, closed, skipped>>

Commit(p) ==
  /\ pc[p] = "rollout" /\ ~Refused(p) /\ open
  /\ \E informative \in BOOLEAN : Publish(p, informative)
  /\ lease' = [lease EXCEPT ![cand[p]] = NoLease]
  /\ Become(p, "closing")
  /\ UNCHANGED <<nextToken, revoked, cand, token, warm, faults>>

\* Preempted after the group is durable, before its lease file is removed.
CommitCut(p) ==
  /\ pc[p] = "rollout" /\ ~Refused(p) /\ open
  /\ Fault
  /\ \E informative \in BOOLEAN : Publish(p, informative)
  /\ LetGo(p, "start")
  /\ UNCHANGED <<leaseVars, warm>>

-----------------------------------------------------------------------------
(* The operator and the watcher *)

\* skip_window_candidates on a list of candidates; kept is empty, or the one
\* whose lease file survives because the call dies right after deciding it.
SkipCall(S, kept) ==
  /\ IsOpen
  /\ Fault
  /\ skipped' = skipped \cup (S \ Decided)
  /\ lease' = [c \in Candidates |-> IF c \in (S \ Decided) \ kept THEN NoLease ELSE lease[c]]
  /\ revoked' = revoked \cup ({lease[c].token : c \in (S \ Decided) \ kept} \ {0})
  /\ UNCHANGED <<window, manifest, open, closed, accepted, rejected, nextToken, procVars, publisher>>

Skip(S) == S # {} /\ SkipCall(S, {})
SkipCut(S, c) == c \notin Decided /\ SkipCall(S, {c})

\* abandon_owner_leases, called by the watcher for the array element it has
\* cancelled; its processes may linger.
Abandon(e) ==
  /\ manifest
  /\ Fault
  /\ LET held == {c \in Candidates : lease[c].token # 0 /\ lease[c].owner = ElementOwner[e]} IN
     /\ lease' = [c \in Candidates |-> IF c \in held THEN NoLease ELSE lease[c]]
     /\ revoked' = revoked \cup {lease[c].token : c \in held}
  /\ UNCHANGED <<storeVars, nextToken, procVars, publisher>>

\* run_grfpo_collection_status, run by hand.
Status ==
  /\ manifest
  /\ CloseIfReady
  /\ UNCHANGED <<leaseVars, procVars, faults, publisher>>

-----------------------------------------------------------------------------
ProcStep(p) ==
  \/ Start(p) \/ CloseAfterCommit(p) \/ Poll(p)
  \/ ClaimGranted(p) \/ ClaimNothing(p) \/ ClaimRaises(p) \/ Release(p)
  \/ LaneTake(p) \/ LaneStop(p)
  \/ CommitRefused(p) \/ CommitRaises(p) \/ Commit(p)

ProcFault(p) ==
  \/ StartCut(p) \/ CloseCut(p) \/ Crash(p) \/ CommitCut(p) \/ RolloutFails(p)

Next ==
  \/ \E p \in Procs : ProcStep(p) \/ ProcFault(p) \/ Heartbeat(p)
  \/ \E c \in Candidates : Expire(c)
  \/ \E S \in SUBSET Skippable : Skip(S)
  \/ \E S \in SUBSET Skippable : \E c \in S : SkipCut(S, c)
  \/ \E e \in Elements : Abandon(e)
  \/ Status

Spec == Init /\ [][Next]_vars

\* A collector that is alive takes its steps: a rollout ends, a waiting
\* collector polls, a killed one is restarted.  A dead holder's lease runs out.
\* Nobody is obliged to fail, to send heartbeats or to run the status command.
Fairness ==
  /\ \A p \in Procs : WF_vars(ProcStep(p))
  /\ \A c \in Candidates : WF_vars(Expire(c) /\ ~HolderAlive(c))

FairSpec == Spec /\ Fairness

-----------------------------------------------------------------------------
(* Safety *)

\* At most one running collector can publish a candidate: two collectors that
\* work on the same candidate never both pass _lease_is_current_locked.
OneClaimant ==
  \A p, q \in Procs :
    pc[p] = "rollout" /\ pc[q] = "rollout" /\ cand[p] = cand[q] /\ HoldsLease(p) /\ HoldsLease(q)
      => p = q

\* "a late stale process cannot publish after this release": a group never
\* becomes durable under a token whose lease was reclaimed, released, skipped
\* or abandoned, whatever the holder does afterwards.
RevokedNeverPublishes ==
  [][\A c \in Candidates : publisher'[c] # publisher[c] => publisher'[c] \notin revoked]_vars

\* CLOSED.json is consistent with the directories for ever: what was counted
\* is what is there, a trainable selection is large enough and holds only
\* committed groups (the lowest Target ones in target mode, whole rounds in
\* round mode, everything in drain mode), and a window is declared
\* insufficient only when its whole candidate budget is spent.
SelectionSound ==
  /\ IsClosed => closed.completed = Decided
  /\ closed.outcome = "ready" =>
       /\ closed.selected \subseteq accepted
       /\ Cardinality(closed.selected) >= Minimum
       /\ \A c \in accepted \ closed.selected :
            Mode = "target" /\ Cardinality({d \in closed.selected : d < c}) = Target
       /\ Mode = "round" => \E n \in 1..MaxCandidates : Decided = 0..(n * RoundSize - 1)
       /\ Mode = "drain" => Decided = Candidates
  /\ closed.outcome = "insufficient" =>
       Decided = Candidates /\ Cardinality(accepted) < Minimum /\ closed.selected = {}

\* In round mode a rolled-out candidate is decided only when every candidate
\* of the earlier rounds already is, although claim and commit are far apart
\* and the operator may skip candidates of any round in between.
RoundBarrier ==
  Mode = "round" =>
    \A c \in accepted \cup rejected, d \in Candidates :
      d < (c \div RoundSize) * RoundSize => d \in Decided

\* "Release all candidate leases held by a collector known to be dead": after
\* the watcher abandons an array element, no lease belongs to one of its
\* collectors.
AbandonFreesElement ==
  [][\A e \in Elements : Abandon(e) =>
       \A c \in Candidates : lease'[c].token # 0 => Element[lease'[c].owner] # e]_vars

\* "preemption loses at most the group that had not yet reached the durable
\* commit boundary": an initialized window that is not closed can be claimed.
PreemptionKeepsWindow == manifest /\ ~IsClosed => open

-----------------------------------------------------------------------------
(* The inductive invariant behind the safety properties *)

\* Whoever rolls out a candidate took it when its round was ready.
Working ==
  \A p \in Procs : pc[p] = "rollout" => cand[p] \in Candidates /\ RoundReady(cand[p])

\* Tokens are given out once: at most one lease file carries a token, and none
\* carries a revoked one.
LeaseTokens ==
  /\ \A c \in Candidates : lease[c].token < nextToken /\ lease[c].token \notin revoked
  /\ \A c, d \in Candidates : lease[c].token = lease[d].token /\ lease[c].token # 0 => c = d
  /\ \A t \in revoked : t # 0 /\ t < nextToken

\* At most one process carries a token; a fixed-lane collector has none and
\* stays out of the queue.
ProcTokens ==
  /\ \A p \in Procs : token[p] < nextToken
  /\ \A p, q \in Procs : token[p] = token[q] /\ token[p] # 0 => p = q
  /\ ~UseLeases => \A p \in Procs : token[p] = 0 /\ pc[p] \notin {"claim", "poll"}

\* A candidate has one verdict.
OneVerdict ==
  /\ accepted \cap rejected = {} /\ accepted \cap skipped = {} /\ rejected \cap skipped = {}

\* What TLAPS proves inductive.
IInv == TypeOK /\ Working /\ LeaseTokens /\ ProcTokens /\ OneVerdict /\ RoundBarrier

-----------------------------------------------------------------------------
(* Refinement: the window as its users see it *)

Verdict(c) ==
  IF c \in accepted THEN "accepted"
  ELSE IF c \in rejected THEN "rejected"
  ELSE IF c \in skipped THEN "skipped" ELSE "open"

Contract == INSTANCE WindowContract
              WITH verdict <- [c \in Candidates |-> Verdict(c)],
                   outcome <- closed.outcome, selected <- closed.selected

\* The files implement the contract: no verdict is ever changed, none is given
\* after closing, and the window closes once, with a final selection.
ImplementsContract == Contract!Spec

-----------------------------------------------------------------------------
(* Liveness *)

\* A window that was opened is eventually closed, through crashes, failed
\* rollouts, lost leases and skips.  (Fixed-lane collectors look at the window
\* after their own commits only, and leave a last skip to the status command.)
WindowCloses == open /\ UseLeases ~> IsClosed
=============================================================================
