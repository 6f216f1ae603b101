----------------------- MODULE CollectionWindowProofs -----------------------
(* Proofs about CollectionWindow, for every number of collectors,         *)
(* candidates, claims and faults; and that the files of a window keep the  *)
(* promises of WindowContract: every step of the collectors, of the        *)
(* operator and of the watcher is a step of the contract.                  *)
EXTENDS CollectionWindow, FiniteSetTheorems, TLAPS

-----------------------------------------------------------------------------
(* Type correctness *)

LEMMA InitType == Init => TypeOK
<1> SUFFICES ASSUME Init PROVE TypeOK
  OBVIOUS
<1>1. closed \in ClosingRecords
  BY DEF Init, NotClosed, ClosingRecords
<1>2. lease \in [Candidates -> Leases]
  BY DEF Init, NoLease, Leases
<1>3. pc \in [Procs -> PCs]
  BY DEF Init, PCs
<1>4. /\ cand \in [Procs -> Candidates \cup {NoCandidate}]
      /\ warm \in [Procs -> Nat \cup {AnyCondition}]
      /\ publisher \in [Candidates -> Nat]
      /\ revoked \subseteq Nat
  BY DEF Init
<1>5. token \in [Procs -> Nat] /\ nextToken \in Nat \ {0} /\ faults \in Nat
  BY DEF Init
<1>6. /\ accepted \subseteq Candidates /\ rejected \subseteq Candidates
      /\ skipped \subseteq Candidates
  BY DEF Init
<1>7. window \in Windows /\ manifest \in BOOLEAN /\ open \in BOOLEAN
  BY DEF Init
<1> QED
  BY <1>1, <1>2, <1>3, <1>4, <1>5, <1>6, <1>7 DEF TypeOK

LEMMA NoLeaseType == NoLease \in Leases
BY DEF NoLease, Leases

LEMMA LeaseType ==
  ASSUME TypeOK
  PROVE  /\ lease \in [Candidates -> Leases]
         /\ \A c \in Candidates : lease[c].token \in Nat
BY DEF TypeOK, Leases

LEMMA ClosingRecordType == TypeOK => ClosingRecord \in ClosingRecords
BY DEF TypeOK, ClosingRecord, Selection, Decided, ClosingRecords

LEMMA CloseType ==
  ASSUME TypeOK, CloseIfReady
  PROVE  /\ window' = window
         /\ manifest' \in BOOLEAN /\ open' \in BOOLEAN
         /\ closed' \in ClosingRecords
         /\ accepted' \subseteq Candidates /\ rejected' \subseteq Candidates
         /\ skipped' \subseteq Candidates
BY ClosingRecordType DEF TypeOK, CloseIfReady, WriteClosed

LEMMA ProcStepType ==
  ASSUME TypeOK, Working, NEW p \in Procs, ProcStep(p)
  PROVE  TypeOK'
<1> USE DEF storeVars, leaseVars, procVars, Become, LetGo
<1>1. CASE Start(p)
  <2>1. SlotOf[p] % Conditions \in Nat
    BY CollectorAssumption
  <2> QED
    BY <1>1, <2>1 DEF TypeOK, Start, PCs
<1>2. CASE CloseAfterCommit(p)
  BY <1>2, CloseType DEF TypeOK, CloseAfterCommit, PCs
<1>3. CASE Poll(p)
  BY <1>3, CloseType DEF TypeOK, Poll, PCs
<1>4. CASE ClaimGranted(p)
  <2>1. PICK c \in Candidates :
          /\ lease' = [d \in Candidates |->
               IF d = c THEN [owner |-> OwnerOf[p], token |-> nextToken, expired |-> FALSE]
               ELSE IF d \in Swept(p, c) THEN NoLease ELSE lease[d]]
          /\ revoked' = revoked \cup ({lease[c].token} \ {0})
          /\ cand' = [cand EXCEPT ![p] = c]
          /\ token' = [token EXCEPT ![p] = nextToken]
          /\ warm' = [warm EXCEPT ![p] = Condition(c)]
    BY <1>4 DEF ClaimGranted
  <2>2. Condition(c) \in Nat
    BY SpecAssumption, CollectorAssumption DEF Condition, Candidates
  <2>3. [owner |-> OwnerOf[p], token |-> nextToken, expired |-> FALSE] \in Leases
    BY CollectorAssumption DEF TypeOK, Leases
  <2>4. lease' \in [Candidates -> Leases]
    BY <2>1, <2>3, NoLeaseType DEF TypeOK
  <2>5. revoked' \subseteq Nat
    BY <2>1, LeaseType DEF TypeOK
  <2>6. /\ pc' \in [Procs -> PCs] /\ cand' \in [Procs -> Candidates \cup {NoCandidate}]
        /\ token' \in [Procs -> Nat] /\ warm' \in [Procs -> Nat \cup {AnyCondition}]
        /\ nextToken' \in Nat \ {0}
    BY <1>4, <2>1, <2>2 DEF TypeOK, ClaimGranted, PCs
  <2> QED
    BY <1>4, <2>4, <2>5, <2>6 DEF TypeOK, ClaimGranted
<1>5. CASE ClaimNothing(p)
  <2>1. lease' \in [Candidates -> Leases]
    BY <1>5, NoLeaseType, LeaseType DEF ClaimNothing
  <2>2. pc' \in [Procs -> PCs] /\ warm' \in [Procs -> Nat \cup {AnyCondition}]
    BY <1>5 DEF TypeOK, ClaimNothing, PCs
  <2> QED
    BY <1>5, <2>1, <2>2 DEF TypeOK, ClaimNothing
<1>6. CASE ClaimRaises(p)
  BY <1>6 DEF TypeOK, ClaimRaises, PCs
<1>7. CASE Release(p)
  <2>1. lease' \in [Candidates -> Leases]
    BY <1>7, NoLeaseType, LeaseType DEF Release, HoldsLease
  <2>2. revoked \subseteq Nat /\ token[p] \in Nat
    BY DEF TypeOK
  <2>3. revoked' \subseteq Nat
    BY <1>7, <2>2 DEF Release
  <2> QED
    BY <1>7, <2>1, <2>3 DEF TypeOK, Release, PCs
<1>8. CASE LaneTake(p)
  BY <1>8 DEF TypeOK, LaneTake, PCs
<1>9. CASE LaneStop(p)
  BY <1>9 DEF TypeOK, LaneStop, PCs
<1>10. CASE CommitRefused(p)
  BY <1>10 DEF TypeOK, CommitRefused, PCs
<1>11. CASE CommitRaises(p)
  BY <1>11 DEF TypeOK, CommitRaises, PCs
<1>12. CASE Commit(p)
  <2>1. cand[p] \in Candidates
    BY <1>12 DEF Working, Commit
  <2>2. lease' \in [Candidates -> Leases]
    BY <1>12, <2>1, NoLeaseType DEF TypeOK, Commit
  <2> QED
    BY <1>12, <2>1, <2>2 DEF TypeOK, Commit, Publish, PCs
<1> QED
  BY <1>1, <1>2, <1>3, <1>4, <1>5, <1>6, <1>7, <1>8, <1>9, <1>10, <1>11, <1>12 DEF ProcStep

LEMMA OtherStepType ==
  ASSUME TypeOK, Working, [Next]_vars, ~ \E p \in Procs : ProcStep(p)
  PROVE  TypeOK'
<1> USE DEF storeVars, leaseVars, procVars, Become, LetGo, Fault
<1>1. ASSUME NEW p \in Procs, StartCut(p) PROVE TypeOK'
  BY <1>1 DEF TypeOK, StartCut
<1>2. ASSUME NEW p \in Procs, CloseCut(p) PROVE TypeOK'
  BY <1>2, ClosingRecordType DEF TypeOK, CloseCut, WriteClosed, PCs
<1>3. ASSUME NEW p \in Procs, Crash(p) PROVE TypeOK'
  BY <1>3 DEF TypeOK, Crash, PCs
<1>4. ASSUME NEW p \in Procs, CommitCut(p) PROVE TypeOK'
  <2>1. cand[p] \in Candidates
    BY <1>4 DEF Working, CommitCut
  <2> QED
    BY <1>4, <2>1 DEF TypeOK, CommitCut, Publish, PCs
<1>5. ASSUME NEW p \in Procs, RolloutFails(p) PROVE TypeOK'
  BY <1>5 DEF TypeOK, RolloutFails, PCs
<1>6. ASSUME NEW p \in Procs, Heartbeat(p) PROVE TypeOK'
  <2>1. lease' \in [Candidates -> Leases]
    <3>1. CASE HoldsLease(p)
      <4>1. cand[p] \in Candidates /\ lease' = [lease EXCEPT ![cand[p]].expired = FALSE]
        BY <1>6, <3>1 DEF Heartbeat, HoldsLease
      <4> QED
        BY <4>1, LeaseType DEF Leases
    <3>2. CASE ~HoldsLease(p)
      BY <1>6, <3>2, LeaseType DEF Heartbeat
    <3> QED
      BY <3>1, <3>2
  <2>2. pc' \in [Procs -> PCs]
    BY <1>6 DEF TypeOK, Heartbeat, PCs
  <2> QED
    BY <1>6, <2>1, <2>2 DEF TypeOK, Heartbeat
<1>7. ASSUME NEW c \in Candidates, Expire(c) PROVE TypeOK'
  <2>1. lease' \in [Candidates -> Leases]
    BY <1>7, LeaseType DEF Expire, Leases
  <2>2. faults' \in Nat
    BY <1>7 DEF TypeOK, Expire
  <2> QED
    BY <1>7, <2>1, <2>2 DEF TypeOK, Expire
<1>8. ASSUME NEW S \in SUBSET Skippable, NEW K, SkipCall(S, K) PROVE TypeOK'
  <2>1. lease' \in [Candidates -> Leases]
    BY <1>8, NoLeaseType DEF TypeOK, SkipCall
  <2>2. revoked \subseteq Nat /\ S \subseteq Candidates
    BY CollectorAssumption DEF TypeOK
  <2>3. revoked' \subseteq Nat
    BY <1>8, <2>2, LeaseType DEF SkipCall
  <2> QED
    BY <1>8, <2>1, <2>2, <2>3 DEF TypeOK, SkipCall
<1>9. ASSUME NEW e \in Elements, Abandon(e) PROVE TypeOK'
  <2>1. lease' \in [Candidates -> Leases]
    BY <1>9, NoLeaseType, LeaseType DEF Abandon
  <2>2. revoked' \subseteq Nat
    BY <1>9, LeaseType DEF TypeOK, Abandon
  <2> QED
    BY <1>9, <2>1, <2>2 DEF TypeOK, Abandon
<1>10. CASE Status
  BY <1>10, CloseType DEF TypeOK, Status
<1>11. CASE UNCHANGED vars
  BY <1>11 DEF TypeOK, vars
<1> QED
  BY <1>1, <1>2, <1>3, <1>4, <1>5, <1>6, <1>7, <1>8, <1>9, <1>10, <1>11
     DEF Next, ProcFault, Skip, SkipCut
-----------------------------------------------------------------------------
(* Lease tokens *)

\* Rewriting lease files without new tokens, removing those of R and revoking
\* at most the tokens that were in them, keeps LeaseTokens.
LEMMA LeasesOnlyRemoved ==
  ASSUME TypeOK, LeaseTokens, NEW R \in SUBSET Candidates,
         nextToken' = nextToken,
         \A c \in Candidates : lease'[c].token = IF c \in R THEN 0 ELSE lease[c].token,
         \A t \in revoked' : t \in revoked \/ (\E c \in R : t = lease[c].token /\ t # 0)
  PROVE  LeaseTokens'
<1>1. ASSUME NEW t \in revoked' PROVE t # 0 /\ t < nextToken
  BY <1>1 DEF LeaseTokens
<1>2. ASSUME NEW c \in Candidates
      PROVE  lease'[c].token < nextToken /\ lease'[c].token \notin revoked'
  <2>1. lease'[c].token \in {0, lease[c].token} /\ (c \in R => lease'[c].token = 0)
    BY <1>2
  <2>2. 0 < nextToken /\ lease[c].token < nextToken
    BY <1>2 DEF TypeOK, LeaseTokens
  <2>3. ASSUME lease'[c].token \in revoked' PROVE FALSE
    <3>1. lease'[c].token # 0 /\ c \notin R /\ lease'[c].token = lease[c].token
      BY <2>1, <2>3, <1>1
    <3>2. lease[c].token \notin revoked
      BY <1>2 DEF LeaseTokens
    <3>3. PICK d \in R : lease[c].token = lease[d].token
      BY <2>3, <3>1, <3>2
    <3> QED
      BY <3>1, <3>3, <1>2 DEF LeaseTokens
  <2> QED
    BY <2>1, <2>2, <2>3
<1>3. ASSUME NEW c \in Candidates, NEW d \in Candidates,
             lease'[c].token = lease'[d].token, lease'[c].token # 0
      PROVE  c = d
  BY <1>3 DEF LeaseTokens
<1> QED
  BY <1>1, <1>2, <1>3 DEF LeaseTokens

LEMMA LeasesRewritten ==
  ASSUME TypeOK, LeaseTokens, nextToken' = nextToken, revoked' = revoked,
         \A c \in Candidates : lease'[c].token = lease[c].token
  PROVE  LeaseTokens'
BY DEF LeaseTokens

LEMMA LeasesUntouched ==
  ASSUME LeaseTokens, UNCHANGED leaseVars
  PROVE  LeaseTokens'
BY DEF LeaseTokens, leaseVars

LEMMA ClaimLeaseTokens ==
  ASSUME TypeOK, LeaseTokens, NEW p \in Procs, ClaimGranted(p)
  PROVE  LeaseTokens'
<1>1. PICK c \in Candidates :
        /\ lease' = [d \in Candidates |->
             IF d = c THEN [owner |-> OwnerOf[p], token |-> nextToken, expired |-> FALSE]
             ELSE IF d \in Swept(p, c) THEN NoLease ELSE lease[d]]
        /\ revoked' = revoked \cup ({lease[c].token} \ {0})
  BY DEF ClaimGranted
<1>2. nextToken' = nextToken + 1
  BY DEF ClaimGranted
<1>3. /\ lease'[c].token = nextToken
      /\ \A d \in Candidates \ {c} : lease'[d].token \in {0, lease[d].token}
  BY <1>1 DEF NoLease
<1>4. nextToken \in Nat \ {0} /\ nextToken \notin revoked /\ 0 \notin revoked
  BY DEF TypeOK, LeaseTokens
<1> QED
  BY <1>1, <1>2, <1>3, <1>4, LeaseType DEF TypeOK, LeaseTokens

LEMMA LeaseTokensStep ==
  ASSUME TypeOK, Working, LeaseTokens, [Next]_vars
  PROVE  LeaseTokens'
<1>1. CASE UNCHANGED leaseVars
  BY <1>1, LeasesUntouched
<1>2. ASSUME NEW p \in Procs, ClaimGranted(p) PROVE LeaseTokens'
  BY <1>2, ClaimLeaseTokens
<1>3. ASSUME NEW p \in Procs, ClaimNothing(p) PROVE LeaseTokens'
  <2> DEFINE R == IF IsClosed THEN {} ELSE Swept(p, MaxCandidates)
  <2>1. R \in SUBSET Candidates
    BY DEF Swept, Queue
  <2>2. \A c \in Candidates : lease'[c].token = IF c \in R THEN 0 ELSE lease[c].token
    BY <1>3 DEF ClaimNothing, NoLease
  <2> HIDE DEF R
  <2> QED
    BY <1>3, <2>1, <2>2, LeasesOnlyRemoved DEF ClaimNothing
<1>4. ASSUME NEW p \in Procs, Heartbeat(p) PROVE LeaseTokens'
  <2>1. \A c \in Candidates : lease'[c].token = lease[c].token
    BY <1>4, LeaseType DEF Heartbeat, HoldsLease, Leases
  <2> QED
    BY <1>4, <2>1, LeasesRewritten DEF Heartbeat
<1>5. ASSUME NEW p \in Procs, Release(p) PROVE LeaseTokens'
  <2>1. CASE HoldsLease(p)
    <3>1. /\ cand[p] \in Candidates /\ token[p] = lease[cand[p]].token /\ token[p] # 0
          /\ lease' = [lease EXCEPT ![cand[p]] = NoLease]
          /\ revoked' = revoked \cup {token[p]}
          /\ nextToken' = nextToken
      BY <1>5, <2>1 DEF Release, HoldsLease
    <3>2. \A c \in Candidates : lease'[c].token = IF c \in {cand[p]} THEN 0 ELSE lease[c].token
      BY <3>1, LeaseType DEF NoLease
    <3> QED
      BY <3>1, <3>2, LeasesOnlyRemoved
  <2>2. CASE ~HoldsLease(p)
    BY <1>5, <2>2, LeasesUntouched DEF Release, leaseVars
  <2> QED
    BY <2>1, <2>2
<1>6. ASSUME NEW p \in Procs, Commit(p) PROVE LeaseTokens'
  <2>1. cand[p] \in Candidates
    BY <1>6 DEF Working, Commit
  <2>2. \A c \in Candidates : lease'[c].token = IF c \in {cand[p]} THEN 0 ELSE lease[c].token
    BY <1>6, <2>1, LeaseType DEF Commit, NoLease
  <2> QED
    BY <1>6, <2>1, <2>2, LeasesOnlyRemoved DEF Commit
<1>7. ASSUME NEW c \in Candidates, Expire(c) PROVE LeaseTokens'
  <2>1. \A d \in Candidates : lease'[d].token = lease[d].token
    BY <1>7, LeaseType DEF Expire, Leases
  <2> QED
    BY <1>7, <2>1, LeasesRewritten DEF Expire
<1>8. ASSUME NEW S \in SUBSET Skippable, NEW K, SkipCall(S, K) PROVE LeaseTokens'
  <2> DEFINE R == (S \ Decided) \ K
  <2>1. R \in SUBSET Candidates
    BY CollectorAssumption
  <2>2. \A c \in Candidates : lease'[c].token = IF c \in R THEN 0 ELSE lease[c].token
    BY <1>8 DEF SkipCall, NoLease
  <2>3. \A t \in revoked' : t \in revoked \/ (\E c \in R : t = lease[c].token /\ t # 0)
    BY <1>8 DEF SkipCall
  <2> HIDE DEF R
  <2> QED
    BY <1>8, <2>1, <2>2, <2>3, LeasesOnlyRemoved DEF SkipCall
<1>9. ASSUME NEW e \in Elements, Abandon(e) PROVE LeaseTokens'
  <2> DEFINE R == {c \in Candidates : lease[c].token # 0 /\ lease[c].owner = ElementOwner[e]}
  <2>1. \A c \in Candidates : lease'[c].token = IF c \in R THEN 0 ELSE lease[c].token
    BY <1>9 DEF Abandon, NoLease
  <2>2. \A t \in revoked' : t \in revoked \/ (\E c \in R : t = lease[c].token /\ t # 0)
    BY <1>9 DEF Abandon
  <2> QED
    BY <1>9, <2>1, <2>2, LeasesOnlyRemoved DEF Abandon
<1>10. CASE \E p \in Procs : \/ Start(p) \/ CloseAfterCommit(p) \/ Poll(p) \/ ClaimRaises(p)
                            \/ LaneTake(p) \/ LaneStop(p) \/ CommitRefused(p) \/ CommitRaises(p)
                            \/ ProcFault(p)
  BY <1>10, LeasesUntouched
     DEF Start, CloseAfterCommit, Poll, ClaimRaises, LaneTake, LaneStop, CommitRefused,
         CommitRaises, ProcFault, StartCut, CloseCut, Crash, CommitCut, RolloutFails
<1>11. CASE Status
  BY <1>11, LeasesUntouched DEF Status
<1>12. CASE UNCHANGED vars
  BY <1>12, LeasesUntouched DEF vars
<1> QED
  BY <1>2, <1>3, <1>4, <1>5, <1>6, <1>7, <1>8, <1>9, <1>10, <1>11, <1>12
     DEF Next, ProcStep, Skip, SkipCut

-----------------------------------------------------------------------------
(* Process tokens *)

\* The configuration of a window is final.
LEMMA WindowFinal ==
  ASSUME [Next]_vars
  PROVE  window' = window
<1> USE DEF storeVars
<1>1. ASSUME NEW p \in Procs, ProcStep(p) PROVE window' = window
  BY <1>1 DEF ProcStep, Start, CloseAfterCommit, Poll, ClaimGranted, ClaimNothing, ClaimRaises,
             Release, LaneTake, LaneStop, CommitRefused, CommitRaises, Commit, Publish, CloseIfReady
<1>2. ASSUME NEW p \in Procs, ProcFault(p) \/ Heartbeat(p) PROVE window' = window
  BY <1>2 DEF ProcFault, StartCut, CloseCut, Crash, CommitCut, Publish, RolloutFails, Heartbeat
<1> QED
  BY <1>1, <1>2
     DEF Next, Skip, SkipCut, SkipCall, Expire, Abandon, Status, CloseIfReady, vars

LEMMA SettingsFinal ==
  ASSUME [Next]_vars
  PROVE  Mode' = Mode /\ UseLeases' = UseLeases
BY WindowFinal DEF Mode, UseLeases

LEMMA SettingsType ==
  ASSUME TypeOK
  PROVE  UseLeases \in BOOLEAN
BY SpecAssumption DEF TypeOK, UseLeases

\* A process that gives up its lease, or keeps it, while nobody gets one.
LEMMA TokensKept ==
  ASSUME TypeOK, ProcTokens,
         nextToken' = nextToken, UseLeases' = UseLeases,
         \A p \in Procs : token'[p] \in {0, token[p]},
         ~UseLeases => \A p \in Procs : pc'[p] \notin {"claim", "poll"}
  PROVE  ProcTokens'
<1>1. 0 < nextToken
  BY DEF TypeOK
<1> QED
  BY <1>1 DEF ProcTokens

LEMMA ProcTokensStep ==
  ASSUME TypeOK, ProcTokens, [Next]_vars
  PROVE  ProcTokens'
<1> USE DEF procVars, leaseVars, Become, LetGo
<1>1. ASSUME NEW p \in Procs, ClaimGranted(p) PROVE ProcTokens'
  <2>1. nextToken' = nextToken + 1 /\ token' = [token EXCEPT ![p] = nextToken] /\ pc[p] = "claim"
    BY <1>1 DEF ClaimGranted
  <2>2. UseLeases /\ UseLeases' = UseLeases
    BY <2>1, SettingsType, SettingsFinal DEF ProcTokens
  <2>3. nextToken \in Nat \ {0} /\ token \in [Procs -> Nat]
    BY DEF TypeOK
  <2> QED
    BY <2>1, <2>2, <2>3 DEF ProcTokens
<1>2. ASSUME NEW p \in Procs, ProcStep(p), ~ClaimGranted(p) PROVE ProcTokens'
  <2>1. nextToken' = nextToken
    BY <1>2 DEF ProcStep, Start, CloseAfterCommit, Poll, ClaimNothing, ClaimRaises, Release,
               LaneTake, LaneStop, CommitRefused, CommitRaises, Commit
  <2>2. \A q \in Procs : token'[q] \in {0, token[q]}
    BY <1>2 DEF TypeOK, ProcStep, Start, CloseAfterCommit, Poll, ClaimNothing, ClaimRaises,
               Release, LaneTake, LaneStop, CommitRefused, CommitRaises, Commit
  <2>3. ASSUME ~UseLeases, NEW q \in Procs PROVE pc'[q] \notin {"claim", "poll"}
    <3>1. pc[p] \notin {"claim", "poll"} /\ pc[q] \notin {"claim", "poll"}
      BY <2>3 DEF ProcTokens
    <3>2. pc \in [Procs -> PCs]
      BY DEF TypeOK
    <3> QED
      BY <1>2, <2>3, <3>1, <3>2
         DEF ProcStep, Start, CloseAfterCommit, Poll, ClaimNothing, ClaimRaises, Release,
             LaneTake, LaneStop, CommitRefused, CommitRaises, Commit
  <2> QED
    BY <2>1, <2>2, <2>3, TokensKept, SettingsFinal
<1>3. ASSUME NEW p \in Procs, ProcFault(p) \/ Heartbeat(p) PROVE ProcTokens'
  <2>1. nextToken' = nextToken
    BY <1>3 DEF ProcFault, StartCut, CloseCut, Crash, CommitCut, RolloutFails, Heartbeat
  <2>2. \A q \in Procs : token'[q] \in {0, token[q]}
    BY <1>3 DEF TypeOK, ProcFault, StartCut, CloseCut, Crash, CommitCut, RolloutFails, Heartbeat
  <2>3. ASSUME ~UseLeases, NEW q \in Procs PROVE pc'[q] \notin {"claim", "poll"}
    <3>1. pc[q] \notin {"claim", "poll"} /\ pc \in [Procs -> PCs]
      BY <2>3 DEF ProcTokens, TypeOK
    <3> QED
      BY <1>3, <3>1 DEF ProcFault, StartCut, CloseCut, Crash, CommitCut, RolloutFails, Heartbeat
  <2> QED
    BY <2>1, <2>2, <2>3, TokensKept, SettingsFinal
<1>4. CASE UNCHANGED <<pc, token, nextToken>>
  BY <1>4, SettingsFinal DEF ProcTokens
<1> QED
  BY <1>1, <1>2, <1>3, <1>4
     DEF Next, Skip, SkipCut, SkipCall, Expire, Abandon, Status, vars

-----------------------------------------------------------------------------
(* Verdicts and rounds *)

LEMMA VerdictsKept ==
  ASSUME [Next]_vars
  PROVE  accepted \subseteq accepted' /\ rejected \subseteq rejected' /\ skipped \subseteq skipped'
<1> USE DEF storeVars
<1>1. ASSUME NEW p \in Procs, ProcStep(p)
      PROVE  accepted \subseteq accepted' /\ rejected \subseteq rejected' /\ skipped \subseteq skipped'
  BY <1>1 DEF ProcStep, Start, CloseAfterCommit, Poll, ClaimGranted, ClaimNothing, ClaimRaises,
             Release, LaneTake, LaneStop, CommitRefused, CommitRaises, Commit, Publish, CloseIfReady
<1>2. ASSUME NEW p \in Procs, ProcFault(p) \/ Heartbeat(p)
      PROVE  accepted \subseteq accepted' /\ rejected \subseteq rejected' /\ skipped \subseteq skipped'
  BY <1>2 DEF ProcFault, StartCut, CloseCut, Crash, CommitCut, Publish, RolloutFails, Heartbeat
<1> QED
  BY <1>1, <1>2
     DEF Next, Skip, SkipCut, SkipCall, Expire, Abandon, Status, CloseIfReady, vars

LEMMA RoundStaysReady ==
  ASSUME [Next]_vars, NEW c \in Candidates, RoundReady(c)
  PROVE  RoundReady(c)'
BY VerdictsKept, SettingsFinal DEF RoundReady, Decided

\* Whoever rolls out after a step did before it, or has just taken its candidate.
LEMMA WorkingStep ==
  ASSUME TypeOK, Working, [Next]_vars
  PROVE  Working'
<1> USE DEF procVars, Become, LetGo
<1> SUFFICES ASSUME NEW q \in Procs, pc'[q] = "rollout", NEW c, cand'[q] = c
             PROVE  c \in Candidates /\ RoundReady(c)'
  BY DEF Working, RoundReady
<1>0. ASSUME c \in Candidates, RoundReady(c) PROVE RoundReady(c)'
  BY <1>0, RoundStaysReady
<1>1. CASE pc[q] = "rollout" /\ cand'[q] = cand[q]
  <2>1. c \in Candidates /\ RoundReady(c)
    BY <1>1 DEF Working, RoundReady
  <2> QED
    BY <1>0, <2>1
<1>2. CASE ClaimGranted(q)
  <2>1. PICK d \in Candidates : FirstOf(d, Claimable(q)) /\ cand' = [cand EXCEPT ![q] = d]
    BY <1>2 DEF ClaimGranted
  <2>2. RoundReady(d) /\ c = d
    BY <2>1 DEF FirstOf, Claimable, Queue, TypeOK
  <2> QED
    BY <1>0, <2>2
<1>3. CASE LaneTake(q)
  <2>1. PICK d \in Candidates : RoundReady(d) /\ cand' = [cand EXCEPT ![q] = d]
    BY <1>3 DEF LaneTake
  <2>2. c = d
    BY <2>1 DEF TypeOK
  <2> QED
    BY <1>0, <2>1, <2>2
<1>4. ASSUME NEW p \in Procs, ProcStep(p), ~ClaimGranted(q), ~LaneTake(q)
      PROVE  pc[q] = "rollout" /\ cand'[q] = cand[q]
  <2>1. pc \in [Procs -> PCs] /\ cand \in [Procs -> Candidates \cup {NoCandidate}]
    BY DEF TypeOK
  <2> QED
    BY <1>4, <2>1
       DEF ProcStep, Start, CloseAfterCommit, Poll, ClaimGranted, ClaimNothing, ClaimRaises,
           Release, LaneTake, LaneStop, CommitRefused, CommitRaises, Commit
<1>5. ASSUME NEW p \in Procs, ProcFault(p) \/ Heartbeat(p)
      PROVE  pc[q] = "rollout" /\ cand'[q] = cand[q]
  <2>1. pc \in [Procs -> PCs] /\ cand \in [Procs -> Candidates \cup {NoCandidate}]
    BY DEF TypeOK
  <2> QED
    BY <1>5, <2>1 DEF ProcFault, StartCut, CloseCut, Crash, CommitCut, RolloutFails, Heartbeat
<1>6. CASE UNCHANGED <<pc, cand>>
  BY <1>1, <1>6
<1> QED
  BY <1>1, <1>2, <1>3, <1>4, <1>5, <1>6
     DEF Next, Skip, SkipCut, SkipCall, Expire, Abandon, Status, vars

\* The two ways verdicts are given.
LEMMA VerdictSteps ==
  ASSUME [Next]_vars
  PROVE  \/ UNCHANGED <<accepted, rejected, skipped>>
         \/ \E S \in SUBSET Skippable : /\ ~IsClosed /\ skipped' = skipped \cup (S \ Decided)
                                         /\ UNCHANGED <<closed, accepted, rejected>>
         \/ \E p \in Procs, informative \in BOOLEAN :
              pc[p] = "rollout" /\ ~Refused(p) /\ Publish(p, informative)
<1> USE DEF storeVars
<1>1. ASSUME NEW p \in Procs, Commit(p) \/ CommitCut(p)
      PROVE  \E informative \in BOOLEAN :
               pc[p] = "rollout" /\ ~Refused(p) /\ Publish(p, informative)
  BY <1>1 DEF Commit, CommitCut
<1>2. ASSUME NEW p \in Procs, ProcStep(p), ~Commit(p)
      PROVE  UNCHANGED <<accepted, rejected, skipped>>
  BY <1>2 DEF ProcStep, Start, CloseAfterCommit, Poll, ClaimGranted, ClaimNothing, ClaimRaises,
             Release, LaneTake, LaneStop, CommitRefused, CommitRaises, CloseIfReady
<1>3. ASSUME NEW p \in Procs, ProcFault(p) \/ Heartbeat(p), ~CommitCut(p)
      PROVE  UNCHANGED <<accepted, rejected, skipped>>
  BY <1>3 DEF ProcFault, StartCut, CloseCut, Crash, RolloutFails, Heartbeat
<1> QED
  BY <1>1, <1>2, <1>3
     DEF Next, Skip, SkipCut, SkipCall, IsOpen, Expire, Abandon, Status, CloseIfReady, vars

LEMMA PublisherSteps ==
  ASSUME [Next]_vars, publisher' # publisher
  PROVE  \E p \in Procs, informative \in BOOLEAN :
           pc[p] = "rollout" /\ ~Refused(p) /\ Publish(p, informative)
<1>1. ASSUME NEW p \in Procs, Commit(p) \/ CommitCut(p)
      PROVE  \E informative \in BOOLEAN :
               pc[p] = "rollout" /\ ~Refused(p) /\ Publish(p, informative)
  BY <1>1 DEF Commit, CommitCut
<1>2. ASSUME NEW p \in Procs, ProcStep(p) PROVE Commit(p)
  BY <1>2 DEF ProcStep, Start, CloseAfterCommit, Poll, ClaimGranted, ClaimNothing, ClaimRaises,
             Release, LaneTake, LaneStop, CommitRefused, CommitRaises
<1>3. ASSUME NEW p \in Procs, ProcFault(p) \/ Heartbeat(p) PROVE CommitCut(p)
  BY <1>3 DEF ProcFault, StartCut, CloseCut, Crash, RolloutFails, Heartbeat
<1> QED
  BY <1>1, <1>2, <1>3 DEF Next, Skip, SkipCut, SkipCall, Expire, Abandon, Status, vars

LEMMA OneVerdictStep ==
  ASSUME OneVerdict, [Next]_vars
  PROVE  OneVerdict'
BY VerdictSteps DEF OneVerdict, Decided, Refused, Publish

LEMMA RoundBarrierStep ==
  ASSUME TypeOK, Working, RoundBarrier, [Next]_vars
  PROVE  RoundBarrier'
<1> SUFFICES ASSUME Mode = "round",
                    NEW c \in accepted' \cup rejected', NEW d \in Candidates, d < RoundStart(c)
             PROVE  d \in Decided'
  BY SettingsFinal DEF RoundBarrier, RoundStart
<1>1. CASE c \in accepted \cup rejected
  BY <1>1, VerdictsKept DEF RoundBarrier, RoundStart, Decided
<1>2. CASE c \notin accepted \cup rejected
  <2>1. PICK p \in Procs : pc[p] = "rollout" /\ c = cand[p]
    BY <1>2, VerdictSteps DEF Publish
  <2>2. d \in Decided
    BY <2>1 DEF Working, RoundReady
  <2> QED
    BY <2>2, VerdictsKept DEF Decided
<1> QED
  BY <1>1, <1>2

-----------------------------------------------------------------------------
(* The theorems *)

LEMMA IInvInit == Init => IInv
<1> SUFFICES ASSUME Init PROVE IInv
  OBVIOUS
<1>1. Working
  BY DEF Init, Working
<1>2. LeaseTokens /\ ProcTokens
  BY DEF Init, LeaseTokens, ProcTokens, NoLease
<1>3. OneVerdict /\ RoundBarrier
  BY DEF Init, OneVerdict, RoundBarrier
<1> QED
  BY <1>1, <1>2, <1>3, InitType DEF IInv

LEMMA IInvStep == IInv /\ [Next]_vars => IInv'
<1> SUFFICES ASSUME IInv, [Next]_vars PROVE IInv'
  OBVIOUS
<1>1. TypeOK'
  BY ProcStepType, OtherStepType DEF IInv
<1>2. Working'
  BY WorkingStep DEF IInv
<1>3. LeaseTokens' /\ ProcTokens'
  BY LeaseTokensStep, ProcTokensStep DEF IInv
<1>4. OneVerdict' /\ RoundBarrier'
  BY OneVerdictStep, RoundBarrierStep DEF IInv
<1> QED
  BY <1>1, <1>2, <1>3, <1>4 DEF IInv

\* The invariant of the window and its collectors is inductive.
THEOREM Invariance == Spec => []IInv
BY IInvInit, IInvStep, PTL DEF Spec

\* Every variable keeps its type: no store operation leaves the window or a
\* collector in a shape the next one does not expect.
THEOREM TypeCorrect == Spec => []TypeOK
<1>1. IInv => TypeOK
  BY DEF IInv
<1> QED
  BY <1>1, Invariance, PTL

\* Two collectors never both hold the current lease of one candidate, however
\* often leases expire, are reclaimed, skipped or abandoned.
THEOREM ClaimsExclude == Spec => []OneClaimant
<1>1. IInv => OneClaimant
  BY DEF IInv, ProcTokens, OneClaimant, HoldsLease
<1> QED
  BY <1>1, Invariance, PTL

\* In round mode no group of a later round is ever durable before the earlier
\* rounds are decided.
THEOREM RoundsInOrder == Spec => []RoundBarrier
<1>1. IInv => RoundBarrier
  BY DEF IInv
<1> QED
  BY <1>1, Invariance, PTL

\* commit_group never publishes under a token that was taken away.
THEOREM StaleNeverPublishes == Spec => RevokedNeverPublishes
<1>1. ASSUME IInv, [Next]_vars, NEW c \in Candidates, publisher'[c] # publisher[c]
      PROVE  publisher'[c] \notin revoked
  <2>1. PICK p \in Procs, informative \in BOOLEAN :
          pc[p] = "rollout" /\ ~Refused(p) /\ Publish(p, informative)
    BY <1>1, PublisherSteps
  <2>2. c = cand[p] /\ publisher'[c] = token[p]
    BY <1>1, <2>1 DEF Publish, IInv, TypeOK
  <2>3. CASE UseLeases
    <3>1. cand[p] \in Candidates /\ lease[cand[p]].token = token[p]
      BY <2>1, <2>3 DEF Refused, StaleLease, HoldsLease
    <3>2. lease[cand[p]].token \notin revoked
      BY <1>1, <3>1 DEF IInv, LeaseTokens
    <3> QED
      BY <2>2, <3>1, <3>2
  <2>4. CASE ~UseLeases
    <3>1. token[p] = 0
      BY <1>1, <2>4 DEF IInv, ProcTokens
    <3>2. 0 \notin revoked
      BY <1>1 DEF IInv, LeaseTokens
    <3> QED
      BY <2>2, <3>1, <3>2
  <2>5. UseLeases \in BOOLEAN
    BY <1>1, SettingsType DEF IInv
  <2> QED
    BY <2>3, <2>4, <2>5
<1>2. IInv /\ [Next]_vars =>
        [\A c \in Candidates : publisher'[c] # publisher[c] => publisher'[c] \notin revoked]_vars
  BY <1>1
<1> QED
  BY <1>2, Invariance, PTL DEF Spec, RevokedNeverPublishes

-----------------------------------------------------------------------------
(* Sets of candidates *)

LEMMA CandidatesFinite ==
  /\ MaxCandidates \in Nat
  /\ Candidates \subseteq Nat
  /\ IsFiniteSet(Candidates) /\ Cardinality(Candidates) = MaxCandidates
  /\ \A S \in SUBSET Candidates : IsFiniteSet(S) /\ Cardinality(S) \in Nat
<1>1. MaxCandidates \in Nat /\ 1 <= MaxCandidates
  BY SpecAssumption
<1>2. IsFiniteSet(Candidates) /\ Cardinality(Candidates) = MaxCandidates
  BY <1>1, FS_Interval DEF Candidates
<1>3. ASSUME NEW S \in SUBSET Candidates PROVE IsFiniteSet(S) /\ Cardinality(S) \in Nat
  BY <1>2, FS_Subset, FS_CardinalityType
<1> QED
  BY <1>1, <1>2, <1>3 DEF Candidates

\* A set of candidates that is not empty has a first and a last member.
LEMMA FirstCandidate ==
  ASSUME NEW S \in SUBSET Candidates, S # {}
  PROVE  \E m \in S : \A c \in S : m <= c
<1> DEFINE Upto(c) == {d \in Candidates : d <= c}
          F == {Upto(c) : c \in S}
<1>1. F \subseteq FiniteSubsetsOf(Candidates) /\ F # {}
  <2>1. F \subseteq SUBSET Candidates /\ F # {}
    OBVIOUS
  <2>2. FiniteSubsetsOf(Candidates) = SUBSET Candidates
    BY CandidatesFinite, FS_FiniteSubsetsOfFinite
  <2> QED
    BY <2>1, <2>2
<1>2. IsWellFoundedOn(StrictSubsetOrdering(Candidates), FiniteSubsetsOf(Candidates))
  BY FS_StrictSubsetOrderingWellFounded
<1>3. PICK U \in F : \A V \in F : ~ (<<V, U>> \in StrictSubsetOrdering(Candidates))
  <2> HIDE DEF F
  <2> QED
    BY <1>1, <1>2, WFMin
<1>4. PICK m \in S : U = Upto(m)
  BY <1>3
<1>5. ASSUME NEW c \in S PROVE m <= c
  <2>1. m \in Candidates /\ c \in Candidates /\ m \in Nat /\ c \in Nat /\ Candidates \subseteq Nat
    BY CandidatesFinite
  <2>2. SUFFICES ASSUME c < m PROVE FALSE
    BY <2>1
  <2>3. Upto(c) \subseteq Upto(m) /\ m \in Upto(m) /\ m \notin Upto(c)
    <3>1. ASSUME NEW d \in Upto(c) PROVE d \in Upto(m)
      <4>1. d \in Nat /\ d \in Candidates /\ d <= c
        BY <2>1
      <4> QED
        BY <2>1, <2>2, <4>1
    <3>2. m \in Upto(m)
      BY <2>1
    <3>3. ~ (m <= c)
      BY <2>1, <2>2
    <3> QED
      BY <3>1, <3>2, <3>3
  <2>4. <<Upto(c), Upto(m)>> \in StrictSubsetOrdering(Candidates)
    <3>1. Upto(c) \in SUBSET Candidates /\ Upto(m) \in SUBSET Candidates /\ Upto(c) # Upto(m)
      BY <2>3
    <3> HIDE DEF Upto
    <3> QED
      BY <2>3, <3>1 DEF StrictSubsetOrdering
  <2> QED
    BY <1>3, <1>4, <2>4
<1> QED
  BY <1>5

LEMMA LastCandidate ==
  ASSUME NEW S \in SUBSET Candidates, S # {}
  PROVE  \E m \in S : \A c \in S : c <= m
<1>1. MaxCandidates \in Nat /\ Candidates = 0..(MaxCandidates - 1)
  BY CandidatesFinite DEF Candidates
<1> DEFINE T == {MaxCandidates - 1 - c : c \in S}
<1>2. T \in SUBSET Candidates /\ T # {}
  <2>1. ASSUME NEW c \in S PROVE MaxCandidates - 1 - c \in Candidates
    BY <1>1
  <2> QED
    BY <2>1
<1>3. PICK t \in T : \A u \in T : t <= u
  BY <1>2, FirstCandidate
<1>4. PICK m \in S : t = MaxCandidates - 1 - m
  BY <1>3
<1>5. ASSUME NEW c \in S PROVE c <= m
  <2>1. MaxCandidates - 1 - c \in T
    OBVIOUS
  <2> HIDE DEF T
  <2>2. MaxCandidates - 1 - m <= MaxCandidates - 1 - c
    BY <1>3, <1>4, <2>1
  <2>3. m \in Nat /\ c \in Nat
    BY <1>1
  <2> QED
    BY <1>1, <2>2, <2>3
<1> QED
  BY <1>5

LEMMA SmallerCardinality ==
  ASSUME NEW S \in SUBSET Candidates, NEW T \in SUBSET S
  PROVE  Cardinality(T) <= Cardinality(S)
BY CandidatesFinite, FS_Subset

Below(S, c) == {d \in S : d < c}

\* One more candidate at most below the next one.
LEMMA BelowNext ==
  ASSUME NEW S \in SUBSET Candidates, NEW m \in Candidates, Below(S, m) # {}
  PROVE  \E x \in S : x < m /\ Cardinality(Below(S, m)) = Cardinality(Below(S, x)) + 1
<1>1. Below(S, m) \in SUBSET Candidates /\ Candidates \subseteq Nat
  BY CandidatesFinite DEF Below
<1>2. PICK x \in Below(S, m) : \A c \in Below(S, m) : c <= x
  BY <1>1, LastCandidate
<1>3. x \in S /\ x < m
  BY <1>2 DEF Below
<1>4. Below(S, m) = Below(S, x) \cup {x}
  <2>1. ASSUME NEW d \in Below(S, m) PROVE d \in Below(S, x) \cup {x}
    <3>1. d <= x /\ d \in Nat /\ x \in Nat /\ d \in S
      BY <1>1, <1>2 DEF Below
    <3> QED
      BY <3>1 DEF Below
  <2>2. ASSUME NEW d \in Below(S, x) \cup {x} PROVE d \in Below(S, m)
    <3>1. d \in S /\ d <= x /\ d \in Nat /\ x \in Nat /\ m \in Nat
      BY <1>1, <1>2 DEF Below
    <3> QED
      BY <1>3, <3>1 DEF Below
  <2> QED
    BY <2>1, <2>2
<1>5. Below(S, x) \in SUBSET Candidates /\ x \notin Below(S, x)
  <2>1. ~ (x < x)
    BY <1>1, <1>3
  <2> QED
    BY <2>1 DEF Below
<1>6. Cardinality(Below(S, x) \cup {x}) = Cardinality(Below(S, x)) + 1
  BY <1>5, CandidatesFinite, FS_AddElement
<1> QED
  BY <1>3, <1>4, <1>6

LowestOf(S, n) == {c \in S : Cardinality({d \in S : d < c}) < n}

\* The candidates with fewer than n below them, in a set of candidates: all of
\* the set, or its n lowest members.
LEMMA Lowest ==
  ASSUME NEW S \in SUBSET Candidates, NEW n \in Nat, n > 0,
         NEW L, L = LowestOf(S, n)
  PROVE  /\ L \subseteq S
         /\ L = S \/ Cardinality(L) = n
         /\ \A c \in S \ L : Cardinality({d \in L : d < c}) = n
<1>1. Candidates \subseteq Nat /\ S \subseteq Nat
  BY CandidatesFinite
<1>2. L = {c \in S : Cardinality(Below(S, c)) < n}
  BY DEF Below, LowestOf
<1>3. \A c \in Candidates : Below(S, c) \in SUBSET Candidates /\ Cardinality(Below(S, c)) \in Nat
  BY CandidatesFinite DEF Below
<1>4. CASE L = S
  BY <1>4
<1>5. CASE L # S
  <2>1. S \ L \in SUBSET Candidates /\ S \ L # {}
    BY <1>2, <1>5
  <2>2. PICK m \in S \ L : \A c \in S \ L : m <= c
    BY <2>1, FirstCandidate
  <2>3. m \in Candidates /\ m \in Nat /\ m \notin L
    BY <1>1, <2>2
  <2>4. Cardinality(Below(S, m)) >= n
    BY <1>2, <1>3, <2>2, <2>3
  <2>5. L = Below(S, m)
    <3>1. ASSUME NEW d \in Below(S, m) PROVE d \in L
      <4>1. d \in S /\ d < m /\ d \in Nat
        BY <1>1 DEF Below
      <4>2. ~ (m <= d)
        BY <2>3, <4>1
      <4> QED
        BY <2>2, <4>1, <4>2
    <3>2. ASSUME NEW d \in L PROVE d \in Below(S, m)
      <4>1. d \in S /\ d \in Nat /\ Cardinality(Below(S, d)) < n /\ d \in Candidates
        BY <1>1, <1>2
      <4>2. CASE m <= d
        <5>1. Below(S, m) \in SUBSET Below(S, d)
          <6>1. ASSUME NEW e \in Below(S, m) PROVE e \in Below(S, d)
            <7>1. e \in S /\ e \in Nat /\ e < m
              BY <1>1 DEF Below
            <7> QED
              BY <2>3, <4>1, <4>2, <7>1 DEF Below
          <6> QED
            BY <6>1
        <5>2. Cardinality(Below(S, m)) <= Cardinality(Below(S, d))
          BY <5>1, <1>3, <4>1, SmallerCardinality
        <5> QED
          BY <5>2, <4>1, <2>4, <1>3, <2>3
      <4> QED
        BY <4>1, <4>2, <2>3 DEF Below
    <3> QED
      BY <3>1, <3>2
  <2>6. Cardinality(L) = n
    <3>1. Below(S, m) # {}
      <4>1. Cardinality({}) = 0
        BY FS_EmptySet
      <4> QED
        BY <2>4, <4>1
    <3>2. PICK x \in S : x < m /\ Cardinality(Below(S, m)) = Cardinality(Below(S, x)) + 1
      BY <3>1, <2>3, BelowNext
    <3>3. x \in L
      BY <2>5, <3>2 DEF Below
    <3>4. Cardinality(Below(S, x)) < n /\ Cardinality(Below(S, x)) \in Nat
      BY <1>2, <1>3, <3>3
    <3> QED
      <4>1. Cardinality(Below(S, m)) \in Nat
        BY <1>3, <2>3
      <4>2. Cardinality(Below(S, m)) = n
        BY <2>4, <3>2, <3>4, <4>1
      <4> QED
        BY <2>5, <4>2
  <2>7. ASSUME NEW c \in S \ L PROVE {d \in L : d < c} = L
    <3>1. m <= c /\ c \in Nat
      BY <1>1, <2>2
    <3>2. ASSUME NEW d \in L PROVE d < c
      <4>1. d < m /\ d \in Nat
        BY <1>1, <1>2, <2>5 DEF Below
      <4> QED
        BY <3>1, <4>1, <2>3
    <3> QED
      BY <3>2
  <2> QED
    BY <1>2, <2>6, <2>7
<1> QED
  BY <1>4, <1>5

-----------------------------------------------------------------------------
(* Closing *)

\* A spent candidate budget means that every candidate has its verdict: a
\* candidate is never counted twice.
LEMMA AllDecided ==
  ASSUME TypeOK, OneVerdict, BudgetExhausted
  PROVE  Decided = Candidates
<1>1. /\ accepted \in SUBSET Candidates /\ rejected \in SUBSET Candidates
      /\ skipped \in SUBSET Candidates /\ Decided \in SUBSET Candidates
  BY DEF TypeOK, Decided
<1>2. Cardinality(accepted \cup rejected) = Cardinality(accepted) + Cardinality(rejected)
  <2>1. /\ IsFiniteSet(accepted) /\ IsFiniteSet(rejected)
        /\ Cardinality(accepted \cap rejected) = 0
        /\ Cardinality(accepted) \in Nat /\ Cardinality(rejected) \in Nat
    BY <1>1, CandidatesFinite, FS_EmptySet DEF OneVerdict
  <2>2. Cardinality(accepted \cup rejected) =
          Cardinality(accepted) + Cardinality(rejected) - Cardinality(accepted \cap rejected)
    BY <2>1, FS_Union
  <2> QED
    BY <2>1, <2>2
<1>3. Cardinality(Decided) = Cardinality(accepted \cup rejected) + Cardinality(skipped)
  <2>1. /\ accepted \cup rejected \in SUBSET Candidates
        /\ (accepted \cup rejected) \cap skipped = {}
    BY <1>1 DEF OneVerdict
  <2>2. /\ IsFiniteSet(accepted \cup rejected) /\ IsFiniteSet(skipped)
        /\ Cardinality((accepted \cup rejected) \cap skipped) = 0
        /\ Cardinality(accepted \cup rejected) \in Nat /\ Cardinality(skipped) \in Nat
    BY <1>1, <2>1, CandidatesFinite, FS_EmptySet
  <2>3. Cardinality((accepted \cup rejected) \cup skipped) =
          Cardinality(accepted \cup rejected) + Cardinality(skipped)
            - Cardinality((accepted \cup rejected) \cap skipped)
    BY <2>2, FS_Union
  <2> QED
    BY <2>2, <2>3 DEF Decided
<1>4. Cardinality(Decided) >= MaxCandidates
  BY <1>2, <1>3 DEF BudgetExhausted, CompletedCount
<1>5. Cardinality(Decided) <= Cardinality(Candidates)
  BY <1>1, SmallerCardinality
<1>6. Cardinality(Decided) = Cardinality(Candidates)
  BY <1>1, <1>4, <1>5, CandidatesFinite
<1> QED
  BY <1>1, <1>6, CandidatesFinite, FS_Subset

\* What close_if_ready writes when it closes a window.
LEMMA ClosingRecordSound ==
  ASSUME TypeOK, OneVerdict, ReadyToClose, closed' = ClosingRecord,
         UNCHANGED <<window, accepted, rejected, skipped>>
  PROVE  SelectionSound'
<1>1. /\ accepted \in SUBSET Candidates /\ Decided \in SUBSET Candidates
      /\ Cardinality(accepted) \in Nat
      /\ Minimum \in Nat /\ Target \in Nat /\ 1 <= Minimum /\ Minimum <= Target
  BY CandidatesFinite, SpecAssumption DEF TypeOK, Decided
<1>2. /\ accepted' = accepted /\ Decided' = Decided /\ Mode' = Mode
      /\ closed'.completed = Decided
  BY DEF Decided, Mode, ClosingRecord
<1>3. CASE Cardinality(accepted) < Minimum
  <2>1. closed'.outcome = "insufficient" /\ closed'.selected = {}
    BY <1>3 DEF ClosingRecord
  <2>2. ~TargetReached
    BY <1>1, <1>3 DEF TargetReached
  <2>3. Decided = Candidates
    BY <2>2, AllDecided DEF ReadyToClose
  <2> QED
    BY <1>2, <1>3, <2>1, <2>3 DEF SelectionSound
<1>4. CASE ~ (Cardinality(accepted) < Minimum)
  <2>1. closed'.outcome = "ready" /\ closed'.selected = Selection
    BY <1>4 DEF ClosingRecord
  <2>2. /\ Selection \subseteq accepted
        /\ Cardinality(Selection) >= Minimum
        /\ \A c \in accepted \ Selection :
             Mode = "target" /\ Cardinality({d \in Selection : d < c}) = Target
    <3>1. CASE Mode = "target"
      <4>1. /\ Selection \subseteq accepted
            /\ Selection = accepted \/ Cardinality(Selection) = Target
            /\ \A c \in accepted \ Selection : Cardinality({d \in Selection : d < c}) = Target
        <5>1. Selection = LowestOf(accepted, Target)
          BY <3>1 DEF Selection, LowestOf
        <5>2. Target > 0
          BY <1>1
        <5> QED
          BY <1>1, <5>1, <5>2, Lowest
      <4>2. Cardinality(Selection) >= Minimum
        BY <1>1, <1>4, <4>1
      <4> QED
        BY <3>1, <4>1, <4>2
    <3>2. CASE Mode # "target"
      BY <1>1, <1>4, <3>2 DEF Selection
    <3> QED
      BY <3>1, <3>2
  <2>3. Mode = "round" => \E n \in 1..MaxCandidates : Decided = 0..(n * RoundSize - 1)
    <3> SUFFICES ASSUME CompleteRound
                 PROVE  \E n \in 1..MaxCandidates : Decided = 0..(n * RoundSize - 1)
      BY DEF ReadyToClose
    <3> DEFINE k == Cardinality(Decided)
               n == k \div RoundSize
    <3>1. k \in Nat /\ k <= MaxCandidates /\ MaxCandidates \in Nat /\ RoundSize \in Nat \ {0}
      BY <1>1, CandidatesFinite, SmallerCardinality, SpecAssumption
    <3>2. k # 0
      BY <1>1, CandidatesFinite, FS_EmptySet DEF CompleteRound
    <3>3. k % RoundSize = 0 /\ Decided = 0..(k - 1)
      BY DEF CompleteRound
    <3> HIDE DEF k
    <3>4. n \in Nat /\ k = n * RoundSize
      BY <3>1, <3>3
    <3>5. n # 0 /\ n <= k
      BY <3>1, <3>2, <3>4
    <3>6. n \in 1..MaxCandidates
      BY <3>1, <3>4, <3>5
    <3> HIDE DEF n
    <3> QED
      BY <3>3, <3>4, <3>6
  <2>4. Mode = "drain" => Decided = Candidates
    BY AllDecided DEF ReadyToClose
  <2> QED
    BY <1>2, <2>1, <2>2, <2>3, <2>4 DEF SelectionSound
<1> QED
  BY <1>3, <1>4

\* CLOSED.json is written once, for a window that is ready.
LEMMA ClosingSteps ==
  ASSUME [Next]_vars
  PROVE  \/ closed' = closed
         \/ /\ ~IsClosed /\ ReadyToClose /\ closed' = ClosingRecord
            /\ UNCHANGED <<accepted, rejected, skipped>>
<1> USE DEF storeVars
<1>1. CASE CloseIfReady
  BY <1>1 DEF CloseIfReady, WriteClosed
<1>2. ASSUME NEW p \in Procs, ProcStep(p), ~CloseIfReady PROVE closed' = closed
  BY <1>2 DEF ProcStep, Start, CloseAfterCommit, Poll, ClaimGranted, ClaimNothing, ClaimRaises,
             Release, LaneTake, LaneStop, CommitRefused, CommitRaises, Commit, Publish
<1>3. ASSUME NEW p \in Procs, CloseCut(p)
      PROVE  /\ ~IsClosed /\ ReadyToClose /\ closed' = ClosingRecord
             /\ UNCHANGED <<accepted, rejected, skipped>>
  BY <1>3 DEF CloseCut, WriteClosed
<1>4. ASSUME NEW p \in Procs, ProcFault(p) \/ Heartbeat(p), ~CloseCut(p) PROVE closed' = closed
  BY <1>4 DEF ProcFault, StartCut, Crash, CommitCut, Publish, RolloutFails, Heartbeat
<1> QED
  BY <1>1, <1>2, <1>3, <1>4
     DEF Next, Skip, SkipCut, SkipCall, Expire, Abandon, Status, vars

LEMMA SelectionStep ==
  ASSUME IInv, SelectionSound, [Next]_vars
  PROVE  SelectionSound'
<1>1. window' = window /\ Mode' = Mode
  BY WindowFinal DEF Mode
<1>2. CASE closed' = closed
  <2>1. IsClosed => UNCHANGED <<accepted, rejected, skipped>>
    BY VerdictSteps DEF Refused
  <2>2. CASE IsClosed
    BY <1>1, <1>2, <2>1, <2>2 DEF SelectionSound, IsClosed, Decided
  <2>3. CASE ~IsClosed
    BY <1>2, <2>3 DEF SelectionSound, IsClosed
  <2> QED
    BY <2>2, <2>3
<1>3. CASE closed' # closed
  BY <1>1, <1>3, ClosingSteps, ClosingRecordSound DEF IInv
<1> QED
  BY <1>2, <1>3

\* CLOSED.json tells the truth for ever: it counts what is there, selects
\* enough committed groups and the right ones, and calls a window insufficient
\* only when its whole candidate budget is spent.
THEOREM SelectionIsSound == Spec => []SelectionSound
<1>1. Init => SelectionSound
  BY DEF Init, NotClosed, IsClosed, SelectionSound
<1>2. IInv /\ SelectionSound /\ [Next]_vars => SelectionSound'
  BY SelectionStep
<1> QED
  BY <1>1, <1>2, Invariance, PTL DEF Spec

-----------------------------------------------------------------------------
(* Refinement *)

\* The contract counts as the window does.
LEMMA SameCardinality == \A S : Contract!Cardinality(S) = Cardinality(S)
BY DEF Cardinality, Contract!Cardinality

\* The verdicts a candidate can have, told apart by the directories.
LEMMA VerdictOf ==
  ASSUME OneVerdict, NEW c \in Candidates
  PROVE  /\ Verdict(c) = "accepted" <=> c \in accepted
         /\ Verdict(c) = "rejected" <=> c \in rejected
         /\ Verdict(c) = "skipped" <=> c \in skipped
         /\ Verdict(c) = "open" <=> c \notin Decided
BY DEF Verdict, OneVerdict, Decided

\* The contract's sets of candidates, in terms of the window's.
LEMMA WithVerdict ==
  ASSUME TypeOK, OneVerdict
  PROVE  /\ Contract!With("open") = Candidates \ Decided
         /\ Contract!With("accepted") = accepted
BY VerdictOf DEF Contract!With, TypeOK, Decided

\* Giving the verdict v to the undecided candidates of S is a step of the contract.
LEMMA DecideStep ==
  ASSUME TypeOK, OneVerdict, OneVerdict', ~IsClosed, closed' = closed,
         NEW S \in SUBSET (Candidates \ Decided), S # {},
         NEW v \in {"accepted", "rejected", "skipped"},
         accepted' = IF v = "accepted" THEN accepted \cup S ELSE accepted,
         rejected' = IF v = "rejected" THEN rejected \cup S ELSE rejected,
         skipped' = IF v = "skipped" THEN skipped \cup S ELSE skipped
  PROVE  Contract!Next
<1>1. \A c \in Candidates : Verdict(c)' = IF c \in S THEN v ELSE Verdict(c)
  BY DEF Verdict, Decided
<1>2. [c \in Candidates |-> Verdict(c)]' = [c \in Candidates |-> IF c \in S THEN v ELSE Verdict(c)]
  BY <1>1
<1>3. Contract!Decide(S, v)
  BY <1>2, WithVerdict DEF Contract!Decide, IsClosed
<1>4. S \in SUBSET Candidates /\ v \in Contract!Verdicts
  BY DEF Contract!Verdicts
<1> QED
  BY <1>3, <1>4 DEF Contract!Next

\* Closing the window is a step of the contract.
LEMMA CloseStep ==
  ASSUME TypeOK, OneVerdict, ~IsClosed, closed.selected = {}, SelectionSound',
         ReadyToClose, closed' = ClosingRecord, UNCHANGED <<window, accepted, rejected, skipped>>
  PROVE  Contract!Next
<1>1. [c \in Candidates |-> Verdict(c)]' = [c \in Candidates |-> Verdict(c)]
  BY DEF Verdict
<1>2. CASE closed'.outcome = "ready"
  <2>1. closed'.selected \subseteq accepted /\ Cardinality(closed'.selected) >= Minimum
    BY <1>2 DEF SelectionSound
  <2>2. Contract!CloseReady(closed'.selected)
    <3>1. closed'.selected \subseteq Contract!With("accepted")
      BY <2>1, WithVerdict
    <3>2. closed.outcome = "none"
      BY DEF IsClosed
    <3>3. (closed.outcome)' = "ready" /\ (closed.selected)' = closed'.selected
      BY <1>2
    <3>4. UNCHANGED [c \in Candidates |-> Verdict(c)]
      BY <1>1
    <3> QED
      BY <2>1, <3>1, <3>2, <3>3, <3>4, SameCardinality DEF Contract!CloseReady
  <2>3. closed'.selected \in SUBSET Candidates
    BY <2>1 DEF TypeOK
  <2> QED
    BY <2>2, <2>3 DEF Contract!Next
<1>3. CASE closed'.outcome = "insufficient"
  <2>1. Decided = Candidates /\ Cardinality(accepted) < Minimum /\ closed'.selected = {}
    BY <1>3 DEF SelectionSound, Decided
  <2>2. Contract!CloseInsufficient
    <3>1. Contract!With("open") = {} /\ Contract!With("accepted") = accepted
      BY <2>1, WithVerdict
    <3>2. closed.outcome = "none"
      BY DEF IsClosed
    <3>3. (closed.outcome)' = "insufficient" /\ UNCHANGED closed.selected
      BY <1>3, <2>1
    <3>4. UNCHANGED [c \in Candidates |-> Verdict(c)]
      BY <1>1
    <3> QED
      BY <2>1, <3>1, <3>2, <3>3, <3>4, SameCardinality DEF Contract!CloseInsufficient
  <2> QED
    BY <2>2 DEF Contract!Next
<1> QED
  BY <1>2, <1>3 DEF ClosingRecord

\* An open window has selected nothing yet.
Unselected == closed.outcome = "none" => closed.selected = {}

LEMMA UnselectedStep ==
  ASSUME Unselected, [Next]_vars
  PROVE  Unselected'
BY ClosingSteps DEF Unselected, ClosingRecord

LEMMA ContractStep ==
  ASSUME IInv, IInv', SelectionSound', Unselected, [Next]_vars
  PROVE  [Contract!Next]_(Contract!vars)
<1> USE DEF IInv
<1>1. CASE UNCHANGED <<accepted, rejected, skipped, closed>>
  BY <1>1 DEF Contract!vars, Verdict
<1>2. ASSUME ~IsClosed, closed' # closed, UNCHANGED <<accepted, rejected, skipped>>
      PROVE  Contract!Next
  BY <1>2, ClosingSteps, CloseStep, WindowFinal DEF Unselected, IsClosed
<1>3. ASSUME NEW S \in SUBSET Skippable, ~IsClosed, skipped' = skipped \cup (S \ Decided),
             UNCHANGED <<closed, accepted, rejected>>, S \ Decided # {}
      PROVE  Contract!Next
  <2>1. S \ Decided \in SUBSET (Candidates \ Decided)
    BY CollectorAssumption
  <2> QED
    BY <1>3, <2>1, DecideStep
<1>4. ASSUME NEW p \in Procs, NEW informative \in BOOLEAN,
             pc[p] = "rollout", ~Refused(p), Publish(p, informative)
      PROVE  Contract!Next
  <2>1. /\ ~IsClosed /\ cand[p] \in Candidates \ Decided
        /\ closed' = closed /\ skipped' = skipped
    BY <1>4 DEF Refused, Working, Publish
  <2>2. CASE informative
    <3>1. accepted' = accepted \cup {cand[p]} /\ rejected' = rejected
      BY <1>4, <2>2 DEF Publish
    <3> QED
      BY <2>1, <3>1, DecideStep
  <2>3. CASE ~informative
    <3>1. rejected' = rejected \cup {cand[p]} /\ accepted' = accepted
      BY <1>4, <2>3 DEF Publish
    <3> QED
      BY <2>1, <3>1, DecideStep
  <2> QED
    BY <2>2, <2>3
<1> QED
  BY <1>1, <1>2, <1>3, <1>4, VerdictSteps, ClosingSteps

LEMMA ContractInit == Init => Contract!Init
BY DEF Init, NotClosed, Contract!Init, Verdict

\* The files of a window, written by collectors that crash, lose leases and
\* race with the operator and the watcher, implement the contract: verdicts
\* are final, none is given after closing, and the window closes once, with
\* a selection of accepted groups or because nothing is left.
THEOREM WindowImplementsContract == Spec => ImplementsContract
<1>1. Init => Unselected
  BY DEF Init, NotClosed, Unselected
<1>2. Unselected /\ [Next]_vars => Unselected'
  BY UnselectedStep
<1>3. IInv /\ IInv' /\ SelectionSound' /\ Unselected /\ [Next]_vars => [Contract!Next]_(Contract!vars)
  BY ContractStep
<1> QED
  BY <1>1, <1>2, <1>3, ContractInit, Invariance, SelectionIsSound, PTL
     DEF Spec, ImplementsContract, Contract!Spec
=============================================================================
