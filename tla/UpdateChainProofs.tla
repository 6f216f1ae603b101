-------------------------- MODULE UpdateChainProofs --------------------------
(* Proofs about the two systems of Slurm jobs: UpdateChain, for every      *)
(* number of updates, attempts, jobs and faults, and EvalRun, for every    *)
(* number of items, lanes, evaluators, attempts, jobs and faults.          *)
EXTENDS UpdateChain, EvalRun, FiniteSetTheorems, WellFoundedInduction, TLAPS

-----------------------------------------------------------------------------
(* Job ids *)

\* A set of job ids that is not empty has a first member, which is what the
\* model takes for the next job.
LEMMA FirstJob ==
  ASSUME NEW S \in SUBSET Jobs, S # {}
  PROVE  NextJob(S) \in S
<1> DEFINE Upto(c) == {d \in Jobs : d <= c}
          F == {Upto(c) : c \in S}
<1>0. Jobs \subseteq Nat /\ IsFiniteSet(Jobs)
  BY ChainAssumption, FS_Interval DEF Jobs
<1>1. F \subseteq FiniteSubsetsOf(Jobs) /\ F # {}
  <2>1. F \subseteq SUBSET Jobs /\ F # {}
    OBVIOUS
  <2>2. FiniteSubsetsOf(Jobs) = SUBSET Jobs
    BY <1>0, FS_FiniteSubsetsOfFinite
  <2> QED
    BY <2>1, <2>2
<1>2. IsWellFoundedOn(StrictSubsetOrdering(Jobs), FiniteSubsetsOf(Jobs))
  BY FS_StrictSubsetOrderingWellFounded
<1>3. PICK U \in F : \A V \in F : ~ (<<V, U>> \in StrictSubsetOrdering(Jobs))
  <2> HIDE DEF F
  <2> QED
    BY <1>1, <1>2, WFMin
<1>4. PICK m \in S : U = Upto(m)
  BY <1>3
<1>5. ASSUME NEW c \in S PROVE m <= c
  <2>1. m \in Jobs /\ c \in Jobs /\ m \in Nat /\ c \in Nat /\ Jobs \subseteq Nat
    BY <1>0
  <2>2. SUFFICES ASSUME c < m PROVE FALSE
    BY <2>1
  <2>3. Upto(c) \subseteq Upto(m) /\ m \in Upto(m) /\ m \notin Upto(c)
    <3>1. ASSUME NEW d \in Upto(c) PROVE d \in Upto(m)
      <4>1. d \in Nat /\ d \in Jobs /\ d <= c
        BY <2>1
      <4> QED
        BY <2>1, <2>2, <4>1
    <3>2. m \in Upto(m)
      BY <2>1
    <3>3. ~ (m <= c)
      BY <2>1, <2>2
    <3> QED
      BY <3>1, <3>2, <3>3
  <2>4. <<Upto(c), Upto(m)>> \in StrictSubsetOrdering(Jobs)
    <3>1. Upto(c) \in SUBSET Jobs /\ Upto(m) \in SUBSET Jobs /\ Upto(c) # Upto(m)
      BY <2>3
    <3> HIDE DEF Upto
    <3> QED
      BY <2>3, <3>1 DEF StrictSubsetOrdering
  <2> QED
    BY <1>3, <1>4, <2>4
<1> QED
  BY <1>5 DEF NextJob

LEMMA JobsFinite == IsFiniteSet(Jobs)
BY ChainAssumption, FS_Interval DEF Jobs

LEMMA TwoJobs ==
  ASSUME NEW S \in SUBSET Jobs, Cardinality(S) >= 2
  PROVE  /\ NextJob(S) \in S
         /\ NextJob(S \ {NextJob(S)}) \in S \ {NextJob(S)}
<1>1. IsFiniteSet(S)
  BY JobsFinite, FS_Subset
<1>2. S # {}
  <2>1. Cardinality({}) = 0
    BY FS_EmptySet
  <2> QED
    BY <2>1
<1>3. NextJob(S) \in S
  BY <1>2, FirstJob
<1>4. S \ {NextJob(S)} # {}
  <2>1. SUFFICES ASSUME S = {NextJob(S)} PROVE FALSE
    BY <1>3
  <2>2. Cardinality(S) = 1
    BY <1>1, <2>1, FS_Singleton
  <2> QED
    BY <2>2
<1>5. S \ {NextJob(S)} \in SUBSET Jobs
  OBVIOUS
<1> HIDE DEF NextJob
<1>6. NextJob(S \ {NextJob(S)}) \in S \ {NextJob(S)}
  BY <1>4, <1>5, FirstJob
<1> QED
  BY <1>3, <1>6

-----------------------------------------------------------------------------
(* Types *)

LEMMA InitType == Init => TypeOK
BY ChainAssumption DEF Init, TypeOK, Windows, Jobs, Native, NoCheckpoint, NotSubmitted, Gone, Idle,
   NoGeneration, NoJob, Generations, Partitions, Submitters, Chain, Ended, Live, Pending, Running

JobRecords == [window : {0} \cup Windows, partition : Partitions,
               at : Live \cup {"gone"}, from : Generations]
SubRecords == [pc : {"idle", "ask", "cancel", "sbatch", "record", "exited"},
               partition : Partitions, job : {NoJob} \cup Jobs]

LEMMA SubType ==
  ASSUME TypeOK, NEW p \in Submitters
  PROVE  /\ sub \in [Submitters -> SubRecords] /\ jobs \in [Jobs -> JobRecords]
         /\ Gone \in JobRecords /\ Idle \in SubRecords /\ Exited \in SubRecords
         /\ WindowOf(p) \in Nat
<1>1. sub \in [Submitters -> SubRecords] /\ jobs \in [Jobs -> JobRecords]
  BY DEF TypeOK, SubRecords, JobRecords
<1>2. Gone \in JobRecords /\ Idle \in SubRecords /\ Exited \in SubRecords
  BY DEF SubRecords, JobRecords, Gone, Idle, Exited, Partitions, NoJob, NoGeneration, Generations
<1>3. WindowOf(p) \in Nat
  BY ChainAssumption DEF TypeOK, WindowOf, Current, Windows, Submitters, Chain
<1> QED
  BY <1>1, <1>2, <1>3

LEMMA JobType ==
  ASSUME TypeOK
  PROVE  /\ jobs \in [Jobs -> JobRecords] /\ Gone \in JobRecords
         /\ \A j \in Jobs, where \in Live \cup {"gone"}, g \in Generations :
              /\ [jobs[j] EXCEPT !.at = where] \in JobRecords
              /\ [jobs[j] EXCEPT !.at = where, !.from = g] \in JobRecords
<1>1. jobs \in [Jobs -> JobRecords]
  BY DEF TypeOK, JobRecords
<1>2. Gone \in JobRecords
  BY DEF Gone, JobRecords, Partitions, NoGeneration, Generations
<1>3. ASSUME NEW j \in Jobs, NEW where \in Live \cup {"gone"}, NEW g \in Generations
      PROVE  /\ [jobs[j] EXCEPT !.at = where] \in JobRecords
             /\ [jobs[j] EXCEPT !.at = where, !.from = g] \in JobRecords
  <2>1. jobs[j] \in JobRecords
    BY <1>1
  <2> HIDE DEF Live
  <2> QED
    BY <2>1 DEF JobRecords
<1> QED
  BY <1>1, <1>2, <1>3

\* One job moves to another state.
LEMMA JobMoves ==
  ASSUME TypeOK, NEW j \in Jobs, NEW where \in Live \cup {"gone"}, NEW g \in Generations,
         \/ jobs' = [jobs EXCEPT ![j].at = where]
         \/ jobs' = [jobs EXCEPT ![j].at = where, ![j].from = g]
  PROVE  jobs' \in [Jobs -> JobRecords]
<1>1. jobs[j] \in JobRecords /\ jobs \in [Jobs -> JobRecords]
  BY JobType
<1>2. CASE jobs' = [jobs EXCEPT ![j].at = where]
  <2>1. jobs' = [jobs EXCEPT ![j] = [jobs[j] EXCEPT !.at = where]]
    BY <1>1, <1>2
  <2> QED
    BY <1>1, <2>1, JobType
<1>3. CASE jobs' = [jobs EXCEPT ![j].at = where, ![j].from = g]
  <2>1. jobs' = [jobs EXCEPT ![j] = [jobs[j] EXCEPT !.at = where, !.from = g]]
    BY <1>1, <1>3
  <2> QED
    BY <1>1, <2>1, JobType
<1> QED
  BY <1>2, <1>3

\* The script of one submitter moves on or returns.
LEMMA SubStep ==
  ASSUME TypeOK, NEW p \in Submitters,
         \/ Return(p)
         \/ \E where \in {"ask", "cancel", "sbatch"} :
              \E partition \in Partitions :
                \/ sub' = [sub EXCEPT ![p].pc = where]
                \/ sub' = [sub EXCEPT ![p].pc = where, ![p].partition = partition]
         \/ \E j \in Jobs : sub' = [sub EXCEPT ![p].pc = "record", ![p].job = j]
  PROVE  sub' \in [Submitters -> SubRecords]
<1> USE SubType
<1>1. CASE Return(p)
  BY <1>1 DEF Return
<1>2. ASSUME NEW where \in {"ask", "cancel", "sbatch"}, NEW partition \in Partitions,
             \/ sub' = [sub EXCEPT ![p].pc = where]
             \/ sub' = [sub EXCEPT ![p].pc = where, ![p].partition = partition]
      PROVE  sub' \in [Submitters -> SubRecords]
  BY <1>2 DEF SubRecords
<1>3. ASSUME NEW j \in Jobs, sub' = [sub EXCEPT ![p].pc = "record", ![p].job = j]
      PROVE  sub' \in [Submitters -> SubRecords]
  BY <1>3 DEF SubRecords
<1> QED
  BY <1>1, <1>2, <1>3

\* What a call of Attempt does to the script of p.
LEMMA AttemptStep ==
  ASSUME NEW p, NEW partition, Attempt(p, partition)
  PROVE  \/ Return(p)
         \/ /\ sub' = [sub EXCEPT ![p].pc = "sbatch", ![p].partition = partition]
            /\ ~ (submission[WindowOf(p)].attempt + 1 > MaxAttempts)
BY DEF Attempt

LEMMA NextPartitionType == \A s : NextPartition(s) \in Partitions
BY DEF NextPartition, Partitions

LEMMA SubmitType ==
  ASSUME IInv, NEW p \in Submitters, Submit(p)
  PROVE  TypeOK'
<1> USE DEF disk
<1>0. TypeOK /\ p \in Submitters
  BY DEF IInv
<1>1. CASE Enter(p)
  <2>1. sub' \in [Submitters -> SubRecords]
    BY <1>0, <1>1, SubStep DEF Enter, Partitions
  <2> QED
    BY <1>0, <1>1, <2>1 DEF Enter, TypeOK, SubRecords
<1>2. CASE Ask(p)
  <2>1. sub' \in [Submitters -> SubRecords]
    <3>1. \/ Return(p) \/ sub' = [sub EXCEPT ![p].pc = "cancel"]
          \/ Attempt(p, "normal") \/ Attempt(p, NextPartition(submission[WindowOf(p)]))
      BY <1>2 DEF Ask
    <3>2. "normal" \in Partitions
      BY DEF Partitions
    <3> QED
      <4>1. CASE Return(p)
        BY <1>0, <4>1, SubStep
      <4>2. CASE sub' = [sub EXCEPT ![p].pc = "cancel"]
        BY <1>0, <3>2, <4>2, SubStep
      <4>3. ASSUME NEW to \in Partitions, Attempt(p, to)
            PROVE  sub' \in [Submitters -> SubRecords]
        <5>1. Return(p) \/ sub' = [sub EXCEPT ![p].pc = "sbatch", ![p].partition = to]
          BY <4>3, AttemptStep
        <5> QED
          BY <1>0, <5>1, SubStep
      <4> QED
        BY <3>1, <3>2, <4>1, <4>2, <4>3, NextPartitionType
  <2>2. faults' \in 0..MaxFaults
    BY <1>0, <1>2, ChainAssumption DEF Ask, Fault, TypeOK
  <2> QED
    BY <1>0, <1>2, <2>1, <2>2 DEF Ask, TypeOK, SubRecords
<1>3. CASE Cancel(p)
  <2>1. sub' \in [Submitters -> SubRecords]
    BY <1>0, <1>3, SubStep, AttemptStep DEF Cancel, Partitions
  <2>2. faults' \in 0..MaxFaults
    BY <1>0, <1>3, ChainAssumption DEF Cancel, Fault, TypeOK
  <2>3. jobs' \in [Jobs -> JobRecords]
    BY <1>0, <1>3, JobType DEF Cancel
  <2>4. WindowOf(p) \in Windows
    BY <1>3 DEF IInv, SubmitLock, Cancel, Inside
  <2>5. orphaned' \subseteq Windows
    BY <1>0, <1>3, <2>4 DEF Cancel, TypeOK
  <2> QED
    BY <1>0, <1>3, <2>1, <2>2, <2>3, <2>5 DEF Cancel, TypeOK, SubRecords, JobRecords
<1>4. CASE Sbatch(p)
  <2>1. Free \in SUBSET Jobs
    BY DEF Free
  <2>2. WindowOf(p) \in Windows
    BY <1>4 DEF IInv, SubmitLock, Sbatch, Inside
  <2>3. Submitted(p) \in JobRecords
    BY <1>0, <2>2, SubType DEF Submitted, JobRecords, SubRecords, Live, Pending, NoGeneration, Generations
  <2>4. faults' \in 0..MaxFaults
    BY <1>0, <1>4, ChainAssumption DEF Sbatch, Fault, TypeOK
  <2>5. jobs' \in [Jobs -> JobRecords] /\ sub' \in [Submitters -> SubRecords]
    <3>1. CASE Return(p) /\ UNCHANGED jobs
      BY <1>0, <3>1, SubStep, SubType
    <3>2. CASE Free # {} /\ jobs' = [jobs EXCEPT ![NextJob(Free)] = Submitted(p)]
               /\ sub' = [sub EXCEPT ![p].pc = "record", ![p].job = NextJob(Free)]
      <4>1. NextJob(Free) \in Jobs
        BY <2>1, <3>2, FirstJob
      <4> QED
        BY <1>0, <2>3, <3>2, <4>1, SubStep, SubType
    <3>3. CASE /\ Cardinality(Free) >= 2
               /\ LET j == NextJob(Free)  k == NextJob(Free \ {j}) IN
                  /\ jobs' = [jobs EXCEPT ![j] = Submitted(p), ![k] = Submitted(p)]
                  /\ sub' = [sub EXCEPT ![p].pc = "record", ![p].job = k]
      <4> DEFINE j == NextJob(Free)  k == NextJob(Free \ {j})
      <4>1. j \in Jobs /\ k \in Jobs
        BY <2>1, <3>3, TwoJobs
      <4>2. /\ jobs' = [jobs EXCEPT ![j] = Submitted(p), ![k] = Submitted(p)]
            /\ sub' = [sub EXCEPT ![p].pc = "record", ![p].job = k]
        BY <3>3
      <4> HIDE DEF j, k
      <4> QED
        BY <1>0, <2>3, <4>1, <4>2, SubStep, SubType
    <3> QED
      BY <1>4, <3>1, <3>2, <3>3 DEF Sbatch
  <2> QED
    BY <1>0, <1>4, <2>4, <2>5 DEF Sbatch, TypeOK, SubRecords, JobRecords
<1>5. CASE Record(p)
  <2>1. sub' \in [Submitters -> SubRecords]
    BY <1>0, <1>5, SubStep DEF Record
  <2>2. /\ WindowOf(p) \in Windows /\ submission[WindowOf(p)].attempt < MaxAttempts
        /\ sub[p].partition \in Partitions /\ sub[p].job \in {NoJob} \cup Jobs
    BY <1>0, <1>5, SubType DEF IInv, SubmitLock, Record, Inside, SubRecords
  <2>3. submission' \in [Windows -> [job : {NoJob} \cup Jobs, attempt : 0..MaxAttempts,
                                     partition : Partitions]]
    BY <1>0, <1>5, <2>2, ChainAssumption DEF Record, TypeOK
  <2> QED
    BY <1>0, <1>5, <2>1, <2>3 DEF Record, TypeOK, SubRecords
<1> QED
  BY <1>1, <1>2, <1>3, <1>4, <1>5 DEF Submit

LEMMA TypeStep ==
  ASSUME IInv, [Next]_vars
  PROVE  TypeOK'
<1> USE DEF disk
<1>0. TypeOK
  BY DEF IInv
<1>1. CASE Top
  <2>1. CASE chain' \in {"complete", "stopped"} /\ UNCHANGED <<launched, collectedOn>>
    BY <1>0, <1>1, <2>1 DEF Top, TypeOK, Ended
  <2>2. CASE /\ theta < FinalTheta /\ chain' = "wait" /\ launched' = launched \cup {Current}
             /\ collectedOn' = IF Current \in launched THEN collectedOn
                               ELSE [collectedOn EXCEPT ![Current] = checkpoint[theta].gen]
    <3>1. Current \in Windows /\ theta \in 0..FinalTheta
      BY <1>0, <2>2, ChainAssumption DEF Current, Windows, TypeOK
    <3>2. checkpoint[theta].gen \in Generations
      BY <1>0, <3>1 DEF TypeOK
    <3> QED
      BY <1>0, <1>1, <2>2, <3>1, <3>2 DEF Top, TypeOK
  <2> QED
    BY <1>1, <2>1, <2>2 DEF Top
<1>2. CASE Advance
  <2>1. Current \in 0..FinalTheta
    BY <1>0, <1>2, ChainAssumption DEF IInv, InOrder, Advance, Current, TypeOK
  <2> QED
    BY <1>0, <1>2, <2>1 DEF Advance, TypeOK, Ended
<1>3. CASE GiveUp
  BY <1>0, <1>3 DEF GiveUp, TypeOK, Ended
<1>4. CASE Renew
  <2>1. faults' \in 0..MaxFaults /\ 0 \in 0..FinalTheta
    BY <1>0, <1>4, ChainAssumption DEF Renew, Fault, TypeOK
  <2>2. sub' \in [Submitters -> SubRecords]
    BY <1>0, <1>4, SubType DEF Renew, Submitters
  <2> QED
    BY <1>0, <1>4, <2>1, <2>2 DEF Renew, TypeOK, SubRecords
<1>5. ASSUME NEW w \in Windows, Close(w) PROVE TypeOK'
  BY <1>0, <1>5 DEF Close, TypeOK
<1>6. ASSUME NEW w \in Windows, WatcherDies(w) PROVE TypeOK'
  <2>1. faults' \in 0..MaxFaults
    BY <1>0, <1>6, ChainAssumption DEF WatcherDies, Fault, TypeOK
  <2>2. sub' \in [Submitters -> SubRecords]
    BY <1>0, <1>6, SubStep DEF WatcherDies, Submitters
  <2> QED
    BY <1>0, <1>6, <2>1, <2>2 DEF WatcherDies, TypeOK, SubRecords
<1>7. ASSUME NEW p \in Submitters, Submit(p) PROVE TypeOK'
  BY <1>7, SubmitType
<1>8. ASSUME NEW j \in Jobs, Start(j) \/ Age(j) PROVE TypeOK'
  <2>1. jobs' \in [Jobs -> JobRecords]
    <3>1. {"waiting", "overdue"} \subseteq Live
      BY DEF Live, Running, Pending
    <3> QED
      BY <1>0, <1>8, <3>1, JobMoves DEF Start, Age, Generations
  <2> QED
    BY <1>0, <1>8, <2>1 DEF Start, Age, TypeOK, JobRecords
<1>9. ASSUME NEW j \in Jobs, Preempt(j) PROVE TypeOK'
  <2>1. faults' \in 0..MaxFaults
    BY <1>0, <1>9, ChainAssumption DEF Preempt, Fault, TypeOK
  <2>2. jobs' \in [Jobs -> JobRecords]
    <3>1. "pending" \in Live /\ NoGeneration \in Generations
      BY DEF Live, Pending, NoGeneration, Generations
    <3> QED
      BY <1>0, <1>9, <3>1, JobMoves, JobType DEF Preempt
  <2> QED
    BY <1>0, <1>9, <2>1, <2>2 DEF Preempt, TypeOK, JobRecords
<1>10. ASSUME NEW j \in Jobs, Work(j) PROVE TypeOK'
  <2>1. jobs[j].at \in Live => jobs[j].window \in Windows /\ jobs[j].window - 1 \in 0..FinalTheta
                               /\ jobs[j].window \in 0..FinalTheta
    BY <1>0, <1>10, ChainAssumption DEF IInv, LaunchedOnly, TypeOK, Windows
  <2>2. CASE Begin(j)
    <3>1. checkpoint[jobs[j].window - 1].gen \in Generations
      BY <1>0, <2>1, <2>2 DEF Begin, TypeOK, Live, Running
    <3>2. jobs' \in [Jobs -> JobRecords]
      <4>1. "loaded" \in Live
        BY DEF Live, Running
      <4> QED
        BY <1>0, <2>2, <3>1, <4>1, JobType DEF Begin
    <3> QED
      BY <1>0, <2>2, <3>2 DEF Begin, TypeOK, JobRecords
  <2>3. CASE SaveBegins(j)
    <3>1. jobs' \in [Jobs -> JobRecords] /\ jobs[j].from \in Generations
      <4>1. "saving" \in Live /\ jobs[j] \in JobRecords
        BY <1>0, JobType DEF Live, Running
      <4>2. jobs[j].from \in Generations
        BY <4>1 DEF JobRecords
      <4> QED
        BY <1>0, <2>3, <4>1, <4>2, JobType DEF SaveBegins
    <3>2. checkpoint[jobs[j].window].gen + 1 \in Generations
      BY <1>0, <2>1, <2>3 DEF SaveBegins, TypeOK, Generations, Live, Running
    <3> QED
      BY <1>0, <2>1, <2>3, <3>1, <3>2 DEF SaveBegins, TypeOK, JobRecords
  <2>4. CASE SaveEnds(j)
    <3>1. jobs' \in [Jobs -> JobRecords]
      <4>1. "saved" \in Live
        BY DEF Live, Running
      <4> QED
        BY <1>0, <2>4, <4>1, JobType DEF SaveEnds, Generations
    <3> QED
      <4>1. checkpoint' \in [0..FinalTheta ->
                      [gen : Generations, whole : BOOLEAN, from : Generations]]
        <5>1. jobs[j].window \in 0..FinalTheta
          BY <2>1, <2>4 DEF SaveEnds, Live, Running
        <5> QED
          <6> DEFINE w == jobs[j].window
          <6>1. checkpoint' = [checkpoint EXCEPT ![w] = [checkpoint[w] EXCEPT !.whole = TRUE]]
            BY <1>0, <2>4, <5>1 DEF SaveEnds, TypeOK
          <6>2. [checkpoint[w] EXCEPT !.whole = TRUE] \in
                  [gen : Generations, whole : BOOLEAN, from : Generations]
            <7>1. checkpoint[w] \in [gen : Generations, whole : BOOLEAN, from : Generations]
              BY <1>0, <5>1 DEF TypeOK
            <7> HIDE DEF w
            <7> QED
              BY <7>1
          <6> QED
            BY <1>0, <5>1, <6>1, <6>2 DEF TypeOK
      <4> QED
        BY <1>0, <2>4, <3>1, <4>1 DEF SaveEnds, TypeOK, JobRecords
  <2>5. CASE Receipt(j)
    <3>1. jobs' \in [Jobs -> JobRecords]
      BY <1>0, <2>5, JobType DEF Receipt
    <3>2. checkpoint[jobs[j].window].gen \in Generations
      BY <1>0, <2>1, <2>5 DEF Receipt, TypeOK, Live, Running
    <3> QED
      BY <1>0, <2>5, <3>1, <3>2 DEF Receipt, TypeOK, JobRecords
  <2> QED
    BY <1>10, <2>2, <2>3, <2>4, <2>5 DEF Work
<1>11. CASE UNCHANGED vars
  BY <1>0, <1>11 DEF vars, TypeOK
<1>12. CASE Finished
  BY <1>0, <1>12 DEF Finished, vars, TypeOK
<1> QED
  BY <1>1, <1>2, <1>3, <1>4, <1>5, <1>6, <1>7, <1>8, <1>9, <1>10, <1>11, <1>12 DEF Next

-----------------------------------------------------------------------------
(* The submit script *)

\* Scripts go on where they are, or leave, while their windows stay as they are.
LEMMA ScriptsKept ==
  ASSUME SubmitLock,
         \A p \in Submitters : Inside(p)' =>
           /\ Inside(p) /\ WindowOf(p)' = WindowOf(p)
           /\ outcome'[WindowOf(p)] = outcome[WindowOf(p)],
         \A p \in Submitters : sub'[p].pc \in {"sbatch", "record"} =>
           submission'[WindowOf(p)].attempt < MaxAttempts
  PROVE  SubmitLock'
<1>1. \A p \in Submitters : Inside(p)' => WindowOf(p)' = WindowOf(p)
  OBVIOUS
<1>2. ASSUME NEW p \in Submitters, sub'[p].pc \in {"sbatch", "record"}
      PROVE  submission'[WindowOf(p)'].attempt < MaxAttempts
  BY <1>1, <1>2 DEF Inside
<1>3. ASSUME NEW p \in Submitters, Inside(p)'
      PROVE  WindowOf(p)' \in Windows /\ outcome'[WindowOf(p)'] = "ready"
  BY <1>3 DEF SubmitLock
<1>4. ASSUME NEW p \in Submitters, NEW q \in Submitters, Inside(p)', Inside(q)',
             WindowOf(p)' = WindowOf(q)'
      PROVE  p = q
  BY <1>4 DEF SubmitLock
<1> QED
  BY <1>2, <1>3, <1>4 DEF SubmitLock

\* A script that returns is no longer inside, the others are where they were.
LEMMA ReturnLeaves ==
  ASSUME TypeOK, NEW p \in Submitters, Return(p)
  PROVE  ~Inside(p)' /\ \A q \in Submitters \ {p} : sub'[q] = sub[q]
BY DEF TypeOK, Return, Inside, Idle, Exited

\* A step of the script of p is a step of nobody else's.
LEMMA OthersWait ==
  ASSUME TypeOK, NEW p \in Submitters, Submit(p)
  PROVE  \A q \in Submitters \ {p} : sub'[q] = sub[q]
<1>1. ASSUME Return(p) PROVE \A q \in Submitters \ {p} : sub'[q] = sub[q]
  BY <1>1, ReturnLeaves
<1>2. ASSUME NEW to, Attempt(p, to) PROVE \A q \in Submitters \ {p} : sub'[q] = sub[q]
  <2>1. CASE sub' = [sub EXCEPT ![p].pc = "sbatch", ![p].partition = to]
    BY <2>1 DEF TypeOK
  <2> QED
    BY <1>1, <1>2, <2>1, AttemptStep
<1>3. CASE Enter(p)
  BY <1>1, <1>3 DEF Enter, TypeOK
<1>4. CASE Ask(p)
  <2>1. CASE sub' = [sub EXCEPT ![p].pc = "cancel"]
    BY <2>1 DEF TypeOK
  <2> QED
    BY <1>1, <1>2, <1>4, <2>1 DEF Ask
<1>5. CASE Cancel(p)
  BY <1>2, <1>5 DEF Cancel
<1>6. CASE Sbatch(p)
  <2>1. ASSUME NEW j, sub' = [sub EXCEPT ![p].pc = "record", ![p].job = j]
        PROVE  \A q \in Submitters \ {p} : sub'[q] = sub[q]
    BY <2>1 DEF TypeOK
  <2> HIDE DEF NextJob
  <2> QED
    BY <1>1, <1>6, <2>1 DEF Sbatch
<1>7. CASE Record(p)
  BY <1>1, <1>7 DEF Record
<1> QED
  BY <1>3, <1>4, <1>5, <1>6, <1>7 DEF Submit

\* No step but Advance and Renew touches theta; a window's outcome is final.
LEMMA SubmitLockSubmit ==
  ASSUME IInv, NEW p \in Submitters, Submit(p)
  PROVE  SubmitLock'
<1> USE DEF disk
<1>0. /\ TypeOK /\ SubmitLock /\ theta' = theta /\ outcome' = outcome
      /\ \A q : WindowOf(q)' = WindowOf(q)
  BY DEF IInv, Submit, Enter, Ask, Cancel, Sbatch, Record, WindowOf, Current
<1>1. CASE Enter(p)
  <2>1. CASE Return(p)
    BY <1>0, <1>1, <2>1, ReturnLeaves, ScriptsKept DEF SubmitLock, Enter, Inside
  <2>2. CASE sub' = [sub EXCEPT ![p].pc = "ask"]
    <3>1. /\ sub'[p].pc = "ask" /\ \A q \in Submitters \ {p} : sub'[q] = sub[q]
      BY <1>0, <2>2 DEF TypeOK
    <3>2. outcome[WindowOf(p)] = "ready" /\ WindowOf(p) \in Windows /\ LockFree(p)
      BY <1>1 DEF Enter, Calls
    <3>3. submission' = submission
      BY <1>1 DEF Enter
    <3>4. ASSUME NEW q \in Submitters, Inside(q)', q # p PROVE Inside(q) /\ WindowOf(q) # WindowOf(p)
      BY <3>1, <3>2, <3>4 DEF Inside, LockFree
    <3>5. ASSUME NEW q \in Submitters, Inside(q)'
          PROVE  WindowOf(q) \in Windows /\ outcome[WindowOf(q)] = "ready"
      BY <1>0, <3>2, <3>4, <3>5 DEF SubmitLock
    <3>6. ASSUME NEW q \in Submitters, sub'[q].pc \in {"sbatch", "record"}
          PROVE  submission[WindowOf(q)].attempt < MaxAttempts
      BY <1>0, <3>1, <3>6 DEF SubmitLock
    <3>7. ASSUME NEW q \in Submitters, NEW r \in Submitters, Inside(q)', Inside(r)',
                 WindowOf(q) = WindowOf(r)
          PROVE  q = r
      BY <1>0, <3>4, <3>7 DEF SubmitLock
    <3> QED
      BY <1>0, <3>3, <3>5, <3>6, <3>7 DEF SubmitLock
  <2> QED
    BY <1>1, <2>1, <2>2 DEF Enter
<1>2. CASE ~Enter(p)
  <2>1. Inside(p)
    BY <1>2 DEF Submit, Ask, Cancel, Sbatch, Record, Inside
  <2>2. \A q \in Submitters \ {p} : sub'[q] = sub[q]
    BY <1>0, OthersWait
  <2>3. \A q \in Submitters : Inside(q)' => Inside(q)
    BY <2>1, <2>2 DEF Inside
  <2>4. ASSUME NEW q \in Submitters, q # p, sub'[q].pc \in {"sbatch", "record"}
        PROVE  submission'[WindowOf(q)].attempt < MaxAttempts
    <3>1. Inside(q) /\ sub[q].pc \in {"sbatch", "record"} /\ WindowOf(q) # WindowOf(p)
      BY <1>0, <2>1, <2>2, <2>4 DEF SubmitLock, Inside
    <3>2. submission'[WindowOf(q)] = submission[WindowOf(q)]
      BY <1>0, <1>2, <3>1 DEF Submit, Ask, Cancel, Sbatch, Record, TypeOK, SubmitLock
    <3> QED
      BY <1>0, <3>1, <3>2 DEF SubmitLock
  <2>5. ASSUME sub'[p].pc \in {"sbatch", "record"}
        PROVE  submission'[WindowOf(p)].attempt < MaxAttempts
    <3>0. ~Return(p) /\ WindowOf(p) \in Windows
      BY <1>0, <2>1, <2>5, ReturnLeaves DEF Inside, SubmitLock
    <3>1. CASE Record(p)
      BY <3>0, <3>1 DEF Record
    <3>2. CASE Sbatch(p)
      BY <1>0, <3>0, <3>2 DEF Sbatch, SubmitLock
    <3>3. CASE Ask(p) \/ Cancel(p)
      <4>1. submission' = submission
        BY <3>3 DEF Ask, Cancel
      <4>2. submission[WindowOf(p)].attempt \in Nat
        BY <1>0, <3>0 DEF TypeOK
      <4>3. CASE sub' = [sub EXCEPT ![p].pc = "cancel"]
        BY <1>0, <2>5, <4>3 DEF TypeOK
      <4>4. ASSUME NEW to, Attempt(p, to)
            PROVE  submission[WindowOf(p)].attempt < MaxAttempts
        <5>1. ~ (submission[WindowOf(p)].attempt + 1 > MaxAttempts)
          BY <3>0, <4>4, AttemptStep
        <5> HIDE DEF WindowOf
        <5> QED
          BY <4>2, <5>1, ChainAssumption
      <4> QED
        BY <3>0, <3>3, <4>1, <4>3, <4>4 DEF Ask, Cancel
    <3> QED
      BY <1>2, <3>1, <3>2, <3>3 DEF Submit
  <2> QED
    BY <1>0, <2>3, <2>4, <2>5, ScriptsKept
<1> QED
  BY <1>1, <1>2

LEMMA SubmitLockStep ==
  ASSUME IInv, [Next]_vars
  PROVE  SubmitLock'
<1> USE DEF disk
<1>0. TypeOK /\ SubmitLock
  BY DEF IInv
<1>1. ASSUME NEW p \in Submitters, Submit(p) PROVE SubmitLock'
  BY <1>1, SubmitLockSubmit
<1>2. CASE Advance
  <2>1. \A q \in Submitters : Inside(q) => WindowOf(q)' = WindowOf(q)
    BY <1>2 DEF Advance, Inside, WindowOf
  <2> QED
    BY <1>0, <1>2, <2>1, ScriptsKept DEF Advance, Inside, SubmitLock
<1>3. CASE Renew
  <2>1. \A q \in Submitters : (sub'[q] = sub[q] /\ q # Chain) \/ ~Inside(q)'
    BY <1>0, <1>3 DEF Renew, Idle, Inside, TypeOK
  <2>2. \A q \in Submitters : Inside(q)' => Inside(q) /\ WindowOf(q)' = WindowOf(q)
    BY <2>1 DEF Inside, WindowOf
  <2>3. ASSUME NEW q \in Submitters, sub'[q].pc \in {"sbatch", "record"}
        PROVE  sub[q].pc \in {"sbatch", "record"}
    BY <2>1, <2>3 DEF Inside
  <2> QED
    BY <1>0, <1>3, <2>2, <2>3, ScriptsKept DEF Renew, SubmitLock
<1>4. ASSUME NEW w \in Windows, Close(w) PROVE SubmitLock'
  <2>1. /\ sub' = sub /\ submission' = submission
        /\ \A q \in Submitters : Inside(q)' = Inside(q) /\ WindowOf(q)' = WindowOf(q)
    BY <1>4 DEF Close, Inside, WindowOf, Current
  <2>2. ASSUME NEW q \in Submitters, Inside(q) PROVE outcome'[WindowOf(q)] = outcome[WindowOf(q)]
    BY <1>0, <1>4, <2>2 DEF Close, SubmitLock, TypeOK
  <2> QED
    BY <1>0, <2>1, <2>2, ScriptsKept DEF SubmitLock
<1>5. ASSUME NEW w \in Windows, WatcherDies(w) PROVE SubmitLock'
  <2>1. /\ w \in Submitters /\ Return(w)
        /\ UNCHANGED <<submission, outcome>>
        /\ \A q \in Submitters : WindowOf(q)' = WindowOf(q)
    BY <1>5 DEF WatcherDies, WindowOf, Current, Submitters
  <2>2. \A q \in Submitters : Inside(q)' => Inside(q) /\ sub'[q] = sub[q]
    BY <1>0, <2>1, ReturnLeaves DEF Inside
  <2>3. ASSUME NEW q \in Submitters, sub'[q].pc \in {"sbatch", "record"}
        PROVE  submission'[WindowOf(q)].attempt < MaxAttempts
    BY <1>0, <2>1, <2>2, <2>3 DEF Inside, SubmitLock
  <2> QED
    BY <1>0, <2>1, <2>2, <2>3, ScriptsKept
<1>6. CASE UNCHANGED <<sub, submission, outcome, theta>>
  <2>1. \A q \in Submitters : Inside(q)' = Inside(q) /\ WindowOf(q)' = WindowOf(q)
    BY <1>6 DEF Inside, WindowOf, Current
  <2> QED
    BY <1>0, <1>6, <2>1, ScriptsKept DEF SubmitLock
<1> QED
  BY <1>1, <1>2, <1>3, <1>4, <1>5, <1>6
     DEF Next, Top, GiveUp, Start, Age, Work, Begin, SaveBegins, SaveEnds, Receipt, Preempt,
         Finished, vars

-----------------------------------------------------------------------------
(* The checkpoints and receipts *)

\* What holds of the windows and the training jobs.
Chained == LaunchedOnly /\ Transaction /\ FromParent /\ ReceiptDurable /\ OnPolicy

\* Steps that leave the windows' files alone, and every job alone or outside of the
\* transaction and with a launched window.
LEMMA ChainKept ==
  ASSUME IInv, TypeOK',
         UNCHANGED <<launched, checkpoint, receipt, collectedOn>>,
         \A w \in Windows : outcome'[w] # "open" => w \in launched,
         \A j \in Jobs : \/ jobs'[j] = jobs[j]
                         \/ /\ jobs'[j].at \notin Holding
                            /\ jobs'[j].at \in Live => jobs'[j].window \in launched
  PROVE  Chained'
<1>0. TypeOK /\ LaunchedOnly /\ Transaction /\ FromParent /\ ReceiptDurable /\ OnPolicy
  BY DEF IInv
<1>1. LaunchedOnly'
  BY <1>0 DEF LaunchedOnly
<1>2. Transaction'
  <2>1. ASSUME NEW j \in Jobs, jobs'[j].at \in Holding PROVE jobs'[j] = jobs[j]
    BY <2>1
  <2>2. \A w : Trained(w)' = Trained(w)
    BY DEF Trained
  <2> QED
    BY <1>0, <2>1, <2>2 DEF Transaction
<1>3. FromParent'
  <2>1. ASSUME NEW j \in Jobs, jobs'[j].at \in Holding \cup {"saving", "saved"}
        PROVE  jobs'[j] = jobs[j]
    BY <2>1 DEF Holding
  <2> QED
    BY <1>0, <2>1 DEF FromParent, Holding
<1>4. ReceiptDurable'
  BY <1>0 DEF ReceiptDurable, Trained
<1>5. OnPolicy'
  BY <1>0 DEF OnPolicy
<1> QED
  BY <1>1, <1>2, <1>3, <1>4, <1>5 DEF Chained

\* The jobs the submit script cancels are gone, those it submits are pending for its window.
LEMMA SubmitChained ==
  ASSUME IInv, NEW p \in Submitters, Submit(p), TypeOK'
  PROVE  Chained'
<1> USE DEF disk
<1>0. TypeOK /\ SubmitLock /\ LaunchedOnly
  BY DEF IInv
<1>1. UNCHANGED <<launched, checkpoint, receipt, collectedOn, outcome>>
  BY DEF Submit, Enter, Ask, Cancel, Sbatch, Record
<1>2. Gone.at \notin Holding /\ Gone.at \notin Live
  BY DEF Gone, Holding, Live, Pending, Running
<1>3. CASE jobs' = jobs
  BY <1>0, <1>1, <1>3, ChainKept DEF LaunchedOnly
<1>4. CASE Cancel(p)
  <2>1. \A j \in Jobs : jobs'[j] = jobs[j] \/ jobs'[j] = Gone
    BY <1>0, <1>4 DEF Cancel, TypeOK
  <2> QED
    BY <1>0, <1>1, <1>2, <2>1, ChainKept DEF LaunchedOnly
<1>5. CASE Sbatch(p)
  <2>1. WindowOf(p) \in launched
    BY <1>0, <1>5 DEF Sbatch, SubmitLock, LaunchedOnly, Inside
  <2>2. Submitted(p).at \notin Holding /\ Submitted(p).window \in launched
    BY <2>1 DEF Submitted, Holding
  <2>3. \A j \in Jobs : jobs'[j] = jobs[j] \/ jobs'[j] = Submitted(p)
    <3>1. ASSUME NEW k, jobs' = [jobs EXCEPT ![k] = Submitted(p)]
          PROVE  \A j \in Jobs : jobs'[j] = jobs[j] \/ jobs'[j] = Submitted(p)
      BY <1>0, <3>1 DEF TypeOK
    <3>2. ASSUME NEW k, NEW l, jobs' = [jobs EXCEPT ![k] = Submitted(p), ![l] = Submitted(p)]
          PROVE  \A j \in Jobs : jobs'[j] = jobs[j] \/ jobs'[j] = Submitted(p)
      BY <1>0, <3>2 DEF TypeOK
    <3> HIDE DEF NextJob, Submitted
    <3> QED
      BY <1>5, <3>1, <3>2 DEF Sbatch
  <2> HIDE DEF Submitted
  <2> QED
    BY <1>0, <1>1, <2>2, <2>3, ChainKept DEF LaunchedOnly
<1> QED
  BY <1>3, <1>4, <1>5 DEF Submit, Enter, Ask, Record

\* The controller launches a window with the checkpoint of the theta it has reached,
\* which is complete, and for the window nothing has been saved.
LEMMA TopChained ==
  ASSUME IInv, Top, TypeOK'
  PROVE  Chained'
<1>0. /\ TypeOK /\ InOrder /\ LaunchedOnly /\ Transaction /\ FromParent /\ ReceiptDurable
      /\ OnPolicy
  BY DEF IInv
<1>1. UNCHANGED <<checkpoint, receipt, jobs, outcome>>
  BY DEF Top
<1>2. CASE UNCHANGED <<launched, collectedOn>>
  BY <1>0, <1>1, <1>2, ChainKept DEF LaunchedOnly
<1>3. CASE Current \notin launched /\ theta < FinalTheta /\ launched' = launched \cup {Current}
           /\ collectedOn' = [collectedOn EXCEPT ![Current] = checkpoint[theta].gen]
  <2> DEFINE new == Current
  <2>1. new \in Windows /\ theta \in 0..FinalTheta /\ theta \in Nat /\ new = theta + 1
    BY <1>0, <1>3, ChainAssumption DEF Current, Windows, TypeOK
  <2>2. checkpoint[new].gen = NoGeneration
    BY <1>0, <1>3, <2>1 DEF LaunchedOnly
  <2>3. checkpoint[theta].whole
    <3>1. CASE theta = 0
      BY <1>0, <3>1 DEF LaunchedOnly, Native
    <3>2. CASE theta > 0
      <4>1. Trained(theta) /\ theta \in Windows
        BY <1>0, <2>1, <3>2, ChainAssumption DEF InOrder, Windows
      <4> QED
        BY <1>0, <4>1 DEF ReceiptDurable
    <3> QED
      BY <2>1, <3>1, <3>2
  <2>4. /\ collectedOn'[new] = checkpoint[theta].gen
        /\ \A w \in launched : w # new /\ collectedOn'[w] = collectedOn[w]
    <3>1. new \notin launched /\ launched \subseteq Windows
      BY <1>0, <1>3 DEF TypeOK
    <3> QED
      BY <1>0, <1>3, <2>1, <3>1 DEF TypeOK
  <2> HIDE DEF new
  <2>5. launched' = launched \cup {new}
    BY <1>3 DEF new
  <2>6. LaunchedOnly'
    BY <1>0, <1>1, <2>5 DEF LaunchedOnly
  <2>7. Transaction' /\ ReceiptDurable'
    BY <1>0, <1>1 DEF Transaction, ReceiptDurable, Trained
  <2>8. FromParent'
    <3>1. \A j \in Jobs : jobs[j].at \in Holding => jobs[j].window \in launched
      BY <1>0 DEF LaunchedOnly, Live, Running, Holding
    <3> QED
      BY <1>0, <1>1, <2>4, <3>1 DEF FromParent
  <2>9. OnPolicy'
    <3>1. ASSUME NEW w \in launched'
          PROVE  /\ checkpoint[w - 1].whole /\ checkpoint[w - 1].gen = collectedOn'[w]
                 /\ checkpoint[w].gen # NoGeneration => checkpoint[w].from = collectedOn'[w]
      <4>1. CASE w \in launched
        BY <1>0, <2>4, <4>1 DEF OnPolicy
      <4>2. CASE w = new
        <5>1. w - 1 = theta
          BY <2>1, <4>2
        <5> QED
          BY <2>2, <2>3, <2>4, <4>2, <5>1
      <4> QED
        BY <2>5, <4>1, <4>2
    <3> QED
      BY <1>1, <3>1 DEF OnPolicy
  <2> QED
    BY <2>6, <2>7, <2>8, <2>9 DEF Chained
<1>4. CASE Current \in launched /\ launched' = launched \cup {Current} /\ collectedOn' = collectedOn
  BY <1>2, <1>4
<1> QED
  BY <1>2, <1>3, <1>4 DEF Top

\* A job that is in the queue or running is one of a launched window.
LEMMA WindowLaunched ==
  ASSUME TypeOK, LaunchedOnly, NEW j \in Jobs, jobs[j].at \in Live
  PROVE  /\ jobs[j].window \in launched /\ jobs[j].window \in Windows
         /\ jobs[j].window \in Nat /\ jobs[j].window \in 0..FinalTheta /\ jobs[j].window # 0
         /\ jobs[j].window - 1 \in 0..FinalTheta
<1>1. jobs[j].window \in launched /\ jobs[j].window \in Windows
  BY DEF LaunchedOnly, TypeOK
<1> QED
  BY <1>1, ChainAssumption DEF Windows

\* A job enters the transaction with the checkpoint its window was collected with; no other
\* job of the window is in it, and there is no receipt.
LEMMA BeginChained ==
  ASSUME IInv, NEW j \in Jobs, Begin(j), TypeOK'
  PROVE  Chained'
<1> USE DEF disk
<1>0. /\ TypeOK /\ LaunchedOnly /\ Transaction /\ FromParent /\ ReceiptDurable /\ OnPolicy
  BY DEF IInv
<1>1. UNCHANGED <<launched, checkpoint, receipt, collectedOn, outcome>>
  BY DEF Begin
<1> DEFINE w == jobs[j].window
<1>2. w \in launched /\ w \in Windows
  BY <1>0, WindowLaunched DEF Begin, Live, Running
<1>3. CASE jobs' = [jobs EXCEPT ![j] = Gone]
  <2>1. \A k \in Jobs : jobs'[k] = jobs[k] \/ jobs'[k] = Gone
    BY <1>0, <1>3 DEF TypeOK
  <2>2. Gone.at \notin Holding /\ Gone.at \notin Live
    BY DEF Gone, Holding, Live, Pending, Running
  <2> QED
    BY <1>0, <1>1, <2>1, <2>2, ChainKept DEF LaunchedOnly
<1>4. CASE /\ ~Trained(w)
           /\ jobs' = [jobs EXCEPT ![j] = [@ EXCEPT !.at = "loaded",
                                                    !.from = checkpoint[w - 1].gen]]
  <2>1. /\ jobs'[j].at = "loaded" /\ jobs'[j].window = w
        /\ jobs'[j].from = checkpoint[w - 1].gen
        /\ \A k \in Jobs \ {j} : jobs'[k] = jobs[k]
    BY <1>0, <1>4 DEF TypeOK
  <2>2. \A k \in Jobs : jobs[k].window = w => jobs[k].at \notin Holding
    BY DEF Begin, TrainingLockFree
  <2> HIDE DEF w
  <2>3. LaunchedOnly'
    <3>1. ASSUME NEW k \in Jobs, jobs'[k].at \in Live PROVE jobs'[k].window \in launched
      BY <1>0, <1>2, <2>1, <3>1 DEF LaunchedOnly
    <3> QED
      BY <1>0, <1>1, <3>1 DEF LaunchedOnly
  <2>4. Transaction'
    <3>1. ASSUME NEW k \in Jobs, NEW l \in Jobs, jobs'[k].at \in Holding,
                 jobs'[l].at \in Holding, jobs'[k].window = jobs'[l].window
          PROVE  k = l
      BY <1>0, <2>1, <2>2, <3>1 DEF Transaction
    <3>2. ASSUME NEW k \in Jobs, jobs'[k].at \in Holding PROVE ~Trained(jobs'[k].window)
      BY <1>0, <1>4, <2>1, <3>2 DEF Transaction
    <3> QED
      BY <1>1, <3>1, <3>2 DEF Transaction, Trained
  <2>5. FromParent'
    <3>1. checkpoint[w - 1].gen = collectedOn[w]
      BY <1>0, <1>2 DEF OnPolicy
    <3> QED
      BY <1>0, <1>1, <2>1, <3>1 DEF FromParent
  <2>6. ReceiptDurable' /\ OnPolicy'
    BY <1>0, <1>1 DEF ReceiptDurable, Trained, OnPolicy
  <2> QED
    BY <2>3, <2>4, <2>5, <2>6 DEF Chained
<1> QED
  BY <1>3, <1>4 DEF Begin

\* A job in the transaction writes the checkpoint of its window, and of no other, on from
\* the checkpoint it has loaded.
LEMMA SaveChained ==
  ASSUME IInv, NEW j \in Jobs, SaveBegins(j) \/ SaveEnds(j), TypeOK'
  PROVE  Chained'
<1>0. /\ TypeOK /\ InOrder /\ LaunchedOnly /\ Transaction /\ FromParent /\ ReceiptDurable
      /\ OnPolicy
  BY DEF IInv
<1> DEFINE w == jobs[j].window
<1>1. UNCHANGED <<launched, receipt, collectedOn, outcome>>
  BY DEF SaveBegins, SaveEnds
<1>2. jobs[j].at \in Holding /\ jobs[j].at \in Live
  BY DEF SaveBegins, SaveEnds, Holding, Live, Running
<1>3. /\ w \in launched /\ w \in Windows /\ w \in Nat /\ w # 0 /\ w \in 0..FinalTheta
      /\ ~Trained(w) /\ jobs[j].from = collectedOn[w]
  BY <1>0, <1>2, WindowLaunched DEF Transaction, FromParent
<1>4. /\ \A k \in Jobs \ {j} : jobs'[k] = jobs[k]
      /\ jobs'[j].at \in {"saving", "saved"}
      /\ jobs'[j].window = w /\ jobs'[j].from = jobs[j].from
      /\ \A v \in 0..FinalTheta : v # w => checkpoint'[v] = checkpoint[v]
      /\ checkpoint'[w].from = jobs[j].from
      /\ jobs'[j].at = "saved" => checkpoint'[w].whole
  <2>1. CASE SaveBegins(j)
    BY <1>0, <1>3, <2>1 DEF SaveBegins, TypeOK
  <2>2. CASE SaveEnds(j)
    <3>1. checkpoint[w].from = jobs[j].from
      BY <1>0, <2>2 DEF FromParent, SaveEnds
    <3>2. checkpoint' = [checkpoint EXCEPT ![w] = [checkpoint[w] EXCEPT !.whole = TRUE]]
      BY <1>0, <1>3, <2>2 DEF SaveEnds, TypeOK
    <3>3. jobs' = [jobs EXCEPT ![j] = [jobs[j] EXCEPT !.at = "saved"]]
      BY <1>0, <2>2 DEF SaveEnds, TypeOK
    <3>4. checkpoint[w] \in [gen : Generations, whole : BOOLEAN, from : Generations]
      BY <1>0, <1>3 DEF TypeOK
    <3>5. /\ checkpoint'[w] = [checkpoint[w] EXCEPT !.whole = TRUE]
          /\ \A v \in 0..FinalTheta : v # w => checkpoint'[v] = checkpoint[v]
      BY <1>0, <1>3, <3>2 DEF TypeOK
    <3>6. jobs[j] \in JobRecords
      BY <1>0, JobType
    <3>7. /\ \A k \in Jobs \ {j} : jobs'[k] = jobs[k]
          /\ jobs'[j].at = "saved" /\ jobs'[j].window = w /\ jobs'[j].from = jobs[j].from
      BY <1>0, <3>3, <3>6 DEF TypeOK, JobRecords
    <3> QED
      <4> HIDE DEF w
      <4> QED
        BY <3>1, <3>4, <3>5, <3>7
  <2> QED
    BY <2>1, <2>2
<1>5. \A k \in Jobs : jobs[k].at \in Holding /\ k # j => jobs[k].window # w
  BY <1>0, <1>2 DEF Transaction
<1>6. {"saving", "saved"} \subseteq Holding /\ {"saving", "saved"} \subseteq Live
  BY DEF Holding, Live, Running
<1> HIDE DEF w
<1>7. LaunchedOnly'
  <2>1. ASSUME NEW k \in Jobs, jobs'[k].at \in Live PROVE jobs'[k].window \in launched
    BY <1>0, <1>3, <1>4, <2>1 DEF LaunchedOnly
  <2>2. \A v \in Windows \ launched : checkpoint'[v].gen = NoGeneration
    <3>1. ASSUME NEW v \in Windows \ launched PROVE v \in 0..FinalTheta /\ v # w
      BY <1>3, ChainAssumption DEF Windows
    <3> QED
      BY <1>0, <1>4, <3>1 DEF LaunchedOnly
  <2>3. checkpoint'[0] = Native
    BY <1>0, <1>3, <1>4, ChainAssumption DEF LaunchedOnly
  <2> QED
    BY <1>0, <1>1, <2>1, <2>2, <2>3 DEF LaunchedOnly
<1>8. Transaction'
  <2>1. ASSUME NEW k \in Jobs, jobs'[k].at \in Holding
        PROVE  jobs[k].at \in Holding /\ jobs'[k].window = jobs[k].window
    BY <1>2, <1>4, <2>1 DEF w
  <2>2. \A v : Trained(v)' = Trained(v)
    BY <1>1 DEF Trained
  <2> QED
    BY <1>0, <2>1, <2>2 DEF Transaction
<1>9. FromParent'
  <2>1. ASSUME NEW k \in Jobs, k # j, jobs[k].at \in Holding
        PROVE  checkpoint'[jobs[k].window] = checkpoint[jobs[k].window]
    <3>1. jobs[k].at \in Live
      BY <2>1 DEF Holding, Live, Running
    <3>2. jobs[k].window \in 0..FinalTheta
      BY <1>0, <3>1, WindowLaunched
    <3> QED
      BY <1>4, <1>5, <2>1, <3>2
  <2>2. ASSUME NEW k \in Jobs
        PROVE  LET v == jobs'[k].window IN
               /\ jobs'[k].at \in Holding => jobs'[k].from = collectedOn[v]
               /\ jobs'[k].at \in {"saving", "saved"} => checkpoint'[v].from = jobs'[k].from
               /\ jobs'[k].at = "saved" => checkpoint'[v].whole
    <3>1. CASE k = j
      BY <1>3, <1>4, <3>1
    <3>2. CASE k # j
      BY <1>0, <1>4, <1>6, <2>1, <3>2 DEF FromParent
    <3> QED
      BY <3>1, <3>2
  <2> QED
    BY <1>1, <2>2 DEF FromParent
<1>10. ReceiptDurable'
  <2>1. ASSUME NEW v \in Windows, Trained(v) PROVE checkpoint'[v] = checkpoint[v]
    BY <1>3, <1>4, <2>1, ChainAssumption DEF Windows
  <2> QED
    BY <1>0, <1>1, <2>1 DEF ReceiptDurable, Trained
<1>11. OnPolicy'
  <2>1. ASSUME NEW v \in launched
        PROVE  /\ checkpoint'[v - 1] = checkpoint[v - 1]
               /\ checkpoint'[v].gen # NoGeneration => checkpoint'[v].from = collectedOn[v]
    <3>1. v \in Nat /\ v > 0 /\ v \in 0..FinalTheta /\ v - 1 \in 0..FinalTheta
      BY <1>0, ChainAssumption DEF TypeOK, Windows
    <3>2. v - 1 # w
      <4>1. SUFFICES ASSUME v - 1 = w PROVE FALSE
        OBVIOUS
      <4>2. v > 1
        BY <1>3, <3>1, <4>1
      <4> QED
        BY <1>0, <1>3, <4>1, <4>2 DEF InOrder
    <3> QED
      BY <1>0, <1>3, <1>4, <3>1, <3>2 DEF OnPolicy
  <2> QED
    BY <1>0, <1>1, <2>1 DEF OnPolicy
<1> QED
  BY <1>7, <1>8, <1>9, <1>10, <1>11 DEF Chained

\* The receipt is written for the checkpoint the job has just completed, and the job leaves.
LEMMA ReceiptChained ==
  ASSUME IInv, NEW j \in Jobs, Receipt(j), TypeOK'
  PROVE  Chained' /\ \A v \in Windows : Trained(v) => Trained(v)'
<1>0. /\ TypeOK /\ LaunchedOnly /\ Transaction /\ FromParent /\ ReceiptDurable /\ OnPolicy
  BY DEF IInv
<1> DEFINE w == jobs[j].window
<1>1. UNCHANGED <<launched, checkpoint, collectedOn, outcome>>
  BY DEF Receipt
<1>2. jobs[j].at \in Holding /\ jobs[j].at \in Live
  BY DEF Receipt, Holding, Live, Running
<1>3. w \in Windows /\ ~Trained(w) /\ checkpoint[w].whole
  BY <1>0, <1>2, WindowLaunched DEF Transaction, FromParent, Receipt
<1>4. /\ \A v \in Windows : v # w => receipt'[v] = receipt[v]
      /\ receipt'[w] = checkpoint[w].gen
      /\ \A k \in Jobs : k # j => jobs'[k] = jobs[k]
      /\ jobs'[j] = Gone
  BY <1>0, <1>3 DEF Receipt, TypeOK
<1>5. Gone.at \notin Holding /\ Gone.at \notin Live
  BY DEF Gone, Holding, Live, Pending, Running
<1>6. \A k \in Jobs : jobs[k].at \in Holding /\ k # j => jobs[k].window # w
  BY <1>0, <1>2 DEF Transaction
<1> HIDE DEF w
<1>7. \A v \in Windows : Trained(v) => Trained(v)'
  BY <1>3, <1>4 DEF Trained
<1>8. LaunchedOnly' /\ OnPolicy'
  BY <1>0, <1>1, <1>4, <1>5 DEF LaunchedOnly, OnPolicy
<1>9. FromParent'
  BY <1>0, <1>1, <1>4, <1>5 DEF FromParent, Holding
<1>10. Transaction'
  <2>1. ASSUME NEW k \in Jobs, jobs'[k].at \in Holding
        PROVE  k # j /\ jobs'[k] = jobs[k] /\ jobs[k].at \in Holding
    BY <1>4, <1>5, <2>1
  <2>2. ASSUME NEW k \in Jobs, jobs'[k].at \in Holding PROVE receipt'[jobs'[k].window] = NoGeneration
    <3>1. k # j /\ jobs'[k] = jobs[k] /\ jobs[k].at \in Holding
      BY <2>1, <2>2
    <3>2. jobs[k].at \in Live
      BY <3>1 DEF Holding, Live, Running
    <3>3. jobs[k].window \in Windows /\ jobs[k].window # w /\ ~Trained(jobs[k].window)
      BY <1>0, <1>6, <3>1, <3>2, WindowLaunched DEF Transaction
    <3> QED
      BY <1>4, <3>1, <3>3 DEF Trained
  <2> QED
    BY <1>0, <2>1, <2>2 DEF Transaction, Trained
<1>11. ReceiptDurable'
  BY <1>0, <1>1, <1>3, <1>4 DEF ReceiptDurable, Trained
<1> QED
  BY <1>7, <1>8, <1>9, <1>10, <1>11 DEF Chained

-----------------------------------------------------------------------------
(* The order of the windows *)

LEMMA InOrderStep ==
  ASSUME IInv, [Next]_vars, TypeOK'
  PROVE  InOrder'
<1> USE DEF disk
<1>0. TypeOK /\ InOrder /\ theta \in Nat
  BY DEF IInv, TypeOK
<1>1. CASE Top
  <2>1. CASE chain' \in {"complete", "stopped"} /\ launched' = launched
    BY <1>0, <1>1, <2>1 DEF Top, InOrder, Trained
  <2>2. CASE theta < FinalTheta /\ launched' = launched \cup {Current}
    <3>1. ASSUME NEW w \in launched', w > 1 PROVE Trained(w - 1)
      <4>1. CASE w \in launched
        BY <1>0, <3>1, <4>1 DEF InOrder
      <4>2. CASE w = theta + 1
        <5>1. w - 1 = theta /\ theta > 0
          BY <1>0, <3>1, <4>2
        <5> QED
          BY <1>0, <5>1 DEF InOrder
      <4> QED
        BY <2>2, <4>1, <4>2 DEF Current
    <3> QED
      BY <1>0, <1>1, <2>2, <3>1 DEF Top, InOrder, Trained
  <2> QED
    BY <1>1, <2>1, <2>2 DEF Top
<1>2. CASE Advance
  BY <1>0, <1>2 DEF Advance, InOrder, Trained, Current
<1>3. CASE Renew
  BY <1>0, <1>3 DEF Renew, InOrder, Trained
<1>4. ASSUME NEW j \in Jobs, Receipt(j) PROVE InOrder'
  <2>1. UNCHANGED <<launched, chain, theta>> /\ \A v \in Windows : Trained(v) => Trained(v)'
    BY <1>4, ReceiptChained DEF Receipt
  <2>2. theta > 0 => theta \in Windows
    BY <1>0, ChainAssumption DEF TypeOK, Windows
  <2>3. ASSUME NEW w \in launched, w > 1 PROVE w - 1 \in Windows
    BY <1>0, <2>3, ChainAssumption DEF TypeOK, Windows
  <2> QED
    BY <1>0, <2>1, <2>2, <2>3 DEF InOrder
<1>5. CASE /\ UNCHANGED <<launched, receipt, theta>>
           /\ chain' = "wait" => chain = "wait"
  BY <1>0, <1>5 DEF InOrder, Trained
<1>6. ASSUME NEW p \in Submitters, Submit(p) PROVE InOrder'
  BY <1>5, <1>6 DEF Submit, Enter, Ask, Cancel, Sbatch, Record
<1>7. ASSUME NEW j \in Jobs, Start(j) \/ Age(j) \/ Preempt(j) \/ Begin(j) \/ SaveBegins(j)
                             \/ SaveEnds(j)
      PROVE  InOrder'
  BY <1>5, <1>7 DEF Start, Age, Preempt, Begin, SaveBegins, SaveEnds
<1>8. CASE GiveUp \/ Finished \/ UNCHANGED vars
  BY <1>5, <1>8 DEF GiveUp, Finished, vars
<1>9. ASSUME NEW w \in Windows, Close(w) \/ WatcherDies(w) PROVE InOrder'
  BY <1>5, <1>9 DEF Close, WatcherDies
<1> QED
  BY <1>1, <1>2, <1>3, <1>4, <1>6, <1>7, <1>8, <1>9 DEF Next, Work

LEMMA ChainedStep ==
  ASSUME IInv, [Next]_vars, TypeOK'
  PROVE  Chained'
<1> USE DEF disk
<1>0. TypeOK /\ LaunchedOnly
  BY DEF IInv
<1>1. CASE Top
  BY <1>1, TopChained
<1>2. ASSUME NEW p \in Submitters, Submit(p) PROVE Chained'
  BY <1>2, SubmitChained
<1>3. ASSUME NEW j \in Jobs, Work(j) PROVE Chained'
  BY <1>3, BeginChained, SaveChained, ReceiptChained DEF Work
<1>4. CASE UNCHANGED <<launched, checkpoint, receipt, collectedOn, outcome, jobs>>
  BY <1>0, <1>4, ChainKept DEF LaunchedOnly
<1>5. ASSUME NEW w \in Windows, Close(w) PROVE Chained'
  <2>1. \A v \in Windows : outcome'[v] # "open" => v \in launched
    BY <1>0, <1>5 DEF Close, LaunchedOnly, TypeOK
  <2> QED
    BY <1>5, <2>1, ChainKept DEF Close
<1>6. ASSUME NEW j \in Jobs, Start(j) \/ Age(j) \/ Preempt(j) PROVE Chained'
  <2>1. jobs[j].window \in launched
    BY <1>0, <1>6, WindowLaunched DEF Start, Age, Preempt, Live, Pending
  <2>2. /\ \A k \in Jobs : k # j => jobs'[k] = jobs[k]
        /\ \/ jobs'[j] = Gone
           \/ jobs'[j].at \in {"waiting", "overdue", "pending"} /\ jobs'[j].window = jobs[j].window
    <3>1. jobs[j] \in JobRecords /\ jobs \in [Jobs -> JobRecords]
      BY <1>0, JobType
    <3>2. \A r \in JobRecords : \A at, from :
            /\ [r EXCEPT !.at = at].at = at
            /\ [r EXCEPT !.at = at].window = r.window
            /\ [r EXCEPT !.at = at, !.from = from].at = at
            /\ [r EXCEPT !.at = at, !.from = from].window = r.window
      BY DEF JobRecords
    <3>3. CASE \E at \in {"waiting", "overdue"} : jobs' = [jobs EXCEPT ![j].at = at]
      BY <3>1, <3>2, <3>3
    <3>4. CASE jobs' = [jobs EXCEPT ![j].at = "pending", ![j].from = NoGeneration]
      <4>1. jobs' = [jobs EXCEPT ![j] = [jobs[j] EXCEPT !.at = "pending", !.from = NoGeneration]]
        BY <3>1, <3>4
      <4> QED
        BY <3>1, <3>2, <4>1
    <3>5. CASE jobs' = [jobs EXCEPT ![j] = Gone]
      BY <3>1, <3>5
    <3> QED
      BY <1>6, <3>3, <3>4, <3>5 DEF Start, Age, Preempt
  <2>3. Gone.at \notin Holding /\ Gone.at \notin Live
    BY DEF Gone, Holding, Live, Pending, Running
  <2>4. \A k \in Jobs : \/ jobs'[k] = jobs[k]
                        \/ /\ jobs'[k].at \notin Holding
                           /\ jobs'[k].at \in Live => jobs'[k].window \in launched
    BY <2>1, <2>2, <2>3 DEF Holding
  <2>5. UNCHANGED <<launched, checkpoint, receipt, collectedOn, outcome>>
    BY <1>6 DEF Start, Age, Preempt
  <2> QED
    BY <1>0, <2>4, <2>5, ChainKept DEF LaunchedOnly
<1>7. CASE Advance \/ GiveUp \/ Renew \/ Finished \/ UNCHANGED vars
  BY <1>4, <1>7 DEF Advance, GiveUp, Renew, Finished, vars
<1>8. ASSUME NEW w \in Windows, WatcherDies(w) PROVE Chained'
  BY <1>4, <1>8 DEF WatcherDies
<1> QED
  BY <1>1, <1>2, <1>3, <1>5, <1>6, <1>7, <1>8 DEF Next

-----------------------------------------------------------------------------
(* The invariant and what follows from it *)

LEMMA InitIInv == Init => IInv
<1> SUFFICES ASSUME Init PROVE IInv
  OBVIOUS
<1>1. TypeOK
  BY InitType
<1>2. SubmitLock
  BY DEF Init, SubmitLock, Inside, Idle
<1>3. LaunchedOnly
  <2>1. ASSUME NEW w \in Windows PROVE checkpoint[w] = NoCheckpoint
    BY ChainAssumption DEF Init, Windows
  <2>2. checkpoint[0] = Native
    BY ChainAssumption DEF Init
  <2> QED
    BY <2>1, <2>2 DEF Init, LaunchedOnly, NoCheckpoint, Gone, Live, Pending, Running
<1>4. InOrder /\ Transaction /\ FromParent /\ ReceiptDurable
  BY DEF Init, InOrder, Transaction, FromParent, ReceiptDurable, Trained, Gone, Holding
<1>5. OnPolicy
  BY <1>1 DEF Init, OnPolicy
<1> QED
  BY <1>1, <1>2, <1>3, <1>4, <1>5 DEF IInv

LEMMA IInvStep == IInv /\ [Next]_vars => IInv'
<1> SUFFICES ASSUME IInv, [Next]_vars PROVE IInv'
  OBVIOUS
<1>1. TypeOK'
  BY TypeStep
<1>2. SubmitLock'
  BY SubmitLockStep
<1>3. InOrder' /\ Chained'
  BY <1>1, InOrderStep, ChainedStep
<1> QED
  BY <1>1, <1>2, <1>3 DEF IInv, Chained

\* The invariant behind the safety of the chain.
THEOREM Invariance == Spec => []IInv
<1>1. Init => IInv
  BY InitIInv
<1>2. IInv /\ [Next]_vars => IInv'
  BY IInvStep
<1> QED
  BY <1>1, <1>2, PTL DEF Spec

\* A receipt vouches for the complete checkpoint that is on disk, whatever is preempted,
\* repeated or submitted twice (training_transaction, write_training_receipt).
THEOREM ReceiptsAreDurable == Spec => []ReceiptDurable
<1>1. IInv => ReceiptDurable
  BY DEF IInv
<1> QED
  BY <1>1, Invariance, PTL

\* The update of a window starts from the checkpoint the window was collected with, which
\* is never replaced (load_checkpoint under training_transaction; launch only after the
\* receipt of the theta before).
THEOREM UpdatesAreOnPolicy == Spec => []OnPolicy
<1>1. IInv => OnPolicy
  BY DEF IInv
<1> QED
  BY <1>1, Invariance, PTL


-----------------------------------------------------------------------------
(* The retry budget and the partitions *)

LEMMA NextAttempt ==
  ASSUME NEW n \in Nat
  PROVE  /\ PartitionOf(n) = "normal" => PartitionOf(n + 1) = "preempt"
         /\ PartitionOf(n) # "normal" => PartitionOf(n + 1) = "normal"
         /\ PartitionOf(1) = "normal"
BY DEF PartitionOf

\* What Alternation says of one window, and of one script.
Alternates(w) == LET s == submission[w] IN
  /\ s.attempt = 0 <=> s.job = NoJob
  /\ s.attempt # 0 => s.partition = PartitionOf(s.attempt)

Follows(p) == LET s == submission[WindowOf(p)] IN
  /\ sub[p].pc = "cancel" => s.attempt # 0 /\ s.partition = "normal"
  /\ sub[p].pc \in {"sbatch", "record"} => sub[p].partition = PartitionOf(s.attempt + 1)
  /\ sub[p].pc = "record" => sub[p].job # NoJob

LEMMA AlternationParts ==
  Alternation <=> (\A w \in Windows : Alternates(w)) /\ (\A p \in Submitters : Follows(p))
BY DEF Alternation, Alternates, Follows

\* A script that calls Attempt for the partition after the last one goes on to submit there.
LEMMA AttemptFollows ==
  ASSUME TypeOK, NEW p \in Submitters, NEW to, Attempt(p, to),
         to = PartitionOf(submission[WindowOf(p)].attempt + 1)
  PROVE  \/ ~Inside(p)'
         \/ /\ sub'[p].pc = "sbatch"
            /\ sub'[p].partition = PartitionOf(submission[WindowOf(p)].attempt + 1)
<1>1. CASE Return(p)
  BY <1>1, ReturnLeaves
<1>2. CASE sub' = [sub EXCEPT ![p].pc = "sbatch", ![p].partition = to]
  <2> HIDE DEF PartitionOf, WindowOf
  <2> QED
    BY <1>2 DEF TypeOK
<1> QED
  BY <1>1, <1>2, AttemptStep

LEMMA ScriptAlternates ==
  ASSUME IInv, Alternation, NEW p \in Submitters, Submit(p)
  PROVE  /\ \A w \in Windows : Alternates(w)'
         /\ Follows(p)'
<1> USE DEF disk
<1>0. /\ TypeOK /\ SubmitLock /\ WindowOf(p)' = WindowOf(p)
      /\ \A w \in Windows : Alternates(w)
      /\ Follows(p)
  BY AlternationParts DEF IInv, Submit, Enter, Ask, Cancel, Sbatch, Record, WindowOf, Current
<1> DEFINE w == WindowOf(p)  s == submission[w]
<1>1. CASE Enter(p)
  <2>1. sub'[p].pc \notin {"cancel", "sbatch", "record"} /\ submission' = submission
    <3>1. CASE Return(p)
      BY <1>0, <1>1, <3>1, ReturnLeaves DEF Inside, Enter
    <3>2. CASE sub' = [sub EXCEPT ![p].pc = "ask"]
      BY <1>0, <1>1, <3>2 DEF TypeOK, Enter
    <3> QED
      BY <1>1, <3>1, <3>2 DEF Enter
  <2> QED
    BY <1>0, <2>1 DEF Alternates, Follows
<1>2. ASSUME ~Enter(p) PROVE w \in Windows /\ s.attempt \in Nat
  <2>1. Inside(p)
    BY <1>2 DEF Submit, Ask, Cancel, Sbatch, Record, Inside
  <2>2. w \in Windows
    BY <1>0, <2>1 DEF SubmitLock
  <2> QED
    BY <1>0, <2>2 DEF TypeOK
<1>3. ASSUME ~Enter(p), UNCHANGED submission,
             \/ ~Inside(p)'
             \/ sub'[p].pc = "cancel" /\ s.attempt # 0 /\ s.partition = "normal"
             \/ sub'[p].pc = "sbatch" /\ sub'[p].partition = PartitionOf(s.attempt + 1)
      PROVE  (\A v \in Windows : Alternates(v)') /\ Follows(p)'
  <2>1. \A v \in Windows : Alternates(v)'
    BY <1>0, <1>3 DEF Alternates
  <2>2. submission'[WindowOf(p)'] = s
    BY <1>0, <1>3
  <2>3. Follows(p)'
    <3> HIDE DEF s
    <3> QED
      BY <1>3, <2>2 DEF Follows, Inside
  <2> QED
    BY <2>1, <2>3
<1>4. CASE Ask(p)
  <2>0. ~Enter(p) /\ UNCHANGED submission
    BY <1>4 DEF Ask, Enter, Calls
  <2>1. w \in Windows /\ s.attempt \in Nat /\ Alternates(w)
    BY <1>0, <1>2, <2>0
  <2>2. CASE Return(p)
    BY <1>0, <1>3, <2>0, <2>2, ReturnLeaves
  <2>3. CASE s.job # NoJob /\ Overdue(s) /\ sub' = [sub EXCEPT ![p].pc = "cancel"]
    <3>1. sub'[p].pc = "cancel" /\ s.attempt # 0 /\ s.partition = "normal"
      BY <1>0, <2>1, <2>3 DEF Alternates, Overdue, TypeOK
    <3> QED
      BY <1>3, <2>0, <3>1
  <2>4. CASE s.job = NoJob /\ Attempt(p, "normal")
    <3>1. s.attempt = 0
      BY <2>1, <2>4 DEF Alternates
    <3>2. "normal" = PartitionOf(s.attempt + 1)
      BY <3>1, NextAttempt
    <3> QED
      BY <1>0, <1>3, <2>0, <2>4, <3>2, AttemptFollows
  <2>5. CASE s.job # NoJob /\ Attempt(p, NextPartition(s))
    <3>1. s.partition = PartitionOf(s.attempt)
      BY <2>1, <2>5 DEF Alternates
    <3>2. NextPartition(s) = PartitionOf(s.attempt + 1)
      <4>1. CASE s.partition = "normal"
        BY <2>1, <3>1, <4>1, NextAttempt DEF NextPartition
      <4>2. CASE s.partition # "normal"
        BY <2>1, <3>1, <4>2, NextAttempt DEF NextPartition
      <4> QED
        BY <4>1, <4>2
    <3> QED
      BY <1>0, <1>3, <2>0, <2>5, <3>2, AttemptFollows
  <2> QED
    BY <1>4, <2>2, <2>3, <2>4, <2>5 DEF Ask
<1>5. CASE Cancel(p)
  <2>1. ~Enter(p) /\ UNCHANGED submission /\ sub[p].pc = "cancel" /\ Attempt(p, "preempt")
    BY <1>5 DEF Cancel, Enter, Calls
  <2>2. w \in Windows /\ s.attempt \in Nat /\ Alternates(w)
    BY <1>0, <1>2, <2>1
  <2>3. s.attempt # 0 /\ s.partition = "normal"
    BY <1>0, <2>1 DEF Follows
  <2>4. "preempt" = PartitionOf(s.attempt + 1)
    BY <2>2, <2>3, NextAttempt DEF Alternates
  <2> QED
    BY <1>0, <1>3, <2>1, <2>4, AttemptFollows
<1>6. CASE Sbatch(p)
  <2>0. ~Enter(p) /\ UNCHANGED submission /\ sub[p].pc = "sbatch"
    BY <1>6 DEF Sbatch, Enter, Calls
  <2>1. CASE Return(p)
    BY <1>0, <1>3, <2>0, <2>1, ReturnLeaves
  <2>2. ASSUME NEW j \in Jobs, sub' = [sub EXCEPT ![p].pc = "record", ![p].job = j]
        PROVE  (\A v \in Windows : Alternates(v)') /\ Follows(p)'
    <3>1. sub'[p].pc = "record" /\ sub'[p].job = j /\ sub'[p].partition = sub[p].partition
      BY <1>0, <2>2 DEF TypeOK
    <3>2. j # NoJob
      BY ChainAssumption DEF NoJob, Jobs
    <3>3. sub[p].partition = PartitionOf(s.attempt + 1)
      BY <1>0, <2>0 DEF Follows
    <3>4. submission'[WindowOf(p)'] = s
      BY <1>0, <2>0
    <3>5. \A v \in Windows : Alternates(v)'
      BY <1>0, <2>0 DEF Alternates
    <3> HIDE DEF s
    <3> QED
      BY <3>1, <3>2, <3>3, <3>4, <3>5 DEF Follows
  <2>3. Free \in SUBSET Jobs
    BY DEF Free
  <2>4. Free # {} => NextJob(Free) \in Jobs
    BY <2>3, FirstJob
  <2>5. Cardinality(Free) >= 2 => NextJob(Free \ {NextJob(Free)}) \in Jobs
    BY <2>3, TwoJobs
  <2> HIDE DEF NextJob
  <2> QED
    BY <1>6, <2>1, <2>2, <2>4, <2>5 DEF Sbatch
<1>7. CASE Record(p)
  <2>0. ~Enter(p) /\ sub[p].pc = "record" /\ Return(p)
    BY <1>7 DEF Record, Enter, Calls
  <2>1. w \in Windows /\ s.attempt \in Nat
    BY <1>2, <2>0
  <2>2. /\ submission'[w] = [job |-> sub[p].job, attempt |-> s.attempt + 1,
                             partition |-> sub[p].partition]
        /\ \A v \in Windows \ {w} : submission'[v] = submission[v]
    BY <1>0, <1>7, <2>1 DEF Record, TypeOK
  <2>3. sub[p].job # NoJob /\ sub[p].partition = PartitionOf(s.attempt + 1)
    BY <1>0, <2>0 DEF Follows
  <2>4. s.attempt + 1 # 0
    BY <2>1
  <2>5. Follows(p)'
    BY <1>0, <2>0, ReturnLeaves DEF Follows, Inside
  <2>6. ASSUME NEW v \in Windows PROVE Alternates(v)'
    <3>1. CASE v = w
      <4> HIDE DEF w, s, PartitionOf
      <4> QED
        BY <2>2, <2>3, <2>4, <3>1 DEF Alternates
    <3>2. CASE v # w
      BY <1>0, <2>2, <3>2 DEF Alternates
    <3> QED
      BY <3>1, <3>2
  <2> QED
    BY <2>5, <2>6
<1> QED
  BY <1>1, <1>4, <1>5, <1>6, <1>7 DEF Submit

LEMMA AlternationStep == IInv /\ Alternation /\ [Next]_vars => Alternation'
<1> SUFFICES ASSUME IInv, Alternation, [Next]_vars PROVE Alternation'
  OBVIOUS
<1> USE DEF disk
<1>0. /\ TypeOK /\ SubmitLock
      /\ \A w \in Windows : Alternates(w)
      /\ \A p \in Submitters : Follows(p)
  BY AlternationParts DEF IInv
<1>1. SUFFICES (\A w \in Windows : Alternates(w)') /\ (\A p \in Submitters : Follows(p)')
  BY DEF Alternation, Alternates, Follows
<1>2. ASSUME UNCHANGED submission,
             \A q \in Submitters : \/ ~Inside(q)'
                                   \/ sub'[q] = sub[q] /\ WindowOf(q)' = WindowOf(q)
      PROVE  (\A w \in Windows : Alternates(w)') /\ (\A p \in Submitters : Follows(p)')
  BY <1>0, <1>2 DEF Alternates, Follows, Inside
<1>3. ASSUME NEW p \in Submitters, Submit(p)
      PROVE  (\A w \in Windows : Alternates(w)') /\ (\A q \in Submitters : Follows(q)')
  <2>1. (\A w \in Windows : Alternates(w)') /\ Follows(p)'
    BY <1>3, ScriptAlternates
  <2>2. ASSUME NEW q \in Submitters \ {p} PROVE Follows(q)'
    <3>1. sub'[q] = sub[q] /\ WindowOf(q)' = WindowOf(q)
      BY <1>0, <1>3, OthersWait
         DEF Submit, Enter, Ask, Cancel, Sbatch, Record, WindowOf, Current
    <3>2. Inside(q) => submission'[WindowOf(q)] = submission[WindowOf(q)]
      <4>1. CASE Record(p)
        <5>1. Inside(q) => WindowOf(q) # WindowOf(p) /\ WindowOf(q) \in Windows
          BY <1>0, <4>1 DEF SubmitLock, Record, Inside
        <5> QED
          BY <1>0, <4>1, <5>1 DEF Record, TypeOK
      <4> QED
        BY <1>3, <4>1 DEF Submit, Enter, Ask, Cancel, Sbatch
    <3> QED
      BY <1>0, <3>1, <3>2 DEF Follows, Inside
  <2> QED
    BY <2>1, <2>2
<1>4. CASE Advance
  BY <1>2, <1>4 DEF Advance, Inside, WindowOf
<1>5. CASE Renew
  <2>1. \A q \in Submitters : (sub'[q] = sub[q] /\ q # Chain) \/ ~Inside(q)'
    BY <1>0, <1>5 DEF Renew, Idle, Inside, TypeOK
  <2> QED
    BY <1>2, <1>5, <2>1 DEF Renew, WindowOf
<1>6. ASSUME NEW w \in Windows, WatcherDies(w)
      PROVE  (\A v \in Windows : Alternates(v)') /\ (\A q \in Submitters : Follows(q)')
  <2>1. /\ w \in Submitters /\ Return(w) /\ UNCHANGED submission
        /\ \A q \in Submitters : WindowOf(q)' = WindowOf(q)
    BY <1>6 DEF WatcherDies, WindowOf, Current, Submitters
  <2> QED
    BY <1>0, <1>2, <2>1, ReturnLeaves
<1>7. CASE UNCHANGED <<sub, submission, theta>>
  BY <1>2, <1>7 DEF WindowOf, Current
<1> QED
  BY <1>3, <1>4, <1>5, <1>6, <1>7
     DEF Next, Top, GiveUp, Close, Start, Age, Work, Begin, SaveBegins, SaveEnds, Receipt,
         Preempt, Finished, vars

\* Only a scancel at the last attempt leaves an orphan, and the last attempt of an even
\* budget is a preemptible one, which is never cancelled.
LEMMA FallbackStep ==
  ASSUME MaxAttempts % 2 = 0
  PROVE  IInv /\ Alternation /\ FallbackFollows /\ [Next]_vars => FallbackFollows'
<1> SUFFICES ASSUME IInv, Alternation, FallbackFollows, [Next]_vars PROVE FallbackFollows'
  OBVIOUS
<1> USE DEF disk
<1>1. ASSUME NEW p \in Submitters, Cancel(p) PROVE orphaned' = orphaned
  <2> DEFINE s == submission[WindowOf(p)]
  <2>1. WindowOf(p) \in Windows
    BY <1>1 DEF Cancel, IInv, SubmitLock, Inside
  <2>2. s.attempt \in Nat
    BY <2>1 DEF IInv, TypeOK
  <2>3. PartitionOf(s.attempt) = "normal"
    BY <1>1, <2>1 DEF Alternation, Cancel
  <2>4. s.attempt # MaxAttempts
    BY <2>2, <2>3, ChainAssumption DEF PartitionOf
  <2> QED
    BY <1>1, <2>4 DEF Cancel
<1>2. orphaned' = orphaned
  BY <1>1 DEF Next, Top, Advance, GiveUp, Renew, Close, WatcherDies, Submit, Enter, Ask, Sbatch,
     Record, Start, Age, Work, Begin, SaveBegins, SaveEnds, Receipt, Preempt, Finished, vars
<1> QED
  BY <1>2 DEF FallbackFollows

\* With an even retry budget (12 by default) no cancelled job is left without a successor
\* (submit_spooled_window.sh, which looks at the budget only after the scancel).
THEOREM CancelledJobsAreReplaced ==
  ASSUME MaxAttempts % 2 = 0
  PROVE  Spec => []FallbackFollows
<1>1. Init => Alternation /\ FallbackFollows
  BY DEF Init, Alternation, FallbackFollows, NotSubmitted, Idle, NoJob
<1>2. IInv /\ Alternation /\ [Next]_vars => Alternation'
  BY AlternationStep
<1>3. IInv /\ Alternation /\ FallbackFollows /\ [Next]_vars => FallbackFollows'
  BY FallbackStep
<1> QED
  BY <1>1, <1>2, <1>3, Invariance, PTL DEF Spec

-----------------------------------------------------------------------------
(* The evaluation *)

\* Where a process can be while it has items in its hands, and in the loop of an evaluator.
AtWork == {"item", "eval", "check", "split", "adopt"}
Looping == AtWork \cup {"unit"}
Holds(j, w) == jobState[j] = "running" /\ proc[j][w].pc \in AtWork

MonitorStates ==
  [pc : {"scan", "lanes", "record", "summarize", "done", "dead"},
   missing : SUBSET Lanes, job : JobIds \cup {0}]

\* Job numbers are given one after another.
Numbered == \A j, k \in JobIds : k < j /\ jobState[j] # "none" => jobState[k] # "none"

\* The monitor has a lane to look at while it is in its loop, and summarizes when
\* every marker is there.
Watching ==
  /\ monitor.pc \in {"lanes", "record"} => monitor.missing # {}
  /\ monitor.pc = "record" => monitor.job \in JobIds
  /\ monitor.pc = "summarize" => Marked = Items
  /\ finished => Marked = Items
  /\ \A l \in Lanes : history[l] # <<>>

\* A process that loops over units is an evaluator; what it holds is from the unit of its turn.
Owned(t, j, w) ==
  /\ t.pc \in Looping => w \in Evaluators
  /\ t.pc \in AtWork =>
       /\ t.turn # 0 /\ t.items # {} /\ t.items \subseteq Unit(Turn(j, w, t.turn - 1))
       /\ t.pc # "item" => t.attempt \in Attempts
Owning == \A j \in JobIds, w \in Procs : jobState[j] = "running" => Owned(proc[j][w], j, w)

\* One job of a lane is in the queue, the one the monitor knows or is about to record, and
\* in the latter case the one before has left for good.
LaneJobs ==
  /\ \A l \in Lanes, j \in JobIds :
       Active(j) /\ jobLane[j] = l =>
         j = Latest(l) \/ (monitor.pc = "record" /\ j = monitor.job /\ l = Lane)
  /\ \A l \in Lanes : jobState[Latest(l)] # "none"
  /\ monitor.pc = "record" => jobState[Latest(Lane)] = "gone" /\ jobState[monitor.job] # "none"

\* What a process holds is not marked; what it is about to mark is valid.
Unmarked ==
  \A j \in JobIds, w \in Procs : Holds(j, w) =>
    /\ proc[j][w].items \cap Marked = {}
    /\ proc[j][w].pc = "adopt" => metrics[Min(proc[j][w].items)][proc[j][w].attempt] = "valid"
MarkedValid == \A i \in Marked : metrics[i][marker[i]] = "valid"

EvalInv ==
  /\ EvalTypeOK /\ monitor \in MonitorStates
  /\ Numbered /\ Watching /\ Owning
  /\ monitorFaults = 0 => LaneJobs /\ Unmarked /\ MarkedValid

-----------------------------------------------------------------------------
(* Units and lanes *)

\* The parts of a topology.
LEMMA TopologyParts ==
  ASSUME topology \in Topologies
  PROVE  /\ topology.lanes \in Nat \ {0} /\ topology.evaluators \in Nat \ {0}
         /\ topology.items \in Nat \ {0} /\ topology.lanes <= MaxSubmissions
BY EvalAssumption

\* A multiple of E that is less than E away from zero is zero.
LEMMA SmallMultiple ==
  ASSUME NEW E \in Nat \ {0}, NEW d \in Int, -E < E * d, E * d < E
  PROVE  d = 0
<1>1. CASE d >= 1
  <2>1. E * (d - 1) >= 0
    BY <1>1
  <2>2. E * d = E * (d - 1) + E
    OBVIOUS
  <2> QED
    BY <2>1, <2>2
<1>2. CASE d <= -1
  <2>1. E * (-1 - d) >= 0
    BY <1>2
  <2>2. E * d = -E - E * (-1 - d)
    OBVIOUS
  <2> QED
    BY <2>1, <2>2
<1> QED
  BY <1>1, <1>2

\* Lanes, evaluators and turns number the units without overlap.
UnitOf(K, E, l, w, n) == l * E + w + n * (K * E)

LEMMA DigitsDetermined ==
  ASSUME NEW K \in Nat \ {0}, NEW E \in Nat \ {0}, NEW l \in 0..(K - 1), NEW m \in 0..(K - 1),
         NEW w \in 0..(E - 1), NEW v \in 0..(E - 1), NEW n \in Nat, NEW p \in Nat,
         UnitOf(K, E, l, w, n) = UnitOf(K, E, m, v, p)
  PROVE  l = m /\ w = v
<1> DEFINE d == (m - l) + (p - n) * K
<1>1. d \in Int
  OBVIOUS
<1>2. E * d = (m * E - l * E) + (p * (K * E) - n * (K * E))
  OBVIOUS
<1>3. E * d = w - v
  <2>1. l * E + w + n * (K * E) = m * E + v + p * (K * E)
    BY DEF UnitOf
  <2> QED
    BY <1>2, <2>1
<1>4. d = 0
  <2> HIDE DEF d
  <2> QED
    BY <1>1, <1>3, SmallMultiple
<1>5. w = v
  BY <1>3, <1>4
<1>6. K * (p - n) = l - m
  BY <1>4
<1>7. p - n \in Int /\ -K < K * (p - n) /\ K * (p - n) < K
  BY <1>6
<1>8. p - n = 0
  <2> DEFINE q == p - n
  <2>1. q \in Int /\ -K < K * q /\ K * q < K
    BY <1>7
  <2> HIDE DEF q
  <2>2. q = 0
    BY <2>1, SmallMultiple
  <2> QED
    BY <2>2 DEF q
<1>9. l = m
  BY <1>6, <1>8
<1> QED
  BY <1>5, <1>9

\* The evaluator of a unit belongs to a lane.
LEMMA QuotientBound ==
  ASSUME NEW K \in Nat \ {0}, NEW E \in Nat \ {0}, NEW x \in Nat
  PROVE  (x % (K * E)) \div E \in 0..(K - 1)
<1> DEFINE y == x % (K * E)
          q == y \div E
<1>1. K * E \in Nat \ {0}
  OBVIOUS
<1>2. y \in 0..(K * E - 1)
  <2> DEFINE P == K * E
  <2>1. P \in Nat \ {0}
    BY <1>1
  <2> HIDE DEF P
  <2>2. x % P \in 0..(P - 1)
    BY <2>1
  <2> QED
    BY <2>2 DEF P
<1> HIDE DEF y
<1>3. q \in Nat /\ E * q <= y
  BY <1>2
<1> HIDE DEF q
<1>4. q < K
  <2>1. CASE q >= K
    <3>1. E * (q - K) >= 0
      BY <1>3, <2>1
    <3>2. E * q = E * (q - K) + K * E
      BY <1>3
    <3> QED
      BY <1>1, <1>2, <1>3, <3>1, <3>2
  <2> QED
    BY <1>3, <2>1
<1> QED
  BY <1>3, <1>4 DEF q, y

\* Units are numbered.
LEMMA UnitIndexType ==
  ASSUME NEW t \in Topologies, NEW i \in Items
  PROVE  UnitIndex[t][i] \in Nat
<1>1. i \in Nat
  BY EvalAssumption DEF Items
<1>2. IsFiniteSet(Items)
  BY EvalAssumption, FS_Interval DEF Items
<1>3. BundleIndex(i, t.items) \in Nat
  <2> DEFINE S == {k \in Items : Rank[k] % t.items = 0 /\ Precedes(k, i, t.items)}
  <2>1. IsFiniteSet(S)
    BY <1>2, FS_Subset
  <2>2. Cardinality(S) \in Nat
    BY <2>1, FS_CardinalityType
  <2> QED
    BY <2>2 DEF BundleIndex
<1> QED
  BY <1>1, <1>3 DEF UnitIndex

\* The monitor looks for the owner of an item among the lanes of the launch.
LEMMA LaneOfType ==
  ASSUME topology \in Topologies, NEW i \in Items
  PROVE  LaneOf(i) \in Lanes
<1> DEFINE K == topology.lanes
          E == topology.evaluators
          x == UnitIndex[topology][i]
<1>1. K \in Nat \ {0} /\ E \in Nat \ {0}
  BY TopologyParts
<1>2. x \in Nat
  BY UnitIndexType
<1> HIDE DEF K, E, x
<1>3. (x % (K * E)) \div E \in 0..(K - 1)
  BY <1>1, <1>2, QuotientBound
<1> QED
  BY <1>3 DEF K, E, x, LaneOf, LogicalLanes, Lanes

\* Two processes whose turns give them an item in common are the same process of the same lane.
LEMMA TurnsDetermined ==
  ASSUME topology \in Topologies, NEW j \in JobIds, NEW k \in JobIds,
         jobLane[j] \in Lanes, jobLane[k] \in Lanes,
         NEW w \in Evaluators, NEW v \in Evaluators, NEW n \in Nat, NEW p \in Nat,
         NEW i \in Unit(Turn(j, w, n)), i \in Unit(Turn(k, v, p))
  PROVE  jobLane[j] = jobLane[k] /\ w = v
<1> DEFINE K == topology.lanes
          E == topology.evaluators
          l == jobLane[j]
          m == jobLane[k]
<1>1. K \in Nat \ {0} /\ E \in Nat \ {0}
  BY TopologyParts
<1>2. Turn(j, w, n) = Turn(k, v, p)
  BY DEF Unit
<1>3. UnitOf(K, E, l, w, n) = UnitOf(K, E, m, v, p)
  BY <1>2 DEF UnitOf, Turn, LogicalLanes
<1>4. l \in 0..(K - 1) /\ m \in 0..(K - 1) /\ w \in 0..(E - 1) /\ v \in 0..(E - 1)
  BY DEF Lanes, Evaluators
<1> HIDE DEF K, E, l, m
<1>5. l = m /\ w = v
  BY <1>1, <1>3, <1>4, DigitsDetermined
<1> QED
  BY <1>5 DEF l, m

\* Min is the least element.
LEMMA MinIsLeast ==
  ASSUME NEW S \in SUBSET Nat, S # {}
  PROVE  Min(S) \in S
<1> DEFINE R == OpToRel(<, Nat)
<1>1. IsWellFoundedOn(R, Nat)
  BY NatLessThanWellFounded
<1>2. \A x, y \in Nat : x < y => <<x, y>> \in R
  BY DEF OpToRel
<1> HIDE DEF R
<1>3. PICK z \in S : \A y \in S : ~(<<y, z>> \in R)
  BY <1>1, WFMin
<1>4. \A y \in S : z <= y
  <2> TAKE y \in S
  <2>1. y \in Nat /\ z \in Nat
    OBVIOUS
  <2>2. ~(y < z)
    BY <1>2, <1>3, <2>1
  <2> QED
    BY <2>1, <2>2
<1> QED
  BY <1>3, <1>4 DEF Min

-----------------------------------------------------------------------------
(* Who holds what *)

\* The record of a process.
LEMMA ProcParts ==
  ASSUME EvalTypeOK, NEW j \in JobIds, NEW w \in Procs
  PROVE  /\ proc[j][w] \in ProcStates /\ proc[j][w].turn \in Nat
         /\ proc[j][w].items \in SUBSET Items /\ proc[j][w].attempt \in Nat \ {0}
         /\ proc[j][w].good \in SUBSET Items
BY DEF EvalTypeOK, ProcStates

\* What a process holds is from the unit of a turn of its own.
LEMMA HeldUnit ==
  ASSUME EvalInv, NEW j \in JobIds, NEW w \in Procs, Holds(j, w)
  PROVE  /\ w \in Evaluators /\ proc[j][w].items # {}
         /\ \E n \in Nat : proc[j][w].items \subseteq Unit(Turn(j, w, n))
<1> DEFINE t == proc[j][w]
<1>1. t.turn \in Nat
  BY ProcParts DEF EvalInv
<1>2. jobState[j] = "running" /\ t.pc \in AtWork
  BY DEF Holds
<1>3. Owned(t, j, w)
  BY <1>2 DEF EvalInv, Owning
<1> HIDE DEF t
<1>4. w \in Evaluators /\ t.turn # 0 /\ t.items # {} /\ t.items \subseteq Unit(Turn(j, w, t.turn - 1))
  BY <1>2, <1>3 DEF Owned, Looping
<1>5. t.turn - 1 \in Nat
  BY <1>1, <1>4
<1> QED
  BY <1>4, <1>5 DEF t

\* Two jobs of one lane are not in the queue together.
LEMMA OneJobPerLane ==
  ASSUME EvalInv, monitorFaults = 0, NEW j \in JobIds, NEW k \in JobIds,
         Active(j), Active(k), jobLane[j] = jobLane[k]
  PROVE  j = k
<1> DEFINE l == jobLane[j]
<1>1. LaneJobs /\ l \in Lanes
  BY DEF EvalInv, EvalTypeOK
<1>2. \/ j = Latest(l) /\ k = Latest(l)
      \/ monitor.pc = "record" /\ l = Lane /\ (j = Latest(l) \/ k = Latest(l))
      \/ j = monitor.job /\ k = monitor.job
  BY <1>1 DEF LaneJobs
<1>3. monitor.pc = "record" /\ l = Lane => ~Active(Latest(l))
  BY <1>1 DEF LaneJobs, Active
<1> QED
  BY <1>2, <1>3

\* No item is in the hands of two processes.
LEMMA HeldOnce ==
  ASSUME EvalInv, monitorFaults = 0, NEW j \in JobIds, NEW k \in JobIds,
         NEW w \in Procs, NEW v \in Procs, Holds(j, w), Holds(k, v), <<j, w>> # <<k, v>>
  PROVE  proc[j][w].items \cap proc[k][v].items = {}
<1> SUFFICES ASSUME NEW i \in proc[j][w].items, i \in proc[k][v].items PROVE FALSE
  OBVIOUS
<1>1. PICK n \in Nat : proc[j][w].items \subseteq Unit(Turn(j, w, n))
  BY HeldUnit
<1>2. PICK p \in Nat : proc[k][v].items \subseteq Unit(Turn(k, v, p))
  BY HeldUnit
<1>3. w \in Evaluators /\ v \in Evaluators
  BY HeldUnit
<1>4. topology \in Topologies /\ jobLane[j] \in Lanes /\ jobLane[k] \in Lanes
  BY DEF EvalInv, EvalTypeOK
<1>5. i \in Unit(Turn(j, w, n)) /\ i \in Unit(Turn(k, v, p))
  BY <1>1, <1>2
<1>6. jobLane[j] = jobLane[k] /\ w = v
  BY <1>3, <1>4, <1>5, TurnsDetermined
<1>7. Active(j) /\ Active(k)
  BY DEF Holds, Active
<1> QED
  BY <1>6, <1>7, OneJobPerLane

\* The invariant holds at launch: every lane has its element of the array.
LEMMA EvalBegins == EvalInit => EvalInv
<1> SUFFICES ASSUME EvalInit PROVE EvalInv
  OBVIOUS
<1> USE DEF EvalInit
<1>0. /\ topology.lanes \in Nat \ {0} /\ topology.lanes <= MaxSubmissions
      /\ AttemptsPerItem \in Nat \ {0} /\ MaxSubmissions \in Nat
  BY TopologyParts, EvalAssumption
<1>1. \A l \in Lanes : ArrayJob(l) \in JobIds
  BY <1>0 DEF Lanes, ArrayJob, JobIds
<1>2. \A l \in Lanes : history[l] = <<ArrayJob(l)>> /\ Latest(l) = ArrayJob(l)
  BY DEF Latest, Last
<1>3. Off \in ProcStates
  BY DEF Off, ProcStates, Places
<1>4. EvalTypeOK
  <2>1. marker \in [Items -> 0..AttemptsPerItem] /\ jobLane \in [JobIds -> Lanes]
    BY <1>0 DEF JobIds, Lanes
  <2>2. history \in [Lanes -> Seq(JobIds)]
    BY <1>1
  <2>3. jobState \in [JobIds -> {"none", "pending", "running", "gone"}]
    OBVIOUS
  <2>4. metrics \in [Items -> [Attempts -> {"none", "valid", "invalid"}]]
    OBVIOUS
  <2>5. proc \in [JobIds -> [Procs -> ProcStates]]
    BY <1>3
  <2> QED
    BY <2>1, <2>2, <2>3, <2>4, <2>5 DEF EvalTypeOK
<1>5. monitor \in MonitorStates /\ monitor.pc = "scan"
  BY DEF MonitorStates
<1>6. Numbered
  BY <1>0 DEF Numbered, JobIds
<1>7. Watching
  BY <1>2, <1>5 DEF Watching
<1>8. \A j \in JobIds : jobState[j] # "running"
  OBVIOUS
<1>9. LaneJobs
  <2>1. \A l \in Lanes : l + 1 \in JobIds /\ l + 1 <= topology.lanes
    BY <1>0, <1>1 DEF Lanes, ArrayJob
  <2>2. \A l \in Lanes : jobState[Latest(l)] # "none"
    BY <1>2, <2>1 DEF ArrayJob
  <2>3. \A l \in Lanes, j \in JobIds : Active(j) /\ jobLane[j] = l => j = Latest(l)
    <3> TAKE l \in Lanes, j \in JobIds
    <3> HAVE Active(j) /\ jobLane[j] = l
    <3>1. j <= topology.lanes
      BY DEF Active
    <3>2. l = j - 1 /\ j \in Nat
      BY <1>0, <3>1 DEF JobIds
    <3> QED
      BY <1>2, <3>2 DEF ArrayJob
  <2> QED
    BY <1>5, <2>2, <2>3 DEF LaneJobs
<1>10. Marked = {}
  BY DEF Marked
<1> QED
  BY <1>4, <1>5, <1>6, <1>7, <1>8, <1>9, <1>10 DEF EvalInv, Owning, Unmarked, MarkedValid, Holds

-----------------------------------------------------------------------------
(* Steps *)

\* What depends on the topology alone stays.
LEMMA SameLaunch ==
  ASSUME topology' = topology
  PROVE  /\ Procs' = Procs /\ Evaluators' = Evaluators /\ Lanes' = Lanes /\ Parent' = Parent
         /\ MonitorStates' = MonitorStates /\ \A u : Unit(u)' = Unit(u)
         /\ \A i \in Items : LaneOf(i)' = LaneOf(i)
BY DEF Procs, Evaluators, Lanes, Parent, Packed, MonitorStates, Unit, LaneOf, LogicalLanes

\* The items a step writes metrics or a marker for.
Touched(i) == metrics'[i] # metrics[i] \/ marker'[i] # marker[i]

FileTypes ==
  /\ metrics \in [Items -> [Attempts -> {"none", "valid", "invalid"}]]
  /\ marker \in [Items -> 0..AttemptsPerItem]
  /\ combined \subseteq [items : SUBSET Items, attempt : Attempts, good : SUBSET Items]
  /\ finished \in BOOLEAN

\* A process becomes t: it writes only for what it holds, marks only what is valid, and t holds
\* what it may hold.
LEMMA ProcessStep ==
  ASSUME EvalInv, NEW j \in JobIds, NEW w \in Procs, NEW t \in ProcStates,
         jobState[j] = "running", Becomes(j, w, t),
         UNCHANGED <<topology, slurm, watch, monitorFaults>>,
         FileTypes', jobFaults' \in Nat, Marked \subseteq Marked', finished' => finished \/ Marked = Items,
         Owned(t, j, w),
         \A i \in Items : Touched(i) => Holds(j, w) /\ i \in proc[j][w].items,
         monitorFaults = 0 =>
           /\ t.pc \in AtWork => t.items \cap Marked' = {}
           /\ t.pc = "adopt" => metrics'[Min(t.items)][t.attempt] = "valid"
           /\ \A i \in Items : Touched(i) /\ marker'[i] # 0 => metrics'[i][marker'[i]] = "valid"
  PROVE  EvalInv'
<1>1. /\ topology' = topology /\ jobState' = jobState /\ jobLane' = jobLane
      /\ monitor' = monitor /\ history' = history /\ monitorFaults' = monitorFaults
  BY DEF slurm, watch
<1>2. /\ Procs' = Procs /\ Evaluators' = Evaluators /\ Lanes' = Lanes
      /\ MonitorStates' = MonitorStates /\ \A u : Unit(u)' = Unit(u)
  BY <1>1, SameLaunch
<1>3. /\ proc \in [JobIds -> [Procs -> ProcStates]]
      /\ proc'[j][w] = t
      /\ \A k \in JobIds, v \in Procs : <<j, w>> # <<k, v>> => proc'[k][v] = proc[k][v]
      /\ proc' \in [JobIds -> [Procs -> ProcStates]]
  BY DEF EvalInv, EvalTypeOK, Becomes
<1>4. EvalTypeOK'
  BY <1>1, <1>2, <1>3 DEF EvalInv, EvalTypeOK, FileTypes
<1>5. (monitor \in MonitorStates)' /\ Numbered'
  BY <1>1, <1>2 DEF EvalInv, Numbered
<1>6. Marked' \subseteq Items
  BY DEF Marked
<1>7. Watching'
  BY <1>1, <1>2, <1>6 DEF EvalInv, Watching
<1>8. Owning'
  <2> SUFFICES ASSUME NEW k \in JobIds, NEW v \in Procs, jobState[k] = "running"
               PROVE  Owned(proc[k][v], k, v)'
    BY <1>1, <1>2 DEF Owning
  <2>1. Owned(proc'[k][v], k, v)
    <3>1. CASE <<j, w>> = <<k, v>>
      BY <1>3, <3>1
    <3>2. CASE <<j, w>> # <<k, v>>
      BY <1>3, <3>2 DEF EvalInv, Owning
    <3> QED
      BY <3>1, <3>2
  <2>2. \A n : Turn(k, v, n)' = Turn(k, v, n)
    BY <1>1 DEF Turn, LogicalLanes
  <2> QED
    BY <1>2, <2>1, <2>2 DEF Owned
<1>9. ASSUME monitorFaults = 0 PROVE LaneJobs' /\ Unmarked' /\ MarkedValid'
  <2>1. LaneJobs'
    <3>1. LaneJobs
      BY <1>9 DEF EvalInv
    <3>2. /\ \A l : Latest(l)' = Latest(l)
          /\ \A k : Active(k)' = Active(k)
          /\ Lane' = Lane
      BY <1>1 DEF Latest, Active, Lane
    <3> QED
      BY <1>1, <1>2, <3>1, <3>2 DEF LaneJobs
  <2>2. Unmarked'
    <3> SUFFICES ASSUME NEW k \in JobIds, NEW v \in Procs, Holds(k, v)'
                 PROVE  /\ proc'[k][v].items \cap Marked' = {}
                        /\ proc'[k][v].pc = "adopt" =>
                             metrics'[Min(proc'[k][v].items)][proc'[k][v].attempt] = "valid"
      BY <1>2 DEF Unmarked
    <3>1. CASE <<j, w>> = <<k, v>>
      BY <1>3, <1>9, <3>1 DEF Holds
    <3>2. CASE <<j, w>> # <<k, v>>
      <4> DEFINE S == proc[k][v].items
      <4>1. proc'[k][v] = proc[k][v] /\ Holds(k, v)
        BY <1>1, <1>3, <3>2 DEF Holds
      <4>2. /\ S \cap Marked = {}
            /\ proc[k][v].pc = "adopt" => metrics[Min(S)][proc[k][v].attempt] = "valid"
        BY <1>9, <4>1 DEF EvalInv, Unmarked
      <4>3. S \in SUBSET Items /\ S # {} /\ Items \subseteq Nat
        BY <4>1, ProcParts, HeldUnit, EvalAssumption DEF EvalInv, Items
      <4>4. \A i \in S : ~Touched(i)
        BY <1>9, <3>2, <4>1, <4>3, HeldOnce
      <4>5. Min(S) \in S
        BY <4>3, MinIsLeast
      <4>6. S \cap Marked' = {}
        BY <4>2, <4>3, <4>4 DEF Touched, Marked
      <4>7. metrics'[Min(S)] = metrics[Min(S)]
        BY <4>4, <4>5 DEF Touched
      <4> QED
        BY <4>1, <4>2, <4>6, <4>7
    <3> QED
      BY <3>1, <3>2
  <2>3. MarkedValid'
    <3> SUFFICES ASSUME NEW i \in Items, marker'[i] # 0 PROVE metrics'[i][marker'[i]] = "valid"
      BY DEF MarkedValid, Marked
    <3>1. CASE Touched(i)
      BY <1>9, <3>1
    <3>2. CASE ~Touched(i)
      BY <1>9, <3>2 DEF EvalInv, MarkedValid, Marked, Touched
    <3> QED
      BY <3>1, <3>2
  <2> QED
    BY <2>1, <2>2, <2>3
<1> QED
  BY <1>1, <1>4, <1>5, <1>7, <1>8, <1>9 DEF EvalInv

\* The files stay.
LEMMA FilesKept ==
  ASSUME EvalInv, UNCHANGED files
  PROVE  FileTypes' /\ Marked' = Marked /\ finished' = finished /\ \A i \in Items : ~Touched(i)
BY DEF EvalInv, EvalTypeOK, FileTypes, files, Marked, Touched

\* One marker is written.
LEMMA MarkerWritten ==
  ASSUME EvalInv, NEW i \in Items, NEW a \in Attempts, Mark(i, a),
         UNCHANGED <<metrics, combined, finished>>
  PROVE  /\ FileTypes' /\ Marked' = Marked \cup {i}
         /\ \A k \in Items : Touched(k) => k = i /\ marker'[k] = a /\ metrics' = metrics
<1>1. AttemptsPerItem \in Nat /\ a \in 1..AttemptsPerItem
  BY EvalAssumption DEF Attempts
<1>2. marker \in [Items -> 0..AttemptsPerItem] /\ marker' = [marker EXCEPT ![i] = a]
  BY DEF EvalInv, EvalTypeOK, Mark
<1>3. a \in 0..AttemptsPerItem /\ a # 0
  BY <1>1
<1>4. marker' \in [Items -> 0..AttemptsPerItem]
  BY <1>2, <1>3
<1>5. FileTypes'
  BY <1>4 DEF EvalInv, EvalTypeOK, FileTypes
<1>6. Marked' = Marked \cup {i}
  BY <1>2, <1>3 DEF Marked
<1> QED
  BY <1>2, <1>5, <1>6 DEF Touched

\* The metrics of one attempt at an item are written.
LEMMA MetricsWritten ==
  ASSUME EvalInv, NEW i \in Items, NEW a \in Attempts, NEW r \in {"valid", "invalid"},
         metrics' = [metrics EXCEPT ![i][a] = r], UNCHANGED <<marker, combined, finished>>
  PROVE  /\ FileTypes' /\ Marked' = Marked /\ finished' = finished /\ metrics'[i][a] = r
         /\ \A k \in Items : Touched(k) => k = i
<1>1. metrics \in [Items -> [Attempts -> {"none", "valid", "invalid"}]]
  BY DEF EvalInv, EvalTypeOK
<1> QED
  BY <1>1 DEF EvalInv, EvalTypeOK, FileTypes, Touched, Marked

\* What is known of a process that holds items.
LEMMA Holder ==
  ASSUME EvalInv, NEW j \in JobIds, NEW w \in Procs, Holds(j, w)
  PROVE  /\ w \in Evaluators /\ proc[j][w].pc \in AtWork
         /\ proc[j][w] \in ProcStates /\ proc[j][w].items \in SUBSET Items /\ proc[j][w].items # {}
         /\ TheItem(proc[j][w]) \in proc[j][w].items /\ Min(proc[j][w].items) \in proc[j][w].items
         /\ proc[j][w].turn \in Nat /\ proc[j][w].turn # 0 /\ proc[j][w].attempt \in Nat \ {0}
         /\ proc[j][w].items \subseteq Unit(Turn(j, w, proc[j][w].turn - 1))
         /\ proc[j][w].pc # "item" => proc[j][w].attempt \in Attempts
         /\ monitorFaults = 0 => proc[j][w].items \cap Marked = {}
         /\ monitorFaults = 0 /\ proc[j][w].pc = "adopt" =>
              metrics[Min(proc[j][w].items)][proc[j][w].attempt] = "valid"
<1>1. /\ proc[j][w] \in ProcStates /\ proc[j][w].items \in SUBSET Items
      /\ proc[j][w].turn \in Nat /\ proc[j][w].attempt \in Nat \ {0}
  BY ProcParts DEF EvalInv
<1>2. w \in Evaluators /\ proc[j][w].items # {}
  BY HeldUnit
<1>3. Items \subseteq Nat
  BY EvalAssumption DEF Items
<1>4. Min(proc[j][w].items) \in proc[j][w].items
  BY <1>1, <1>2, <1>3, MinIsLeast
<1>5. TheItem(proc[j][w]) \in proc[j][w].items
  BY <1>2 DEF TheItem
<1>6. Owned(proc[j][w], j, w) /\ proc[j][w].pc \in AtWork
  BY DEF EvalInv, Owning, Holds
<1>7. monitorFaults = 0 => Unmarked
  BY DEF EvalInv
<1> QED
  BY <1>1, <1>2, <1>4, <1>5, <1>6, <1>7 DEF Owned, Unmarked

\* A process takes the items of its next unit that are not marked.
LEMMA TakeUnitStep ==
  ASSUME EvalInv, NEW j \in JobIds, NEW w \in Procs, TakeUnit(j, w)
  PROVE  EvalInv'
<1> DEFINE s == proc[j][w]
          mine == Unit(Turn(j, w, s.turn))
          missing == mine \ Marked
          next == IF ReadFails(mine) THEN "failed"
                  ELSE IF missing = {} THEN "collect"
                  ELSE IF Cardinality(missing) = 1 THEN "item" ELSE "eval"
          t == [s EXCEPT !.turn = @ + 1, !.items = missing, !.attempt = 1, !.good = {}, !.pc = next]
<1>1. Becomes(j, w, t) /\ jobState[j] = "running" /\ s.pc = "unit"
  BY DEF TakeUnit, At
<1>2. s \in ProcStates /\ s.turn \in Nat
  BY ProcParts DEF EvalInv
<1>3. missing \in SUBSET Items
  BY DEF Unit
<1>4. 1 \in Attempts /\ 1 \in Nat \ {0}
  BY EvalAssumption DEF Attempts
<1>5. w \in Evaluators
  BY <1>1 DEF EvalInv, Owning, Owned, Looping
<1>6. next \in {"failed", "collect", "item", "eval"} /\ (next \in AtWork => missing # {})
  BY DEF AtWork
<1>9. missing \subseteq mine /\ missing \cap Marked = {}
  OBVIOUS
<1> HIDE DEF next, missing
<1>7. t.turn = s.turn + 1 /\ t.items = missing /\ t.attempt = 1 /\ t.pc = next
  BY <1>2 DEF ProcStates
<1>8. t \in ProcStates
  <2>1. s.turn + 1 \in Nat /\ next \in Places
    BY <1>2, <1>6 DEF Places
  <2> QED
    BY <1>2, <1>3, <1>4, <2>1 DEF ProcStates
<1> HIDE DEF t
<1>10. Owned(t, j, w)
  <2>1. t.turn # 0 /\ t.turn - 1 = s.turn
    BY <1>2, <1>7
  <2> QED
    BY <1>4, <1>5, <1>6, <1>7, <1>9, <2>1 DEF Owned
<1>11. UNCHANGED <<topology, files, slurm, watch, jobFaults, monitorFaults>>
  BY DEF TakeUnit
<1>12. FileTypes' /\ Marked' = Marked /\ finished' = finished /\ \A i \in Items : ~Touched(i)
  BY <1>11, FilesKept
<1>13. jobFaults' \in Nat
  BY <1>11 DEF EvalInv, EvalTypeOK
<1>14. t.pc # "adopt" /\ t.items \cap Marked' = {}
  BY <1>6, <1>7, <1>9, <1>12
<1> QED
  BY <1>1, <1>8, <1>10, <1>11, <1>12, <1>13, <1>14, ProcessStep

\* A process record with another place.
LEMMA PlaceChanged ==
  ASSUME NEW s \in ProcStates, NEW where \in Places, NEW t, t = [s EXCEPT !.pc = where]
  PROVE  /\ t \in ProcStates /\ t.pc = where /\ t.turn = s.turn /\ t.items = s.items
         /\ t.attempt = s.attempt
BY DEF ProcStates

\* A process goes on with what it holds, or puts it down.
LEMMA GoesStep ==
  ASSUME EvalInv, NEW j \in JobIds, NEW w \in Procs, NEW where \in Places,
         jobState[j] = "running", Goes(j, w, where),
         UNCHANGED <<topology, slurm, watch, monitorFaults>>,
         FileTypes', jobFaults' \in Nat, Marked \subseteq Marked', finished' => finished \/ Marked = Items,
         where # "unit", where \in AtWork => Holds(j, w),
         where \in AtWork \ {"item"} => proc[j][w].attempt \in Attempts,
         \A i \in Items : Touched(i) => Holds(j, w) /\ i \in proc[j][w].items,
         monitorFaults = 0 =>
           /\ where \in AtWork => proc[j][w].items \cap Marked' = {}
           /\ where = "adopt" => metrics'[Min(proc[j][w].items)][proc[j][w].attempt] = "valid"
           /\ \A i \in Items : Touched(i) /\ marker'[i] # 0 => metrics'[i][marker'[i]] = "valid"
  PROVE  EvalInv'
<1> DEFINE s == proc[j][w]
          t == [s EXCEPT !.pc = where]
<1>1. s \in ProcStates
  BY ProcParts DEF EvalInv
<1>2. /\ t \in ProcStates /\ t.pc = where /\ t.turn = s.turn /\ t.items = s.items
      /\ t.attempt = s.attempt
  BY <1>1, PlaceChanged
<1>3. Becomes(j, w, t)
  BY DEF Goes
<1> HIDE DEF t
<1>4. Owned(t, j, w)
  <2>1. where \in Looping => where \in AtWork
    BY DEF Looping
  <2>2. where \in AtWork =>
          /\ w \in Evaluators /\ s.turn # 0 /\ s.items # {}
          /\ s.items \subseteq Unit(Turn(j, w, s.turn - 1))
    BY Holder
  <2> QED
    BY <1>2, <2>1, <2>2 DEF Owned
<1>5. monitorFaults = 0 =>
        /\ t.pc \in AtWork => t.items \cap Marked' = {}
        /\ t.pc = "adopt" => metrics'[Min(t.items)][t.attempt] = "valid"
        /\ \A i \in Items : Touched(i) /\ marker'[i] # 0 => metrics'[i][marker'[i]] = "valid"
  BY <1>2
<1> QED
  BY <1>2, <1>3, <1>4, <1>5, ProcessStep

\* A process marks the item it holds with the attempt whose metrics are valid.
LEMMA MarksStep ==
  ASSUME EvalInv, NEW j \in JobIds, NEW w \in Procs, Holds(j, w),
         proc[j][w].attempt \in Attempts,
         metrics[TheItem(proc[j][w])][proc[j][w].attempt] = "valid",
         Mark(TheItem(proc[j][w]), proc[j][w].attempt), Goes(j, w, "collect"),
         UNCHANGED <<topology, metrics, combined, finished, slurm, watch, jobFaults, monitorFaults>>
  PROVE  EvalInv'
<1> DEFINE i == TheItem(proc[j][w])
          a == proc[j][w].attempt
<1>1. i \in proc[j][w].items /\ i \in Items
  BY Holder
<1>2. jobState[j] = "running" /\ jobFaults' \in Nat
  BY DEF Holds, EvalInv, EvalTypeOK
<1> HIDE DEF i, a
<1>3. /\ FileTypes' /\ Marked' = Marked \cup {i}
      /\ \A k \in Items : Touched(k) => k = i /\ marker'[k] = a /\ metrics' = metrics
  BY <1>1, MarkerWritten DEF i, a
<1>4. metrics[i][a] = "valid"
  BY DEF i, a
<1>5. "collect" \in Places /\ "collect" \notin AtWork
  BY DEF Places, AtWork
<1>6. \A k \in Items : Touched(k) => Holds(j, w) /\ k \in proc[j][w].items
  BY <1>1, <1>3
<1>7. \A k \in Items : Touched(k) /\ marker'[k] # 0 => metrics'[k][marker'[k]] = "valid"
  BY <1>3, <1>4
<1>8. Marked \subseteq Marked' /\ finished' = finished
  BY <1>3
<1> QED
  BY <1>2, <1>3, <1>5, <1>6, <1>7, <1>8, GoesStep

\* A process moves on and leaves the files alone.
LEMMA MovesStep ==
  ASSUME EvalInv, NEW j \in JobIds, NEW w \in Procs, Holds(j, w), NEW where \in Places,
         where \notin {"unit", "adopt"},
         where \in AtWork \ {"item"} => proc[j][w].attempt \in Attempts,
         Goes(j, w, where),
         UNCHANGED <<topology, files, slurm, watch, monitorFaults>>, jobFaults' \in Nat
  PROVE  EvalInv'
<1>1. FileTypes' /\ Marked' = Marked /\ finished' = finished /\ \A i \in Items : ~Touched(i)
  BY FilesKept
<1>2. jobState[j] = "running"
  BY DEF Holds
<1>3. monitorFaults = 0 => proc[j][w].items \cap Marked' = {}
  BY <1>1, Holder
<1> QED
  BY <1>1, <1>2, <1>3, GoesStep

\* The loop head of run_item.
LEMMA TryItemStep ==
  ASSUME EvalInv, NEW j \in JobIds, NEW w \in Procs, TryItem(j, w)
  PROVE  EvalInv'
<1> DEFINE s == proc[j][w]
          i == TheItem(s)
<1>1. Holds(j, w)
  BY DEF TryItem, At, Holds, AtWork
<1>2. UNCHANGED <<topology, metrics, combined, finished, slurm, watch, jobFaults, monitorFaults>>
  BY DEF TryItem
<1>3. /\ s.attempt \in Nat \ {0} /\ AttemptsPerItem \in Nat /\ jobFaults' \in Nat
      /\ {"failed", "eval", "collect"} \subseteq Places
  BY <1>1, <1>2, Holder, EvalAssumption DEF Places, EvalInv, EvalTypeOK
<1>4. \/ Goes(j, w, "failed") /\ UNCHANGED marker
      \/ s.attempt <= AttemptsPerItem /\ Goes(j, w, "eval") /\ UNCHANGED marker
      \/ /\ s.attempt <= AttemptsPerItem /\ metrics[i][s.attempt] = "valid"
         /\ Mark(i, s.attempt) /\ Goes(j, w, "collect")
  BY DEF TryItem
<1>5. s.attempt <= AttemptsPerItem => s.attempt \in Attempts
  BY <1>3 DEF Attempts
<1>6. CASE Goes(j, w, "failed") /\ UNCHANGED marker
  <2>1. UNCHANGED files
    BY <1>2, <1>6 DEF files
  <2>2. "failed" \notin AtWork
    BY DEF AtWork
  <2> QED
    BY <1>1, <1>2, <1>3, <1>6, <2>1, <2>2, MovesStep
<1>7. CASE s.attempt <= AttemptsPerItem /\ Goes(j, w, "eval") /\ UNCHANGED marker
  <2>1. UNCHANGED files
    BY <1>2, <1>7 DEF files
  <2> QED
    BY <1>1, <1>2, <1>3, <1>5, <1>7, <2>1, MovesStep
<1>8. CASE /\ s.attempt <= AttemptsPerItem /\ metrics[i][s.attempt] = "valid"
           /\ Mark(i, s.attempt) /\ Goes(j, w, "collect")
  BY <1>1, <1>2, <1>5, <1>8, MarksStep
<1> QED
  BY <1>4, <1>6, <1>7, <1>8

\* The metrics an evaluator leaves are those of the items it was given.
LEMMA EvaluatedStep ==
  ASSUME EvalInv, NEW j \in JobIds, NEW w \in Procs, At(j, w, "eval"), NEW G \in SUBSET Items,
         WriteMetrics(proc[j][w], G), Goes(j, w, "check"),
         UNCHANGED <<topology, marker, finished, slurm, watch, monitorFaults>>, jobFaults' \in Nat
  PROVE  EvalInv'
<1> DEFINE s == proc[j][w]
          i == TheItem(s)
          r == IF s.items = G THEN "valid" ELSE "invalid"
<1>1. Holds(j, w) /\ s.pc = "eval"
  BY DEF At, Holds, AtWork
<1>2. s.attempt \in Attempts /\ s.items \in SUBSET Items /\ i \in s.items
  BY <1>1, Holder
<1>3. "check" \in Places /\ jobState[j] = "running"
  BY DEF Places, At
<1>4. FileTypes' /\ Marked' = Marked /\ \A k \in Items : Touched(k) => k = i
  <2>1. CASE Single(s)
    <3>1. metrics' = [metrics EXCEPT ![i][s.attempt] = r] /\ UNCHANGED combined
      BY <2>1 DEF WriteMetrics
    <3>2. r \in {"valid", "invalid"} /\ i \in Items
      BY <1>2
    <3> HIDE DEF r, i
    <3> QED
      BY <1>2, <3>1, <3>2, MetricsWritten
  <2>2. CASE ~Single(s)
    <3>1. /\ combined' = {c \in combined : c.items # s.items \/ c.attempt # s.attempt}
                            \cup {[items |-> s.items, attempt |-> s.attempt, good |-> G]}
          /\ UNCHANGED metrics
      BY <2>2 DEF WriteMetrics
    <3>2. combined \subseteq [items : SUBSET Items, attempt : Attempts, good : SUBSET Items]
      BY DEF EvalInv, EvalTypeOK
    <3>3. combined' \subseteq [items : SUBSET Items, attempt : Attempts, good : SUBSET Items]
      BY <1>2, <3>1, <3>2
    <3> QED
      BY <3>1, <3>3 DEF EvalInv, EvalTypeOK, FileTypes, Touched, Marked
  <2> QED
    BY <2>1, <2>2
<1>5. \A k \in Items : Touched(k) => Holds(j, w) /\ k \in s.items
  BY <1>1, <1>2, <1>4
<1>6. monitorFaults = 0 => s.items \cap Marked' = {}
  BY <1>1, <1>4, Holder
<1>7. monitorFaults = 0 =>
        \A k \in Items : Touched(k) /\ marker'[k] # 0 => metrics'[k][marker'[k]] = "valid"
  <2> SUFFICES ASSUME monitorFaults = 0, NEW k \in Items, Touched(k), marker'[k] # 0 PROVE FALSE
    OBVIOUS
  <2>1. k \in s.items /\ k \in Marked'
    BY <1>5 DEF Marked
  <2> QED
    BY <1>6, <2>1
<1> QED
  BY <1>1, <1>2, <1>3, <1>4, <1>5, <1>6, <1>7, GoesStep

LEMMA EvaluatorEndsStep ==
  ASSUME EvalInv, NEW j \in JobIds, NEW w \in Procs, EvaluatorEnds(j, w)
  PROVE  EvalInv'
<1>1. proc[j][w].items \in SUBSET Items /\ jobFaults' \in Nat
  BY ProcParts DEF EvaluatorEnds, EvalInv, EvalTypeOK
<1> QED
  BY <1>1, EvaluatedStep DEF EvaluatorEnds

LEMMA EvaluatorFailsStep ==
  ASSUME EvalInv, NEW j \in JobIds, NEW w \in Procs, EvaluatorFails(j, w)
  PROVE  EvalInv'
<1>1. At(j, w, "eval") /\ Goes(j, w, "check")
  BY DEF EvaluatorFails
<1>2. UNCHANGED <<topology, marker, finished, slurm, watch, monitorFaults>> /\ jobFaults' \in Nat
  BY DEF EvaluatorFails, JobFault, EvalInv, EvalTypeOK
<1>3. proc[j][w].items \in SUBSET Items
  BY ProcParts DEF EvalInv
<1>4. CASE UNCHANGED <<metrics, combined>>
  <2>1. Holds(j, w) /\ proc[j][w].pc = "eval"
    BY <1>1 DEF At, Holds, AtWork
  <2>2. proc[j][w].attempt \in Attempts
    BY <2>1, Holder
  <2>3. UNCHANGED files /\ "check" \in Places
    BY <1>2, <1>4 DEF files, Places
  <2> QED
    BY <1>1, <1>2, <2>1, <2>2, <2>3, MovesStep
<1>5. CASE \E G \in SUBSET proc[j][w].items : G # proc[j][w].items /\ WriteMetrics(proc[j][w], G)
  <2>1. PICK G \in SUBSET proc[j][w].items : WriteMetrics(proc[j][w], G)
    BY <1>5
  <2>2. G \in SUBSET Items
    BY <1>3
  <2> QED
    BY <1>1, <1>2, <2>1, <2>2, EvaluatedStep
<1> QED
  BY <1>4, <1>5 DEF EvaluatorFails

\* run_item after the evaluator.
LEMMA CheckItemStep ==
  ASSUME EvalInv, NEW j \in JobIds, NEW w \in Procs, CheckItem(j, w)
  PROVE  EvalInv'
<1> DEFINE s == proc[j][w]
          i == TheItem(s)
<1>1. Holds(j, w) /\ s.pc = "check"
  BY DEF CheckItem, At, Holds, AtWork
<1>2. UNCHANGED <<topology, metrics, combined, finished, slurm, watch, jobFaults, monitorFaults>>
  BY DEF CheckItem
<1>3. s.attempt \in Attempts /\ jobFaults' \in Nat
  BY <1>1, <1>2, Holder DEF EvalInv, EvalTypeOK
<1>4. CASE Becomes(j, w, [s EXCEPT !.pc = "item", !.attempt = @ + 1]) /\ UNCHANGED marker
  <2> DEFINE t == [s EXCEPT !.pc = "item", !.attempt = @ + 1]
  <2>1. s \in ProcStates /\ s.attempt + 1 \in Nat \ {0} /\ "item" \in Places
    BY <1>1, Holder DEF Places
  <2>2. t \in ProcStates /\ t.pc = "item" /\ t.turn = s.turn /\ t.items = s.items
    BY <2>1 DEF ProcStates
  <2>3. Becomes(j, w, t) /\ jobState[j] = "running"
    BY <1>1, <1>4 DEF Holds
  <2> HIDE DEF t
  <2>4. Owned(t, j, w)
    BY <1>1, <2>2, Holder DEF Owned
  <2>5. UNCHANGED files
    BY <1>2, <1>4 DEF files
  <2>6. FileTypes' /\ Marked' = Marked /\ finished' = finished /\ \A k \in Items : ~Touched(k)
    BY <2>5, FilesKept
  <2>7. monitorFaults = 0 => t.items \cap Marked' = {} /\ t.pc # "adopt"
    BY <1>1, <2>2, <2>6, Holder
  <2> QED
    BY <1>2, <1>3, <2>2, <2>3, <2>4, <2>6, <2>7, ProcessStep
<1>5. CASE Goes(j, w, "failed") /\ UNCHANGED marker
  <2>1. UNCHANGED files
    BY <1>2, <1>5 DEF files
  <2>2. "failed" \notin AtWork /\ "failed" \in Places
    BY DEF AtWork, Places
  <2> QED
    BY <1>1, <1>2, <1>3, <1>5, <2>1, <2>2, MovesStep
<1>6. CASE metrics[i][s.attempt] = "valid" /\ Mark(i, s.attempt) /\ Goes(j, w, "collect")
  BY <1>1, <1>2, <1>3, <1>6, MarksStep
<1> QED
  BY <1>4, <1>5, <1>6 DEF CheckItem

\* run_coalesced_bundle after the evaluator.
LEMMA CheckBundleStep ==
  ASSUME EvalInv, NEW j \in JobIds, NEW w \in Procs, CheckBundle(j, w)
  PROVE  EvalInv'
<1> DEFINE s == proc[j][w]
          found == {c \in combined : c.items = s.items /\ c.attempt = s.attempt}
          next == IF s.attempt = AttemptsPerItem THEN "failed" ELSE "eval"
          chosen == (CHOOSE c \in found : TRUE).good
          t == [s EXCEPT !.attempt = @ + 1, !.pc = next]
          u == [s EXCEPT !.pc = "split", !.good = chosen]
<1>1. Holds(j, w) /\ s.pc = "check" /\ jobState[j] = "running"
  BY DEF CheckBundle, At, Holds, AtWork
<1>2. UNCHANGED <<topology, files, slurm, watch, jobFaults, monitorFaults>>
  BY DEF CheckBundle
<1>3. s.attempt \in Attempts /\ jobFaults' \in Nat /\ s \in ProcStates
  BY <1>1, <1>2, Holder DEF EvalInv, EvalTypeOK
<1>4. FileTypes' /\ Marked' = Marked /\ finished' = finished /\ \A k \in Items : ~Touched(k)
  BY <1>2, FilesKept
<1>5. AttemptsPerItem \in Nat \ {0} /\ s.attempt \in 1..AttemptsPerItem
  BY <1>3, EvalAssumption DEF Attempts
<1>6. CASE Becomes(j, w, t)
  <2>1. next \in {"failed", "eval"} /\ (next \in AtWork => s.attempt + 1 \in Attempts)
    BY <1>5 DEF Attempts, AtWork
  <2>2. s.attempt + 1 \in Nat \ {0} /\ next \in Places
    BY <1>5, <2>1 DEF Places
  <2> HIDE DEF next
  <2>3. t \in ProcStates /\ t.pc = next /\ t.turn = s.turn /\ t.items = s.items /\ t.attempt = s.attempt + 1
    BY <1>3, <2>2 DEF ProcStates
  <2> HIDE DEF t
  <2>4. Owned(t, j, w)
    BY <1>1, <2>1, <2>3, Holder DEF Owned
  <2>5. monitorFaults = 0 => t.items \cap Marked' = {} /\ t.pc # "adopt"
    BY <1>1, <1>4, <2>1, <2>3, Holder
  <2> QED
    BY <1>1, <1>2, <1>3, <1>4, <1>6, <2>3, <2>4, <2>5, ProcessStep
<1>7. CASE found # {} /\ Becomes(j, w, u)
  <2>1. chosen \in SUBSET Items /\ "split" \in Places
    <3>1. PICK c \in found : c = (CHOOSE d \in found : TRUE)
      BY <1>7
    <3>2. combined \subseteq [items : SUBSET Items, attempt : Attempts, good : SUBSET Items]
      BY DEF EvalInv, EvalTypeOK
    <3> QED
      BY <3>1, <3>2 DEF Places
  <2> HIDE DEF chosen
  <2>2. u \in ProcStates /\ u.pc = "split" /\ u.turn = s.turn /\ u.items = s.items /\ u.attempt = s.attempt
    BY <1>3, <2>1 DEF ProcStates
  <2> HIDE DEF u
  <2>3. Owned(u, j, w)
    BY <1>1, <1>3, <2>2, Holder DEF Owned
  <2>4. monitorFaults = 0 => u.items \cap Marked' = {} /\ u.pc # "adopt"
    BY <1>1, <1>4, <2>2, Holder
  <2> QED
    BY <1>1, <1>2, <1>3, <1>4, <1>7, <2>2, <2>3, <2>4, ProcessStep
<1> QED
  BY <1>6, <1>7 DEF CheckBundle

\* The share of the first item is written; the item is not marked yet.
LEMMA SplitItemStep ==
  ASSUME EvalInv, NEW j \in JobIds, NEW w \in Procs, SplitItem(j, w)
  PROVE  EvalInv'
<1> DEFINE s == proc[j][w]
          i == Min(s.items)
          r == IF i \in s.good THEN "valid" ELSE "invalid"
          next == IF i \in s.good THEN "adopt" ELSE "failed"
<1>1. Holds(j, w) /\ s.pc = "split" /\ jobState[j] = "running"
  BY DEF SplitItem, At, Holds, AtWork
<1>2. UNCHANGED <<topology, marker, combined, finished, slurm, watch, jobFaults, monitorFaults>>
  BY DEF SplitItem
<1>3. s.attempt \in Attempts /\ jobFaults' \in Nat /\ i \in s.items /\ s.items \in SUBSET Items
  BY <1>1, <1>2, Holder DEF EvalInv, EvalTypeOK
<1>4. metrics' = [metrics EXCEPT ![i][s.attempt] = r] /\ Goes(j, w, next)
  BY DEF SplitItem
<1>5. r \in {"valid", "invalid"} /\ next \in {"adopt", "failed"} /\ (next = "adopt" => r = "valid")
  OBVIOUS
<1>6. next \in Places /\ next # "unit"
  BY <1>5 DEF Places
<1> HIDE DEF r, next, i
<1>7. /\ FileTypes' /\ Marked' = Marked /\ finished' = finished /\ metrics'[i][s.attempt] = r
      /\ \A k \in Items : Touched(k) => k = i
  BY <1>2, <1>3, <1>4, <1>5, MetricsWritten
<1>8. \A k \in Items : Touched(k) => Holds(j, w) /\ k \in s.items
  BY <1>1, <1>3, <1>7
<1>9. monitorFaults = 0 => s.items \cap Marked' = {}
  BY <1>1, <1>7, Holder
<1>10. monitorFaults = 0 =>
         \A k \in Items : Touched(k) /\ marker'[k] # 0 => metrics'[k][marker'[k]] = "valid"
  <2> SUFFICES ASSUME monitorFaults = 0, NEW k \in Items, Touched(k), marker'[k] # 0 PROVE FALSE
    OBVIOUS
  <2>1. k \in s.items /\ k \in Marked'
    BY <1>8 DEF Marked
  <2> QED
    BY <1>9, <2>1
<1>11. next = "adopt" => metrics'[Min(s.items)][s.attempt] = "valid"
  BY <1>5, <1>7 DEF i
<1> QED
  BY <1>1, <1>2, <1>3, <1>4, <1>6, <1>7, <1>8, <1>9, <1>10, <1>11, GoesStep

\* The first item is marked and put down.
LEMMA AdoptItemStep ==
  ASSUME EvalInv, NEW j \in JobIds, NEW w \in Procs, AdoptItem(j, w)
  PROVE  EvalInv'
<1> DEFINE s == proc[j][w]
          i == Min(s.items)
          a == s.attempt
          rest == s.items \ {i}
          next == IF s.items = {i} THEN "collect" ELSE "split"
          t == [s EXCEPT !.items = rest, !.pc = next]
<1>1. Holds(j, w) /\ s.pc = "adopt" /\ jobState[j] = "running"
  BY DEF AdoptItem, At, Holds, AtWork
<1>2. UNCHANGED <<topology, metrics, combined, finished, slurm, watch, jobFaults, monitorFaults>>
  BY DEF AdoptItem
<1>3. /\ a \in Attempts /\ jobFaults' \in Nat /\ i \in s.items /\ s.items \in SUBSET Items
      /\ s \in ProcStates
  BY <1>1, <1>2, Holder DEF EvalInv, EvalTypeOK
<1>4. Mark(i, a) /\ Becomes(j, w, t)
  BY <1>3 DEF AdoptItem, ProcStates
<1>5. rest \in SUBSET Items /\ next \in {"collect", "split"} /\ (next = "split" => rest # {})
  BY <1>3
<1>6. next \in Places
  BY <1>5 DEF Places
<1>7. rest \subseteq s.items /\ i \notin rest
  OBVIOUS
<1>8. monitorFaults = 0 => metrics[i][a] = "valid" /\ s.items \cap Marked = {}
  BY <1>1, Holder
<1> HIDE DEF rest, next, i
<1>9. t \in ProcStates /\ t.pc = next /\ t.turn = s.turn /\ t.items = rest /\ t.attempt = a
  BY <1>3, <1>5, <1>6 DEF ProcStates
<1> HIDE DEF t
<1>10. Owned(t, j, w)
  <2>1. next \in AtWork => rest # {}
    BY <1>5 DEF AtWork
  <2> QED
    BY <1>1, <1>3, <1>7, <1>9, <2>1, Holder DEF Owned
<1>11. /\ FileTypes' /\ Marked' = Marked \cup {i}
       /\ \A k \in Items : Touched(k) => k = i /\ marker'[k] = a /\ metrics' = metrics
  BY <1>2, <1>3, <1>4, MarkerWritten
<1>12. \A k \in Items : Touched(k) => Holds(j, w) /\ k \in s.items
  BY <1>1, <1>3, <1>11
<1>13. monitorFaults = 0 => rest \cap Marked' = {}
  BY <1>7, <1>8, <1>11
<1>14. monitorFaults = 0 =>
         \A k \in Items : Touched(k) /\ marker'[k] # 0 => metrics'[k][marker'[k]] = "valid"
  BY <1>8, <1>11
<1>15. t.pc # "adopt" /\ t.items = rest /\ Marked \subseteq Marked' /\ finished' = finished
  BY <1>2, <1>5, <1>9, <1>11
<1> QED
  BY <1>1, <1>2, <1>3, <1>4, <1>9, <1>10, <1>11, <1>12, <1>13, <1>14, <1>15, ProcessStep

\* write_summary: the run is declared complete only when every item is marked.
LEMMA CollectStep ==
  ASSUME EvalInv, NEW j \in JobIds, NEW w \in Procs, Collect(j, w)
  PROVE  EvalInv'
<1> DEFINE s == proc[j][w]
          next == IF ReadFails(Items) THEN "failed" ELSE AfterTurn(j, w)
          t == [s EXCEPT !.items = {}, !.good = {}, !.attempt = 1, !.pc = next]
<1>1. Becomes(j, w, t) /\ jobState[j] = "running"
  BY DEF Collect, At
<1>2. s \in ProcStates
  BY ProcParts DEF EvalInv
<1>3. next \in {"failed", "exit", "unit"} /\ (next = "unit" => w # Parent)
  BY DEF AfterTurn
<1>4. next \in Places /\ next \notin AtWork /\ {} \in SUBSET Items /\ 1 \in Nat \ {0}
  BY <1>3 DEF Places, AtWork
<1> HIDE DEF next
<1>5. t \in ProcStates /\ t.pc = next /\ t.items = {}
  BY <1>2, <1>4 DEF ProcStates
<1> HIDE DEF t
<1>6. w # Parent => w \in Evaluators
  BY DEF Procs
<1>7. Owned(t, j, w)
  BY <1>3, <1>4, <1>5, <1>6 DEF Owned, Looping
<1>8. /\ UNCHANGED <<topology, metrics, marker, combined, slurm, watch, jobFaults, monitorFaults>>
      /\ finished' = (finished \/ (Marked = Items /\ ~ReadFails(Items)))
  BY DEF Collect
<1>9. finished' \in BOOLEAN /\ (finished' => finished \/ Marked = Items)
  BY <1>8
<1>10. FileTypes' /\ Marked' = Marked /\ (\A i \in Items : ~Touched(i)) /\ jobFaults' \in Nat
  BY <1>8, <1>9 DEF EvalInv, EvalTypeOK, FileTypes, Marked, Touched
<1>11. t.pc # "adopt" /\ t.items \cap Marked' = {}
  BY <1>4, <1>5 DEF AtWork
<1> QED
  BY <1>1, <1>5, <1>7, <1>8, <1>9, <1>10, <1>11, ProcessStep

\* The parent of a packed job writes the last summary.
LEMMA ParentWakesStep ==
  ASSUME EvalInv, NEW j \in JobIds, ParentWakes(j)
  PROVE  EvalInv'
<1>1. Parent \in Procs /\ jobState[j] = "running" /\ Goes(j, Parent, "collect")
  BY DEF ParentWakes, Procs, At
<1>2. UNCHANGED <<topology, files, slurm, watch, jobFaults, monitorFaults>>
  BY DEF ParentWakes
<1>3. FileTypes' /\ Marked' = Marked /\ finished' = finished /\ \A i \in Items : ~Touched(i)
  BY <1>2, FilesKept
<1>4. "collect" \in Places /\ "collect" \notin AtWork /\ jobFaults' \in Nat
  BY <1>2 DEF Places, AtWork, EvalInv, EvalTypeOK
<1> QED
  BY <1>1, <1>2, <1>3, <1>4, GoesStep

\* Every step of one process.
LEMMA ProcStepKeeps ==
  ASSUME EvalInv, NEW j \in JobIds, NEW w \in Procs, ProcStep(j, w)
  PROVE  EvalInv'
BY TakeUnitStep, TryItemStep, EvaluatorEndsStep, CheckItemStep, CheckBundleStep, SplitItemStep,
   AdoptItemStep, CollectStep DEF ProcStep

\* A queued job starts, ends, or is put back, with processes that hold nothing.
LEMMA JobMoved ==
  ASSUME EvalInv, NEW j \in JobIds, Active(j), NEW where \in {"pending", "running", "gone"},
         jobState' = [jobState EXCEPT ![j] = where],
         NEW f \in [Procs -> ProcStates], proc' = [proc EXCEPT ![j] = f],
         \A w \in Procs : f[w].pc \notin AtWork /\ (f[w].pc = "unit" => w \in Evaluators),
         UNCHANGED <<topology, files, jobLane, watch, monitorFaults>>, jobFaults' \in Nat
  PROVE  EvalInv'
<1>1. /\ topology' = topology /\ jobLane' = jobLane /\ monitor' = monitor /\ history' = history
      /\ monitorFaults' = monitorFaults /\ metrics' = metrics /\ marker' = marker
  BY DEF watch, files
<1>2. /\ Procs' = Procs /\ Evaluators' = Evaluators /\ Lanes' = Lanes
      /\ MonitorStates' = MonitorStates /\ \A u : Unit(u)' = Unit(u)
  BY <1>1, SameLaunch
<1>3. FileTypes' /\ Marked' = Marked /\ finished' = finished
  BY FilesKept
<1>4. /\ jobState \in [JobIds -> {"none", "pending", "running", "gone"}]
      /\ proc \in [JobIds -> [Procs -> ProcStates]]
  BY DEF EvalInv, EvalTypeOK
<1>5. EvalTypeOK'
  BY <1>1, <1>2, <1>3, <1>4 DEF EvalInv, EvalTypeOK, FileTypes
<1>6. (monitor \in MonitorStates)' /\ Watching'
  BY <1>1, <1>2, <1>3 DEF EvalInv, Watching
<1>7. \A k \in JobIds : (jobState'[k] # "none" <=> jobState[k] # "none")
  BY <1>4 DEF Active
<1>8. Numbered'
  BY <1>7 DEF EvalInv, Numbered
<1>9. \A k \in JobIds, v \in Procs :
        jobState'[k] = "running" /\ (k # j \/ proc'[k][v].pc \in AtWork) =>
          k # j /\ jobState[k] = "running" /\ proc'[k][v] = proc[k][v]
  BY <1>4
<1>10. Owning'
  <2> SUFFICES ASSUME NEW k \in JobIds, NEW v \in Procs, jobState'[k] = "running"
               PROVE  Owned(proc[k][v], k, v)'
    BY <1>2 DEF Owning
  <2>1. \A n : Turn(k, v, n)' = Turn(k, v, n)
    BY <1>1 DEF Turn, LogicalLanes
  <2>2. Owned(proc'[k][v], k, v)
    <3>1. CASE k = j
      BY <1>4, <3>1 DEF Owned, Looping
    <3>2. CASE k # j
      BY <1>9, <3>2 DEF EvalInv, Owning
    <3> QED
      BY <3>1, <3>2
  <2> QED
    BY <1>2, <2>1, <2>2 DEF Owned
<1>11. ASSUME monitorFaults = 0 PROVE LaneJobs' /\ Unmarked' /\ MarkedValid'
  <2>1. LaneJobs /\ Unmarked /\ MarkedValid
    BY <1>11 DEF EvalInv
  <2>2. \A k \in JobIds : Active(k)' => Active(k)
    BY <1>4 DEF Active
  <2>3. /\ \A l : Latest(l)' = Latest(l)
        /\ Lane' = Lane
    BY <1>1 DEF Latest, Lane
  <2>4. \A l \in Lanes : Latest(l) \in JobIds
    <3> TAKE l \in Lanes
    <3>1. history[l] \in Seq(JobIds) /\ history[l] # <<>>
      BY DEF EvalInv, EvalTypeOK, Watching
    <3> QED
      BY <3>1 DEF Latest, Last
  <2>5. monitor.pc = "record" => Lane \in Lanes /\ monitor.job \in JobIds
    <3>1. Lanes \subseteq Nat /\ monitor.missing \subseteq Lanes
      BY TopologyParts DEF EvalInv, EvalTypeOK, MonitorStates, Lanes
    <3> QED
      BY <3>1, MinIsLeast DEF EvalInv, Watching, Lane
  <2>6. LaneJobs'
    <3>1. \A l \in Lanes, k \in JobIds :
            Active(k)' /\ jobLane[k] = l =>
              k = Latest(l) \/ (monitor.pc = "record" /\ k = monitor.job /\ l = Lane)
      BY <2>1, <2>2 DEF LaneJobs
    <3>2. \A l \in Lanes : jobState'[Latest(l)] # "none"
      BY <1>7, <2>1, <2>4 DEF LaneJobs
    <3>3. monitor.pc = "record" => jobState'[Latest(Lane)] = "gone" /\ jobState'[monitor.job] # "none"
      BY <1>4, <1>7, <2>1, <2>4, <2>5 DEF LaneJobs, Active
    <3> QED
      BY <1>1, <1>2, <2>3, <3>1, <3>2, <3>3 DEF LaneJobs
  <2>7. Unmarked'
    <3> SUFFICES ASSUME NEW k \in JobIds, NEW v \in Procs, Holds(k, v)'
                 PROVE  /\ proc'[k][v].items \cap Marked' = {}
                        /\ proc'[k][v].pc = "adopt" =>
                             metrics'[Min(proc'[k][v].items)][proc'[k][v].attempt] = "valid"
      BY <1>2 DEF Unmarked
    <3>1. proc'[k][v] = proc[k][v] /\ Holds(k, v)
      BY <1>9 DEF Holds
    <3> QED
      BY <1>1, <1>3, <2>1, <3>1 DEF Unmarked
  <2>8. MarkedValid'
    BY <1>1, <1>3, <2>1 DEF MarkedValid
  <2> QED
    BY <2>6, <2>7, <2>8
<1> QED
  BY <1>1, <1>5, <1>6, <1>8, <1>10, <1>11 DEF EvalInv

\* Slurm starts a job: its processes begin with their first unit, the parent waits.
LEMMA JobStartsStep ==
  ASSUME EvalInv, NEW j \in JobIds, JobStarts(j)
  PROVE  EvalInv'
<1> DEFINE f == [w \in Procs |-> AtStart(w)]
<1>1. /\ Active(j) /\ jobState' = [jobState EXCEPT ![j] = "running"]
      /\ proc' = [proc EXCEPT ![j] = f]
  BY DEF JobStarts, Active
<1>2. \A w \in Procs : AtStart(w) \in ProcStates
  <2> TAKE w \in Procs
  <2>1. Off \in ProcStates /\ "wait" \in Places /\ "unit" \in Places
    BY DEF Off, ProcStates, Places
  <2> QED
    BY <2>1, PlaceChanged DEF AtStart
<1>3. \A w \in Procs : AtStart(w).pc \in {"wait", "unit"} /\ (AtStart(w).pc = "unit" => w \in Evaluators)
  BY DEF AtStart, Off, Procs
<1>4. UNCHANGED <<topology, files, jobLane, watch, monitorFaults>> /\ jobFaults' \in Nat
  BY DEF JobStarts, EvalInv, EvalTypeOK
<1>5. \A w \in Procs : f[w].pc \notin AtWork /\ (f[w].pc = "unit" => w \in Evaluators)
  BY <1>3 DEF AtWork
<1>6. f \in [Procs -> ProcStates]
  BY <1>2
<1> HIDE DEF f
<1> QED
  BY <1>1, <1>4, <1>5, <1>6, JobMoved

\* A job leaves the queue, or is requeued.
LEMMA LeavesStep ==
  ASSUME EvalInv, NEW j \in JobIds, NEW where \in {"pending", "gone"}, jobState[j] = "running",
         Leaves(j, where), jobFaults' \in Nat
  PROVE  EvalInv'
<1> DEFINE f == [w \in Procs |-> Off]
<1>1. /\ Active(j) /\ jobState' = [jobState EXCEPT ![j] = where]
      /\ proc' = [proc EXCEPT ![j] = f]
  BY DEF Leaves, Active
<1>2. Off \in ProcStates /\ Off.pc \notin AtWork /\ Off.pc # "unit"
  BY DEF Off, ProcStates, Places, AtWork
<1>3. f \in [Procs -> ProcStates]
  BY <1>2
<1>4. \A w \in Procs : f[w].pc \notin AtWork /\ (f[w].pc = "unit" => w \in Evaluators)
  BY <1>2
<1>5. UNCHANGED <<topology, files, jobLane, watch, monitorFaults>>
  BY DEF Leaves
<1> HIDE DEF f
<1> QED
  BY <1>1, <1>3, <1>4, <1>5, JobMoved

-----------------------------------------------------------------------------
(* The monitor *)

\* The monitor's lane and the latest job of a lane.
LEMMA LaneType ==
  ASSUME EvalInv, monitor.pc \in {"lanes", "record"}
  PROVE  Lane \in Lanes /\ Lane \in monitor.missing /\ monitor.missing \subseteq Lanes
<1>1. Lanes \subseteq Nat /\ monitor.missing \subseteq Lanes
  BY TopologyParts DEF EvalInv, EvalTypeOK, MonitorStates, Lanes
<1> QED
  BY <1>1, MinIsLeast DEF EvalInv, Watching, Lane

LEMMA LatestType ==
  ASSUME EvalInv, NEW l \in Lanes
  PROVE  Latest(l) \in JobIds /\ history[l] \in Seq(JobIds) /\ history[l] # <<>>
<1>1. history[l] \in Seq(JobIds) /\ history[l] # <<>>
  BY DEF EvalInv, EvalTypeOK, Watching
<1> QED
  BY <1>1 DEF Latest, Last

\* After its last lane the monitor sleeps.
LEMMA LaneDoneType ==
  ASSUME EvalInv, monitor.pc \in {"lanes", "record"}
  PROVE  /\ LaneDone \in MonitorStates /\ LaneDone.pc \in {"scan", "lanes"}
         /\ LaneDone.pc = "lanes" => LaneDone.missing # {}
<1> DEFINE rest == monitor.missing \ {Lane}
<1>1. rest \in SUBSET Lanes
  BY LaneType
<1>2. LaneDone = [pc |-> IF rest = {} THEN "scan" ELSE "lanes", missing |-> rest, job |-> 0]
  BY DEF LaneDone
<1> HIDE DEF rest
<1> QED
  BY <1>1, <1>2 DEF MonitorStates

\* A step of the monitor writes no results, and what it does to the queue leaves the running
\* jobs as they are.
LEMMA MonitorMoves ==
  ASSUME EvalInv, UNCHANGED <<topology, proc, metrics, marker, combined>>,
         finished' \in BOOLEAN, finished' => finished \/ Marked = Items,
         jobState' \in [JobIds -> {"none", "pending", "running", "gone"}],
         jobLane' \in [JobIds -> Lanes], Numbered',
         \A j \in JobIds : jobState'[j] = "running" =>
           jobState[j] = "running" /\ jobLane'[j] = jobLane[j],
         monitor' \in MonitorStates, history' \in [Lanes -> Seq(JobIds)],
         \A l \in Lanes : history'[l] # <<>>,
         monitor'.pc \in {"lanes", "record"} => monitor'.missing # {},
         monitor'.pc = "record" => monitor'.job \in JobIds,
         monitor'.pc = "summarize" => Marked = Items,
         jobFaults' \in Nat, monitorFaults' \in Nat,
         monitorFaults' = 0 => monitorFaults = 0 /\ LaneJobs'
  PROVE  EvalInv'
<1>1. /\ Procs' = Procs /\ Evaluators' = Evaluators /\ Lanes' = Lanes
      /\ MonitorStates' = MonitorStates /\ \A u : Unit(u)' = Unit(u)
  BY SameLaunch
<1>2. Marked' = Marked
  BY DEF Marked
<1>3. EvalTypeOK' /\ (monitor \in MonitorStates)'
  <2>1. monitor'.pc \in {"scan", "lanes", "record", "summarize", "done", "dead"}
    BY DEF MonitorStates
  <2> QED
    BY <1>1, <2>1 DEF EvalInv, EvalTypeOK
<1>4. Watching'
  BY <1>1, <1>2 DEF EvalInv, Watching
<1>5. Owning'
  <2> SUFFICES ASSUME NEW k \in JobIds, NEW v \in Procs, jobState'[k] = "running"
               PROVE  Owned(proc[k][v], k, v)'
    BY <1>1 DEF Owning
  <2>1. Owned(proc[k][v], k, v) /\ proc' = proc
    BY DEF EvalInv, Owning
  <2>2. \A n : Turn(k, v, n)' = Turn(k, v, n)
    BY DEF Turn, LogicalLanes
  <2> QED
    BY <1>1, <2>1, <2>2 DEF Owned
<1>6. monitorFaults' = 0 => Unmarked' /\ MarkedValid'
  <2> SUFFICES ASSUME monitorFaults' = 0 PROVE Unmarked' /\ MarkedValid'
    OBVIOUS
  <2>1. Unmarked /\ MarkedValid
    BY DEF EvalInv
  <2> QED
    BY <1>1, <1>2, <2>1 DEF Unmarked, MarkedValid, Holds
<1> QED
  BY <1>3, <1>4, <1>5, <1>6 DEF EvalInv

\* Outside its submissions the monitor changes neither the queue nor its state file.
LEMMA MonitorLooks ==
  ASSUME EvalInv, UNCHANGED <<topology, proc, metrics, marker, combined, slurm, history, monitorFaults>>,
         finished' \in BOOLEAN, finished' => finished \/ Marked = Items, monitor.pc # "record",
         monitor' \in MonitorStates, monitor'.pc # "record",
         monitor'.pc = "lanes" => monitor'.missing # {},
         monitor'.pc = "summarize" => Marked = Items, jobFaults' \in Nat
  PROVE  EvalInv'
<1>1. /\ jobState' = jobState /\ jobLane' = jobLane /\ history' = history /\ topology' = topology
      /\ monitorFaults' = monitorFaults
  BY DEF slurm
<1>2. /\ jobState' \in [JobIds -> {"none", "pending", "running", "gone"}]
      /\ jobLane' \in [JobIds -> Lanes] /\ history' \in [Lanes -> Seq(JobIds)]
      /\ \A l \in Lanes : history'[l] # <<>>
      /\ monitorFaults' \in Nat
  BY <1>1 DEF EvalInv, EvalTypeOK, Watching
<1>3. Numbered'
  BY <1>1 DEF EvalInv, Numbered
<1>4. monitorFaults' = 0 => monitorFaults = 0 /\ LaneJobs'
  <2> SUFFICES ASSUME monitorFaults = 0 PROVE LaneJobs'
    BY <1>1
  <2>1. LaneJobs
    BY DEF EvalInv
  <2>2. /\ \A l : Latest(l)' = Latest(l)
        /\ \A j : Active(j)' = Active(j)
        /\ Lanes' = Lanes
    BY <1>1 DEF Latest, Active, Lanes
  <2> QED
    BY <1>1, <2>1, <2>2 DEF LaneJobs
<1> QED
  BY <1>1, <1>2, <1>3, <1>4, MonitorMoves

LEMMA ScanStep ==
  ASSUME EvalInv, Scan
  PROVE  EvalInv'
<1> DEFINE missing == {LaneOf(i) : i \in Items \ Marked}
          next == IF missing = {} THEN "summarize" ELSE "lanes"
<1>1. missing \in SUBSET Lanes
  BY LaneOfType DEF EvalInv, EvalTypeOK
<1>2. missing = {} => Marked = Items
  BY DEF Marked
<1>3. monitor' = [monitor EXCEPT !.missing = missing, !.pc = next] /\ monitor.pc = "scan"
  BY DEF Scan, Moves
<1>4. monitor \in MonitorStates
  BY DEF EvalInv
<1> HIDE DEF missing
<1>5. monitor' \in MonitorStates /\ monitor'.pc = next /\ monitor'.missing = missing
  BY <1>1, <1>3, <1>4 DEF MonitorStates
<1>6. /\ UNCHANGED <<topology, files, slurm, proc, history, monitorFaults>> /\ finished' \in BOOLEAN
      /\ jobFaults' \in Nat
  BY DEF Scan, EvalInv, EvalTypeOK, files
<1>7. UNCHANGED <<topology, proc, metrics, marker, combined, slurm, history, monitorFaults>> /\ finished' = finished
  BY <1>6 DEF files
<1> QED
  BY <1>2, <1>3, <1>5, <1>6, <1>7, MonitorLooks

\* A lane whose job is active, or whose job no partition takes, is left for the next scan.
LEMMA LaneLeft ==
  ASSUME EvalInv, monitor.pc = "lanes", Moves(LaneDone),
         UNCHANGED <<topology, files, slurm, proc, history, monitorFaults>>, jobFaults' \in Nat
  PROVE  EvalInv'
<1>1. /\ LaneDone \in MonitorStates /\ LaneDone.pc \in {"scan", "lanes"}
      /\ LaneDone.pc = "lanes" => LaneDone.missing # {}
  BY LaneDoneType
<1>2. monitor' = LaneDone
  BY DEF Moves
<1>3. /\ UNCHANGED <<topology, proc, metrics, marker, combined, slurm, history, monitorFaults>>
      /\ finished' = finished /\ finished' \in BOOLEAN
  BY DEF files, EvalInv, EvalTypeOK
<1>4. monitor'.pc # "record" /\ monitor'.pc # "summarize"
  BY <1>1, <1>2
<1> QED
  BY <1>1, <1>2, <1>3, <1>4, MonitorLooks

LEMMA SummarizeStep ==
  ASSUME EvalInv, Summarize
  PROVE  EvalInv'
<1>1. monitor \in MonitorStates /\ Marked = Items
  BY DEF EvalInv, Watching, Summarize
<1>2. /\ UNCHANGED <<topology, proc, metrics, marker, combined, slurm, history, monitorFaults>>
      /\ finished' \in BOOLEAN /\ jobFaults' \in Nat
  BY DEF Summarize, EvalInv, EvalTypeOK
<1>3. PICK next \in {"dead", "done"} : monitor' = [monitor EXCEPT !.pc = next]
  BY DEF Summarize, Moves
<1>4. monitor' \in MonitorStates /\ monitor'.pc = next
  BY <1>1, <1>3 DEF MonitorStates
<1>5. monitor.pc # "record"
  BY DEF Summarize
<1> QED
  BY <1>1, <1>2, <1>3, <1>4, <1>5, MonitorLooks

\* A new job gets the number after the last.
LEMMA NextJobIsNew ==
  ASSUME EvalInv, NEW j \in JobIds, j = 1 + Cardinality({k \in JobIds : jobState[k] # "none"})
  PROVE  jobState[j] = "none" /\ \A k \in JobIds : k < j => jobState[k] # "none"
<1> DEFINE S == {k \in JobIds : jobState[k] # "none"}
<1>1. MaxSubmissions \in Nat /\ j \in Nat \ {0} /\ JobIds \subseteq Nat
  BY EvalAssumption DEF JobIds
<1>2. IsFiniteSet(JobIds) /\ IsFiniteSet(S)
  <2>1. IsFiniteSet(JobIds)
    BY <1>1, FS_Interval DEF JobIds
  <2> QED
    BY <2>1, FS_Subset
<1>3. Cardinality(S) = j - 1 /\ Cardinality(S) \in Nat
  BY <1>1, <1>2, FS_CardinalityType
<1>4. ASSUME jobState[j] # "none" PROVE FALSE
  <2>1. 1..j \subseteq S
    BY <1>1, <1>4 DEF EvalInv, Numbered, JobIds
  <2>2. Cardinality(1..j) = j
    BY <1>1, FS_Interval
  <2>3. Cardinality(1..j) <= Cardinality(S)
    BY <1>2, <2>1, FS_Subset
  <2> QED
    BY <1>1, <1>3, <2>2, <2>3
<1>5. ASSUME NEW k \in JobIds, k < j, jobState[k] = "none" PROVE FALSE
  <2>1. S \subseteq 1..(k - 1)
    <3> SUFFICES ASSUME NEW d \in S PROVE d <= k - 1
      BY <1>1 DEF JobIds
    <3>1. d \in JobIds /\ jobState[d] # "none"
      OBVIOUS
    <3>2. ~(k < d) /\ d # k
      BY <1>5, <3>1 DEF EvalInv, Numbered
    <3> QED
      BY <1>1, <3>1, <3>2
  <2>2. k \in Nat \ {0} /\ k - 1 \in Nat
    BY <1>5 DEF JobIds
  <2>3. IsFiniteSet(1..(k - 1)) /\ Cardinality(1..(k - 1)) = k - 1
    BY <2>2, FS_Interval
  <2>4. Cardinality(S) <= k - 1
    BY <2>1, <2>3, FS_Subset
  <2> QED
    BY <1>1, <1>3, <1>5, <2>2, <2>4
<1> QED
  BY <1>4, <1>5

\* A lane is submitted again: its job before has left, unless squeue misled the monitor.
LEMMA SubmitStep ==
  ASSUME EvalInv, NEW j \in JobIds, monitor.pc = "lanes", SubmitPhysicalLane(j),
         monitorFaults' \in Nat, monitorFaults' = 0 => monitorFaults = 0 /\ ~Active(Latest(Lane))
  PROVE  EvalInv'
<1>1. /\ jobState[j] = "none" /\ \A k \in JobIds : k < j => jobState[k] # "none"
  BY NextJobIsNew DEF SubmitPhysicalLane
<1>2. /\ jobState' = [jobState EXCEPT ![j] = "pending"]
      /\ jobLane' = [jobLane EXCEPT ![j] = Lane]
      /\ monitor' = [monitor EXCEPT !.pc = "record", !.job = j]
      /\ topology' = topology /\ proc' = proc /\ metrics' = metrics /\ marker' = marker
      /\ combined' = combined /\ finished' = finished /\ history' = history /\ jobFaults' = jobFaults
  BY DEF SubmitPhysicalLane, Moves, files
<1>3. /\ jobState \in [JobIds -> {"none", "pending", "running", "gone"}]
      /\ jobLane \in [JobIds -> Lanes] /\ history \in [Lanes -> Seq(JobIds)] /\ finished \in BOOLEAN
      /\ jobFaults \in Nat /\ monitor \in MonitorStates
      /\ \A l \in Lanes : history[l] # <<>>
      /\ monitor.missing # {}
  BY DEF EvalInv, EvalTypeOK, Watching
<1>4. Lane \in Lanes
  BY LaneType
<1>5. /\ jobState' \in [JobIds -> {"none", "pending", "running", "gone"}]
      /\ jobLane' \in [JobIds -> Lanes]
  BY <1>2, <1>3, <1>4
<1>6. /\ monitor' \in MonitorStates /\ monitor'.pc = "record" /\ monitor'.job = j
      /\ monitor'.missing = monitor.missing
  BY <1>2, <1>3 DEF MonitorStates
<1>7. Numbered'
  <2> SUFFICES ASSUME NEW d \in JobIds, NEW k \in JobIds, k < d, jobState'[d] # "none"
               PROVE  jobState'[k] # "none"
    BY DEF Numbered
  <2>1. CASE d = j
    BY <1>1, <1>2, <1>3, <2>1
  <2>2. CASE d # j
    <3>1. jobState[d] # "none"
      BY <1>2, <1>3, <2>2
    <3>2. jobState[k] # "none"
      BY <3>1 DEF EvalInv, Numbered
    <3> QED
      BY <1>2, <1>3, <3>2
  <2> QED
    BY <2>1, <2>2
<1>8. \A k \in JobIds : jobState'[k] = "running" =>
        jobState[k] = "running" /\ jobLane'[k] = jobLane[k]
  BY <1>2, <1>3
<1>9. ASSUME monitorFaults' = 0 PROVE LaneJobs'
  <2>1. LaneJobs /\ ~Active(Latest(Lane))
    BY <1>9 DEF EvalInv
  <2>2. /\ \A l : Latest(l)' = Latest(l)
        /\ Lanes' = Lanes /\ Lane' = Lane
    BY <1>2, <1>6 DEF Latest, Lanes, Lane
  <2>3. \A l \in Lanes : Latest(l) \in JobIds
    BY LatestType
  <2>4. \A l \in Lanes, k \in JobIds :
          Active(k)' /\ jobLane'[k] = l => k = Latest(l) \/ (k = j /\ l = Lane)
    <3> TAKE l \in Lanes, k \in JobIds
    <3> HAVE Active(k)' /\ jobLane'[k] = l
    <3>1. CASE k = j
      BY <1>2, <1>3, <3>1
    <3>2. CASE k # j
      <4>1. Active(k) /\ jobLane[k] = l
        BY <1>2, <1>3, <3>2 DEF Active
      <4> QED
        BY <2>1, <4>1 DEF LaneJobs
    <3> QED
      BY <3>1, <3>2
  <2>5. \A l \in Lanes : jobState'[Latest(l)] # "none"
    BY <1>2, <1>3, <2>1, <2>3 DEF LaneJobs
  <2>6. jobState[Latest(Lane)] = "gone"
    BY <1>3, <1>4, <2>1, <2>3 DEF LaneJobs, Active
  <2>7. jobState'[Latest(Lane)] = "gone" /\ jobState'[j] # "none"
    BY <1>1, <1>2, <1>3, <1>4, <2>3, <2>6
  <2> QED
    BY <1>6, <2>2, <2>4, <2>5, <2>7 DEF LaneJobs
<1> QED
  BY <1>2, <1>3, <1>5, <1>6, <1>7, <1>8, <1>9, MonitorMoves

\* The new job is recorded as the latest of its lane.
LEMMA RecordJobStep ==
  ASSUME EvalInv, RecordJob
  PROVE  EvalInv'
<1>1. /\ monitor.pc = "record" /\ history' = [history EXCEPT ![Lane] = Append(@, monitor.job)]
      /\ monitor' = LaneDone
  BY DEF RecordJob, Moves
<1>2. /\ topology' = topology /\ jobState' = jobState /\ jobLane' = jobLane /\ proc' = proc
      /\ metrics' = metrics /\ marker' = marker /\ combined' = combined /\ finished' = finished
      /\ jobFaults' = jobFaults /\ monitorFaults' = monitorFaults
  BY DEF RecordJob, files, slurm
<1>3. /\ LaneDone \in MonitorStates /\ LaneDone.pc \in {"scan", "lanes"}
      /\ LaneDone.pc = "lanes" => LaneDone.missing # {}
  BY <1>1, LaneDoneType
<1>4. Lane \in Lanes /\ monitor.job \in JobIds
  BY <1>1, LaneType DEF EvalInv, Watching
<1>5. history \in [Lanes -> Seq(JobIds)] /\ \A l \in Lanes : history[l] # <<>>
  BY DEF EvalInv, EvalTypeOK, Watching
<1>6. /\ history' \in [Lanes -> Seq(JobIds)]
      /\ history'[Lane] = Append(history[Lane], monitor.job)
      /\ \A l \in Lanes : l # Lane => history'[l] = history[l]
  BY <1>1, <1>4, <1>5
<1>7. \A l \in Lanes : history'[l] # <<>>
  BY <1>4, <1>5, <1>6
<1>8. history'[Lane][Len(history'[Lane])] = monitor.job
  BY <1>4, <1>5, <1>6
<1>9. /\ jobState' \in [JobIds -> {"none", "pending", "running", "gone"}]
      /\ jobLane' \in [JobIds -> Lanes] /\ finished' \in BOOLEAN /\ jobFaults' \in Nat
      /\ monitorFaults' \in Nat
  BY <1>2 DEF EvalInv, EvalTypeOK
<1>10. Numbered'
  BY <1>2 DEF EvalInv, Numbered
<1>11. ASSUME monitorFaults' = 0 PROVE LaneJobs'
  <2>1. LaneJobs /\ Lanes' = Lanes
    BY <1>2, <1>11 DEF EvalInv, Lanes
  <2>2. \A j : Active(j)' = Active(j)
    BY <1>2 DEF Active
  <2> DEFINE latest(l) == history'[l][Len(history'[l])]
  <2>3. \A l : Latest(l)' = latest(l)
    BY DEF Latest, Last
  <2>4. latest(Lane) = monitor.job
    BY <1>8
  <2>5. \A l \in Lanes : l # Lane => latest(l) = Latest(l)
    BY <1>6 DEF Latest, Last
  <2> HIDE DEF latest
  <2>6. jobState[Latest(Lane)] = "gone" /\ jobState[monitor.job] # "none"
    BY <1>1, <2>1 DEF LaneJobs
  <2>7. \A l \in Lanes, j \in JobIds : Active(j) /\ jobLane[j] = l => j = latest(l)
    <3> TAKE l \in Lanes, j \in JobIds
    <3> HAVE Active(j) /\ jobLane[j] = l
    <3>1. j = Latest(l) \/ (j = monitor.job /\ l = Lane)
      BY <2>1 DEF LaneJobs
    <3>2. CASE l = Lane
      BY <2>4, <2>6, <3>1, <3>2 DEF Active
    <3>3. CASE l # Lane
      BY <2>5, <3>1, <3>3
    <3> QED
      BY <3>2, <3>3
  <2>8. \A l \in Lanes : jobState[latest(l)] # "none"
    BY <2>1, <2>4, <2>5, <2>6 DEF LaneJobs
  <2>9. monitor'.pc # "record"
    BY <1>1, <1>3
  <2> QED
    BY <1>2, <2>1, <2>2, <2>3, <2>7, <2>8, <2>9 DEF LaneJobs
<1>12. monitor' \in MonitorStates /\ monitor'.pc \notin {"record", "summarize"}
       /\ (monitor'.pc = "lanes" => monitor'.missing # {})
  BY <1>1, <1>3
<1> QED
  BY <1>2, <1>6, <1>7, <1>9, <1>10, <1>11, <1>12, MonitorMoves

\* A requeued monitor takes the arrays of the launch for the latest jobs.
LEMMA MonitorRestartsStep ==
  ASSUME EvalInv, MonitorRestarts
  PROVE  EvalInv'
<1>1. monitor' = [pc |-> "scan", missing |-> {}, job |-> 0] /\ monitorFaults' = monitorFaults + 1
  BY DEF MonitorRestarts, Moves, MonitorFault
<1>2. history' = [l \in Lanes |->
       IF Latest(l) = ArrayJob(l) THEN history[l] ELSE Append(history[l], ArrayJob(l))]
  BY DEF MonitorRestarts
<1>3. /\ topology' = topology /\ jobState' = jobState /\ jobLane' = jobLane /\ proc' = proc
      /\ metrics' = metrics /\ marker' = marker /\ combined' = combined /\ finished' = finished
      /\ jobFaults' = jobFaults
  BY DEF MonitorRestarts, files, slurm
<1>4. \A l \in Lanes : ArrayJob(l) \in JobIds
  BY TopologyParts, EvalAssumption DEF EvalInv, EvalTypeOK, ArrayJob, Lanes, JobIds
<1>5. \A l \in Lanes : history[l] \in Seq(JobIds) /\ history[l] # <<>>
  BY LatestType
<1>6. \A l \in Lanes : history'[l] \in Seq(JobIds) /\ history'[l] # <<>>
  <2> TAKE l \in Lanes
  <2>1. \/ history'[l] = history[l]
        \/ history'[l] = Append(history[l], ArrayJob(l))
    BY <1>2
  <2> QED
    BY <1>4, <1>5, <2>1
<1>7. history' \in [Lanes -> Seq(JobIds)]
  BY <1>2, <1>6
<1>8. /\ jobState' \in [JobIds -> {"none", "pending", "running", "gone"}]
      /\ jobLane' \in [JobIds -> Lanes] /\ finished' \in BOOLEAN /\ jobFaults' \in Nat
      /\ monitorFaults' \in Nat /\ monitorFaults' # 0
  BY <1>1, <1>3 DEF EvalInv, EvalTypeOK
<1>9. Numbered'
  BY <1>3 DEF EvalInv, Numbered
<1>10. monitor' \in MonitorStates /\ monitor'.pc = "scan"
  BY <1>1 DEF MonitorStates
<1> QED
  BY <1>3, <1>6, <1>7, <1>8, <1>9, <1>10, MonitorMoves

-----------------------------------------------------------------------------
(* Theorems *)

LEMMA EvalStep == EvalInv /\ [EvalNext]_evalVars => EvalInv'
<1> SUFFICES ASSUME EvalInv, [EvalNext]_evalVars PROVE EvalInv'
  OBVIOUS
<1>1. CASE UNCHANGED evalVars
  <2>1. UNCHANGED <<topology, proc, metrics, marker, combined, slurm, history, monitorFaults, finished,
                    jobFaults, monitor>>
    BY <1>1 DEF evalVars, files, watch
  <2>2. jobState' = jobState /\ jobLane' = jobLane
    BY <2>1 DEF slurm
  <2>3. /\ Procs' = Procs /\ Evaluators' = Evaluators /\ Lanes' = Lanes
        /\ MonitorStates' = MonitorStates /\ \A u : Unit(u)' = Unit(u)
    BY <2>1, SameLaunch
  <2>4. EvalTypeOK' /\ (monitor \in MonitorStates)'
    BY <2>1, <2>2, <2>3 DEF EvalInv, EvalTypeOK
  <2>5. Marked' = Marked /\ Lane' = Lane
    BY <2>1 DEF Marked, Lane
  <2>6. Numbered' /\ Watching'
    BY <2>1, <2>2, <2>3, <2>5 DEF EvalInv, Numbered, Watching
  <2>7. Owning'
    <3> SUFFICES ASSUME NEW k \in JobIds, NEW v \in Procs, jobState[k] = "running"
                 PROVE  Owned(proc[k][v], k, v)'
      BY <2>2, <2>3 DEF Owning
    <3>1. \A n : Turn(k, v, n)' = Turn(k, v, n)
      BY <2>1, <2>2 DEF Turn, LogicalLanes
    <3>2. Owned(proc[k][v], k, v)
      BY DEF EvalInv, Owning
    <3> QED
      BY <2>1, <2>3, <3>1, <3>2 DEF Owned
  <2>8. monitorFaults = 0 => LaneJobs' /\ Unmarked' /\ MarkedValid'
    <3> SUFFICES ASSUME monitorFaults = 0 PROVE LaneJobs' /\ Unmarked' /\ MarkedValid'
      OBVIOUS
    <3>1. LaneJobs /\ Unmarked /\ MarkedValid
      BY DEF EvalInv
    <3>2. /\ \A l : Latest(l)' = Latest(l)
          /\ \A j : Active(j)' = Active(j)
      BY <2>1, <2>2 DEF Latest, Active
    <3>3. LaneJobs'
      BY <2>1, <2>2, <2>3, <2>5, <3>1, <3>2 DEF LaneJobs
    <3>4. Unmarked' /\ MarkedValid'
      BY <2>1, <2>2, <2>3, <2>5, <3>1 DEF Unmarked, MarkedValid, Holds
    <3> QED
      BY <3>3, <3>4
  <2> QED
    BY <2>1, <2>4, <2>6, <2>7, <2>8 DEF EvalInv
<1>2. ASSUME NEW j \in JobIds, JobStep(j) PROVE EvalInv'
  <2>1. ASSUME JobEnds(j) PROVE EvalInv'
    <3>1. jobState[j] = "running" /\ Leaves(j, "gone") /\ jobFaults' \in Nat
      BY <2>1 DEF JobEnds, EvalInv, EvalTypeOK
    <3> QED
      BY <3>1, LeavesStep
  <2> QED
    BY <1>2, <2>1, JobStartsStep, ParentWakesStep, ProcStepKeeps DEF JobStep
<1>3. ASSUME NEW j \in JobIds, JobKilled(j) PROVE EvalInv'
  <2>1. PICK where \in {"pending", "gone"} : Leaves(j, where)
    BY <1>3 DEF JobKilled
  <2>2. jobState[j] = "running" /\ jobFaults' \in Nat
    BY <1>3 DEF JobKilled, JobFault, EvalInv, EvalTypeOK
  <2> QED
    BY <2>1, <2>2, LeavesStep
<1>4. ASSUME NEW j \in JobIds, Resubmit(j) PROVE EvalInv'
  <2>1. /\ monitor.pc = "lanes" /\ SubmitPhysicalLane(j) /\ ~Active(Latest(Lane))
        /\ monitorFaults' = monitorFaults /\ monitorFaults \in Nat
    BY <1>4 DEF Resubmit, EvalInv, EvalTypeOK
  <2> QED
    BY <2>1, SubmitStep
<1>5. ASSUME NEW j \in JobIds, ResubmitUnanswered(j) PROVE EvalInv'
  <2>1. /\ monitor.pc = "lanes" /\ SubmitPhysicalLane(j)
        /\ monitorFaults' = monitorFaults + 1 /\ monitorFaults \in Nat
    BY <1>5 DEF ResubmitUnanswered, MonitorFault, EvalInv, EvalTypeOK
  <2>2. monitorFaults' \in Nat /\ monitorFaults' # 0
    BY <2>1
  <2> QED
    BY <2>1, <2>2, SubmitStep
<1>6. ASSUME LaneActive PROVE EvalInv'
  <2>1. /\ monitor.pc = "lanes" /\ Moves(LaneDone)
        /\ UNCHANGED <<topology, files, slurm, proc, history, monitorFaults>> /\ jobFaults' \in Nat
    BY <1>6 DEF LaneActive, EvalInv, EvalTypeOK
  <2> QED
    BY <2>1, LaneLeft
<1>7. ASSUME SubmitRefused PROVE EvalInv'
  <2>1. /\ monitor.pc = "lanes" /\ Moves(LaneDone)
        /\ UNCHANGED <<topology, files, slurm, proc, history, monitorFaults>> /\ jobFaults' \in Nat
    BY <1>7 DEF SubmitRefused, JobFault, EvalInv, EvalTypeOK
  <2> QED
    BY <2>1, LaneLeft
<1>8. ASSUME MonitorStep PROVE EvalInv'
  BY <1>4, <1>6, <1>8, ScanStep, RecordJobStep, SummarizeStep DEF MonitorStep
<1>9. ASSUME EvalNext PROVE EvalInv'
  BY <1>2, <1>3, <1>5, <1>7, <1>8, <1>9, EvaluatorFailsStep, MonitorRestartsStep DEF EvalNext
<1> QED
  BY <1>1, <1>9

\* The invariant of the evaluation, with any number of items, lanes, jobs and faults: every
\* process holds items of its own lane's units only, the monitor keeps one job per lane in the
\* queue, and a marker is written only for a valid result.
THEOREM EvalInvariance == EvalSpec => []EvalInv
<1> QED
  BY EvalBegins, EvalStep, PTL DEF EvalSpec

\* While the monitor is neither restarted nor misinformed, no item is evaluated by two processes
\* at once, nor again after its COMPLETE.json (eval.py run_item, run_coalesced_bundle).
THEOREM ItemsAreEvaluatedOnce == EvalSpec => []ItemsOnce
<1>1. EvalInv => ItemsOnce
  <2> SUFFICES ASSUME EvalInv, monitorFaults = 0, NEW j \in JobIds, NEW k \in JobIds,
                      NEW w \in Procs, NEW v \in Procs, Evaluating(j, w)
               PROVE  /\ proc[j][w].items \cap Marked = {}
                      /\ (Evaluating(k, v) /\ <<j, w>> # <<k, v>>) =>
                           proc[j][w].items \cap proc[k][v].items = {}
    BY DEF ItemsOnce, EvalInv
  <2>1. Holds(j, w) /\ (Evaluating(k, v) => Holds(k, v))
    BY DEF Evaluating, Holds, AtWork
  <2> QED
    BY <2>1, Holder, HeldOnce
<1> QED
  BY <1>1, EvalInvariance, PTL

\* Under the same condition a COMPLETE.json names a valid result for good; and EVAL_COMPLETE.json
\* exists, whatever happens, only when every item is marked (eval.py write_summary).
THEOREM CompletedStaysValid == EvalSpec => []CompletedValid
<1>1. EvalInv => CompletedValid
  BY DEF EvalInv, Watching, MarkedValid, CompletedValid, ReadFails, Marked
<1> QED
  BY <1>1, EvalInvariance, PTL

=============================================================================
