------------------------- MODULE CandidateLoopProofs -------------------------
(* Proofs about CandidateLoop, for every length of the run, target, budget, *)
(* wave, schedule and number of preemptions.                                *)
EXTENDS CandidateLoop, FiniteSetTheorems, TLAPS

-----------------------------------------------------------------------------
(* Arithmetic *)

LEMMA Euclid ==
  ASSUME NEW l \in Nat \ {0}, NEW z \in Nat
  PROVE  z \div l \in Int /\ z % l \in 0..(l - 1) /\ z = (z \div l) * l + (z % l)
OBVIOUS

\* Quotient and remainder are determined.
LEMMA Division ==
  ASSUME NEW w \in Nat \ {0}, NEW k \in Nat, NEW r \in 0..(w - 1), NEW x \in Nat,
         x = k * w + r
  PROVE  x \div w = k /\ x % w = r
<1>1. x = (x \div w) * w + (x % w) /\ x \div w \in Int /\ x % w \in 0..(w - 1)
  BY Euclid
<1> DEFINE q == x \div w  m == x % w
<1>2. q \in Int /\ m \in Int /\ 0 <= m /\ m < w /\ q * w + m = k * w + r
  BY <1>1
<1> HIDE DEF q, m
<1>3. ~ (q < k)
  <2>1. SUFFICES ASSUME q + 1 <= k PROVE FALSE
    BY <1>2
  <2>2. (q + 1) * w <= k * w
    BY <1>2, <2>1
  <2>3. (q + 1) * w = q * w + w
    BY <1>2
  <2> QED
    BY <1>2, <2>2, <2>3
<1>4. ~ (k < q)
  <2>1. SUFFICES ASSUME k + 1 <= q PROVE FALSE
    BY <1>2
  <2>2. (k + 1) * w <= q * w
    BY <1>2, <2>1
  <2>3. (k + 1) * w = k * w + w
    BY <1>2
  <2> QED
    BY <1>2, <2>2, <2>3
<1>5. q = k
  BY <1>2, <1>3, <1>4
<1>6. m = r
  BY <1>2, <1>5
<1> QED
  BY <1>5, <1>6 DEF q, m

LEMMA Quotient ==
  ASSUME NEW x \in Nat, NEW w \in Nat \ {0}
  PROVE  x \div w \in Nat /\ (x \div w) * w <= x
<1>1. x = (x \div w) * w + (x % w) /\ x \div w \in Int /\ x % w \in 0..(w - 1)
  BY Euclid
<1> QED
  BY <1>1

\* Two numbers that agree modulo l go on to agree.
LEMMA NextRemainder ==
  ASSUME NEW l \in Nat \ {0}, NEW x \in Nat, NEW y \in Nat, x % l = y % l
  PROVE  (x + 1) % l = (y + 1) % l
<1>1. ASSUME NEW z \in Nat PROVE (z + 1) % l = IF z % l = l - 1 THEN 0 ELSE (z % l) + 1
  <2> DEFINE q == z \div l  m == z % l
  <2>1. q \in Int /\ m \in 0..(l - 1) /\ z = q * l + m
    OBVIOUS
  <2>2. q \in Nat
    BY Quotient
  <2>3. CASE m = l - 1
    <3>1. z + 1 = (q + 1) * l + 0 /\ q + 1 \in Nat /\ 0 \in 0..(l - 1)
      <4>1. (q + 1) * l = q * l + l
        BY <2>2
      <4> HIDE DEF q, m
      <4> QED
        BY <2>1, <2>2, <2>3, <4>1
    <3> HIDE DEF q
    <3>2. (z + 1) % l = 0
      BY <3>1, Division
    <3> QED
      BY <2>3, <3>2
  <2>4. CASE m # l - 1
    <3>1. z + 1 = q * l + (m + 1) /\ m + 1 \in 0..(l - 1)
      <4> HIDE DEF q, m
      <4> QED
        BY <2>1, <2>2, <2>4
    <3>2. (z + 1) % l = m + 1
      <4> DEFINE v == z + 1  r == m + 1
      <4>1. v \in Nat /\ v = q * l + r /\ r \in 0..(l - 1)
        BY <3>1
      <4> HIDE DEF q, m, v, r
      <4>2. v % l = r
        BY <2>2, <4>1, Division
      <4> QED
        BY <4>2 DEF v, r
    <3> QED
      BY <2>4, <3>2
  <2> QED
    BY <2>3, <2>4
<1> QED
  BY <1>1

-----------------------------------------------------------------------------
(* Waves, batches and the numbers of the records *)

LEMMA WaveType == Wave \in Nat \ {0}
BY CandidateAssumption DEF Wave

\* A resumed schedule is at the beginning of a wave.
LEMMA WholeWaves ==
  ASSUME NEW n \in Nat, Whole(n)
  PROVE  n \div Wave \in Nat /\ (n \div Wave) * Wave = n /\ Whole(n + Wave)
<1>1. PICK k \in 0..n : n = k * Wave
  BY DEF Whole
<1>2. Wave \in Nat \ {0} /\ k \in Nat /\ n = k * Wave + 0 /\ 0 \in 0..(Wave - 1)
  BY <1>1, WaveType
<1> DEFINE wave == Wave
<1>3. wave \in Nat \ {0} /\ n = k * wave + 0 /\ 0 \in 0..(wave - 1)
  BY <1>2
<1>4. n + wave = (k + 1) * wave /\ k + 1 \in 0..(n + wave)
  <2> HIDE DEF wave
  <2>1. (k + 1) * wave = k * wave + wave
    BY <1>2, <1>3
  <2>2. k <= n
    BY <1>1
  <2> QED
    BY <1>2, <1>3, <2>1, <2>2
<1>5. n \div wave = k
  <2> HIDE DEF wave
  <2> QED
    BY <1>2, <1>3, Division
<1> QED
  BY <1>2, <1>4, <1>5 DEF Whole

\* A batch is not empty, fits into a wave and stays within the budget
\* (_quantized_candidate_batch_size).
LEMMA BatchFits ==
  ASSUME NEW next \in Nat \ {0}, NEW selected \in Nat, ~Stops(next, selected)
  PROVE  /\ BatchSize(next, selected) \in 1..Wave
         /\ next + BatchSize(next, selected) <= MaxCandidates + 1
<1> DEFINE budget == MaxCandidates - next + 1
           open == Target - selected
           bound == Min2(Concurrency, budget)
           size == BatchSize(next, selected)
<1>1. /\ budget \in Nat \ {0} /\ open \in Nat \ {0} /\ size # 0
      /\ GroupsPerStage \in Nat \ {0}
  BY CandidateAssumption DEF Stops, Enough
<1>2. bound \in Nat \ {0} /\ bound <= budget /\ bound <= Wave
  BY <1>1, CandidateAssumption, WaveType DEF Min2
<1>3. size \in 1..bound
  <2>1. CASE GroupsPerStage = 1
    BY <1>1, <1>2, <2>1 DEF BatchSize, Min2
  <2>2. CASE GroupsPerStage # 1
    <3> DEFINE x == Min2(bound, Max2(open, GroupsPerStage))
    <3>1. x \in Nat /\ x <= bound
      BY <1>1, <1>2 DEF Min2, Max2
    <3>2. size = (x \div GroupsPerStage) * GroupsPerStage
      BY <1>1, <2>2 DEF BatchSize
    <3> HIDE DEF x
    <3>3. x \div GroupsPerStage \in Nat /\ (x \div GroupsPerStage) * GroupsPerStage <= x
      BY <1>1, <3>1, Quotient
    <3> HIDE DEF bound, size
    <3>4. size \in Nat /\ size <= bound /\ size # 0
      BY <1>1, <1>2, <3>1, <3>2, <3>3
    <3> QED
      BY <1>2, <3>4
  <2> QED
    BY <2>1, <2>2
<1> HIDE DEF bound, size
<1>4. size \in 1..Wave /\ next + size <= MaxCandidates + 1
  BY <1>2, <1>3, WaveType, CandidateAssumption
<1> QED
  BY <1>4 DEF size

Attempts(S) == {g.attempt : g \in S}

\* The records are numbered from one on without gaps or repetitions.
Numbered(S) == IsFiniteSet(S) /\ Attempts(S) = 1..Cardinality(S)

LEMMA LastNumber ==
  ASSUME NEW S, Numbered(S)
  PROVE  LastAttempt(S) = Cardinality(S) /\ Cardinality(S) \in Nat
<1>1. Cardinality(S) \in Nat
  BY FS_CardinalityType DEF Numbered
<1>2. CASE S = {}
  BY <1>2, FS_EmptySet DEF LastAttempt
<1>3. CASE S # {}
  <2> DEFINE n == Cardinality(S)
  <2>1. n # 0
    BY <1>3, FS_EmptySet DEF Numbered
  <2>2. n \in Attempts(S) /\ Attempts(S) = 1..n
    BY <1>1, <2>1 DEF Numbered
  <2>3. \A g \in S : g.attempt \in Attempts(S)
    BY DEF Attempts
  <2>4. LastAttempt(S) = CHOOSE a \in Attempts(S) : \A g \in S : g.attempt <= a
    BY <1>3 DEF LastAttempt, Attempts
  <2> HIDE DEF n
  <2>5. \A g \in S : g.attempt <= n
    BY <1>1, <2>2, <2>3
  <2>6. ASSUME NEW a \in Attempts(S), \A g \in S : g.attempt <= a PROVE a = n
    <3>1. PICK g \in S : g.attempt = n
      BY <2>2 DEF Attempts
    <3>2. n <= a /\ a \in 1..n
      BY <2>2, <2>6, <3>1
    <3> QED
      BY <1>1, <3>2 DEF n
  <2>7. LastAttempt(S) = n
    BY <2>2, <2>4, <2>5, <2>6
  <2> QED
    BY <1>1, <2>7 DEF n
<1> QED
  BY <1>2, <1>3

LEMMA NextNumber ==
  ASSUME NEW S, Numbered(S), NEW g, g.attempt = Cardinality(S) + 1
  PROVE  /\ g \notin S /\ Numbered(S \cup {g})
         /\ Cardinality(S \cup {g}) = Cardinality(S) + 1
<1>1. Cardinality(S) \in Nat /\ IsFiniteSet(S) /\ Attempts(S) = 1..Cardinality(S)
  BY FS_CardinalityType DEF Numbered
<1>2. g \notin S
  <2>1. SUFFICES ASSUME g \in S PROVE FALSE
    OBVIOUS
  <2>2. Cardinality(S) + 1 \in 1..Cardinality(S)
    BY <1>1, <2>1 DEF Attempts
  <2> QED
    BY <1>1, <2>2
<1>3. IsFiniteSet(S \cup {g}) /\ Cardinality(S \cup {g}) = Cardinality(S) + 1
  BY <1>1, <1>2, FS_AddElement
<1>4. Attempts(S \cup {g}) = Attempts(S) \cup {Cardinality(S) + 1}
  BY DEF Attempts
<1>5. 1..(Cardinality(S) + 1) = (1..Cardinality(S)) \cup {Cardinality(S) + 1}
  BY <1>1
<1> QED
  BY <1>1, <1>2, <1>3, <1>4, <1>5 DEF Numbered

-----------------------------------------------------------------------------
(* Types *)

\* What the invariant says of the records of the open window.
LEMMA WindowFacts ==
  ASSUME IInv
  PROVE  /\ TypeOK /\ Numbered(Records) /\ Cardinality(Records) \in Nat
         /\ IsFiniteSet(Picked) /\ Cardinality(Picked) \in Nat /\ Cardinality(Picked) <= Target
         /\ Cardinality(Records) <= MaxCandidates
         /\ \A g \in Picked : Loadable(g)
         /\ pc \in InWindow => accepted = Picked /\ theta = checkpoint
         /\ Resumed = Records
<1>1. IsFiniteSet(Records) /\ IsFiniteSet(Picked)
  BY FS_Subset DEF IInv, Numbering, Records, Picked
<1>2. WindowKept
  BY DEF IInv
<1>3. /\ Attempts(Records) = 1..Cardinality(Records) /\ Cardinality(Records) <= MaxCandidates
      /\ Cardinality(Picked) <= Target
      /\ \A g \in Picked : Loadable(g)
      /\ pc \in InWindow => accepted = Picked /\ theta = checkpoint
  BY <1>2 DEF WindowKept, Records, Picked, Attempts, InWindow, InBatch
<1>4. Resumed = Records
  BY DEF IInv, Process, Resumed, Records
<1> QED
  BY <1>1, <1>2, <1>3, <1>4, FS_CardinalityType DEF WindowKept, Numbered

\* A batch that is started.
LEMMA CollectFacts ==
  ASSUME IInv, Collect
  PROVE  /\ NextWave \in Nat /\ NextWave * Wave \in Nat
         /\ batch' = [base |-> NextWave * Wave, size |-> batch'.size]
         /\ batch'.size \in 1..Wave /\ batch'.size \in Nat /\ attempt + batch'.size <= MaxCandidates + 1
         /\ index' = 0 /\ index = 0
         /\ prefetch' = NextWave + 1 /\ cursor' = prefetch' + 1
<1>0. TypeOK /\ pc = "collect" /\ pc \in InWindow
  BY WindowFacts DEF Collect, InWindow
<1>1. batch = NoBatch /\ index = 0
  BY <1>0 DEF IInv, Process, InBatch, TypeOK, NoBatch
<1>2. attempt \in Nat \ {0} /\ Cardinality(accepted) \in Nat
  <2>1. attempt + index = Cardinality(Records) + 1 /\ attempt \in Nat
    BY <1>0 DEF IInv, Numbering, TypeOK
  <2> QED
    BY <1>0, <1>1, <2>1, WindowFacts
<1>3. /\ BatchSize(attempt, Cardinality(accepted)) \in 1..Wave
      /\ attempt + BatchSize(attempt, Cardinality(accepted)) <= MaxCandidates + 1
  BY <1>2, BatchFits DEF Collect
<1>4. NextWave \in Nat /\ (prefetch = None \/ cursor = prefetch + 1) /\ cursor \in Nat
  BY <1>0 DEF NextWave, TypeOK, IInv, Environments, Running
<1>5. NextWave * Wave \in Nat
  BY <1>4, WaveType
<1>6. prefetch' = NextWave + 1 /\ cursor' = prefetch' + 1
  BY <1>0, <1>4 DEF Collect, RolloutOnce, NextWave, TypeOK, None
<1> HIDE DEF BatchSize
<1> QED
  BY <1>1, <1>3, <1>4, <1>5, <1>6, WaveType DEF Collect

LEMMA GroupType ==
  ASSUME TypeOK
  PROVE  Group \in Groups /\ Dir(Group) \in Dirs
BY CandidateAssumption DEF TypeOK, Group, Groups, Dir, Dirs

LEMMA TypeStep ==
  ASSUME IInv, [Next]_vars
  PROVE  TypeOK'
<1> USE CandidateAssumption DEF disk, window, group, env, history, None, Running, Stopped
<1>0. TypeOK /\ Process /\ Environments /\ Numbering
  BY DEF IInv, WindowKept
<1>1. CASE Launch
  <2>1. resume.slot \div Wave \in Nat
    BY <1>0, WholeWaves DEF Environments, TypeOK
  <2>2. /\ cursor' \in Nat /\ slot' \in Nat /\ run' \in Nat /\ prefetch' \in Nat \cup {None}
        /\ batch' \in [base : Nat, size : Nat] /\ index' \in 0..batch'.size
    BY <1>0, <1>1, <2>1 DEF Launch, TypeOK, NoBatch
  <2>3. pc' \in {"refused", "open"} /\ attempt' \in Nat /\ accepted' = {} /\ informative' \in BOOLEAN
        /\ unsynced' \in BOOLEAN /\ step' = checkpoint /\ theta' = checkpoint
    BY <1>1 DEF Launch
  <2>4. UNCHANGED <<disk, crashes, dull, replayed, used, drawn>>
    BY <1>1 DEF Launch
  <2> QED
    BY <1>0, <2>2, <2>3, <2>4 DEF TypeOK
<1>2. CASE Open
  <2>1. LastAttempt(Resumed) \in Nat
    BY WindowFacts, LastNumber
  <2> QED
    BY <1>0, <1>2, <2>1 DEF Open, TypeOK, Resumed
<1>3. CASE Finish \/ StopCollecting \/ Diverge \/ Insufficient
  BY <1>0, <1>3 DEF Finish, StopCollecting, Diverge, Insufficient, TypeOK
<1>4. CASE Collect
  <2>1. batch' \in [base : Nat, size : Nat] /\ index' \in 0..batch'.size
        /\ prefetch' \in Nat /\ cursor' \in Nat
    BY <1>4, CollectFacts
  <2> QED
    BY <1>0, <1>4, <2>1 DEF Collect, TypeOK
<1>5. ASSUME NEW o \in BOOLEAN, TakeGroup(o) PROVE TypeOK'
  BY <1>0, <1>5 DEF TakeGroup, TypeOK
<1>6. CASE Persist
  BY <1>0, <1>6, GroupType DEF Persist, TypeOK
<1>7. CASE AppendGroup
  <2>1. index' \in 0..batch.size
    BY <1>0, <1>7 DEF AppendGroup, TypeOK, Process
  <2> QED
    BY <1>0, <1>7, <2>1, GroupType DEF AppendGroup, AppendEvidence, TypeOK
<1>8. CASE WriteState
  <2>1. slot' \in Nat /\ attempt' \in Nat /\ step \in Nat
    BY <1>0, <1>8, WaveType DEF WriteState, TypeOK
  <2>2. resume' \in [theta : Nat \cup {None}, slot : Nat]
    BY <1>8, <2>1 DEF WriteState, WriteResume
  <2>3. batch' \in [base : Nat, size : Nat] /\ index' \in 0..batch'.size
    BY <1>8 DEF WriteState, NoBatch
  <2> QED
    BY <1>0, <1>8, <2>1, <2>2, <2>3 DEF WriteState, TypeOK
<1>9. CASE Train
  BY <1>0, <1>9 DEF Train, TypeOK
<1>10. CASE Save
  <2>1. step + 1 \in 0..TotalSteps
    BY <1>0, <1>10 DEF Save, TypeOK, Process, InWindow
  <2>2. {g.case : g \in accepted} \subseteq Nat
    BY <1>0 DEF TypeOK, Groups
  <2> QED
    BY <1>0, <1>10, <2>1, <2>2 DEF Save, TypeOK
<1>11. CASE Close \/ Clean
  BY <1>0, <1>11 DEF Close, Clean, TypeOK
<1>12. CASE Mark
  BY <1>0, <1>12 DEF Mark, WriteResume, TypeOK
<1>13. CASE Eval
  BY <1>0, <1>13, WaveType DEF Eval, ClusterEval, TypeOK
<1>14. CASE Crash
  BY <1>0, <1>14 DEF Crash, TypeOK
<1>15. CASE UNCHANGED vars
  BY <1>0, <1>15 DEF vars, TypeOK
<1>16. CASE Terminated
  BY <1>15, <1>16 DEF Terminated
<1> QED
  BY <1>1, <1>2, <1>3, <1>4, <1>5, <1>6, <1>7, <1>8, <1>9, <1>10, <1>11, <1>12, <1>13, <1>14,
     <1>15, <1>16 DEF Next, Progress

-----------------------------------------------------------------------------
(* The open window *)

\* What WindowKept says beside the types, and Numbering.
WindowRecords ==
  /\ Numbered(Records) /\ Cardinality(Records) <= MaxCandidates
  /\ Cardinality(Picked) <= Target
  /\ \A g \in Picked : Loadable(g)
  /\ pc \in InWindow => accepted = Picked /\ theta = checkpoint
  /\ Numbering

\* Steps that write no record and go on in the window they are in.
LEMMA WindowFrame ==
  ASSUME IInv,
         UNCHANGED <<evidence, checkpoint>>, spool \subseteq spool',
         pc' \in InWindow => /\ pc \in InWindow /\ UNCHANGED <<theta, accepted>>
                             /\ attempt' + index' = attempt + index,
         pc' = "clean" => pc = "clean" /\ theta' = theta
  PROVE  WindowRecords'
<1>1. Records' = Records /\ Picked' = Picked
  BY DEF Records, Picked
<1>2. Numbered(Records)'
  BY <1>1, WindowFacts DEF Numbered, Attempts
<1>3. \A g \in Picked : Loadable(g)'
  BY WindowFacts DEF Loadable
<1>4. Numbering'
  BY <1>1 DEF IInv, Numbering
<1> QED
  BY <1>1, <1>2, <1>3, <1>4, WindowFacts DEF WindowRecords

LEMMA OpenWindow ==
  ASSUME IInv, Open
  PROVE  WindowRecords'
<1>0. /\ TypeOK /\ Numbering /\ step = checkpoint /\ index = 0 /\ index' = 0
  BY WindowFacts DEF IInv, Process, InBatch, Open, group, TypeOK, NoBatch
<1>1. Records' = Records /\ Picked' = Picked /\ evidence' = evidence /\ checkpoint' = checkpoint
  BY DEF Records, Picked, Open, disk
<1>2. accepted' = Picked /\ theta' = checkpoint /\ attempt' = Cardinality(Records) + 1
  BY <1>0, WindowFacts, LastNumber DEF Open, Picked
<1>3. Numbered(Records)' /\ \A g \in Picked : Loadable(g)'
  BY <1>1, WindowFacts DEF Numbered, Attempts, Loadable, Open, disk
<1>4. pc' # "clean"
  BY DEF Open
<1>5. attempt' + index' = Cardinality(Records) + 1
  BY <1>0, <1>2, WindowFacts
<1>6. Numbering'
  BY <1>0, <1>1, <1>4, <1>5 DEF Numbering
<1> QED
  BY <1>1, <1>2, <1>3, <1>6, WindowFacts DEF WindowRecords

\* The record of the next group has the next number, and its directory is there.
LEMMA AppendWindow ==
  ASSUME IInv, AppendGroup
  PROVE  /\ WindowRecords'
         /\ Records' = Records \cup {Group} /\ Group \notin Records
<1>0. /\ TypeOK /\ Numbering /\ Process /\ Directories /\ pc = "append" /\ pc \in InWindow
      /\ accepted = Picked /\ theta = checkpoint
  BY WindowFacts DEF IInv, AppendGroup, InWindow, InBatch
<1>1. /\ Group.attempt = Cardinality(Records) + 1 /\ Group.theta = checkpoint
      /\ Group.selected = informative
  BY <1>0 DEF Numbering, Group
<1>2. evidence' = evidence \cup {Group} /\ UNCHANGED <<checkpoint, spool, theta, attempt>>
  BY DEF AppendGroup, AppendEvidence
<1>3. Records' = Records \cup {Group}
  BY <1>1, <1>2 DEF Records
<1>4. /\ Numbered(Records \cup {Group}) /\ Group \notin Records
      /\ Cardinality(Records \cup {Group}) = Cardinality(Records) + 1
  BY <1>1, WindowFacts, NextNumber
<1>5. Picked' = IF informative THEN Picked \cup {Group} ELSE Picked
  BY <1>1, <1>3 DEF Picked
<1>6. accepted' = Picked'
  BY <1>0, <1>5 DEF AppendGroup
<1>7. Cardinality(Picked') <= Target
  <2>1. CASE informative
    <3>1. Cardinality(Picked) < Target
      BY <1>0, <2>1 DEF Process
    <3>2. Group \notin Picked
      BY <1>4 DEF Picked
    <3>3. Cardinality(Picked \cup {Group}) = Cardinality(Picked) + 1
      BY <3>2, WindowFacts, FS_AddElement
    <3> QED
      BY <1>5, <2>1, <3>1, <3>3, WindowFacts, CandidateAssumption
  <2>2. CASE ~informative
    BY <1>5, <2>2, WindowFacts
  <2> QED
    BY <2>1, <2>2
<1>8. \A g \in Picked' : Loadable(g)'
  <2>1. informative => Dir(Group) \in spool
    BY <1>0 DEF Directories
  <2>2. \A g \in Picked : Dir(g) \in spool
    BY WindowFacts DEF Loadable
  <2>3. \A g \in Picked' : Dir(g) \in spool
    <3> HIDE DEF Dir, Group, Picked
    <3> QED
      BY <1>5, <2>1, <2>2
  <2> QED
    BY <1>2, <2>3 DEF Loadable
<1>9. Cardinality(Records') <= MaxCandidates
  <2>1. /\ attempt + index = Cardinality(Records) + 1 /\ index + 1 <= batch.size
        /\ attempt + batch.size <= MaxCandidates + 1
    BY <1>0 DEF Numbering, Process, InBatch, TypeOK
  <2>2. attempt \in Nat /\ index \in Nat /\ batch.size \in Nat
    BY <1>0 DEF TypeOK
  <2> QED
    BY <1>3, <1>4, <2>1, <2>2, WindowFacts, CandidateAssumption
<1>10. Numbering'
  <2>1. IsFiniteSet(evidence') /\ \A g \in evidence' : g.theta <= checkpoint'
    <3>1. checkpoint <= checkpoint
      BY <1>0 DEF TypeOK
    <3>2. IsFiniteSet(evidence')
      BY <1>0, <1>2, FS_AddElement DEF Numbering
    <3> QED
      BY <1>0, <1>1, <1>2, <3>1, <3>2 DEF Numbering
  <2>2. attempt' + index' = Cardinality(Records') + 1
    <3>1. index' = index + 1 /\ attempt \in Nat /\ index \in Nat
      BY <1>0 DEF AppendGroup, TypeOK
    <3>2. attempt + index = Cardinality(Records) + 1
      BY <1>0 DEF Numbering
    <3> QED
      BY <1>2, <1>3, <1>4, <3>1, <3>2, WindowFacts
  <2>3. pc' = "group"
    BY DEF AppendGroup
  <2> QED
    BY <2>1, <2>2, <2>3 DEF Numbering
<1>11. Numbered(Records)'
  BY <1>3, <1>4 DEF Numbered, Attempts
<1> QED
  BY <1>0, <1>2, <1>3, <1>4, <1>6, <1>7, <1>8, <1>9, <1>10, <1>11 DEF WindowRecords

\* A new policy, or a closed window: there are no records, or they are as they were.
LEMMA CloseWindow ==
  ASSUME IInv, Save \/ Close \/ Clean
  PROVE  WindowRecords'
<1>0. TypeOK /\ Numbering /\ Process /\ pc' \in {"close", "clean", "mark"} /\ IsFiniteSet(evidence)
  BY WindowFacts DEF IInv, Save, Close, Clean, Numbering
<1>1. ASSUME Records' = {} PROVE Numbered(Records)' /\ Picked' = {} /\ Cardinality({}) = 0
  <2>1. Attempts({}) = 1..0
    BY DEF Attempts
  <2> QED
    BY <1>1, <2>1, FS_EmptySet DEF Numbered, Attempts, Picked
<1>2. Target >= 0 /\ MaxCandidates >= 0
  BY CandidateAssumption
<1>3. CASE Save
  <2>1. evidence' = evidence /\ checkpoint' = checkpoint + 1 /\ pc' = "close"
    BY <1>0, <1>3 DEF Save, Process
  <2>2. \A g \in evidence : g.theta <= checkpoint /\ g.theta \in Nat /\ checkpoint \in Nat
    BY <1>0 DEF Numbering, TypeOK, Groups
  <2>3. Records' = {}
    BY <2>1, <2>2 DEF Records
  <2>4. Numbering'
    BY <1>0, <2>1, <2>2 DEF Numbering, InWindow, InBatch
  <2> QED
    BY <1>1, <1>2, <2>1, <2>3, <2>4 DEF WindowRecords, InWindow, InBatch
<1>4. CASE Close
  <2>1. /\ evidence' = {g \in evidence : g.theta # theta} /\ UNCHANGED <<checkpoint, spool, theta>>
        /\ pc' = "clean"
    BY <1>4 DEF Close
  <2>2. IsFiniteSet(evidence')
    BY <1>0, <2>1, FS_Subset
  <2>3. Numbering'
    BY <1>0, <2>1, <2>2 DEF Numbering, InWindow, InBatch
  <2>4. Records' = {} \/ Records' = Records
    BY <2>1 DEF Records
  <2>5. CASE Records' = Records
    <3>1. Picked' = Picked /\ Numbered(Records)' /\ \A g \in Picked : Loadable(g)'
      BY <2>1, <2>5, WindowFacts DEF Picked, Numbered, Attempts, Loadable
    <3> QED
      BY <2>1, <2>3, <2>5, <3>1, WindowFacts DEF WindowRecords, InWindow, InBatch
  <2> QED
    BY <1>1, <1>2, <2>1, <2>3, <2>4, <2>5 DEF WindowRecords, InWindow, InBatch
<1>5. CASE Clean
  <2>1. /\ evidence' = evidence /\ checkpoint' = checkpoint /\ pc' = "mark"
        /\ spool' = {d \in spool : d.theta # theta}
        /\ Records' = Records /\ Picked' = Picked
    BY <1>5 DEF Clean, Records, Picked
  <2>2. \A g \in evidence : g.theta # theta
    BY <1>0, <1>5 DEF Numbering, Clean
  <2>3. \A g \in Picked : Loadable(g)'
    BY <2>1, <2>2, WindowFacts DEF Picked, Records, Loadable, Dir
  <2>4. Numbering' /\ Numbered(Records)'
    BY <1>0, <2>1, WindowFacts DEF Numbering, InWindow, InBatch, Numbered, Attempts
  <2> QED
    BY <2>1, <2>3, <2>4, WindowFacts DEF WindowRecords, InWindow, InBatch
<1> QED
  BY <1>3, <1>4, <1>5

LEMMA WindowStep ==
  ASSUME IInv, [Next]_vars, TypeOK'
  PROVE  WindowKept' /\ Numbering'
<1> USE DEF disk, window, group, env, history
<1>1. WindowRecords'
  <2>0. TypeOK /\ Process
    BY WindowFacts DEF IInv
  <2>1. CASE Launch \/ Finish \/ StopCollecting \/ Diverge \/ Insufficient \/ Train \/ Mark \/ Eval
             \/ Crash \/ Terminated \/ UNCHANGED vars
    <3>1. /\ UNCHANGED <<evidence, checkpoint, spool>>
          /\ pc' \in InWindow => pc \in InWindow /\ UNCHANGED <<theta, accepted, attempt, index>>
          /\ pc' = "clean" => pc = "clean" /\ theta' = theta
      BY <2>1 DEF Launch, Finish, StopCollecting, Diverge, Insufficient, Train, Mark, Eval, Crash,
         Terminated, vars, InWindow, InBatch
    <3> QED
      BY <3>1, WindowFrame
  <2>2. CASE Collect
    BY <2>2, WindowFrame, CollectFacts DEF Collect, InWindow
  <2>3. CASE Persist \/ \E o \in BOOLEAN : TakeGroup(o)
    BY <2>3, WindowFrame DEF Persist, TakeGroup, InWindow, InBatch
  <2>4. CASE WriteState
    <3>1. attempt' + index' = attempt + index
      BY <2>0, <2>4 DEF WriteState, TypeOK
    <3>2. UNCHANGED <<evidence, checkpoint, spool, theta, accepted>> /\ pc \in InWindow /\ pc' # "clean"
      BY <2>4 DEF WriteState, InWindow, InBatch
    <3> QED
      BY <3>1, <3>2, WindowFrame
  <2> QED
    BY <2>1, <2>2, <2>3, <2>4, OpenWindow, AppendWindow, CloseWindow DEF Next, Progress
<1>2. WindowKept'
  BY <1>1 DEF WindowRecords, Numbered, Attempts, WindowKept, Records, Picked, InWindow, InBatch
<1> QED
  BY <1>1, <1>2 DEF WindowRecords

-----------------------------------------------------------------------------
(* The process *)

LEMMA ProcessStep ==
  ASSUME IInv, [Next]_vars, TypeOK'
  PROVE  Process'
<1> USE DEF disk, window, group, env, history, InWindow, InBatch, Closing
<1>0. TypeOK /\ Process /\ step \in Nat
  BY WindowFacts DEF IInv, TypeOK
<1>1. CASE Launch
  BY <1>0, <1>1 DEF Launch, Process
<1>2. CASE Open
  BY <1>0, <1>2, CandidateAssumption DEF Open, Process, TypeOK
<1>3. CASE Collect
  BY <1>0, <1>3, CollectFacts DEF Collect, Process
<1>4. CASE Finish \/ StopCollecting \/ Diverge \/ Insufficient \/ Train
  BY <1>0, <1>4 DEF Finish, StopCollecting, Diverge, Insufficient, Train, Process, TypeOK
<1>5. ASSUME NEW o \in BOOLEAN, TakeGroup(o) PROVE Process'
  BY <1>0, <1>5 DEF TakeGroup, Process
<1>6. CASE Persist
  BY <1>0, <1>6 DEF Persist, Process
<1>7. CASE AppendGroup
  BY <1>0, <1>7 DEF AppendGroup, Process
<1>8. CASE WriteState
  BY <1>0, <1>8 DEF WriteState, Process
<1>9. CASE Save
  BY <1>0, <1>9 DEF Save, Process
<1>10. CASE Close \/ Clean \/ Mark \/ Eval
  BY <1>0, <1>10 DEF Close, Clean, Mark, Eval, Process
<1>11. CASE Crash
  BY <1>0, <1>11 DEF Crash, Process
<1>12. CASE Terminated \/ UNCHANGED vars
  BY <1>0, <1>12 DEF Terminated, vars, Process
<1> QED
  BY <1>1, <1>2, <1>3, <1>4, <1>5, <1>6, <1>7, <1>8, <1>9, <1>10, <1>11, <1>12
     DEF Next, Progress

-----------------------------------------------------------------------------
(* The spool *)

LEMMA PlaceInBatch ==
  ASSUME NEW a \in Nat, NEW n \in Nat, NEW i \in 0..n
  PROVE  a + i \in Nat
OBVIOUS

LEMMA DirectoriesStep ==
  ASSUME IInv, [Next]_vars, TypeOK'
  PROVE  Directories' /\ (pc' = "persist" => Dir(Group)' \notin spool')
<1> USE DEF disk, window, group, env, history, InWindow, InBatch, Closing
<1>0. /\ TypeOK /\ Process /\ Directories /\ step \in Nat /\ run \in Nat /\ theta \in Nat
      /\ attempt \in Nat /\ index \in Nat
      /\ \A d \in spool : d.theta \in Nat /\ d.run \in Nat /\ d.attempt \in Nat
      /\ pc \in InWindow => theta = checkpoint
  BY WindowFacts DEF IInv, TypeOK, Dirs
<1>1. Directories'
  <2>1. CASE Launch
    BY <1>0, <2>1 DEF Launch, Directories, Process
  <2>2. CASE Open
    BY <1>0, <2>2 DEF Open, Directories
  <2>3. CASE Collect
    BY <1>0, <2>3, CollectFacts DEF Collect, Directories
  <2>4. CASE Finish \/ StopCollecting \/ Diverge \/ Train
    BY <1>0, <2>4 DEF Finish, StopCollecting, Diverge, Train, Directories
  <2>5. ASSUME NEW o \in BOOLEAN, TakeGroup(o) PROVE Directories'
    BY <1>0, <2>5 DEF TakeGroup, Directories
  <2>6. CASE Persist
    <3>1. /\ Dir(Group).theta = theta /\ Dir(Group).run = run
          /\ Dir(Group).attempt = attempt + index /\ Dir(Group)' = Dir(Group)
      BY <2>6 DEF Dir, Group, Persist
    <3>2. spool' = spool \cup {Dir(Group)} /\ theta = checkpoint /\ theta = step
      BY <1>0, <2>6 DEF Persist, Process
    <3> HIDE DEF Dir, Group
    <3> QED
      BY <1>0, <2>6, <3>1, <3>2 DEF Persist, Directories
  <2>7. CASE AppendGroup
    BY <1>0, <2>7 DEF AppendGroup, Directories
  <2>8. CASE WriteState
    <3>1. attempt' + index' = attempt + index
      BY <1>0, <2>8 DEF WriteState, TypeOK
    <3> QED
      BY <1>0, <2>8, <3>1 DEF WriteState, Directories
  <2>9. CASE Insufficient
    BY <1>0, <2>9 DEF Insufficient, Directories
  <2>10. CASE Save
    BY <1>0, <2>10 DEF Save, Directories, Process
  <2>11. CASE Close
    BY <1>0, <2>11 DEF Close, Directories
  <2>12. CASE Clean
    <3>1. theta <= step
      BY <1>0, <2>12 DEF Clean, Process
    <3>2. \A d \in spool' : d \in spool /\ d.theta <= theta /\ d.theta # theta
      BY <1>0, <2>12 DEF Clean, Directories
    <3>3. \A d \in spool' : d.theta # step
      BY <1>0, <3>1, <3>2
    <3> QED
      BY <1>0, <2>12, <3>2, <3>3 DEF Clean, Directories
  <2>13. CASE Mark \/ Eval
    BY <1>0, <2>13 DEF Mark, Eval, Directories
  <2>14. CASE Crash
    BY <1>0, <2>14 DEF Crash, Directories
  <2>15. CASE Terminated \/ UNCHANGED vars
    BY <1>0, <2>15 DEF Terminated, vars, Directories, Dir, Group
  <2> QED
    BY <2>1, <2>2, <2>3, <2>4, <2>5, <2>6, <2>7, <2>8, <2>9, <2>10, <2>11, <2>12, <2>13,
       <2>14, <2>15 DEF Next, Progress
<1>2. ASSUME pc' = "persist" PROVE Dir(Group)' \notin spool'
  <2>0. step' = theta'
    BY <1>2, ProcessStep DEF Process
  <2>a. attempt' \in Nat /\ batch'.size \in Nat
    BY DEF TypeOK
  <2>b. index' \in 0..batch'.size
    BY DEF TypeOK
  <2>1. attempt' + index' \in Nat
    BY <2>a, <2>b, PlaceInBatch
  <2>2. /\ Dir(Group)'.theta = theta' /\ Dir(Group)'.run = run'
        /\ Dir(Group)'.attempt = attempt' + index'
    BY DEF Dir, Group
  <2> HIDE DEF Dir, Group
  <2> QED
    BY <1>1, <1>2, <2>0, <2>1, <2>2 DEF Directories
<1> QED
  BY <1>1, <1>2

-----------------------------------------------------------------------------
(* The environments and the schedule *)

LEMMA WholeStep ==
  ASSUME IInv, [Next]_vars
  PROVE  Whole(slot') /\ Whole(resume'.slot)
<1> USE DEF disk, window, group, env, history
<1>0. TypeOK /\ Whole(slot) /\ Whole(resume.slot) /\ slot \in Nat /\ resume.slot \in Nat
  BY WindowFacts DEF IInv, Environments, TypeOK
<1>1. Whole(slot + Wave)
  BY <1>0, WholeWaves
<1>2. slot' \in {slot, slot + Wave, resume.slot} /\ resume'.slot \in {resume.slot, slot, slot + Wave}
  BY DEF Next, Progress, Launch, Open, Finish, Collect, StopCollecting, Diverge, TakeGroup, Persist,
     AppendGroup, WriteState, Insufficient, Train, Save, Close, Clean, Mark, Eval, Crash, Terminated,
     vars, WriteResume
<1> QED
  BY <1>0, <1>1, <1>2

LEMMA EnvironmentsStep ==
  ASSUME IInv, [Next]_vars, TypeOK'
  PROVE  Environments' /\ ScheduleInStep'
<1> USE DEF disk, window, group, env, history
<1>0. /\ TypeOK /\ Process /\ Environments /\ cursor \in Nat /\ slot \in Nat /\ index \in Nat
      /\ batch.base \in Nat /\ batch.size \in Nat
  BY WindowFacts DEF IInv, TypeOK
<1>1. pc \in Running => NextWave \in Nat /\ NextWave * Wave \in Nat
  <2>1. pc \in Running => NextWave \in Nat
    BY <1>0 DEF NextWave, TypeOK
  <2> QED
    BY <2>1, WaveType
<1> DEFINE at == NextWave * Wave
           Rest == /\ pc \in Running => prefetch = None \/ cursor = prefetch + 1
                   /\ pc \in Running \ InBatch => at <= slot /\ (~unsynced => at = slot)
                   /\ pc \in InBatch => /\ at = batch.base + Wave
                                        /\ batch.base <= slot /\ (~unsynced => batch.base = slot)
                   /\ pc \in {"persist", "append"} \/ (pc = "group" /\ index > 0) => ~Diverged
<1>2. Rest
  BY <1>0 DEF Environments
<1>3. Rest'
  <2>1. CASE Launch
    <3>1. (resume.slot \div Wave) * Wave = resume.slot
      BY <1>0, WholeWaves DEF Environments, TypeOK
    <3>2. /\ pc' \in {"refused", "open"} /\ slot' = resume.slot /\ prefetch' = None
          /\ NextWave' = resume.slot \div Wave
      BY <2>1 DEF Launch, NextWave
    <3>3. at' = slot' /\ at' <= slot'
      BY <3>1, <3>2 DEF TypeOK
    <3> QED
      BY <3>2, <3>3 DEF InBatch, Running
  <2>2. CASE Open \/ Finish \/ StopCollecting \/ Insufficient \/ Train \/ Save \/ Close \/ Clean
             \/ Mark
    <3>1. /\ UNCHANGED <<slot, prefetch, cursor, unsynced>> /\ pc \in Running \ InBatch
          /\ pc' \notin InBatch
      BY <2>2 DEF Open, Finish, StopCollecting, Insufficient, Train, Save, Close, Clean, Mark,
         InBatch, Running
    <3>2. NextWave' = NextWave
      BY <3>1 DEF NextWave
    <3> HIDE DEF Diverged
    <3> QED
      BY <1>2, <3>1, <3>2 DEF InBatch
  <2>3. CASE Diverge \/ Crash
    BY <2>3 DEF Diverge, Crash, Running, InBatch
  <2>4. CASE Collect
    <3>1. /\ pc = "collect" /\ pc' = "group" /\ UNCHANGED <<slot, unsynced>>
          /\ index' = 0 /\ batch'.base = at /\ cursor' = prefetch' + 1 /\ prefetch' = NextWave + 1
      BY <2>4, CollectFacts DEF Collect
    <3>2. NextWave' = NextWave + 1 /\ NextWave \in Nat /\ at \in Nat
      BY <1>1, <3>1 DEF NextWave, Running, None
    <3>3. at' = at + Wave
      <4>1. (NextWave + 1) * Wave = NextWave * Wave + Wave
        BY <3>2, WaveType
      <4> QED
        BY <3>2, <4>1
    <3>4. at <= slot /\ (~unsynced => at = slot)
      BY <1>2, <3>1 DEF Running, InBatch
    <3> HIDE DEF at
    <3> QED
      BY <3>1, <3>3, <3>4 DEF InBatch, Running
  <2>5. CASE Persist \/ \E o \in BOOLEAN : TakeGroup(o)
    <3>1. /\ UNCHANGED <<slot, prefetch, cursor, unsynced, batch, index>> /\ ~Diverged
          /\ pc \in Running /\ pc \in InBatch /\ pc' \in InBatch
      BY <1>2, <2>5 DEF Persist, TakeGroup, InBatch, Running
    <3>2. NextWave' = NextWave /\ Diverged' = Diverged
      BY <3>1 DEF NextWave, Diverged
    <3> QED
      BY <1>2, <3>1, <3>2
  <2>6. CASE AppendGroup
    <3>1. /\ UNCHANGED <<slot, prefetch, cursor, unsynced, batch>> /\ ~Diverged
          /\ pc = "append" /\ pc' = "group" /\ index' = index + 1
      BY <1>2, <2>6 DEF AppendGroup
    <3>2. ~Diverged'
      <4>1. ((batch.base + index) + 1) % Layouts = ((slot + index) + 1) % Layouts
        <5>1. (batch.base + index) % Layouts = (slot + index) % Layouts
          BY <3>1 DEF Diverged
        <5>2. batch.base + index \in Nat /\ slot + index \in Nat /\ Layouts \in Nat \ {0}
          BY <1>0, CandidateAssumption
        <5> QED
          BY <5>1, <5>2, NextRemainder
      <4>2. batch.base + index' = (batch.base + index) + 1 /\ slot + index' = (slot + index) + 1
        BY <1>0, <3>1
      <4> QED
        BY <3>1, <4>1, <4>2 DEF Diverged
    <3>3. NextWave' = NextWave
      BY <3>1 DEF NextWave
    <3> QED
      BY <1>2, <3>1, <3>2, <3>3 DEF InBatch, Running
  <2>7. CASE WriteState
    <3>1. /\ UNCHANGED <<prefetch, cursor, unsynced>> /\ slot' = slot + Wave
          /\ pc = "group" /\ pc' \in {"decide", "collect"}
      BY <2>7 DEF WriteState
    <3>2. NextWave' = NextWave
      BY <3>1 DEF NextWave
    <3>3. at = batch.base + Wave /\ batch.base <= slot /\ (~unsynced => batch.base = slot)
      BY <1>2, <3>1 DEF InBatch
    <3>4. at' <= slot' /\ (~unsynced => at' = slot')
      BY <1>0, <3>1, <3>2, <3>3, WaveType
    <3> QED
      BY <1>2, <3>1, <3>4 DEF InBatch, Running
  <2>8. CASE Eval
    <3>1. /\ slot' = slot + Wave /\ prefetch' = cursor /\ cursor' = cursor + 1
          /\ unsynced' = (unsynced \/ prefetch = None) /\ pc = "eval" /\ pc' = "open"
      BY <2>8 DEF Eval, ClusterEval
    <3>2. NextWave' = cursor /\ (~unsynced' => ~unsynced /\ prefetch # None)
      <4>1. NextWave' = cursor
        BY <1>0, <3>1 DEF NextWave, None
      <4>2. ~unsynced' => ~unsynced /\ prefetch # None
        BY <3>1, Zenon
      <4> QED
        BY <4>1, <4>2
    <3>3. /\ prefetch = None \/ cursor = prefetch + 1
          /\ at <= slot /\ (~unsynced => at = slot)
      BY <1>2, <3>1 DEF InBatch, Running
    <3>4. CASE prefetch = None
      <4>1. at' = at
        BY <3>2, <3>4 DEF NextWave
      <4> HIDE DEF at
      <4> QED
        <5>1. at \in Nat
          BY <1>1, <3>1 DEF Running, at
        <5> QED
          BY <1>0, <3>1, <3>2, <3>3, <3>4, <4>1, <5>1, WaveType DEF InBatch, Running
    <3>5. CASE prefetch # None
      <4>1. NextWave = prefetch /\ cursor = NextWave + 1 /\ NextWave \in Nat /\ at \in Nat
        BY <1>1, <3>1, <3>3, <3>5 DEF NextWave, Running
      <4>2. at' = at + Wave
        <5>1. (NextWave + 1) * Wave = NextWave * Wave + Wave
          BY <4>1, WaveType
        <5> QED
          BY <3>2, <4>1, <5>1
      <4> HIDE DEF at
      <4> QED
        BY <1>0, <3>1, <3>2, <3>3, <3>5, <4>1, <4>2, WaveType DEF InBatch, Running
    <3> QED
      BY <3>4, <3>5
  <2>9. CASE Terminated \/ UNCHANGED vars
    <3>1. UNCHANGED <<slot, prefetch, cursor, unsynced, batch, index, pc>>
      BY <2>9 DEF Terminated, vars
    <3> QED
      BY <1>2, <3>1 DEF NextWave, Diverged
  <2> HIDE DEF Rest
  <2> QED
    BY <2>1, <2>2, <2>3, <2>4, <2>5, <2>6, <2>7, <2>8, <2>9 DEF Next, Progress
<1>4. Environments'
  BY <1>3, WholeStep DEF Environments
<1>5. ScheduleInStep'
  BY <1>4, ProcessStep DEF ScheduleInStep, Environments, Process
<1> QED
  BY <1>4, <1>5

-----------------------------------------------------------------------------
(* The cases *)

\* A preemption in the middle of a batch is remembered.
LEMMA ReplayedKept ==
  ASSUME IInv, [Next]_vars
  PROVE  /\ replayed => replayed'
         /\ Crash /\ ~replayed' => pc \notin InBatch \/ index = 0
<1> USE DEF disk, window, group, env, history
<1>1. ASSUME Crash PROVE /\ replayed => replayed'
                         /\ ~replayed' => pc \notin InBatch \/ index = 0
  <2>1. replayed' = (replayed \/ (batch # NoBatch /\ index > 0))
    BY <1>1 DEF Crash
  <2>2. /\ replayed => replayed'
        /\ ~replayed' => ~(batch # NoBatch /\ index > 0)
    BY <2>1, Zenon
  <2>3. pc \in InBatch => batch # NoBatch
    BY WaveType DEF IInv, Process, NoBatch
  <2>4. ~(index > 0) => index = 0
    BY WindowFacts DEF TypeOK
  <2> QED
    BY <2>2, <2>3, <2>4
<1>2. CASE ~Crash
  <2>1. replayed' = replayed
    BY <1>2 DEF Next, Progress, Launch, Open, Finish, Collect, StopCollecting, Diverge, TakeGroup,
       Persist, AppendGroup, WriteState, Insufficient, Train, Save, Close, Clean, Mark, Eval,
       Terminated, vars
  <2> QED
    BY <1>2, <2>1
<1> QED
  BY <1>1, <1>2

\* Only AppendGroup puts a case on record; what Save puts into use has been on record.
LEMMA SeenStep ==
  ASSUME IInv, [Next]_vars, ~AppendGroup
  PROVE  /\ Records' \subseteq Records /\ Seen' \subseteq Seen
         /\ used' = used \/ Records' = {}
<1> USE DEF disk, window, group, env, history
<1>0. TypeOK /\ Process /\ Numbering
  BY WindowFacts DEF IInv
<1>1. CASE Save
  <2>1. \A g \in evidence : g.theta <= checkpoint /\ g.theta \in Nat
    BY <1>0 DEF Numbering, TypeOK, Groups
  <2>2. evidence' = evidence /\ checkpoint' = checkpoint + 1 /\ checkpoint \in Nat
    BY <1>0, <1>1 DEF Save, Process, TypeOK
  <2>3. Records' = {}
    BY <2>1, <2>2 DEF Records
  <2>4. accepted \subseteq Records
    BY <1>1, WindowFacts DEF Save, InWindow, Picked
  <2>5. used' = used \cup {g.case : g \in accepted}
    BY <1>1 DEF Save
  <2> QED
    BY <2>3, <2>4, <2>5 DEF Seen
<1>2. CASE Close
  <2>1. evidence' \subseteq evidence /\ checkpoint' = checkpoint /\ used' = used
    BY <1>2 DEF Close
  <2> QED
    BY <2>1 DEF Records, Seen
<1>3. CASE ~Save /\ ~Close
  <2>1. evidence' = evidence /\ checkpoint' = checkpoint /\ used' = used
    BY <1>3 DEF Next, Progress, Launch, Open, Finish, Collect, StopCollecting, Diverge, TakeGroup,
       Persist, WriteState, Insufficient, Train, Clean, Mark, Eval, Crash, Terminated, vars
  <2> QED
    BY <2>1 DEF Records, Seen
<1> QED
  BY <1>1, <1>2, <1>3

LEMMA FrontierStep ==
  ASSUME IInv, [Next]_vars, TypeOK'
  PROVE  Frontier' /\ CasesOnce'
<1> USE DEF disk, window, group, env, history
<1>1. SUFFICES ASSUME ~replayed' PROVE Frontier' /\ CasesOnce'
  BY DEF Frontier, CasesOnce
<1> DEFINE at == NextWave * Wave
           Bounds == /\ pc \in Running \ InBatch => \A c \in Seen : c < at
                     /\ pc \in InBatch => \A c \in Seen : c < batch.base + index
                     /\ pc \notin InBatch \/ index = 0 => \A c \in Seen : c < resume.slot
<1>2. /\ TypeOK /\ Process /\ Environments /\ Bounds /\ ~replayed
      /\ slot \in Nat /\ resume.slot \in Nat /\ index \in Nat /\ batch.base \in Nat
      /\ batch.size \in Nat /\ cursor \in Nat
  BY <1>1, ReplayedKept, WindowFacts DEF IInv, TypeOK, Frontier
<1>3. Seen \subseteq Nat
  BY <1>2 DEF TypeOK, Seen, Records, Groups
<1>4. pc \in Running => at \in Nat
  <2>1. pc \in Running => NextWave \in Nat
    BY <1>2 DEF NextWave, TypeOK, Environments
  <2> QED
    BY <2>1, WaveType
<1>5. Bounds'
  <2>0. ~AppendGroup => Seen' \subseteq Seen
    BY SeenStep
  <2>1. CASE Launch
    <3>1. (resume.slot \div Wave) * Wave = resume.slot
      BY <1>2, WholeWaves DEF Environments
    <3>2. /\ pc = "down" /\ pc' \in {"refused", "open"} /\ resume' = resume
          /\ NextWave' = resume.slot \div Wave /\ ~AppendGroup
      BY <2>1 DEF Launch, NextWave, AppendGroup
    <3>3. at' = resume.slot
      BY <3>1, <3>2
    <3>4. \A c \in Seen' : c < resume.slot
      BY <1>2, <2>0, <3>2 DEF InBatch
    <3> HIDE DEF at
    <3> QED
      BY <3>2, <3>3, <3>4 DEF InBatch
  <2>2. CASE Open \/ Finish \/ StopCollecting \/ Insufficient \/ Train \/ Save \/ Close \/ Clean
    <3>1. /\ UNCHANGED <<prefetch, cursor, resume>> /\ pc \in Running \ InBatch
          /\ pc' \notin InBatch /\ ~AppendGroup
      BY <2>2 DEF Open, Finish, StopCollecting, Insufficient, Train, Save, Close, Clean,
         InBatch, Running, AppendGroup
    <3>2. at' = at
      BY <3>1 DEF NextWave
    <3> HIDE DEF at
    <3> QED
      BY <1>2, <2>0, <3>1, <3>2
  <2>3. CASE Mark
    <3>1. /\ UNCHANGED <<prefetch, cursor>> /\ pc = "mark" /\ pc' \in {"open", "eval"}
          /\ resume'.slot = slot /\ ~AppendGroup
      BY <2>3 DEF Mark, WriteResume, AppendGroup
    <3>2. at' = at /\ at <= slot /\ at \in Nat
      BY <1>2, <1>4, <3>1 DEF NextWave, Environments, Running, InBatch
    <3> HIDE DEF at
    <3>3. \A c \in Seen' : c \in Nat /\ c < at
      BY <1>2, <1>3, <2>0, <3>1 DEF Running, InBatch
    <3>4. \A c \in Seen' : c < slot
      BY <1>2, <3>2, <3>3
    <3> QED
      BY <3>1, <3>2, <3>3, <3>4 DEF InBatch
  <2>4. CASE Eval
    <3>1. /\ prefetch' = cursor /\ pc = "eval" /\ pc' = "open" /\ resume' = resume /\ ~AppendGroup
      BY <2>4 DEF Eval, ClusterEval, AppendGroup
    <3>2. NextWave' = cursor
      BY <1>2, <3>1 DEF NextWave, None
    <3>3. prefetch = None \/ cursor = prefetch + 1
      BY <1>2, <3>1 DEF Environments, Running
    <3>4. at' = at \/ at' = at + Wave
      <4>1. CASE prefetch = None
        BY <3>2, <4>1 DEF NextWave
      <4>2. CASE prefetch # None
        <5>1. NextWave = prefetch /\ NextWave \in Nat /\ cursor = NextWave + 1
          BY <1>2, <3>3, <4>2 DEF NextWave, TypeOK
        <5>2. (NextWave + 1) * Wave = NextWave * Wave + Wave
          BY <5>1, WaveType
        <5> QED
          BY <3>2, <5>1, <5>2
      <4> QED
        BY <4>1, <4>2
    <3>5. at \in Nat
      BY <1>4, <3>1 DEF Running
    <3> HIDE DEF at
    <3>6. \A c \in Seen' : c \in Nat /\ c < at /\ c < resume.slot
      BY <1>2, <1>3, <2>0, <3>1 DEF Running, InBatch
    <3>7. \A c \in Seen' : c < at'
      BY <3>4, <3>5, <3>6, WaveType
    <3> QED
      BY <3>1, <3>6, <3>7 DEF InBatch
  <2>5. CASE Collect
    <3>1. /\ pc = "collect" /\ pc' = "group" /\ resume' = resume /\ ~AppendGroup
          /\ index' = 0 /\ batch'.base = at
      BY <2>5, CollectFacts DEF Collect, AppendGroup
    <3>2. at \in Nat
      BY <1>4, <3>1 DEF Running
    <3> HIDE DEF at
    <3>3. \A c \in Seen' : c < at /\ c < resume.slot
      BY <1>2, <2>0, <3>1 DEF Running, InBatch
    <3> QED
      BY <3>1, <3>2, <3>3 DEF InBatch
  <2>6. CASE Diverge \/ Crash
    <3>1. pc' = "down" /\ resume' = resume /\ ~AppendGroup
      BY <2>6 DEF Diverge, Crash, AppendGroup
    <3>2. pc \notin InBatch \/ index = 0
      <4>1. CASE Diverge
        BY <1>2, <4>1 DEF Diverge, Environments
      <4>2. CASE Crash
        BY <1>1, <4>2, ReplayedKept
      <4> QED
        BY <2>6, <4>1, <4>2
    <3> QED
      BY <1>2, <2>0, <3>1, <3>2 DEF Running, InBatch
  <2>7. CASE Persist \/ \E o \in BOOLEAN : TakeGroup(o)
    <3>1. /\ UNCHANGED <<batch, index, resume>> /\ pc \in InBatch /\ pc' \in InBatch /\ ~AppendGroup
      BY <2>7 DEF Persist, TakeGroup, InBatch, AppendGroup
    <3> QED
      BY <1>2, <2>0, <3>1
  <2>8. CASE AppendGroup
    <3>1. pc = "append" /\ pc' = "group" /\ batch' = batch /\ index' = index + 1 /\ used' = used
      BY <2>8 DEF AppendGroup
    <3>2. Records' = Records \cup {Group} /\ Group.case = batch.base + index
      BY <2>8, AppendWindow DEF Group
    <3>3. Seen' = Seen \cup {batch.base + index}
      <4> HIDE DEF Group
      <4> QED
        BY <3>1, <3>2 DEF Seen
    <3>4. \A c \in Seen' : c < batch.base + index'
      BY <1>2, <1>3, <3>1, <3>3 DEF InBatch
    <3> QED
      BY <1>2, <3>1, <3>4 DEF InBatch
  <2>9. CASE WriteState
    <3>1. /\ UNCHANGED <<prefetch, cursor>> /\ slot' = slot + Wave /\ resume'.slot = slot'
          /\ pc = "group" /\ pc' \in {"decide", "collect"} /\ index = batch.size /\ ~AppendGroup
      BY <2>9 DEF WriteState, WriteResume, AppendGroup
    <3>2. at' = at /\ at = batch.base + Wave /\ batch.base <= slot /\ index <= Wave
      BY <1>2, <3>1, WaveType DEF NextWave, Environments, Process, InBatch
    <3> HIDE DEF at
    <3>3. \A c \in Seen' : c \in Nat /\ c < batch.base + index
      BY <1>2, <1>3, <2>0, <3>1 DEF InBatch
    <3>4. \A c \in Seen' : c < batch.base + Wave /\ c < slot + Wave
      BY <1>2, <3>2, <3>3, WaveType
    <3> QED
      BY <3>1, <3>2, <3>4 DEF InBatch
  <2>10. CASE Terminated \/ UNCHANGED vars
    <3>1. UNCHANGED <<prefetch, cursor, batch, index, pc, resume>>
      BY <2>10 DEF Terminated, vars
    <3>2. Seen' = Seen
      BY <2>10 DEF Terminated, vars, Seen, Records
    <3> QED
      BY <1>2, <3>1, <3>2 DEF NextWave
  <2> HIDE DEF Bounds
  <2> QED
    BY <2>1, <2>2, <2>3, <2>4, <2>5, <2>6, <2>7, <2>8, <2>9, <2>10 DEF Next, Progress
<1>6. Frontier'
  BY <1>5 DEF Frontier
<1>7. CasesOnce'
  <2>1. \A g \in Records : g.case \notin used /\ \A h \in Records : h.case = g.case => h = g
    BY <1>2 DEF IInv, CasesOnce, Records
  <2>2. \A g \in Records' : g.case \notin used' /\ \A h \in Records' : h.case = g.case => h = g
    <3>1. CASE AppendGroup
      <4>1. Records' = Records \cup {Group} /\ Group.case = batch.base + index /\ used' = used
        BY <3>1, AppendWindow DEF Group, AppendGroup
      <4>2. \A c \in Seen : c \in Nat /\ c < batch.base + index
        BY <1>2, <1>3, <3>1 DEF AppendGroup, InBatch
      <4>3. batch.base + index \notin Seen
        BY <1>2, <4>2
      <4> HIDE DEF Group
      <4> QED
        BY <2>1, <4>1, <4>3 DEF Seen
    <3>2. CASE ~AppendGroup
      BY <2>1, <3>2, SeenStep
    <3> QED
      BY <3>1, <3>2
  <2> QED
    BY <2>2 DEF CasesOnce, Records
<1> QED
  BY <1>6, <1>7

-----------------------------------------------------------------------------
(* The resume state *)

LEMMA ResumeStep ==
  ASSUME IInv, [Next]_vars, TypeOK'
  PROVE  ResumeState' /\ Resumable'
<1> USE DEF disk, window, group, env, history
<1>0. /\ TypeOK /\ Process /\ ResumeState /\ Resumable /\ Environments /\ step = checkpoint
      /\ checkpoint \in Nat /\ resume.theta \in Nat \cup {None} /\ index \in Nat
  BY WindowFacts DEF IInv, TypeOK, Process
<1>1. resume'.theta <= checkpoint'
  <2>1. checkpoint' = checkpoint \/ checkpoint' = checkpoint + 1
    BY <1>0 DEF Next, Progress, Launch, Open, Finish, Collect, StopCollecting, Diverge, TakeGroup,
       Persist, AppendGroup, WriteState, Insufficient, Train, Save, Close, Clean, Mark, Eval, Crash,
       Terminated, vars
  <2>2. resume'.theta = resume.theta \/ resume'.theta = checkpoint
    BY <1>0 DEF Next, Progress, Launch, Open, Finish, Collect, StopCollecting, Diverge, TakeGroup,
       Persist, AppendGroup, WriteState, Insufficient, Train, Save, Close, Clean, Mark, Eval, Crash,
       Terminated, vars, WriteResume
  <2> QED
    BY <1>0, <2>1, <2>2 DEF ResumeState, None
<1>2. ASSUME recorded', resume' = NoResume, ~replayed'
      PROVE  pc' \in InBatch /\ index' > 0
  <2>0. ~replayed /\ (recorded /\ resume = NoResume => pc \in InBatch /\ index > 0)
    BY <1>0, <1>2, ReplayedKept DEF ResumeState
  <2>1. CASE WriteState \/ Mark
    <3>1. resume'.theta = checkpoint
      BY <1>0, <2>1 DEF WriteState, Mark, WriteResume
    <3> QED
      BY <1>0, <1>2, <3>1 DEF NoResume, None
  <2>2. CASE AppendGroup
    BY <1>0, <2>2 DEF AppendGroup, InBatch
  <2>3. CASE Crash
    <3>1. recorded' = recorded /\ resume' = resume /\ (pc \notin InBatch \/ index = 0)
      BY <1>2, <2>3, ReplayedKept DEF Crash
    <3> QED
      BY <1>0, <1>2, <2>0, <3>1
  <2>4. CASE Diverge
    <3>1. recorded' = recorded /\ resume' = resume /\ ~(index > 0)
      BY <1>0, <2>4 DEF Diverge, Environments
    <3> QED
      BY <1>2, <2>0, <3>1
  <2>5. CASE Persist \/ (\E o \in BOOLEAN : TakeGroup(o)) \/ Terminated \/ UNCHANGED vars
    BY <1>2, <2>0, <2>5 DEF Persist, TakeGroup, Terminated, vars, InBatch
  <2>6. CASE Launch \/ Open \/ Finish \/ Collect \/ StopCollecting \/ Insufficient \/ Train \/ Save
             \/ Close \/ Clean \/ Eval
    <3>1. recorded' = recorded /\ resume' = resume /\ pc \notin InBatch
      BY <2>6 DEF Launch, Open, Finish, Collect, StopCollecting, Insufficient, Train, Save,
         Close, Clean, Eval, InBatch
    <3> QED
      BY <1>2, <2>0, <3>1
  <2> QED
    BY <2>1, <2>2, <2>3, <2>4, <2>5, <2>6 DEF Next, Progress
<1>3. ASSUME pc' = "refused" PROVE replayed' /\ resume' = NoResume
  <2>1. CASE Launch
    <3>1. ResumeRefused /\ pc = "down" /\ replayed' = replayed /\ resume' = resume
      BY <1>3, <2>1 DEF Launch
    <3>2. ~(resume.theta > checkpoint)
      BY <1>0 DEF ResumeState, None
    <3>3. recorded /\ resume = NoResume
      BY <3>1, <3>2 DEF ResumeRefused
    <3>4. replayed
      BY <1>0, <3>1, <3>3 DEF ResumeState, InBatch
    <3> QED
      BY <3>1, <3>3, <3>4
  <2>2. CASE Open
    <3>1. \A g \in accepted' : Loadable(g)
      BY <2>2, WindowFacts DEF Open, Picked
    <3> QED
      BY <1>3, <2>2, <3>1 DEF Open
  <2>3. CASE Terminated \/ UNCHANGED vars
    BY <1>0, <1>3, <2>3 DEF Terminated, vars, Resumable
  <2> QED
    BY <1>3, <2>1, <2>2, <2>3
       DEF Next, Progress, Finish, Collect, StopCollecting, Diverge, TakeGroup, Persist,
           AppendGroup, WriteState, Insufficient, Train, Save, Close, Clean, Mark, Eval, Crash
<1>4. pc' = "persist" => Dir(Group)' \notin spool'
  BY DirectoriesStep
<1>5. ResumeState'
  BY <1>1, <1>2 DEF ResumeState
<1>6. Resumable'
  BY <1>3, <1>4 DEF Resumable
<1> QED
  BY <1>5, <1>6

-----------------------------------------------------------------------------
(* The invariant and what follows from it *)

LEMMA InitIInv == Init => IInv
<1> SUFFICES ASSUME Init PROVE IInv
  OBVIOUS
<1> USE CandidateAssumption DEF Init
<1>1. TypeOK
  <2>1. /\ batch \in [base : Nat, size : Nat] /\ index \in 0..batch.size
        /\ resume \in [theta : Nat \cup {None}, slot : Nat]
    BY DEF NoResume, NoBatch
  <2>2. drawn.theta \in Nat \cup {None} /\ drawn.groups \subseteq Groups
    OBVIOUS
  <2>3. /\ checkpoint \in 0..TotalSteps /\ step \in 0..TotalSteps /\ theta \in 0..TotalSteps
        /\ crashes \in 0..MaxCrashes /\ dull \in 0..MaxDull
        /\ pc \in Running \cup Stopped
    BY DEF Running, Stopped
  <2>4. /\ evidence \subseteq Groups /\ accepted \subseteq evidence /\ spool \subseteq Dirs
        /\ recorded \in BOOLEAN /\ slot \in Nat /\ attempt \in Nat /\ informative \in BOOLEAN
        /\ cursor \in Nat /\ prefetch \in Nat \cup {None} /\ run \in Nat
        /\ unsynced \in BOOLEAN /\ replayed \in BOOLEAN /\ used \subseteq Nat
    OBVIOUS
  <2> QED
    BY <2>1, <2>2, <2>3, <2>4 DEF TypeOK
<1>2. Records = {} /\ Picked = {} /\ Seen = {}
  BY DEF Records, Picked, Seen
<1>3. WindowKept
  <2>1. Attempts({}) = 1..0 /\ Cardinality({}) = 0
    BY FS_EmptySet DEF Attempts
  <2> QED
    BY <1>1, <1>2, <2>1 DEF WindowKept, Records, Picked, Attempts
<1>4. Process
  BY DEF Process, InWindow, InBatch, Closing
<1>5. Numbering
  BY FS_EmptySet DEF Numbering, InWindow, InBatch
<1>6. Directories
  BY DEF Directories, InWindow, InBatch, Closing
<1>7. Environments
  <2>1. Whole(0)
    BY WaveType DEF Whole
  <2> QED
    BY <2>1 DEF Environments, NoResume, Running, InBatch
<1>8. Frontier /\ ResumeState /\ CasesOnce /\ ScheduleInStep /\ Resumable
  BY <1>2 DEF Frontier, ResumeState, CasesOnce, ScheduleInStep, Resumable, NoResume, None,
     InBatch, Running
<1> QED
  BY <1>3, <1>4, <1>5, <1>6, <1>7, <1>8 DEF IInv

LEMMA IInvStep == IInv /\ [Next]_vars => IInv'
<1> SUFFICES ASSUME IInv, [Next]_vars PROVE IInv'
  OBVIOUS
<1>1. TypeOK'
  BY TypeStep
<1>2. WindowKept' /\ Numbering' /\ Process' /\ Directories'
  BY <1>1, WindowStep, ProcessStep, DirectoriesStep
<1>3. Environments' /\ ScheduleInStep' /\ Frontier' /\ CasesOnce' /\ ResumeState' /\ Resumable'
  BY <1>1, EnvironmentsStep, FrontierStep, ResumeStep
<1> QED
  BY <1>2, <1>3 DEF IInv

THEOREM Invariance == Spec => []IInv
<1>1. Init => IInv
  BY InitIInv
<1>2. IInv /\ [Next]_vars => IInv'
  BY IInvStep
<1> QED
  BY <1>1, <1>2, PTL DEF Spec

\* Through any number of preemptions the open window is numbered without gaps, within its
\* budget and target, and what the process has accepted is what a restart would load
\* (_resume_candidate_records, _persist_accepted_candidate).
THEOREM WindowIsKept == Spec => []WindowKept
<1>1. IInv => WindowKept
  BY DEF IInv
<1> QED
  BY <1>1, Invariance, PTL

\* No case is trained on twice unless a preemption hit inside a batch
\* (_write_candidate_resume_state).
THEOREM CasesAreUsedOnce == Spec => []CasesOnce
<1>1. IInv => CasesOnce
  BY DEF IInv
<1> QED
  BY <1>1, Invariance, PTL

\* The environments roll out the cases the schedule expects (TrainCluster._rollout_once and
\* the slot arithmetic of _fit_group_relative).
THEOREM ScheduleStaysInStep == Spec => []ScheduleInStep
<1>1. IInv => ScheduleInStep
  BY DEF IInv
<1> QED
  BY <1>1, Invariance, PTL

\* A preempted run can be resumed (the checks at the beginning of _fit_group_relative).
THEOREM RunIsResumable == Spec => []Resumable
<1>1. IInv => Resumable
  BY DEF IInv
<1> QED
  BY <1>1, Invariance, PTL

-----------------------------------------------------------------------------
(* A training step that is repeated *)

\* Steps that write no record, train nothing, and do not leave the window.
LEMMA RedrawnFrame ==
  ASSUME IInv, Redrawn, UNCHANGED <<evidence, checkpoint, drawn>>,
         pc' \in {"decide", "save"} => Stops(attempt', Cardinality(accepted')),
         drawn.theta = checkpoint => pc' \notin InBatch \cup Closing
  PROVE  Redrawn'
<1>1. Records' = Records /\ Picked' = Picked
  BY DEF Records, Picked
<1> HIDE DEF Stops
<1> QED
  BY <1>1 DEF Redrawn

LEMMA RedrawnStep ==
  ASSUME Initial = 0 \/ Threshold = 0
  PROVE  IInv /\ Redrawn /\ [Next]_vars => Redrawn'
<1> SUFFICES ASSUME IInv, Redrawn, [Next]_vars PROVE Redrawn'
  OBVIOUS
<1> USE DEF disk, window, group, env, history
<1>0. /\ TypeOK /\ TypeOK' /\ Process /\ Numbering /\ checkpoint \in Nat /\ step = checkpoint
      /\ drawn.theta \in Nat \cup {None} /\ attempt \in Nat /\ index \in Nat
  BY WindowFacts, TypeStep DEF IInv, TypeOK, Process
<1> DEFINE Repeats == drawn.theta = checkpoint
<1>1. Repeats => /\ drawn.groups = Picked /\ Cardinality(Picked) >= MinPartial
                 /\ Stops(Cardinality(Records) + 1, Cardinality(Picked))
                 /\ pc \notin InBatch \cup Closing
  BY DEF Redrawn
\* The process has counted the records of its window.
<1>2. pc \in {"collect", "decide", "save"} =>
        /\ accepted = Picked /\ attempt = Cardinality(Records) + 1
  <2>1. pc \in {"collect", "decide", "save"} => index = 0
    BY <1>0 DEF Process, InBatch, NoBatch, TypeOK
  <2> QED
    BY <1>0, <2>1, WindowFacts DEF Numbering, InWindow
<1> HIDE DEF Stops
<1>3. CASE Launch \/ Finish \/ Open \/ Diverge \/ Crash
  BY <1>1, <1>3, RedrawnFrame DEF Launch, Finish, Open, Diverge, Crash, InBatch, Closing
<1>4. CASE Collect
  <2>1. ~Stops(attempt, Cardinality(accepted)) /\ pc = "collect"
    BY <1>4 DEF Collect
  <2>2. ~Repeats
    BY <1>1, <1>2, <2>1
  <2> QED
    BY <1>4, <2>2, RedrawnFrame DEF Collect
<1>5. CASE StopCollecting
  BY <1>1, <1>5, RedrawnFrame DEF StopCollecting, InBatch, Closing
<1>6. CASE Persist \/ AppendGroup \/ WriteState \/ \E o \in BOOLEAN : TakeGroup(o)
  <2>1. pc \in InBatch /\ ~Repeats /\ UNCHANGED <<checkpoint, drawn>>
    BY <1>1, <1>6 DEF Persist, AppendGroup, WriteState, TakeGroup, InBatch
  <2>2. pc' \notin {"decide", "save"}
    BY <1>6, CandidateAssumption DEF Persist, AppendGroup, WriteState, TakeGroup, RefillUnnecessary
  <2> QED
    BY <2>1, <2>2 DEF Redrawn
<1>7. CASE Insufficient
  <2>1. pc = "decide" /\ Cardinality(accepted) < MinPartial /\ pc' = "close"
    BY <1>7 DEF Insufficient
  <2>2. ~Repeats
    BY <1>1, <1>2, <2>1, WindowFacts, CandidateAssumption
  <2> QED
    BY <1>7, <2>1, <2>2, RedrawnFrame DEF Insufficient
<1>8. CASE Train
  <2>1. /\ pc = "decide" /\ Cardinality(accepted) >= MinPartial /\ pc' = "save"
        /\ drawn' = [theta |-> step, groups |-> accepted]
        /\ UNCHANGED <<evidence, checkpoint, attempt, accepted>>
    BY <1>8 DEF Train
  <2>2. Records' = Records /\ Picked' = Picked
    BY <2>1 DEF Records, Picked
  <2>3. Stops(attempt, Cardinality(accepted))
    BY <2>1 DEF Redrawn
  <2> QED
    BY <1>0, <1>2, <2>1, <2>2, <2>3 DEF Redrawn, InBatch, Closing
<1>9. CASE Save
  <2>1. checkpoint' = checkpoint + 1 /\ drawn' = drawn /\ pc' = "close" /\ drawn.theta <= checkpoint
    BY <1>0, <1>9 DEF Save, Redrawn
  <2> QED
    BY <1>0, <2>1 DEF Redrawn, None
<1>10. CASE Close \/ Clean \/ Mark \/ Eval
  <2>1. pc \in Closing /\ ~Repeats /\ UNCHANGED <<checkpoint, drawn>> /\ pc' \notin {"decide", "save"}
    BY <1>1, <1>10 DEF Close, Clean, Mark, Eval, Closing
  <2> QED
    BY <2>1 DEF Redrawn
<1>11. CASE Terminated \/ UNCHANGED vars
  <2>1. UNCHANGED <<evidence, checkpoint, drawn, pc, attempt, accepted>>
    BY <1>11 DEF Terminated, vars
  <2> QED
    BY <1>1, <2>1, RedrawnFrame DEF Redrawn
<1> QED
  BY <1>3, <1>4, <1>5, <1>6, <1>7, <1>8, <1>9, <1>10, <1>11 DEF Next, Progress

\* Without the optional refill, which is the default, a training step cut off by a preemption
\* is repeated on the same groups.
THEOREM TrainingIsRepeatable ==
  ASSUME Initial = 0 \/ Threshold = 0
  PROVE  Spec => RetrainsSame
<1>1. Init => Redrawn
  BY DEF Init, Redrawn, None
<1>2. IInv /\ Redrawn /\ [Next]_vars => Redrawn'
  BY RedrawnStep
<1>3. IInv /\ Redrawn /\ [Next]_vars =>
        [Train /\ drawn.theta = step => drawn'.groups = drawn.groups]_vars
  <2>1. ASSUME IInv, Redrawn, Train, drawn.theta = step PROVE drawn'.groups = drawn.groups
    <3>1. drawn.groups = Picked
      BY <2>1 DEF IInv, Process, Redrawn
    <3>2. drawn'.groups = accepted /\ accepted = Picked
      BY <2>1, WindowFacts DEF Train, InWindow
    <3> QED
      BY <3>1, <3>2
  <2> QED
    BY <2>1
<1> QED
  BY <1>1, <1>2, <1>3, Invariance, PTL DEF Spec, RetrainsSame
=============================================================================
