--------------------------- MODULE EnvManagerProofs ---------------------------
(***************************************************************************)
(* Proofs about EnvManager, for any set of stages and any bounds.          *)
(***************************************************************************)
EXTENDS EnvManager, SequenceTheorems, TLAPS

\* Where the thread of a stage can be during each call of the worker.
PhaseOf(s) ==
  /\ op.kind = "none" => pc[s] \in {"idle", "done"}
  /\ op.kind = "reset" => pc[s] \in {"reset", "snapshot", "starting", "done", "raised"}
  /\ op.kind = "restart" => pc[s] \in {"stopping", "stopped", "starting", "done", "raised"}
  /\ op.kind = "failed" => pc[s] \in {"stopped", "done", "raised"}

Sent(s, c) == commands[s] = <<c>> /\ replies[s] = <<>>
Back(s, c) == commands[s] = <<>> /\ Len(replies[s]) = 1 /\ replies[s][1].to = c
Silent(s) == commands[s] = <<>> /\ replies[s] = <<>>

\* One command at a time is in a stage's queues, with its answer or without; a stage that
\* waits for nothing has none, unless its thread gave up.
QueueOf(s) ==
  /\ pc[s] = "reset" => Sent(s, "reset") \/ Back(s, "reset")
  /\ pc[s] \in {"snapshot", "stopping"} => Sent(s, "get_state") \/ Back(s, "get_state")
  /\ pc[s] \in {"idle", "done", "stopped", "starting"} => Silent(s)
  /\ pc[s] = "raised" => Silent(s) \/ \E c \in {"reset", "get_state"} : Sent(s, c) \/ Back(s, c)

\* The wave the call wants, and the cursors before it (served) and after it.
Wanted == IF op.fresh THEN 0 ELSE served[op.mode]
Goal == [served EXCEPT ![op.mode] = wave + 1]

\* A stage has the cursors of the schedule until it has delivered, and those one wave further
\* after that; the saved ones follow with the snapshot.
CursorOf(s) ==
  /\ op.kind \in {"none", "restart"} =>
       /\ wave # NoWave => got[s] = wave
       /\ pc[s] # "raised" =>
            /\ Restored(s) = served /\ cursor[s] = served
            /\ replies[s] # <<>> => replies[s][1].cursor = served
  /\ commands[s] = <<"reset">> =>
       op.kind \in {"reset", "failed"} /\ cursor[s] = served /\ wave = Wanted
  /\ op.kind = "reset" =>
       /\ pc[s] \in {"reset", "snapshot", "starting"} => Restored(s) = served
       /\ pc[s] = "starting" => cursor[s] = served
       /\ pc[s] = "reset" /\ replies[s] # <<>> =>
            replies[s][1].wave = wave /\ cursor[s] = Goal
       /\ pc[s] = "snapshot" =>
            /\ got[s] = wave /\ cursor[s] = Goal
            /\ replies[s] # <<>> => replies[s][1].cursor = Goal
       /\ pc[s] = "done" => got[s] = wave /\ Restored(s) = Goal /\ cursor[s] = Goal

\* Every call moves a cursor by at most one wave.
Schedule ==
  /\ op.kind = "reset" => wave = Wanted
  /\ \A m \in Modes : served[m] <= ops
  /\ wave # NoWave => wave + 1 <= ops

StageInv(s) == PhaseOf(s) /\ QueueOf(s) /\ CursorOf(s)
IInv == TypeOK /\ Schedule /\ \A s \in Stages : StageInv(s)

-----------------------------------------------------------------------------
(* Queues of one element *)

LEMMA EmptyQueue ==
  ASSUME NEW S
  PROVE  <<>> \in Seq(S)
  OBVIOUS

LEMMA Added ==
  ASSUME NEW S, NEW x \in S
  PROVE  /\ Append(<<>>, x) = <<x>> /\ <<x>> \in Seq(S)
         /\ Len(<<x>>) = 1 /\ <<x>>[1] = x /\ <<x>> # <<>>
         /\ Head(<<x>>) = x /\ Tail(<<x>>) = <<>>
  OBVIOUS

LEMMA OneElement ==
  ASSUME NEW S, NEW q \in Seq(S), Len(q) = 1
  PROVE  q # <<>> /\ q[1] \in S /\ Head(q) = q[1] /\ Tail(q) = <<>>
<1>1. q # <<>> /\ q[1] \in S /\ Head(q) = q[1]
  OBVIOUS
<1>2. Tail(q) \in Seq(S) /\ Len(Tail(q)) = 0
  BY <1>1, HeadTailProperties
<1> QED
  BY <1>1, <1>2, EmptySeq

-----------------------------------------------------------------------------
LEMMA InitInv == Init => IInv
<1> SUFFICES ASSUME Init PROVE IInv
  OBVIOUS
<1> USE EnvManagerAssumption DEF Init
<1>1. Start \in Cursors /\ NoOp.kind = "none"
  BY DEF Cursors, Waves, Modes, Start, NoOp
<1>2. TypeOK
  BY <1>1, EmptyQueue DEF TypeOK, Modes, NoOp
<1>3. \A s \in Stages : PhaseOf(s) /\ QueueOf(s)
  BY <1>1 DEF PhaseOf, QueueOf, Silent
<1>4. \A s \in Stages : CursorOf(s)
  BY <1>1 DEF CursorOf, Restored
<1>5. Schedule
  BY <1>1 DEF Schedule, Start, NoWave, Modes
<1> QED
  BY <1>2, <1>3, <1>4, <1>5 DEF IInv, StageInv

-----------------------------------------------------------------------------
(* The calls of the worker *)

LEMMA CallResetKeeps ==
  ASSUME IInv, NEW mode \in Modes, NEW fresh \in BOOLEAN, CallReset(mode, fresh)
  PROVE  IInv'
<1> USE DEF IInv, StageInv
<1>1. \A s \in Stages : Silent(s) /\ commands'[s] = <<"reset">>
  BY Added DEF PhaseOf, QueueOf, CallReset, Silent, TypeOK
<1>2. op' = [kind |-> "reset", mode |-> mode, fresh |-> fresh] /\ ops' = ops + 1 /\ ops' \in 0..MaxOps
  BY EnvManagerAssumption DEF CallReset, TypeOK
<1>3. wave' \in Waves /\ wave' + 1 <= ops' /\ wave' # NoWave /\ wave' = Wanted'
  BY <1>2, EnvManagerAssumption DEF CallReset, TypeOK, Schedule, Waves, Cursors, Modes, NoWave, Wanted
<1>4. TypeOK'
  <2>1. commands' \in [Stages -> Seq({"reset", "get_state"})]
    BY <1>1, Added DEF CallReset, TypeOK
  <2>2. /\ op' \in [kind : {"reset"}, mode : Modes, fresh : BOOLEAN]
        /\ pc' \in [Stages -> {"reset"}] /\ restarts' \in [Stages -> 0..MaxRestarts]
    BY <1>2, EnvManagerAssumption DEF CallReset
  <2>3. UNCHANGED <<child, cursor, replies, saved, got, served, faults>>
    BY DEF CallReset
  <2> QED
    BY <1>2, <1>3, <2>1, <2>2, <2>3 DEF TypeOK, Waiting
<1>5. \A s \in Stages : PhaseOf(s)' /\ QueueOf(s)'
  BY <1>1, <1>2 DEF CallReset, PhaseOf, QueueOf, Silent, Sent
<1>6. \A s \in Stages : CursorOf(s)'
  BY <1>1, <1>2, <1>3 DEF CallReset, CursorOf, Restored, PhaseOf, Silent
<1>7. Schedule'
  BY <1>2, <1>3 DEF CallReset, Schedule, TypeOK, Cursors, Waves, Modes
<1> QED
  BY <1>4, <1>5, <1>6, <1>7

LEMMA CallRestartKeeps ==
  ASSUME IInv, CallRestart
  PROVE  IInv'
<1> USE DEF IInv, StageInv
<1>1. \A s \in Stages : Silent(s) /\ commands'[s] = <<"get_state">>
  BY Added DEF PhaseOf, QueueOf, CallRestart, Silent, TypeOK
<1>2. op'.kind = "restart" /\ op' \in [kind : {"restart"}, mode : Modes, fresh : BOOLEAN]
      /\ ops' = ops + 1 /\ ops' \in 0..MaxOps
  BY EnvManagerAssumption DEF CallRestart, TypeOK, Becomes
<1>3. TypeOK'
  <2>1. commands' \in [Stages -> Seq({"reset", "get_state"})]
    BY <1>1, Added DEF CallRestart, TypeOK
  <2> QED
    BY <1>2, <2>1 DEF CallRestart, TypeOK, Waiting
<1>4. \A s \in Stages : PhaseOf(s)' /\ QueueOf(s)'
  BY <1>1, <1>2 DEF CallRestart, PhaseOf, QueueOf, Silent, Sent
<1>5. \A s \in Stages : CursorOf(s)'
  BY <1>1, <1>2 DEF CallRestart, CursorOf, Restored, PhaseOf, Silent
<1>6. Schedule'
  BY <1>2 DEF CallRestart, Schedule, TypeOK, Cursors, Waves, Modes, NoWave
<1> QED
  BY <1>3, <1>4, <1>5, <1>6

LEMMA RestoredType ==
  ASSUME IInv, NEW s \in Stages
  PROVE  Restored(s) \in Cursors
BY EnvManagerAssumption DEF IInv, TypeOK, Restored, Cursors, Start, Waves

LEMMA StartAllKeeps ==
  ASSUME IInv, StartAll
  PROVE  IInv'
<1> USE DEF IInv, StageInv
<1>1. \A s \in Stages : Restored(s) = served /\ Silent(s) /\ cursor'[s] = served
  BY DEF StartAll, CursorOf, QueueOf
<1>2. TypeOK'
  BY RestoredType DEF StartAll, TypeOK, Waiting
<1>3. \A s \in Stages : PhaseOf(s)' /\ QueueOf(s)'
  BY <1>1 DEF StartAll, PhaseOf, QueueOf, Silent
<1>4. \A s \in Stages : CursorOf(s)'
  BY <1>1 DEF StartAll, CursorOf, Restored, Silent
<1>5. Schedule'
  BY DEF StartAll, Schedule
<1> QED
  BY <1>2, <1>3, <1>4, <1>5

LEMMA JoinKeeps ==
  ASSUME IInv, Join
  PROVE  IInv'
<1> USE DEF IInv, StageInv
<1>1. CASE \E s \in Stages : pc[s] = "raised"
  <2>1. Becomes("failed") /\ served' = served
    BY <1>1 DEF Join
  <2>2. op'.kind = "failed" /\ op'.mode = op.mode /\ op'.fresh = op.fresh
        /\ op' \in [kind : {"failed"}, mode : Modes, fresh : BOOLEAN]
    BY <2>1 DEF TypeOK, Becomes
  <2>3. TypeOK' /\ Schedule'
    BY <2>1, <2>2 DEF Join, Settled, stage, TypeOK, Schedule
  <2>4. \A s \in Stages : PhaseOf(s)' /\ QueueOf(s)'
    BY <2>1, <2>2 DEF Join, Settled, stage, PhaseOf, QueueOf, Sent, Back, Silent
  <2>5. \A s \in Stages : CursorOf(s)'
    BY <2>1, <2>2 DEF Join, Settled, stage, CursorOf, Wanted
  <2> QED
    BY <2>3, <2>4, <2>5
<1>2. CASE \A s \in Stages : pc[s] # "raised"
  <2>1. op' = NoOp /\ \A s \in Stages : pc[s] = "done" /\ Silent(s)
    BY <1>2 DEF Join, Settled, QueueOf
  <2>2. op.kind = "reset" => wave \in Waves /\ served' = Goal /\ served' \in Cursors
    <3> SUFFICES ASSUME op.kind = "reset"
                 PROVE  wave \in Waves /\ served' = Goal /\ served' \in Cursors
      OBVIOUS
    <3>1. op.mode \in Modes /\ served \in [Modes -> Waves] /\ ops \in 0..MaxOps
      BY DEF TypeOK, Cursors
    <3>2. wave \in Waves /\ wave # NoWave
      BY <3>1, EnvManagerAssumption DEF Schedule, Wanted, Waves, NoWave
    <3>3. wave + 1 \in Waves
      BY <3>1, <3>2, EnvManagerAssumption DEF Schedule, Waves
    <3> QED
      BY <1>2, <3>1, <3>2, <3>3 DEF Join, Goal, Cursors
  <2>3. op.kind # "reset" => served' = served
    BY <1>2 DEF Join
  <2>4. TypeOK'
    BY <2>1, <2>2, <2>3 DEF Join, stage, TypeOK, NoOp, Modes
  <2>5. \A s \in Stages : PhaseOf(s)' /\ QueueOf(s)'
    BY <2>1 DEF Join, stage, PhaseOf, QueueOf, Silent, NoOp
  <2>6. \A s \in Stages : CursorOf(s)'
    BY <2>1, <2>2, <2>3 DEF Join, Settled, stage, CursorOf, NoOp, Silent, Restored
  <2>7. Schedule'
    BY <2>1, <2>2, <2>3 DEF Join, Schedule, TypeOK, Cursors, Waves, Modes, Goal, NoWave, NoOp
  <2> QED
    BY <2>4, <2>5, <2>6, <2>7
<1> QED
  BY <1>1, <1>2

LEMMA RestartRaisesKeeps ==
  ASSUME IInv, RestartRaises
  PROVE  IInv'
<1> USE DEF IInv, StageInv
<1>1. op'.kind = "failed" /\ op'.mode = op.mode /\ op'.fresh = op.fresh
      /\ op' \in [kind : {"failed"}, mode : Modes, fresh : BOOLEAN]
  BY DEF RestartRaises, TypeOK, Becomes
<1>2. TypeOK' /\ Schedule'
  BY <1>1 DEF RestartRaises, stage, TypeOK, Schedule
<1>3. \A s \in Stages : PhaseOf(s)' /\ QueueOf(s)'
  BY <1>1 DEF RestartRaises, stage, PhaseOf, QueueOf, Sent, Back, Silent
<1>4. \A s \in Stages : CursorOf(s)'
  BY <1>1 DEF RestartRaises, stage, CursorOf, Wanted
<1> QED
  BY <1>2, <1>3, <1>4

-----------------------------------------------------------------------------
(* What a stage's thread and its child find, and what they leave alone *)

LEMMA OpOfPc ==
  ASSUME IInv, NEW s \in Stages
  PROVE  /\ pc[s] \in {"reset", "snapshot"} => op.kind = "reset"
         /\ pc[s] = "stopping" => op.kind = "restart"
         /\ pc[s] = "starting" => op.kind \in {"reset", "restart"}
BY DEF IInv, StageInv, TypeOK, PhaseOf

LEMMA AnswerThere ==
  ASSUME IInv, NEW s \in Stages, pc[s] \in {"reset", "snapshot", "stopping"}, replies[s] # <<>>
  PROVE  /\ commands[s] = <<>> /\ Len(replies[s]) = 1 /\ Tail(replies[s]) = <<>>
         /\ Answer(s) = replies[s][1] /\ Answer(s).ok \in BOOLEAN
         /\ Answer(s).wave \in Waves \cup {NoWave} /\ Answer(s).cursor \in Cursors
<1>1. commands[s] = <<>> /\ Len(replies[s]) = 1
  BY DEF IInv, StageInv, QueueOf, Sent, Back
<1>2. replies[s] \in Seq(Replies)
  BY DEF IInv, TypeOK
<1>3. replies[s][1] \in Replies /\ Head(replies[s]) = replies[s][1] /\ Tail(replies[s]) = <<>>
  BY <1>1, <1>2, OneElement
<1> QED
  BY <1>1, <1>3 DEF Answer, Replies

LEMMA CommandThere ==
  ASSUME IInv, NEW s \in Stages, commands[s] # <<>>
  PROVE  /\ replies[s] = <<>> /\ Tail(commands[s]) = <<>>
         /\ Head(commands[s]) \in {"reset", "get_state"} /\ commands[s] = <<Head(commands[s])>>
         /\ pc[s] \in {"reset", "snapshot", "stopping", "raised"}
         /\ pc[s] = "reset" => Head(commands[s]) = "reset"
         /\ pc[s] \in {"snapshot", "stopping"} => Head(commands[s]) = "get_state"
<1>1. pc[s] \in {"reset", "snapshot", "stopping", "raised"}
  BY DEF IInv, StageInv, TypeOK, Waiting, QueueOf, Silent
<1>2. PICK c \in {"reset", "get_state"} :
        /\ Sent(s, c)
        /\ pc[s] = "reset" => c = "reset"
        /\ pc[s] \in {"snapshot", "stopping"} => c = "get_state"
  BY <1>1 DEF IInv, StageInv, QueueOf, Sent, Back, Silent
<1> QED
  BY <1>1, <1>2, Added DEF Sent

LEMMA FaultType ==
  ASSUME IInv, Fault \/ UNCHANGED faults
  PROVE  faults' \in 0..MaxFaults
BY EnvManagerAssumption DEF IInv, TypeOK, Fault

\* What a step of stage s leaves alone keeps the invariant of the other stages.
Others(s) == \A x \in Stages \ {s} :
  UNCHANGED <<pc[x], commands[x], replies[x], cursor[x], saved[x], got[x]>>

LEMMA OthersKeep ==
  ASSUME IInv, NEW s \in Stages, Others(s), UNCHANGED <<op, served, wave, ops>>,
         TypeOK', PhaseOf(s)', QueueOf(s)', CursorOf(s)'
  PROVE  IInv'
<1>1. ASSUME NEW x \in Stages, x # s PROVE PhaseOf(x)' /\ QueueOf(x)'
  BY <1>1 DEF IInv, StageInv, Others, PhaseOf, QueueOf, Sent, Back, Silent
<1>2. ASSUME NEW x \in Stages, x # s PROVE CursorOf(x)'
  <2>1. Restored(x)' = Restored(x) /\ Goal' = Goal /\ Wanted' = Wanted
    BY <1>2 DEF Others, Restored, Goal, Wanted
  <2> QED
    BY <1>2, <2>1 DEF IInv, StageInv, Others, CursorOf
<1>3. Schedule'
  BY DEF IInv, Schedule, Wanted
<1> QED
  BY <1>1, <1>2, <1>3 DEF IInv, StageInv

-----------------------------------------------------------------------------
(* The threads of the stages *)

LEMMA ResetReturnsKeeps ==
  ASSUME IInv, NEW s \in Stages, ResetReturns(s)
  PROVE  IInv'
<1> USE DEF IInv, StageInv
<1>1. /\ pc[s] = "reset" /\ op.kind = "reset" /\ commands[s] = <<>> /\ replies[s] # <<>>
      /\ replies' = [replies EXCEPT ![s] = <<>>] /\ Answer(s) = replies[s][1]
      /\ Answer(s).ok \in BOOLEAN /\ Answer(s).wave \in Waves \cup {NoWave}
  BY AnswerThere, OpOfPc DEF ResetReturns, Take
<1>2. Answer(s).wave = wave /\ cursor[s] = Goal /\ Restored(s) = served
  BY <1>1 DEF CursorOf
<1>3. CASE Answer(s).ok
  <2>1. /\ pc' = [pc EXCEPT ![s] = "snapshot"] /\ got' = [got EXCEPT ![s] = Answer(s).wave]
        /\ commands' = [commands EXCEPT ![s] = <<"get_state">>]
    BY <1>1, <1>3, Added DEF ResetReturns
  <2>2. TypeOK'
    BY <1>1, <2>1, Added, EmptyQueue DEF ResetReturns, TypeOK, Waiting
  <2>3. PhaseOf(s)' /\ QueueOf(s)' /\ Others(s)
    BY <1>1, <2>1 DEF ResetReturns, TypeOK, PhaseOf, QueueOf, Sent, Others
  <2>4. Restored(s)' = Restored(s) /\ Goal' = Goal
    BY DEF ResetReturns, Restored, Goal
  <2>5. CursorOf(s)'
    BY <1>1, <1>2, <2>1, <2>4 DEF ResetReturns, TypeOK, CursorOf
  <2> QED
    BY <2>2, <2>3, <2>5, OthersKeep DEF ResetReturns
<1>4. CASE ~Answer(s).ok
  <2>1. pc' = [pc EXCEPT ![s] = "raised"] /\ UNCHANGED <<got, commands>>
    BY <1>1, <1>4 DEF ResetReturns, Raise
  <2>2. TypeOK'
    BY <1>1, <2>1, EmptyQueue DEF ResetReturns, TypeOK, Waiting
  <2>3. PhaseOf(s)' /\ QueueOf(s)' /\ Others(s)
    BY <1>1, <2>1 DEF ResetReturns, TypeOK, PhaseOf, QueueOf, Silent, Others
  <2>4. CursorOf(s)'
    BY <1>1, <2>1 DEF ResetReturns, TypeOK, CursorOf
  <2> QED
    BY <2>2, <2>3, <2>4, OthersKeep DEF ResetReturns
<1> QED
  BY <1>1, <1>3, <1>4

LEMMA SnapshotReturnsKeeps ==
  ASSUME IInv, NEW s \in Stages, SnapshotReturns(s)
  PROVE  IInv'
<1> USE DEF IInv, StageInv
<1>1. /\ pc[s] = "snapshot" /\ op.kind = "reset" /\ commands[s] = <<>> /\ replies[s] # <<>>
      /\ replies' = [replies EXCEPT ![s] = <<>>] /\ Answer(s) = replies[s][1]
      /\ Answer(s).cursor \in Cursors
  BY AnswerThere, OpOfPc DEF SnapshotReturns, Take
<1>2. Answer(s).cursor = Goal /\ cursor[s] = Goal /\ got[s] = wave
  BY <1>1 DEF CursorOf
<1>3. Goal' = Goal /\ UNCHANGED <<got, cursor, commands, op, served, wave, ops>>
  BY DEF SnapshotReturns, Goal
<1>4. CASE Answer(s).ok
  <2>1. pc' = [pc EXCEPT ![s] = "done"] /\ saved' = [saved EXCEPT ![s] = Answer(s).cursor]
    BY <1>4 DEF SnapshotReturns, Save
  <2>2. TypeOK'
    BY <1>1, <2>1, EmptyQueue DEF SnapshotReturns, TypeOK, Waiting
  <2>3. PhaseOf(s)' /\ QueueOf(s)' /\ Others(s)
    BY <1>1, <2>1 DEF SnapshotReturns, TypeOK, PhaseOf, QueueOf, Silent, Others
  <2>4. Restored(s)' = Goal
    <3>1. \A c \in Cursors : c # NoState
      BY DEF Cursors, NoState, Waves, NoWave, Modes
    <3> QED
      BY <1>1, <1>2, <2>1, <3>1 DEF Restored, TypeOK
  <2>5. CursorOf(s)'
    BY <1>1, <1>2, <1>3, <2>1, <2>4 DEF TypeOK, CursorOf
  <2> QED
    BY <1>3, <2>2, <2>3, <2>5, OthersKeep
<1>5. CASE ~Answer(s).ok
  <2>1. pc' = [pc EXCEPT ![s] = "raised"] /\ UNCHANGED saved
    BY <1>5 DEF SnapshotReturns, Raise
  <2>2. TypeOK'
    BY <1>1, <2>1, EmptyQueue DEF SnapshotReturns, TypeOK, Waiting
  <2>3. PhaseOf(s)' /\ QueueOf(s)' /\ Others(s)
    BY <1>1, <2>1 DEF SnapshotReturns, TypeOK, PhaseOf, QueueOf, Silent, Others
  <2>4. CursorOf(s)'
    BY <1>1, <1>3, <2>1 DEF TypeOK, CursorOf
  <2> QED
    BY <1>3, <2>2, <2>3, <2>4, OthersKeep
<1> QED
  BY <1>4, <1>5

LEMMA TimeoutKeeps ==
  ASSUME IInv, NEW s \in Stages, Timeout(s)
  PROVE  IInv'
<1> USE DEF IInv, StageInv
<1>1. /\ pc[s] \in {"reset", "snapshot"} /\ op.kind = "reset" /\ Restored(s) = served
      /\ UNCHANGED <<saved, got, op, served, wave, ops>>
  BY OpOfPc DEF Timeout, CursorOf
<1>2. faults' \in 0..MaxFaults
  BY FaultType DEF Timeout, Late
<1>3. CASE Spent(s)
  <2>1. pc' = [pc EXCEPT ![s] = "raised"] /\ UNCHANGED <<child, cursor, commands, replies, restarts>>
    BY <1>3 DEF Timeout, Raise
  <2>2. TypeOK'
    BY <1>1, <1>2, <2>1 DEF TypeOK
  <2>3. PhaseOf(s)' /\ QueueOf(s)' /\ Others(s)
    BY <1>1, <2>1 DEF TypeOK, PhaseOf, QueueOf, Sent, Back, Silent, Others
  <2>4. CursorOf(s)'
    BY <1>1, <2>1 DEF TypeOK, CursorOf, Wanted
  <2> QED
    BY <1>1, <2>2, <2>3, <2>4, OthersKeep
<1>4. CASE ~Spent(s)
  <2>1. /\ restarts' = [restarts EXCEPT ![s] = @ + 1] /\ pc' = [pc EXCEPT ![s] = "starting"]
        /\ child' = [child EXCEPT ![s] = "booting"] /\ cursor' = [cursor EXCEPT ![s] = Restored(s)]
        /\ commands' = [commands EXCEPT ![s] = <<>>] /\ replies' = [replies EXCEPT ![s] = <<>>]
    BY <1>4 DEF Timeout
  <2>2. restarts[s] + 1 \in 0..MaxRestarts
    BY <1>4, EnvManagerAssumption DEF Spent, TypeOK
  <2>3. TypeOK'
    BY <1>1, <1>2, <2>1, <2>2, RestoredType, EmptyQueue DEF TypeOK, Waiting
  <2>4. PhaseOf(s)' /\ QueueOf(s)' /\ Others(s)
    BY <1>1, <2>1 DEF TypeOK, PhaseOf, QueueOf, Silent, Others
  <2>5. Restored(s)' = served /\ cursor'[s] = served
    BY <1>1, <2>1 DEF Restored, TypeOK
  <2>6. CursorOf(s)'
    BY <1>1, <2>1, <2>5 DEF TypeOK, CursorOf
  <2> QED
    BY <1>1, <2>3, <2>4, <2>6, OthersKeep
<1> QED
  BY <1>3, <1>4

LEMMA StartedKeeps ==
  ASSUME IInv, NEW s \in Stages, Started(s)
  PROVE  IInv'
<1> USE DEF IInv, StageInv
<1>1. pc[s] = "starting" /\ op.kind \in {"reset", "restart"} /\ Silent(s)
  BY OpOfPc DEF Started, QueueOf
<1>2. /\ cursor[s] = served /\ Restored(s) = served /\ Restored(s)' = Restored(s)
      /\ UNCHANGED <<cursor, replies, saved, restarts, got, op, served, wave, ops, faults>>
      /\ child' = [child EXCEPT ![s] = "up"]
  BY <1>1 DEF Started, CursorOf, Restored
<1>3. CASE op.kind = "restart"
  <2>1. pc' = [pc EXCEPT ![s] = "done"] /\ UNCHANGED commands
    BY <1>3 DEF Started
  <2>2. TypeOK'
    BY <1>2, <2>1 DEF TypeOK
  <2>3. PhaseOf(s)' /\ QueueOf(s)' /\ Others(s)
    BY <1>1, <1>2, <1>3, <2>1 DEF TypeOK, PhaseOf, QueueOf, Silent, Others
  <2>4. CursorOf(s)'
    BY <1>1, <1>2, <1>3, <2>1 DEF TypeOK, CursorOf, Silent
  <2> QED
    BY <1>2, <2>2, <2>3, <2>4, OthersKeep
<1>4. CASE op.kind = "reset"
  <2>1. pc' = [pc EXCEPT ![s] = "reset"] /\ commands' = [commands EXCEPT ![s] = <<"reset">>]
    BY <1>1, <1>4, Added DEF Started, Silent
  <2>2. TypeOK'
    BY <1>2, <2>1, Added DEF TypeOK, Waiting
  <2>3. PhaseOf(s)' /\ QueueOf(s)' /\ Others(s)
    BY <1>1, <1>2, <1>4, <2>1 DEF TypeOK, PhaseOf, QueueOf, Sent, Silent, Others
  <2>4. CursorOf(s)'
    BY <1>1, <1>2, <1>4, <2>1 DEF TypeOK, Schedule, CursorOf, Wanted, Silent
  <2> QED
    BY <1>2, <2>2, <2>3, <2>4, OthersKeep
<1> QED
  BY <1>1, <1>3, <1>4

LEMMA StartFailsKeeps ==
  ASSUME IInv, NEW s \in Stages, StartFails(s)
  PROVE  IInv'
<1> USE DEF IInv, StageInv
<1>1. /\ pc[s] = "starting" /\ op.kind \in {"reset", "restart"} /\ Silent(s)
      /\ pc' = [pc EXCEPT ![s] = "raised"] /\ faults' \in 0..MaxFaults
      /\ UNCHANGED <<cursor, commands, replies, saved, restarts, got, op, served, wave, ops>>
  BY OpOfPc, FaultType DEF StartFails, QueueOf, Raise
<1>2. TypeOK'
  BY <1>1 DEF StartFails, TypeOK
<1>3. PhaseOf(s)' /\ QueueOf(s)' /\ Others(s)
  BY <1>1 DEF TypeOK, PhaseOf, QueueOf, Silent, Others
<1>4. CursorOf(s)'
  BY <1>1 DEF TypeOK, CursorOf, Silent
<1> QED
  BY <1>1, <1>2, <1>3, <1>4, OthersKeep

LEMMA StoppedKeeps ==
  ASSUME IInv, NEW s \in Stages, Stopped(s)
  PROVE  IInv'
<1> USE DEF IInv, StageInv
<1>1. /\ pc[s] = "stopping" /\ op.kind = "restart" /\ replies[s] # <<>>
      /\ Answer(s) = replies[s][1] /\ Answer(s).cursor \in Cursors
  BY AnswerThere, OpOfPc DEF Stopped
<1>2. Answer(s).cursor = served /\ cursor[s] = served /\ Restored(s) = served
  BY <1>1 DEF CursorOf
<1>3. /\ pc' = [pc EXCEPT ![s] = "stopped"] /\ child' = [child EXCEPT ![s] = "down"]
      /\ commands' = [commands EXCEPT ![s] = <<>>] /\ replies' = [replies EXCEPT ![s] = <<>>]
      /\ UNCHANGED <<cursor, restarts, got, op, served, wave, ops, faults>>
  BY DEF Stopped
<1>4. saved' = [saved EXCEPT ![s] = served] \/ saved' = saved
  BY <1>2 DEF Stopped, Save
<1>5. TypeOK'
  BY <1>3, <1>4, EmptyQueue DEF TypeOK
<1>6. PhaseOf(s)' /\ QueueOf(s)' /\ Others(s)
  BY <1>1, <1>3, <1>4 DEF TypeOK, PhaseOf, QueueOf, Silent, Others
<1>7. Restored(s)' = served
  <2>1. served # NoState
    BY DEF TypeOK, Cursors, NoState, Waves, NoWave, Modes
  <2> QED
    BY <1>2, <1>4, <2>1 DEF Restored, TypeOK
<1>8. CursorOf(s)'
  BY <1>1, <1>2, <1>3, <1>7 DEF TypeOK, CursorOf
<1> QED
  BY <1>3, <1>5, <1>6, <1>8, OthersKeep

LEMMA GivesUpKeeps ==
  ASSUME IInv, NEW s \in Stages, StopFails(s) \/ Exited(s)
  PROVE  IInv'
<1> USE DEF IInv, StageInv
<1>1. /\ pc[s] \in {"reset", "snapshot", "stopping"} /\ op.kind \in {"reset", "restart"}
      /\ pc' = [pc EXCEPT ![s] = "raised"] /\ faults' \in 0..MaxFaults
      /\ UNCHANGED <<child, cursor, commands, replies, saved, restarts, got, op, served, wave, ops>>
  BY OpOfPc, FaultType DEF StopFails, Exited, Raise
<1>2. TypeOK'
  BY <1>1 DEF TypeOK
<1>3. PhaseOf(s)' /\ QueueOf(s)' /\ Others(s)
  BY <1>1 DEF TypeOK, PhaseOf, QueueOf, Sent, Back, Silent, Others
<1>4. CursorOf(s)'
  BY <1>1 DEF TypeOK, CursorOf, Wanted
<1> QED
  BY <1>1, <1>2, <1>3, <1>4, OthersKeep

-----------------------------------------------------------------------------
(* The children *)

LEMMA ServeResetKeeps ==
  ASSUME IInv, NEW s \in Stages, ServeReset(s)
  PROVE  IInv'
<1> USE DEF IInv, StageInv
<1>1. /\ commands[s] = <<"reset">> /\ replies[s] = <<>> /\ Tail(commands[s]) = <<>>
      /\ pc[s] \in {"reset", "raised"}
  BY CommandThere DEF ServeReset
<1>2. op.kind \in {"reset", "failed"} /\ cursor[s] = served /\ wave = Wanted
  BY <1>1 DEF CursorOf
<1>3. /\ op.mode \in Modes /\ served \in [Modes -> Waves] /\ ops \in 0..MaxOps /\ wave \in Waves
      /\ wave # NoWave
  BY <1>2, EnvManagerAssumption DEF TypeOK, Cursors, Wanted, Waves, NoWave
<1>4. Delivered(s) = wave /\ Advanced(s) = Goal /\ Goal \in Cursors
  <2>1. wave + 1 \in Waves
    BY <1>3, EnvManagerAssumption DEF Schedule, Waves
  <2> QED
    BY <1>2, <1>3, <2>1 DEF Delivered, Advanced, Wanted, Goal, Cursors
<1>5. PICK ok \in BOOLEAN :
        replies' = [replies EXCEPT ![s] =
          Append(@, [to |-> "reset", ok |-> ok, wave |-> wave, cursor |-> Start])]
  BY <1>4 DEF ServeReset, Reply
<1> DEFINE r == [to |-> "reset", ok |-> ok, wave |-> wave, cursor |-> Start]
<1>6. r \in Replies
  BY <1>3, EnvManagerAssumption DEF Replies, Cursors, Start, Waves
<1>7. replies' = [replies EXCEPT ![s] = <<r>>] /\ commands' = [commands EXCEPT ![s] = <<>>]
  BY <1>1, <1>5, <1>6, Added DEF ServeReset, Reply
<1>8. /\ cursor' = [cursor EXCEPT ![s] = Goal] /\ faults' \in 0..MaxFaults
      /\ UNCHANGED <<child, saved, pc, restarts, got, op, served, wave, ops>>
  BY <1>4, FaultType DEF ServeReset
<1>9. TypeOK'
  BY <1>4, <1>6, <1>7, <1>8, Added, EmptyQueue DEF TypeOK
<1>10. /\ commands'[s] = <<>> /\ Len(replies'[s]) = 1 /\ replies'[s][1].to = "reset"
       /\ replies'[s][1].wave = wave /\ cursor'[s] = Goal
  BY <1>7, <1>8 DEF TypeOK
<1>11. PhaseOf(s)' /\ QueueOf(s)' /\ Others(s)
  BY <1>1, <1>7, <1>8, <1>10 DEF TypeOK, PhaseOf, QueueOf, Back, Others
<1>12. CursorOf(s)'
  <2>1. Goal' = Goal /\ Restored(s)' = Restored(s)
    BY <1>8 DEF Goal, Restored
  <2> QED
    BY <1>1, <1>2, <1>8, <1>10, <2>1 DEF CursorOf
<1> QED
  BY <1>8, <1>9, <1>11, <1>12, OthersKeep

LEMMA ServeStateKeeps ==
  ASSUME IInv, NEW s \in Stages, ServeState(s)
  PROVE  IInv'
<1> USE DEF IInv, StageInv
<1>1. /\ commands[s] = <<"get_state">> /\ replies[s] = <<>> /\ Tail(commands[s]) = <<>>
      /\ pc[s] \in {"snapshot", "stopping", "raised"}
  BY CommandThere DEF ServeState
<1> DEFINE r == [to |-> "get_state", ok |-> TRUE, wave |-> NoWave, cursor |-> cursor[s]]
<1>2. r \in Replies
  BY DEF TypeOK, Replies
<1>3. /\ replies' = [replies EXCEPT ![s] = <<r>>] /\ commands' = [commands EXCEPT ![s] = <<>>]
      /\ UNCHANGED <<child, cursor, saved, pc, restarts, got, op, served, wave, ops, faults>>
  BY <1>1, <1>2, Added DEF ServeState, Reply
<1>4. TypeOK'
  BY <1>2, <1>3, Added, EmptyQueue DEF TypeOK
<1>5. /\ commands'[s] = <<>> /\ Len(replies'[s]) = 1 /\ replies'[s][1].to = "get_state"
      /\ replies'[s][1].cursor = cursor[s]
  BY <1>3 DEF TypeOK
<1>6. PhaseOf(s)' /\ QueueOf(s)' /\ Others(s)
  BY <1>1, <1>3, <1>5 DEF TypeOK, PhaseOf, QueueOf, Back, Others
<1>7. CursorOf(s)'
  <2>1. Goal' = Goal /\ Restored(s)' = Restored(s)
    BY <1>3 DEF Goal, Restored
  <2> QED
    BY <1>1, <1>3, <1>5, <2>1 DEF CursorOf
<1> QED
  BY <1>3, <1>4, <1>6, <1>7, OthersKeep

LEMMA BreaksKeeps ==
  ASSUME IInv, NEW s \in Stages, Breaks(s)
  PROVE  IInv'
<1>1. UNCHANGED <<cursor, commands, replies, saved, pc, restarts, got, op, served, wave, ops>>
  BY DEF Breaks
<1>2. faults' \in 0..MaxFaults
  BY FaultType DEF Breaks
<1>3. TypeOK'
  BY <1>1, <1>2 DEF Breaks, IInv, TypeOK
<1> QED
  BY <1>1, <1>3 DEF IInv, StageInv, Schedule, PhaseOf, QueueOf, CursorOf, Sent, Back, Silent,
                     Wanted, Goal, Restored

-----------------------------------------------------------------------------
LEMMA NextKeepsInv == IInv /\ [Next]_vars => IInv'
<1> SUFFICES ASSUME IInv, [Next]_vars PROVE IInv'
  OBVIOUS
<1>1. CASE UNCHANGED vars
  <2> USE <1>1 DEF vars, stage
  <2>1. TypeOK' /\ Schedule'
    BY DEF IInv, TypeOK, Schedule, Wanted
  <2>2. \A s \in Stages : StageInv(s)'
    BY DEF IInv, StageInv, PhaseOf, QueueOf, CursorOf, Sent, Back, Silent, Wanted, Goal, Restored
  <2> QED
    BY <2>1, <2>2 DEF IInv
<1>2. CASE Worker
  BY <1>2, StartAllKeeps, JoinKeeps, RestartRaisesKeeps DEF Worker
<1>3. CASE CallRestart
  BY <1>3, CallRestartKeeps
<1>4. CASE \E mode \in Modes, fresh \in BOOLEAN : CallReset(mode, fresh)
  BY <1>4, CallResetKeeps
<1>5. ASSUME NEW s \in Stages, Parent(s) PROVE IInv'
  BY <1>5, ResetReturnsKeeps, SnapshotReturnsKeeps, TimeoutKeeps, StartedKeeps, StoppedKeeps,
     GivesUpKeeps DEF Parent
<1>6. ASSUME NEW s \in Stages, Child(s) \/ StartFails(s) \/ Breaks(s) PROVE IInv'
  BY <1>6, ServeResetKeeps, ServeStateKeeps, StartFailsKeeps, BreaksKeeps DEF Child
<1> QED
  BY <1>1, <1>2, <1>3, <1>4, <1>5, <1>6 DEF Next, Over

\* The invariant of the recovery holds in every behaviour, however many stages there are.
THEOREM RecoveryInvariance == Spec => []IInv
BY InitInv, NextKeepsInv, PTL DEF Spec

\* EnvManager.call never takes the answer to a command that timed out before.
THEOREM AnswersAreOwn == Spec => []OwnAnswer
<1>1. IInv => OwnAnswer
  <2> SUFFICES ASSUME IInv, NEW s \in Stages
               PROVE  /\ pc[s] = "reset" => \A i \in 1..Len(replies[s]) : replies[s][i].to = "reset"
                      /\ pc[s] \in {"snapshot", "stopping"} =>
                           \A i \in 1..Len(replies[s]) : replies[s][i].to = "get_state"
                      /\ Len(replies[s]) <= 1
    BY DEF OwnAnswer
  <2>1. replies[s] = <<>> => Len(replies[s]) = 0
    OBVIOUS
  <2>2. Len(replies[s]) \in {0, 1}
    BY <2>1 DEF IInv, StageInv, QueueOf, Sent, Back, Silent, TypeOK, Waiting
  <2>3. ASSUME NEW i \in 1..Len(replies[s]) PROVE i = 1 /\ replies[s] # <<>>
    <3>1. Len(replies[s]) = 1
      BY <2>2
    <3> QED
      BY <2>1, <3>1
  <2>4. /\ pc[s] = "reset" /\ replies[s] # <<>> => replies[s][1].to = "reset"
        /\ pc[s] \in {"snapshot", "stopping"} /\ replies[s] # <<>> => replies[s][1].to = "get_state"
    BY DEF IInv, StageInv, QueueOf, Sent, Back
  <2> QED
    BY <2>2, <2>3, <2>4
<1> QED
  BY <1>1, RecoveryInvariance, PTL

\* A reset that returns has all stages on the wave of the schedule, whatever was repeated.
THEOREM ResetsInStep == Spec => []SameWave
<1>1. IInv => SameWave
  BY DEF IInv, StageInv, CursorOf, SameWave
<1> QED
  BY <1>1, RecoveryInvariance, PTL
=============================================================================
