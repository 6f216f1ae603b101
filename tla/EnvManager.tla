------------------------------ MODULE EnvManager ------------------------------
(***************************************************************************)
(* The RoboDojo simulator processes of the environment workers: one        *)
(* EnvManager and one child process per pipeline stage, joined by a        *)
(* command and a result queue (env_manager.py); the reset with recovery    *)
(* and the periodic restart that EnvWorker runs on all stages at once      *)
(* (env_worker.py); the case cursors the children advance at every reset   *)
(* (robodojo_env.py).  A stage stands for any worker's stage: _next_cases  *)
(* gives every one its own share of the wave its cursor names.             *)
(*                                                                         *)
(* A child may answer late, answer with an error, hang or die.  A call     *)
(* that raises ends the run (nothing in the trainers catches it).  The     *)
(* steps of an episode leave the cursors alone and are left out; the       *)
(* stages stop in parallel here and one after another in the code.         *)
(* Bounds: MaxOps calls of the worker, MaxFaults faults.                   *)
(***************************************************************************)
EXTENDS Integers, Sequences

CONSTANTS
  Stages,           \* worker stages
  MaxRestarts,      \* reset_process_max_restarts
  MaxOps, MaxFaults

ASSUME EnvManagerAssumption ==
  MaxRestarts \in Nat /\ MaxOps \in Nat /\ MaxFaults \in Nat

VARIABLES
  (* per stage *)
  child, cursor,    \* the child process, and the case cursors in it
  commands, replies,\* command_queue, result_queue
  saved,            \* state_buffer
  pc, restarts,     \* the parent's thread for the stage, its process_restarts
  got,              \* the wave the last reset of the stage delivered
  (* the worker *)
  op,               \* the call all stages are working on
  served,           \* resets completed on all stages, per mode
  wave,             \* the wave the schedule wants from the last reset
  ops, faults

stage == <<child, cursor, commands, replies, saved, pc, restarts, got>>
vars == <<stage, op, served, wave, ops, faults>>

Modes == {"train", "eval"}
NoWave == -1
Start == [m \in Modes |-> 0]             \* train_case_cursor_start = 0, in waves
NoState == [m \in Modes |-> NoWave]
Waiting == {"reset", "snapshot", "starting", "stopping"}
NoOp == [kind |-> "none", mode |-> "train", fresh |-> FALSE]

Waves == 0..MaxOps
Cursors == [Modes -> Waves]
Replies == [to : {"reset", "get_state"}, ok : BOOLEAN, wave : Waves \cup {NoWave}, cursor : Cursors]
TypeOK ==
  /\ child \in [Stages -> {"down", "booting", "up", "hung", "dead"}]
  /\ cursor \in [Stages -> Cursors]
  /\ commands \in [Stages -> Seq({"reset", "get_state"})]
  /\ replies \in [Stages -> Seq(Replies)]
  /\ saved \in [Stages -> Cursors \cup {NoState}]
  /\ pc \in [Stages -> Waiting \cup {"idle", "stopped", "done", "raised"}]
  /\ restarts \in [Stages -> 0..MaxRestarts]
  /\ got \in [Stages -> Waves \cup {NoWave}]
  /\ op \in [kind : {"none", "reset", "restart", "failed"}, mode : Modes, fresh : BOOLEAN]
  /\ served \in Cursors /\ wave \in Waves \cup {NoWave}
  /\ ops \in 0..MaxOps /\ faults \in 0..MaxFaults

\* init_worker has started every simulator.
Init ==
  /\ child = [s \in Stages |-> "up"] /\ cursor = [s \in Stages |-> Start]
  /\ commands = [s \in Stages |-> <<>>] /\ replies = [s \in Stages |-> <<>>]
  /\ saved = [s \in Stages |-> NoState]
  /\ pc = [s \in Stages |-> "idle"] /\ restarts = [s \in Stages |-> 0]
  /\ got = [s \in Stages |-> NoWave]
  /\ op = NoOp /\ served = Start /\ wave = NoWave /\ ops = 0 /\ faults = 0

Becomes(kind) == op' = [kind |-> kind, mode |-> op.mode, fresh |-> op.fresh]
Fault == faults < MaxFaults /\ faults' = faults + 1

----------------------------------------------------------------------------
(* EnvWorker: a call to all stages, and its end when every stage is done.  *)

CallReset(mode, fresh) ==
  /\ op.kind = "none" /\ ops < MaxOps /\ (fresh => mode = "eval")
  /\ op' = [kind |-> "reset", mode |-> mode, fresh |-> fresh] /\ ops' = ops + 1
  /\ wave' = IF fresh THEN 0 ELSE served[mode]
  /\ pc' = [s \in Stages |-> "reset"] /\ restarts' = [s \in Stages |-> 0]
  /\ commands' = [s \in Stages |-> Append(commands[s], "reset")]
  /\ UNCHANGED <<child, cursor, replies, saved, got, served, faults>>

\* restart_simulators: stop_simulator first asks every child for its state.
CallRestart ==
  /\ op.kind = "none" /\ ops < MaxOps
  /\ Becomes("restart") /\ ops' = ops + 1
  /\ pc' = [s \in Stages |-> "stopping"]
  /\ commands' = [s \in Stages |-> Append(commands[s], "get_state")]
  /\ UNCHANGED <<child, cursor, replies, saved, restarts, got, served, wave, faults>>

\* What load_state brings into a new process.
Restored(s) == IF saved[s] = NoState THEN Start ELSE saved[s]

\* No replacement is started before all old children are gone.
StartAll ==
  /\ op.kind = "restart" /\ \A s \in Stages : pc[s] = "stopped"
  /\ child' = [s \in Stages |-> "booting"]
  /\ cursor' = [s \in Stages |-> Restored(s)]
  /\ pc' = [s \in Stages |-> "starting"]
  /\ UNCHANGED <<commands, replies, saved, restarts, got, op, served, wave, ops, faults>>

Settled == op.kind \in {"reset", "restart"} /\ \A s \in Stages : pc[s] \in {"done", "raised"}
Join ==
  /\ Settled
  /\ IF \E s \in Stages : pc[s] = "raised"
     THEN Becomes("failed") /\ UNCHANGED served
     ELSE /\ op' = NoOp
          /\ served' = IF op.kind = "reset" THEN [served EXCEPT ![op.mode] = wave + 1] ELSE served
  /\ UNCHANGED <<stage, wave, ops, faults>>

\* A restart in which one stage raised never starts the others again.
RestartRaises ==
  /\ op.kind = "restart" /\ \A s \in Stages : pc[s] \in {"stopped", "raised"}
  /\ \E s \in Stages : pc[s] = "raised"
  /\ Becomes("failed")
  /\ UNCHANGED <<stage, served, wave, ops, faults>>

----------------------------------------------------------------------------
(* The parent's thread of stage s.                                         *)

Raise(s) == pc' = [pc EXCEPT ![s] = "raised"]
Answer(s) == Head(replies[s])
Take(s) == replies' = [replies EXCEPT ![s] = Tail(@)]

ResetReturnsUnsaved(s) ==
  /\ pc[s] = "reset" /\ replies[s] # <<>> /\ Take(s)
  /\ IF Answer(s).ok
     THEN pc' = [pc EXCEPT ![s] = "done"] /\ got' = [got EXCEPT ![s] = Answer(s).wave]
     ELSE Raise(s) /\ UNCHANGED got
  /\ UNCHANGED <<child, cursor, commands, saved, restarts, op, served, wave, ops, faults>>
\* The reset is answered; snapshot_state asks for the cursors.
ResetReturns(s) ==
  /\ pc[s] = "reset" /\ replies[s] # <<>> /\ Take(s)
  /\ IF Answer(s).ok
     THEN /\ pc' = [pc EXCEPT ![s] = "snapshot"]
          /\ got' = [got EXCEPT ![s] = Answer(s).wave]
          /\ commands' = [commands EXCEPT ![s] = Append(@, "get_state")]
     ELSE Raise(s) /\ UNCHANGED <<got, commands>>
  /\ UNCHANGED <<child, cursor, saved, restarts, op, served, wave, ops, faults>>

Save(s) == saved' = [saved EXCEPT ![s] = Answer(s).cursor]

SnapshotReturns(s) ==
  /\ pc[s] = "snapshot" /\ replies[s] # <<>> /\ Take(s)
  /\ IF Answer(s).ok THEN pc' = [pc EXCEPT ![s] = "done"] /\ Save(s) ELSE Raise(s) /\ UNCHANGED saved
  /\ UNCHANGED <<child, cursor, commands, restarts, got, op, served, wave, ops, faults>>

Spent(s) == restarts[s] = MaxRestarts

\* A child that hangs makes the wait time out; one that is merely late may.
Late(s) == IF child[s] = "hung" THEN UNCHANGED faults ELSE Fault

TimeoutSameChild(s) ==
  /\ pc[s] \in {"reset", "snapshot"} /\ Late(s)
  /\ IF Spent(s) THEN Raise(s) /\ UNCHANGED <<commands, restarts>>
     ELSE /\ restarts' = [restarts EXCEPT ![s] = @ + 1] /\ pc' = [pc EXCEPT ![s] = "reset"]
          /\ commands' = [commands EXCEPT ![s] = Append(@, "reset")]
  /\ UNCHANGED <<child, cursor, replies, saved, got, op, served, wave, ops>>
TimeoutOfReset(s) ==
  /\ pc[s] = "reset" /\ Late(s) /\ Raise(s)
  /\ UNCHANGED <<child, cursor, commands, replies, saved, restarts, got, op, served, wave, ops>>
\* SimulatorCommandTimeoutError in the reset or in the snapshot: force_stop_simulator keeps
\* state_buffer and drops process and queues, start_simulator loads it into a new process.
Timeout(s) ==
  /\ pc[s] \in {"reset", "snapshot"} /\ Late(s)
  /\ IF Spent(s) THEN Raise(s) /\ UNCHANGED <<child, cursor, commands, replies, restarts>>
     ELSE /\ restarts' = [restarts EXCEPT ![s] = @ + 1] /\ pc' = [pc EXCEPT ![s] = "starting"]
          /\ child' = [child EXCEPT ![s] = "booting"]
          /\ cursor' = [cursor EXCEPT ![s] = Restored(s)]
          /\ commands' = [commands EXCEPT ![s] = <<>>] /\ replies' = [replies EXCEPT ![s] = <<>>]
  /\ UNCHANGED <<saved, got, op, served, wave, ops>>

\* The child reports "ready"; a restart is over, a recovery repeats the reset.
Started(s) ==
  /\ pc[s] = "starting" /\ child[s] = "booting"
  /\ child' = [child EXCEPT ![s] = "up"]
  /\ IF op.kind = "restart"
     THEN pc' = [pc EXCEPT ![s] = "done"] /\ UNCHANGED commands
     ELSE pc' = [pc EXCEPT ![s] = "reset"] /\ commands' = [commands EXCEPT ![s] = Append(@, "reset")]
  /\ UNCHANGED <<cursor, replies, saved, restarts, got, op, served, wave, ops, faults>>

\* No "ready" within simulator_start_timeout_s, or the process exits before it.
StartFails(s) ==
  /\ pc[s] = "starting" /\ child[s] = "booting" /\ Fault /\ Raise(s)
  /\ child' \in {[child EXCEPT ![s] = is] : is \in {"hung", "dead"}}
  /\ UNCHANGED <<cursor, commands, replies, saved, restarts, got, op, served, wave, ops>>

\* stop_simulator has the state, or an error in its place; the process ends.
Stopped(s) ==
  /\ pc[s] = "stopping" /\ replies[s] # <<>>
  /\ IF Answer(s).ok THEN Save(s) ELSE UNCHANGED saved
  /\ pc' = [pc EXCEPT ![s] = "stopped"] /\ child' = [child EXCEPT ![s] = "down"]
  /\ commands' = [commands EXCEPT ![s] = <<>>] /\ replies' = [replies EXCEPT ![s] = <<>>]
  /\ UNCHANGED <<cursor, restarts, got, op, served, wave, ops, faults>>

\* stop_simulator waits 180 s for it (queue.Empty), also when the process is dead.
StopFails(s) ==
  /\ pc[s] = "stopping" /\ Raise(s)
  /\ IF child[s] = "up" THEN Fault ELSE replies[s] = <<>> /\ UNCHANGED faults
  /\ UNCHANGED <<child, cursor, commands, replies, saved, restarts, got, op, served, wave, ops>>

\* call finds the process dead, at once or while it waits.
Exited(s) ==
  /\ pc[s] \in {"reset", "snapshot"} /\ child[s] = "dead" /\ replies[s] = <<>> /\ Raise(s)
  /\ UNCHANGED <<child, cursor, commands, replies, saved, restarts, got, op, served, wave, ops, faults>>

----------------------------------------------------------------------------
(* The child process of stage s.                                           *)

\* reset: reset_eval rewinds the eval cursor, _next_cases hands out the wave and advances.
Delivered(s) == IF op.fresh THEN 0 ELSE cursor[s][op.mode]
Advanced(s) == [cursor[s] EXCEPT ![op.mode] = Delivered(s) + 1]

Reply(s, r) ==
  /\ replies' = [replies EXCEPT ![s] = Append(@, r)]
  /\ commands' = [commands EXCEPT ![s] = Tail(@)]

\* _reset_backend_stably may fail after the cursor has advanced.
ServeReset(s) ==
  /\ child[s] = "up" /\ commands[s] # <<>> /\ Head(commands[s]) = "reset"
  /\ cursor' = [cursor EXCEPT ![s] = Advanced(s)]
  /\ \E ok \in BOOLEAN :
       /\ Reply(s, [to |-> "reset", ok |-> ok, wave |-> Delivered(s), cursor |-> Start])
       /\ IF ok THEN UNCHANGED faults ELSE Fault
  /\ UNCHANGED <<child, saved, pc, restarts, got, op, served, wave, ops>>

ServeState(s) ==
  /\ child[s] = "up" /\ commands[s] # <<>> /\ Head(commands[s]) = "get_state"
  /\ Reply(s, [to |-> "get_state", ok |-> TRUE, wave |-> NoWave, cursor |-> cursor[s]])
  /\ UNCHANGED <<child, cursor, saved, pc, restarts, got, op, served, wave, ops, faults>>

\* It hangs on a command, or dies at any time.
Breaks(s) ==
  /\ child[s] = "up" /\ Fault
  /\ child' \in {[child EXCEPT ![s] = is] :
                   is \in {"dead"} \cup IF commands[s] # <<>> THEN {"hung"} ELSE {}}
  /\ UNCHANGED <<cursor, commands, replies, saved, pc, restarts, got, op, served, wave, ops>>

----------------------------------------------------------------------------
Over == (op.kind = "failed" \/ (op.kind = "none" /\ ops = MaxOps)) /\ UNCHANGED vars

Worker == StartAll \/ Join \/ RestartRaises
Parent(s) == \/ ResetReturns(s) \/ SnapshotReturns(s) \/ Timeout(s) \/ Started(s)
             \/ Stopped(s) \/ StopFails(s) \/ Exited(s)
Child(s) == ServeReset(s) \/ ServeState(s)

Next ==
  \/ Worker \/ CallRestart \/ Over
  \/ \E mode \in Modes, fresh \in BOOLEAN : CallReset(mode, fresh)
  \/ \E s \in Stages : Parent(s) \/ Child(s) \/ StartFails(s) \/ Breaks(s)

Spec == Init /\ [][Next]_vars

(* The threads of the worker and healthy children run. *)
FairSpec == Spec /\ WF_vars(Worker) /\ \A s \in Stages : WF_vars(Parent(s)) /\ WF_vars(Child(s))

----------------------------------------------------------------------------
(* Properties. *)

\* A call takes the answer to its own command, never a late one to a command that timed out
\* before (EnvManager.call reads whatever is first in the result queue).
OwnAnswer ==
  \A s \in Stages :
    /\ pc[s] = "reset" => \A i \in 1..Len(replies[s]) : replies[s][i].to = "reset"
    /\ pc[s] \in {"snapshot", "stopping"} => \A i \in 1..Len(replies[s]) : replies[s][i].to = "get_state"
    /\ Len(replies[s]) <= 1

\* A reset that returns has put every stage of every worker on the wave the schedule wants:
\* no wave is skipped or served twice, whichever stages timed out, were restarted or failed
\* between a reset and its snapshot, and however training and evaluation alternate.  (The types
\* are part of the invariant.)
SameWave ==
  /\ TypeOK
  /\ op.kind = "none" /\ wave # NoWave => \A s \in Stages : got[s] = wave

\* A reset or a restart returns or raises, whatever the children do.
CallReturns == op.kind \in {"reset", "restart"} ~> op.kind \in {"none", "failed"}
=============================================================================
