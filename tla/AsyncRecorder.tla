----------------------------- MODULE AsyncRecorder -----------------------------
(***************************************************************************)
(* Recording of episodes in a simulator process: the thread that steps the *)
(* environments (envs/base.py) gives commands to AsyncRecorder, whose      *)
(* worker thread applies them to the LeRobot dataset and to the videos     *)
(* (recorder/recorder.py, impl/lerobot.py, impl/video.py).                 *)
(*                                                                         *)
(* The calls come in the order EnvLoop and TrainCluster make them: reset,  *)
(* steps, finish_rollout, perhaps a new simulator process, the next reset, *)
(* then pop_completed_dataset.  A frame is the number of the step it shows.*)
(* A recording may fail after some of its work; an error of the caller     *)
(* ends the run.  Bounds: MaxOps calls, MaxFaults faults or replacements.  *)
(***************************************************************************)
EXTENDS Integers, Sequences, SequencesExt, Functions

CONSTANTS NumEnvs, QueueSize, MaxOps, MaxFaults

ASSUME AsyncRecorderAssumption ==
  NumEnvs \in Nat \ {0} /\ QueueSize \in Nat \ {0} /\ MaxOps \in Nat /\ MaxFaults \in Nat

VARIABLES
  auto,             \* auto_reset_enabled
  (* the calling thread *)
  at, op, todo,     \* where it is in which call, the commands it still has to give
  rollout,          \* new (no observation yet), ready, running, between rollouts
  done,             \* _recorder_episode_done
  (* AsyncRecorder *)
  commands, answer, error,
  (* the recorders *)
  mode, pending, dataset, hasEpisode, films, videos, counts,
  (* history *)
  life,             \* frames of the running episode of every environment
  owed,             \* episodes ended since the last pop
  proc,             \* the simulator process that records now
  out,              \* what the last pop returned, what had ended by then
  lost,             \* episodes whose dataset was deleted before a pop returned it
  ops, faults

callingThread == <<auto, at, op, todo, rollout, done>>
recorders == <<mode, pending, dataset, hasEpisode, films, videos, counts>>
history == <<life, owed, proc, out, lost>>
recorderVars == <<callingThread, commands, answer, error, recorders, history, ops, faults>>

EnvIds == 1..NumEnvs
Modes == {"train", "eval"}
Sync == {"set_mode", "pop_completed", "flush"}
Command(name, e, frame, m) == [name |-> name, env |-> e, frame |-> frame, mode |-> m]
Record(e, n) == Command("record_once", e, n, mode)
SaveEpisode(e) == Command("save_episode", e, 0, mode)
ClearEpisode(e) == Command("clear_episode", e, 0, mode)
SyncCommand(name, m) == Command(name, 0, 0, m)
NoAnswer == [is |-> "none", root |-> {}]
NoDataset == [open |-> FALSE, eps |-> {}, buffer |-> <<>>]
Episode(e, frames) == [env |-> e, frames |-> frames]

Frames == Seq(1..MaxOps)
Episodes == [env : EnvIds, frames : Frames]
Commands ==
  [name : {"record_once"}, env : EnvIds, frame : 1..MaxOps, mode : Modes]
    \cup [name : {"save_episode", "clear_episode"}, env : EnvIds, frame : {0}, mode : Modes]
    \cup [name : Sync, env : {0}, frame : {0}, mode : Modes]
RecorderTypeOK ==
  /\ auto \in BOOLEAN /\ at \in {"idle", "check", "put", "wait", "raised"}
  /\ op \in {"none", "reset", "step", "finish", "pop"} /\ todo \in Seq(Commands)
  /\ rollout \in {"new", "ready", "running", "between"} /\ done \in [EnvIds -> BOOLEAN]
  /\ commands \in Seq(Commands) /\ Len(commands) <= QueueSize
  /\ answer \in [is : {"none", "result", "exception"}, root : SUBSET Episodes]
  /\ error \in BOOLEAN /\ mode \in Modes /\ hasEpisode \in BOOLEAN
  /\ pending \in [EnvIds -> Frames] /\ films \in [EnvIds -> Frames] /\ life \in [EnvIds -> Frames]
  /\ dataset \in [open : BOOLEAN, eps : SUBSET Episodes, buffer : Frames]
  /\ DOMAIN videos \subseteq Modes \X EnvIds \X Nat
  /\ counts \in [Modes -> [EnvIds -> Nat]]
  /\ owed \subseteq Episodes /\ lost \subseteq Episodes
  /\ out \in [root : SUBSET Episodes, due : SUBSET Episodes]
  /\ proc \in Nat /\ ops \in 0..MaxOps /\ faults \in 0..MaxFaults

\* A new simulator process: its recorders start empty, the dataset root is cleared.
Fresh ==
  /\ at' = "idle" /\ op' = "none" /\ todo' = <<>> /\ rollout' = "new"
  /\ done' = [e \in EnvIds |-> FALSE]
  /\ commands' = <<>> /\ answer' = NoAnswer /\ error' = FALSE
  /\ mode' = "train" /\ hasEpisode' = FALSE /\ dataset' = [NoDataset EXCEPT !.open = TRUE]
  /\ pending' = [e \in EnvIds |-> <<>>] /\ films' = [e \in EnvIds |-> <<>>]
  /\ counts' = [m \in Modes |-> [e \in EnvIds |-> 0]]
  /\ life' = [e \in EnvIds |-> <<>>] /\ owed' = {}

RecorderInit ==
  /\ auto \in BOOLEAN
  /\ at = "idle" /\ op = "none" /\ todo = <<>> /\ rollout = "new"
  /\ done = [e \in EnvIds |-> FALSE]
  /\ commands = <<>> /\ answer = NoAnswer /\ error = FALSE
  /\ mode = "train" /\ hasEpisode = FALSE /\ dataset = [NoDataset EXCEPT !.open = TRUE]
  /\ pending = [e \in EnvIds |-> <<>>] /\ films = [e \in EnvIds |-> <<>>]
  /\ counts = [m \in Modes |-> [e \in EnvIds |-> 0]] /\ videos = <<>>
  /\ life = [e \in EnvIds |-> <<>>] /\ owed = {}
  /\ proc = 0 /\ out = [root |-> {}, due |-> {}] /\ lost = {}
  /\ ops = 0 /\ faults = 0

Fault == faults < MaxFaults /\ faults' = faults + 1

----------------------------------------------------------------------------
(* The calling thread: one call after another, its commands one by one.    *)

Each(S, F(_)) == FlattenSeq([e \in EnvIds |-> IF e \in S THEN F(e) ELSE <<>>])

Begin(name, commanded) ==
  /\ at = "idle" /\ ops < MaxOps /\ ops' = ops + 1
  /\ at' = "check" /\ op' = name /\ todo' = commanded
  /\ UNCHANGED <<auto, commands, answer, error, recorders, proc, out, lost, faults>>

\* BaseEnv.reset: a changed mode drops the running episodes; with auto_reset the
\* environments are not reset again unless an evaluation begins.
RecordReset(m, resetEval) ==
  LET kept == auto /\ rollout # "new" /\ ~resetEval
      drop == m # mode \/ ~kept
  IN /\ rollout # "running" /\ (resetEval => m = "eval")
     /\ Begin("reset", <<SyncCommand("set_mode", m)>> \o
                       (IF kept THEN <<>> ELSE Each(EnvIds, LAMBDA e : <<ClearEpisode(e)>>)))
     /\ rollout' = "ready"
     /\ done' = IF drop THEN [e \in EnvIds |-> FALSE] ELSE done
     /\ life' = IF drop THEN [e \in EnvIds |-> <<>>] ELSE life
     /\ UNCHANGED owed

\* record_step_result: the environments in D end their episode in this step.
RecordStep(D) ==
  LET n == ops + 1
      open == {e \in EnvIds : ~done[e]}
  IN /\ rollout \in {"ready", "running"} /\ D \subseteq open
     /\ Begin("step", Each(open, LAMBDA e : <<Record(e, n)>> \o
                                            (IF e \in D THEN <<SaveEpisode(e)>> ELSE <<>>))
                      \o (IF auto THEN Each(D, LAMBDA e : <<ClearEpisode(e)>>) ELSE <<>>))
     /\ rollout' = "running"
     /\ done' = [e \in EnvIds |-> done[e] \/ (e \in D /\ ~auto)]
     /\ owed' = owed \cup {Episode(e, Append(life[e], n)) : e \in D}
     /\ life' = [e \in EnvIds |-> IF e \in D THEN <<>>
                                ELSE IF done[e] THEN life[e] ELSE Append(life[e], n)]

RecordFinishUnflushed ==
  /\ rollout = "running" /\ rollout' = "between"
  /\ Begin("finish", IF auto THEN <<>>
                     ELSE Each({e \in EnvIds : ~done[e]}, LAMBDA e : <<SaveEpisode(e)>>))
  /\ IF auto THEN UNCHANGED <<done, owed, life>>
     ELSE /\ done' = [e \in EnvIds |-> TRUE]
          /\ owed' = owed \cup {Episode(e, life[e]) : e \in {x \in EnvIds : life[x] # <<>>}}
          /\ life' = [e \in EnvIds |-> <<>>]
\* finish_rollout saves what is not done yet and flushes.
RecordFinish ==
  /\ rollout = "running" /\ rollout' = "between"
  /\ Begin("finish", IF auto THEN <<>>
                     ELSE Each({e \in EnvIds : ~done[e]}, LAMBDA e : <<SaveEpisode(e)>>)
                          \o <<SyncCommand("flush", mode)>>)
  /\ IF auto THEN UNCHANGED <<done, owed, life>>
     ELSE /\ done' = [e \in EnvIds |-> TRUE]
          /\ owed' = owed \cup {Episode(e, life[e]) : e \in {x \in EnvIds : life[x] # <<>>}}
          /\ life' = [e \in EnvIds |-> <<>>]

PopCompletedDataset ==
  /\ rollout # "running" /\ Begin("pop", <<SyncCommand("pop_completed", mode)>>)
  /\ UNCHANGED <<rollout, done, life, owed>>

\* _raise_worker_error before every command; no command left: the call returns.
Check ==
  /\ at = "check"
  /\ at' = IF todo = <<>> THEN "idle" ELSE IF error THEN "raised" ELSE "put"
  /\ UNCHANGED <<auto, op, todo, rollout, done, commands, answer, error, recorders, history>>
  /\ UNCHANGED <<ops, faults>>

\* queue.put blocks while the queue is full.
Put ==
  /\ at = "put" /\ Len(commands) < QueueSize
  /\ commands' = Append(commands, Head(todo)) /\ todo' = Tail(todo)
  /\ at' = IF Head(todo).name \in Sync THEN "wait" ELSE "check"
  /\ UNCHANGED <<auto, op, rollout, done, answer, error, recorders, history, ops, faults>>

\* The pop's root becomes the caller's.
Took == IF op = "pop" THEN out' = [root |-> answer.root, due |-> owed] /\ owed' = {}
        ELSE UNCHANGED <<out, owed>>

ReceiveUnchecked ==
  /\ at = "wait" /\ answer.is # "none" /\ answer' = NoAnswer
  /\ IF answer.is = "exception" THEN at' = "raised" /\ UNCHANGED <<out, owed>>
     ELSE at' = "check" /\ Took
  /\ UNCHANGED <<auto, op, todo, rollout, done, commands, error, recorders, life, proc, lost>>
  /\ UNCHANGED <<ops, faults>>
\* _run_sync looks at the error of earlier commands again after the answer.
Receive ==
  /\ at = "wait" /\ answer.is # "none" /\ answer' = NoAnswer
  /\ IF answer.is = "exception" \/ error THEN at' = "raised" /\ UNCHANGED <<out, owed>>
     ELSE at' = "check" /\ Took
  /\ UNCHANGED <<auto, op, todo, rollout, done, commands, error, recorders, life, proc, lost>>
  /\ UNCHANGED <<ops, faults>>

\* The simulator process is restarted between rollouts, or because its reset hangs.
Replace ==
  /\ (at = "idle" /\ rollout = "between") \/ (op = "reset" /\ at # "raised" /\ rollout = "ready")
  /\ Fault /\ Fresh
  /\ lost' = lost \cup owed /\ proc' = proc + 1
  /\ UNCHANGED <<auto, videos, out, ops>>
----------------------------------------------------------------------------
(* The worker thread. *)

Serving(name) ==
  /\ commands # <<>> /\ Head(commands).name = name /\ commands' = Tail(commands)
  /\ UNCHANGED <<callingThread, history, ops>>
Env == Head(commands).env
Opened == IF dataset.open THEN dataset ELSE [NoDataset EXCEPT !.open = TRUE]
Fails == Fault /\ error' = TRUE
Succeeds == UNCHANGED <<error, faults>>
Add(f) == [f EXCEPT ![Env] = Append(@, Head(commands).frame)]
Clear(f) == [f EXCEPT ![Env] = <<>>]

\* The dataset that pop_completed gave away is replaced by a new one (whose root is cleared).
RecordOnce ==
  /\ Serving("record_once") /\ dataset' = Opened
  /\ \/ Succeeds /\ pending' = Add(pending) /\ films' = Add(films)
     \/ Fails /\ pending' \in {pending, Add(pending)} /\ UNCHANGED films
  /\ UNCHANGED <<answer, mode, hasEpisode, videos, counts>>

\* LeRobotDatasetRecorder.save_episode, then VideoRecorder.save_episode.
DatasetSaved ==
  IF pending[Env] = <<>> THEN UNCHANGED <<pending, dataset, hasEpisode>>
  ELSE /\ dataset' = [dataset EXCEPT !.eps = @ \cup {Episode(Env, dataset.buffer \o pending[Env])},
                                     !.buffer = <<>>]
       /\ pending' = Clear(pending) /\ hasEpisode' = TRUE
VideoSaved ==
  IF films[Env] = <<>> THEN UNCHANGED <<films, videos, counts>>
  ELSE /\ LET name == <<mode, Env, counts[mode][Env]>>
              film == [by |-> proc, frames |-> films[Env]]
          IN videos' = [v \in DOMAIN videos \cup {name} |-> IF v = name THEN film ELSE videos[v]]
       /\ counts' = [counts EXCEPT ![mode][Env] = @ + 1]
       /\ films' = Clear(films)

\* Without a dataset there is nothing to add the frames to.
Save ==
  /\ Serving("save_episode")
  /\ IF pending[Env] # <<>> /\ ~dataset.open
     THEN error' = TRUE /\ UNCHANGED <<recorders, faults>>
     ELSE /\ DatasetSaved /\ UNCHANGED mode
          /\ \/ Succeeds /\ VideoSaved
             \/ films[Env] # <<>> /\ Fails /\ UNCHANGED <<films, videos, counts>>
  /\ UNCHANGED answer
\* add_frame or save_episode of the dataset fails: frames stay in its episode buffer.
SaveFails ==
  /\ Serving("save_episode")
  /\ pending[Env] # <<>> /\ dataset.open /\ Fails
  /\ \E k \in 0..Len(pending[Env]) :
       dataset' = [dataset EXCEPT !.buffer = @ \o SubSeq(pending[Env], 1, k)]
  /\ UNCHANGED <<answer, mode, pending, hasEpisode, films, videos, counts>>
Discard ==
  /\ Serving("clear_episode") /\ Succeeds
  /\ pending' = Clear(pending) /\ films' = Clear(films)
  /\ UNCHANGED <<answer, mode, dataset, hasEpisode, videos, counts>>

Responds(root) == answer' = [is |-> "result", root |-> root]

SetModeRecounts ==
  /\ Serving("set_mode") /\ Succeeds /\ Responds({})
  /\ mode' = Head(commands).mode
  /\ IF mode' = mode THEN UNCHANGED <<pending, films, counts>>
     ELSE /\ pending' = [e \in EnvIds |-> <<>>] /\ films' = [e \in EnvIds |-> <<>>]
          /\ counts' = [counts EXCEPT ![mode'] = [e \in EnvIds |-> 0]]
  /\ UNCHANGED <<dataset, hasEpisode, videos>>
SetMode ==
  /\ Serving("set_mode") /\ Succeeds /\ Responds({})
  /\ mode' = Head(commands).mode
  /\ IF mode' = mode THEN UNCHANGED <<pending, films>>
     ELSE pending' = [e \in EnvIds |-> <<>>] /\ films' = [e \in EnvIds |-> <<>>]
  /\ UNCHANGED <<dataset, hasEpisode, videos, counts>>

\* None unless an episode was saved; otherwise the finalized dataset.
Pop ==
  /\ Serving("pop_completed") /\ Succeeds
  /\ IF hasEpisode THEN Responds(dataset.eps) /\ dataset' = NoDataset
     ELSE Responds({}) /\ UNCHANGED dataset
  /\ hasEpisode' = FALSE
  /\ UNCHANGED <<mode, pending, films, videos, counts>>
\* The exception is the answer of a synchronous command.
PopFails ==
  /\ Serving("pop_completed") /\ hasEpisode /\ Fails
  /\ answer' = [is |-> "exception", root |-> {}]
  /\ UNCHANGED recorders

Flush == Serving("flush") /\ Succeeds /\ Responds({}) /\ UNCHANGED recorders

----------------------------------------------------------------------------
Over ==
  /\ at = "raised" \/ (at = "idle" /\ ops = MaxOps)
  /\ commands = <<>> /\ UNCHANGED recorderVars

Caller == Check \/ Put \/ Receive
Worker == RecordOnce \/ Save \/ SaveFails \/ Discard \/ SetMode \/ Pop \/ PopFails \/ Flush

RecorderNext ==
  \/ \E m \in Modes, resetEval \in BOOLEAN : RecordReset(m, resetEval)
  \/ \E D \in SUBSET EnvIds : RecordStep(D)
  \/ RecordFinish \/ PopCompletedDataset \/ Caller \/ Worker \/ Replace \/ Over

RecorderSpec == RecorderInit /\ [][RecorderNext]_recorderVars

----------------------------------------------------------------------------
(* Properties. *)

\* A pop returns exactly the episodes that ended since the pop before it (or since the process
\* was replaced), each with all its frames and no other: a failure of an earlier command, after
\* which the worker goes on with half an episode in its buffer, is raised before the pop returns.
\* The worker fails only when a recording fails: no order of the calls saves an episode into the
\* dataset a pop has given away.  (The types are part of the invariant.)
PopExact == RecorderTypeOK /\ out.root = out.due /\ (error => faults > 0)

\* When finish_rollout has returned (no auto_reset), every episode since the last pop is in the
\* dataset and on video (base.py:976: every queued save is durable by then).
FlushDurable ==
  rollout = "between" /\ at = "idle" /\ ~auto =>
    \A x \in owed : /\ x \in dataset.eps
                     /\ \E v \in DOMAIN videos : videos[v] = [by |-> proc, frames |-> x.frames]

\* No video overwrites another one of the same process, in whichever order modes alternate.
VideosKept ==
  [][\A v \in DOMAIN videos :
       v \in DOMAIN videos' /\ (videos'[v] # videos[v] => videos[v].by # proc)]_recorderVars

\* What finish_rollout has made durable stays until a pop returns it.
KeptUntilPopped == ~auto => lost = {}
=============================================================================
