----------------------------- MODULE LerobotIpc -----------------------------
(***************************************************************************)
(* A LeRobotEnv and the process that drives the robot for it               *)
(* (envs/lerobot): the runtime runs in a tmux session of its own, requests *)
(* and replies go through two named pipes (ipc_channel.py), and the        *)
(* environment meets every failure of a call in one way: it kills the      *)
(* session, starts another and sends the request again.  The runtime exits *)
(* when it finds the process that started it gone.                         *)
(*                                                                         *)
(* A pipe can be opened for writing only while its reader has it open, and *)
(* loses its contents when it is closed at both ends.  tmux kill-session   *)
(* hangs the runtime up, which kills it (no handler of SIGHUP).  A call    *)
(* that times out while the runtime is healthy is a fault; the boot wait   *)
(* (10 s) is longer than the watchdog's period (1 s) unless a fault says   *)
(* otherwise.  chunk_step is a sequence of steps.                          *)
(* Bounds: MaxCalls requests, MaxFaults faults.                            *)
(***************************************************************************)
EXTENDS Naturals, Sequences

CONSTANTS MaxCalls, MaxFaults

ASSUME LerobotAssumption == MaxCalls \in Nat /\ MaxFaults \in Nat

VARIABLES
  (* the environment, in the process me *)
  me, pc,
  call,             \* the request it works on, or NoCall
  episode,          \* robot episode its last reset began, or NoEpisode
  sent,             \* number of requests so far
  (* the runtime and the pipes *)
  at,               \* where the process in the tmux session is; "none": no session
  owner, hung,      \* the environment it was started by; it makes no progress
  job, ep,          \* the request it executes, the robot episode it is in
  fifos,            \* both paths exist
  request, reply,   \* contents of the pipes
  (* history *)
  life,             \* runtimes started so far
  trace,            \* what the robot has executed
  faults

env == <<me, pc, call, episode, sent>>
rt == <<at, owner, hung, job, ep>>
pipes == <<fifos, request, reply>>
vars == <<env, rt, pipes, life, trace, faults>>

NoCall == [n |-> 0, kind |-> "none"]
NoEpisode == <<0, 0>>
Empty == [n |-> 0, ep |-> NoEpisode]

Session == at # "none"                  \* tmux has-session
Healthy == Session /\ ~hung
NoSession == at' = "none" /\ owner' = 0 /\ hung' = FALSE /\ job' = NoCall /\ ep' = NoEpisode
Fault == faults < MaxFaults /\ faults' = faults + 1

Init ==
  /\ me = 1 /\ pc = "ensure" /\ call = NoCall /\ episode = NoEpisode /\ sent = 0
  /\ at = "none" /\ owner = 0 /\ hung = FALSE /\ job = NoCall /\ ep = NoEpisode
  /\ fifos = FALSE /\ request = NoCall /\ reply = Empty
  /\ life = 0 /\ trace = <<>> /\ faults = 0

---------------------------------------------------------------------------
(* The environment: start of the runtime.                                  *)

ClearIpc == fifos' = FALSE /\ request' = NoCall /\ reply' = Empty

\* Top of the loop in _ensure_tmux_lerobot_runtime: a session that is there is kept.
Ensure ==
  /\ pc = "ensure" /\ pc' = "wait"
  /\ IF Session THEN UNCHANGED <<rt, pipes, life>>
     ELSE /\ ClearIpc /\ life' = life + 1
          /\ at' = "start" /\ owner' = me
          /\ UNCHANGED <<hung, job, ep>>
  /\ UNCHANGED <<me, call, episode, sent, trace, faults>>

\* The runtime's watchdog finds the owner gone; it is started when the robot is connected.
Orphaned == at \in {"recv", "exec", "reply"} /\ owner # me

\* At the end of the boot wait both paths exist.  An orphaned runtime is gone by then, unless
\* closing the robot keeps its watchdog.
Ready ==
  /\ pc = "wait" /\ fifos
  /\ IF Orphaned THEN request = NoCall /\ Fault ELSE UNCHANGED faults
  /\ pc' = IF call = NoCall THEN "idle" ELSE "send"
  /\ UNCHANGED <<me, call, episode, sent, rt, pipes, life, trace>>

NotReadyKeepsSession ==
  /\ pc = "wait" /\ pc' = "ensure"
  /\ IF Healthy THEN ~fifos /\ Fault ELSE (~Session \/ ~fifos) /\ UNCHANGED faults
  /\ ClearIpc
  /\ UNCHANGED <<me, call, episode, sent, rt, life, trace>>
\* The session has ended, or the paths do not exist in time: kill, clear, begin again.
NotReady ==
  /\ pc = "wait" /\ pc' = "ensure"
  /\ IF Healthy THEN ~fifos /\ Fault ELSE (~Session \/ ~fifos) /\ UNCHANGED faults
  /\ NoSession /\ ClearIpc
  /\ UNCHANGED <<me, call, episode, sent, life, trace>>

---------------------------------------------------------------------------
(* The environment: calls.                                                 *)

\* reset_envs_to_state_ids, and step once an episode has begun.
Call(kind) ==
  /\ pc = "idle" /\ sent < MaxCalls /\ (kind = "step" => episode # NoEpisode)
  /\ pc' = "send" /\ sent' = sent + 1 /\ call' = [n |-> sent + 1, kind |-> kind]
  /\ UNCHANGED <<me, episode, rt, pipes, life, trace, faults>>

\* The paths exist and the runtime is reading: the request is written.
Send ==
  /\ pc = "send" /\ fifos /\ at = "recv" /\ request = NoCall
  /\ pc' = "read" /\ request' = call
  /\ UNCHANGED <<me, call, episode, sent, rt, fifos, reply, life, trace, faults>>

Return ==
  /\ pc = "read" /\ reply # Empty
  /\ pc' = "idle" /\ call' = NoCall /\ reply' = Empty
  /\ episode' = IF call.kind = "reset" THEN reply.ep ELSE episode
  /\ UNCHANGED <<me, sent, rt, fifos, request, life, trace, faults>>

\* The runtime cannot answer: it is dead or hung, or waits to deliver an older reply.
Stuck == ~Healthy \/ (pc = "send" /\ at = "reply")

TimeoutKeepsRuntime ==
  /\ pc \in {"send", "read"} /\ pc' = "ensure"
  /\ IF Stuck THEN UNCHANGED faults ELSE Fault
  /\ reply' = Empty
  /\ UNCHANGED <<me, call, episode, sent, rt, fifos, request, life, trace>>
\* send_obj raises; _restart_tmux_lerobot_runtime kills the session before it ensures one, and
\* the request is sent again.
Timeout ==
  /\ pc \in {"send", "read"} /\ pc' = "ensure"
  /\ IF Stuck THEN UNCHANGED faults ELSE Fault
  /\ NoSession /\ reply' = Empty /\ request' = NoCall
  /\ UNCHANGED <<me, call, episode, sent, fifos, life, trace>>

Close ==
  /\ pc = "idle" /\ pc' = "closed"
  /\ NoSession /\ ClearIpc
  /\ UNCHANGED <<me, call, episode, sent, life, trace, faults>>

\* The simulator process is killed (EnvManager) and a new environment is built; a runtime that
\* is writing to it then dies of the broken pipe.
OwnerKilled ==
  /\ pc # "closed" /\ Fault
  /\ me' = me + 1 /\ pc' = "ensure" /\ call' = NoCall /\ episode' = NoEpisode
  /\ reply' = Empty
  /\ UNCHANGED rt \/ (at = "reply" /\ pc = "read" /\ NoSession)
  /\ UNCHANGED <<sent, fifos, request, life, trace>>

---------------------------------------------------------------------------
(* The runtime.                                                            *)

Runs(from, to) == Healthy /\ at = from /\ at' = to /\ UNCHANGED <<owner, hung>>

\* setup_ipc makes new pipes before the robot is connected.
SetupIpc ==
  /\ Runs("start", "boot") /\ UNCHANGED <<job, ep>>
  /\ fifos' = TRUE /\ request' = NoCall /\ reply' = Empty
  /\ UNCHANGED <<env, life, trace, faults>>

Boots == Runs("boot", "recv") /\ UNCHANGED <<job, ep, env, pipes, life, trace, faults>>

Receive ==
  /\ Runs("recv", "exec") /\ request # NoCall
  /\ job' = request /\ request' = NoCall
  /\ UNCHANGED <<ep, env, fifos, reply, life, trace, faults>>

NextEpisodeForgets == <<life, ep[2] + 1>>
\* A reset begins an episode, and so does a step that finds none.
NextEpisode ==
  IF job.kind = "reset" \/ ep = NoEpisode THEN <<life, ep[2] + 1>> ELSE ep
Execute ==
  /\ Runs("exec", "reply") /\ ep' = NextEpisode
  /\ trace' = Append(trace, [n |-> job.n, life |-> life])
  /\ UNCHANGED <<job, env, pipes, life, faults>>

\* reply_obj waits for a reader.
Reply ==
  /\ pc = "read" /\ Runs("reply", "recv") /\ reply' = [n |-> job.n, ep |-> ep]
  /\ UNCHANGED <<job, ep, env, fifos, request, life, trace, faults>>

\* An exception ends the process and its session; the pipes stay.
Dies ==
  /\ Healthy /\ Fault /\ NoSession
  /\ request' = NoCall
  /\ UNCHANGED <<env, fifos, reply, life, trace>>

\* A camera, a motor or the operator keeps it.
Hangs ==
  /\ Healthy /\ at \in {"start", "boot", "exec"} /\ Fault
  /\ hung' = TRUE
  /\ UNCHANGED <<at, owner, job, ep, env, pipes, life, trace>>

\* The watchdog thread closes the robot, removes the pipes and exits.
Watchdog ==
  /\ Orphaned /\ NoSession /\ ClearIpc
  /\ UNCHANGED <<env, life, trace, faults>>

---------------------------------------------------------------------------
Over == pc = "closed" /\ UNCHANGED vars

Environment == Ensure \/ Ready \/ NotReady \/ Send \/ Return \/ Timeout
Runtime == SetupIpc \/ Boots \/ Receive \/ Execute \/ Reply

Next ==
  \/ Environment \/ Runtime \/ Watchdog \/ Dies \/ Hangs \/ OwnerKilled \/ Close \/ Over
  \/ \E kind \in {"reset", "step"} : Call(kind)

Spec == Init /\ [][Next]_vars

(* All threads run; what hangs is a fault of its own. *)
FairSpec == Spec /\ WF_vars(Environment) /\ WF_vars(Runtime) /\ WF_vars(Watchdog)

---------------------------------------------------------------------------
(* Properties.                                                             *)

Calls == [n : 0..MaxCalls, kind : {"none", "reset", "step"}]
EpisodeIds == (0..life) \X Nat
TypeOK ==
  /\ me \in 1..(faults + 1) /\ sent \in 0..MaxCalls /\ faults \in 0..MaxFaults
  /\ pc \in {"ensure", "wait", "idle", "send", "read", "closed"}
  /\ call \in Calls /\ request \in Calls /\ fifos \in BOOLEAN
  /\ at \in {"none", "start", "boot", "recv", "exec", "reply"}
  /\ owner \in 0..me /\ hung \in BOOLEAN /\ job \in Calls /\ life \in Nat
  /\ {episode, ep} \subseteq EpisodeIds /\ reply \in [n : 0..MaxCalls, ep : EpisodeIds]
  /\ trace \in Seq([n : 1..MaxCalls, life : Nat])

\* The reply a call takes is the one to its own request, never to one that timed out or that
\* the killed predecessor sent; and a step is answered from the episode the last reset began,
\* unless the runtime has been replaced since.  (The types are part of the invariant.)
OwnReply ==
  /\ TypeOK
  /\ pc = "read" /\ reply # Empty =>
       /\ reply.n = call.n
       /\ call.kind = "step" => reply.ep = episode \/ reply.ep[1] > episode[1]

\* However often requests are sent again, the robot executes them in the order of the calls,
\* and none twice in the life of one runtime: an action is repeated only after a new reset.
RobotInOrder ==
  \A i, j \in DOMAIN trace : i < j =>
    /\ trace[i].n <= trace[j].n
    /\ trace[i].n = trace[j].n => trace[i].life # trace[j].life

\* A call returns, also after the runtime has died, hung or been orphaned.
CallReturns == pc \notin {"idle", "closed"} ~> pc = "idle"

\* The steps between two resets belong to one episode of the robot.
EpisodeUnbroken ==
  pc = "read" /\ reply # Empty /\ call.kind = "step" => reply.ep = episode
=============================================================================
