---------------------------- MODULE RolloutLoop ----------------------------
(***************************************************************************)
(* The train cluster's rollout calls and the SAC trainer around them       *)
(* (train_cluster/cluster.py, train_cluster/env_loop.py,                   *)
(* trainer/sac/sac_ray_trainer.py, trainer/sac/episode_buffer.py,          *)
(* envs/base.py).                                                          *)
(*                                                                         *)
(* A rollout plays Window policy steps on every pipeline stage, each stage *)
(* a loop of its own over a simulator of its own, and then asks for the    *)
(* next reset, whose observation the next rollout starts from.  With       *)
(* async_rollout the next one already runs, as a remote task, while the    *)
(* trainer consumes the last; an evaluation must wait for it and keep its  *)
(* batch.  With auto_reset an episode may span rollouts: the simulator     *)
(* answers a reset with its current observation, and both the trainer's    *)
(* EpisodeBuffer and the cluster's carry keep what is unfinished.          *)
(*                                                                         *)
(* One lane per stage; a policy chunk is one step; losses, the replay pool *)
(* and the contents of observations are abstracted to what they are of:    *)
(* an episode, a step in it and a weight version.                          *)
(***************************************************************************)
EXTENDS Naturals, Sequences, FiniteSets

CONSTANTS Stages,       \* pipeline stages, one simulator per mode and stage
          Window,       \* max_interactions: policy steps of one rollout
          Horizon,      \* longest episode with auto_reset
          Target,       \* episodes an evaluation needs
          MaxSteps,     \* bound: trainer steps
          MaxEvals,     \* bound: evaluations
          EpisodeIds    \* bound: episodes of a simulator are counted modulo this

ASSUME RolloutAssumption ==
  /\ Stages # {} /\ Window \in Nat \ {0} /\ Horizon \in Nat \ {0}
  /\ Target \in Nat /\ MaxSteps \in Nat /\ MaxEvals \in Nat /\ EpisodeIds \in Nat \ {0}

VARIABLES cfg,          \* [auto, async, separate, shared]: fixed configuration
          version,      \* weight version of the actor
          served,       \* version held by a separate rollout model
          sims,         \* mode -> stage -> [ep, n, over]
          state,        \* RolloutState: [obs, carry], obs = None before the first reset
          run,          \* the generate_sequences in progress
          finished,     \* result of a rollout nobody has received yet, or None
          ready,        \* _ready_rollout_result: kept over an evaluation, or None
          batch,        \* the rollout output the trainer holds
          buffer,       \* EpisodeBuffer._lanes
          evaluated,    \* records the running evaluation has accepted
          pc, back,     \* where fit() is, and where an evaluation returns to
          calls,        \* actor versions at the last two rollout calls
          launched, taken, steps, evals   \* counters

vars == <<cfg, version, served, sims, state, run, finished, ready, batch, buffer,
          evaluated, pc, back, calls, launched, taken, steps, evals>>

None == [id |-> 0]
Idle == [kind |-> "none"]
Modes == {"train", "eval"}

\* EnvWorker._simulators: some back ends serve both modes from one simulator.
Pool(mode) == IF cfg.shared THEN "train" ELSE mode

\* The weights generate_sequences runs on: a colocated actor serves itself.
Serving == IF cfg.separate THEN served ELSE version

Shown(sim) == <<sim.ep, sim.n>>
Fresh(sim) == [ep |-> (sim.ep % EpisodeIds) + 1, n |-> 0, over |-> FALSE]

\* Mutant: the cached observation is ignored, every reset is a real one.
ResetAlways(mode, first) ==
  [sims EXCEPT ![Pool(mode)] = [s \in Stages |-> Fresh(@[s])]]

\* BaseEnv.reset on every stage: with auto_reset a simulator that has shown an
\* observation answers with it, unless an evaluation asks for its first case.
Reset(mode, first) ==
  [sims EXCEPT ![Pool(mode)] =
     [s \in Stages |-> IF cfg.auto /\ @[s].ep > 0 /\ ~first THEN @[s] ELSE Fresh(@[s])]]

Observed(pools, mode) == [s \in Stages |-> Shown(pools[Pool(mode)][s])]
NoCarry == [s \in Stages |-> 0]

---------------------------------------------------------------------------
(* One generate_sequences.                                                 *)

Started(kind, id, obs, carry) ==
  [kind |-> kind, id |-> id, obs |-> obs, carry |-> carry,
   slots |-> [s \in Stages |-> <<>>]]

\* _rollout_once up to generate_sequences: the prefetched reset, or a new one.
Launch(from) ==
  /\ sims' = IF from.obs = <<>> THEN Reset("train", FALSE) ELSE sims
  /\ run' = Started("train", launched + 1,
                    IF from.obs = <<>> THEN Observed(sims', "train") ELSE from.obs,
                    from.carry)
  /\ launched' = launched + 1

\* The episodes of the simulators end after two steps at least.  Without
\* auto_reset they end in the window (the trainer's contract) and the simulator
\* is not stepped again; its feedback is zeroed, the done flags included.
MustEnd(sim) == sim.n + 1 = IF cfg.auto THEN Horizon ELSE Window
Stepped(sim, done) ==
  IF sim.over THEN sim
  ELSE IF ~done THEN [sim EXCEPT !.n = @ + 1]
  ELSE IF cfg.auto THEN Fresh(sim)
  ELSE [sim EXCEPT !.n = @ + 1, !.over = TRUE]

StageStep(s) ==
  /\ run # Idle /\ Len(run.slots[s]) < Window
  /\ \E done \in BOOLEAN :
       LET pool == Pool(run.kind)
           sim  == sims[pool][s]
           next == Stepped(sim, done)
       IN /\ sim.over => ~done
          /\ done => sim.n > 0
          /\ ~sim.over /\ MustEnd(sim) => done
          /\ sims' = [sims EXCEPT ![pool][s] = next]
          /\ run' = [run EXCEPT
               !.obs[s] = Shown(next),
               !.slots[s] = Append(@, [ep |-> sim.ep, n |-> sim.n, done |-> done,
                                       over |-> sim.over, obs |-> run.obs[s],
                                       version |-> Serving])]
  /\ UNCHANGED <<cfg, version, served, state, finished, ready, batch, buffer,
                 evaluated, pc, back, calls, launched, taken, steps, evals>>

AllPlayed == run # Idle /\ \A s \in Stages : Len(run.slots[s]) = Window

Ends(slots) == {i \in 1..Len(slots) : slots[i].done}
Last(S) == CHOOSE x \in S : \A y \in S : y <= x
Start(slots, i) == LET b == {j \in Ends(slots) : j < i} IN IF b = {} THEN 0 ELSE Last(b)

\* _collect_trajectory_records: a length per finished episode, the carry of
\* earlier rollouts added to the first; without auto_reset one record per lane.
Records ==
  UNION {LET slots == run.slots[s]
             first(i) == Start(slots, i) = 0
         IN IF cfg.auto
            THEN {[stage |-> s, at |-> i,
                   length |-> i - Start(slots, i) + (IF first(i) THEN run.carry[s] ELSE 0)]
                  : i \in Ends(slots)}
            ELSE {LET e == {i \in Ends(slots) : first(i)}
                      i == IF e = {} THEN Window ELSE Last(e)
                  IN [stage |-> s, at |-> i, length |-> i]}
         : s \in Stages}
\* Mutant: what follows a done in the window does not get into the carry.
CarriedShort ==
  [s \in Stages |-> IF Ends(run.slots[s]) = {} THEN run.carry[s] + Window ELSE 0]

Carried ==
  [s \in Stages |-> IF ~cfg.auto THEN run.carry[s]
                    ELSE IF Ends(run.slots[s]) = {} THEN run.carry[s] + Window
                    ELSE Window - Last(Ends(run.slots[s]))]

\* _rollout_once after generate_sequences: the next reset is dispatched and the
\* result, with the state to go on from, is returned.
RolloutEnds ==
  /\ AllPlayed /\ run.kind = "train"
  /\ sims' = Reset("train", FALSE)
  /\ finished' = [id |-> run.id, slots |-> run.slots,
                  state |-> [obs |-> Observed(sims', "train"), carry |-> Carried]]
  /\ run' = Idle
  /\ UNCHANGED <<cfg, version, served, state, ready, batch, buffer, evaluated,
                 pc, back, calls, launched, taken, steps, evals>>

---------------------------------------------------------------------------
(* TrainCluster.rollout, as one trainer step calls it.                     *)

\* The call returns result r, going on from state st; with async_rollout the
\* new weights are sent and the next rollout is started first.
Took(r, st) ==
  /\ batch' = r /\ taken' = taken + 1 /\ state' = st
  /\ calls' = <<calls[2], version>> /\ pc' = "ingest"
  /\ IF cfg.async THEN served' = version /\ Launch(st)
                  ELSE UNCHANGED <<served, sims, run, launched>>

\* A synchronous rollout: the weights first, then the collection.
RolloutSync ==
  /\ pc = "step" /\ ~cfg.async
  /\ served' = version
  /\ Launch(state)
  /\ pc' = "collect"
  /\ UNCHANGED <<cfg, version, state, finished, ready, batch, buffer, evaluated,
                 back, calls, taken, steps, evals>>

\* Mutant: the kept result's own copy of the state is restored.
RolloutReadyCopy ==
  /\ pc = "step" /\ cfg.async /\ ready # None
  /\ ready' = None
  /\ Took(ready, ready.state)
  /\ UNCHANGED <<cfg, version, finished, buffer, evaluated, back, steps, evals>>

\* The batch an evaluation kept is handed out first.  Its state is the object
\* the evaluation refreshed meanwhile, not a copy.
RolloutReady ==
  /\ pc = "step" /\ cfg.async /\ ready # None
  /\ ready' = None
  /\ Took(ready, state)
  /\ UNCHANGED <<cfg, version, finished, buffer, evaluated, back, steps, evals>>

\* Otherwise wait for the rollout in flight, or start one first.
RolloutAsync ==
  /\ pc = "step" /\ cfg.async /\ ready = None
  /\ IF run = Idle /\ finished = None THEN Launch(state)
                                      ELSE UNCHANGED <<sims, run, launched>>
  /\ pc' = "collect"
  /\ UNCHANGED <<cfg, version, served, state, finished, ready, batch, buffer,
                 evaluated, back, calls, taken, steps, evals>>

Receive ==
  /\ pc = "collect" /\ finished # None
  /\ finished' = None
  /\ Took(finished, finished.state)
  /\ UNCHANGED <<cfg, version, ready, buffer, evaluated, back, steps, evals>>

---------------------------------------------------------------------------
(* The trainer.                                                            *)

\* EpisodeBuffer.ingest: the segments of the lane that end in a done and have
\* two slots at least; what follows the last done stays.
Lane(s) == buffer[s] \o batch.slots[s]
Complete(s) ==
  {SubSeq(Lane(s), Start(Lane(s), i) + 1, i) :
     i \in {j \in Ends(Lane(s)) : j - Start(Lane(s), j) > 1}}
Rest(s) == IF Ends(Lane(s)) = {} THEN Lane(s)
           ELSE SubSeq(Lane(s), Last(Ends(Lane(s))) + 1, Len(Lane(s)))

Updated == version' = version + 1 /\ pc' = "test"

\* fit(): ingest and update the actor; without auto_reset nothing may be left
\* over, or the training run ends in a ValueError.
Train ==
  /\ pc = "ingest"
  /\ buffer' = [s \in Stages |-> Rest(s)]
  /\ batch' = None
  /\ IF ~cfg.auto /\ \E s \in Stages : Rest(s) # <<>>
     THEN pc' = "raised" /\ UNCHANGED version
     ELSE Updated
  /\ UNCHANGED <<cfg, served, sims, state, run, finished, ready, evaluated, back,
                 calls, launched, taken, steps, evals>>

\* A step without a rollout (rollout_times, critic warm-up) only updates.
TrainOnly ==
  /\ pc = "step"
  /\ Updated
  /\ UNCHANGED <<cfg, served, sims, state, run, finished, ready, batch, buffer,
                 evaluated, back, calls, launched, taken, steps, evals>>

NextStep ==
  /\ pc \in {"fit", "test"}
  /\ pc' = IF steps = MaxSteps THEN "done" ELSE "step"
  /\ steps' = IF steps = MaxSteps THEN steps ELSE steps + 1
  /\ UNCHANGED <<cfg, version, served, sims, state, run, finished, ready, batch,
                 buffer, evaluated, back, calls, launched, taken, evals>>

---------------------------------------------------------------------------
(* TrainCluster.eval.                                                      *)

EvalRun(first, carry) ==
  /\ sims' = Reset("eval", first)
  /\ run' = Started("eval", 0, Observed(sims', "eval"), carry)

\* Mutant: the weights are sent before the rollout in flight has ended.
EvalBeginsEarly ==
  /\ pc \in {"fit", "test"} /\ evals < MaxEvals
  /\ run # Idle
  /\ served' = version
  /\ UNCHANGED <<cfg, version, sims, state, run, finished, ready, batch, buffer,
                 evaluated, pc, back, calls, launched, taken, steps, evals>>

\* Mutant: the finished rollout is waited for and dropped.
EvalBeginsDrops ==
  /\ pc \in {"fit", "test"} /\ evals < MaxEvals
  /\ run = Idle
  /\ state' = IF finished # None THEN finished.state ELSE state
  /\ finished' = None
  /\ served' = version
  /\ EvalRun(TRUE, NoCarry)
  /\ evaluated' = 0 /\ evals' = evals + 1
  /\ back' = pc /\ pc' = "eval"
  /\ UNCHANGED <<cfg, version, ready, batch, buffer, calls, launched, taken, steps>>

\* Finish the rollout in flight, keep its result, then send the weights.
EvalBegins ==
  /\ pc \in {"fit", "test"} /\ evals < MaxEvals
  /\ run = Idle
  /\ IF finished # None
     THEN ready' = finished /\ state' = finished.state
     ELSE UNCHANGED <<ready, state>>
  /\ finished' = None
  /\ served' = version
  /\ EvalRun(TRUE, NoCarry)
  /\ evaluated' = 0 /\ evals' = evals + 1
  /\ back' = pc /\ pc' = "eval"
  /\ UNCHANGED <<cfg, version, batch, buffer, calls, launched, taken, steps>>

EvalDone == evaluated + Cardinality(Records) >= Target

\* Mutant: the records of earlier rounds are forgotten.
EvalRoundForgets ==
  /\ AllPlayed /\ run.kind = "eval" /\ ~EvalDone
  /\ EvalRun(FALSE, Carried)
  /\ UNCHANGED <<cfg, version, served, state, finished, ready, batch, buffer,
                 evaluated, pc, back, calls, launched, taken, steps, evals>>

\* Not enough episodes yet: another reset in mode "eval" and another rollout.
EvalRound ==
  /\ AllPlayed /\ run.kind = "eval" /\ ~EvalDone
  /\ EvalRun(FALSE, Carried)
  /\ evaluated' = evaluated + Cardinality(Records)
  /\ UNCHANGED <<cfg, version, served, state, finished, ready, batch, buffer, pc,
                 back, calls, launched, taken, steps, evals>>

\* Enough: the prefetched reset is replaced, and fit() clears the buffer.
EvalEnds ==
  /\ AllPlayed /\ run.kind = "eval" /\ EvalDone
  /\ sims' = Reset("train", FALSE)
  /\ state' = [obs |-> Observed(sims', "train"), carry |-> NoCarry]
  /\ run' = Idle
  /\ buffer' = IF back = "fit" THEN buffer ELSE [s \in Stages |-> <<>>]
  /\ evaluated' = 0
  /\ IF back = "fit" \/ steps < MaxSteps
     THEN pc' = "step" /\ steps' = steps + 1
     ELSE pc' = "done" /\ UNCHANGED steps
  /\ UNCHANGED <<cfg, version, served, finished, ready, batch, back, calls,
                 launched, taken, evals>>

---------------------------------------------------------------------------
\* async_rollout needs a rollout model of its own.
Configs == {c \in [auto : BOOLEAN, async : BOOLEAN, separate : BOOLEAN, shared : BOOLEAN] :
              c.async => c.separate}

Init ==
  /\ cfg \in Configs
  /\ version = 0 /\ served = 0
  /\ sims = [m \in Modes |-> [s \in Stages |-> [ep |-> 0, n |-> 0, over |-> FALSE]]]
  /\ state = [obs |-> <<>>, carry |-> NoCarry]
  /\ run = Idle /\ finished = None /\ ready = None /\ batch = None
  /\ buffer = [s \in Stages |-> <<>>]
  /\ evaluated = 0
  /\ pc = "fit" /\ back = "fit"
  /\ calls = <<0, 0>> /\ launched = 0 /\ taken = 0 /\ steps = 0 /\ evals = 0

Terminated ==
  /\ pc \in {"done", "raised"} /\ run = Idle
  /\ UNCHANGED vars

Next == \/ \E s \in Stages : StageStep(s)
        \/ RolloutEnds
        \/ RolloutSync \/ RolloutReady \/ RolloutAsync \/ Receive
        \/ Train \/ TrainOnly \/ NextStep
        \/ EvalBegins \/ EvalRound \/ EvalEnds
        \/ Terminated

Spec == Init /\ [][Next]_vars

\* Every stage is a task of the event loop, the trainer a thread; an episode
\* reaches its horizon, so no fairness on its end is assumed.
FairSpec == Spec /\ WF_vars(Next) /\ \A s \in Stages : WF_vars(StageStep(s))

---------------------------------------------------------------------------
(* Properties.                                                             *)

Obs == (0..EpisodeIds) \X (0..(IF Window > Horizon THEN Window ELSE Horizon))
Slot == [ep : 1..EpisodeIds, n : Nat, done : BOOLEAN, over : BOOLEAN, obs : Obs,
         version : Nat]
Carries == [Stages -> Nat]
Runs == [kind : Modes, id : Nat, obs : [Stages -> Obs], carry : Carries,
         slots : [Stages -> Seq(Slot)]]
Batches == [id : Nat \ {0}, slots : [Stages -> Seq(Slot)],
            state : [obs : [Stages -> Obs], carry : Carries]]
IsBatch(b) == b = None \/ (b \in Batches /\ \A s \in Stages : Len(b.slots[s]) = Window)

\* Type invariant.  A result exists only where one can wait for it, the kept
\* one only with async_rollout, and before an evaluation no lane of the buffer
\* holds more than an unfinished episode: less than a horizon of slots.
TypeOK ==
  /\ cfg \in Configs /\ version \in Nat /\ served \in 0..version
  /\ sims \in [Modes -> [Stages -> [ep : 0..EpisodeIds, n : Nat, over : BOOLEAN]]]
  /\ state \in [obs : {<<>>} \cup [Stages -> Obs], carry : Carries]
  /\ run \in {Idle} \cup Runs
  /\ run # Idle => \A s \in Stages : Len(run.slots[s]) <= Window
  /\ IsBatch(finished) /\ IsBatch(ready) /\ IsBatch(batch)
  /\ ready # None => cfg.async /\ finished = None
  /\ finished # None => run = Idle
  /\ buffer \in [Stages -> Seq(Slot)]
  /\ pc \in {"test", "step"} /\ cfg.auto /\ evals = 0 => \A s \in Stages : Len(buffer[s]) < Horizon
  /\ pc \in {"fit", "step", "collect", "ingest", "test", "eval", "done", "raised"}
  /\ back \in {"fit", "test"} /\ calls \in Nat \X Nat
  /\ launched \in Nat /\ taken \in Nat /\ steps \in Nat /\ evals \in Nat
  /\ batch # None <=> pc = "ingest"

\* A rollout, on all its stages, is collected under one weight version: nobody
\* sends weights to the rollout model while one is in flight.
OneVersion ==
  run # Idle => \A s \in Stages : \A i \in DOMAIN run.slots[s] :
                  run.slots[s][i].version = Serving

\* What the trainer updates on was collected by the current actor, and with
\* async_rollout by one no older than the previous call of rollout().
PolicyLag ==
  pc = "ingest" => \A s \in Stages : \A i \in 1..Window :
    LET v == batch.slots[s][i].version
    IN IF cfg.async THEN v \in calls[1]..version ELSE v = version

\* Both, and the types they rest on: one version per rollout, and the right one
\* (update_weights, TrainCluster.rollout).
PolicyVersion == TypeOK /\ OneVersion /\ PolicyLag

\* Every rollout that was started is handed to the trainer once, in order,
\* also when an evaluation comes between.
EachBatchOnce == pc = "ingest" => batch.id = taken

\* The policy acts on the observation the simulator shows: also on the first
\* step, from a reset dispatched by an earlier rollout or an evaluation.
FreshObs ==
  run # Idle => \A s \in Stages : \A i \in DOMAIN run.slots[s] :
    LET slot == run.slots[s][i] IN slot.obs = <<slot.ep, slot.n>>

\* EpisodeBuffer hands out steps of one episode, in order and without a gap,
\* and before any evaluation from the episode's first step on.  (After an
\* evaluation with auto_reset the first steps were cleared; with a shared
\* simulator the batch kept over the evaluation is not in sequence either.)
WholeEpisodes ==
  pc = "ingest" => \A s \in Stages : \A e \in Complete(s) :
    /\ (cfg.auto /\ evals > 0) \/ e[1].n = 0
    /\ \/ cfg.auto /\ evals > 0 /\ cfg.async /\ cfg.shared
       \/ \A i \in DOMAIN e : e[i].ep = e[1].ep /\ e[i].n = e[1].n + i - 1

\* A trajectory record's length is the length of the episode, over however many
\* rollouts it was played; for training, up to the first evaluation.
RecordsExact ==
  AllPlayed => \A r \in Records :
    \/ (run.kind = "train" /\ cfg.auto /\ evals > 0)
    \/ r.length = run.slots[r.stage][r.at].n + 1

\* fit() comes to its end: no call waits for a rollout that was never started,
\* and an evaluation finds its episodes.
FitEnds == <>(pc \in {"done", "raised"})

\* The trainer's contract is enough: lanes that end inside the window, as every
\* lane here does, are never reported as unfinished.
NeverRaises == pc # "raised"

\* An evaluation leaves a new training episode behind, not the rest of one.
NewEpisodeAfterEval ==
  [][run # Idle /\ run.kind = "eval" /\ run' = Idle =>
       \A s \in Stages : state'.obs[s][2] = 0]_vars

---------------------------------------------------------------------------
(* The inductive invariant behind the safety properties.                   *)

TrainSim(s) == sims[Pool("train")][s]

\* The rollout that was started and not taken yet, at most one.
Pending == ready # None \/ finished # None \/ run.kind = "train"
InFlight(s) == IF ready # None THEN ready.slots[s]
               ELSE IF finished # None THEN finished.slots[s]
               ELSE IF run.kind = "train" THEN run.slots[s] ELSE <<>>
Held(s) == IF batch = None THEN buffer[s] ELSE Lane(s)

Exclusive ==
  /\ run.kind = "eval" <=> pc = "eval"
  /\ pc = "eval" => evals > 0
  /\ run.kind = "train" => finished = None /\ ready = None
  /\ ~cfg.async /\ Pending => pc = "collect"
  /\ pc = "fit" \/ (pc = "eval" /\ back = "fit") => \A s \in Stages : buffer[s] = <<>>

Ledger ==
  /\ launched = IF Pending THEN taken + 1 ELSE taken
  /\ run.kind = "train" => run.id = launched
  /\ finished # None => finished.id = launched
  /\ ready # None => ready.id = launched
  /\ EachBatchOnce

VersionsIn(slots, V) == \A s \in Stages : \A i \in 1..Window : slots[s][i].version \in V

Versions ==
  /\ OneVersion /\ PolicyLag
  /\ IF cfg.async
     THEN /\ calls[2] <= served
          /\ finished # None => VersionsIn(finished.slots, calls[2]..version)
          /\ ready # None => VersionsIn(ready.slots, calls[2]..version)
     ELSE /\ run.kind = "train" => Serving = version
          /\ finished # None => VersionsIn(finished.slots, {version})

\* Where a simulator can be within an episode.
SimBounds ==
  \A m \in Modes : \A s \in Stages : LET sim == sims[m][s] IN
    IF cfg.auto THEN ~sim.over /\ sim.n < Horizon
    ELSE IF sim.over THEN sim.n <= Window ELSE sim.n < Window

\* A rollout that starts from this state starts where the simulators are.
Current(st) ==
  /\ st.obs = Observed(sims, "train")
  /\ \A s \in Stages : /\ TrainSim(s).ep > 0
                       /\ ~cfg.auto => TrainSim(s).n = 0 /\ ~TrainSim(s).over
                       /\ cfg.auto /\ evals = 0 => st.carry[s] = TrainSim(s).n

Untouched ==
  /\ state = [obs |-> <<>>, carry |-> NoCarry] /\ finished = None
  /\ launched = 0 /\ evals = 0
  /\ \A s \in Stages : buffer[s] = <<>> /\ TrainSim(s) = [ep |-> 0, n |-> 0, over |-> FALSE]

StartsRight ==
  /\ run = Idle => Untouched \/ Current(IF finished # None THEN finished.state ELSE state)
  /\ launched > 0 => \A s \in Stages : TrainSim(s).ep > 0
  /\ run # Idle => \A s \in Stages : LET sim == sims[Pool(run.kind)][s] IN
                     run.obs[s] = Shown(sim) /\ sim.ep > 0

\* One episode after the other, each step by step.
Quiet(seq, i, j) == \A k \in i..(j - 1) : ~seq[k].done
InSequence(seq) ==
  /\ \A i, j \in 1..Len(seq) :
       i <= j /\ Quiet(seq, i, j) => seq[j].ep = seq[i].ep /\ seq[j].n = seq[i].n + (j - i)
  /\ \A i \in 1..Len(seq) : seq[i].done /\ i < Len(seq) => seq[i + 1].n = 0
Linked(seq, x) ==
  seq # <<>> => IF seq[Len(seq)].done THEN x.n = 0
                ELSE x.ep = seq[Len(seq)].ep /\ x.n = seq[Len(seq)].n + 1
Opens(seq, x) == IF seq = <<>> THEN x ELSE seq[1]
Bounded(seq) == \A i \in 1..Len(seq) : /\ seq[i].n < Horizon
                                       /\ ~seq[i].done => seq[i].n + 1 < Horizon

\* With auto_reset the steps of a simulator are in sequence from the trainer's buffer
\* over the batches to the simulator itself.
Unbroken == evals = 0 \/ ~(cfg.async /\ cfg.shared)
Stream(s) ==
  LET next == Opens(InFlight(s), TrainSim(s)) IN
  /\ InSequence(InFlight(s)) /\ Bounded(InFlight(s))
  /\ run # Idle => LET sim == sims[Pool(run.kind)][s] IN
       /\ InSequence(run.slots[s]) /\ Linked(run.slots[s], sim)
       /\ run.kind = "eval" \/ evals = 0 => Opens(run.slots[s], sim).n = run.carry[s]
  /\ Bounded(Held(s)) /\ Ends(buffer[s]) = {}
  /\ Unbroken => InSequence(Held(s))
  /\ Unbroken /\ ~(pc = "eval" /\ cfg.shared) =>
       Linked(InFlight(s), TrainSim(s)) /\ Linked(Held(s), next)
  /\ evals = 0 => Opens(Held(s), next).n = 0

\* Without it a rollout is one episode from its first step, and what the zeroed feedback of
\* a simulator that is over looks like.
OneEpisode(slots) ==
  /\ \A i \in 1..Len(slots) : Quiet(slots, 1, i) => slots[i].ep = slots[1].ep /\ slots[i].n = i - 1
  /\ \A i, j \in 1..Len(slots) : i < j /\ slots[i].done => ~slots[j].done
Single(s) ==
  /\ OneEpisode(InFlight(s))
  /\ batch # None => OneEpisode(batch.slots[s])
  /\ pc # "raised" => buffer[s] = <<>>
  /\ run # Idle => LET sim == sims[Pool(run.kind)][s]
                       slots == run.slots[s] IN
       /\ OneEpisode(slots)
       /\ IF Quiet(slots, 1, Len(slots) + 1)
          THEN ~sim.over /\ sim.n = Len(slots) /\ (slots # <<>> => sim.ep = slots[1].ep)
          ELSE sim.over

\* What TLAPS proves inductive.
IInv == /\ TypeOK /\ Exclusive /\ Ledger /\ Versions /\ SimBounds /\ StartsRight /\ FreshObs
        /\ \A s \in Stages : IF cfg.auto THEN Stream(s) ELSE Single(s)

=============================================================================
