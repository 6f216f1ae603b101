--------------------------- MODULE LerobotIpcProofs ---------------------------
(***************************************************************************)
(* Proofs about LerobotIpc, for any number of calls and faults.            *)
(***************************************************************************)
EXTENDS LerobotIpc, SequenceTheorems, TLAPS

\* Which call is pending, and where its request and its reply can be.
Pending ==
  /\ call # NoCall => call.n = sent /\ call.n # 0
  /\ pc \in {"send", "read"} => call # NoCall
  /\ pc = "idle" => call = NoCall
  /\ pc = "ensure" /\ call # NoCall => ~Session

Transit ==
  /\ reply # Empty => pc = "read" /\ request = NoCall /\ at \notin {"exec", "reply"}
  /\ request # NoCall => at = "recv" /\ (pc = "read" => request = call)
  /\ at \in {"exec", "reply"} /\ pc = "read" => job = call
  /\ request # NoCall \/ at \in {"exec", "reply"} => pc = "read" \/ episode = NoEpisode

\* No call after n has been executed, and n itself in earlier runtimes only.
Fresh(n) == \A i \in 1..Len(trace) :
  trace[i].n <= n /\ (trace[i].n = n => trace[i].life < life)

\* What the runtime will execute next is fresh, and so is the call that will be sent.
Order ==
  /\ \A i \in 1..Len(trace) : trace[i].n <= sent /\ trace[i].life <= life
  /\ at = "exec" => job.n \in 1..sent /\ Fresh(job.n)
  /\ request # NoCall => request.n \in 1..sent /\ Fresh(request.n)
  /\ pc \in {"wait", "send"} /\ call # NoCall =>
       /\ Fresh(call.n)
       /\ at = "exec" => job.n < call.n
       /\ request # NoCall => request.n < call.n

\* The robot's episode is the environment's, unless a reset is on its way or the runtime is new.
Episodes ==
  /\ ep # NoEpisode => Session /\ ep[1] = life
  /\ at = "reply" => ep # NoEpisode
  /\ call.kind = "step" => episode # NoEpisode
  /\ Session /\ episode # NoEpisode /\ episode[1] = life =>
       ep = episode \/ (pc = "read" /\ call.kind = "reset")
  /\ reply # Empty /\ Session => reply.ep = ep

IInv == TypeOK /\ Pending /\ Transit /\ Order /\ Episodes /\ OwnReply /\ RobotInOrder

-----------------------------------------------------------------------------
(* Values without a call, a reply or an episode *)

LEMMA Values ==
  /\ NoCall \in Calls /\ NoCall.n = 0 /\ NoCall.kind = "none"
  /\ Empty.n = 0 /\ Empty.ep = NoEpisode /\ NoEpisode[1] = 0 /\ NoEpisode[2] = 0
  /\ (life \in Nat => NoEpisode \in EpisodeIds /\ Empty \in [n : 0..MaxCalls, ep : EpisodeIds])
BY LerobotAssumption DEF NoCall, Calls, Empty, NoEpisode, EpisodeIds

LEMMA EmptyTrace == <<>> \in Seq([n : 1..MaxCalls, life : Nat]) /\ Len(<<>>) = 0
OBVIOUS

LEMMA Elements ==
  ASSUME TypeOK
  PROVE  \A i \in 1..Len(trace) : trace[i].n \in 1..MaxCalls /\ trace[i].life \in Nat
<1> SUFFICES ASSUME NEW i \in 1..Len(trace)
             PROVE  trace[i].n \in 1..MaxCalls /\ trace[i].life \in Nat
  OBVIOUS
<1>1. trace[i] \in [n : 1..MaxCalls, life : Nat]
  BY ElementOfSeq DEF TypeOK
<1> QED
  BY <1>1

\* Appending a record to the trace.
LEMMA Extended ==
  ASSUME TypeOK, NEW n \in 1..MaxCalls, NEW l \in Nat
  PROVE  LET t == Append(trace, [n |-> n, life |-> l])
         IN  /\ t \in Seq([n : 1..MaxCalls, life : Nat])
             /\ Len(t) = Len(trace) + 1
             /\ \A i \in 1..Len(trace) : t[i] = trace[i]
             /\ t[Len(t)].n = n /\ t[Len(t)].life = l
BY DEF TypeOK

LEMMA InitInv == Init => IInv
<1> SUFFICES ASSUME Init PROVE IInv
  OBVIOUS
<1> USE LerobotAssumption, Values DEF Init
<1>1. TypeOK
  <2>1. life \in Nat /\ {episode, ep} \subseteq EpisodeIds /\ reply \in [n : 0..MaxCalls, ep : EpisodeIds]
    OBVIOUS
  <2>2. trace \in Seq([n : 1..MaxCalls, life : Nat])
    BY EmptyTrace
  <2>3. owner \in 0..me /\ me \in 1..(faults + 1) /\ sent \in 0..MaxCalls /\ faults \in 0..MaxFaults
    OBVIOUS
  <2> QED
    BY <2>1, <2>2, <2>3 DEF TypeOK
<1>2. Pending /\ Transit /\ Order /\ Episodes
  BY DEF Pending, Transit, Order, Episodes, Session
<1>3. OwnReply /\ RobotInOrder
  BY <1>1 DEF OwnReply, RobotInOrder
<1> QED
  BY <1>1, <1>2, <1>3 DEF IInv

LEMMA EnsureKeeps ==
  ASSUME IInv, Ensure
  PROVE  IInv'
<1> USE Values DEF IInv, Ensure, NoSession, ClearIpc, Session, env, rt, pipes
<1>1. TypeOK'
  <2>1. EpisodeIds \subseteq EpisodeIds'
    BY DEF TypeOK, EpisodeIds
  <2>2. /\ me' \in 1..(faults' + 1) /\ sent' \in 0..MaxCalls /\ faults' \in 0..MaxFaults
        /\ owner' \in 0..me' /\ life' \in Nat
    BY LerobotAssumption DEF TypeOK
  <2>3. /\ pc' \in {"ensure", "wait", "idle", "send", "read", "closed"}
        /\ at' \in {"none", "start", "boot", "recv", "exec", "reply"}
        /\ fifos' \in BOOLEAN /\ hung' \in BOOLEAN
    BY DEF TypeOK
  <2>4. call' \in Calls /\ request' \in Calls /\ job' \in Calls
    BY DEF TypeOK
  <2>5. {episode', ep'} \subseteq EpisodeIds' /\ reply' \in [n : 0..MaxCalls, ep : EpisodeIds']
    BY <2>1 DEF TypeOK
  <2>6. trace' \in Seq([n : 1..MaxCalls, life : Nat])
    BY DEF TypeOK
  <2> QED
    BY <2>2, <2>3, <2>4, <2>5, <2>6 DEF TypeOK
<1>2. Pending'
  BY DEF TypeOK, Pending, Session, Transit
<1>3. Transit'
  BY DEF TypeOK, Pending, Transit
<1>4. Order'
  <2>1. CASE Session
    BY <2>1 DEF TypeOK, Pending, Order, Fresh
  <2>2. CASE ~Session
    <3>1. request' = NoCall /\ at' = "start" /\ trace' = trace /\ life' = life + 1 /\ call' = call
      BY <2>2
    <3>2. \A i \in 1..Len(trace) : /\ trace[i].n \in Nat /\ trace[i].n <= sent
                                   /\ trace[i].life \in Nat /\ trace[i].life < life'
      BY <3>1, Elements DEF TypeOK, Order
    <3>3. call # NoCall => Fresh(call.n)'
      BY <3>1, <3>2 DEF Pending, Fresh
    <3> QED
      BY <3>1, <3>2, <3>3 DEF TypeOK, Order
  <2> QED
    BY <2>1, <2>2
<1>5. Episodes'
  <2>1. CASE Session
    BY <2>1 DEF TypeOK, Episodes
  <2>2. CASE ~Session
    <3>1. ep' = NoEpisode /\ reply' = Empty /\ episode'[1] # life'
      BY <2>2 DEF TypeOK, Episodes, EpisodeIds
    <3> QED
      BY <2>2, <3>1 DEF Episodes
  <2> QED
    BY <2>1, <2>2
<1>6. OwnReply'
  BY <1>1 DEF TypeOK, Transit, Episodes, OwnReply
<1>7. RobotInOrder'
  BY DEF RobotInOrder
<1> QED
  BY <1>1, <1>2, <1>3, <1>4, <1>5, <1>6, <1>7

LEMMA ReadyKeeps ==
  ASSUME IInv, Ready
  PROVE  IInv'
<1> USE Values DEF IInv, Ready, Orphaned, Fault, env, rt, pipes
<1>1. TypeOK'
  <2>1. EpisodeIds \subseteq EpisodeIds'
    BY DEF TypeOK, EpisodeIds
  <2>2. /\ me' \in 1..(faults' + 1) /\ sent' \in 0..MaxCalls /\ faults' \in 0..MaxFaults
        /\ owner' \in 0..me' /\ life' \in Nat
    BY LerobotAssumption DEF TypeOK
  <2>3. /\ pc' \in {"ensure", "wait", "idle", "send", "read", "closed"}
        /\ at' \in {"none", "start", "boot", "recv", "exec", "reply"}
        /\ fifos' \in BOOLEAN /\ hung' \in BOOLEAN
    BY DEF TypeOK
  <2>4. call' \in Calls /\ request' \in Calls /\ job' \in Calls
    BY DEF TypeOK
  <2>5. {episode', ep'} \subseteq EpisodeIds' /\ reply' \in [n : 0..MaxCalls, ep : EpisodeIds']
    BY <2>1 DEF TypeOK
  <2>6. trace' \in Seq([n : 1..MaxCalls, life : Nat])
    BY DEF TypeOK
  <2> QED
    BY <2>2, <2>3, <2>4, <2>5, <2>6 DEF TypeOK
<1>2. Pending'
  BY DEF TypeOK, Pending, Session, Transit
<1>3. Transit'
  BY DEF TypeOK, Pending, Transit
<1>4. Order'
  BY DEF TypeOK, Pending, Transit, Order, Fresh
<1>5. Episodes'
  BY DEF TypeOK, Pending, Transit, Episodes, Session
<1>6. OwnReply'
  BY <1>1 DEF TypeOK, Transit, Episodes, OwnReply
<1>7. RobotInOrder'
  BY DEF RobotInOrder
<1> QED
  BY <1>1, <1>2, <1>3, <1>4, <1>5, <1>6, <1>7

LEMMA NotReadyKeeps ==
  ASSUME IInv, NotReady
  PROVE  IInv'
<1> USE Values DEF IInv, NotReady, Healthy, Session, Fault, NoSession, ClearIpc, env, rt, pipes
<1>1. TypeOK'
  <2>1. EpisodeIds \subseteq EpisodeIds'
    BY DEF TypeOK, EpisodeIds
  <2>2. /\ me' \in 1..(faults' + 1) /\ sent' \in 0..MaxCalls /\ faults' \in 0..MaxFaults
        /\ owner' \in 0..me' /\ life' \in Nat
    BY LerobotAssumption DEF TypeOK
  <2>3. /\ pc' \in {"ensure", "wait", "idle", "send", "read", "closed"}
        /\ at' \in {"none", "start", "boot", "recv", "exec", "reply"}
        /\ fifos' \in BOOLEAN /\ hung' \in BOOLEAN
    BY DEF TypeOK
  <2>4. call' \in Calls /\ request' \in Calls /\ job' \in Calls
    BY DEF TypeOK
  <2>5. {episode', ep'} \subseteq EpisodeIds' /\ reply' \in [n : 0..MaxCalls, ep : EpisodeIds']
    BY <2>1 DEF TypeOK
  <2>6. trace' \in Seq([n : 1..MaxCalls, life : Nat])
    BY DEF TypeOK
  <2> QED
    BY <2>2, <2>3, <2>4, <2>5, <2>6 DEF TypeOK
<1>2. Pending'
  BY DEF TypeOK, Pending, Session, Transit
<1>3. Transit'
  BY DEF TypeOK, Pending, Transit
<1>4. Order'
  BY DEF TypeOK, Pending, Transit, Order, Fresh
<1>5. Episodes'
  BY DEF TypeOK, Pending, Transit, Episodes, Session
<1>6. OwnReply'
  BY <1>1 DEF TypeOK, Transit, Episodes, OwnReply
<1>7. RobotInOrder'
  BY DEF RobotInOrder
<1> QED
  BY <1>1, <1>2, <1>3, <1>4, <1>5, <1>6, <1>7

LEMMA SendKeeps ==
  ASSUME IInv, Send
  PROVE  IInv'
<1> USE Values DEF IInv, Send, env, rt, pipes
<1>1. TypeOK'
  <2>1. EpisodeIds \subseteq EpisodeIds'
    BY DEF TypeOK, EpisodeIds
  <2>2. /\ me' \in 1..(faults' + 1) /\ sent' \in 0..MaxCalls /\ faults' \in 0..MaxFaults
        /\ owner' \in 0..me' /\ life' \in Nat
    BY LerobotAssumption DEF TypeOK
  <2>3. /\ pc' \in {"ensure", "wait", "idle", "send", "read", "closed"}
        /\ at' \in {"none", "start", "boot", "recv", "exec", "reply"}
        /\ fifos' \in BOOLEAN /\ hung' \in BOOLEAN
    BY DEF TypeOK
  <2>4. call' \in Calls /\ request' \in Calls /\ job' \in Calls
    BY DEF TypeOK
  <2>5. {episode', ep'} \subseteq EpisodeIds' /\ reply' \in [n : 0..MaxCalls, ep : EpisodeIds']
    BY <2>1 DEF TypeOK
  <2>6. trace' \in Seq([n : 1..MaxCalls, life : Nat])
    BY DEF TypeOK
  <2> QED
    BY <2>2, <2>3, <2>4, <2>5, <2>6 DEF TypeOK
<1>2. Pending'
  BY DEF TypeOK, Pending, Session, Transit
<1>3. Transit'
  BY DEF TypeOK, Pending, Transit
<1>4. Order'
  BY DEF TypeOK, Pending, Transit, Order, Fresh
<1>5. Episodes'
  BY DEF TypeOK, Pending, Transit, Episodes, Session
<1>6. OwnReply'
  BY <1>1 DEF TypeOK, Transit, Episodes, OwnReply
<1>7. RobotInOrder'
  BY DEF RobotInOrder
<1> QED
  BY <1>1, <1>2, <1>3, <1>4, <1>5, <1>6, <1>7

LEMMA ReturnKeeps ==
  ASSUME IInv, Return
  PROVE  IInv'
<1> USE Values DEF IInv, Return, env, rt, pipes
<1>1. TypeOK'
  <2>1. EpisodeIds \subseteq EpisodeIds'
    BY DEF TypeOK, EpisodeIds
  <2>2. /\ me' \in 1..(faults' + 1) /\ sent' \in 0..MaxCalls /\ faults' \in 0..MaxFaults
        /\ owner' \in 0..me' /\ life' \in Nat
    BY LerobotAssumption DEF TypeOK
  <2>3. /\ pc' \in {"ensure", "wait", "idle", "send", "read", "closed"}
        /\ at' \in {"none", "start", "boot", "recv", "exec", "reply"}
        /\ fifos' \in BOOLEAN /\ hung' \in BOOLEAN
    BY DEF TypeOK
  <2>4. call' \in Calls /\ request' \in Calls /\ job' \in Calls
    BY DEF TypeOK
  <2>5. {episode', ep'} \subseteq EpisodeIds' /\ reply' \in [n : 0..MaxCalls, ep : EpisodeIds']
    BY <2>1 DEF TypeOK
  <2>6. trace' \in Seq([n : 1..MaxCalls, life : Nat])
    BY DEF TypeOK
  <2> QED
    BY <2>2, <2>3, <2>4, <2>5, <2>6 DEF TypeOK
<1>2. Pending'
  BY DEF TypeOK, Pending, Session, Transit
<1>3. Transit'
  BY DEF TypeOK, Pending, Transit
<1>4. Order'
  BY DEF TypeOK, Pending, Transit, Order, Fresh
<1>5. Episodes'
  BY DEF TypeOK, Pending, Transit, Episodes, Session
<1>6. OwnReply'
  BY <1>1 DEF TypeOK, Transit, Episodes, OwnReply
<1>7. RobotInOrder'
  BY DEF RobotInOrder
<1> QED
  BY <1>1, <1>2, <1>3, <1>4, <1>5, <1>6, <1>7

LEMMA TimeoutKeeps ==
  ASSUME IInv, Timeout
  PROVE  IInv'
<1> USE Values DEF IInv, Timeout, Stuck, Fault, NoSession, Healthy, Session, env, rt, pipes
<1>1. TypeOK'
  <2>1. EpisodeIds \subseteq EpisodeIds'
    BY DEF TypeOK, EpisodeIds
  <2>2. /\ me' \in 1..(faults' + 1) /\ sent' \in 0..MaxCalls /\ faults' \in 0..MaxFaults
        /\ owner' \in 0..me' /\ life' \in Nat
    BY LerobotAssumption DEF TypeOK
  <2>3. /\ pc' \in {"ensure", "wait", "idle", "send", "read", "closed"}
        /\ at' \in {"none", "start", "boot", "recv", "exec", "reply"}
        /\ fifos' \in BOOLEAN /\ hung' \in BOOLEAN
    BY DEF TypeOK
  <2>4. call' \in Calls /\ request' \in Calls /\ job' \in Calls
    BY DEF TypeOK
  <2>5. {episode', ep'} \subseteq EpisodeIds' /\ reply' \in [n : 0..MaxCalls, ep : EpisodeIds']
    BY <2>1 DEF TypeOK
  <2>6. trace' \in Seq([n : 1..MaxCalls, life : Nat])
    BY DEF TypeOK
  <2> QED
    BY <2>2, <2>3, <2>4, <2>5, <2>6 DEF TypeOK
<1>2. Pending'
  BY DEF TypeOK, Pending, Session, Transit
<1>3. Transit'
  BY DEF TypeOK, Pending, Transit
<1>4. Order'
  BY DEF TypeOK, Pending, Transit, Order, Fresh
<1>5. Episodes'
  BY DEF TypeOK, Pending, Transit, Episodes, Session
<1>6. OwnReply'
  BY <1>1 DEF TypeOK, Transit, Episodes, OwnReply
<1>7. RobotInOrder'
  BY DEF RobotInOrder
<1> QED
  BY <1>1, <1>2, <1>3, <1>4, <1>5, <1>6, <1>7

LEMMA SetupIpcKeeps ==
  ASSUME IInv, SetupIpc
  PROVE  IInv'
<1> USE Values DEF IInv, SetupIpc, Runs, Healthy, Session, env, rt, pipes
<1>1. TypeOK'
  <2>1. EpisodeIds \subseteq EpisodeIds'
    BY DEF TypeOK, EpisodeIds
  <2>2. /\ me' \in 1..(faults' + 1) /\ sent' \in 0..MaxCalls /\ faults' \in 0..MaxFaults
        /\ owner' \in 0..me' /\ life' \in Nat
    BY LerobotAssumption DEF TypeOK
  <2>3. /\ pc' \in {"ensure", "wait", "idle", "send", "read", "closed"}
        /\ at' \in {"none", "start", "boot", "recv", "exec", "reply"}
        /\ fifos' \in BOOLEAN /\ hung' \in BOOLEAN
    BY DEF TypeOK
  <2>4. call' \in Calls /\ request' \in Calls /\ job' \in Calls
    BY DEF TypeOK
  <2>5. {episode', ep'} \subseteq EpisodeIds' /\ reply' \in [n : 0..MaxCalls, ep : EpisodeIds']
    BY <2>1 DEF TypeOK
  <2>6. trace' \in Seq([n : 1..MaxCalls, life : Nat])
    BY DEF TypeOK
  <2> QED
    BY <2>2, <2>3, <2>4, <2>5, <2>6 DEF TypeOK
<1>2. Pending'
  BY DEF TypeOK, Pending, Session, Transit
<1>3. Transit'
  BY DEF TypeOK, Pending, Transit
<1>4. Order'
  BY DEF TypeOK, Pending, Transit, Order, Fresh
<1>5. Episodes'
  BY DEF TypeOK, Pending, Transit, Episodes, Session
<1>6. OwnReply'
  BY <1>1 DEF TypeOK, Transit, Episodes, OwnReply
<1>7. RobotInOrder'
  BY DEF RobotInOrder
<1> QED
  BY <1>1, <1>2, <1>3, <1>4, <1>5, <1>6, <1>7

LEMMA BootsKeeps ==
  ASSUME IInv, Boots
  PROVE  IInv'
<1> USE Values DEF IInv, Boots, Runs, Healthy, Session, env, rt, pipes
<1>1. TypeOK'
  <2>1. EpisodeIds \subseteq EpisodeIds'
    BY DEF TypeOK, EpisodeIds
  <2>2. /\ me' \in 1..(faults' + 1) /\ sent' \in 0..MaxCalls /\ faults' \in 0..MaxFaults
        /\ owner' \in 0..me' /\ life' \in Nat
    BY LerobotAssumption DEF TypeOK
  <2>3. /\ pc' \in {"ensure", "wait", "idle", "send", "read", "closed"}
        /\ at' \in {"none", "start", "boot", "recv", "exec", "reply"}
        /\ fifos' \in BOOLEAN /\ hung' \in BOOLEAN
    BY DEF TypeOK
  <2>4. call' \in Calls /\ request' \in Calls /\ job' \in Calls
    BY DEF TypeOK
  <2>5. {episode', ep'} \subseteq EpisodeIds' /\ reply' \in [n : 0..MaxCalls, ep : EpisodeIds']
    BY <2>1 DEF TypeOK
  <2>6. trace' \in Seq([n : 1..MaxCalls, life : Nat])
    BY DEF TypeOK
  <2> QED
    BY <2>2, <2>3, <2>4, <2>5, <2>6 DEF TypeOK
<1>2. Pending'
  BY DEF TypeOK, Pending, Session, Transit
<1>3. Transit'
  BY DEF TypeOK, Pending, Transit
<1>4. Order'
  BY DEF TypeOK, Pending, Transit, Order, Fresh
<1>5. Episodes'
  BY DEF TypeOK, Pending, Transit, Episodes, Session
<1>6. OwnReply'
  BY <1>1 DEF TypeOK, Transit, Episodes, OwnReply
<1>7. RobotInOrder'
  BY DEF RobotInOrder
<1> QED
  BY <1>1, <1>2, <1>3, <1>4, <1>5, <1>6, <1>7

LEMMA ReceiveKeeps ==
  ASSUME IInv, Receive
  PROVE  IInv'
<1> USE Values DEF IInv, Receive, Runs, Healthy, Session, env, rt, pipes
<1>1. TypeOK'
  <2>1. EpisodeIds \subseteq EpisodeIds'
    BY DEF TypeOK, EpisodeIds
  <2>2. /\ me' \in 1..(faults' + 1) /\ sent' \in 0..MaxCalls /\ faults' \in 0..MaxFaults
        /\ owner' \in 0..me' /\ life' \in Nat
    BY LerobotAssumption DEF TypeOK
  <2>3. /\ pc' \in {"ensure", "wait", "idle", "send", "read", "closed"}
        /\ at' \in {"none", "start", "boot", "recv", "exec", "reply"}
        /\ fifos' \in BOOLEAN /\ hung' \in BOOLEAN
    BY DEF TypeOK
  <2>4. call' \in Calls /\ request' \in Calls /\ job' \in Calls
    BY DEF TypeOK
  <2>5. {episode', ep'} \subseteq EpisodeIds' /\ reply' \in [n : 0..MaxCalls, ep : EpisodeIds']
    BY <2>1 DEF TypeOK
  <2>6. trace' \in Seq([n : 1..MaxCalls, life : Nat])
    BY DEF TypeOK
  <2> QED
    BY <2>2, <2>3, <2>4, <2>5, <2>6 DEF TypeOK
<1>2. Pending'
  BY DEF TypeOK, Pending, Session, Transit
<1>3. Transit'
  BY DEF TypeOK, Pending, Transit
<1>4. Order'
  BY DEF TypeOK, Pending, Transit, Order, Fresh
<1>5. Episodes'
  BY DEF TypeOK, Pending, Transit, Episodes, Session
<1>6. OwnReply'
  BY <1>1 DEF TypeOK, Transit, Episodes, OwnReply
<1>7. RobotInOrder'
  BY DEF RobotInOrder
<1> QED
  BY <1>1, <1>2, <1>3, <1>4, <1>5, <1>6, <1>7

LEMMA ExecuteKeeps ==
  ASSUME IInv, Execute
  PROVE  IInv'
<1> USE Values DEF IInv, Execute, Runs, Healthy, Session, NextEpisode, env, rt, pipes
<1>1. TypeOK'
  <2>1. EpisodeIds \subseteq EpisodeIds'
    BY DEF TypeOK, EpisodeIds
  <2>2. /\ me' \in 1..(faults' + 1) /\ sent' \in 0..MaxCalls /\ faults' \in 0..MaxFaults
        /\ owner' \in 0..me' /\ life' \in Nat
    BY LerobotAssumption DEF TypeOK
  <2>3. /\ pc' \in {"ensure", "wait", "idle", "send", "read", "closed"}
        /\ at' \in {"none", "start", "boot", "recv", "exec", "reply"}
        /\ fifos' \in BOOLEAN /\ hung' \in BOOLEAN
    BY DEF TypeOK
  <2>4. call' \in Calls /\ request' \in Calls /\ job' \in Calls
    BY DEF TypeOK
  <2>5. {episode', ep'} \subseteq EpisodeIds' /\ reply' \in [n : 0..MaxCalls, ep : EpisodeIds']
    <3>1. NextEpisode \in EpisodeIds
      BY DEF TypeOK, EpisodeIds
    <3> QED
      BY <2>1, <3>1 DEF TypeOK
  <2>6. trace' \in Seq([n : 1..MaxCalls, life : Nat])
    <3>1. job.n \in 1..MaxCalls
      BY LerobotAssumption DEF TypeOK, Order
    <3> QED
      BY <3>1, Extended DEF TypeOK
  <2> QED
    BY <2>2, <2>3, <2>4, <2>5, <2>6 DEF TypeOK
<1>2. Pending'
  BY DEF TypeOK, Pending, Session, Transit
<1>3. Transit'
  BY DEF TypeOK, Pending, Transit
<1>4. Order'
  BY DEF TypeOK, Pending, Transit, Order, Fresh
<1>5. Episodes'
  BY DEF TypeOK, Pending, Transit, Episodes, EpisodeIds
<1>6. OwnReply'
  BY <1>1 DEF TypeOK, Transit, Episodes, OwnReply
<1>7. RobotInOrder'
  <2>1. job.n \in 1..MaxCalls /\ Fresh(job.n)
    BY LerobotAssumption DEF TypeOK, Order
  <2>2. /\ Len(trace') = Len(trace) + 1
        /\ \A i \in 1..Len(trace) : trace'[i] = trace[i]
        /\ trace'[Len(trace')].n = job.n /\ trace'[Len(trace')].life = life
    BY <2>1, Extended DEF TypeOK
  <2>3. DOMAIN trace = 1..Len(trace) /\ DOMAIN trace' = 1..Len(trace') /\ Len(trace) \in Nat
    BY <1>1 DEF TypeOK
  <2>4. ASSUME NEW i \in DOMAIN trace', NEW j \in DOMAIN trace', i < j
        PROVE  trace'[i].n <= trace'[j].n /\ (trace'[i].n = trace'[j].n => trace'[i].life # trace'[j].life)
    <3>1. CASE j \in DOMAIN trace
      BY <2>2, <2>3, <2>4, <3>1 DEF RobotInOrder
    <3>2. CASE j = Len(trace')
      <4>1. i \in 1..Len(trace) /\ trace'[i] = trace[i] /\ trace[i].life \in Nat
        BY <2>2, <2>3, <2>4, <3>2, Elements
      <4>2. trace[i].n <= job.n /\ (trace[i].n = job.n => trace[i].life < life)
        BY <2>1, <4>1 DEF Fresh
      <4> QED
        BY <2>2, <3>2, <4>1, <4>2 DEF TypeOK
    <3> QED
      BY <2>2, <2>3, <3>1, <3>2
  <2> QED
    BY <2>4 DEF RobotInOrder
<1> QED
  BY <1>1, <1>2, <1>3, <1>4, <1>5, <1>6, <1>7

LEMMA ReplyKeeps ==
  ASSUME IInv, Reply
  PROVE  IInv'
<1> USE Values DEF IInv, Reply, Runs, Healthy, Session, env, rt, pipes
<1>1. TypeOK'
  <2>1. EpisodeIds \subseteq EpisodeIds'
    BY DEF TypeOK, EpisodeIds
  <2>2. /\ me' \in 1..(faults' + 1) /\ sent' \in 0..MaxCalls /\ faults' \in 0..MaxFaults
        /\ owner' \in 0..me' /\ life' \in Nat
    BY LerobotAssumption DEF TypeOK
  <2>3. /\ pc' \in {"ensure", "wait", "idle", "send", "read", "closed"}
        /\ at' \in {"none", "start", "boot", "recv", "exec", "reply"}
        /\ fifos' \in BOOLEAN /\ hung' \in BOOLEAN
    BY DEF TypeOK
  <2>4. call' \in Calls /\ request' \in Calls /\ job' \in Calls
    BY DEF TypeOK
  <2>5. {episode', ep'} \subseteq EpisodeIds' /\ reply' \in [n : 0..MaxCalls, ep : EpisodeIds']
    BY <2>1 DEF TypeOK, Calls
  <2>6. trace' \in Seq([n : 1..MaxCalls, life : Nat])
    BY DEF TypeOK
  <2> QED
    BY <2>2, <2>3, <2>4, <2>5, <2>6 DEF TypeOK
<1>2. Pending'
  BY DEF TypeOK, Pending, Session, Transit
<1>3. Transit'
  BY DEF TypeOK, Pending, Transit
<1>4. Order'
  BY DEF TypeOK, Pending, Transit, Order, Fresh
<1>5. Episodes'
  BY DEF TypeOK, Pending, Transit, Episodes, Session
<1>6. OwnReply'
  BY <1>1 DEF TypeOK, Transit, Episodes, EpisodeIds, OwnReply
<1>7. RobotInOrder'
  BY DEF RobotInOrder
<1> QED
  BY <1>1, <1>2, <1>3, <1>4, <1>5, <1>6, <1>7

LEMMA WatchdogKeeps ==
  ASSUME IInv, Watchdog
  PROVE  IInv'
<1> USE Values DEF IInv, Watchdog, NoSession, ClearIpc, Orphaned, env, rt, pipes
<1>1. TypeOK'
  <2>1. EpisodeIds \subseteq EpisodeIds'
    BY DEF TypeOK, EpisodeIds
  <2>2. /\ me' \in 1..(faults' + 1) /\ sent' \in 0..MaxCalls /\ faults' \in 0..MaxFaults
        /\ owner' \in 0..me' /\ life' \in Nat
    BY LerobotAssumption DEF TypeOK
  <2>3. /\ pc' \in {"ensure", "wait", "idle", "send", "read", "closed"}
        /\ at' \in {"none", "start", "boot", "recv", "exec", "reply"}
        /\ fifos' \in BOOLEAN /\ hung' \in BOOLEAN
    BY DEF TypeOK
  <2>4. call' \in Calls /\ request' \in Calls /\ job' \in Calls
    BY DEF TypeOK
  <2>5. {episode', ep'} \subseteq EpisodeIds' /\ reply' \in [n : 0..MaxCalls, ep : EpisodeIds']
    BY <2>1 DEF TypeOK
  <2>6. trace' \in Seq([n : 1..MaxCalls, life : Nat])
    BY DEF TypeOK
  <2> QED
    BY <2>2, <2>3, <2>4, <2>5, <2>6 DEF TypeOK
<1>2. Pending'
  BY DEF TypeOK, Pending, Session, Transit
<1>3. Transit'
  BY DEF TypeOK, Pending, Transit
<1>4. Order'
  BY DEF TypeOK, Pending, Transit, Order, Fresh
<1>5. Episodes'
  BY DEF TypeOK, Pending, Transit, Episodes, Session
<1>6. OwnReply'
  BY <1>1 DEF TypeOK, Transit, Episodes, OwnReply
<1>7. RobotInOrder'
  BY DEF RobotInOrder
<1> QED
  BY <1>1, <1>2, <1>3, <1>4, <1>5, <1>6, <1>7

LEMMA DiesKeeps ==
  ASSUME IInv, Dies
  PROVE  IInv'
<1> USE Values DEF IInv, Dies, NoSession, Healthy, Session, Fault, env, rt, pipes
<1>1. TypeOK'
  <2>1. EpisodeIds \subseteq EpisodeIds'
    BY DEF TypeOK, EpisodeIds
  <2>2. /\ me' \in 1..(faults' + 1) /\ sent' \in 0..MaxCalls /\ faults' \in 0..MaxFaults
        /\ owner' \in 0..me' /\ life' \in Nat
    BY LerobotAssumption DEF TypeOK
  <2>3. /\ pc' \in {"ensure", "wait", "idle", "send", "read", "closed"}
        /\ at' \in {"none", "start", "boot", "recv", "exec", "reply"}
        /\ fifos' \in BOOLEAN /\ hung' \in BOOLEAN
    BY DEF TypeOK
  <2>4. call' \in Calls /\ request' \in Calls /\ job' \in Calls
    BY DEF TypeOK
  <2>5. {episode', ep'} \subseteq EpisodeIds' /\ reply' \in [n : 0..MaxCalls, ep : EpisodeIds']
    BY <2>1 DEF TypeOK
  <2>6. trace' \in Seq([n : 1..MaxCalls, life : Nat])
    BY DEF TypeOK
  <2> QED
    BY <2>2, <2>3, <2>4, <2>5, <2>6 DEF TypeOK
<1>2. Pending'
  BY DEF TypeOK, Pending, Session, Transit
<1>3. Transit'
  BY DEF TypeOK, Pending, Transit
<1>4. Order'
  BY DEF TypeOK, Pending, Transit, Order, Fresh
<1>5. Episodes'
  BY DEF TypeOK, Pending, Transit, Episodes, Session
<1>6. OwnReply'
  BY <1>1 DEF TypeOK, Transit, Episodes, OwnReply
<1>7. RobotInOrder'
  BY DEF RobotInOrder
<1> QED
  BY <1>1, <1>2, <1>3, <1>4, <1>5, <1>6, <1>7

LEMMA HangsKeeps ==
  ASSUME IInv, Hangs
  PROVE  IInv'
<1> USE Values DEF IInv, Hangs, Healthy, Session, Fault, env, rt, pipes
<1>1. TypeOK'
  <2>1. EpisodeIds \subseteq EpisodeIds'
    BY DEF TypeOK, EpisodeIds
  <2>2. /\ me' \in 1..(faults' + 1) /\ sent' \in 0..MaxCalls /\ faults' \in 0..MaxFaults
        /\ owner' \in 0..me' /\ life' \in Nat
    BY LerobotAssumption DEF TypeOK
  <2>3. /\ pc' \in {"ensure", "wait", "idle", "send", "read", "closed"}
        /\ at' \in {"none", "start", "boot", "recv", "exec", "reply"}
        /\ fifos' \in BOOLEAN /\ hung' \in BOOLEAN
    BY DEF TypeOK
  <2>4. call' \in Calls /\ request' \in Calls /\ job' \in Calls
    BY DEF TypeOK
  <2>5. {episode', ep'} \subseteq EpisodeIds' /\ reply' \in [n : 0..MaxCalls, ep : EpisodeIds']
    BY <2>1 DEF TypeOK
  <2>6. trace' \in Seq([n : 1..MaxCalls, life : Nat])
    BY DEF TypeOK
  <2> QED
    BY <2>2, <2>3, <2>4, <2>5, <2>6 DEF TypeOK
<1>2. Pending'
  BY DEF TypeOK, Pending, Session, Transit
<1>3. Transit'
  BY DEF TypeOK, Pending, Transit
<1>4. Order'
  BY DEF TypeOK, Pending, Transit, Order, Fresh
<1>5. Episodes'
  BY DEF TypeOK, Pending, Transit, Episodes, Session
<1>6. OwnReply'
  BY <1>1 DEF TypeOK, Transit, Episodes, OwnReply
<1>7. RobotInOrder'
  BY DEF RobotInOrder
<1> QED
  BY <1>1, <1>2, <1>3, <1>4, <1>5, <1>6, <1>7

LEMMA OwnerKilledKeeps ==
  ASSUME IInv, OwnerKilled
  PROVE  IInv'
<1> USE Values DEF IInv, OwnerKilled, NoSession, Fault, env, rt, pipes
<1>1. TypeOK'
  <2>1. EpisodeIds \subseteq EpisodeIds'
    BY DEF TypeOK, EpisodeIds
  <2>2. /\ me' \in 1..(faults' + 1) /\ sent' \in 0..MaxCalls /\ faults' \in 0..MaxFaults
        /\ owner' \in 0..me' /\ life' \in Nat
    BY LerobotAssumption DEF TypeOK
  <2>3. /\ pc' \in {"ensure", "wait", "idle", "send", "read", "closed"}
        /\ at' \in {"none", "start", "boot", "recv", "exec", "reply"}
        /\ fifos' \in BOOLEAN /\ hung' \in BOOLEAN
    BY DEF TypeOK
  <2>4. call' \in Calls /\ request' \in Calls /\ job' \in Calls
    BY DEF TypeOK
  <2>5. {episode', ep'} \subseteq EpisodeIds' /\ reply' \in [n : 0..MaxCalls, ep : EpisodeIds']
    BY <2>1 DEF TypeOK
  <2>6. trace' \in Seq([n : 1..MaxCalls, life : Nat])
    BY DEF TypeOK
  <2> QED
    BY <2>2, <2>3, <2>4, <2>5, <2>6 DEF TypeOK
<1>2. Pending'
  BY DEF TypeOK, Pending, Session, Transit
<1>3. Transit'
  BY DEF TypeOK, Pending, Transit
<1>4. Order'
  BY DEF TypeOK, Pending, Transit, Order, Fresh
<1>5. Episodes'
  BY DEF TypeOK, Pending, Transit, Episodes, Session
<1>6. OwnReply'
  BY <1>1 DEF TypeOK, Transit, Episodes, OwnReply
<1>7. RobotInOrder'
  BY DEF RobotInOrder
<1> QED
  BY <1>1, <1>2, <1>3, <1>4, <1>5, <1>6, <1>7

LEMMA CloseKeeps ==
  ASSUME IInv, Close
  PROVE  IInv'
<1> USE Values DEF IInv, Close, NoSession, ClearIpc, env, rt, pipes
<1>1. TypeOK'
  <2>1. EpisodeIds \subseteq EpisodeIds'
    BY DEF TypeOK, EpisodeIds
  <2>2. /\ me' \in 1..(faults' + 1) /\ sent' \in 0..MaxCalls /\ faults' \in 0..MaxFaults
        /\ owner' \in 0..me' /\ life' \in Nat
    BY LerobotAssumption DEF TypeOK
  <2>3. /\ pc' \in {"ensure", "wait", "idle", "send", "read", "closed"}
        /\ at' \in {"none", "start", "boot", "recv", "exec", "reply"}
        /\ fifos' \in BOOLEAN /\ hung' \in BOOLEAN
    BY DEF TypeOK
  <2>4. call' \in Calls /\ request' \in Calls /\ job' \in Calls
    BY DEF TypeOK
  <2>5. {episode', ep'} \subseteq EpisodeIds' /\ reply' \in [n : 0..MaxCalls, ep : EpisodeIds']
    BY <2>1 DEF TypeOK
  <2>6. trace' \in Seq([n : 1..MaxCalls, life : Nat])
    BY DEF TypeOK
  <2> QED
    BY <2>2, <2>3, <2>4, <2>5, <2>6 DEF TypeOK
<1>2. Pending'
  BY DEF TypeOK, Pending, Session, Transit
<1>3. Transit'
  BY DEF TypeOK, Pending, Transit
<1>4. Order'
  BY DEF TypeOK, Pending, Transit, Order, Fresh
<1>5. Episodes'
  BY DEF TypeOK, Pending, Transit, Episodes, Session
<1>6. OwnReply'
  BY <1>1 DEF TypeOK, Transit, Episodes, OwnReply
<1>7. RobotInOrder'
  BY DEF RobotInOrder
<1> QED
  BY <1>1, <1>2, <1>3, <1>4, <1>5, <1>6, <1>7

LEMMA CallKeeps ==
  ASSUME IInv, NEW kind \in {"reset", "step"}, Call(kind)
  PROVE  IInv'
<1> USE Values DEF IInv, Call, env, rt, pipes
<1>1. TypeOK'
  <2>1. EpisodeIds \subseteq EpisodeIds'
    BY DEF TypeOK, EpisodeIds
  <2>2. /\ me' \in 1..(faults' + 1) /\ sent' \in 0..MaxCalls /\ faults' \in 0..MaxFaults
        /\ owner' \in 0..me' /\ life' \in Nat
    BY LerobotAssumption DEF TypeOK
  <2>3. /\ pc' \in {"ensure", "wait", "idle", "send", "read", "closed"}
        /\ at' \in {"none", "start", "boot", "recv", "exec", "reply"}
        /\ fifos' \in BOOLEAN /\ hung' \in BOOLEAN
    BY DEF TypeOK
  <2>4. call' \in Calls /\ request' \in Calls /\ job' \in Calls
    BY LerobotAssumption DEF TypeOK, Calls
  <2>5. {episode', ep'} \subseteq EpisodeIds' /\ reply' \in [n : 0..MaxCalls, ep : EpisodeIds']
    BY <2>1 DEF TypeOK
  <2>6. trace' \in Seq([n : 1..MaxCalls, life : Nat])
    BY DEF TypeOK
  <2> QED
    BY <2>2, <2>3, <2>4, <2>5, <2>6 DEF TypeOK
<1>2. Pending'
  BY DEF TypeOK, Pending, Session, Transit
<1>3. Transit'
  BY DEF TypeOK, Pending, Transit
<1>4. Order'
  <2>1. call'.n = sent + 1 /\ sent' = sent + 1 /\ pc' = "send" /\ sent \in Nat
    BY LerobotAssumption DEF TypeOK
  <2>2. \A i \in 1..Len(trace) : trace[i].n \in Nat /\ trace[i].n <= sent
    BY Elements DEF Order
  <2>3. Fresh(call.n)'
    BY <2>1, <2>2 DEF Fresh
  <2>4. \A i \in 1..Len(trace) : trace[i].n <= sent' /\ trace[i].life <= life
    BY <2>1, <2>2 DEF Order
  <2>5. at = "exec" => job.n \in 1..sent /\ Fresh(job.n)
    BY DEF Order
  <2>6. request # NoCall => request.n \in 1..sent /\ Fresh(request.n)
    BY DEF Order
  <2> QED
    BY <2>1, <2>3, <2>4, <2>5, <2>6 DEF Order, Fresh
<1>5. Episodes'
  BY DEF TypeOK, Pending, Transit, Episodes, Session
<1>6. OwnReply'
  BY <1>1 DEF TypeOK, Transit, Episodes, OwnReply
<1>7. RobotInOrder'
  BY DEF RobotInOrder
<1> QED
  BY <1>1, <1>2, <1>3, <1>4, <1>5, <1>6, <1>7

-----------------------------------------------------------------------------
(* The theorems *)

LEMMA NextKeepsInv ==
  ASSUME IInv, [Next]_vars
  PROVE  IInv'
<1>1. CASE Ensure
  BY <1>1, EnsureKeeps
<1>2. CASE Ready
  BY <1>2, ReadyKeeps
<1>3. CASE NotReady
  BY <1>3, NotReadyKeeps
<1>4. CASE Send
  BY <1>4, SendKeeps
<1>5. CASE Return
  BY <1>5, ReturnKeeps
<1>6. CASE Timeout
  BY <1>6, TimeoutKeeps
<1>7. CASE SetupIpc
  BY <1>7, SetupIpcKeeps
<1>8. CASE Boots
  BY <1>8, BootsKeeps
<1>9. CASE Receive
  BY <1>9, ReceiveKeeps
<1>10. CASE Execute
  BY <1>10, ExecuteKeeps
<1>11. CASE Reply
  BY <1>11, ReplyKeeps
<1>12. CASE Watchdog
  BY <1>12, WatchdogKeeps
<1>13. CASE Dies
  BY <1>13, DiesKeeps
<1>14. CASE Hangs
  BY <1>14, HangsKeeps
<1>15. CASE OwnerKilled
  BY <1>15, OwnerKilledKeeps
<1>16. CASE Close
  BY <1>16, CloseKeeps
<1>17. CASE \E kind \in {"reset", "step"} : Call(kind)
  BY <1>17, CallKeeps
<1>18. CASE UNCHANGED vars
  BY <1>18 DEF vars, env, rt, pipes, IInv, TypeOK, Calls, EpisodeIds, Pending, Transit, Session,
               Order, Fresh, Episodes, OwnReply, RobotInOrder
<1> QED
  BY <1>1, <1>2, <1>3, <1>4, <1>5, <1>6, <1>7, <1>8, <1>9, <1>10, <1>11, <1>12, <1>13,
     <1>14, <1>15, <1>16, <1>17, <1>18
     DEF Next, Environment, Runtime, Over

\* In every reachable state, for any number of calls and faults: a pending request or reply
\* belongs to the pending call, and what the robot will execute next was never executed by
\* the same runtime.
THEOREM CallInvariance == Spec => []IInv
<1>1. Init => IInv
  BY InitInv
<1>2. IInv /\ [Next]_vars => IInv'
  BY NextKeepsInv
<1> QED
  BY <1>1, <1>2, PTL DEF Spec

\* A call takes the reply to its own request, whatever timed out, died or was killed before.
THEOREM RepliesAreOwn == Spec => []OwnReply
<1>1. IInv => OwnReply
  BY DEF IInv
<1> QED
  BY <1>1, CallInvariance, PTL

\* Requests that are sent again never make the robot repeat or swap actions.
THEOREM RobotFollowsCalls == Spec => []RobotInOrder
<1>1. IInv => RobotInOrder
  BY DEF IInv
<1> QED
  BY <1>1, CallInvariance, PTL

=============================================================================
