------------------------- MODULE SharedModelBroker -------------------------
(***************************************************************************)
(* One collector process with simulators_per_gpu > 1                       *)
(* (workflows/grfpo_fragmented_collection.py): the parent owns the policy  *)
(* model, every child process owns a simulator and collects groups, and a  *)
(* pipe per child carries one inference request at a time.  The parent     *)
(* coalesces the requests of several children into one batch.              *)
(*                                                                         *)
(* An observation is the child and the number of its request; what a child *)
(* claims and commits in the window is CollectionWindow's business, here a *)
(* claim finds a candidate or not.  Of the clocks only the order remains:  *)
(* a timeout may fire wherever the code waits with one.                    *)
(***************************************************************************)
EXTENDS Naturals, Sequences, SequencesExt

CONSTANTS Children,      \* simulator processes
          Stealers,      \* those that wait for any candidate while the window is open
          MaxRequests,   \* bound: inference requests of a child
          MaxFaults      \* bound: kills, failures of a child or of the model, timeouts

ASSUME BrokerAssumption ==
  /\ IsFiniteSet(Children)
  /\ MaxRequests \in Nat /\ MaxFaults \in Nat

VARIABLES child,         \* where the process is
          lease,         \* it holds a candidate lease
          asked,         \* request_index of the last request
          toParent,      \* messages in its pipe, child to parent
          toChild,       \* messages in its pipe, parent to child
          open,          \* the parent's ends of the pipes are open
          parent,        \* where the parent is
          active,        \* children that have not sent a result
          batch,         \* inference_messages
          results,       \* results received, per child
          outcome,       \* of the collector: a status or "raised"
          closed,        \* the collection window is closed
          faults

childVars == <<child, lease, asked>>
pipeVars == <<toParent, toChild>>
parentVars == <<parent, active, batch, results, outcome>>
vars == <<childVars, pipeVars, open, parentVars, closed, faults>>

Gone == {"ended", "killed"}     \* the child's end of the pipe is closed
None == "none"

---------------------------------------------------------------------------
(* A child.                                                                *)

Msg(kind, id) == [kind |-> kind, id |-> id]

\* Send on a pipe; what is sent after the other end was closed is lost.
Sends(c, messages) ==
  toParent' = IF open THEN [toParent EXCEPT ![c] = @ \o messages] ELSE toParent

\* The process ends: a lease it still holds is released, the terminal message
\* is sent, and env.close in the finally clause may fail and add an error.
EndsWith(c, kind) ==
  /\ child' = [child EXCEPT ![c] = "ended"]
  /\ lease' = [lease EXCEPT ![c] = FALSE]
  /\ UNCHANGED asked
  /\ \/ Sends(c, <<Msg(kind, 0)>>) /\ UNCHANGED faults
     \/ /\ faults < MaxFaults /\ faults' = faults + 1
        /\ Sends(c, <<Msg(kind, 0), Msg("error", 0)>>)

Fails(c) == EndsWith(c, "error")

\* _claim_shared_worker_candidate finds a candidate ...
Claim(c) ==
  /\ child[c] = "queue"
  /\ child' = [child EXCEPT ![c] = "build"]
  /\ lease' = [lease EXCEPT ![c] = TRUE]
  /\ UNCHANGED <<asked, pipeVars, open, parentVars, closed, faults>>

\* ... or none: at once for a preferred condition, when the window has closed
\* for a child that waits for any.
ClaimNothing(c) ==
  /\ child[c] = "queue" /\ (c \in Stealers => closed)
  /\ EndsWith(c, "drained")
  /\ UNCHANGED <<toChild, open, parentVars, closed>>

\* The simulator is built, under the node's start-up lock.
Build(c) ==
  /\ child[c] = "build"
  /\ child' = [child EXCEPT ![c] = "step"]
  /\ UNCHANGED <<lease, asked, pipeVars, open, parentVars, closed, faults>>

\* infer_outputs sends the next observation; the pipe may be broken by then.
Ask(c) ==
  /\ child[c] = "step" /\ asked[c] < MaxRequests
  /\ IF open
     THEN /\ asked' = [asked EXCEPT ![c] = @ + 1]
          /\ child' = [child EXCEPT ![c] = "asked"]
          /\ Sends(c, <<Msg("infer", asked[c] + 1)>>)
          /\ UNCHANGED <<lease, faults>>
     ELSE Fails(c)
  /\ UNCHANGED <<toChild, open, parentVars, closed>>

\* The answer is there: actions with the request's id, or anything else, which
\* ends the child; so does the end of the pipe.
Answered(c) ==
  /\ child[c] = "asked"
  /\ IF toChild[c] = <<>> THEN ~open /\ Fails(c) /\ UNCHANGED toChild
     ELSE LET m == Head(toChild[c])
          IN /\ toChild' = [toChild EXCEPT ![c] = Tail(@)]
             /\ IF m.kind = "actions" /\ m.id = asked[c]
                THEN /\ child' = [child EXCEPT ![c] = "step"]
                     /\ UNCHANGED <<lease, asked, toParent, faults>>
                ELSE Fails(c)
  /\ UNCHANGED <<open, parentVars, closed>>

\* commit_group and close_if_ready; then the window is closed, another
\* candidate of the same condition is claimed, or there is none left.
Commit(c) ==
  /\ child[c] = "step"
  /\ closed' \in {closed, TRUE}
  /\ \/ /\ closed' /\ EndsWith(c, "window_closed")
     \/ /\ ~closed' /\ asked[c] < MaxRequests
        /\ UNCHANGED <<childVars, toParent, faults>>
     \/ /\ ~closed' /\ EndsWith(c, "drained")
  /\ UNCHANGED <<toChild, open, parentVars>>

\* A failure of the simulator, of the claim or of the commit, or the parent
\* took more than 600 s with a request: an exception in the child.
ChildFails(c) ==
  /\ child[c] \notin Gone /\ faults < MaxFaults
  /\ child[c] = "asked" => parent \in {"load", "infer"}
  /\ child' = [child EXCEPT ![c] = "ended"]
  /\ lease' = [lease EXCEPT ![c] = FALSE]
  /\ faults' = faults + 1
  /\ UNCHANGED asked /\ Sends(c, <<Msg("error", 0)>>)
  /\ UNCHANGED <<toChild, open, parentVars, closed>>

\* A crash of the process: no handler runs.
Killed(c) ==
  /\ child[c] \notin Gone /\ faults < MaxFaults
  /\ child' = [child EXCEPT ![c] = "killed"]
  /\ faults' = faults + 1
  /\ UNCHANGED <<lease, asked, pipeVars, open, parentVars, closed>>

\* Other collectors close the window.
WindowCloses ==
  /\ ~closed /\ closed' = TRUE
  /\ UNCHANGED <<childVars, pipeVars, open, parentVars, faults>>

---------------------------------------------------------------------------
(* The parent.                                                             *)

\* The finally clause: active children are told, behind what is in their pipes,
\* then all pipes are closed.
Stops(reason, pipes) ==
  /\ outcome' = reason /\ parent' = "join" /\ open' = FALSE /\ batch' = <<>>
  /\ toChild' = [c \in Children |->
                   IF c \in active' /\ child[c] \notin Gone
                   THEN Append(pipes[c], Msg("error", 0)) ELSE pipes[c]]

Raises == UNCHANGED <<active, results>> /\ Stops("raised", toChild)

Load ==
  /\ parent = "load"
  /\ \/ parent' = "wait" /\ UNCHANGED <<toChild, open, active, batch, results, outcome, faults>>
     \/ faults < MaxFaults /\ faults' = faults + 1 /\ Raises
  /\ UNCHANGED <<childVars, toParent, closed>>

Readable(c) == toParent[c] # <<>> \/ child[c] \in Gone
\* Mutant: the end of a pipe counts as the end of the child's work.
MessageEofDone(c) == IF toParent[c] = <<>> THEN "drained" ELSE Head(toParent[c]).kind
Message(c) == IF toParent[c] = <<>> THEN "eof" ELSE Head(toParent[c]).kind

\* One message of every readable pipe in cs.  Requests join the batch; a result
\* ends its child's part; an error, or the end of a pipe, ends the collector.
Receive(cs) ==
  LET of(kinds) == {c \in cs : Message(c) \in kinds}
      over == of({"window_closed", "drained"})
  IN /\ toParent' = [c \in Children |-> IF c \in cs /\ toParent[c] # <<>>
                                        THEN Tail(toParent[c]) ELSE toParent[c]]
     /\ IF of({"eof", "error"}) # {} THEN Raises
        ELSE /\ batch' = batch \o [i \in 1..Cardinality(of({"infer"})) |->
                                     LET c == SetToSeq(of({"infer"}))[i]
                                     IN [child |-> c, id |-> Head(toParent[c]).id]]
             /\ active' = active \ over
             /\ results' = [c \in Children |-> IF c \in over THEN Message(c) ELSE results[c]]
             /\ parent' = "coalesce"
             /\ UNCHANGED <<toChild, open, outcome>>

\* The main loop: wait for any active child.
WaitAny ==
  /\ parent = "wait"
  /\ LET cs == {c \in active : Readable(c)} IN cs # {} /\ Receive(cs)
  /\ UNCHANGED <<childVars, closed, faults>>

Requested == {batch[i].child : i \in 1..Len(batch)}

\* Within coalesce_seconds the other active children may add a request.
Coalesce ==
  /\ parent = "coalesce"
  /\ LET cs == {c \in active \ Requested : Readable(c)} IN cs # {} /\ Receive(cs)
  /\ UNCHANGED <<childVars, closed, faults>>

\* The deadline, or every active child has asked.
CoalesceEnds ==
  /\ parent = "coalesce"
  /\ parent' = IF batch = <<>> THEN "wait" ELSE "infer"
  /\ UNCHANGED <<childVars, pipeVars, open, active, batch, results, outcome, closed, faults>>

\* Mutant: the slices are taken in the opposite order of the messages.
AnswersReversed(c) ==
  {[kind |-> "actions", id |-> batch[i].id,
    of |-> <<Reverse(batch)[i].child, Reverse(batch)[i].id>>] :
     i \in {j \in 1..Len(batch) : batch[j].child = c}}

\* Slice i of the outputs answers message i of the batch.
Answers(c) ==
  {[kind |-> "actions", id |-> batch[i].id, of |-> <<batch[i].child, batch[i].id>>] :
     i \in {j \in 1..Len(batch) : batch[j].child = c}}

Answering(cs) == [c \in Children |-> IF c \in cs THEN toChild[c] \o SetToSeq(Answers(c))
                                              ELSE toChild[c]]
Missing == {c \in Requested : child[c] \in Gone}

\* merge, infer, split and send.
Infer ==
  /\ parent = "infer" /\ Missing = {}
  /\ toChild' = Answering(Requested)
  /\ batch' = <<>> /\ parent' = "wait"
  /\ UNCHANGED <<childVars, toParent, open, active, results, outcome, closed, faults>>

\* The model fails, or a send to a process that is gone raises, after some of
\* the others have got their answers.
InferRaises ==
  /\ parent = "infer"
  /\ \/ faults < MaxFaults /\ faults' = faults + 1 /\ Raises
     \/ /\ Missing # {} /\ UNCHANGED <<active, results, faults>>
        /\ \E sent \in SUBSET (Requested \ Missing) : Stops("raised", Answering(sent))
  /\ UNCHANGED <<childVars, toParent, closed>>

\* 600 s without a message of an active child.
NoProgress ==
  /\ parent = "wait" /\ active # {} /\ \A c \in active : ~Readable(c)
  /\ Raises
  /\ UNCHANGED <<childVars, toParent, closed, faults>>

\* Every child has sent its result.
Done ==
  /\ parent = "wait" /\ active = {}
  /\ UNCHANGED <<active, results>>
  /\ Stops(IF \E c \in Children : results[c] = "window_closed"
           THEN "window_closed" ELSE "drained", toChild)
  /\ UNCHANGED <<childVars, toParent, closed, faults>>

\* Mutant: only a process that holds a candidate is terminated.
TerminateHolders(c) ==
  /\ parent = "join" /\ child[c] \notin Gone /\ lease[c]
  /\ child' = [child EXCEPT ![c] = "killed"]
  /\ UNCHANGED <<lease, asked, pipeVars, open, parentVars, closed, faults>>

\* join(60) ran out: the process is terminated, without its handlers.
Terminate(c) ==
  /\ parent = "join" /\ child[c] \notin Gone
  /\ child' = [child EXCEPT ![c] = "killed"]
  /\ UNCHANGED <<lease, asked, pipeVars, open, parentVars, closed, faults>>

Joined ==
  /\ parent = "join" /\ \A c \in Children : child[c] \in Gone
  /\ parent' = "ended"
  /\ UNCHANGED <<childVars, pipeVars, open, active, batch, results, outcome, closed, faults>>

Ended == parent = "ended" /\ UNCHANGED vars

---------------------------------------------------------------------------
Init ==
  /\ child = [c \in Children |-> "queue"]
  /\ lease = [c \in Children |-> FALSE]
  /\ asked = [c \in Children |-> 0]
  /\ toParent = [c \in Children |-> <<>>] /\ toChild = [c \in Children |-> <<>>]
  /\ open = TRUE /\ parent = "load" /\ active = Children /\ batch = <<>>
  /\ results = [c \in Children |-> None]
  /\ outcome = None /\ closed = FALSE /\ faults = 0

Parent == \/ Load \/ WaitAny \/ Coalesce \/ CoalesceEnds \/ Infer \/ InferRaises \/ NoProgress \/ Done
          \/ \E c \in Children : Terminate(c)
          \/ Joined

Child(c) == Build(c) \/ Ask(c) \/ Answered(c) \/ Commit(c) \/ ClaimNothing(c)

Next == \/ Parent
        \/ \E c \in Children : Child(c) \/ Claim(c) \/ ChildFails(c) \/ Killed(c)
        \/ WindowCloses
        \/ Ended

Spec == Init /\ [][Next]_vars

\* The parent runs and its timeouts run out.  Of the children nothing is
\* assumed: a simulator may hang, and no candidate may ever come.
FairSpec == Spec /\ WF_vars(Parent)

---------------------------------------------------------------------------
(* Properties.                                                             *)

Kinds == {"infer", "actions", "error", "drained", "window_closed"}
Messages == [kind : Kinds, id : 0..MaxRequests]
Requests == [child : Children, id : 1..MaxRequests]
Replies == [kind : {"actions"}, id : 1..MaxRequests, of : Children \X (1..MaxRequests)]
TypeOK ==
  /\ child \in [Children -> {"queue", "build", "step", "asked"} \cup Gone]
  /\ lease \in [Children -> BOOLEAN] /\ asked \in [Children -> 0..MaxRequests]
  /\ toParent \in [Children -> Seq(Messages)]
  /\ toChild \in [Children -> Seq(Messages \cup Replies)]
  /\ open \in BOOLEAN /\ closed \in BOOLEAN /\ faults \in 0..MaxFaults
  /\ parent \in {"load", "wait", "coalesce", "infer", "join", "ended"}
  /\ active \subseteq Children /\ batch \in Seq(Requests)
  /\ results \in [Children -> {None, "drained", "window_closed"}]
  /\ outcome \in {None, "raised", "drained", "window_closed"}

\* The messages of one kind in a pipe, by their places.
Places(pipe, kind) == {i \in 1..Len(pipe) : pipe[i].kind = kind}

\* An answer in a child's pipe is for the request the child waits for, computed
\* from that child's own observation, and there is only one.  (The types are part
\* of the invariant.)
OwnAnswer ==
  /\ TypeOK
  /\ \A c \in Children : \A i \in Places(toChild[c], "actions") :
       /\ Places(toChild[c], "actions") = {i}
       /\ toChild[c][i].id = asked[c] /\ toChild[c][i].of = <<c, asked[c]>>

\* A collector that returns, instead of raising, has heard from every child: no
\* process was lost unnoticed, no candidate is left behind with a lease.
ReturnsAllDone ==
  parent = "ended" /\ outcome # "raised" =>
    \A c \in Children : results[c] # None /\ child[c] = "ended" /\ ~lease[c]

\* However the children behave, hang or die, the collector process ends.
CollectorEnds == <>(parent = "ended")

---------------------------------------------------------------------------
(* The inductive invariant behind the safety properties.                   *)

Batched(c) == {i \in 1..Len(batch) : batch[i].child = c}

\* A request is at the head of the child's pipe, in the parent's batch or answered
\* in the parent's pipe, in one of them, and it is the one the child waits for;
\* a child that waits for none has sent nothing.
Transit(c) ==
  LET sent == Places(toParent[c], "infer")
      answered == Places(toChild[c], "actions")
  IN /\ sent \subseteq {1} /\ answered \subseteq {1}
     /\ \A i, j \in Batched(c) : i = j
     /\ sent = {} \/ Batched(c) = {}
     /\ answered = {} \/ (sent = {} /\ Batched(c) = {})
     /\ \A i \in sent : toParent[c][i].id = asked[c] /\ asked[c] # 0
     /\ \A i \in Batched(c) : batch[i].id = asked[c]
     /\ \A i \in answered : toChild[c][i].id = asked[c] /\ toChild[c][i].of = <<c, asked[c]>>
     /\ child[c] \notin Gone => \A i \in 1..Len(toParent[c]) : i \in sent
     /\ child[c] \in {"queue", "build", "step"} => sent = {} /\ Batched(c) = {} /\ answered = {}

\* The pipes are open until the parent stops, and hold nothing but answers until then.
Stopped ==
  /\ open <=> parent \notin {"join", "ended"}
  /\ open <=> outcome = None
  /\ open => \A c \in Children : \A i \in 1..Len(toChild[c]) : toChild[c][i].kind = "actions"
  /\ ~open => batch = <<>>

\* A child that has sent its result has ended, and ended without a lease.
Returned(c) ==
  /\ c \notin active => results[c] # None
  /\ results[c] # None => child[c] = "ended" /\ ~lease[c]
  /\ \A i \in 1..Len(toParent[c]) :
       toParent[c][i].kind \in {"drained", "window_closed"} => child[c] = "ended" /\ ~lease[c]
  /\ outcome \notin {None, "raised"} => results[c] # None

\* What TLAPS proves inductive.
IInv == TypeOK /\ Stopped /\ \A c \in Children : Transit(c) /\ Returned(c)
=============================================================================
