----------------------- MODULE SharedModelBrokerProofs -----------------------
(***************************************************************************)
(* What SharedModelBroker promises for any number of children, requests    *)
(* and faults.                                                             *)
(***************************************************************************)
EXTENDS SharedModelBroker, SequenceTheorems, FiniteSetTheorems, TLAPS

---------------------------------------------------------------------------
(* Sequences                                                               *)

LEMMA PipeTail ==
  ASSUME NEW S, NEW p \in Seq(S), p # <<>>
  PROVE  /\ Len(p) \in Nat /\ Len(p) > 0 /\ Head(p) = p[1] /\ Head(p) \in S
         /\ Tail(p) \in Seq(S) /\ Len(Tail(p)) = Len(p) - 1
         /\ \A i \in 1..Len(Tail(p)) : Tail(p)[i] = p[i + 1] /\ i + 1 \in 1..Len(p)
<1>1. Len(p) \in Nat /\ Len(p) > 0
  BY EmptySeq, LenProperties
<1> QED
  BY <1>1, HeadTailProperties

LEMMA PipeConcat ==
  ASSUME NEW S, NEW p \in Seq(S), NEW q \in Seq(S)
  PROVE  /\ p \o q \in Seq(S) /\ Len(p) \in Nat /\ Len(q) \in Nat
         /\ Len(p \o q) = Len(p) + Len(q)
         /\ \A i \in 1..Len(p \o q) :
              \/ i \in 1..Len(p) /\ (p \o q)[i] = p[i]
              \/ i - Len(p) \in 1..Len(q) /\ (p \o q)[i] = q[i - Len(p)]
         /\ \A i \in 1..Len(p) : i \in 1..Len(p \o q) /\ (p \o q)[i] = p[i]
<1>1. Len(p) \in Nat /\ Len(q) \in Nat
  BY LenProperties
<1>2. /\ p \o q \in Seq(S) /\ Len(p \o q) = Len(p) + Len(q)
      /\ \A i \in 1 .. Len(p) + Len(q) : (p \o q)[i] =
                     IF i <= Len(p) THEN p[i] ELSE q[i - Len(p)]
  BY ConcatProperties
<1> QED
  BY <1>1, <1>2

\* A set taken in some order, each element once.
LEMMA SeqOfSet ==
  ASSUME NEW S, IsFiniteSet(S)
  PROVE  /\ Cardinality(S) \in Nat /\ SetToSeq(S) \in [1..Cardinality(S) -> S]
         /\ \A i, j \in 1..Cardinality(S) : SetToSeq(S)[i] = SetToSeq(S)[j] => i = j
<1>1. Cardinality(S) \in Nat /\ ExistsBijection(1..Cardinality(S), S)
  BY FS_CardinalityType
<1>2. \E f \in [1..Cardinality(S) -> S] : IsInjective(f)
  BY <1>1 DEF ExistsBijection, Bijection, Injection
<1>3. SetToSeq(S) \in [1..Cardinality(S) -> S] /\ IsInjective(SetToSeq(S))
  BY <1>2 DEF SetToSeq
<1> QED
  BY <1>1, <1>3 DEF IsInjective

LEMMA SeqOfOne ==
  ASSUME NEW x
  PROVE  SetToSeq({x}) = <<x>>
<1>1. IsFiniteSet({x}) /\ Cardinality({x}) = 1
  BY FS_Singleton
<1>2. SetToSeq({x}) \in [1..1 -> {x}]
  BY <1>1, SeqOfSet
<1> QED
  BY <1>2

---------------------------------------------------------------------------
(* Types                                                                   *)

Answer(i) == [kind |-> "actions", id |-> batch[i].id, of |-> <<batch[i].child, batch[i].id>>]

LEMMA BatchType ==
  ASSUME IInv
  PROVE  /\ Len(batch) \in Nat
         /\ \A i \in 1..Len(batch) : batch[i] \in Requests /\ Answer(i) \in Replies
         /\ Requested \subseteq Children
<1>1. batch \in Seq(Requests)
  BY DEF IInv, TypeOK
<1>2. Len(batch) \in Nat /\ \A i \in 1..Len(batch) : batch[i] \in Requests
  BY <1>1, LenProperties, ElementOfSeq
<1> QED
  BY <1>2 DEF Answer, Requests, Replies, Requested

\* What Infer puts into the pipe of a child that has asked is one answer.
LEMMA AnswersOfOne ==
  ASSUME IInv, NEW cs \in SUBSET Requested, NEW c \in Children
  PROVE  /\ Answering(cs)[c] = toChild[c]
         \/ \E i \in Batched(c) : Answering(cs)[c] = toChild[c] \o <<Answer(i)>>
<1>1. CASE c \notin cs
  BY <1>1 DEF Answering
<1>2. CASE c \in cs
  <2>1. PICK i \in 1..Len(batch) : batch[i].child = c
    BY <1>2 DEF Requested
  <2>2. \A j \in 1..Len(batch) : batch[j].child = c => j = i
    BY <2>1 DEF IInv, Transit, Batched
  <2>3. Answers(c) = {Answer(i)}
    BY <2>1, <2>2 DEF Answers, Answer
  <2>4. Answering(cs)[c] = toChild[c] \o <<Answer(i)>>
    BY <1>2, <2>3, SeqOfOne DEF Answering
  <2> QED
    BY <2>1, <2>4 DEF Batched
<1> QED
  BY <1>1, <1>2

\* A child whose request is on its way has nothing in its pipe but what the end
\* of the collector put there.
LEMMA PipeEmpty ==
  ASSUME IInv, open, NEW c \in Children, Batched(c) # {}
  PROVE  toChild[c] = <<>>
<1>1. toChild[c] \in Seq(Messages \cup Replies)
  BY DEF IInv, TypeOK
<1>2. Places(toChild[c], "actions") = {}
  BY DEF IInv, Transit
<1>3. \A i \in 1..Len(toChild[c]) : i \in Places(toChild[c], "actions")
  BY DEF IInv, Stopped, Places
<1>4. 1..Len(toChild[c]) = {}
  BY <1>2, <1>3
<1>5. Len(toChild[c]) \in Nat /\ (toChild[c] # <<>> => Len(toChild[c]) \in Nat \ {0})
  BY <1>1, EmptySeq, LenProperties
<1> QED
  BY <1>4, <1>5

LEMMA AnswersOfOneAlone ==
  ASSUME IInv, open, NEW cs \in SUBSET Requested, NEW c \in Children
  PROVE  Answering(cs)[c] = toChild[c] \/ \E i \in Batched(c) : Answering(cs)[c] = <<Answer(i)>>
<1>1. ASSUME NEW i \in Batched(c), Answering(cs)[c] = toChild[c] \o <<Answer(i)>>
      PROVE  Answering(cs)[c] = <<Answer(i)>>
  <2>1. toChild[c] = <<>>
    BY PipeEmpty
  <2>2. <<Answer(i)>> \in Seq(Replies)
    BY BatchType DEF Batched
  <2> QED
    BY <1>1, <2>1, <2>2, ConcatEmptySeq
<1> QED
  BY <1>1, AnswersOfOne

---------------------------------------------------------------------------
(* The children                                                            *)

\* A step that changes nothing of a child and its messages keeps what holds of them.
LEMMA TransitFrame ==
  ASSUME NEW c, Transit(c), child'[c] = child[c], asked'[c] = asked[c],
         toParent'[c] = toParent[c], toChild'[c] = toChild[c], batch' = batch
  PROVE  Transit(c)'
BY DEF Transit, Places, Batched

LEMMA ReturnedFrame ==
  ASSUME NEW c, Returned(c), child'[c] = child[c], lease'[c] = lease[c],
         toParent'[c] = toParent[c], results'[c] = results[c], c \in active' <=> c \in active,
         outcome' = outcome
  PROVE  Returned(c)'
BY DEF Returned

Terminal == {"error", "drained", "window_closed"}

\* The pipe of a child that has ended: what it had sent, then terminal messages.
LEMMA EndedPipe ==
  ASSUME IInv, NEW c \in Children, child[c] \notin Gone,
         NEW ms \in Seq(Messages), \A i \in 1..Len(ms) : ms[i].kind \in Terminal,
         Sends(c, ms)
  PROVE  /\ toParent' \in [Children -> Seq(Messages)]
         /\ \A d \in Children \ {c} : toParent'[d] = toParent[d]
         /\ \A i \in 1..Len(toParent'[c]) :
              \/ i \in 1..Len(toParent[c]) /\ toParent'[c][i] = toParent[c][i]
              \/ toParent'[c][i].kind \in Terminal
<1>0. toParent \in [Children -> Seq(Messages)]
  BY DEF IInv, TypeOK
<1>1. toParent[c] \in Seq(Messages)
  BY <1>0
<1>2. CASE ~open
  BY <1>0, <1>2 DEF Sends
<1>3. CASE open
  <2>1. toParent' = [toParent EXCEPT ![c] = toParent[c] \o ms]
    BY <1>3 DEF Sends
  <2> HIDE DEF Sends
  <2>2. toParent[c] \o ms \in Seq(Messages)
    BY <1>1, PipeConcat
  <2>3. \A i \in 1..Len(toParent[c] \o ms) :
          \/ i \in 1..Len(toParent[c]) /\ (toParent[c] \o ms)[i] = toParent[c][i]
          \/ (toParent[c] \o ms)[i].kind \in Terminal
    BY <1>1, PipeConcat
  <2> QED
    BY <1>0, <2>1, <2>2, <2>3
<1> QED
  BY <1>2, <1>3

\* What the parent had sent, with the first message taken or not.
LEMMA ReadPipe ==
  ASSUME IInv, NEW c \in Children,
         toChild' = toChild \/ (toChild[c] # <<>> /\ toChild' = [toChild EXCEPT ![c] = Tail(@)])
  PROVE  /\ toChild' \in [Children -> Seq(Messages \cup Replies)]
         /\ \A d \in Children \ {c} : toChild'[d] = toChild[d]
         /\ toChild' = toChild \/ Places(toChild'[c], "actions") = {}
         /\ open => \A d \in Children : \A i \in 1..Len(toChild'[d]) : toChild'[d][i].kind = "actions"
<1>0. toChild \in [Children -> Seq(Messages \cup Replies)]
  BY DEF IInv, TypeOK
<1>2. CASE toChild' = toChild
  BY <1>0, <1>2 DEF IInv, Stopped
<1>3. CASE toChild[c] # <<>> /\ toChild' = [toChild EXCEPT ![c] = Tail(@)]
  <2>1. toChild[c] \in Seq(Messages \cup Replies)
    BY <1>0
  <2>2. /\ Tail(toChild[c]) \in Seq(Messages \cup Replies)
        /\ \A i \in 1..Len(Tail(toChild[c])) : /\ Tail(toChild[c])[i] = toChild[c][i + 1]
                                              /\ i + 1 \in 1..Len(toChild[c])
    BY <1>3, <2>1, PipeTail
  <2>3. \A i \in 1..Len(Tail(toChild[c])) : Tail(toChild[c])[i].kind # "actions"
    <3>1. Places(toChild[c], "actions") \subseteq {1}
      BY DEF IInv, Transit
    <3> QED
      BY <2>2, <3>1 DEF Places
  <2>4. toChild'[c] = Tail(toChild[c]) /\ \A d \in Children \ {c} : toChild'[d] = toChild[d]
    BY <1>0, <1>3
  <2>5. Places(toChild'[c], "actions") = {}
    BY <2>3, <2>4 DEF Places
  <2>6. toChild' \in [Children -> Seq(Messages \cup Replies)]
    BY <1>0, <1>3, <2>2
  <2>7. ASSUME open, NEW d \in Children, NEW i \in 1..Len(toChild'[d])
        PROVE  toChild'[d][i].kind = "actions"
    <3>1. \A e \in Children : \A j \in 1..Len(toChild[e]) : toChild[e][j].kind = "actions"
      BY <2>7 DEF IInv, Stopped
    <3>2. CASE d = c
      <4>1. i \in 1..Len(Tail(toChild[c])) /\ toChild'[d][i] = Tail(toChild[c])[i]
        BY <2>4, <3>2
      <4>2. i + 1 \in 1..Len(toChild[c]) /\ toChild'[d][i] = toChild[c][i + 1]
        BY <2>2, <4>1
      <4> QED
        BY <3>1, <4>2
    <3>3. CASE d # c
      BY <2>4, <2>7, <3>1, <3>3
    <3> QED
      BY <3>2, <3>3
  <2> QED
    BY <2>4, <2>5, <2>6, <2>7
<1> QED
  BY <1>2, <1>3

\* A child ends: by itself, with what it has to say, or killed.
LEMMA Ending ==
  ASSUME IInv, NEW c \in Children, child[c] \notin Gone,
         NEW ms \in Seq(Messages), \A i \in 1..Len(ms) : ms[i].kind \in Terminal,
         Sends(c, ms),
         child' = [child EXCEPT ![c] = "ended"], lease' = [lease EXCEPT ![c] = FALSE],
         toChild' = toChild \/ (toChild[c] # <<>> /\ toChild' = [toChild EXCEPT ![c] = Tail(@)]),
         UNCHANGED <<asked, open, parent, active, batch, results, outcome>>,
         closed' \in BOOLEAN, faults' \in 0..MaxFaults
  PROVE  IInv'
<1>1. /\ toParent' \in [Children -> Seq(Messages)]
      /\ \A d \in Children \ {c} : toParent'[d] = toParent[d]
      /\ \A i \in 1..Len(toParent'[c]) :
           \/ i \in 1..Len(toParent[c]) /\ toParent'[c][i] = toParent[c][i]
           \/ toParent'[c][i].kind \in Terminal
  BY EndedPipe
<1>2. /\ toChild' \in [Children -> Seq(Messages \cup Replies)]
      /\ \A d \in Children \ {c} : toChild'[d] = toChild[d]
      /\ toChild' = toChild \/ Places(toChild'[c], "actions") = {}
      /\ open => \A d \in Children : \A i \in 1..Len(toChild'[d]) : toChild'[d][i].kind = "actions"
  BY ReadPipe
<1>3. /\ child'[c] = "ended" /\ ~lease'[c]
      /\ \A d \in Children \ {c} : child'[d] = child[d] /\ lease'[d] = lease[d]
  BY DEF IInv, TypeOK
<1>4. TypeOK'
  BY <1>1, <1>2 DEF IInv, TypeOK, Gone
<1>5. Stopped'
  BY <1>2 DEF IInv, Stopped
<1>6. ASSUME NEW d \in Children \ {c} PROVE Transit(d)' /\ Returned(d)'
  BY <1>1, <1>2, <1>3, TransitFrame, ReturnedFrame DEF IInv
<1>7. Transit(c)'
  <2>1. Transit(c)
    BY DEF IInv
  <2>2. /\ Places(toParent'[c], "infer") \subseteq Places(toParent[c], "infer")
        /\ \A i \in Places(toParent'[c], "infer") : toParent'[c][i] = toParent[c][i]
    BY <1>1 DEF Places, Terminal
  <2>3. /\ Places(toChild'[c], "actions") \subseteq Places(toChild[c], "actions")
        /\ \A i \in Places(toChild'[c], "actions") : toChild'[c][i] = toChild[c][i]
    BY <1>2
  <2>4. Batched(c)' = Batched(c)
    BY DEF Batched
  <2>5. child'[c] \in Gone /\ child'[c] \notin {"queue", "build", "step"}
    BY <1>3 DEF Gone
  <2> QED
    BY <2>1, <2>2, <2>3, <2>4, <2>5 DEF Transit
<1>8. Returned(c)'
  <2>1. Returned(c)
    BY DEF IInv
  <2> QED
    BY <1>3, <2>1 DEF Returned
<1> QED
  BY <1>4, <1>5, <1>6, <1>7, <1>8 DEF IInv

LEMMA Killing ==
  ASSUME IInv, NEW c \in Children, child[c] \notin Gone, child' = [child EXCEPT ![c] = "killed"],
         UNCHANGED <<lease, asked, pipeVars, open, parentVars, closed>>, faults' \in 0..MaxFaults
  PROVE  IInv'
<1>1. child'[c] = "killed" /\ \A d \in Children \ {c} : child'[d] = child[d]
  BY DEF IInv, TypeOK
<1>2. TypeOK'
  BY DEF IInv, TypeOK, Gone, pipeVars, parentVars
<1>3. Stopped'
  BY DEF IInv, Stopped, pipeVars, parentVars
<1>4. ASSUME NEW d \in Children \ {c} PROVE Transit(d)' /\ Returned(d)'
  BY <1>1, TransitFrame, ReturnedFrame DEF IInv, pipeVars, parentVars
<1>5. Transit(c)'
  <2>1. Transit(c)
    BY DEF IInv
  <2> QED
    BY <1>1, <2>1 DEF Transit, Places, Batched, Gone, pipeVars, parentVars
<1>6. Returned(c)'
  <2>1. Returned(c) /\ child[c] # "ended"
    BY DEF IInv, Gone
  <2> QED
    BY <2>1 DEF Returned, pipeVars, parentVars
<1> QED
  BY <1>2, <1>3, <1>4, <1>5, <1>6 DEF IInv

LEMMA EndsWithKeeps ==
  ASSUME IInv, NEW c \in Children, child[c] \notin Gone, NEW kind \in Terminal, EndsWith(c, kind),
         toChild' = toChild \/ (toChild[c] # <<>> /\ toChild' = [toChild EXCEPT ![c] = Tail(@)]),
         UNCHANGED <<open, parentVars>>, closed' \in BOOLEAN
  PROVE  IInv'
<1>1. faults \in 0..MaxFaults /\ MaxFaults \in Nat
  BY BrokerAssumption DEF IInv, TypeOK
<1>2. Msg(kind, 0) \in Messages /\ Msg("error", 0) \in Messages
      /\ Msg(kind, 0).kind \in Terminal /\ Msg("error", 0).kind \in Terminal
  BY BrokerAssumption DEF Msg, Messages, Kinds, Terminal
<1>3. CASE Sends(c, <<Msg(kind, 0)>>) /\ UNCHANGED faults
  <2>1. /\ <<Msg(kind, 0)>> \in Seq(Messages)
        /\ \A i \in 1..Len(<<Msg(kind, 0)>>) : <<Msg(kind, 0)>>[i].kind \in Terminal
    BY <1>2
  <2> QED
    BY <1>1, <1>3, <2>1, Ending DEF EndsWith, parentVars
<1>4. CASE /\ faults < MaxFaults /\ faults' = faults + 1
           /\ Sends(c, <<Msg(kind, 0), Msg("error", 0)>>)
  <2>1. /\ <<Msg(kind, 0), Msg("error", 0)>> \in Seq(Messages)
        /\ \A i \in 1..Len(<<Msg(kind, 0), Msg("error", 0)>>) :
             <<Msg(kind, 0), Msg("error", 0)>>[i].kind \in Terminal
    BY <1>2
  <2>2. faults' \in 0..MaxFaults
    BY <1>1, <1>4
  <2> QED
    BY <1>4, <2>1, <2>2, Ending DEF EndsWith, parentVars
<1> QED
  BY <1>3, <1>4 DEF EndsWith

\* The child moves on without a message.
LEMMA MoveKeeps ==
  ASSUME IInv, NEW c \in Children, child[c] \in {"queue", "build", "step"},
         child' \in {child, [child EXCEPT ![c] = "build"], [child EXCEPT ![c] = "step"]},
         lease' \in {lease, [lease EXCEPT ![c] = TRUE]},
         UNCHANGED <<asked, pipeVars, open, parentVars, faults>>, closed' \in BOOLEAN
  PROVE  IInv'
<1>1. /\ child'[c] \in {"queue", "build", "step"} /\ lease'[c] \in BOOLEAN
      /\ \A d \in Children \ {c} : child'[d] = child[d] /\ lease'[d] = lease[d]
      /\ child' \in [Children -> {"queue", "build", "step", "asked"} \cup Gone]
      /\ lease' \in [Children -> BOOLEAN]
  BY DEF IInv, TypeOK
<1>2. TypeOK'
  BY <1>1 DEF IInv, TypeOK, pipeVars, parentVars
<1>3. Stopped'
  BY DEF IInv, Stopped, pipeVars, parentVars
<1>4. ASSUME NEW d \in Children \ {c} PROVE Transit(d)' /\ Returned(d)'
  BY <1>1, TransitFrame, ReturnedFrame DEF IInv, pipeVars, parentVars
<1>5. Transit(c)'
  <2>1. Transit(c)
    BY DEF IInv
  <2> QED
    BY <1>1, <2>1 DEF Transit, Places, Batched, Gone, pipeVars, parentVars
<1>6. Returned(c)'
  <2>1. Returned(c) /\ child[c] # "ended"
    BY DEF IInv
  <2> QED
    BY <2>1 DEF Returned, pipeVars, parentVars
<1> QED
  BY <1>2, <1>3, <1>4, <1>5, <1>6 DEF IInv

LEMMA AskKeeps ==
  ASSUME IInv, NEW c \in Children, Ask(c), open
  PROVE  IInv'
<1>1. /\ child[c] = "step" /\ asked[c] < MaxRequests
      /\ asked' = [asked EXCEPT ![c] = @ + 1] /\ child' = [child EXCEPT ![c] = "asked"]
      /\ toParent' = [toParent EXCEPT ![c] = @ \o <<Msg("infer", asked[c] + 1)>>]
      /\ UNCHANGED <<lease, faults, toChild, open, parentVars, closed>>
  BY DEF Ask, Sends
<1>2. asked[c] + 1 \in 1..MaxRequests
  BY <1>1, BrokerAssumption DEF IInv, TypeOK
<1>3. toParent[c] = <<>>
  <2>1. toParent[c] \in Seq(Messages)
    BY DEF IInv, TypeOK
  <2>2. \A i \in 1..Len(toParent[c]) : FALSE
    BY <1>1 DEF IInv, Transit, Gone
  <2> QED
    BY <2>1, <2>2, EmptySeq
<1>4. Msg("infer", asked[c] + 1) \in Messages
  BY <1>2 DEF Msg, Messages, Kinds
<1>5. toParent'[c] = <<Msg("infer", asked[c] + 1)>>
  <2>1. toParent'[c] = toParent[c] \o <<Msg("infer", asked[c] + 1)>>
    BY <1>1 DEF IInv, TypeOK
  <2>2. <<Msg("infer", asked[c] + 1)>> \in Seq(Messages)
    BY <1>4
  <2> QED
    BY <1>3, <2>1, <2>2, ConcatEmptySeq
<1>6. /\ child'[c] = "asked" /\ asked'[c] = asked[c] + 1
      /\ \A d \in Children \ {c} :
           child'[d] = child[d] /\ asked'[d] = asked[d] /\ toParent'[d] = toParent[d]
  BY <1>1 DEF IInv, TypeOK
<1>7. TypeOK'
  <2>1. toParent' \in [Children -> Seq(Messages)]
    <3>1. <<Msg("infer", asked[c] + 1)>> \in Seq(Messages)
      BY <1>4
    <3> QED
      BY <1>1, <1>5, <1>6, <3>1 DEF IInv, TypeOK
  <2>2. asked' \in [Children -> 0..MaxRequests]
    BY <1>1, <1>2 DEF IInv, TypeOK
  <2> QED
    BY <1>1, <2>1, <2>2 DEF IInv, TypeOK, parentVars
<1>8. Stopped'
  BY <1>1 DEF IInv, Stopped, parentVars
<1>9. ASSUME NEW d \in Children \ {c} PROVE Transit(d)' /\ Returned(d)'
  BY <1>1, <1>6, TransitFrame, ReturnedFrame DEF IInv, parentVars
<1>10. Transit(c)'
  <2>1. Batched(c) = {} /\ Places(toChild[c], "actions") = {}
    BY <1>1 DEF IInv, Transit
  <2>2. Batched(c)' = {} /\ Places(toChild'[c], "actions") = {}
    BY <1>1, <2>1 DEF Batched, parentVars
  <2>3. Places(toParent'[c], "infer") = {1} /\ Len(toParent'[c]) = 1 /\ toParent'[c][1].id = asked'[c]
        /\ asked'[c] # 0
    BY <1>2, <1>5, <1>6 DEF Places, Msg
  <2> QED
    BY <1>6, <2>2, <2>3 DEF Transit
<1>11. Returned(c)'
  <2>1. Returned(c) /\ child[c] # "ended"
    BY <1>1 DEF IInv
  <2>2. \A i \in 1..Len(toParent'[c]) : toParent'[c][i].kind = "infer"
    BY <1>5 DEF Msg
  <2> QED
    BY <1>1, <2>1, <2>2 DEF Returned, parentVars
<1> QED
  BY <1>7, <1>8, <1>9, <1>10, <1>11 DEF IInv

LEMMA AnsweredKeeps ==
  ASSUME IInv, NEW c \in Children, child[c] = "asked", toChild[c] # <<>>,
         toChild' = [toChild EXCEPT ![c] = Tail(@)],
         Head(toChild[c]).kind = "actions",
         child' = [child EXCEPT ![c] = "step"],
         UNCHANGED <<lease, asked, toParent, faults, open, parentVars, closed>>
  PROVE  IInv'
<1>1. /\ toChild' \in [Children -> Seq(Messages \cup Replies)]
      /\ \A d \in Children \ {c} : toChild'[d] = toChild[d]
      /\ toChild' = toChild \/ Places(toChild'[c], "actions") = {}
      /\ open => \A d \in Children : \A i \in 1..Len(toChild'[d]) : toChild'[d][i].kind = "actions"
  BY ReadPipe
<1>2. 1 \in Places(toChild[c], "actions") /\ Len(toChild'[c]) # Len(toChild[c])
  <2>1. toChild \in [Children -> Seq(Messages \cup Replies)]
    BY DEF IInv, TypeOK
  <2>2. /\ Len(toChild[c]) \in Nat /\ Len(toChild[c]) > 0 /\ Head(toChild[c]) = toChild[c][1]
        /\ Len(Tail(toChild[c])) = Len(toChild[c]) - 1
    BY <2>1, PipeTail
  <2>3. toChild'[c] = Tail(toChild[c])
    BY <2>1
  <2>4. Len(toChild'[c]) # Len(toChild[c])
    <3>1. ASSUME NEW n \in Nat PROVE n - 1 # n
      OBVIOUS
    <3>2. Len(Tail(toChild[c])) # Len(toChild[c])
      BY <2>2, <3>1
    <3> QED
      BY <2>3, <3>2, Zenon
  <2>5. 1 \in 1..Len(toChild[c]) /\ toChild[c][1].kind = "actions"
    BY <2>2
  <2> QED
    BY <2>4, <2>5 DEF Places
<1>3. Places(toChild'[c], "actions") = {}
  BY <1>1, <1>2
<1>4. /\ child'[c] = "step"
      /\ \A d \in Children \ {c} : child'[d] = child[d]
  BY DEF IInv, TypeOK
<1>5. TypeOK'
  BY <1>1 DEF IInv, TypeOK, parentVars
<1>6. Stopped'
  BY <1>1 DEF IInv, Stopped, parentVars
<1>7. ASSUME NEW d \in Children \ {c} PROVE Transit(d)' /\ Returned(d)'
  BY <1>1, <1>4, TransitFrame, ReturnedFrame DEF IInv, parentVars
<1>8. Transit(c)'
  <2>1. /\ Places(toParent[c], "infer") = {} /\ Batched(c) = {}
        /\ \A i \in 1..Len(toParent[c]) : i \in Places(toParent[c], "infer")
    BY <1>2 DEF IInv, Transit, Gone
  <2>2. /\ Places(toParent'[c], "infer") = {} /\ Batched(c)' = {}
        /\ \A i \in 1..Len(toParent'[c]) : i \in Places(toParent'[c], "infer")
    BY <2>1 DEF Batched, parentVars
  <2> QED
    BY <1>3, <2>2 DEF Transit
<1>9. Returned(c)'
  <2>1. Returned(c) /\ child[c] # "ended"
    BY DEF IInv
  <2> QED
    BY <2>1 DEF Returned, parentVars
<1> QED
  BY <1>5, <1>6, <1>7, <1>8, <1>9 DEF IInv

LEMMA ChildKeeps ==
  ASSUME IInv, NEW c \in Children, Child(c) \/ Claim(c) \/ ChildFails(c) \/ Killed(c)
  PROVE  IInv'
<1>0. closed \in BOOLEAN
  BY DEF IInv, TypeOK
<1>1. CASE Claim(c)
  BY <1>0, <1>1, MoveKeeps DEF Claim
<1>2. CASE Build(c)
  BY <1>0, <1>2, MoveKeeps DEF Build
<1>3. CASE ClaimNothing(c)
  BY <1>0, <1>3, EndsWithKeeps DEF ClaimNothing, Gone, Terminal
<1>4. CASE Ask(c)
  <2>1. CASE open
    BY <1>4, <2>1, AskKeeps
  <2>2. CASE ~open
    <3>1. child[c] = "step" /\ EndsWith(c, "error") /\ UNCHANGED <<toChild, open, parentVars, closed>>
      BY <1>4, <2>2 DEF Ask, Fails
    <3> QED
      BY <1>0, <3>1, EndsWithKeeps DEF Gone, Terminal
  <2> QED
    BY <2>1, <2>2
<1>5. CASE Answered(c)
  <2>1. CASE EndsWith(c, "error")
    <3>1. /\ child[c] = "asked" /\ UNCHANGED <<open, parentVars, closed>>
          /\ toChild' = toChild \/ (toChild[c] # <<>> /\ toChild' = [toChild EXCEPT ![c] = Tail(@)])
      BY <1>5 DEF Answered
    <3> QED
      BY <1>0, <2>1, <3>1, EndsWithKeeps DEF Gone, Terminal
  <2>2. CASE ~EndsWith(c, "error")
    BY <1>5, <2>2, AnsweredKeeps DEF Answered, Fails
  <2> QED
    BY <2>1, <2>2
<1>6. CASE Commit(c)
  <2>0. child[c] = "step" /\ closed' \in BOOLEAN /\ UNCHANGED <<toChild, open, parentVars>>
    BY <1>0, <1>6 DEF Commit
  <2>1. CASE EndsWith(c, "window_closed") \/ EndsWith(c, "drained")
    BY <2>0, <2>1, EndsWithKeeps DEF Gone, Terminal
  <2>2. CASE UNCHANGED <<childVars, toParent, faults>>
    BY <2>0, <2>2, MoveKeeps DEF childVars, pipeVars
  <2> QED
    BY <1>6, <2>1, <2>2 DEF Commit
<1>7. CASE ChildFails(c)
  <2>1. /\ <<Msg("error", 0)>> \in Seq(Messages)
        /\ \A i \in 1..Len(<<Msg("error", 0)>>) : <<Msg("error", 0)>>[i].kind \in Terminal
    BY BrokerAssumption DEF Msg, Messages, Kinds, Terminal
  <2>2. faults' \in 0..MaxFaults
    BY <1>7, BrokerAssumption DEF ChildFails, IInv, TypeOK
  <2> QED
    BY <1>0, <1>7, <2>1, <2>2, Ending DEF ChildFails, parentVars
<1>8. CASE Killed(c)
  <2>1. faults' \in 0..MaxFaults
    BY <1>8, BrokerAssumption DEF Killed, IInv, TypeOK
  <2> QED
    BY <1>8, <2>1, Killing DEF Killed
<1> QED
  BY <1>1, <1>2, <1>3, <1>4, <1>5, <1>6, <1>7, <1>8 DEF Child

---------------------------------------------------------------------------
(* The parent                                                              *)

\* The parent reads at most one message of a child.
OneRead(c) ==
  \/ toParent'[c] = toParent[c]
  \/ toParent[c] # <<>> /\ toParent'[c] = Tail(toParent[c])

LEMMA ReadMessage ==
  ASSUME IInv, NEW c \in Children, toParent[c] # <<>>, toParent'[c] = Tail(toParent[c])
  PROVE  /\ toParent'[c] \in Seq(Messages) /\ Head(toParent[c]) = toParent[c][1]
         /\ 1 \in 1..Len(toParent[c]) /\ Head(toParent[c]) \in Messages
         /\ Places(toParent'[c], "infer") = {}
         /\ child[c] \notin Gone => \A i \in 1..Len(toParent'[c]) : FALSE
         /\ \A i \in 1..Len(toParent'[c]) :
              i + 1 \in 1..Len(toParent[c]) /\ toParent'[c][i] = toParent[c][i + 1]
<1>1. toParent[c] \in Seq(Messages)
  BY DEF IInv, TypeOK
<1>2. /\ Len(toParent[c]) \in Nat /\ Len(toParent[c]) > 0
      /\ Head(toParent[c]) = toParent[c][1] /\ Head(toParent[c]) \in Messages
      /\ Tail(toParent[c]) \in Seq(Messages) /\ Len(Tail(toParent[c])) = Len(toParent[c]) - 1
      /\ \A i \in 1..Len(Tail(toParent[c])) : /\ Tail(toParent[c])[i] = toParent[c][i + 1]
                                              /\ i + 1 \in 1..Len(toParent[c])
  BY <1>1, PipeTail
<1>3. \A i \in 1..Len(toParent'[c]) :
         i + 1 \in 1..Len(toParent[c]) /\ toParent'[c][i] = toParent[c][i + 1] /\ i + 1 # 1
  BY <1>2
<1>4. Places(toParent[c], "infer") \subseteq {1}
  BY DEF IInv, Transit
<1>5. Places(toParent'[c], "infer") = {}
  BY <1>3, <1>4 DEF Places
<1>6. child[c] \notin Gone => \A i \in 1..Len(toParent'[c]) : FALSE
  <2>1. child[c] \notin Gone => \A i \in 1..Len(toParent[c]) : i \in Places(toParent[c], "infer")
    BY DEF IInv, Transit
  <2> QED
    BY <1>3, <1>4, <2>1
<1> QED
  BY <1>2, <1>3, <1>5, <1>6

LEMMA ReadTypes ==
  ASSUME IInv, \A c \in Children : OneRead(c), toParent' = [c \in Children |-> toParent'[c]]
  PROVE  toParent' \in [Children -> Seq(Messages)]
<1>1. ASSUME NEW c \in Children PROVE toParent'[c] \in Seq(Messages)
  <2>1. CASE toParent'[c] = toParent[c]
    BY <2>1 DEF IInv, TypeOK
  <2>2. CASE toParent[c] # <<>> /\ toParent'[c] = Tail(toParent[c])
    BY <2>2, ReadMessage
  <2> QED
    BY <2>1, <2>2 DEF OneRead
<1> QED
  BY <1>1

\* The end of the parent's work: what is in the pipes, with answers or without, an error
\* behind it, and the pipes closed.
LEMMA Stopping ==
  ASSUME IInv, open, NEW pipes,
         pipes \in [Children -> Seq(Messages \cup Replies)],
         \A c \in Children : pipes[c] = toChild[c] \/ \E i \in Batched(c) : pipes[c] = <<Answer(i)>>,
         NEW reason \in {"raised", "drained", "window_closed"},
         reason # "raised" => \A c \in Children : results[c] # None,
         \A c \in Children : OneRead(c), toParent' = [c \in Children |-> toParent'[c]],
         UNCHANGED <<childVars, active, results, closed>>, faults' \in 0..MaxFaults,
         Stops(reason, pipes)
  PROVE  IInv'
<1>1. /\ outcome' = reason /\ parent' = "join" /\ open' = FALSE /\ batch' = <<>>
      /\ child' = child /\ lease' = lease /\ asked' = asked
  BY DEF Stops, childVars
<1>2. ASSUME NEW c \in Children
      PROVE  /\ toChild'[c] \in Seq(Messages \cup Replies)
             /\ Places(toChild'[c], "actions") = Places(pipes[c], "actions")
             /\ \A i \in Places(toChild'[c], "actions") : toChild'[c][i] = pipes[c][i]
  <2>1. toChild'[c] = pipes[c] \/ toChild'[c] = Append(pipes[c], Msg("error", 0))
    BY DEF Stops
  <2>2. pipes[c] \in Seq(Messages \cup Replies) /\ Msg("error", 0) \in Messages \cup Replies
    BY BrokerAssumption DEF Msg, Messages, Kinds
  <2>3. CASE toChild'[c] = Append(pipes[c], Msg("error", 0))
    <3>1. /\ toChild'[c] \in Seq(Messages \cup Replies) /\ Len(pipes[c]) \in Nat
          /\ Len(toChild'[c]) = Len(pipes[c]) + 1
          /\ \A i \in 1..Len(pipes[c]) : toChild'[c][i] = pipes[c][i]
          /\ toChild'[c][Len(pipes[c]) + 1] = Msg("error", 0)
      BY <2>2, <2>3
    <3>2. toChild'[c][Len(pipes[c]) + 1].kind # "actions"
      BY <3>1 DEF Msg
    <3>3. \A i \in 1..Len(toChild'[c]) : i \in 1..Len(pipes[c]) \/ i = Len(pipes[c]) + 1
      BY <3>1
    <3>4. \A i \in 1..Len(pipes[c]) : i \in 1..Len(toChild'[c])
      BY <3>1
    <3> QED
      BY <3>1, <3>2, <3>3, <3>4 DEF Places
  <2> QED
    BY <2>1, <2>2, <2>3
<1>3. toChild' \in [Children -> Seq(Messages \cup Replies)]
  <2>1. toChild' = [c \in Children |-> toChild'[c]]
    BY DEF Stops
  <2> QED
    BY <1>2, <2>1
<1>4. toParent' \in [Children -> Seq(Messages)]
  BY ReadTypes
<1>5. TypeOK'
  <2>1. <<>> \in Seq(Requests)
    OBVIOUS
  <2> QED
    BY <1>1, <1>3, <1>4, <2>1 DEF IInv, TypeOK
<1>6. Stopped'
  BY <1>1 DEF Stopped, None
<1>7. ASSUME NEW c \in Children PROVE Transit(c)'
  <2>1. Transit(c)
    BY DEF IInv
  <2>2. Batched(c)' = {}
    BY <1>1 DEF Batched
  <2>3. /\ Places(toParent'[c], "infer") \subseteq Places(toParent[c], "infer")
        /\ \A i \in Places(toParent'[c], "infer") : toParent'[c][i] = toParent[c][i]
        /\ child[c] \notin Gone =>
             \A i \in 1..Len(toParent'[c]) : i \in Places(toParent'[c], "infer")
    <3>1. CASE toParent'[c] = toParent[c]
      BY <2>1, <3>1 DEF Transit
    <3>2. CASE toParent[c] # <<>> /\ toParent'[c] = Tail(toParent[c])
      BY <3>2, ReadMessage
    <3> QED
      BY <3>1, <3>2 DEF OneRead
  <2>4. CASE pipes[c] = toChild[c]
    <3>1. /\ Places(toChild'[c], "actions") = Places(toChild[c], "actions")
          /\ \A i \in Places(toChild'[c], "actions") : toChild'[c][i] = toChild[c][i]
      BY <1>2, <2>4
    <3> QED
      BY <1>1, <2>1, <2>2, <2>3, <3>1 DEF Transit
  <2>5. ASSUME NEW i \in Batched(c), pipes[c] = <<Answer(i)>> PROVE Transit(c)'
    <3>1. /\ Places(toParent[c], "infer") = {} /\ batch[i].id = asked[c] /\ batch[i].child = c
          /\ child[c] \notin {"queue", "build", "step"}
      BY <2>1 DEF Transit, Batched
    <3>2. Len(pipes[c]) = 1 /\ pipes[c][1] = Answer(i)
      BY <2>5
    <3>3. Places(pipes[c], "actions") = {1}
      BY <3>2 DEF Places, Answer
    <3>4. /\ Places(toChild'[c], "actions") = {1}
          /\ toChild'[c][1].id = asked[c] /\ toChild'[c][1].of = <<c, asked[c]>>
      BY <1>2, <3>1, <3>2, <3>3 DEF Answer
    <3>5. Places(toParent'[c], "infer") = {}
      BY <2>3, <3>1
    <3> QED
      BY <1>1, <2>2, <2>3, <3>1, <3>4, <3>5 DEF Transit
  <2> QED
    BY <2>4, <2>5
<1>8. ASSUME NEW c \in Children PROVE Returned(c)'
  <2>1. Returned(c)
    BY DEF IInv
  <2>2. \A i \in 1..Len(toParent'[c]) : \E j \in 1..Len(toParent[c]) : toParent'[c][i] = toParent[c][j]
    BY ReadMessage DEF OneRead
  <2> QED
    BY <1>1, <2>1, <2>2 DEF Returned
<1> QED
  BY <1>5, <1>6, <1>7, <1>8 DEF IInv

LEMMA RaisesKeeps ==
  ASSUME IInv, open, Raises, \A c \in Children : OneRead(c),
         toParent' = [c \in Children |-> toParent'[c]],
         UNCHANGED <<childVars, closed>>, faults' \in 0..MaxFaults
  PROVE  IInv'
<1>1. toChild \in [Children -> Seq(Messages \cup Replies)]
  BY DEF IInv, TypeOK
<1> QED
  BY <1>1, Stopping DEF Raises

\* A sequence of requests with one of each child in q behind it.
LEMMA Extended ==
  ASSUME NEW b \in Seq(Requests), NEW n \in Nat, NEW q \in [1..n -> Children],
         NEW ids \in [Children -> 0..MaxRequests], NEW m \in [1..n -> Requests],
         \A i \in 1..n : m[i].child = q[i] /\ m[i].id = ids[q[i]],
         \A i, j \in 1..n : q[i] = q[j] => i = j
  PROVE  /\ b \o m \in Seq(Requests) /\ Len(b) \in Nat
         /\ \A i \in 1..Len(b \o m) :
              \/ i \in 1..Len(b) /\ (b \o m)[i] = b[i]
              \/ /\ i > Len(b) /\ \E k \in 1..n : (b \o m)[i].child = q[k]
                 /\ (b \o m)[i].id = ids[(b \o m)[i].child]
         /\ \A i, j \in 1..Len(b \o m) :
              i > Len(b) /\ j > Len(b) /\ (b \o m)[i].child = (b \o m)[j].child => i = j
<1>1. m \in Seq(Requests) /\ Len(m) = n
  OBVIOUS
<1>2. /\ b \o m \in Seq(Requests) /\ Len(b) \in Nat
      /\ \A i \in 1..Len(b \o m) :
           \/ i \in 1..Len(b) /\ (b \o m)[i] = b[i]
           \/ i - Len(b) \in 1..n /\ (b \o m)[i] = m[i - Len(b)]
  <2>1. /\ b \o m \in Seq(Requests) /\ Len(b) \in Nat
        /\ \A i \in 1..Len(b \o m) :
             \/ i \in 1..Len(b) /\ (b \o m)[i] = b[i]
             \/ i - Len(b) \in 1..Len(m) /\ (b \o m)[i] = m[i - Len(b)]
    BY <1>1, PipeConcat
  <2> QED
    BY <1>1, <2>1
<1> DEFINE s == b \o m
<1>3. ASSUME NEW i \in 1..Len(s), i > Len(b)
      PROVE  /\ i - Len(b) \in 1..n /\ s[i].child = q[i - Len(b)]
             /\ s[i].id = ids[s[i].child]
  BY <1>2, <1>3
<1>4. \A i \in 1..Len(s) : i \notin 1..Len(b) => i > Len(b)
  BY <1>2
<1>5. ASSUME NEW i \in 1..Len(s), NEW j \in 1..Len(s), i > Len(b), j > Len(b),
             s[i].child = s[j].child
      PROVE  i = j
  <2>1. i - Len(b) = j - Len(b)
    BY <1>3, <1>5
  <2> QED
    BY <1>2, <2>1
<1> QED
  BY <1>2, <1>3, <1>4, <1>5

LEMMA BatchOf ==
  ASSUME NEW I \in SUBSET Children, \A c \in I : Batched(c) = {}, Len(batch) \in Nat,
         batch' \in Seq(Requests),
         \A i \in 1..Len(batch') :
           \/ i \in 1..Len(batch) /\ batch'[i] = batch[i]
           \/ i > Len(batch) /\ batch'[i].child \in I /\ batch'[i].id = asked[batch'[i].child],
         \A i, j \in 1..Len(batch') :
           i > Len(batch) /\ j > Len(batch) /\ batch'[i].child = batch'[j].child => i = j
  PROVE  /\ \A c \in Children \ I : /\ Batched(c)' \subseteq Batched(c)
                                    /\ \A i \in Batched(c)' : batch'[i] = batch[i]
         /\ \A c \in I : /\ \A i, j \in Batched(c)' : i = j
                         /\ \A i \in Batched(c)' : batch'[i].id = asked[c]
<1>1. ASSUME NEW c \in Children \ I, NEW i \in Batched(c)'
      PROVE  i \in Batched(c) /\ batch'[i] = batch[i]
  BY DEF Batched
<1>2. ASSUME NEW c \in I, NEW i \in Batched(c)'
      PROVE  /\ i \in 1..Len(batch') /\ i > Len(batch) /\ batch'[i].child = c
             /\ batch'[i].id = asked[c]
  BY DEF Batched
<1> QED
  BY <1>1, <1>2

\* The batch with a request of each child in I behind it.
LEMMA BatchGrows ==
  ASSUME IInv, NEW I \in SUBSET Children,
         \A c \in I : toParent[c] # <<>> /\ Head(toParent[c]).kind = "infer",
         batch' = batch \o [i \in 1..Cardinality(I) |->
                              LET c == SetToSeq(I)[i]
                              IN [child |-> c, id |-> Head(toParent[c]).id]]
  PROVE  /\ batch' \in Seq(Requests)
         /\ \A c \in Children \ I : /\ Batched(c)' \subseteq Batched(c)
                                    /\ \A i \in Batched(c)' : batch'[i] = batch[i]
         /\ \A c \in I : /\ \A i, j \in Batched(c)' : i = j
                         /\ \A i \in Batched(c)' : batch'[i].id = asked[c]
<1> DEFINE n == Cardinality(I)
           q == SetToSeq(I)
           more == [i \in 1..n |-> [child |-> q[i], id |-> Head(toParent[q[i]]).id]]
<1>0. IsFiniteSet(I)
  BY BrokerAssumption, FS_Subset
<1>1. n \in Nat /\ q \in [1..n -> I] /\ \A i, j \in 1..n : q[i] = q[j] => i = j
  BY <1>0, SeqOfSet
<1>2. ASSUME NEW c \in I
      PROVE  /\ Head(toParent[c]).id = asked[c] /\ asked[c] \in 1..MaxRequests /\ Batched(c) = {}
  <2>1. toParent[c] \in Seq(Messages)
    BY DEF IInv, TypeOK
  <2>2. /\ Len(toParent[c]) \in Nat /\ Len(toParent[c]) > 0
        /\ Head(toParent[c]) = toParent[c][1]
    BY <2>1, PipeTail
  <2>3. 1 \in Places(toParent[c], "infer")
    BY <2>2 DEF Places
  <2>4. toParent[c][1].id = asked[c] /\ asked[c] # 0 /\ Batched(c) = {}
    BY <2>3 DEF IInv, Transit
  <2>5. asked[c] \in 0..MaxRequests /\ MaxRequests \in Nat
    BY BrokerAssumption DEF IInv, TypeOK
  <2> QED
    BY <2>2, <2>4, <2>5
<1>3. \A i \in 1..n : more[i].child = q[i] /\ more[i].id = asked[q[i]]
  BY <1>1, <1>2
<1>4. more \in [1..n -> Requests]
  BY <1>1, <1>2 DEF Requests
<1>5. batch' = batch \o more /\ batch \in Seq(Requests) /\ asked \in [Children -> 0..MaxRequests]
  BY DEF IInv, TypeOK
<1>6. q \in [1..n -> Children]
  BY <1>1
<1> HIDE DEF more, q, n
<1>7. /\ batch' \in Seq(Requests) /\ Len(batch) \in Nat
      /\ \A i \in 1..Len(batch') :
           \/ i \in 1..Len(batch) /\ batch'[i] = batch[i]
           \/ /\ i > Len(batch) /\ \E k \in 1..n : batch'[i].child = q[k]
              /\ batch'[i].id = asked[batch'[i].child]
      /\ \A i, j \in 1..Len(batch') :
           i > Len(batch) /\ j > Len(batch) /\ batch'[i].child = batch'[j].child => i = j
  <2>1. /\ batch \o more \in Seq(Requests) /\ Len(batch) \in Nat
        /\ \A i \in 1..Len(batch \o more) :
             \/ i \in 1..Len(batch) /\ (batch \o more)[i] = batch[i]
             \/ /\ i > Len(batch) /\ \E k \in 1..n : (batch \o more)[i].child = q[k]
                /\ (batch \o more)[i].id = asked[(batch \o more)[i].child]
        /\ \A i, j \in 1..Len(batch \o more) :
             /\ i > Len(batch) /\ j > Len(batch)
             /\ (batch \o more)[i].child = (batch \o more)[j].child
             => i = j
    BY <1>1, <1>3, <1>4, <1>5, <1>6, Extended
  <2> QED
    BY <1>5, <2>1, ZenonT(60)
<1>8. \A k \in 1..n : q[k] \in I
  BY <1>1
<1>9. \A i \in 1..Len(batch') :
         \/ i \in 1..Len(batch) /\ batch'[i] = batch[i]
         \/ i > Len(batch) /\ batch'[i].child \in I /\ batch'[i].id = asked[batch'[i].child]
  BY <1>7, <1>8, Zenon
<1>10. \A c \in I : Batched(c) = {}
  BY <1>2
<1>11. /\ \A c \in Children \ I : /\ Batched(c)' \subseteq Batched(c)
                                   /\ \A i \in Batched(c)' : batch'[i] = batch[i]
       /\ \A c \in I : /\ \A i, j \in Batched(c)' : i = j
                       /\ \A i \in Batched(c)' : batch'[i].id = asked[c]
  BY <1>7, <1>9, <1>10, BatchOf, Zenon
<1> QED
  BY <1>7, <1>11, Zenon

LEMMA ReceiveKeeps ==
  ASSUME IInv, open, NEW cs \in SUBSET Children, Receive(cs), UNCHANGED <<childVars, closed, faults>>
  PROVE  IInv'
<1> DEFINE I == {c \in cs : Message(c) \in {"infer"}}
           over == {c \in cs : Message(c) \in {"window_closed", "drained"}}
<1>1. /\ \A c \in Children : OneRead(c)
      /\ toParent' = [c \in Children |-> toParent'[c]]
  BY DEF Receive, OneRead
<1>2. CASE Raises
  BY <1>1, <1>2, RaisesKeeps DEF IInv, TypeOK
<1>3. CASE /\ batch' = batch \o [i \in 1..Cardinality(I) |->
                                   LET c == SetToSeq(I)[i]
                                   IN [child |-> c, id |-> Head(toParent[c]).id]]
           /\ active' = active \ over
           /\ results' = [c \in Children |-> IF c \in over THEN Message(c) ELSE results[c]]
           /\ parent' = "coalesce"
           /\ UNCHANGED <<toChild, open, outcome>>
  <2>0. \A c \in Children : Message(c) # "eof" => toParent[c] # <<>> /\ Message(c) = Head(toParent[c]).kind
    BY DEF Message
  <2>1. \A c \in I : toParent[c] # <<>> /\ Head(toParent[c]).kind = "infer"
    BY <2>0
  <2>2. \A c \in over : toParent[c] # <<>> /\ Head(toParent[c]).kind = Message(c)
    BY <2>0
  <2>3. /\ batch' \in Seq(Requests)
        /\ \A c \in Children \ I : /\ Batched(c)' \subseteq Batched(c)
                                   /\ \A i \in Batched(c)' : batch'[i] = batch[i]
        /\ \A c \in I : /\ \A i, j \in Batched(c)' : i = j
                        /\ \A i \in Batched(c)' : batch'[i].id = asked[c]
    BY <1>3, <2>1, BatchGrows
  <2>4. \A c \in over : toParent'[c] = Tail(toParent[c]) /\ c \in Children
    BY <2>2 DEF Receive
  <2>5. \A c \in I : toParent'[c] = Tail(toParent[c]) /\ c \in Children
    BY <2>1 DEF Receive
  <2>6. /\ child' = child /\ lease' = lease /\ asked' = asked /\ toChild' = toChild /\ open' = open
        /\ outcome' = outcome /\ active' = active \ over
        /\ \A c \in Children : results'[c] = IF c \in over THEN Message(c) ELSE results[c]
    BY <1>3 DEF childVars
  <2>7. TypeOK'
    <3>1. toParent' \in [Children -> Seq(Messages)]
      BY <1>1, ReadTypes
    <3>2. results' \in [Children -> {None, "drained", "window_closed"}]
      BY <1>3 DEF IInv, TypeOK
    <3>3. active' \subseteq Children
      BY <1>3 DEF IInv, TypeOK
    <3> QED
      BY <1>3, <2>3, <3>1, <3>2, <3>3 DEF IInv, TypeOK, childVars
  <2>8. Stopped'
    BY <1>3 DEF IInv, Stopped
  <2> HIDE DEF I, over
  <2>9. ASSUME NEW c \in Children PROVE Transit(c)'
    <3>1. Transit(c)
      BY DEF IInv
    <3>2. CASE c \in I
      <4>1. /\ Places(toParent'[c], "infer") = {} /\ 1 \in Places(toParent[c], "infer")
            /\ child[c] \notin Gone => \A i \in 1..Len(toParent'[c]) : FALSE
        BY <2>1, <2>5, <3>2, ReadMessage DEF Places
      <4>2. /\ Places(toChild'[c], "actions") = {} /\ child[c] \notin {"queue", "build", "step"}
        BY <2>6, <3>1, <4>1 DEF Transit
      <4>3. (\A i, j \in Batched(c)' : i = j) /\ \A i \in Batched(c)' : batch'[i].id = asked[c]
        BY <2>3, <3>2
      <4> QED
        BY <2>6, <4>1, <4>2, <4>3 DEF Transit
    <3>3. CASE c \notin I
      <4>1. Batched(c)' \subseteq Batched(c) /\ \A i \in Batched(c)' : batch'[i] = batch[i]
        BY <2>3, <3>3
      <4>2. CASE toParent'[c] = toParent[c]
        BY <2>6, <3>1, <4>1, <4>2 DEF Transit
      <4>3. CASE toParent[c] # <<>> /\ toParent'[c] = Tail(toParent[c])
        <5>1. /\ Places(toParent'[c], "infer") = {}
              /\ child[c] \notin Gone => \A i \in 1..Len(toParent'[c]) : FALSE
          BY <4>3, ReadMessage
        <5> QED
          BY <2>6, <3>1, <4>1, <5>1 DEF Transit
      <4> QED
        BY <1>1, <4>2, <4>3 DEF OneRead
    <3> QED
      BY <3>2, <3>3
  <2>10. ASSUME NEW c \in Children PROVE Returned(c)'
    <3>1. Returned(c)
      BY DEF IInv
    <3>2. \A i \in 1..Len(toParent'[c]) : \E j \in 1..Len(toParent[c]) : toParent'[c][i] = toParent[c][j]
      BY <1>1, ReadMessage DEF OneRead
    <3>3. CASE c \in over
      <4>1. Message(c) \in {"window_closed", "drained"} /\ Message(c) # None
        BY <3>3 DEF over, None
      <4>2. child[c] = "ended" /\ ~lease[c]
        <5>1. 1 \in 1..Len(toParent[c]) /\ toParent[c][1] = Head(toParent[c])
          BY <2>2, <2>4, <3>3, ReadMessage
        <5> QED
          BY <2>2, <3>1, <3>3, <4>1, <5>1 DEF Returned
      <4> QED
        BY <2>6, <3>1, <3>2, <3>3, <4>1, <4>2 DEF Returned
    <3>4. CASE c \notin over
      BY <2>6, <3>1, <3>2, <3>4 DEF Returned
    <3> QED
      BY <3>3, <3>4
  <2> QED
    BY <2>7, <2>8, <2>9, <2>10 DEF IInv
<1> QED
  BY <1>2, <1>3 DEF Receive

LEMMA AnswerTypes ==
  ASSUME IInv, open, NEW cs \in SUBSET Requested
  PROVE  /\ Answering(cs) \in [Children -> Seq(Messages \cup Replies)]
         /\ \A c \in Children :
              Answering(cs)[c] = toChild[c] \/ \E i \in Batched(c) : Answering(cs)[c] = <<Answer(i)>>
<1>1. ASSUME NEW c \in Children
      PROVE  /\ Answering(cs)[c] = toChild[c] \/ \E i \in Batched(c) : Answering(cs)[c] = <<Answer(i)>>
             /\ Answering(cs)[c] \in Seq(Messages \cup Replies)
  <2>1. Answering(cs)[c] = toChild[c] \/ \E i \in Batched(c) : Answering(cs)[c] = <<Answer(i)>>
    BY AnswersOfOneAlone
  <2>2. toChild[c] \in Seq(Messages \cup Replies)
    BY DEF IInv, TypeOK
  <2>3. \A i \in Batched(c) : Answer(i) \in Messages \cup Replies
    BY BatchType DEF Batched
  <2>4. \A i \in Batched(c) : <<Answer(i)>> \in Seq(Messages \cup Replies)
    BY <2>3
  <2> QED
    BY <2>1, <2>2, <2>4
<1>2. Answering(cs) = [c \in Children |-> Answering(cs)[c]]
  BY DEF Answering
<1> QED
  BY <1>1, <1>2

LEMMA InferKeeps ==
  ASSUME IInv, Infer
  PROVE  IInv'
<1>0. /\ parent = "infer" /\ toChild' = Answering(Requested) /\ batch' = <<>> /\ parent' = "wait"
      /\ UNCHANGED <<childVars, toParent, open, active, results, outcome, closed, faults>>
  BY DEF Infer
<1>1. open
  BY <1>0 DEF IInv, Stopped
<1>2. /\ toChild' \in [Children -> Seq(Messages \cup Replies)]
      /\ \A c \in Children :
           toChild'[c] = toChild[c] \/ \E i \in Batched(c) : toChild'[c] = <<Answer(i)>>
  BY <1>0, <1>1, AnswerTypes
<1>3. TypeOK'
  <2>1. <<>> \in Seq(Requests)
    OBVIOUS
  <2> QED
    BY <1>0, <1>2, <2>1 DEF IInv, TypeOK, childVars
<1>4. Stopped'
  <2>1. ASSUME NEW c \in Children, NEW j \in 1..Len(toChild'[c]) PROVE toChild'[c][j].kind = "actions"
    <3>1. CASE toChild'[c] = toChild[c]
      BY <1>1, <2>1, <3>1 DEF IInv, Stopped
    <3>2. ASSUME NEW i \in Batched(c), toChild'[c] = <<Answer(i)>>
          PROVE  toChild'[c][j].kind = "actions"
      BY <2>1, <3>2 DEF Answer
    <3> QED
      BY <1>2, <3>1, <3>2
  <2> QED
    BY <1>0, <1>1, <2>1 DEF IInv, Stopped
<1>5. ASSUME NEW c \in Children PROVE Transit(c)'
  <2>1. Transit(c)
    BY DEF IInv
  <2>2. Batched(c)' = {}
    BY <1>0 DEF Batched
  <2>3. CASE toChild'[c] = toChild[c]
    BY <1>0, <2>1, <2>2, <2>3 DEF Transit, childVars
  <2>4. ASSUME NEW i \in Batched(c), toChild'[c] = <<Answer(i)>> PROVE Transit(c)'
    <3>1. /\ Places(toParent[c], "infer") = {} /\ batch[i].id = asked[c] /\ batch[i].child = c
          /\ child[c] \notin {"queue", "build", "step"}
          /\ child[c] \notin Gone => \A k \in 1..Len(toParent[c]) : k \in Places(toParent[c], "infer")
      BY <2>1 DEF Transit, Batched
    <3>2. Len(toChild'[c]) = 1 /\ toChild'[c][1] = Answer(i)
      BY <2>4
    <3>3. /\ Places(toChild'[c], "actions") = {1}
          /\ toChild'[c][1].id = asked[c] /\ toChild'[c][1].of = <<c, asked[c]>>
      BY <3>1, <3>2 DEF Places, Answer
    <3> QED
      BY <1>0, <2>2, <3>1, <3>3 DEF Transit, childVars
  <2> QED
    BY <1>2, <2>3, <2>4
<1>6. ASSUME NEW c \in Children PROVE Returned(c)'
  BY <1>0, ReturnedFrame DEF IInv, childVars
<1> QED
  BY <1>3, <1>4, <1>5, <1>6 DEF IInv

LEMMA QuietKeeps ==
  ASSUME IInv, UNCHANGED <<childVars, pipeVars, open, active, batch, results, outcome, faults>>,
         parent' \in {"load", "wait", "coalesce", "infer", "join", "ended"},
         parent \in {"join", "ended"} <=> parent' \in {"join", "ended"}, closed' \in BOOLEAN
  PROVE  IInv'
<1>1. TypeOK' /\ Stopped'
  BY DEF IInv, TypeOK, Stopped, childVars, pipeVars
<1>2. \A c \in Children : Transit(c)' /\ Returned(c)'
  BY TransitFrame, ReturnedFrame DEF IInv, childVars, pipeVars
<1> QED
  BY <1>1, <1>2 DEF IInv

LEMMA ParentKeeps ==
  ASSUME IInv, Parent
  PROVE  IInv'
<1>0. /\ closed \in BOOLEAN /\ faults \in 0..MaxFaults /\ MaxFaults \in Nat /\ active \subseteq Children
      /\ toParent = [c \in Children |-> toParent[c]]
      /\ toChild \in [Children -> Seq(Messages \cup Replies)]
      /\ open <=> parent \notin {"join", "ended"}
  BY BrokerAssumption DEF IInv, TypeOK, Stopped
<1>a. ASSUME toParent' = toParent
      PROVE  (\A c \in Children : OneRead(c)) /\ toParent' = [c \in Children |-> toParent'[c]]
  BY <1>0, <1>a DEF OneRead
<1>1. CASE Load
  <2>1. CASE parent' = "wait" /\ UNCHANGED <<toChild, open, active, batch, results, outcome, faults>>
    BY <1>0, <1>1, <2>1, QuietKeeps DEF Load, pipeVars
  <2>2. CASE faults < MaxFaults /\ faults' = faults + 1 /\ Raises
    <3>1. faults' \in 0..MaxFaults
      BY <1>0, <2>2
    <3> QED
      BY <1>0, <1>1, <1>a, <2>2, <3>1, RaisesKeeps DEF Load
  <2> QED
    BY <1>1, <2>1, <2>2 DEF Load
<1>2. CASE WaitAny \/ Coalesce
  <2>1. /\ open /\ UNCHANGED <<childVars, closed, faults>>
        /\ \E cs \in SUBSET Children : Receive(cs)
    BY <1>0, <1>2 DEF WaitAny, Coalesce
  <2> QED
    BY <2>1, ReceiveKeeps
<1>3. CASE CoalesceEnds
  BY <1>0, <1>3, QuietKeeps DEF CoalesceEnds
<1>4. CASE Infer
  BY <1>4, InferKeeps
<1>5. CASE InferRaises
  <2>0. open /\ UNCHANGED <<childVars, toParent, closed, active, results>>
    BY <1>0, <1>5 DEF InferRaises, Raises
  <2>1. CASE faults < MaxFaults /\ faults' = faults + 1 /\ Raises
    <3>1. faults' \in 0..MaxFaults
      BY <1>0, <2>1
    <3> QED
      BY <1>a, <2>0, <2>1, <3>1, RaisesKeeps
  <2>2. ASSUME NEW sent \in SUBSET (Requested \ Missing), Stops("raised", Answering(sent)), faults' = faults
        PROVE  IInv'
    <3>1. /\ Answering(sent) \in [Children -> Seq(Messages \cup Replies)]
          /\ \A c \in Children :
               Answering(sent)[c] = toChild[c] \/ \E i \in Batched(c) : Answering(sent)[c] = <<Answer(i)>>
      BY <2>0, AnswerTypes
    <3> QED
      BY <1>0, <1>a, <2>0, <2>2, <3>1, Stopping
  <2> QED
    BY <1>5, <2>1, <2>2 DEF InferRaises
<1>6. CASE NoProgress
  BY <1>0, <1>6, <1>a, RaisesKeeps DEF NoProgress
<1>7. CASE Done
  <2> DEFINE reason == IF \E c \in Children : results[c] = "window_closed"
                       THEN "window_closed" ELSE "drained"
  <2>1. \A c \in Children : results[c] # None
    BY <1>7 DEF Done, IInv, Returned
  <2>2. reason \in {"raised", "drained", "window_closed"} /\ Stops(reason, toChild)
    BY <1>7 DEF Done
  <2>3. open /\ UNCHANGED <<childVars, toParent, closed, active, results, faults>>
    BY <1>0, <1>7 DEF Done
  <2> HIDE DEF reason
  <2> QED
    BY <1>0, <1>a, <2>1, <2>2, <2>3, Stopping
<1>8. ASSUME NEW c \in Children, Terminate(c) PROVE IInv'
  BY <1>0, <1>8, Killing DEF Terminate
<1>9. CASE Joined
  BY <1>0, <1>9, QuietKeeps DEF Joined
<1> QED
  BY <1>1, <1>2, <1>3, <1>4, <1>5, <1>6, <1>7, <1>8, <1>9 DEF Parent

---------------------------------------------------------------------------
(* Theorems                                                                *)

LEMMA InitKeeps == Init => IInv
<1> SUFFICES ASSUME Init PROVE IInv
  OBVIOUS
<1>1. <<>> \in Seq(Messages) /\ <<>> \in Seq(Messages \cup Replies) /\ <<>> \in Seq(Requests)
  OBVIOUS
<1>2. TypeOK
  <2>1. /\ toParent \in [Children -> Seq(Messages)]
        /\ toChild \in [Children -> Seq(Messages \cup Replies)]
    BY <1>1 DEF Init
  <2>2. asked \in [Children -> 0..MaxRequests] /\ faults \in 0..MaxFaults
    BY BrokerAssumption DEF Init
  <2>3. batch \in Seq(Requests)
    BY <1>1 DEF Init
  <2>4. results \in [Children -> {None, "drained", "window_closed"}]
    BY DEF Init
  <2> QED
    BY <2>1, <2>2, <2>3, <2>4 DEF Init, TypeOK, Gone
<1>3. Stopped
  BY DEF Init, Stopped
<1>4. ASSUME NEW c \in Children PROVE Transit(c)
  <2>1. toParent[c] = <<>> /\ toChild[c] = <<>> /\ batch = <<>> /\ child[c] = "queue"
    BY DEF Init
  <2>2. Places(toParent[c], "infer") = {} /\ Places(toChild[c], "actions") = {} /\ Batched(c) = {}
    BY <2>1 DEF Places, Batched
  <2> QED
    BY <2>1, <2>2 DEF Transit
<1>5. ASSUME NEW c \in Children PROVE Returned(c)
  BY DEF Init, Returned
<1> QED
  BY <1>2, <1>3, <1>4, <1>5 DEF IInv

\* The invariant of the broker is inductive, for any number of children, requests and
\* faults: a request is on its way, in the batch or answered, once, and whoever has sent a
\* result has ended (infer_outputs, run_shared_model_broker).
THEOREM Invariance == Spec => []IInv
<1>1. Init => IInv
  BY InitKeeps
<1>2. IInv /\ [Next]_vars => IInv'
  <2> SUFFICES ASSUME IInv, [Next]_vars PROVE IInv'
    OBVIOUS
  <2>0. parent \in {"load", "wait", "coalesce", "infer", "join", "ended"} /\ closed \in BOOLEAN
    BY DEF IInv, TypeOK
  <2>1. CASE Parent
    BY <2>1, ParentKeeps
  <2>2. ASSUME NEW c \in Children, Child(c) \/ Claim(c) \/ ChildFails(c) \/ Killed(c) PROVE IInv'
    BY <2>2, ChildKeeps
  <2>3. CASE WindowCloses
    BY <2>0, <2>3, QuietKeeps DEF WindowCloses, parentVars
  <2>4. CASE Ended \/ UNCHANGED vars
    BY <2>0, <2>4, QuietKeeps DEF Ended, vars, parentVars
  <2> QED
    BY <2>1, <2>2, <2>3, <2>4 DEF Next
<1> QED
  BY <1>1, <1>2, PTL DEF Spec

\* No child ever receives the actions computed from another child's observation, or from an
\* earlier one of its own.
THEOREM AnswersAreOwn == Spec => []OwnAnswer
<1>1. IInv => OwnAnswer
  <2> SUFFICES ASSUME IInv, NEW c \in Children, NEW i \in Places(toChild[c], "actions")
               PROVE  /\ Places(toChild[c], "actions") = {i}
                      /\ toChild[c][i].id = asked[c] /\ toChild[c][i].of = <<c, asked[c]>>
    BY DEF OwnAnswer, IInv
  <2>1. Places(toChild[c], "actions") \subseteq {1}
    BY DEF IInv, Transit
  <2>2. toChild[c][i].id = asked[c] /\ toChild[c][i].of = <<c, asked[c]>>
    BY DEF IInv, Transit
  <2> QED
    BY <2>1, <2>2
<1> QED
  BY <1>1, Invariance, PTL

\* A collector process that returns has had the result of every child, and none of them
\* left a lease behind.
THEOREM ReturnsAreComplete == Spec => []ReturnsAllDone
<1>1. IInv => ReturnsAllDone
  <2> SUFFICES ASSUME IInv, parent = "ended", outcome # "raised", NEW c \in Children
               PROVE  results[c] # None /\ child[c] = "ended" /\ ~lease[c]
    BY DEF ReturnsAllDone
  <2>1. outcome # None
    BY DEF IInv, Stopped
  <2> QED
    BY <2>1 DEF IInv, Returned
<1> QED
  BY <1>1, Invariance, PTL
=============================================================================
