------------------------- MODULE RolloutLoopProofs -------------------------
(***************************************************************************)
(* What RolloutLoop promises for any number of stages, window, horizon,    *)
(* trainer steps and evaluations.                                          *)
(***************************************************************************)
EXTENDS RolloutLoop, SequenceTheorems, FiniteSetTheorems, TLAPS

---------------------------------------------------------------------------
(* The last of a set of places                                             *)

LEMMA LastExists ==
  ASSUME NEW n \in Nat, NEW S \in SUBSET (1..n), S # {}
  PROVE  \E x \in S : \A y \in S : y <= x
<1> DEFINE Places == 1..n
           From(x) == {y \in Places : x <= y}
           F == {From(x) : x \in S}
<1>1. F \subseteq FiniteSubsetsOf(Places) /\ F # {}
  <2>1. F \subseteq SUBSET Places /\ F # {}
    OBVIOUS
  <2>2. IsFiniteSet(Places)
    BY FS_Interval
  <2>3. FiniteSubsetsOf(Places) = SUBSET Places
    BY <2>2, FS_FiniteSubsetsOfFinite
  <2> QED
    BY <2>1, <2>3
<1>2. IsWellFoundedOn(StrictSubsetOrdering(Places), FiniteSubsetsOf(Places))
  BY FS_StrictSubsetOrderingWellFounded
<1>3. PICK U \in F : \A V \in F : ~ (<<V, U>> \in StrictSubsetOrdering(Places))
  <2> HIDE DEF F
  <2> QED
    BY <1>1, <1>2, WFMin
<1>4. PICK x \in S : U = From(x)
  BY <1>3
<1>5. ASSUME NEW y \in S PROVE y <= x
  <2>1. x \in Places /\ y \in Places /\ x \in Nat /\ y \in Nat /\ Places \subseteq Nat
    OBVIOUS
  <2>2. SUFFICES ASSUME x < y PROVE FALSE
    BY <2>1
  <2>3. From(y) \subseteq From(x) /\ x \in From(x) /\ x \notin From(y)
    <3>1. ASSUME NEW d \in From(y) PROVE d \in From(x)
      <4>1. d \in Nat /\ d \in Places /\ y <= d
        BY <2>1
      <4> QED
        BY <2>1, <2>2, <4>1
    <3>2. x \in From(x)
      BY <2>1
    <3>3. ~ (y <= x)
      BY <2>1, <2>2
    <3> QED
      BY <3>1, <3>2, <3>3
  <2>4. <<From(y), From(x)>> \in StrictSubsetOrdering(Places)
    <3>1. From(y) \in SUBSET Places /\ From(x) \in SUBSET Places /\ From(y) # From(x)
      BY <2>3
    <3> HIDE DEF From
    <3> QED
      BY <2>3, <3>1 DEF StrictSubsetOrdering
  <2> QED
    BY <1>3, <1>4, <2>4
<1> QED
  BY <1>5

LEMMA LastOfEnds ==
  ASSUME NEW slots, Len(slots) \in Nat, NEW S \in SUBSET Ends(slots), S # {}
  PROVE  Last(S) \in S /\ Last(S) \in 1..Len(slots) /\ \A y \in S : y <= Last(S)
<1>1. S \in SUBSET (1..Len(slots))
  BY DEF Ends
<1>2. \E x \in S : \A y \in S : y <= x
  BY <1>1, LastExists
<1>3. Last(S) \in S /\ \A y \in S : y <= Last(S)
  BY <1>2 DEF Last
<1> QED
  BY <1>1, <1>3

\* Where the segment that ends at i starts.
LEMMA StartFacts ==
  ASSUME NEW slots, Len(slots) \in Nat, NEW i \in 1..Len(slots)
  PROVE  /\ Start(slots, i) \in 0..(i - 1)
         /\ Quiet(slots, Start(slots, i) + 1, i)
         /\ Start(slots, i) # 0 => slots[Start(slots, i)].done /\ Start(slots, i) \in 1..Len(slots)
<1> DEFINE b == {j \in Ends(slots) : j < i}
<1>0. b \in SUBSET Ends(slots)
  OBVIOUS
<1>1. Start(slots, i) = IF b = {} THEN 0 ELSE Last(b)
  BY DEF Start
<1>2. CASE b = {}
  <2>1. \A k \in 1..(i - 1) : ~slots[k].done
    BY <1>2 DEF Ends
  <2> QED
    BY <1>1, <1>2, <2>1 DEF Quiet
<1>3. CASE b # {}
  <2>1. Last(b) \in b /\ Last(b) \in 1..Len(slots) /\ \A y \in b : y <= Last(b)
    BY <1>0, <1>3, LastOfEnds
  <2>2. \A k \in (Last(b) + 1)..(i - 1) : ~slots[k].done
    BY <2>1 DEF Ends
  <2> QED
    BY <1>1, <1>3, <2>1, <2>2 DEF Quiet, Ends
<1> QED
  BY <1>2, <1>3

---------------------------------------------------------------------------
(* Steps in sequence                                                       *)

LEMMA QuietParts ==
  ASSUME NEW seq, NEW i \in Nat, NEW j \in Nat, NEW k \in i..j, Quiet(seq, i, j)
  PROVE  Quiet(seq, i, k) /\ Quiet(seq, k, j)
BY DEF Quiet

LEMMA SlotOf ==
  ASSUME NEW seq \in Seq(Slot)
  PROVE  Len(seq) \in Nat /\ \A i \in 1..Len(seq) : seq[i] \in Slot /\ seq[i].n \in Nat
<1>1. Len(seq) \in Nat
  BY LenProperties
<1>2. ASSUME NEW i \in 1..Len(seq) PROVE seq[i] \in Slot
  BY ElementOfSeq
<1> QED
  BY <1>1, <1>2 DEF Slot

\* What comes after the last step of a sequence.
LEMMA AfterLast ==
  ASSUME NEW seq \in Seq(Slot), InSequence(seq), NEW x, x.n \in Nat, Linked(seq, x),
         NEW i \in 1..Len(seq), Quiet(seq, i, Len(seq) + 1)
  PROVE  x.ep = seq[i].ep /\ x.n = seq[i].n + (Len(seq) + 1 - i)
<1>1. Len(seq) \in 1..Len(seq) /\ seq # <<>> /\ Len(seq) \in Nat
  BY SlotOf
<1>2. ~seq[Len(seq)].done /\ Quiet(seq, i, Len(seq))
  BY <1>1 DEF Quiet
<1>3. seq[Len(seq)].ep = seq[i].ep /\ seq[Len(seq)].n = seq[i].n + (Len(seq) - i)
  BY <1>1, <1>2 DEF InSequence
<1>4. x.ep = seq[Len(seq)].ep /\ x.n = seq[Len(seq)].n + 1
  BY <1>1, <1>2 DEF Linked
<1> QED
  BY <1>1, <1>3, <1>4, SlotOf

\* One sequence behind the other.
LEMMA InSequenceConcat ==
  ASSUME NEW p \in Seq(Slot), NEW q \in Seq(Slot), InSequence(p), InSequence(q),
         q # <<>> => Linked(p, q[1])
  PROVE  InSequence(p \o q)
<1> DEFINE s == p \o q
<1>1. /\ s \in Seq(Slot) /\ Len(s) = Len(p) + Len(q) /\ Len(p) \in Nat /\ Len(q) \in Nat
      /\ \A i \in 1..Len(s) : s[i] = IF i <= Len(p) THEN p[i] ELSE q[i - Len(p)]
  BY ConcatProperties, SlotOf
<1> HIDE DEF s
<1>2. ASSUME NEW i \in 1..Len(s), NEW j \in 1..Len(s), i <= j, Quiet(s, i, j)
      PROVE  s[j].ep = s[i].ep /\ s[j].n = s[i].n + (j - i)
  <2>1. CASE j <= Len(p)
    <3>1. Quiet(p, i, j)
      BY <1>1, <1>2, <2>1 DEF Quiet
    <3>2. i \in 1..Len(p) /\ j \in 1..Len(p) /\ s[i] = p[i] /\ s[j] = p[j]
      BY <1>1, <1>2, <2>1
    <3> QED
      BY <1>2, <3>1, <3>2 DEF InSequence
  <2>2. CASE i > Len(p)
    <3> DEFINE a == i - Len(p)
               b == j - Len(p)
    <3>1. a \in 1..Len(q) /\ b \in 1..Len(q) /\ a <= b /\ b - a = j - i /\ s[i] = q[a] /\ s[j] = q[b]
      BY <1>1, <1>2, <2>2
    <3>2. Quiet(q, a, b)
      <4>1. ASSUME NEW k \in a..(b - 1) PROVE ~q[k].done
        <5>1. k + Len(p) \in i..(j - 1) /\ k + Len(p) \in 1..Len(s) /\ s[k + Len(p)] = q[k]
          BY <1>1, <1>2, <2>2
        <5> QED
          BY <1>2, <5>1 DEF Quiet
      <4> QED
        BY <4>1 DEF Quiet
    <3> HIDE DEF a, b
    <3>3. q[b].ep = q[a].ep /\ q[b].n = q[a].n + (b - a)
      BY <3>1, <3>2 DEF InSequence
    <3> QED
      BY <3>1, <3>3
  <2>3. CASE i <= Len(p) /\ j > Len(p)
    <3> DEFINE b == j - Len(p)
    <3>1. /\ i \in 1..Len(p) /\ b \in 1..Len(q) /\ 1 \in 1..Len(q) /\ s[i] = p[i] /\ s[j] = q[b]
          /\ b - 1 = (j - i) - (Len(p) + 1 - i)
      BY <1>1, <1>2, <2>3
    <3>2. Quiet(p, i, Len(p) + 1)
      BY <1>1, <1>2, <2>3 DEF Quiet
    <3>3. Quiet(q, 1, b)
      <4>1. ASSUME NEW k \in 1..(b - 1) PROVE ~q[k].done
        <5>0. k \in Nat /\ 1 <= k /\ k <= j - Len(p) - 1
          BY <1>1, <1>2, <2>3
        <5>1. k + Len(p) \in i..(j - 1) /\ k + Len(p) \in 1..Len(s)
          BY <1>1, <1>2, <2>3, <5>0
        <5>2. (k + Len(p)) - Len(p) = k /\ ~(k + Len(p) <= Len(p))
          BY <1>1, <5>0
        <5>3. s[k + Len(p)] = q[(k + Len(p)) - Len(p)]
          BY <1>1, <5>1, <5>2
        <5> QED
          BY <1>2, <5>1, <5>2, <5>3 DEF Quiet
      <4> QED
        BY <4>1 DEF Quiet
    <3>a. q # <<>> /\ b = j - Len(p)
      BY <3>1
    <3> HIDE DEF b
    <3>4. q[1].ep = p[i].ep /\ q[1].n = p[i].n + (Len(p) + 1 - i)
      BY <3>1, <3>2, <3>a, AfterLast, SlotOf
    <3>5. 1 <= b /\ q[b].ep = q[1].ep /\ q[b].n = q[1].n + (b - 1)
      BY <3>1, <3>3 DEF InSequence
    <3>6. p[i].n \in Nat /\ Len(p) \in Nat /\ b \in Nat /\ i \in Nat /\ j \in Nat
      BY <1>1, <3>1, SlotOf
    <3>7. q[b].n = (p[i].n + (Len(p) + 1 - i)) + (b - 1)
      BY <3>4, <3>5
    <3>8. q[b].n = p[i].n + (j - i)
      <4>1. \A a, k, l \in Nat : (a + (k + 1 - i)) + (l - k - 1) = a + (l - i)
        BY <3>6
      <4>2. b - 1 = j - Len(p) - 1
        BY <3>6, <3>a
      <4>3. (p[i].n + (Len(p) + 1 - i)) + (j - Len(p) - 1) = p[i].n + (j - i)
        BY <3>6, <4>1
      <4> QED
        BY <3>7, <4>2, <4>3
    <3> QED
      BY <3>1, <3>4, <3>5, <3>8
  <2> QED
    BY <1>1, <2>1, <2>2, <2>3
<1>3. ASSUME NEW i \in 1..Len(s), s[i].done, i < Len(s) PROVE s[i + 1].n = 0
  <2>1. CASE i < Len(p)
    <3>1. i \in 1..Len(p) /\ s[i] = p[i] /\ s[i + 1] = p[i + 1]
      BY <1>1, <1>3, <2>1
    <3> QED
      BY <1>3, <2>1, <3>1 DEF InSequence
  <2>2. CASE i = Len(p)
    <3>1. s[i] = p[i] /\ s[i + 1] = q[1] /\ q # <<>> /\ p # <<>>
      BY <1>1, <1>3, <2>2
    <3> QED
      BY <1>3, <2>2, <3>1 DEF Linked
  <2>3. CASE i > Len(p)
    <3>1. i - Len(p) \in 1..Len(q) /\ i - Len(p) < Len(q)
          /\ s[i] = q[i - Len(p)] /\ s[i + 1] = q[(i - Len(p)) + 1]
      BY <1>1, <1>3, <2>3
    <3> QED
      BY <1>3, <3>1 DEF InSequence
  <2> QED
    BY <1>1, <2>1, <2>2, <2>3
<1>4. InSequence(s)
  BY <1>2, <1>3 DEF InSequence
<1> QED
  BY <1>4 DEF s

\* What a simulator does next continues its record.
LEMMA InSequenceAppend ==
  ASSUME NEW seq \in Seq(Slot), NEW e \in Slot, InSequence(seq), Linked(seq, e)
  PROVE  InSequence(Append(seq, e))
<1>1. Append(seq, e) = seq \o <<e>>
  BY AppendIsConcat
<1>2. <<e>> \in Seq(Slot) /\ Len(<<e>>) = 1 /\ <<e>>[1] = e
  OBVIOUS
<1>3. InSequence(<<e>>)
  <2>1. ASSUME NEW i \in 1..1, NEW j \in 1..1
        PROVE  <<e>>[j].ep = <<e>>[i].ep /\ <<e>>[j].n = <<e>>[i].n + (j - i)
    <3>1. i = 1 /\ j = 1 /\ e.n \in Nat
      BY DEF Slot
    <3> QED
      BY <1>2, <3>1
  <2> QED
    BY <1>2, <2>1 DEF InSequence
<1> QED
  BY <1>1, <1>2, <1>3, InSequenceConcat

LEMMA Appended ==
  ASSUME NEW seq \in Seq(Slot), NEW e \in Slot
  PROVE  /\ Append(seq, e) \in Seq(Slot) /\ Append(seq, e) # <<>>
         /\ Len(Append(seq, e)) = Len(seq) + 1 /\ Len(seq) \in Nat
         /\ \A i \in 1..Len(seq) : Append(seq, e)[i] = seq[i]
         /\ Append(seq, e)[Len(seq) + 1] = e
         /\ \A x : Opens(Append(seq, e), x) = Opens(seq, e)
<1>1. /\ Append(seq, e) \in Seq(Slot) /\ Append(seq, e) # <<>>
      /\ Len(Append(seq, e)) = Len(seq) + 1 /\ Len(seq) \in Nat
      /\ \A i \in 1..Len(seq) : Append(seq, e)[i] = seq[i]
      /\ Append(seq, e)[Len(seq) + 1] = e
  BY AppendProperties, SlotOf
<1>2. Append(seq, e)[1] = Opens(seq, e)
  <2>1. CASE seq = <<>>
    <3>1. Len(seq) = 0
      BY <2>1
    <3> QED
      BY <1>1, <2>1, <3>1 DEF Opens
  <2>2. CASE seq # <<>>
    <3>1. 1 \in 1..Len(seq)
      BY <2>2, EmptySeq
    <3> QED
      BY <1>1, <2>2, <3>1 DEF Opens
  <2> QED
    BY <2>1, <2>2
<1> QED
  BY <1>1, <1>2 DEF Opens

LEMMA EndsAppended ==
  ASSUME NEW seq \in Seq(Slot), NEW e \in Slot
  PROVE  /\ Bounded(seq) /\ e.n < Horizon /\ (e.done \/ e.n + 1 < Horizon) => Bounded(Append(seq, e))
         /\ \A x : (IF e.done THEN x.n = 0 ELSE x.ep = e.ep /\ x.n = e.n + 1)
                   => Linked(Append(seq, e), x)
<1>1. /\ Len(Append(seq, e)) = Len(seq) + 1 /\ Len(seq) \in Nat
      /\ \A i \in 1..Len(seq) : Append(seq, e)[i] = seq[i]
      /\ Append(seq, e)[Len(seq) + 1] = e
  BY Appended
<1>2. ASSUME Bounded(seq), e.n < Horizon, e.done \/ e.n + 1 < Horizon PROVE Bounded(Append(seq, e))
  <2>1. ASSUME NEW i \in 1..(Len(seq) + 1)
        PROVE  Append(seq, e)[i].n < Horizon /\ (~Append(seq, e)[i].done => Append(seq, e)[i].n + 1 < Horizon)
    <3>1. i \in 1..Len(seq) \/ i = Len(seq) + 1
      BY <1>1
    <3> QED
      BY <1>1, <1>2, <3>1 DEF Bounded
  <2> QED
    BY <1>1, <2>1 DEF Bounded
<1>3. ASSUME NEW x, IF e.done THEN x.n = 0 ELSE x.ep = e.ep /\ x.n = e.n + 1
      PROVE  Linked(Append(seq, e), x)
  BY <1>1, <1>3 DEF Linked
<1> QED
  BY <1>2, <1>3

\* A batch behind what the trainer holds.
LEMMA Joined ==
  ASSUME NEW p \in Seq(Slot), NEW q \in Seq(Slot), NEW x
  PROVE  /\ p \o q \in Seq(Slot)
         /\ Bounded(p) /\ Bounded(q) => Bounded(p \o q)
         /\ Opens(p \o q, x) = Opens(p, Opens(q, x))
         /\ Linked(p, Opens(q, x)) /\ Linked(q, x) => Linked(p \o q, x)
         /\ Linked(p, Opens(q, x)) /\ InSequence(p) /\ InSequence(q) => InSequence(p \o q)
<1> DEFINE s == p \o q
<1>1. /\ s \in Seq(Slot) /\ Len(s) = Len(p) + Len(q) /\ Len(p) \in Nat /\ Len(q) \in Nat
      /\ \A i \in 1..Len(s) : s[i] = IF i <= Len(p) THEN p[i] ELSE q[i - Len(p)]
  BY ConcatProperties, SlotOf
<1>2. (p = <<>> => s = q) /\ (q = <<>> => s = p) /\ (p # <<>> => Len(p) > 0) /\ (q # <<>> => Len(q) > 0)
  BY ConcatEmptySeq, EmptySeq, <1>1
<1>3. s # <<>> <=> p # <<>> \/ q # <<>>
  BY ConcatEqualIffEmpty
<1>a. Linked(p, Opens(q, x)) /\ InSequence(p) /\ InSequence(q) => InSequence(s)
  <2>1. q # <<>> => Opens(q, x) = q[1]
    BY DEF Opens
  <2> QED
    BY <2>1, InSequenceConcat
<1> HIDE DEF s
<1>4. ASSUME Bounded(p), Bounded(q) PROVE Bounded(s)
  <2>1. ASSUME NEW i \in 1..Len(s) PROVE s[i].n < Horizon /\ (~s[i].done => s[i].n + 1 < Horizon)
    <3>1. CASE i <= Len(p)
      BY <1>1, <1>4, <3>1 DEF Bounded
    <3>2. CASE i > Len(p)
      <4>1. i - Len(p) \in 1..Len(q) /\ s[i] = q[i - Len(p)]
        BY <1>1, <3>2
      <4> QED
        BY <1>4, <4>1 DEF Bounded
    <3> QED
      BY <1>1, <3>1, <3>2
  <2> QED
    BY <2>1 DEF Bounded
<1>5. Opens(s, x) = Opens(p, Opens(q, x))
  <2>1. CASE p = <<>>
    BY <1>2, <2>1 DEF Opens
  <2>2. CASE p # <<>>
    <3>1. s[1] = p[1]
      BY <1>1, <1>2, <2>2
    <3> QED
      BY <1>3, <2>2, <3>1 DEF Opens
  <2> QED
    BY <2>1, <2>2
<1>6. ASSUME Linked(p, Opens(q, x)), Linked(q, x) PROVE Linked(s, x)
  <2>1. CASE q = <<>>
    BY <1>2, <1>6, <2>1 DEF Opens
  <2>2. CASE q # <<>>
    <3>1. s[Len(s)] = q[Len(s) - Len(p)] /\ Len(s) - Len(p) = Len(q)
      BY <1>1, <1>2, <2>2
    <3> QED
      BY <1>6, <2>2, <3>1 DEF Linked
  <2> QED
    BY <2>1, <2>2
<1> QED
  BY <1>1, <1>4, <1>5, <1>6, <1>a DEF s

LEMMA Suffix ==
  ASSUME NEW seq \in Seq(Slot), NEW L \in 0..Len(seq)
  PROVE  /\ SubSeq(seq, L + 1, Len(seq)) \in Seq(Slot)
         /\ Len(SubSeq(seq, L + 1, Len(seq))) = Len(seq) - L
         /\ \A i \in 1..(Len(seq) - L) : /\ L + i \in 1..Len(seq)
                                         /\ SubSeq(seq, L + 1, Len(seq))[i] = seq[L + i]
<1> DEFINE r == SubSeq(seq, L + 1, Len(seq))
<1>0. Len(seq) \in Nat /\ \A i \in 1..Len(seq) : seq[i] \in Slot
  BY SlotOf
<1>1. L \in Nat /\ L <= Len(seq)
  BY <1>0
<1>2. L + 1 \in Int /\ Len(seq) \in Int /\ \A i \in (L + 1)..Len(seq) : seq[i] \in Slot
  BY <1>0, <1>1
<1>3. /\ r \in Seq(Slot)
      /\ Len(r) = IF L + 1 <= Len(seq) THEN Len(seq) - (L + 1) + 1 ELSE 0
      /\ \A i \in 1..(Len(seq) - (L + 1) + 1) : r[i] = seq[(L + 1) + i - 1]
  BY <1>2, SubSeqProperties
<1> HIDE DEF r
<1>4. Len(r) = Len(seq) - L
  BY <1>0, <1>1, <1>3
<1>5. ASSUME NEW i \in 1..(Len(seq) - L)
      PROVE  L + i \in 1..Len(seq) /\ r[i] = seq[L + i]
  <2>1. i \in 1..(Len(seq) - (L + 1) + 1) /\ (L + 1) + i - 1 = L + i
    BY <1>0, <1>1
  <2>2. r[i] = seq[L + i]
    BY <1>3, <2>1
  <2> QED
    BY <1>0, <1>1, <2>2
<1> QED
  BY <1>3, <1>4, <1>5 DEF r

\* What follows the last done.
Remainder(seq) == IF Ends(seq) = {} THEN seq ELSE SubSeq(seq, Last(Ends(seq)) + 1, Len(seq))

LEMMA AfterDone ==
  ASSUME NEW seq \in Seq(Slot)
  PROVE  /\ Remainder(seq) \in Seq(Slot) /\ Ends(Remainder(seq)) = {}
         /\ \E m \in 0..Len(seq) :
              /\ Len(Remainder(seq)) = Len(seq) - m
              /\ \A i \in 1..(Len(seq) - m) : m + i \in 1..Len(seq) /\ Remainder(seq)[i] = seq[m + i]
              /\ m = 0 => Remainder(seq) = seq
              /\ m # 0 => m \in 1..Len(seq) /\ seq[m].done
              /\ m = IF Ends(seq) = {} THEN 0 ELSE Last(Ends(seq))
<1>0. Len(seq) \in Nat /\ \A i \in 1..Len(seq) : seq[i] \in Slot
  BY SlotOf
<1>1. CASE Ends(seq) = {}
  <2>1. Remainder(seq) = seq
    BY <1>1 DEF Remainder
  <2>2. 0 \in 0..Len(seq) /\ Len(seq) - 0 = Len(seq) /\ \A i \in 1..Len(seq) : 0 + i = i
    BY <1>0
  <2> QED
    BY <1>1, <2>1, <2>2
<1>2. CASE Ends(seq) # {}
  <2>l. PICK L : L = Last(Ends(seq))
    OBVIOUS
  <2>1. L \in Ends(seq) /\ L \in 1..Len(seq) /\ \A y \in Ends(seq) : y <= L
    BY <1>0, <1>2, <2>l, LastOfEnds
  <2>2. L \in Nat /\ 1 <= L /\ L <= Len(seq) /\ L \in 0..Len(seq)
    BY <1>0, <2>1
  <2>3. Remainder(seq) = SubSeq(seq, L + 1, Len(seq))
    BY <1>2, <2>l DEF Remainder
  <2>4. /\ Remainder(seq) \in Seq(Slot) /\ Len(Remainder(seq)) = Len(seq) - L
        /\ \A i \in 1..(Len(seq) - L) : L + i \in 1..Len(seq) /\ Remainder(seq)[i] = seq[L + i]
    BY <2>2, <2>3, Suffix
  <2>5. Ends(Remainder(seq)) = {}
    <3>1. ASSUME NEW i \in Ends(Remainder(seq)) PROVE FALSE
      <4>1. i \in 1..(Len(seq) - L) /\ Remainder(seq)[i].done
        BY <2>4, <3>1 DEF Ends
      <4>2. L + i \in Ends(seq)
        BY <2>4, <4>1 DEF Ends
      <4>3. L + i <= L
        BY <2>1, <4>2
      <4>4. i \in Nat /\ 1 <= i
        BY <1>0, <2>2, <4>1
      <4> QED
        BY <2>2, <4>3, <4>4
    <3> QED
      BY <3>1
  <2>6. seq[L].done /\ L # 0
    BY <2>1, <2>2 DEF Ends
  <2> QED
    BY <1>2, <2>l, <2>1, <2>2, <2>4, <2>5, <2>6
<1> QED
  BY <1>1, <1>2

LEMMA RemainderStream ==
  ASSUME NEW seq \in Seq(Slot), NEW x
  PROVE  /\ Bounded(seq) => Bounded(Remainder(seq))
         /\ InSequence(seq) => InSequence(Remainder(seq))
         /\ Linked(seq, x) => Linked(Remainder(seq), x)
         /\ InSequence(seq) /\ Linked(seq, x) /\ Opens(seq, x).n = 0 => Opens(Remainder(seq), x).n = 0
<1> DEFINE r == Remainder(seq)
<1>0. Len(seq) \in Nat /\ \A i \in 1..Len(seq) : seq[i] \in Slot /\ seq[i].n \in Nat
  BY SlotOf
<1>1. PICK m \in 0..Len(seq) :
        /\ Len(r) = Len(seq) - m
        /\ \A i \in 1..(Len(seq) - m) : m + i \in 1..Len(seq) /\ r[i] = seq[m + i]
        /\ m = 0 => r = seq
        /\ m # 0 => m \in 1..Len(seq) /\ seq[m].done
  BY AfterDone
<1>2. r \in Seq(Slot)
  BY AfterDone
<1> HIDE DEF r
<1>3. m \in Nat /\ m <= Len(seq) /\ Len(seq) \in Nat
  BY <1>0
<1>4. r = <<>> <=> m = Len(seq)
  BY <1>0, <1>1, <1>2, <1>3, EmptySeq
<1>5. ASSUME Bounded(seq) PROVE Bounded(r)
  BY <1>1, <1>5 DEF Bounded
<1>6. ASSUME InSequence(seq) PROVE InSequence(r)
  <2>1. ASSUME NEW i \in 1..Len(r), NEW j \in 1..Len(r), i <= j, Quiet(r, i, j)
        PROVE  r[j].ep = r[i].ep /\ r[j].n = r[i].n + (j - i)
    <3>1. /\ m + i \in 1..Len(seq) /\ m + j \in 1..Len(seq) /\ m + i <= m + j
          /\ r[i] = seq[m + i] /\ r[j] = seq[m + j] /\ i \in Nat /\ j \in Nat
      BY <1>0, <1>1, <1>3, <2>1
    <3>2. Quiet(seq, m + i, m + j)
      <4>1. ASSUME NEW k \in (m + i)..((m + j) - 1) PROVE ~seq[k].done
        <5>1. k - m \in i..(j - 1) /\ k - m \in 1..(Len(seq) - m) /\ m + (k - m) = k
          BY <1>1, <1>3, <2>1, <3>1
        <5>2. r[k - m] = seq[m + (k - m)] /\ ~r[k - m].done
          BY <1>1, <2>1, <5>1 DEF Quiet
        <5> QED
          BY <5>1, <5>2
      <4> QED
        BY <4>1 DEF Quiet
    <3>3. seq[m + j].ep = seq[m + i].ep /\ seq[m + j].n = seq[m + i].n + ((m + j) - (m + i))
      BY <1>6, <3>1, <3>2 DEF InSequence
    <3>4. (m + j) - (m + i) = j - i
      BY <1>3, <3>1
    <3> QED
      BY <3>1, <3>3, <3>4
  <2>2. ASSUME NEW i \in 1..Len(r), r[i].done, i < Len(r) PROVE r[i + 1].n = 0
    <3>0. i \in Nat /\ i \in 1..(Len(seq) - m) /\ i + 1 \in 1..(Len(seq) - m)
      BY <1>1, <1>3, <2>2
    <3>1. /\ m + i \in 1..Len(seq) /\ m + i < Len(seq)
          /\ r[i] = seq[m + i] /\ r[i + 1] = seq[m + (i + 1)] /\ m + (i + 1) = (m + i) + 1
      BY <1>1, <1>3, <3>0
    <3> QED
      BY <1>6, <2>2, <3>1 DEF InSequence
  <2> QED
    BY <2>1, <2>2 DEF InSequence
<1>7. ASSUME Linked(seq, x) PROVE Linked(r, x)
  <2> SUFFICES ASSUME r # <<>> PROVE Linked(r, x)
    BY DEF Linked
  <2>1. Len(seq) - m \in 1..(Len(seq) - m) /\ m + (Len(seq) - m) = Len(seq) /\ Len(seq) # 0
    BY <1>3, <1>4
  <2>2. r[Len(r)] = seq[Len(seq)] /\ seq # <<>>
    <3>1. r[Len(seq) - m] = seq[m + (Len(seq) - m)]
      BY <1>1, <2>1
    <3>2. seq # <<>>
      BY <2>1
    <3> QED
      BY <1>1, <2>1, <3>1, <3>2
  <2> QED
    BY <1>7, <2>2 DEF Linked
<1>8. ASSUME InSequence(seq), Linked(seq, x), Opens(seq, x).n = 0 PROVE Opens(r, x).n = 0
  <2>1. CASE m = 0
    BY <1>1, <1>8, <2>1
  <2>2. CASE m # 0 /\ m = Len(seq)
    <3>1. seq[Len(seq)].done /\ seq # <<>> /\ r = <<>>
      BY <1>1, <1>4, <2>2
    <3> QED
      BY <1>8, <3>1 DEF Linked, Opens
  <2>3. CASE m # 0 /\ m < Len(seq)
    <3>1. seq[m].done /\ m \in 1..Len(seq) /\ r # <<>> /\ 1 \in 1..(Len(seq) - m)
      BY <1>1, <1>3, <1>4, <2>3
    <3>2. r[1] = seq[m + 1]
      BY <1>1, <3>1
    <3>3. seq[m + 1].n = 0
      BY <1>8, <2>3, <3>1 DEF InSequence
    <3> QED
      BY <3>1, <3>2, <3>3 DEF Opens
  <2> QED
    BY <1>3, <2>1, <2>2, <2>3
<1> QED
  BY <1>5, <1>6, <1>7, <1>8 DEF r

\* An unfinished episode is shorter than the horizon.
LEMMA UnfinishedIsShort ==
  ASSUME NEW seq \in Seq(Slot), Ends(seq) = {}, InSequence(seq), Bounded(seq),
         seq # <<>> => seq[1].n = 0
  PROVE  Len(seq) < Horizon
<1>0. Len(seq) \in Nat /\ \A i \in 1..Len(seq) : seq[i].n \in Nat
  BY SlotOf
<1>1. CASE seq = <<>>
  BY <1>1, RolloutAssumption
<1>2. CASE seq # <<>>
  <2>1. Len(seq) \in 1..Len(seq) /\ 1 \in 1..Len(seq) /\ 1 <= Len(seq)
    BY <1>0, <1>2, EmptySeq
  <2>2. \A k \in 1..Len(seq) : ~seq[k].done
    BY DEF Ends
  <2>3. Quiet(seq, 1, Len(seq))
    BY <1>0, <2>2 DEF Quiet
  <2>4. seq[Len(seq)].n = seq[1].n + (Len(seq) - 1)
    BY <2>1, <2>3 DEF InSequence
  <2>5. seq[Len(seq)].n + 1 < Horizon
    BY <2>1, <2>2 DEF Bounded
  <2> QED
    BY <1>0, <1>2, <2>1, <2>4, <2>5, RolloutAssumption
<1> QED
  BY <1>1, <1>2

\* How far into its episode a simulator is after the steps of a rollout that it
\* began c steps into one.
CarryOf(seq, c) == IF Ends(seq) = {} THEN c + Len(seq) ELSE Len(seq) - Last(Ends(seq))

LEMMA CarryIsStep ==
  ASSUME NEW seq \in Seq(Slot), NEW x, x.n \in Nat, InSequence(seq), Linked(seq, x), seq # <<>>
  PROVE  x.n = CarryOf(seq, seq[1].n)
<1>0. Len(seq) \in Nat \ {0} /\ \A i \in 1..Len(seq) : seq[i].n \in Nat
  BY SlotOf, EmptySeq
<1>1. CASE Ends(seq) = {}
  <2>1. \A k \in 1..Len(seq) : ~seq[k].done
    BY <1>1 DEF Ends
  <2>2. Quiet(seq, 1, Len(seq) + 1) /\ 1 \in 1..Len(seq)
    BY <1>0, <2>1 DEF Quiet
  <2>3. x.n = seq[1].n + (Len(seq) + 1 - 1)
    BY <2>2, AfterLast
  <2>4. Len(seq) + 1 - 1 = Len(seq)
    BY <1>0
  <2> QED
    BY <1>1, <2>3, <2>4 DEF CarryOf
<1>2. CASE Ends(seq) # {}
  <2>l. PICK L : L = Last(Ends(seq))
    OBVIOUS
  <2>1. L \in Ends(seq) /\ L \in 1..Len(seq) /\ \A y \in Ends(seq) : y <= L
    BY <1>0, <1>2, <2>l, LastOfEnds
  <2>2. L \in Nat /\ 1 <= L /\ L <= Len(seq) /\ seq[L].done
    BY <1>0, <2>1 DEF Ends
  <2>3. x.n = Len(seq) - L
    <3>1. CASE L = Len(seq)
      <4>1. x.n = 0
        BY <2>2, <3>1 DEF Linked
      <4> QED
        BY <1>0, <3>1, <4>1
    <3>2. CASE L < Len(seq)
      <4>1. L + 1 \in 1..Len(seq)
        BY <1>0, <2>2, <3>2
      <4>2. seq[L + 1].n = 0
        BY <2>1, <2>2, <3>2 DEF InSequence
      <4>3. Quiet(seq, L + 1, Len(seq) + 1)
        <5>1. ASSUME NEW k \in (L + 1)..((Len(seq) + 1) - 1), seq[k].done PROVE FALSE
          <6>1. k \in Ends(seq) /\ L < k
            BY <1>0, <2>2, <5>1 DEF Ends
          <6>2. k <= L
            BY <2>1, <6>1
          <6> QED
            BY <2>2, <5>1, <6>1, <6>2
        <5> QED
          BY <5>1 DEF Quiet
      <4>4. x.n = seq[L + 1].n + (Len(seq) + 1 - (L + 1))
        BY <4>1, <4>3, AfterLast
      <4> QED
        BY <1>0, <2>2, <4>2, <4>4
    <3> QED
      BY <1>0, <2>2, <3>1, <3>2
  <2> QED
    BY <1>2, <2>l, <2>3 DEF CarryOf
<1> QED
  BY <1>1, <1>2

\* The step an episode ends with is its length less one.
LEMMA LengthIsStep ==
  ASSUME NEW seq \in Seq(Slot), InSequence(seq), NEW i \in 1..Len(seq)
  PROVE  /\ Start(seq, i) \in Nat /\ Start(seq, i) < i
         /\ seq[i].n = IF Start(seq, i) = 0 THEN seq[1].n + (i - 1) ELSE i - Start(seq, i) - 1
<1>0. Len(seq) \in Nat /\ \A k \in 1..Len(seq) : seq[k].n \in Nat
  BY SlotOf
<1>s. PICK b : b = Start(seq, i)
  OBVIOUS
<1>1. b \in 0..(i - 1) /\ Quiet(seq, b + 1, i) /\ (b # 0 => seq[b].done /\ b \in 1..Len(seq))
  BY <1>0, <1>s, StartFacts
<1>2. b \in Nat /\ b < i /\ i \in Nat /\ i <= Len(seq) /\ b + 1 \in 1..Len(seq) /\ b + 1 <= i
  BY <1>0, <1>1
<1>3. seq[i].n = seq[b + 1].n + (i - (b + 1))
  BY <1>1, <1>2 DEF InSequence
<1>4. CASE b = 0
  BY <1>2, <1>3, <1>4, <1>s
<1>5. CASE b # 0
  <2>1. seq[b + 1].n = 0
    BY <1>1, <1>2, <1>5 DEF InSequence
  <2>2. seq[i].n = i - b - 1
    BY <1>2, <1>3, <2>1
  <2> QED
    BY <1>2, <1>5, <1>s, <2>2
<1> QED
  BY <1>4, <1>5

---------------------------------------------------------------------------
(* Simulators                                                              *)

Sim == [ep : 0..EpisodeIds, n : Nat, over : BOOLEAN]
InBounds(sim) == IF cfg.auto THEN ~sim.over /\ sim.n < Horizon
                 ELSE IF sim.over THEN sim.n <= Window ELSE sim.n < Window
AllInBounds(pools) == \A m \in Modes : \A s \in Stages : InBounds(pools[m][s])

LEMMA FreshSim ==
  ASSUME NEW sim \in Sim
  PROVE  Fresh(sim) \in Sim /\ Fresh(sim).ep > 0 /\ Fresh(sim).n = 0 /\ ~Fresh(sim).over /\ InBounds(Fresh(sim))
<1>1. EpisodeIds \in Nat /\ EpisodeIds > 0 /\ sim.ep \in Nat /\ Horizon > 0 /\ Window > 0
  BY RolloutAssumption DEF Sim
<1>2. (sim.ep % EpisodeIds) \in 0..(EpisodeIds - 1)
  BY <1>1
<1>3. (sim.ep % EpisodeIds) + 1 \in 0..EpisodeIds /\ (sim.ep % EpisodeIds) + 1 > 0
  BY <1>1, <1>2
<1> QED
  BY <1>1, <1>3 DEF Fresh, Sim, InBounds

LEMMA ShownType ==
  ASSUME NEW sim \in Sim, InBounds(sim)
  PROVE  Shown(sim) \in Obs
<1>1. sim.n \in Nat /\ Window \in Nat /\ Horizon \in Nat /\ sim.ep \in 0..EpisodeIds
  BY RolloutAssumption DEF Sim
<1>2. sim.n <= Window \/ sim.n <= Horizon
  BY <1>1 DEF InBounds
<1>3. sim.n \in 0..(IF Window > Horizon THEN Window ELSE Horizon)
  BY <1>1, <1>2
<1> QED
  BY <1>1, <1>3 DEF Shown, Obs

LEMMA PoolType ==
  /\ \A mode \in Modes : Pool(mode) \in Modes
  /\ Pool("train") = "train" /\ Pool("eval") = IF cfg.shared THEN "train" ELSE "eval"
BY DEF Pool, Modes

\* What BaseEnv.reset leaves in the simulators.
LEMMA ResetEffect ==
  ASSUME sims \in [Modes -> [Stages -> Sim]], NEW mode \in Modes, NEW first \in BOOLEAN
  PROVE  LET pools == Reset(mode, first) IN
         /\ pools \in [Modes -> [Stages -> Sim]]
         /\ \A m \in Modes : m # Pool(mode) => pools[m] = sims[m]
         /\ \A s \in Stages : pools[Pool(mode)][s] =
              IF cfg.auto /\ sims[Pool(mode)][s].ep > 0 /\ ~first
              THEN sims[Pool(mode)][s] ELSE Fresh(sims[Pool(mode)][s])
<1> DEFINE p == Pool(mode)
           new == [s \in Stages |-> IF cfg.auto /\ sims[p][s].ep > 0 /\ ~first
                                    THEN sims[p][s] ELSE Fresh(sims[p][s])]
<1>1. p \in Modes
  BY PoolType
<1>2. Reset(mode, first) = [sims EXCEPT ![p] = new]
  BY DEF Reset
<1>3. new \in [Stages -> Sim]
  BY <1>1, FreshSim
<1>4. \A s \in Stages : new[s] = IF cfg.auto /\ sims[p][s].ep > 0 /\ ~first
                                 THEN sims[p][s] ELSE Fresh(sims[p][s])
  OBVIOUS
<1> HIDE DEF new, p
<1>5. [sims EXCEPT ![p] = new] \in [Modes -> [Stages -> Sim]]
  BY <1>1, <1>3
<1>6. [sims EXCEPT ![p] = new][p] = new /\ \A m \in Modes : m # p => [sims EXCEPT ![p] = new][m] = sims[m]
  BY <1>1
<1> QED
  BY <1>2, <1>4, <1>5, <1>6 DEF p

LEMMA ResetSims ==
  ASSUME sims \in [Modes -> [Stages -> Sim]], AllInBounds(sims), NEW mode \in Modes, NEW first \in BOOLEAN,
         NEW pools, pools = Reset(mode, first)
  PROVE  /\ pools \in [Modes -> [Stages -> Sim]] /\ AllInBounds(pools)
         /\ \A m \in Modes : m # Pool(mode) => pools[m] = sims[m]
         /\ \A s \in Stages :
              /\ pools[Pool(mode)][s].ep > 0
              /\ cfg.auto /\ sims[Pool(mode)][s].ep > 0 /\ ~first => pools[Pool(mode)][s] = sims[Pool(mode)][s]
              /\ ~cfg.auto \/ first \/ sims[Pool(mode)][s].ep = 0 =>
                   pools[Pool(mode)][s].n = 0 /\ ~pools[Pool(mode)][s].over
         /\ Observed(pools, mode) \in [Stages -> Obs]
         /\ \A s \in Stages : Observed(pools, mode)[s] = Shown(pools[Pool(mode)][s])
<1> DEFINE p == Pool(mode)
<1>0. p \in Modes
  BY PoolType
<1>1. /\ pools \in [Modes -> [Stages -> Sim]]
      /\ \A m \in Modes : m # p => pools[m] = sims[m]
      /\ \A s \in Stages : pools[p][s] =
           IF cfg.auto /\ sims[p][s].ep > 0 /\ ~first THEN sims[p][s] ELSE Fresh(sims[p][s])
  BY ResetEffect
<1> HIDE DEF p
<1>2. \A s \in Stages : sims[p][s] \in Sim /\ InBounds(sims[p][s])
  BY <1>0 DEF AllInBounds
<1>3. ASSUME NEW s \in Stages
      PROVE  /\ pools[p][s].ep > 0 /\ InBounds(pools[p][s])
             /\ cfg.auto /\ sims[p][s].ep > 0 /\ ~first => pools[p][s] = sims[p][s]
             /\ ~cfg.auto \/ first \/ sims[p][s].ep = 0 => pools[p][s].n = 0 /\ ~pools[p][s].over
  <2>1. CASE cfg.auto /\ sims[p][s].ep > 0 /\ ~first
    <3>1. pools[p][s] = sims[p][s]
      BY <1>1, <2>1
    <3>2. sims[p][s].ep # 0
      BY <2>1
    <3> QED
      BY <1>2, <2>1, <3>1, <3>2
  <2>2. CASE ~(cfg.auto /\ sims[p][s].ep > 0 /\ ~first)
    <3>1. pools[p][s] = Fresh(sims[p][s])
      BY <1>1, <2>2
    <3> QED
      BY <1>2, <2>2, <3>1, FreshSim
  <2> QED
    BY <2>1, <2>2
<1>4. AllInBounds(pools)
  <2>1. ASSUME NEW m \in Modes, NEW s \in Stages PROVE InBounds(pools[m][s])
    <3>1. CASE m = p
      BY <1>3, <3>1
    <3>2. CASE m # p
      BY <1>1, <3>2 DEF AllInBounds
    <3> QED
      BY <3>1, <3>2
  <2> QED
    BY <2>1 DEF AllInBounds
<1>5. \A s \in Stages : pools[p][s] \in Sim /\ InBounds(pools[p][s])
  BY <1>0, <1>1, <1>3
<1>6. Observed(pools, mode) = [s \in Stages |-> Shown(pools[p][s])]
  BY DEF Observed, p
<1>7. \A s \in Stages : Shown(pools[p][s]) \in Obs
  BY <1>5, ShownType
<1> QED
  BY <1>1, <1>3, <1>4, <1>6, <1>7 DEF p

LEMMA SteppedSim ==
  ASSUME NEW sim \in Sim, InBounds(sim), sim.ep > 0, NEW done \in BOOLEAN,
         sim.over => ~done, ~sim.over /\ MustEnd(sim) => done, NEW next, next = Stepped(sim, done)
  PROVE  /\ next \in Sim /\ InBounds(next) /\ next.ep > 0
         /\ sim.over => next = sim
         /\ ~sim.over /\ ~done => next.ep = sim.ep /\ next.n = sim.n + 1 /\ ~next.over /\ (cfg.auto => sim.n + 1 < Horizon)
         /\ done => IF cfg.auto THEN next.n = 0 ELSE next.over
<1>0. sim.n \in Nat /\ Horizon \in Nat /\ Window \in Nat /\ sim.ep \in 0..EpisodeIds /\ sim.over \in BOOLEAN
  BY RolloutAssumption DEF Sim
<1>1. CASE sim.over
  BY <1>1 DEF Stepped
<1>2. CASE ~sim.over /\ ~done
  <2>1. next = [sim EXCEPT !.n = @ + 1]
    BY <1>2 DEF Stepped
  <2>2. next.ep = sim.ep /\ next.n = sim.n + 1 /\ next.over = sim.over /\ next \in Sim
    BY <1>0, <2>1 DEF Sim
  <2>3. IF cfg.auto THEN sim.n + 1 < Horizon ELSE sim.n + 1 < Window
    <3>1. sim.n + 1 # IF cfg.auto THEN Horizon ELSE Window
      BY <1>2 DEF MustEnd
    <3>2. IF cfg.auto THEN sim.n < Horizon ELSE sim.n < Window
      BY <1>2 DEF InBounds
    <3> QED
      BY <1>0, <3>1, <3>2
  <2>4. InBounds(next)
    BY <1>2, <2>2, <2>3 DEF InBounds
  <2> QED
    BY <1>2, <2>2, <2>3, <2>4
<1>3. CASE ~sim.over /\ done /\ cfg.auto
  <2>1. next = Fresh(sim)
    BY <1>3 DEF Stepped
  <2> QED
    BY <1>3, <2>1, FreshSim
<1>4. CASE ~sim.over /\ done /\ ~cfg.auto
  <2>1. next = [sim EXCEPT !.n = @ + 1, !.over = TRUE]
    BY <1>4 DEF Stepped
  <2>a. next = [ep |-> sim.ep, n |-> sim.n + 1, over |-> TRUE]
    BY <2>1 DEF Sim
  <2>2. next.ep = sim.ep /\ next.n = sim.n + 1 /\ next.over /\ next \in Sim
    BY <1>0, <2>a DEF Sim
  <2>3. sim.n < Window
    BY <1>4 DEF InBounds
  <2>4. next.n <= Window
    BY <1>0, <2>2, <2>3
  <2> QED
    BY <1>4, <2>2, <2>4 DEF InBounds
<1> QED
  BY <1>1, <1>2, <1>3, <1>4

---------------------------------------------------------------------------
(* The state                                                               *)

LEMMA Kinds ==
  ASSUME TypeOK
  PROVE  /\ run = Idle <=> run.kind = "none"
         /\ run # Idle => run \in Runs /\ run.kind \in Modes /\ (run.kind = "train" \/ run.kind = "eval")
         /\ \A b \in Batches : b # None /\ b.id \in Nat /\ b.id > 0
         /\ sims \in [Modes -> [Stages -> Sim]]
         /\ cfg \in Configs /\ version \in Nat /\ served \in 0..version /\ served \in Nat /\ Serving \in Nat
<1>1. cfg \in Configs /\ version \in Nat /\ served \in 0..version /\ run \in {Idle} \cup Runs
  BY DEF TypeOK
<1>2. sims \in [Modes -> [Stages -> Sim]]
  BY DEF TypeOK, Sim
<1>3. \A r \in Runs : r.kind \in Modes /\ r.kind # "none"
  BY DEF Runs, Modes
<1>4. Idle.kind = "none"
  BY DEF Idle
<1>5. \A b \in Batches : b.id \in Nat /\ b.id > 0
  BY DEF Batches
<1>6. None.id = 0
  BY DEF None
<1>7. served \in Nat /\ Serving \in Nat
  BY <1>1 DEF Serving
<1> QED
  BY <1>1, <1>2, <1>3, <1>4, <1>5, <1>6, <1>7 DEF Modes

LEMMA RunParts ==
  ASSUME TypeOK, run # Idle
  PROVE  /\ run \in Runs /\ run.id \in Nat /\ run.carry \in Carries
         /\ run.obs \in [Stages -> Obs] /\ run.slots \in [Stages -> Seq(Slot)]
         /\ \A s \in Stages : /\ run.obs[s] \in Obs /\ run.slots[s] \in Seq(Slot) /\ run.carry[s] \in Nat
                              /\ Len(run.slots[s]) \in Nat /\ Len(run.slots[s]) <= Window
                              /\ DOMAIN run.slots[s] = 1..Len(run.slots[s])
<1>1. run \in Runs /\ \A s \in Stages : Len(run.slots[s]) <= Window
  BY DEF TypeOK
<1>2. /\ run.id \in Nat /\ run.carry \in Carries
      /\ run.obs \in [Stages -> Obs] /\ run.slots \in [Stages -> Seq(Slot)]
  BY <1>1 DEF Runs
<1>3. ASSUME NEW s \in Stages
      PROVE  /\ run.obs[s] \in Obs /\ run.slots[s] \in Seq(Slot) /\ run.carry[s] \in Nat
             /\ Len(run.slots[s]) \in Nat /\ DOMAIN run.slots[s] = 1..Len(run.slots[s])
  <2>1. run.obs[s] \in Obs /\ run.slots[s] \in Seq(Slot) /\ run.carry[s] \in Nat
    BY <1>2 DEF Carries
  <2> QED
    BY <2>1, LenProperties
<1> QED
  BY <1>1, <1>2, <1>3

LEMMA BatchParts ==
  ASSUME NEW b \in Batches
  PROVE  /\ b.slots \in [Stages -> Seq(Slot)] /\ \A s \in Stages : b.slots[s] \in Seq(Slot)
         /\ b.state \in [obs : [Stages -> Obs], carry : Carries]
         /\ b.state \in [obs : {<<>>} \cup [Stages -> Obs], carry : Carries]
         /\ b.id \in Nat /\ b.id > 0 /\ b # None
<1>1. b.slots \in [Stages -> Seq(Slot)] /\ b.state \in [obs : [Stages -> Obs], carry : Carries] /\ b.id \in Nat \ {0}
  BY DEF Batches
<1>2. b # None
  <2>1. None.id = 0
    BY DEF None
  <2> QED
    BY <1>1, <2>1
<1> QED
  BY <1>1, <1>2

LEMMA LaneParts ==
  ASSUME TypeOK, NEW s \in Stages
  PROVE  /\ InFlight(s) \in Seq(Slot) /\ buffer[s] \in Seq(Slot) /\ Held(s) \in Seq(Slot)
         /\ batch # None => Lane(s) \in Seq(Slot) /\ batch.slots[s] \in Seq(Slot)
         /\ TrainSim(s) \in Sim /\ TrainSim(s) = sims["train"][s] /\ TrainSim(s).n \in Nat
<1>1. <<>> \in Seq(Slot) /\ buffer[s] \in Seq(Slot)
  BY DEF TypeOK
<1>2. \A b : IsBatch(b) /\ b # None => b.slots[s] \in Seq(Slot)
  BY BatchParts DEF IsBatch
<1>3. run.kind = "train" => run.slots[s] \in Seq(Slot)
  BY RunParts, Kinds
<1>4. IsBatch(ready) /\ IsBatch(finished) /\ IsBatch(batch)
  BY DEF TypeOK
<1>5. InFlight(s) \in Seq(Slot)
  BY <1>1, <1>2, <1>3, <1>4 DEF InFlight
<1>6. batch # None => Lane(s) \in Seq(Slot) /\ batch.slots[s] \in Seq(Slot)
  BY <1>1, <1>2, <1>4, ConcatProperties DEF Lane
<1>7. Held(s) \in Seq(Slot)
  BY <1>1, <1>6 DEF Held
<1>8. "train" \in Modes
  BY DEF Modes
<1>9. TrainSim(s) \in Sim /\ TrainSim(s) = sims["train"][s]
  BY <1>8, Kinds, PoolType DEF TrainSim
<1> QED
  BY <1>1, <1>5, <1>6, <1>7, <1>9 DEF Sim

---------------------------------------------------------------------------
(* What a step of one stage does                                           *)

StageMoves(t, done, slot, next) ==
  LET p == Pool(run.kind)
      sim == sims[p][t] IN
  /\ p \in Modes /\ sim \in Sim /\ sim.ep > 0 /\ InBounds(sim) /\ Len(run.slots[t]) < Window
  /\ slot \in Slot /\ slot.ep = sim.ep /\ slot.n = sim.n /\ slot.done = done /\ slot.over = sim.over
  /\ slot.obs = run.obs[t] /\ slot.version = Serving
  /\ next \in Sim /\ InBounds(next) /\ next.ep > 0
  /\ sim.over => ~done /\ next = sim
  /\ ~sim.over /\ ~done => next.ep = sim.ep /\ next.n = sim.n + 1 /\ ~next.over /\ (cfg.auto => sim.n + 1 < Horizon)
  /\ done => IF cfg.auto THEN next.n = 0 ELSE next.over
  /\ sims' \in [Modes -> [Stages -> Sim]]
  /\ \A m \in Modes : \A s \in Stages : sims'[m][s] = IF m = p /\ s = t THEN next ELSE sims[m][s]
  /\ run' \in Runs /\ run'.kind = run.kind /\ run'.id = run.id /\ run'.carry = run.carry
  /\ \A s \in Stages : /\ run'.slots[s] = (IF s = t THEN Append(run.slots[t], slot) ELSE run.slots[s])
                       /\ run'.obs[s] = (IF s = t THEN Shown(next) ELSE run.obs[s])

LEMMA StageEffect ==
  ASSUME TypeOK, AllInBounds(sims), StartsRight, NEW t \in Stages, StageStep(t)
  PROVE  \E done \in BOOLEAN : \E slot, next : StageMoves(t, done, slot, next)
<1> DEFINE p == Pool(run.kind)
           sim == sims[p][t]
           slot(done) == [ep |-> sim.ep, n |-> sim.n, done |-> done, over |-> sim.over,
                          obs |-> run.obs[t], version |-> Serving]
<1>1. run # Idle /\ Len(run.slots[t]) < Window
  BY DEF StageStep
<1>2. PICK done \in BOOLEAN :
        /\ sim.over => ~done
        /\ ~sim.over /\ MustEnd(sim) => done
        /\ sims' = [sims EXCEPT ![p][t] = Stepped(sim, done)]
        /\ run' = [run EXCEPT !.obs[t] = Shown(Stepped(sim, done)), !.slots[t] = Append(@, slot(done))]
  BY DEF StageStep
<1>3. PICK next : next = Stepped(sim, done)
  OBVIOUS
<1>4. p \in Modes /\ sims \in [Modes -> [Stages -> Sim]] /\ sim \in Sim /\ sim.ep > 0 /\ InBounds(sim)
  <2>1. p \in Modes /\ sims \in [Modes -> [Stages -> Sim]]
    BY <1>1, Kinds, PoolType
  <2>2. sim.ep > 0
    BY <1>1 DEF StartsRight
  <2>3. InBounds(sim)
    BY <2>1 DEF AllInBounds
  <2> QED
    BY <2>1, <2>2, <2>3
<1>5. /\ run \in Runs /\ run.obs \in [Stages -> Obs] /\ run.slots \in [Stages -> Seq(Slot)] /\ run.obs[t] \in Obs
      /\ run.slots[t] \in Seq(Slot)
  BY <1>1, RunParts
<1>6. /\ next \in Sim /\ InBounds(next) /\ next.ep > 0
      /\ sim.over => next = sim
      /\ ~sim.over /\ ~done => next.ep = sim.ep /\ next.n = sim.n + 1 /\ ~next.over /\ (cfg.auto => sim.n + 1 < Horizon)
      /\ done => IF cfg.auto THEN next.n = 0 ELSE next.over
  <2> HIDE DEF p, sim
  <2> QED
    BY <1>2, <1>3, <1>4, SteppedSim
<1>7. PICK e : e = slot(done)
  OBVIOUS
<1>8. /\ e \in Slot /\ e.ep = sim.ep /\ e.n = sim.n /\ e.done = done /\ e.over = sim.over /\ e.obs = run.obs[t]
      /\ e.version = Serving
  <2>1. sim.ep \in 0..EpisodeIds /\ sim.ep # 0 /\ sim.n \in Nat /\ sim.over \in BOOLEAN /\ EpisodeIds \in Nat
    BY <1>4, RolloutAssumption DEF Sim
  <2>2. sim.ep \in 1..EpisodeIds
    BY <2>1
  <2>3. Serving \in Nat
    BY Kinds
  <2> HIDE DEF sim
  <2> QED
    BY <1>5, <1>7, <2>1, <2>2, <2>3 DEF Slot
<1>9. Shown(next) \in Obs
  BY <1>6, ShownType
<1>10. sims' = [sims EXCEPT ![p] = [sims[p] EXCEPT ![t] = next]]
  BY <1>2, <1>3
<1>11. run' = [run EXCEPT !.obs = [run.obs EXCEPT ![t] = Shown(next)],
                         !.slots = [run.slots EXCEPT ![t] = Append(run.slots[t], e)]]
  BY <1>2, <1>3, <1>7
<1> HIDE DEF slot
<1>12. PICK row : row = [sims[p] EXCEPT ![t] = next]
  OBVIOUS
<1>13. row \in [Stages -> Sim] /\ \A s \in Stages : row[s] = IF s = t THEN next ELSE sims[p][s]
  BY <1>4, <1>6, <1>12
<1>14. sims' = [sims EXCEPT ![p] = row]
  BY <1>10, <1>12
<1>15. /\ sims' \in [Modes -> [Stages -> Sim]]
       /\ \A m \in Modes : \A s \in Stages : sims'[m][s] = IF m = p /\ s = t THEN next ELSE sims[m][s]
  <2> HIDE DEF p, sim
  <2> QED
    BY <1>4, <1>13, <1>14
<1>16. PICK obs, slots : obs = [run.obs EXCEPT ![t] = Shown(next)] /\ slots = [run.slots EXCEPT ![t] = Append(run.slots[t], e)]
  OBVIOUS
<1>17. Append(run.slots[t], e) \in Seq(Slot)
  BY <1>5, <1>8, Appended
<1>18. PICK longer : longer = Append(run.slots[t], e)
  OBVIOUS
<1>19. /\ obs \in [Stages -> Obs] /\ slots \in [Stages -> Seq(Slot)]
       /\ \A s \in Stages : /\ slots[s] = (IF s = t THEN longer ELSE run.slots[s])
                            /\ obs[s] = (IF s = t THEN Shown(next) ELSE run.obs[s])
  <2>1. slots = [run.slots EXCEPT ![t] = longer] /\ longer \in Seq(Slot)
    BY <1>16, <1>17, <1>18
  <2>2. slots \in [Stages -> Seq(Slot)] /\ \A s \in Stages : slots[s] = (IF s = t THEN longer ELSE run.slots[s])
    BY <1>5, <2>1
  <2>3. obs \in [Stages -> Obs] /\ \A s \in Stages : obs[s] = (IF s = t THEN Shown(next) ELSE run.obs[s])
    BY <1>5, <1>9, <1>16
  <2> QED
    BY <2>2, <2>3, Zenon
<1>20. run' = [run EXCEPT !.obs = obs, !.slots = slots]
  BY <1>11, <1>16
<1>21. run' \in Runs /\ run'.kind = run.kind /\ run'.id = run.id /\ run'.carry = run.carry /\ run'.slots = slots /\ run'.obs = obs
  <2>1. run' = [kind |-> run.kind, id |-> run.id, obs |-> obs, carry |-> run.carry, slots |-> slots]
    BY <1>5, <1>20 DEF Runs
  <2> QED
    BY <1>5, <1>19, <2>1 DEF Runs
<1>22. \A s \in Stages : /\ run'.slots[s] = (IF s = t THEN Append(run.slots[t], e) ELSE run.slots[s])
                         /\ run'.obs[s] = (IF s = t THEN Shown(next) ELSE run.obs[s])
  <2> HIDE DEF sim, p
  <2>1. ASSUME NEW s \in Stages
        PROVE  /\ run'.slots[s] = (IF s = t THEN Append(run.slots[t], e) ELSE run.slots[s])
               /\ run'.obs[s] = (IF s = t THEN Shown(next) ELSE run.obs[s])
    <3>1. slots[s] = (IF s = t THEN longer ELSE run.slots[s]) /\ obs[s] = (IF s = t THEN Shown(next) ELSE run.obs[s])
      BY <1>19
    <3>2. run'.slots[s] = slots[s] /\ run'.obs[s] = obs[s]
      BY <1>21
    <3> QED
      BY <1>18, <3>1, <3>2, Zenon
  <2> QED
    BY <2>1
<1>23. (sim.over => ~done /\ next = sim)
  BY <1>2, <1>6
<1> QED
  <2>1. StageMoves(t, done, e, next)
    <3> HIDE DEF sim, p
    <3>1. p \in Modes /\ sim \in Sim /\ sim.ep > 0 /\ InBounds(sim) /\ Len(run.slots[t]) < Window
      BY <1>1, <1>4
    <3>2. /\ ~sim.over /\ ~done => next.ep = sim.ep /\ next.n = sim.n + 1 /\ ~next.over /\ (cfg.auto => sim.n + 1 < Horizon)
          /\ done => IF cfg.auto THEN next.n = 0 ELSE next.over
      BY <1>6
    <3>3. run' \in Runs /\ run'.kind = run.kind /\ run'.id = run.id /\ run'.carry = run.carry
      BY <1>21
    <3>4. next \in Sim /\ InBounds(next) /\ next.ep > 0
      BY <1>6
    <3>5. /\ e \in Slot /\ e.ep = sim.ep /\ e.n = sim.n /\ e.done = done /\ e.over = sim.over
          /\ e.obs = run.obs[t] /\ e.version = Serving
      BY <1>8
    <3> QED
      BY <1>15, <1>22, <1>23, <3>1, <3>2, <3>3, <3>4, <3>5, Zenon DEF StageMoves, sim, p
  <2> QED
    BY <2>1

---------------------------------------------------------------------------
(* What starting a training rollout does                                   *)

StateType == [obs : {<<>>} \cup [Stages -> Obs], carry : Carries]

LEMMA NoCarryType == NoCarry \in Carries /\ \A s \in Stages : NoCarry[s] = 0
BY DEF NoCarry, Carries

\* A run that has begun: from where the simulators are.
Begun(kind, id, carry) ==
  /\ run' \in Runs /\ run'.kind = kind /\ run'.id = id /\ run'.carry = carry
  /\ \A s \in Stages : run'.slots[s] = <<>> /\ run'.obs[s] = Shown(sims'[Pool(kind)][s])

LEMMA StartedRun ==
  ASSUME NEW kind \in Modes, NEW id \in Nat, NEW carry \in Carries, NEW obs \in [Stages -> Obs],
         run' = Started(kind, id, obs, carry), \A s \in Stages : obs[s] = Shown(sims'[Pool(kind)][s])
  PROVE  Begun(kind, id, carry)
<1> DEFINE none == [s \in Stages |-> <<>>]
<1>1. none \in [Stages -> Seq(Slot)] /\ \A s \in Stages : none[s] = <<>>
  OBVIOUS
<1>2. run' = [kind |-> kind, id |-> id, obs |-> obs, carry |-> carry, slots |-> none]
  BY DEF Started
<1> HIDE DEF none
<1>3. run' \in Runs /\ run'.kind = kind /\ run'.id = id /\ run'.carry = carry /\ run'.slots = none /\ run'.obs = obs
  BY <1>1, <1>2 DEF Runs
<1> QED
  BY <1>1, <1>3 DEF Begun

LEMMA LaunchEffect ==
  ASSUME TypeOK, AllInBounds(sims), NEW st \in StateType, Launch(st), (Untouched /\ st = state) \/ Current(st)
  PROVE  /\ launched' = launched + 1
         /\ sims' \in [Modes -> [Stages -> Sim]] /\ AllInBounds(sims')
         /\ Begun("train", launched + 1, st.carry)
         /\ \A s \in Stages :
              /\ sims'["train"][s].ep > 0
              /\ cfg.auto /\ Current(st) => sims'["train"][s] = sims["train"][s]
              /\ ~cfg.auto \/ ~Current(st) => sims'["train"][s].n = 0 /\ ~sims'["train"][s].over
              /\ cfg.auto /\ evals = 0 => sims'["train"][s].n = st.carry[s]
<1>0. /\ sims \in [Modes -> [Stages -> Sim]] /\ "train" \in Modes /\ Pool("train") = "train" /\ launched + 1 \in Nat
      /\ st.carry \in Carries
  BY Kinds, PoolType DEF Modes, TypeOK, StateType
<1>1. launched' = launched + 1
  BY DEF Launch
<1>2. CASE st.obs = <<>>
  <2>1. sims' = Reset("train", FALSE) /\ run' = Started("train", launched + 1, Observed(sims', "train"), st.carry)
    BY <1>2 DEF Launch
  <2>2. /\ sims' \in [Modes -> [Stages -> Sim]] /\ AllInBounds(sims')
        /\ \A s \in Stages :
              /\ sims'["train"][s].ep > 0
              /\ cfg.auto /\ sims["train"][s].ep > 0 => sims'["train"][s] = sims["train"][s]
              /\ ~cfg.auto \/ sims["train"][s].ep = 0 => sims'["train"][s].n = 0 /\ ~sims'["train"][s].over
        /\ Observed(sims', "train") \in [Stages -> Obs]
        /\ \A s \in Stages : Observed(sims', "train")[s] = Shown(sims'["train"][s])
    <3>1. FALSE \in BOOLEAN /\ AllInBounds(sims)
      OBVIOUS
    <3>2. PICK pools : pools = sims'
      OBVIOUS
    <3>3. pools = Reset("train", FALSE)
      BY <2>1, <3>2
    <3>4. /\ pools \in [Modes -> [Stages -> Sim]] /\ AllInBounds(pools)
          /\ \A s \in Stages :
              /\ pools["train"][s].ep > 0
              /\ cfg.auto /\ sims["train"][s].ep > 0 => pools["train"][s] = sims["train"][s]
              /\ ~cfg.auto \/ sims["train"][s].ep = 0 => pools["train"][s].n = 0 /\ ~pools["train"][s].over
          /\ Observed(pools, "train") \in [Stages -> Obs]
          /\ \A s \in Stages : Observed(pools, "train")[s] = Shown(pools["train"][s])
      <4>1. PICK first \in BOOLEAN : ~first /\ pools = Reset("train", first)
        BY <3>3
      <4>2. /\ pools \in [Modes -> [Stages -> Sim]] /\ AllInBounds(pools)
            /\ \A s \in Stages :
                 /\ pools[Pool("train")][s].ep > 0
                 /\ cfg.auto /\ sims[Pool("train")][s].ep > 0 /\ ~first
                      => pools[Pool("train")][s] = sims[Pool("train")][s]
                 /\ ~cfg.auto \/ first \/ sims[Pool("train")][s].ep = 0 =>
                      pools[Pool("train")][s].n = 0 /\ ~pools[Pool("train")][s].over
            /\ Observed(pools, "train") \in [Stages -> Obs]
            /\ \A s \in Stages : Observed(pools, "train")[s] = Shown(pools[Pool("train")][s])
        BY <1>0, <3>1, <4>1, ResetSims
      <4> QED
        BY <1>0, <4>1, <4>2
    <3> QED
      BY <3>2, <3>4
  <2>3. Begun("train", launched + 1, st.carry)
    BY <1>0, <2>1, <2>2, StartedRun
  <2>4. ASSUME NEW s \in Stages
        PROVE  /\ cfg.auto /\ Current(st) => sims'["train"][s] = sims["train"][s]
               /\ ~Current(st) => sims'["train"][s].n = 0 /\ ~sims'["train"][s].over
               /\ cfg.auto /\ evals = 0 => sims'["train"][s].n = st.carry[s]
    <3>0. TrainSim(s) = sims["train"][s]
      BY <1>0 DEF TrainSim
    <3>1. CASE Current(st)
      <4>1. sims["train"][s].ep > 0 /\ (cfg.auto /\ evals = 0 => st.carry[s] = sims["train"][s].n)
        BY <3>0, <3>1 DEF Current
      <4> QED
        BY <2>2, <3>1, <4>1
    <3>2. CASE ~Current(st)
      <4>1. sims["train"][s].ep = 0 /\ st.carry[s] = 0
        BY <3>0, <3>2, NoCarryType DEF Untouched
      <4> QED
        BY <2>2, <3>2, <4>1
    <3> QED
      BY <3>1, <3>2
  <2> QED
    BY <1>1, <2>2, <2>3, <2>4
<1>3. CASE st.obs # <<>>
  <2>1. sims' = sims /\ run' = Started("train", launched + 1, st.obs, st.carry)
    BY <1>3 DEF Launch
  <2>2. Current(st)
    BY <1>3 DEF Untouched
  <2>3. st.obs \in [Stages -> Obs]
    BY <1>3 DEF StateType
  <2>4. \A s \in Stages : st.obs[s] = Shown(sims'["train"][s])
    BY <1>0, <2>1, <2>2 DEF Current, Observed
  <2>5. Begun("train", launched + 1, st.carry)
    BY <1>0, <2>1, <2>3, <2>4, StartedRun
  <2>6. \A s \in Stages : TrainSim(s) = sims["train"][s]
    BY <1>0 DEF TrainSim
  <2>7. \A s \in Stages : /\ sims["train"][s].ep > 0
                          /\ ~cfg.auto => sims["train"][s].n = 0 /\ ~sims["train"][s].over
                          /\ cfg.auto /\ evals = 0 => st.carry[s] = sims["train"][s].n
    BY <2>2, <2>6 DEF Current
  <2> QED
    BY <1>0, <1>1, <2>1, <2>2, <2>5, <2>7
<1> QED
  BY <1>2, <1>3

---------------------------------------------------------------------------
(* A stage plays a step                                                    *)

LEMMA RunSlots ==
  ASSUME NEW r \in Runs
  PROVE  /\ r # Idle /\ r.kind \in Modes
         /\ \A s \in Stages : /\ r.slots[s] \in Seq(Slot) /\ Len(r.slots[s]) \in Nat
                              /\ DOMAIN r.slots[s] = 1..Len(r.slots[s])
<1>1. r.kind \in Modes /\ r.slots \in [Stages -> Seq(Slot)]
  BY DEF Runs
<1>2. r # Idle
  <2>1. Idle.kind = "none"
    BY DEF Idle
  <2> QED
    BY <1>1, <2>1 DEF Modes
<1>3. \A s \in Stages : r.slots[s] \in Seq(Slot)
  BY <1>1
<1> QED
  BY <1>1, <1>2, <1>3, LenProperties

LEMMA SameStep ==
  ASSUME NEW seq, NEW x, NEW y, x.n = y.n, x.ep = y.ep
  PROVE  /\ Linked(seq, x) => Linked(seq, y)
         /\ Opens(seq, x).n = Opens(seq, y).n /\ Opens(seq, x).ep = Opens(seq, y).ep
BY DEF Linked, Opens

LEMMA BoundsOf == SimBounds <=> AllInBounds(sims)
BY DEF SimBounds, AllInBounds, InBounds

StageFrame == UNCHANGED <<cfg, version, served, state, finished, ready, batch, buffer,
                          evaluated, pc, back, calls, launched, taken, steps, evals>>

LEMMA StageKeepsRest ==
  ASSUME IInv, NEW t \in Stages, run # Idle, StageFrame,
         NEW done \in BOOLEAN, NEW slot, NEW next, StageMoves(t, done, slot, next)
  PROVE  /\ TypeOK' /\ Exclusive' /\ Ledger' /\ Versions' /\ SimBounds' /\ StartsRight' /\ FreshObs'
<1> USE DEF StageFrame
<1>t. TypeOK
  BY DEF IInv
<1>0. /\ slot \in Slot /\ run' \in Runs /\ run'.kind = run.kind /\ run'.id = run.id /\ run' # Idle
      /\ \A s \in Stages : run'.slots[s] = IF s = t THEN Append(run.slots[t], slot) ELSE run.slots[s]
      /\ slot.version = Serving /\ Len(run.slots[t]) < Window
  BY RunSlots DEF StageMoves
<1>1. \A s \in Stages : /\ run.slots[s] \in Seq(Slot) /\ Len(run.slots[s]) \in Nat /\ Len(run.slots[s]) <= Window
                        /\ DOMAIN run.slots[s] = 1..Len(run.slots[s])
  BY <1>t, RunParts
<1>2. /\ Len(Append(run.slots[t], slot)) = Len(run.slots[t]) + 1
      /\ \A i \in 1..Len(run.slots[t]) : Append(run.slots[t], slot)[i] = run.slots[t][i]
      /\ Append(run.slots[t], slot)[Len(run.slots[t]) + 1] = slot
  BY <1>0, <1>1, Appended
<1>3. \A s \in Stages : Len(run'.slots[s]) <= Window
  <2>1. Window \in Nat
    BY RolloutAssumption
  <2>2. Len(run'.slots[t]) <= Window
    <3>1. run'.slots[t] = Append(run.slots[t], slot)
      BY <1>0
    <3>2. Len(run.slots[t]) + 1 <= Window
      BY <1>0, <1>1, <2>1
    <3> QED
      BY <1>2, <3>1, <3>2
  <2>3. \A s \in Stages : s # t => Len(run'.slots[s]) <= Window
    BY <1>0, <1>1
  <2> QED
    BY <2>2, <2>3
<1>4. TypeOK'
  <2>1. sims' \in [Modes -> [Stages -> [ep : 0..EpisodeIds, n : Nat, over : BOOLEAN]]]
    BY DEF StageMoves, Sim
  <2>2. run' \in {Idle} \cup Runs /\ (run' # Idle => \A s \in Stages : Len(run'.slots[s]) <= Window)
    BY <1>0, <1>3
  <2>3. finished = None
    BY <1>t DEF TypeOK
  <2> QED
    BY <1>t, <2>1, <2>2, <2>3 DEF TypeOK, IsBatch
<1>5. Pending' = Pending /\ Serving' = Serving
  BY <1>0 DEF Pending, Serving
<1>6. Exclusive'
  BY <1>0, <1>5 DEF IInv, Exclusive
<1>7. Ledger'
  BY <1>0, <1>5 DEF IInv, Ledger, EachBatchOnce
<1>8. ASSUME NEW s \in Stages, NEW i \in 1..Len(run'.slots[s])
      PROVE  \/ i \in 1..Len(run.slots[s]) /\ run'.slots[s][i] = run.slots[s][i]
             \/ s = t /\ run'.slots[s][i] = slot
  <2>1. CASE s = t
    <3>1. run'.slots[s] = Append(run.slots[t], slot)
      BY <1>0, <2>1
    <3>2. i \in 1..Len(run.slots[t]) \/ i = Len(run.slots[t]) + 1
      BY <1>1, <1>2, <3>1
    <3> QED
      BY <1>2, <2>1, <3>1, <3>2
  <2>2. CASE s # t
    BY <1>0, <2>2
  <2> QED
    BY <2>1, <2>2
<1>9. \A s \in Stages : DOMAIN run'.slots[s] = 1..Len(run'.slots[s])
  BY <1>0, RunSlots
<1>10. Versions'
  <2>1. OneVersion'
    <3>1. ASSUME NEW s \in Stages, NEW i \in 1..Len(run'.slots[s]) PROVE run'.slots[s][i].version = Serving
      <4>1. i \in 1..Len(run.slots[s]) => run.slots[s][i].version = Serving
        BY <1>1 DEF IInv, Versions, OneVersion
      <4> QED
        BY <1>0, <1>8, <4>1
    <3> QED
      BY <1>5, <1>9, <3>1 DEF OneVersion
  <2>2. PolicyLag'
    BY DEF IInv, Versions, PolicyLag
  <2> QED
    BY <1>0, <1>5, <2>1, <2>2 DEF IInv, Versions, VersionsIn
<1>11. FreshObs'
  <2>1. ASSUME NEW s \in Stages, NEW i \in 1..Len(run'.slots[s])
        PROVE  run'.slots[s][i].obs = <<run'.slots[s][i].ep, run'.slots[s][i].n>>
    <3>1. i \in 1..Len(run.slots[s]) => run.slots[s][i].obs = <<run.slots[s][i].ep, run.slots[s][i].n>>
      BY <1>1 DEF IInv, FreshObs
    <3>2. slot.obs = <<slot.ep, slot.n>>
      <4>1. run.obs[t] = Shown(sims[Pool(run.kind)][t])
        BY DEF IInv, StartsRight
      <4> QED
        BY <4>1 DEF StageMoves, Shown
    <3> QED
      BY <1>8, <3>1, <3>2
  <2> QED
    BY <1>9, <2>1 DEF FreshObs
<1>12. /\ next.ep > 0 /\ Pool(run.kind)' = Pool(run.kind) /\ "train" \in Modes /\ Pool(run.kind) \in Modes
       /\ InBounds(next)
       /\ \A m \in Modes : \A s \in Stages : sims'[m][s] = IF m = Pool(run.kind) /\ s = t THEN next ELSE sims[m][s]
       /\ \A s \in Stages : run'.obs[s] = IF s = t THEN Shown(next) ELSE run.obs[s]
  BY <1>0 DEF StageMoves, Pool, Modes
<1>13. SimBounds'
  <2>1. ASSUME NEW m \in Modes, NEW s \in Stages PROVE InBounds(sims'[m][s])
    BY <1>12, BoundsOf DEF IInv, AllInBounds
  <2> QED
    BY <2>1 DEF SimBounds, InBounds
<1>14. StartsRight'
  <2>1. ASSUME NEW s \in Stages
        PROVE  run'.obs[s] = Shown(sims'[Pool(run.kind)][s]) /\ sims'[Pool(run.kind)][s].ep > 0
    <3>1. run.obs[s] = Shown(sims[Pool(run.kind)][s]) /\ sims[Pool(run.kind)][s].ep > 0
      BY DEF IInv, StartsRight
    <3> QED
      BY <1>12, <3>1
  <2>2. ASSUME launched > 0, NEW s \in Stages PROVE sims'["train"][s].ep > 0
    <3>1. sims["train"][s].ep > 0
      BY <1>t, <2>2, LaneParts DEF IInv, StartsRight
    <3> QED
      BY <1>12, <3>1
  <2>3. Pool("train")' = "train"
    BY DEF Pool
  <2>4. \A s \in Stages : TrainSim(s)' = sims'["train"][s]
    BY <2>3 DEF TrainSim
  <2> QED
    BY <1>0, <1>12, <2>1, <2>2, <2>4 DEF StartsRight
<1> QED
  BY <1>4, <1>6, <1>7, <1>10, <1>11, <1>13, <1>14

\* Nothing that the sequences of a lane are made of has changed.
LEMMA StreamFrame ==
  ASSUME NEW s \in Stages, Stream(s), cfg' = cfg, evals' = evals,
         InFlight(s)' = InFlight(s), Held(s)' = Held(s), buffer[s]' = buffer[s],
         (pc' = "eval") = (pc = "eval"), TrainSim(s)' = TrainSim(s),
         run' # Idle => /\ run # Idle /\ run'.kind = run.kind /\ run'.carry = run.carry
                        /\ run'.slots[s] = run.slots[s]
                        /\ sims'[Pool(run.kind)][s] = sims[Pool(run.kind)][s]
  PROVE  Stream(s)'
<1>1. Unbroken' = Unbroken /\ (Unbroken' <=> Unbroken)
  BY DEF Unbroken
<1>2. Opens(InFlight(s), TrainSim(s))' = Opens(InFlight(s), TrainSim(s))
  BY DEF Opens
<1>3. /\ InSequence(InFlight(s))' /\ Bounded(InFlight(s))' /\ Bounded(Held(s))' /\ Ends(buffer[s])' = {}
      /\ Unbroken' => InSequence(Held(s))'
      /\ Unbroken' /\ ~(pc' = "eval" /\ cfg'.shared) =>
           Linked(InFlight(s), TrainSim(s))' /\ Linked(Held(s), Opens(InFlight(s), TrainSim(s)))'
      /\ evals' = 0 => Opens(Held(s), Opens(InFlight(s), TrainSim(s)))'.n = 0
  BY <1>1, <1>2 DEF Stream, InSequence, Quiet, Bounded, Ends, Linked, Opens
<1>4. ASSUME run' # Idle
      PROVE  LET sim == sims'[Pool(run.kind)'][s] IN
             /\ InSequence(run'.slots[s]) /\ Linked(run'.slots[s], sim)
             /\ run'.kind = "eval" \/ evals' = 0 => Opens(run'.slots[s], sim).n = run'.carry[s]
  <2>1. Pool(run.kind)' = Pool(run.kind)
    BY <1>4 DEF Pool
  <2>2. /\ InSequence(run.slots[s]) /\ Linked(run.slots[s], sims[Pool(run.kind)][s])
        /\ run.kind = "eval" \/ evals = 0 => Opens(run.slots[s], sims[Pool(run.kind)][s]).n = run.carry[s]
    BY <1>4 DEF Stream
  <2>3. InSequence(run'.slots[s])
    BY <1>4, <2>2
  <2> QED
    BY <1>4, <2>1, <2>2, <2>3
<1> QED
  BY <1>3, <1>4 DEF Stream

\* The two halves of Stream: from the trainer to the simulator, and the run in progress.
Flow(f, h, x, unbroken, linked, first) ==
  /\ InSequence(f) /\ Bounded(f) /\ Bounded(h)
  /\ unbroken => InSequence(h)
  /\ linked => Linked(f, x) /\ Linked(h, Opens(f, x))
  /\ first => Opens(h, Opens(f, x)).n = 0
Playing(seq, sim, carry, exact) ==
  /\ InSequence(seq) /\ Linked(seq, sim)
  /\ exact => Opens(seq, sim).n = carry
LinkedNow == Unbroken /\ ~(pc = "eval" /\ cfg.shared)

LEMMA StreamParts ==
  ASSUME NEW s \in Stages
  PROVE  Stream(s) <=>
           /\ Flow(InFlight(s), Held(s), TrainSim(s), Unbroken, LinkedNow, evals = 0)
           /\ Ends(buffer[s]) = {}
           /\ run # Idle => Playing(run.slots[s], sims[Pool(run.kind)][s], run.carry[s],
                                    run.kind = "eval" \/ evals = 0)
BY DEF Stream, Flow, Playing, LinkedNow

LEMMA StreamPartsNext ==
  ASSUME NEW s \in Stages
  PROVE  Stream(s)' <=>
           /\ Flow(InFlight(s)', Held(s)', TrainSim(s)', Unbroken', LinkedNow', evals' = 0)
           /\ Ends(buffer'[s]) = {}
           /\ run' # Idle => Playing(run'.slots[s], sims'[Pool(run.kind)'][s], run'.carry[s],
                                     run'.kind = "eval" \/ evals' = 0)
BY DEF Stream, Flow, Playing, LinkedNow

\* One step more, in sequence and within the horizon.
LEMMA PlayedOn ==
  ASSUME NEW seq \in Seq(Slot), NEW e \in Slot, NEW sim, NEW next, NEW carry, NEW exact,
         Playing(seq, sim, carry, exact), e.n = sim.n, e.ep = sim.ep,
         e.n < Horizon, e.done \/ e.n + 1 < Horizon,
         IF e.done THEN next.n = 0 ELSE next.ep = e.ep /\ next.n = e.n + 1
  PROVE  /\ Playing(Append(seq, e), next, carry, exact)
         /\ Bounded(seq) => Bounded(Append(seq, e))
         /\ Linked(Append(seq, e), next)
         /\ Opens(Append(seq, e), next).n = Opens(seq, sim).n /\ Opens(Append(seq, e), next).ep = Opens(seq, sim).ep
<1>1. InSequence(seq) /\ Linked(seq, sim) /\ (exact => Opens(seq, sim).n = carry)
  BY DEF Playing
<1>2. Linked(seq, e) /\ Opens(seq, e).n = Opens(seq, sim).n /\ Opens(seq, e).ep = Opens(seq, sim).ep
  BY <1>1, SameStep
<1>3. InSequence(Append(seq, e))
  BY <1>1, <1>2, InSequenceAppend
<1>4. Linked(Append(seq, e), next) /\ (Bounded(seq) => Bounded(Append(seq, e)))
  BY EndsAppended
<1>5. Opens(Append(seq, e), next) = Opens(seq, e)
  BY Appended
<1> QED
  BY <1>1, <1>2, <1>3, <1>4, <1>5 DEF Playing

LEMMA StageKeepsStream ==
  ASSUME IInv, NEW t \in Stages, run # Idle, StageFrame, cfg.auto,
         NEW done \in BOOLEAN, NEW slot, NEW next, StageMoves(t, done, slot, next), NEW s \in Stages
  PROVE  Stream(s)'
<1> USE DEF StageFrame
<1>t. TypeOK /\ Exclusive /\ Stream(s)
  BY DEF IInv
<1> DEFINE sim == sims[Pool(run.kind)][t]
<1>0. /\ slot \in Slot /\ run' \in Runs /\ run'.kind = run.kind /\ run'.carry = run.carry /\ run' # Idle
      /\ \A r \in Stages : run'.slots[r] = IF r = t THEN Append(run.slots[t], slot) ELSE run.slots[r]
      /\ \A m \in Modes : \A r \in Stages : sims'[m][r] = IF m = Pool(run.kind) /\ r = t THEN next ELSE sims[m][r]
      /\ Pool(run.kind) \in Modes /\ run.slots[t] \in Seq(Slot) /\ "train" \in Modes
  BY <1>t, RunSlots, RunParts DEF StageMoves, Modes
<1>1. slot.n = sim.n /\ slot.ep = sim.ep /\ slot.done = done /\ sim \in Sim /\ sim.n \in Nat
  BY DEF StageMoves, Sim
<1>2. ~sim.over /\ sim.n < Horizon
  BY DEF StageMoves, InBounds
<1>3. (~done => next.ep = sim.ep /\ next.n = sim.n + 1 /\ sim.n + 1 < Horizon) /\ (done => next.n = 0)
  BY <1>2 DEF StageMoves
<1>4. Pending' = Pending /\ Unbroken' = Unbroken /\ LinkedNow' = LinkedNow /\ Pool(run.kind)' = Pool(run.kind)
      /\ TrainSim(s)' = sims'["train"][s] /\ TrainSim(s) = sims["train"][s]
  <2>1. Pool("train") = "train" /\ Pool("train")' = "train"
    BY DEF Pool
  <2> QED
    BY <1>0, <2>1 DEF Pending, Unbroken, LinkedNow, Pool, TrainSim
<1>5. Held(s)' = Held(s) /\ buffer[s]' = buffer[s]
  BY DEF Held, Lane
<1>6. CASE s # t
  <2>1. run'.slots[s] = run.slots[s] /\ \A m \in Modes : sims'[m][s] = sims[m][s]
    BY <1>0, <1>6
  <2>2. InFlight(s)' = InFlight(s)
    BY <1>0, <2>1 DEF InFlight
  <2>3. TrainSim(s)' = TrainSim(s)
    BY <1>0, <1>4, <2>1
  <2> QED
    BY <1>t, <1>0, <1>5, <2>1, <2>2, <2>3, StreamFrame
<1>7. CASE s = t
  <2> HIDE DEF sim
  <2>1. /\ Flow(InFlight(s), Held(s), TrainSim(s), Unbroken, LinkedNow, evals = 0)
        /\ Ends(buffer[s]) = {}
        /\ Playing(run.slots[s], sim, run.carry[s], run.kind = "eval" \/ evals = 0)
    BY <1>t, <1>7, StreamParts DEF sim
  <2> DEFINE longer == Append(run.slots[t], slot)
  <2>2. /\ Playing(longer, next, run.carry[s], run.kind = "eval" \/ evals = 0)
        /\ Bounded(run.slots[t]) => Bounded(longer)
        /\ Linked(longer, next)
        /\ Opens(longer, next).n = Opens(run.slots[t], sim).n /\ Opens(longer, next).ep = Opens(run.slots[t], sim).ep
    <3>1. slot.n < Horizon /\ (slot.done \/ slot.n + 1 < Horizon)
          /\ IF slot.done THEN next.n = 0 ELSE next.ep = slot.ep /\ next.n = slot.n + 1
      BY <1>1, <1>2, <1>3
    <3>2. PICK exact \in BOOLEAN : exact = (run.kind = "eval" \/ evals = 0)
      OBVIOUS
    <3>3. Playing(run.slots[t], sim, run.carry[s], exact)
      BY <1>7, <2>1, <3>2
    <3>4. /\ Playing(longer, next, run.carry[s], exact)
          /\ Bounded(run.slots[t]) => Bounded(longer)
          /\ Linked(longer, next)
          /\ Opens(longer, next).n = Opens(run.slots[t], sim).n
          /\ Opens(longer, next).ep = Opens(run.slots[t], sim).ep
      <4>1. slot \in Slot /\ run.slots[t] \in Seq(Slot) /\ slot.n = sim.n /\ slot.ep = sim.ep
        BY <1>0, <1>1
      <4> QED
        BY <3>1, <3>3, <4>1, PlayedOn, ZenonT(40)
    <3> HIDE DEF longer
    <3>5. Playing(longer, next, run.carry[s], run.kind = "eval" \/ evals = 0)
      <4>1. Playing(longer, next, run.carry[s], exact) /\ exact = (run.kind = "eval" \/ evals = 0)
        BY <3>2, <3>4
      <4> QED
        BY <4>1, Zenon
    <3> QED
      BY <3>4, <3>5
  <2> HIDE DEF longer
  <2>3. run'.slots[s] = longer /\ sims'[Pool(run.kind)][s] = next
    BY <1>0, <1>7 DEF longer
  <2>4. Playing(run'.slots[s], sims'[Pool(run.kind)'][s], run'.carry[s], run'.kind = "eval" \/ evals' = 0)
    BY <1>0, <1>4, <2>2, <2>3
  <2>5. CASE run.kind = "train"
    <3>1. ready = None /\ finished = None /\ pc # "eval"
      BY <1>t, <2>5 DEF Exclusive
    <3>2. InFlight(s) = run.slots[t] /\ InFlight(s)' = longer
      BY <1>0, <1>7, <2>3, <2>5, <3>1 DEF InFlight
    <3>3. TrainSim(s) = sim /\ TrainSim(s)' = next
      <4>1. Pool(run.kind) = "train"
        BY <2>5 DEF Pool
      <4> QED
        BY <1>4, <1>7, <2>3, <4>1 DEF sim
    <3>4. Flow(longer, Held(s), next, Unbroken, LinkedNow, evals = 0)
      <4>1. Flow(run.slots[t], Held(s), sim, Unbroken, LinkedNow, evals = 0)
        BY <2>1, <3>2, <3>3
      <4>2. Opens(longer, next).n = Opens(run.slots[t], sim).n /\ Opens(longer, next).ep = Opens(run.slots[t], sim).ep
        BY <2>2
      <4>3. LinkedNow => Linked(Held(s), Opens(longer, next))
        BY <4>1, <4>2, SameStep DEF Flow
      <4>4. evals = 0 => Opens(Held(s), Opens(longer, next)).n = 0
        BY <4>1, <4>2, SameStep DEF Flow
      <4>5. InSequence(longer) /\ Bounded(longer)
        BY <2>2, <4>1 DEF Playing, Flow
      <4> QED
        BY <2>2, <4>1, <4>3, <4>4, <4>5 DEF Flow
    <3> QED
      BY <1>4, <1>5, <2>1, <2>4, <3>2, <3>3, <3>4, StreamPartsNext
  <2>6. CASE run.kind = "eval"
    <3>1. pc = "eval" /\ evals # 0 /\ InFlight(s)' = InFlight(s)
      BY <1>t, <1>0, <2>6 DEF Exclusive, InFlight
    <3>2. Flow(InFlight(s), Held(s), TrainSim(s)', Unbroken, LinkedNow, evals = 0)
      <4>1. CASE cfg.shared
        <5>1. ~LinkedNow
          BY <3>1, <4>1 DEF LinkedNow
        <5> QED
          BY <2>1, <3>1, <5>1 DEF Flow
      <4>2. CASE ~cfg.shared
        <5>1. Pool(run.kind) = "eval"
          BY <2>6, <4>2 DEF Pool
        <5>2. TrainSim(s)' = TrainSim(s)
          BY <1>0, <1>4, <5>1
        <5> QED
          BY <2>1, <5>2
      <4> QED
        BY <4>1, <4>2
    <3> QED
      BY <1>4, <1>5, <2>1, <2>4, <3>1, <3>2, StreamPartsNext
  <2> QED
    BY <1>t, <2>5, <2>6, Kinds
<1> QED
  BY <1>6, <1>7

\* Without auto_reset: where the simulator is in its only episode.
Alone(slots, sim) ==
  /\ OneEpisode(slots)
  /\ IF Quiet(slots, 1, Len(slots) + 1)
     THEN ~sim.over /\ sim.n = Len(slots) /\ (slots # <<>> => sim.ep = slots[1].ep)
     ELSE sim.over

LEMMA PlayedAlone ==
  ASSUME NEW seq \in Seq(Slot), NEW e \in Slot, NEW sim, NEW next, Alone(seq, sim),
         e.n = sim.n, e.ep = sim.ep,
         sim.over => ~e.done /\ next = sim,
         ~sim.over /\ ~e.done => next.ep = sim.ep /\ next.n = sim.n + 1 /\ ~next.over,
         e.done => next.over
  PROVE  Alone(Append(seq, e), next)
<1> DEFINE new == Append(seq, e)
<1>1. /\ Len(new) = Len(seq) + 1 /\ Len(seq) \in Nat /\ new # <<>>
      /\ \A i \in 1..Len(seq) : new[i] = seq[i]
      /\ new[Len(seq) + 1] = e
  BY Appended
<1> HIDE DEF new
<1>2. new[1] = (IF seq = <<>> THEN e ELSE seq[1]) /\ (seq = <<>> <=> Len(seq) = 0)
  <2>1. seq = <<>> <=> Len(seq) = 0
    BY EmptySeq
  <2>2. CASE Len(seq) = 0
    BY <1>1, <2>1, <2>2
  <2>3. CASE Len(seq) # 0
    <3>1. 1 \in 1..Len(seq)
      BY <1>1, <2>3
    <3> QED
      BY <1>1, <2>1, <3>1
  <2> QED
    BY <2>1, <2>2, <2>3
<1>3. \A i \in 1..(Len(seq) + 1) : Quiet(new, 1, i) <=> Quiet(seq, 1, i)
  <2>1. ASSUME NEW i \in 1..(Len(seq) + 1), NEW k \in 1..(i - 1) PROVE new[k] = seq[k]
    BY <1>1
  <2> QED
    BY <2>1 DEF Quiet
<1>4. Quiet(new, 1, Len(new) + 1) <=> Quiet(seq, 1, Len(seq) + 1) /\ ~e.done
  <2>1. \A k \in 1..(Len(new) + 1 - 1) : k \in 1..Len(seq) \/ k = Len(seq) + 1
    BY <1>1
  <2>2. \A k \in 1..Len(seq) : k \in 1..(Len(new) + 1 - 1) /\ k \in 1..(Len(seq) + 1 - 1)
    BY <1>1
  <2>3. Len(seq) + 1 \in 1..(Len(new) + 1 - 1) /\ \A k \in 1..(Len(seq) + 1 - 1) : k \in 1..Len(seq)
    BY <1>1
  <2> QED
    BY <1>1, <2>1, <2>2, <2>3 DEF Quiet
<1>5. OneEpisode(new)
  <2>1. ASSUME NEW i \in 1..Len(new), Quiet(new, 1, i) PROVE new[i].ep = new[1].ep /\ new[i].n = i - 1
    <3>0. Quiet(seq, 1, i)
      BY <1>1, <1>3, <2>1
    <3>1. CASE i \in 1..Len(seq)
      <4>1. seq[i].ep = seq[1].ep /\ seq[i].n = i - 1 /\ seq # <<>>
        BY <1>1, <1>2, <3>0, <3>1 DEF Alone, OneEpisode
      <4> QED
        BY <1>1, <1>2, <3>1, <4>1
    <3>2. CASE i = Len(seq) + 1
      <4>1. sim.n = Len(seq) /\ (seq # <<>> => sim.ep = seq[1].ep)
        BY <3>0, <3>2 DEF Alone
      <4>2. new[i] = e /\ i - 1 = Len(seq)
        BY <1>1, <3>2
      <4> QED
        BY <1>2, <4>1, <4>2
    <3> QED
      BY <1>1, <3>1, <3>2
  <2>2. ASSUME NEW i \in 1..Len(new), NEW j \in 1..Len(new), i < j, new[i].done PROVE ~new[j].done
    <3>0. i \in 1..Len(seq) /\ seq[i].done
      BY <1>1, <2>2
    <3>1. CASE j \in 1..Len(seq)
      <4>1. ~seq[j].done
        BY <2>2, <3>0, <3>1 DEF Alone, OneEpisode
      <4> QED
        BY <1>1, <3>1, <4>1
    <3>2. CASE j = Len(seq) + 1
      <4>1. ~Quiet(seq, 1, Len(seq) + 1)
        BY <1>1, <3>0 DEF Quiet
      <4>2. sim.over
        BY <4>1 DEF Alone
      <4> QED
        BY <1>1, <3>2, <4>2
    <3> QED
      BY <1>1, <3>1, <3>2
  <2> QED
    BY <2>1, <2>2 DEF OneEpisode
<1>6. CASE Quiet(seq, 1, Len(seq) + 1) /\ ~e.done
  <2>1. ~sim.over /\ sim.n = Len(seq) /\ (seq # <<>> => sim.ep = seq[1].ep)
    BY <1>6 DEF Alone
  <2>2. ~next.over /\ next.n = Len(new) /\ next.ep = new[1].ep
    BY <1>1, <1>2, <1>6, <2>1
  <2> QED
    BY <1>4, <1>5, <1>6, <2>2 DEF Alone, new
<1>7. CASE Quiet(seq, 1, Len(seq) + 1) /\ e.done
  <2>1. next.over
    BY <1>7
  <2> QED
    BY <1>4, <1>5, <1>7, <2>1 DEF Alone, new
<1>8. CASE ~Quiet(seq, 1, Len(seq) + 1)
  <2>1. next.over
    BY <1>8 DEF Alone
  <2> QED
    BY <1>4, <1>5, <1>8, <2>1 DEF Alone, new
<1> QED
  BY <1>6, <1>7, <1>8

LEMMA SingleParts ==
  ASSUME NEW s \in Stages
  PROVE  Single(s) <=>
           /\ OneEpisode(InFlight(s)) /\ (batch # None => OneEpisode(batch.slots[s]))
           /\ pc # "raised" => buffer[s] = <<>>
           /\ run # Idle => Alone(run.slots[s], sims[Pool(run.kind)][s])
BY DEF Single, Alone

LEMMA SinglePartsNext ==
  ASSUME NEW s \in Stages
  PROVE  Single(s)' <=>
           /\ OneEpisode(InFlight(s)') /\ (batch' # None => OneEpisode(batch'.slots[s]))
           /\ pc' # "raised" => buffer'[s] = <<>>
           /\ run' # Idle => Alone(run'.slots[s], sims'[Pool(run.kind)'][s])
BY DEF Single, Alone

LEMMA StageKeepsSingle ==
  ASSUME IInv, NEW t \in Stages, run # Idle, StageFrame, ~cfg.auto,
         NEW done \in BOOLEAN, NEW slot, NEW next, StageMoves(t, done, slot, next), NEW s \in Stages
  PROVE  Single(s)'
<1> USE DEF StageFrame
<1>t. TypeOK /\ Exclusive /\ Single(s)
  BY DEF IInv
<1> DEFINE sim == sims[Pool(run.kind)][t]
<1>0. /\ slot \in Slot /\ run' \in Runs /\ run'.kind = run.kind /\ run' # Idle
      /\ \A r \in Stages : run'.slots[r] = IF r = t THEN Append(run.slots[t], slot) ELSE run.slots[r]
      /\ \A m \in Modes : \A r \in Stages : sims'[m][r] = IF m = Pool(run.kind) /\ r = t THEN next ELSE sims[m][r]
      /\ Pool(run.kind) \in Modes /\ run.slots[t] \in Seq(Slot) /\ Pool(run.kind)' = Pool(run.kind)
  BY <1>t, RunSlots, RunParts DEF StageMoves, Modes, Pool
<1>1. Alone(run.slots[s], sims[Pool(run.kind)][s])
  BY <1>t, SingleParts
<1>2. Alone(run'.slots[s], sims'[Pool(run.kind)][s])
  <2>1. CASE s # t
    <3>1. run'.slots[s] = run.slots[s] /\ sims'[Pool(run.kind)][s] = sims[Pool(run.kind)][s]
      BY <1>0, <2>1
    <3> QED
      BY <1>1, <3>1
  <2>2. CASE s = t
    <3>1. run'.slots[s] = Append(run.slots[t], slot) /\ sims'[Pool(run.kind)][s] = next
      BY <1>0, <2>2
    <3>2. /\ slot.n = sim.n /\ slot.ep = sim.ep
          /\ sim.over => ~slot.done /\ next = sim
          /\ ~sim.over /\ ~slot.done => next.ep = sim.ep /\ next.n = sim.n + 1 /\ ~next.over
          /\ slot.done => next.over
      BY DEF StageMoves
    <3>3. Alone(run.slots[t], sim)
      BY <1>1, <2>2
    <3> HIDE DEF sim
    <3>4. Alone(Append(run.slots[t], slot), next)
      BY <1>0, <3>2, <3>3, PlayedAlone
    <3> QED
      BY <3>1, <3>4
  <2> QED
    BY <2>1, <2>2
<1>3. OneEpisode(InFlight(s)')
  <2>1. InFlight(s)' = InFlight(s) \/ InFlight(s)' = run'.slots[s]
    BY <1>0 DEF InFlight
  <2>2. OneEpisode(run'.slots[s]) /\ OneEpisode(InFlight(s))
    BY <1>t, <1>2, SingleParts DEF Alone
  <2> QED
    BY <2>1, <2>2
<1>4. (batch # None => OneEpisode(batch.slots[s])) /\ (pc # "raised" => buffer[s] = <<>>)
  BY <1>t, SingleParts
<1> QED
  BY <1>0, <1>2, <1>3, <1>4, SinglePartsNext

LEMMA StageKeeps ==
  ASSUME IInv, NEW t \in Stages, StageStep(t)
  PROVE  IInv'
<1>1. run # Idle /\ StageFrame /\ TypeOK /\ AllInBounds(sims) /\ StartsRight
  BY BoundsOf DEF StageStep, StageFrame, IInv
<1>2. PICK done \in BOOLEAN : \E slot, next : StageMoves(t, done, slot, next)
  BY <1>1, StageEffect
<1>3. PICK slot, next : StageMoves(t, done, slot, next)
  BY <1>2
<1>4. /\ TypeOK' /\ Exclusive' /\ Ledger' /\ Versions' /\ SimBounds' /\ StartsRight' /\ FreshObs'
  BY <1>1, <1>3, StageKeepsRest
<1>5. cfg' = cfg
  BY <1>1 DEF StageFrame
<1>6. ASSUME NEW s \in Stages PROVE IF cfg.auto THEN Stream(s)' ELSE Single(s)'
  BY <1>1, <1>3, StageKeepsStream, StageKeepsSingle
<1> QED
  BY <1>4, <1>5, <1>6 DEF IInv

---------------------------------------------------------------------------
(* A rollout is started, or handed to the trainer                          *)

LEMMA EmptyLane ==
  /\ <<>> \in Seq(Slot) /\ Len(<<>>) = 0
  /\ InSequence(<<>>) /\ Bounded(<<>>) /\ Ends(<<>>) = {} /\ OneEpisode(<<>>)
  /\ \A x : Linked(<<>>, x) /\ Opens(<<>>, x) = x
  /\ \A sim, carry, exact : (exact => sim.n = carry) => Playing(<<>>, sim, carry, exact)
  /\ \A sim : ~sim.over /\ sim.n = 0 => Alone(<<>>, sim)
<1>1. <<>> \in Seq(Slot) /\ Len(<<>>) = 0
  OBVIOUS
<1>2. InSequence(<<>>) /\ Bounded(<<>>) /\ Ends(<<>>) = {} /\ OneEpisode(<<>>)
  BY <1>1 DEF InSequence, Bounded, Ends, OneEpisode
<1>3. \A x : Linked(<<>>, x) /\ Opens(<<>>, x) = x
  BY DEF Linked, Opens
<1>4. \A sim, carry, exact : (exact => sim.n = carry) => Playing(<<>>, sim, carry, exact)
  BY <1>2, <1>3 DEF Playing
<1>5. Quiet(<<>>, 1, Len(<<>>) + 1)
  BY <1>1 DEF Quiet
<1>6. \A sim : ~sim.over /\ sim.n = 0 => Alone(<<>>, sim)
  BY <1>1, <1>2, <1>5 DEF Alone
<1> QED
  BY <1>1, <1>2, <1>3, <1>4, <1>6

\* Handing over the rollout in flight leaves the lane as it is.
LEMMA FlowJoined ==
  ASSUME NEW f \in Seq(Slot), NEW h \in Seq(Slot), NEW x, NEW unbroken, NEW linked, NEW first,
         Flow(f, h, x, unbroken, linked, first), unbroken => linked
  PROVE  Flow(<<>>, h \o f, x, unbroken, linked, first)
<1>1. /\ InSequence(f) /\ Bounded(f) /\ Bounded(h)
      /\ unbroken => InSequence(h)
      /\ linked => Linked(f, x) /\ Linked(h, Opens(f, x))
      /\ first => Opens(h, Opens(f, x)).n = 0
  BY DEF Flow
<1>2. /\ Bounded(h) /\ Bounded(f) => Bounded(h \o f)
      /\ Opens(h \o f, x) = Opens(h, Opens(f, x))
      /\ Linked(h, Opens(f, x)) /\ Linked(f, x) => Linked(h \o f, x)
      /\ Linked(h, Opens(f, x)) /\ InSequence(h) /\ InSequence(f) => InSequence(h \o f)
  BY Joined
<1>3. InSequence(<<>>) /\ Bounded(<<>>) /\ Linked(<<>>, x) /\ Opens(<<>>, x) = x
  BY EmptyLane
<1> QED
  BY <1>1, <1>2, <1>3 DEF Flow

\* A training rollout that starts where the simulators are.
Launched(st) ==
  /\ launched' = launched + 1
  /\ sims' \in [Modes -> [Stages -> Sim]] /\ AllInBounds(sims')
  /\ Begun("train", launched + 1, st.carry)
  /\ \A s \in Stages :
       /\ sims'["train"][s].ep > 0
       /\ cfg.auto /\ Current(st) => sims'["train"][s] = sims["train"][s]
       /\ ~cfg.auto \/ ~Current(st) => sims'["train"][s].n = 0 /\ ~sims'["train"][s].over
       /\ cfg.auto /\ evals = 0 => sims'["train"][s].n = st.carry[s]

LEMMA LaunchFacts ==
  ASSUME IInv, NEW st \in StateType, Launch(st), (Untouched /\ st = state) \/ Current(st)
  PROVE  Launched(st)
<1>1. TypeOK /\ AllInBounds(sims)
  BY BoundsOf DEF IInv
<1> QED
  BY <1>1, LaunchEffect DEF Launched

LEMMA StateTypes ==
  ASSUME TypeOK
  PROVE  /\ state \in StateType
         /\ ready # None => ready \in Batches /\ ready.state \in StateType
         /\ finished # None => finished \in Batches /\ finished.state \in StateType
<1>1. state \in StateType /\ IsBatch(ready) /\ IsBatch(finished)
  BY DEF TypeOK, StateType
<1> QED
  BY <1>1, BatchParts DEF IsBatch, StateType

\* What holds of the simulators and the run once it is launched.
LEMMA LaunchKeepsRun ==
  ASSUME TypeOK, NEW st, Launched(st), cfg' = cfg, evals' = evals
  PROVE  /\ run' \in Runs /\ run' # Idle /\ run'.kind = "train" /\ run'.id = launched + 1
         /\ \A s \in Stages : run'.slots[s] = <<>> /\ Len(run'.slots[s]) = 0
         /\ sims' \in [Modes -> [Stages -> [ep : 0..EpisodeIds, n : Nat, over : BOOLEAN]]]
         /\ SimBounds' /\ StartsRight' /\ FreshObs' /\ OneVersion'
         /\ \A s \in Stages :
              /\ TrainSim(s)' = sims'["train"][s] /\ Pool(run.kind)' = "train"
              /\ cfg.auto => Playing(run'.slots[s], sims'["train"][s], run'.carry[s], evals = 0)
              /\ ~cfg.auto => Alone(run'.slots[s], sims'["train"][s])
<1>1. /\ run' \in Runs /\ run' # Idle /\ run'.kind = "train" /\ run'.id = launched + 1 /\ run'.carry = st.carry
      /\ \A s \in Stages : run'.slots[s] = <<>> /\ run'.obs[s] = Shown(sims'["train"][s])
  BY RunSlots, PoolType DEF Launched, Begun
<1>2. \A s \in Stages : Len(run'.slots[s]) = 0 /\ DOMAIN run'.slots[s] = {}
  BY <1>1
<1>3. sims' \in [Modes -> [Stages -> [ep : 0..EpisodeIds, n : Nat, over : BOOLEAN]]]
  BY DEF Launched, Sim
<1>4. Pool(run.kind)' = "train" /\ \A s \in Stages : TrainSim(s)' = sims'["train"][s]
  BY <1>1 DEF Pool, TrainSim
<1>5. SimBounds'
  <2>1. AllInBounds(sims')
    BY DEF Launched
  <2> QED
    BY <2>1 DEF SimBounds, AllInBounds, InBounds
<1>6. StartsRight'
  <2>1. \A s \in Stages : sims'["train"][s].ep > 0
    BY DEF Launched
  <2> QED
    BY <1>1, <1>4, <2>1 DEF StartsRight
<1>7. FreshObs' /\ OneVersion'
  BY <1>2 DEF FreshObs, OneVersion
<1>8. ASSUME NEW s \in Stages
      PROVE  /\ cfg.auto => Playing(run'.slots[s], sims'["train"][s], run'.carry[s], evals = 0)
             /\ ~cfg.auto => Alone(run'.slots[s], sims'["train"][s])
  <2>1. /\ cfg.auto /\ evals = 0 => sims'["train"][s].n = st.carry[s]
        /\ ~cfg.auto => sims'["train"][s].n = 0 /\ ~sims'["train"][s].over
    BY DEF Launched
  <2>2. run'.slots[s] = <<>> /\ run'.carry[s] = st.carry[s]
    BY <1>1
  <2>3. ASSUME cfg.auto PROVE Playing(<<>>, sims'["train"][s], st.carry[s], evals = 0)
    <3>1. evals = 0 => sims'["train"][s].n = st.carry[s]
      BY <2>1, <2>3
    <3> QED
      BY <3>1, EmptyLane DEF Playing
  <2>4. ASSUME ~cfg.auto PROVE Alone(<<>>, sims'["train"][s])
    BY <2>1, <2>4, EmptyLane
  <2> QED
    BY <2>2, <2>3, <2>4
<1> QED
  BY <1>1, <1>2, <1>3, <1>4, <1>5, <1>6, <1>7, <1>8

LEMMA StreamHandedOn ==
  ASSUME IInv, cfg.auto, NEW s \in Stages, cfg' = cfg, evals' = evals, buffer' = buffer, batch = None,
         pc # "eval", pc' # "eval", InFlight(s)' = <<>>, Held(s)' = Held(s) \o InFlight(s),
         \/ run' = Idle /\ sims' = sims
         \/ \E st : Launched(st) /\ ((Untouched /\ InFlight(s) = <<>>) \/ Current(st))
  PROVE  Stream(s)'
<1>t. TypeOK /\ Stream(s)
  BY DEF IInv
<1>0. /\ InFlight(s) \in Seq(Slot) /\ Held(s) \in Seq(Slot) /\ TrainSim(s) = sims["train"][s]
      /\ Unbroken' = Unbroken /\ LinkedNow = Unbroken /\ LinkedNow' = Unbroken
      /\ TrainSim(s)' = sims'["train"][s]
  BY <1>t, LaneParts DEF Unbroken, LinkedNow, TrainSim, Pool
<1>1. Flow(InFlight(s), Held(s), TrainSim(s), Unbroken, Unbroken, evals = 0) /\ Ends(buffer[s]) = {}
  BY <1>t, <1>0, StreamParts
<1>2. Flow(<<>>, Held(s) \o InFlight(s), TrainSim(s), Unbroken, Unbroken, evals = 0)
  <2>1. PICK first \in BOOLEAN : first = (evals = 0)
    OBVIOUS
  <2>2. PICK unbroken \in BOOLEAN : unbroken = Unbroken
    BY DEF Unbroken
  <2>3. Flow(<<>>, Held(s) \o InFlight(s), TrainSim(s), unbroken, unbroken, first)
    BY <1>0, <1>1, <2>1, <2>2, FlowJoined
  <2> QED
    BY <2>1, <2>2, <2>3
<1>3. CASE run' = Idle /\ sims' = sims
  <2>1. TrainSim(s)' = TrainSim(s)
    BY <1>0, <1>3
  <2> QED
    BY <1>0, <1>1, <1>2, <1>3, <2>1, StreamPartsNext
<1>4. ASSUME NEW st, Launched(st), (Untouched /\ InFlight(s) = <<>>) \/ Current(st)
      PROVE  Stream(s)'
  <2>1. /\ Pool(run.kind)' = "train" /\ run'.kind = "train"
        /\ Playing(run'.slots[s], sims'["train"][s], run'.carry[s], evals = 0)
    BY <1>t, <1>4, LaunchKeepsRun
  <2>2. Flow(<<>>, Held(s)', TrainSim(s)', Unbroken, Unbroken, evals = 0)
    <3>1. CASE Current(st)
      <4>1. sims'["train"][s] = sims["train"][s]
        BY <1>4, <3>1 DEF Launched
      <4> QED
        BY <1>0, <1>2, <4>1
    <3>2. CASE ~Current(st)
      <4>1. buffer[s] = <<>> /\ InFlight(s) = <<>>
        BY <1>4, <3>2 DEF Untouched
      <4>2. sims'["train"][s].n = 0
        BY <1>4, <3>2 DEF Launched
      <4>3. Held(s)' = <<>>
        BY <4>1 DEF Held
      <4> QED
        BY <1>0, <4>2, <4>3, EmptyLane DEF Flow
    <3> QED
      BY <3>1, <3>2
  <2>3. Playing(run'.slots[s], sims'[Pool(run.kind)'][s], run'.carry[s], run'.kind = "eval" \/ evals' = 0)
    BY <2>1
  <2> QED
    BY <1>0, <1>1, <2>2, <2>3, StreamPartsNext
<1> QED
  BY <1>3, <1>4

LEMMA SingleHandedOn ==
  ASSUME IInv, ~cfg.auto, NEW s \in Stages, cfg' = cfg, evals' = evals, buffer' = buffer,
         pc # "raised", InFlight(s)' = <<>>,
         batch' # None => batch'.slots[s] = InFlight(s),
         run' = Idle \/ \E st : Launched(st)
  PROVE  Single(s)'
<1>t. TypeOK /\ Single(s)
  BY DEF IInv
<1>1. OneEpisode(InFlight(s)) /\ buffer[s] = <<>> /\ OneEpisode(<<>>)
  BY <1>t, SingleParts, EmptyLane
<1>2. run' # Idle => Alone(run'.slots[s], sims'[Pool(run.kind)'][s])
  BY <1>t, LaunchKeepsRun
<1> QED
  BY <1>1, <1>2, SinglePartsNext

\* The two ways a rollout begins at a call of the trainer.
LEMMA SyncKeeps ==
  ASSUME IInv, RolloutSync
  PROVE  IInv'
<1>t. TypeOK /\ Exclusive /\ Ledger /\ Versions /\ StartsRight
  BY DEF IInv
<1>0. /\ pc = "step" /\ ~cfg.async /\ served' = version /\ Launch(state) /\ pc' = "collect"
      /\ UNCHANGED <<cfg, version, state, finished, ready, batch, buffer, evaluated,
                     back, calls, taken, steps, evals>>
  BY DEF RolloutSync
<1>1. ~Pending /\ run = Idle /\ finished = None /\ ready = None /\ batch = None
  <2>1. ~Pending /\ run.kind # "eval" /\ batch = None
    BY <1>t, <1>0 DEF Exclusive, TypeOK
  <2> QED
    BY <1>t, <2>1, Kinds DEF Pending
<1>2. Launched(state) /\ (Untouched \/ Current(state))
  BY <1>t, <1>0, <1>1, LaunchFacts, StateTypes DEF StartsRight
<1>3. /\ run' \in Runs /\ run' # Idle /\ run'.kind = "train" /\ run'.id = launched + 1
      /\ \A s \in Stages : run'.slots[s] = <<>> /\ Len(run'.slots[s]) = 0
      /\ sims' \in [Modes -> [Stages -> [ep : 0..EpisodeIds, n : Nat, over : BOOLEAN]]]
      /\ SimBounds' /\ StartsRight' /\ FreshObs' /\ OneVersion' /\ launched' = launched + 1
  BY <1>t, <1>0, <1>2, LaunchKeepsRun DEF Launched
<1>4. TypeOK'
  BY <1>t, <1>0, <1>1, <1>3, RolloutAssumption DEF TypeOK, IsBatch
<1>5. Exclusive'
  BY <1>t, <1>0, <1>1, <1>3 DEF Exclusive
<1>6. Ledger'
  BY <1>t, <1>0, <1>1, <1>3 DEF Ledger, EachBatchOnce, Pending
<1>7. Versions'
  BY <1>t, <1>0, <1>1, <1>3 DEF Versions, PolicyLag, Serving
<1>8. ASSUME NEW s \in Stages PROVE IF cfg.auto THEN Stream(s)' ELSE Single(s)'
  <2>1. InFlight(s) = <<>> /\ InFlight(s)' = <<>>
    BY <1>0, <1>1, <1>3 DEF InFlight, Pending
  <2>2. Held(s)' = Held(s) \o InFlight(s)
    <3>1. Held(s)' = buffer[s] /\ Held(s) = buffer[s]
      BY <1>0, <1>1 DEF Held
    <3>2. buffer[s] \in Seq(Slot)
      BY <1>t, LaneParts
    <3> QED
      BY <2>1, <3>1, <3>2, ConcatEmptySeq
  <2> QED
    BY <1>0, <1>1, <1>2, <2>1, <2>2, StreamHandedOn, SingleHandedOn
<1> QED
  BY <1>0, <1>3, <1>4, <1>5, <1>6, <1>7, <1>8 DEF IInv

\* The lanes are left alone.
LEMMA LanesFrame ==
  ASSUME IInv, cfg' = cfg, evals' = evals, sims' = sims, run' = run, ready' = ready, finished' = finished,
         buffer' = buffer, batch' = batch, (pc' = "eval") = (pc = "eval"), pc # "raised" \/ pc' = pc,
         NEW s \in Stages
  PROVE  IF cfg.auto THEN Stream(s)' ELSE Single(s)'
<1>1. InFlight(s)' = InFlight(s) /\ Held(s)' = Held(s) /\ TrainSim(s)' = TrainSim(s) /\ Pool(run.kind)' = Pool(run.kind)
  BY DEF InFlight, Held, Lane, TrainSim, Pool
<1>2. CASE cfg.auto
  <2>1. Stream(s)
    BY <1>2 DEF IInv
  <2> QED
    BY <1>1, <1>2, <2>1, StreamFrame
<1>3. CASE ~cfg.auto
  <2>1. Single(s)
    BY <1>3 DEF IInv
  <2>2. /\ OneEpisode(InFlight(s)) /\ (batch # None => OneEpisode(batch.slots[s]))
        /\ pc # "raised" => buffer[s] = <<>>
        /\ run # Idle => Alone(run.slots[s], sims[Pool(run.kind)][s])
    BY <2>1, SingleParts
  <2>3. /\ OneEpisode(InFlight(s)') /\ (batch' # None => OneEpisode(batch'.slots[s]))
        /\ pc' # "raised" => buffer'[s] = <<>>
        /\ run' # Idle => Alone(run'.slots[s], sims'[Pool(run.kind)'][s])
    BY <1>1, <2>2
  <2>4. Single(s)'
    BY <2>3, SinglePartsNext
  <2> QED
    BY <1>3, <2>4
<1> QED
  BY <1>2, <1>3

LEMMA AsyncKeeps ==
  ASSUME IInv, RolloutAsync
  PROVE  IInv'
<1>t. TypeOK /\ Exclusive /\ Ledger /\ Versions /\ StartsRight /\ SimBounds /\ FreshObs
  BY DEF IInv
<1>0. /\ pc = "step" /\ cfg.async /\ ready = None /\ pc' = "collect"
      /\ IF run = Idle /\ finished = None THEN Launch(state) ELSE UNCHANGED <<sims, run, launched>>
      /\ UNCHANGED <<cfg, version, served, state, finished, ready, batch, buffer,
                     evaluated, back, calls, taken, steps, evals>>
  BY DEF RolloutAsync
<1>a. batch = None
  BY <1>t, <1>0 DEF TypeOK
<1>1. CASE run = Idle /\ finished = None
  <2>1. ~Pending
    BY <1>t, <1>0, <1>1, Kinds DEF Pending
  <2>2. Launched(state) /\ (Untouched \/ Current(state))
    BY <1>t, <1>0, <1>1, LaunchFacts, StateTypes DEF StartsRight
  <2>3. /\ run' \in Runs /\ run' # Idle /\ run'.kind = "train" /\ run'.id = launched + 1
        /\ \A s \in Stages : run'.slots[s] = <<>> /\ Len(run'.slots[s]) = 0
        /\ sims' \in [Modes -> [Stages -> [ep : 0..EpisodeIds, n : Nat, over : BOOLEAN]]]
        /\ SimBounds' /\ StartsRight' /\ FreshObs' /\ OneVersion' /\ launched' = launched + 1
    BY <1>t, <1>0, <2>2, LaunchKeepsRun DEF Launched
  <2>4. TypeOK'
    BY <1>t, <1>a, <1>0, <1>1, <2>3, RolloutAssumption DEF TypeOK, IsBatch
  <2>5. Exclusive'
    BY <1>t, <1>0, <1>1, <2>1, <2>3 DEF Exclusive
  <2>6. Ledger'
    BY <1>t, <1>0, <1>1, <2>1, <2>3 DEF Ledger, EachBatchOnce, Pending
  <2>7. Versions'
    BY <1>t, <1>0, <1>1, <2>3 DEF Versions, PolicyLag
  <2>8. ASSUME NEW s \in Stages PROVE IF cfg.auto THEN Stream(s)' ELSE Single(s)'
    <3>1. InFlight(s) = <<>> /\ InFlight(s)' = <<>>
      BY <1>0, <1>1, <2>1, <2>3 DEF InFlight, Pending
    <3>2. Held(s)' = Held(s) \o InFlight(s)
      <4>1. Held(s)' = buffer[s] /\ Held(s) = buffer[s]
        BY <1>0, <1>a DEF Held
      <4>2. buffer[s] \in Seq(Slot)
        BY <1>t, LaneParts
      <4> QED
        BY <3>1, <4>1, <4>2, ConcatEmptySeq
    <3> QED
      BY <1>0, <1>a, <2>2, <3>1, <3>2, StreamHandedOn, SingleHandedOn
  <2> QED
    BY <1>0, <2>3, <2>4, <2>5, <2>6, <2>7, <2>8 DEF IInv
<1>2. CASE ~(run = Idle /\ finished = None)
  <2>1. UNCHANGED <<sims, run, launched>>
    BY <1>0, <1>2
  <2>2. TypeOK'
    BY <1>t, <1>a, <1>0, <2>1 DEF TypeOK, IsBatch
  <2>3. Exclusive'
    BY <1>t, <1>0, <2>1 DEF Exclusive
  <2>4. Ledger'
    BY <1>t, <1>0, <2>1 DEF Ledger, EachBatchOnce, Pending
  <2>5. Versions'
    BY <1>t, <1>0, <2>1 DEF Versions, PolicyLag, OneVersion, Serving, VersionsIn
  <2>6. SimBounds'
    BY <1>t, <1>0, <2>1 DEF SimBounds
  <2>7. StartsRight'
    BY <1>t, <1>0, <2>1 DEF StartsRight, Untouched, Current, TrainSim, Pool, Observed, NoCarry
  <2>8. FreshObs'
    BY <1>t, <1>0, <2>1 DEF FreshObs
  <2>9. \A s \in Stages : IF cfg.auto THEN Stream(s)' ELSE Single(s)'
    BY <1>0, <2>1, LanesFrame
  <2> QED
    BY <1>0, <2>2, <2>3, <2>4, <2>5, <2>6, <2>7, <2>8, <2>9 DEF IInv
<1> QED
  BY <1>1, <1>2

---------------------------------------------------------------------------
(* The trainer takes a batch                                               *)

LEMMA ReadyKeeps ==
  ASSUME IInv, RolloutReady
  PROVE  IInv'
<1>t. TypeOK /\ Exclusive /\ Ledger /\ Versions /\ StartsRight
  BY DEF IInv
<1>0. /\ pc = "step" /\ cfg.async /\ ready # None /\ ready' = None
      /\ batch' = ready /\ taken' = taken + 1 /\ state' = state
      /\ calls' = <<calls[2], version>> /\ pc' = "ingest" /\ served' = version /\ Launch(state)
      /\ UNCHANGED <<cfg, version, finished, buffer, evaluated, back, steps, evals>>
  BY DEF RolloutReady, Took
<1>1. /\ Pending /\ run = Idle /\ finished = None /\ batch = None /\ ready \in Batches /\ launched > 0 /\ ready.id = launched
      /\ launched = taken + 1 /\ calls \in Nat \X Nat
  <2>1. Pending /\ run.kind # "eval" /\ run.kind # "train" /\ batch = None /\ finished = None
    BY <1>t, <1>0 DEF Exclusive, TypeOK, Pending
  <2>2. ready \in Batches /\ ready.id = launched /\ launched = taken + 1
    BY <1>t, <1>0, <2>1, StateTypes DEF Ledger
  <2>3. launched > 0
    BY <2>2, BatchParts
  <2> QED
    BY <1>t, <2>1, <2>2, <2>3, Kinds DEF TypeOK
<1>2. Launched(state) /\ Current(state)
  <2>1. ~Untouched
    BY <1>1 DEF Untouched
  <2>2. Current(state)
    BY <1>t, <1>1, <2>1 DEF StartsRight
  <2> QED
    BY <1>t, <1>0, <2>2, LaunchFacts, StateTypes
<1>3. /\ run' \in Runs /\ run' # Idle /\ run'.kind = "train" /\ run'.id = launched + 1
      /\ \A s \in Stages : run'.slots[s] = <<>> /\ Len(run'.slots[s]) = 0
      /\ sims' \in [Modes -> [Stages -> [ep : 0..EpisodeIds, n : Nat, over : BOOLEAN]]]
      /\ SimBounds' /\ StartsRight' /\ FreshObs' /\ OneVersion' /\ launched' = launched + 1
  BY <1>t, <1>0, <1>2, LaunchKeepsRun DEF Launched
<1>4. TypeOK'
  <2>1. IsBatch(batch') /\ IsBatch(None) /\ batch' # None
    BY <1>t, <1>0 DEF TypeOK, IsBatch
  <2>2. calls' \in Nat \X Nat /\ served' \in 0..version' /\ version' \in Nat
    BY <1>t, <1>0, <1>1 DEF TypeOK
  <2> QED
    BY <1>t, <1>0, <1>1, <1>3, <2>1, <2>2, RolloutAssumption DEF TypeOK
<1>5. Exclusive'
  BY <1>t, <1>0, <1>1, <1>3 DEF Exclusive
<1>6. Ledger'
  BY <1>t, <1>0, <1>1, <1>3 DEF Ledger, EachBatchOnce, Pending, TypeOK
<1>7. Versions'
  <2>1. calls'[1] = calls[2] /\ calls'[2] = version
    BY <1>0
  <2>2. VersionsIn(ready.slots, calls[2]..version)
    BY <1>t, <1>0 DEF Versions
  <2>3. PolicyLag'
    BY <1>0, <2>1, <2>2 DEF PolicyLag, VersionsIn
  <2>4. version <= version
    BY <1>t, Kinds
  <2> QED
    BY <1>0, <1>1, <1>3, <2>1, <2>3, <2>4 DEF Versions
<1>8. ASSUME NEW s \in Stages PROVE IF cfg.auto THEN Stream(s)' ELSE Single(s)'
  <2>1. InFlight(s) = ready.slots[s] /\ InFlight(s)' = <<>>
    BY <1>0, <1>1, <1>3 DEF InFlight
  <2>2. Held(s)' = Held(s) \o InFlight(s)
    BY <1>0, <1>1, <2>1 DEF Held, Lane
  <2> QED
    BY <1>0, <1>1, <1>2, <2>1, <2>2, StreamHandedOn, SingleHandedOn
<1> QED
  BY <1>0, <1>3, <1>4, <1>5, <1>6, <1>7, <1>8 DEF IInv

LEMMA ReceiveKeeps ==
  ASSUME IInv, Receive
  PROVE  IInv'
<1>t. TypeOK /\ Exclusive /\ Ledger /\ Versions /\ StartsRight /\ SimBounds
  BY DEF IInv
<1>0. /\ pc = "collect" /\ finished # None /\ finished' = None
      /\ batch' = finished /\ taken' = taken + 1 /\ state' = finished.state
      /\ calls' = <<calls[2], version>> /\ pc' = "ingest"
      /\ IF cfg.async THEN served' = version /\ Launch(finished.state)
                      ELSE UNCHANGED <<served, sims, run, launched>>
      /\ UNCHANGED <<cfg, version, ready, buffer, evaluated, back, steps, evals>>
  BY DEF Receive, Took
<1>1. /\ Pending /\ run = Idle /\ ready = None /\ batch = None /\ finished \in Batches /\ launched > 0
      /\ finished.id = launched /\ launched = taken + 1 /\ calls \in Nat \X Nat /\ finished.state \in StateType
  <2>1. Pending /\ run = Idle /\ batch = None /\ ready = None
    BY <1>t, <1>0 DEF TypeOK, Pending
  <2>2. finished \in Batches /\ finished.id = launched /\ launched = taken + 1 /\ finished.state \in StateType
    BY <1>t, <1>0, <2>1, StateTypes DEF Ledger
  <2>3. launched > 0
    BY <2>2, BatchParts
  <2> QED
    BY <1>t, <2>1, <2>2, <2>3 DEF TypeOK
<1>2. Current(finished.state)
  BY <1>t, <1>0, <1>1 DEF StartsRight, Untouched
<1>3. cfg.async => Launched(finished.state)
  BY <1>t, <1>0, <1>1, <1>2, LaunchFacts
<1>4. cfg.async =>
        /\ run' \in Runs /\ run' # Idle /\ run'.kind = "train" /\ run'.id = launched + 1
        /\ \A s \in Stages : run'.slots[s] = <<>> /\ Len(run'.slots[s]) = 0
        /\ sims' \in [Modes -> [Stages -> [ep : 0..EpisodeIds, n : Nat, over : BOOLEAN]]]
        /\ SimBounds' /\ StartsRight' /\ FreshObs' /\ OneVersion' /\ launched' = launched + 1
  BY <1>t, <1>0, <1>3, LaunchKeepsRun DEF Launched
<1>5. ~cfg.async => /\ UNCHANGED <<served, sims, run, launched>> /\ run' = Idle
  BY <1>0, <1>1
<1>6. TypeOK'
  <2>1. IsBatch(batch') /\ IsBatch(None) /\ batch' # None
    BY <1>t, <1>0 DEF TypeOK, IsBatch
  <2>2. calls' \in Nat \X Nat /\ served' \in 0..version' /\ version' \in Nat
    BY <1>t, <1>0, <1>1 DEF TypeOK
  <2>3. /\ run' \in {Idle} \cup Runs
        /\ run' # Idle => \A s \in Stages : Len(run'.slots[s]) <= Window
        /\ sims' \in [Modes -> [Stages -> [ep : 0..EpisodeIds, n : Nat, over : BOOLEAN]]]
        /\ launched' \in Nat
    <3>0. launched \in Nat /\ 0 <= Window
      BY <1>t, RolloutAssumption DEF TypeOK
    <3>1. CASE cfg.async
      <4>1. \A s \in Stages : Len(run'.slots[s]) <= Window
        BY <3>0, <3>1, <1>4
      <4> QED
        BY <3>0, <3>1, <1>4, <4>1
    <3>2. CASE ~cfg.async
      <4>1. sims \in [Modes -> [Stages -> [ep : 0..EpisodeIds, n : Nat, over : BOOLEAN]]]
        BY <1>t DEF TypeOK
      <4> QED
        BY <3>0, <3>2, <1>5, <4>1
    <3> QED
      BY <3>1, <3>2
  <2>4. state' \in [obs : {<<>>} \cup [Stages -> Obs], carry : Carries]
    BY <1>0, <1>1 DEF StateType
  <2> QED
    BY <1>t, <1>0, <1>1, <2>1, <2>2, <2>3, <2>4 DEF TypeOK
<1>7. Pending' <=> cfg.async
  BY <1>0, <1>1, <1>4, <1>5 DEF Pending, Idle
<1>8. Exclusive'
  BY <1>t, <1>0, <1>1, <1>4, <1>5, <1>7 DEF Exclusive, Idle
<1>9. Ledger'
  BY <1>t, <1>0, <1>1, <1>4, <1>5, <1>7 DEF Ledger, EachBatchOnce, TypeOK, Idle
<1>10. Versions'
  <2>1. calls'[1] = calls[2] /\ calls'[2] = version
    BY <1>0
  <2>2. VersionsIn(finished.slots, IF cfg.async THEN calls[2]..version ELSE {version})
    BY <1>t, <1>0 DEF Versions
  <2>3. PolicyLag'
    BY <1>0, <2>1, <2>2 DEF PolicyLag, VersionsIn
  <2>4. version <= version
    BY <1>t, Kinds
  <2>5. OneVersion'
    BY <1>4, <1>5 DEF OneVersion
  <2> QED
    BY <1>0, <1>1, <1>4, <1>5, <2>1, <2>3, <2>4, <2>5 DEF Versions, Idle
<1>11. SimBounds'
  BY <1>t, <1>0, <1>4, <1>5 DEF SimBounds
<1>12. StartsRight'
  <2>1. CASE cfg.async
    BY <1>4, <2>1
  <2>2. CASE ~cfg.async
    <3>1. Current(state)'
      BY <1>0, <1>2, <1>5, <2>2 DEF Current, Observed, TrainSim, Pool
    <3>2. \A s \in Stages : TrainSim(s)'.ep > 0
      BY <3>1 DEF Current
    <3> QED
      BY <1>0, <1>5, <2>2, <3>1, <3>2 DEF StartsRight
  <2> QED
    BY <2>1, <2>2
<1>13. FreshObs'
  BY <1>4, <1>5 DEF FreshObs
<1>14. ASSUME NEW s \in Stages PROVE IF cfg.auto THEN Stream(s)' ELSE Single(s)'
  <2>1. InFlight(s) = finished.slots[s] /\ InFlight(s)' = <<>>
    BY <1>0, <1>1, <1>4, <1>5 DEF InFlight, Idle
  <2>2. Held(s)' = Held(s) \o InFlight(s)
    BY <1>0, <1>1, <2>1 DEF Held, Lane
  <2>3. \/ run' = Idle /\ sims' = sims
        \/ \E st : Launched(st) /\ ((Untouched /\ InFlight(s) = <<>>) \/ Current(st))
    BY <1>2, <1>3, <1>5
  <2> QED
    BY <1>0, <1>1, <2>1, <2>2, <2>3, StreamHandedOn, SingleHandedOn
<1> QED
  BY <1>0, <1>6, <1>8, <1>9, <1>10, <1>11, <1>12, <1>13, <1>14 DEF IInv

---------------------------------------------------------------------------
(* The trainer updates the actor                                           *)

LEMMA NothingInFlight ==
  ASSUME TypeOK, Exclusive, ~cfg.async, pc \notin {"collect", "eval"}
  PROVE  ~Pending /\ run = Idle /\ finished = None /\ ready = None
<1>1. ~Pending /\ run.kind # "eval"
  BY DEF Exclusive
<1> QED
  BY <1>1, Kinds DEF Pending

LEMMA UpdateKeepsVersions ==
  ASSUME TypeOK, Exclusive, Versions, pc \in {"ingest", "step"}, pc' # "ingest",
         version' \in {version, version + 1},
         UNCHANGED <<cfg, served, run, finished, ready, calls>>
  PROVE  Versions'
<1>0. version \in Nat /\ version <= version' /\ version' \in Nat /\ calls[2] \in Nat /\ served \in Nat
  BY Kinds DEF TypeOK
<1>1. PolicyLag'
  BY DEF PolicyLag
<1>2. CASE cfg.async
  <2>1. OneVersion'
    BY <1>2 DEF Versions, OneVersion, Serving, TypeOK, Configs
  <2>2. \A v \in calls[2]..version : v \in calls[2]..version'
    BY <1>0
  <2> QED
    BY <1>1, <1>2, <2>1, <2>2 DEF Versions, VersionsIn
<1>3. CASE ~cfg.async
  <2>1. run = Idle /\ finished = None
    BY <1>3, NothingInFlight
  <2> QED
    BY <1>1, <1>3, <2>1 DEF Versions, OneVersion, Idle
<1> QED
  BY <1>2, <1>3

\* What the buffer keeps is still what the next batch goes on from.
LEMMA FlowRest ==
  ASSUME NEW f \in Seq(Slot), NEW h \in Seq(Slot), NEW x, NEW unbroken, NEW linked, NEW first,
         Flow(f, h, x, unbroken, linked, first), first => unbroken /\ linked
  PROVE  Flow(f, Remainder(h), x, unbroken, linked, first)
<1>1. /\ Bounded(h) => Bounded(Remainder(h))
      /\ InSequence(h) => InSequence(Remainder(h))
      /\ Linked(h, Opens(f, x)) => Linked(Remainder(h), Opens(f, x))
      /\ InSequence(h) /\ Linked(h, Opens(f, x)) /\ Opens(h, Opens(f, x)).n = 0
           => Opens(Remainder(h), Opens(f, x)).n = 0
  BY RemainderStream
<1> QED
  BY <1>1, Zenon DEF Flow

LEMMA TrainKeeps ==
  ASSUME IInv, Train
  PROVE  IInv'
<1>t. TypeOK /\ Exclusive /\ Ledger /\ Versions /\ StartsRight /\ SimBounds /\ FreshObs
  BY DEF IInv
<1>0. /\ pc = "ingest" /\ batch' = None /\ buffer' = [s \in Stages |-> Rest(s)]
      /\ IF ~cfg.auto /\ \E s \in Stages : Rest(s) # <<>>
         THEN pc' = "raised" /\ UNCHANGED version
         ELSE version' = version + 1 /\ pc' = "test"
      /\ UNCHANGED <<cfg, served, sims, state, run, finished, ready, evaluated, back,
                     calls, launched, taken, steps, evals>>
  BY DEF Train, Updated
<1>1. /\ pc' \in {"test", "raised"} /\ version' \in {version, version + 1} /\ version' \in Nat
      /\ served' \in 0..version' /\ (cfg.auto => pc' = "test")
  BY <1>t, <1>0 DEF TypeOK
<1>2. batch # None /\ launched > 0
  <2>1. batch # None /\ batch.id = taken
    BY <1>t, <1>0 DEF TypeOK, Ledger, EachBatchOnce
  <2>2. batch.id \in Nat /\ batch.id > 0
    BY <1>t, <2>1, BatchParts DEF TypeOK, IsBatch
  <2>3. launched \in Nat /\ taken \in Nat /\ (launched = taken \/ launched = taken + 1)
    BY <1>t DEF TypeOK, Ledger
  <2> QED
    BY <2>1, <2>2, <2>3
<1>3. ASSUME NEW s \in Stages
      PROVE  /\ buffer'[s] = Remainder(Lane(s)) /\ Lane(s) \in Seq(Slot) /\ buffer'[s] \in Seq(Slot)
             /\ Ends(buffer'[s]) = {}
             /\ Held(s) = Lane(s) /\ Held(s)' = buffer'[s] /\ InFlight(s)' = InFlight(s)
             /\ InFlight(s) \in Seq(Slot) /\ TrainSim(s)' = TrainSim(s)
  <2>1. buffer'[s] = Remainder(Lane(s))
    BY <1>0 DEF Rest, Remainder
  <2>2. Lane(s) \in Seq(Slot) /\ InFlight(s) \in Seq(Slot)
    BY <1>t, <1>2, LaneParts
  <2>3. Remainder(Lane(s)) \in Seq(Slot) /\ Ends(Remainder(Lane(s))) = {}
    BY <2>2, AfterDone
  <2>4. Held(s) = Lane(s) /\ Held(s)' = buffer'[s]
    BY <1>0, <1>2 DEF Held
  <2>5. InFlight(s)' = InFlight(s) /\ TrainSim(s)' = TrainSim(s)
    BY <1>0 DEF InFlight, TrainSim, Pool
  <2> QED
    BY <2>1, <2>2, <2>3, <2>4, <2>5
<1>4. ASSUME cfg.auto, NEW s \in Stages
      PROVE  /\ Flow(InFlight(s), buffer'[s], TrainSim(s), Unbroken, LinkedNow, evals = 0)
             /\ Stream(s)
  <2>1. Stream(s)
    BY <1>4 DEF IInv
  <2>2. Flow(InFlight(s), Lane(s), TrainSim(s), Unbroken, LinkedNow, evals = 0)
    BY <1>3, <2>1, StreamParts
  <2>3. PICK first \in BOOLEAN : first = (evals = 0)
    OBVIOUS
  <2>4. PICK unbroken \in BOOLEAN : unbroken = Unbroken
    BY DEF Unbroken
  <2>5. PICK linked \in BOOLEAN : linked = LinkedNow
    BY DEF LinkedNow, Unbroken
  <2>6. first => unbroken /\ linked
    BY <1>0, <2>3, <2>4, <2>5 DEF Unbroken, LinkedNow
  <2>7. Flow(InFlight(s), Remainder(Lane(s)), TrainSim(s), unbroken, linked, first)
    BY <1>3, <2>2, <2>3, <2>4, <2>5, <2>6, FlowRest
  <2> QED
    BY <1>3, <2>1, <2>3, <2>4, <2>5, <2>7
<1>5. ASSUME cfg.auto, evals = 0, NEW s \in Stages
      PROVE  Len(buffer'[s]) < Horizon
  <2>1. Flow(InFlight(s), buffer'[s], TrainSim(s), TRUE, TRUE, TRUE)
    <3>1. Unbroken /\ LinkedNow
      BY <1>0, <1>5 DEF Unbroken, LinkedNow
    <3> QED
      BY <1>4, <1>5, <3>1 DEF Flow
  <2>2. /\ InSequence(buffer'[s]) /\ Bounded(buffer'[s])
        /\ buffer'[s] # <<>> => buffer'[s][1].n = 0
    BY <2>1 DEF Flow, Opens
  <2>3. buffer'[s] \in Seq(Slot) /\ Ends(buffer'[s]) = {}
    BY <1>3
  <2> QED
    BY <2>2, <2>3, UnfinishedIsShort
<1>6. TypeOK'
  <2>1. buffer' \in [Stages -> Seq(Slot)]
    <3>1. \A s \in Stages : buffer'[s] \in Seq(Slot)
      BY <1>3
    <3> QED
      BY <1>0, <3>1
  <2>2. IsBatch(batch') /\ IsBatch(finished') /\ IsBatch(ready')
    BY <1>t, <1>0 DEF TypeOK, IsBatch
  <2>3. pc' \in {"test", "step"} /\ cfg'.auto /\ evals' = 0 => \A s \in Stages : Len(buffer'[s]) < Horizon
    BY <1>0, <1>5
  <2> QED
    BY <1>t, <1>0, <1>1, <2>1, <2>2, <2>3 DEF TypeOK
<1>7. Exclusive'
  BY <1>t, <1>0, <1>1 DEF Exclusive, Pending
<1>8. Ledger'
  BY <1>t, <1>0, <1>1 DEF Ledger, EachBatchOnce, Pending
<1>9. Versions'
  BY <1>t, <1>0, <1>1, UpdateKeepsVersions
<1>10. SimBounds' /\ FreshObs'
  BY <1>t, <1>0 DEF SimBounds, FreshObs
<1>11. StartsRight'
  <2>1. run = Idle => Current(IF finished # None THEN finished.state ELSE state)
    BY <1>t, <1>2 DEF StartsRight, Untouched
  <2> QED
    BY <1>t, <1>0, <2>1 DEF StartsRight, Current, TrainSim, Pool, Observed
<1>12. ASSUME NEW s \in Stages, cfg.auto PROVE Stream(s)'
  <2>1. Unbroken' = Unbroken /\ LinkedNow' = LinkedNow /\ Pool(run.kind)' = Pool(run.kind)
    BY <1>0, <1>1 DEF Unbroken, LinkedNow, Pool
  <2>2. run # Idle => Playing(run.slots[s], sims[Pool(run.kind)][s], run.carry[s], run.kind = "eval" \/ evals = 0)
    BY <1>4, <1>12, StreamParts
  <2> QED
    BY <1>0, <1>3, <1>4, <1>12, <2>1, <2>2, StreamPartsNext
<1>13. ASSUME NEW s \in Stages, ~cfg.auto PROVE Single(s)'
  <2>1. Single(s)
    BY <1>13 DEF IInv
  <2>2. OneEpisode(InFlight(s)) /\ (run # Idle => Alone(run.slots[s], sims[Pool(run.kind)][s]))
    BY <2>1, SingleParts
  <2>3. pc' # "raised" => buffer'[s] = <<>>
    BY <1>0, <1>13
  <2>4. Pool(run.kind)' = Pool(run.kind)
    BY <1>0 DEF Pool
  <2> QED
    BY <1>0, <1>3, <2>2, <2>3, <2>4, SinglePartsNext
<1> QED
  BY <1>0, <1>6, <1>7, <1>8, <1>9, <1>10, <1>11, <1>12, <1>13 DEF IInv

\* A step without a rollout, and the move to the next step.
LEMMA TrainOnlyKeeps ==
  ASSUME IInv, TrainOnly
  PROVE  IInv'
<1>t. TypeOK /\ Exclusive /\ Ledger /\ Versions /\ StartsRight /\ SimBounds /\ FreshObs
  BY DEF IInv
<1>0. /\ pc = "step" /\ pc' = "test" /\ version' = version + 1
      /\ UNCHANGED <<cfg, served, sims, state, run, finished, ready, batch, buffer,
                     evaluated, back, calls, launched, taken, steps, evals>>
  BY DEF TrainOnly, Updated
<1>1. TypeOK'
  BY <1>t, <1>0 DEF TypeOK, IsBatch
<1>2. Exclusive'
  BY <1>t, <1>0 DEF Exclusive, Pending
<1>3. Ledger'
  BY <1>t, <1>0 DEF Ledger, EachBatchOnce, Pending
<1>4. Versions'
  BY <1>t, <1>0, UpdateKeepsVersions
<1>5. SimBounds' /\ FreshObs'
  BY <1>t, <1>0 DEF SimBounds, FreshObs
<1>6. StartsRight'
  BY <1>t, <1>0 DEF StartsRight, Untouched, Current, TrainSim, Pool, Observed, NoCarry
<1>7. \A s \in Stages : IF cfg.auto THEN Stream(s)' ELSE Single(s)'
  BY <1>0, LanesFrame
<1> QED
  BY <1>0, <1>1, <1>2, <1>3, <1>4, <1>5, <1>6, <1>7 DEF IInv

LEMMA NextStepKeeps ==
  ASSUME IInv, NextStep
  PROVE  IInv'
<1>t. TypeOK /\ Exclusive /\ Ledger /\ Versions /\ StartsRight /\ SimBounds /\ FreshObs
  BY DEF IInv
<1>0. /\ pc \in {"fit", "test"} /\ pc' \in {"done", "step"} /\ steps' \in {steps, steps + 1}
      /\ UNCHANGED <<cfg, version, served, sims, state, run, finished, ready, batch,
                     buffer, evaluated, back, calls, launched, taken, evals>>
  BY DEF NextStep
<1>1. TypeOK'
  <2>1. pc' \in {"test", "step"} /\ cfg.auto /\ evals = 0 => \A s \in Stages : Len(buffer[s]) < Horizon
    <3>1. CASE pc = "fit"
      BY <1>t, <3>1, EmptyLane, RolloutAssumption DEF Exclusive
    <3>2. CASE pc = "test"
      BY <1>t, <3>2 DEF TypeOK
    <3> QED
      BY <1>0, <3>1, <3>2
  <2> QED
    BY <1>t, <1>0, <2>1 DEF TypeOK, IsBatch
<1>2. Exclusive'
  BY <1>t, <1>0 DEF Exclusive, Pending
<1>3. Ledger'
  BY <1>t, <1>0 DEF Ledger, EachBatchOnce, Pending
<1>4. Versions'
  BY <1>t, <1>0 DEF Versions, PolicyLag, OneVersion, Serving, VersionsIn
<1>5. SimBounds' /\ FreshObs'
  BY <1>t, <1>0 DEF SimBounds, FreshObs
<1>6. StartsRight'
  BY <1>t, <1>0 DEF StartsRight, Untouched, Current, TrainSim, Pool, Observed, NoCarry
<1>7. \A s \in Stages : IF cfg.auto THEN Stream(s)' ELSE Single(s)'
  BY <1>0, LanesFrame
<1> QED
  BY <1>0, <1>1, <1>2, <1>3, <1>4, <1>5, <1>6, <1>7 DEF IInv

---------------------------------------------------------------------------
(* A rollout ends                                                          *)

LEMMA CarriedFacts ==
  ASSUME TypeOK, AllPlayed
  PROVE  /\ Carried \in Carries
         /\ cfg.auto => \A s \in Stages : Carried[s] = CarryOf(run.slots[s], run.carry[s])
<1>0. run # Idle /\ \A s \in Stages : /\ run.slots[s] \in Seq(Slot) /\ run.carry[s] \in Nat
                                      /\ Len(run.slots[s]) = Window
  BY RunParts DEF AllPlayed
<1>1. ASSUME NEW s \in Stages
      PROVE  /\ Carried[s] = IF cfg.auto THEN CarryOf(run.slots[s], run.carry[s]) ELSE run.carry[s]
             /\ Carried[s] \in Nat
  <2>1. Carried[s] = IF cfg.auto THEN CarryOf(run.slots[s], run.carry[s]) ELSE run.carry[s]
    BY <1>0 DEF Carried, CarryOf
  <2>2. Window \in Nat
    BY RolloutAssumption
  <2>3. CarryOf(run.slots[s], run.carry[s]) \in Nat
    <3>1. CASE Ends(run.slots[s]) = {}
      BY <1>0, <2>2, <3>1 DEF CarryOf
    <3>2. CASE Ends(run.slots[s]) # {}
      <4>1. Len(run.slots[s]) \in Nat
        BY <1>0, <2>2
      <4>2. Last(Ends(run.slots[s])) \in 1..Len(run.slots[s])
        BY <3>2, <4>1, LastOfEnds
      <4> QED
        BY <3>2, <4>1, <4>2 DEF CarryOf
    <3> QED
      BY <3>1, <3>2
  <2> QED
    BY <1>0, <2>1, <2>3
<1>2. Carried = [s \in Stages |-> Carried[s]]
  BY DEF Carried
<1> QED
  BY <1>1, <1>2 DEF Carries

\* The carry is where the episode that is being played stands.
LEMMA CarriedIsStep ==
  ASSUME IInv, AllPlayed, cfg.auto, run.kind = "eval" \/ evals = 0, NEW s \in Stages
  PROVE  Carried[s] = sims[Pool(run.kind)][s].n
<1>t. TypeOK /\ Stream(s) /\ run # Idle
  BY DEF IInv, AllPlayed
<1>1. Playing(run.slots[s], sims[Pool(run.kind)][s], run.carry[s], TRUE)
  BY <1>t, StreamParts DEF Playing
<1>2. run.slots[s] \in Seq(Slot) /\ run.slots[s] # <<>>
  <2>1. run.slots[s] \in Seq(Slot) /\ Len(run.slots[s]) = Window
    BY <1>t, RunParts DEF AllPlayed
  <2> QED
    BY <2>1, EmptyLane, RolloutAssumption
<1>3. sims[Pool(run.kind)][s].n \in Nat
  <2>1. Pool(run.kind) \in Modes /\ sims \in [Modes -> [Stages -> Sim]]
    BY <1>t, Kinds, PoolType
  <2> QED
    BY <2>1 DEF Sim
<1>4. run.slots[s][1].n = run.carry[s]
  BY <1>1, <1>2 DEF Playing, Opens
<1>5. sims[Pool(run.kind)][s].n = CarryOf(run.slots[s], run.slots[s][1].n)
  BY <1>1, <1>2, <1>3, CarryIsStep DEF Playing
<1> QED
  BY <1>t, <1>4, <1>5, CarriedFacts

LEMMA RolloutEndsKeeps ==
  ASSUME IInv, RolloutEnds
  PROVE  IInv'
<1>t. TypeOK /\ Exclusive /\ Ledger /\ Versions /\ StartsRight /\ SimBounds /\ FreshObs
  BY DEF IInv
<1>0. /\ AllPlayed /\ run # Idle /\ run.kind = "train" /\ sims' = Reset("train", FALSE) /\ run' = Idle
      /\ finished' = [id |-> run.id, slots |-> run.slots,
                      state |-> [obs |-> Observed(sims', "train"), carry |-> Carried]]
      /\ UNCHANGED <<cfg, version, served, state, ready, batch, buffer, evaluated,
                     pc, back, calls, launched, taken, steps, evals>>
  BY DEF RolloutEnds, AllPlayed
<1>1. /\ Pending /\ finished = None /\ ready = None /\ pc # "eval" /\ run.id = launched /\ launched = taken + 1
      /\ taken \in Nat /\ launched \in Nat /\ launched > 0
  <2>1. Pending /\ finished = None /\ ready = None /\ pc # "eval"
    BY <1>t, <1>0 DEF Exclusive, Pending
  <2>2. run.id = launched /\ launched = taken + 1 /\ taken \in Nat
    BY <1>t, <1>0, <2>1 DEF Ledger, TypeOK
  <2> QED
    BY <2>1, <2>2
<1>2. /\ run.slots \in [Stages -> Seq(Slot)]
      /\ \A s \in Stages : run.slots[s] \in Seq(Slot) /\ Len(run.slots[s]) = Window
      /\ Carried \in Carries
  BY <1>t, <1>0, RunParts, CarriedFacts DEF AllPlayed
<1>3. /\ sims' \in [Modes -> [Stages -> Sim]] /\ AllInBounds(sims')
      /\ Observed(sims', "train") \in [Stages -> Obs]
      /\ \A s \in Stages : /\ sims'["train"][s].ep > 0
                           /\ cfg.auto => sims'["train"][s] = sims["train"][s]
                           /\ ~cfg.auto => sims'["train"][s].n = 0 /\ ~sims'["train"][s].over
  <2>1. sims \in [Modes -> [Stages -> Sim]] /\ AllInBounds(sims) /\ "train" \in Modes /\ Pool("train") = "train"
    BY <1>t, Kinds, BoundsOf, PoolType DEF Modes
  <2>2. \A s \in Stages : sims["train"][s].ep > 0
    BY <1>t, <1>0, <2>1 DEF StartsRight
  <2>3. PICK first \in BOOLEAN : first = FALSE
    OBVIOUS
  <2>4. sims' = Reset("train", first)
    BY <1>0, <2>3
  <2>5. /\ sims' \in [Modes -> [Stages -> Sim]] /\ AllInBounds(sims')
        /\ Observed(sims', "train") \in [Stages -> Obs]
        /\ \A s \in Stages :
             /\ sims'["train"][s].ep > 0
             /\ cfg.auto /\ sims["train"][s].ep > 0 /\ ~first => sims'["train"][s] = sims["train"][s]
             /\ ~cfg.auto \/ first \/ sims["train"][s].ep = 0 =>
                  sims'["train"][s].n = 0 /\ ~sims'["train"][s].over
    BY <2>1, <2>4, ResetSims
  <2> QED
    BY <2>2, <2>3, <2>5
<1>4. finished' \in Batches /\ finished' # None /\ \A s \in Stages : Len(finished'.slots[s]) = Window
  <2>1. finished' \in Batches
    <3>1. run.id \in Nat \ {0}
      BY <1>1
    <3>2. [obs |-> Observed(sims', "train"), carry |-> Carried] \in [obs : [Stages -> Obs], carry : Carries]
      BY <1>2, <1>3
    <3> QED
      BY <1>0, <1>2, <3>1, <3>2 DEF Batches
  <2> QED
    BY <1>0, <1>2, <2>1, BatchParts
<1>5. TypeOK'
  <2>1. IsBatch(finished') /\ IsBatch(ready') /\ IsBatch(batch')
    BY <1>t, <1>0, <1>4 DEF TypeOK, IsBatch
  <2>2. sims' \in [Modes -> [Stages -> [ep : 0..EpisodeIds, n : Nat, over : BOOLEAN]]]
    BY <1>3 DEF Sim
  <2> QED
    BY <1>t, <1>0, <1>1, <2>1, <2>2 DEF TypeOK
<1>6. Pending'
  BY <1>4 DEF Pending
<1>7. Exclusive'
  BY <1>t, <1>0, <1>1 DEF Exclusive, Idle
<1>8. Ledger'
  <2>1. finished'.id = launched
    BY <1>0, <1>1
  <2> QED
    BY <1>t, <1>0, <1>1, <1>6, <2>1 DEF Ledger, EachBatchOnce, Idle
<1>9. Versions'
  <2>1. \A s \in Stages : \A i \in 1..Window : run.slots[s][i].version = Serving
    <3>1. \A s \in Stages : DOMAIN run.slots[s] = 1..Window
      BY <1>t, <1>0, <1>2, RunParts
    <3> QED
      BY <1>t, <1>0, <3>1 DEF Versions, OneVersion
  <2>2. Serving \in (IF cfg.async THEN calls[2]..version ELSE {version})
    <3>1. CASE cfg.async
      <4>1. Serving = served
        BY <1>t, <3>1 DEF TypeOK, Configs, Serving
      <4>2. calls[2] <= served /\ calls[2] \in Nat /\ version \in Nat /\ served \in Nat /\ served <= version
        BY <1>t, <3>1 DEF TypeOK, Versions
      <4> QED
        BY <3>1, <4>1, <4>2
    <3>2. CASE ~cfg.async
      BY <1>t, <1>0, <3>2 DEF Versions
    <3> QED
      BY <3>1, <3>2
  <2>3. VersionsIn(finished'.slots, IF cfg.async THEN calls[2]..version ELSE {version})
    BY <1>0, <2>1, <2>2 DEF VersionsIn
  <2>4. PolicyLag' /\ OneVersion'
    BY <1>t, <1>0 DEF Versions, PolicyLag, OneVersion
  <2> QED
    BY <1>t, <1>0, <1>1, <2>3, <2>4 DEF Versions, Idle
<1>10. SimBounds' /\ FreshObs'
  <2>1. SimBounds'
    BY <1>0, <1>3 DEF SimBounds, AllInBounds, InBounds
  <2> QED
    BY <1>0, <2>1 DEF FreshObs
<1>11. Current(finished.state)'
  <2>1. Observed(sims, "train")' = Observed(sims', "train")
    BY <1>0, PoolType DEF Observed, Pool
  <2>2. finished'.state.obs = Observed(sims', "train") /\ finished'.state.carry = Carried
    BY <1>0
  <2>3. ASSUME NEW s \in Stages, cfg.auto, evals = 0 PROVE Carried[s] = sims'["train"][s].n
    <3>1. Carried[s] = sims[Pool(run.kind)][s].n /\ Pool(run.kind) = "train"
      BY <1>0, <2>3, CarriedIsStep, PoolType
    <3> QED
      BY <1>3, <2>3, <3>1
  <2> QED
    BY <1>0, <1>3, <2>1, <2>2, <2>3 DEF Current, TrainSim, Pool
<1>12. StartsRight'
  <2>1. \A s \in Stages : TrainSim(s)'.ep > 0
    BY <1>11 DEF Current
  <2> QED
    BY <1>0, <1>4, <1>11, <2>1 DEF StartsRight
<1>13. ASSUME NEW s \in Stages PROVE IF cfg.auto THEN Stream(s)' ELSE Single(s)'
  <2>1. InFlight(s)' = run.slots[s] /\ InFlight(s) = run.slots[s] /\ Held(s)' = Held(s)
    BY <1>0, <1>1, <1>4 DEF InFlight, Held, Lane
  <2>2. CASE cfg.auto
    <3>1. TrainSim(s)' = TrainSim(s) /\ Stream(s)
      BY <1>0, <1>3, <2>2 DEF IInv, TrainSim, Pool
    <3> QED
      BY <1>0, <2>1, <2>2, <3>1, StreamFrame
  <2>3. CASE ~cfg.auto
    <3>1. Single(s)
      BY <2>3 DEF IInv
    <3>2. OneEpisode(run.slots[s]) /\ (batch # None => OneEpisode(batch.slots[s])) /\ (pc # "raised" => buffer[s] = <<>>)
      BY <2>1, <3>1, SingleParts
    <3> QED
      BY <1>0, <2>1, <2>3, <3>2, SinglePartsNext
  <2> QED
    BY <2>2, <2>3
<1> QED
  BY <1>0, <1>5, <1>7, <1>8, <1>9, <1>10, <1>12, <1>13 DEF IInv

---------------------------------------------------------------------------
(* Evaluations                                                             *)

\* What holds of the simulators and the run once an evaluation round is started.
LEMMA EvalStarted ==
  ASSUME TypeOK, SimBounds, NEW first \in BOOLEAN, NEW carry \in Carries, EvalRun(first, carry), cfg' = cfg
  PROVE  /\ Begun("eval", 0, carry) /\ run' \in Runs /\ run' # Idle /\ run'.kind = "eval" /\ run'.carry = carry
         /\ \A s \in Stages : run'.slots[s] = <<>> /\ Len(run'.slots[s]) = 0
         /\ sims' \in [Modes -> [Stages -> [ep : 0..EpisodeIds, n : Nat, over : BOOLEAN]]]
         /\ SimBounds' /\ FreshObs' /\ OneVersion' /\ Pool(run.kind)' = Pool("eval")
         /\ \A s \in Stages : LET sim == sims[Pool("eval")][s]
                                  next == sims'[Pool("eval")][s] IN
              /\ next.ep > 0 /\ run'.obs[s] = Shown(next)
              /\ cfg.auto /\ sim.ep > 0 /\ ~first => next = sim
              /\ ~cfg.auto \/ first => next.n = 0 /\ ~next.over
              /\ TrainSim(s)' = sims'["train"][s] /\ (TrainSim(s).ep > 0 => TrainSim(s)'.ep > 0)
              /\ ~cfg.shared => TrainSim(s)' = TrainSim(s)
<1>1. /\ sims \in [Modes -> [Stages -> Sim]] /\ AllInBounds(sims) /\ "eval" \in Modes /\ "train" \in Modes
      /\ Pool("eval") \in Modes /\ Pool("train") = "train" /\ (~cfg.shared => Pool("eval") # "train")
  BY Kinds, BoundsOf, PoolType DEF Modes
<1>2. sims' = Reset("eval", first) /\ run' = Started("eval", 0, Observed(sims', "eval"), carry)
  BY DEF EvalRun
<1>3. /\ sims' \in [Modes -> [Stages -> Sim]] /\ AllInBounds(sims')
      /\ \A m \in Modes : m # Pool("eval") => sims'[m] = sims[m]
      /\ \A s \in Stages :
           /\ sims'[Pool("eval")][s].ep > 0
           /\ cfg.auto /\ sims[Pool("eval")][s].ep > 0 /\ ~first => sims'[Pool("eval")][s] = sims[Pool("eval")][s]
           /\ ~cfg.auto \/ first \/ sims[Pool("eval")][s].ep = 0 =>
                sims'[Pool("eval")][s].n = 0 /\ ~sims'[Pool("eval")][s].over
      /\ Observed(sims', "eval") \in [Stages -> Obs]
      /\ \A s \in Stages : Observed(sims', "eval")[s] = Shown(sims'[Pool("eval")][s])
  BY <1>1, <1>2, ResetSims
<1>4. Begun("eval", 0, carry)
  BY <1>1, <1>2, <1>3, StartedRun
<1>5. /\ run' \in Runs /\ run' # Idle /\ run'.kind = "eval" /\ run'.carry = carry
      /\ \A s \in Stages : run'.slots[s] = <<>> /\ Len(run'.slots[s]) = 0
      /\ \A s \in Stages : run'.obs[s] = Shown(sims'[Pool("eval")][s]) /\ DOMAIN run'.slots[s] = {}
  <2>1. /\ run' \in Runs /\ run'.kind = "eval" /\ run'.carry = carry
        /\ \A s \in Stages : run'.slots[s] = <<>> /\ run'.obs[s] = Shown(sims'[Pool("eval")][s])
    BY <1>4 DEF Begun
  <2> QED
    BY <2>1, RunSlots
<1>6. SimBounds'
  BY <1>3 DEF SimBounds, AllInBounds, InBounds
<1>7. FreshObs' /\ OneVersion'
  BY <1>5 DEF FreshObs, OneVersion
<1>8. Pool(run.kind)' = Pool("eval")
  BY <1>5 DEF Pool
<1>9. ASSUME NEW s \in Stages
      PROVE  /\ TrainSim(s)' = sims'["train"][s] /\ (TrainSim(s).ep > 0 => TrainSim(s)'.ep > 0)
             /\ ~cfg.shared => TrainSim(s)' = TrainSim(s)
  <2>1. TrainSim(s)' = sims'["train"][s] /\ TrainSim(s) = sims["train"][s]
    BY DEF TrainSim, Pool
  <2>2. CASE Pool("eval") = "train"
    BY <1>1, <1>3, <2>1, <2>2
  <2>3. CASE Pool("eval") # "train"
    BY <1>1, <1>3, <2>1, <2>3
  <2> QED
    BY <2>2, <2>3
<1>10. sims' \in [Modes -> [Stages -> [ep : 0..EpisodeIds, n : Nat, over : BOOLEAN]]]
  BY <1>3 DEF Sim
<1>11. ASSUME NEW s \in Stages
       PROVE  LET sim == sims[Pool("eval")][s]
                  next == sims'[Pool("eval")][s] IN
              /\ next.ep > 0 /\ run'.obs[s] = Shown(next)
              /\ cfg.auto /\ sim.ep > 0 /\ ~first => next = sim
              /\ ~cfg.auto \/ first => next.n = 0 /\ ~next.over
  BY <1>3, <1>5
<1> QED
  BY <1>4, <1>5, <1>6, <1>7, <1>8, <1>9, <1>10, <1>11

\* No rollout is in flight: nothing of a lane is on its way.
LEMMA EmptyFlight ==
  ASSUME ~Pending, NEW s \in Stages
  PROVE  InFlight(s) = <<>>
BY DEF Pending, InFlight

LEMMA EvalBeginsKeeps ==
  ASSUME IInv, EvalBegins
  PROVE  IInv'
<1>t. TypeOK /\ Exclusive /\ Ledger /\ Versions /\ StartsRight /\ SimBounds /\ FreshObs
  BY DEF IInv
<1>0. /\ pc \in {"fit", "test"} /\ run = Idle /\ finished' = None /\ served' = version
      /\ IF finished # None THEN ready' = finished /\ state' = finished.state ELSE UNCHANGED <<ready, state>>
      /\ EvalRun(TRUE, NoCarry) /\ evals' = evals + 1 /\ back' = pc /\ pc' = "eval"
      /\ UNCHANGED <<cfg, version, batch, buffer, calls, launched, taken, steps>>
  BY DEF EvalBegins
<1>1. /\ Begun("eval", 0, NoCarry) /\ run' \in Runs /\ run' # Idle /\ run'.kind = "eval" /\ run'.carry = NoCarry
      /\ \A s \in Stages : run'.slots[s] = <<>> /\ Len(run'.slots[s]) = 0
      /\ sims' \in [Modes -> [Stages -> [ep : 0..EpisodeIds, n : Nat, over : BOOLEAN]]]
      /\ SimBounds' /\ FreshObs' /\ OneVersion' /\ Pool(run.kind)' = Pool("eval")
      /\ \A s \in Stages : /\ sims'[Pool("eval")][s].ep > 0 /\ run'.obs[s] = Shown(sims'[Pool("eval")][s])
                           /\ sims'[Pool("eval")][s].n = 0 /\ ~sims'[Pool("eval")][s].over
                           /\ TrainSim(s).ep > 0 => TrainSim(s)'.ep > 0
                           /\ ~cfg.shared => TrainSim(s)' = TrainSim(s)
  <2>1. PICK first \in BOOLEAN : first = TRUE
    OBVIOUS
  <2>2. EvalRun(first, NoCarry) /\ NoCarry \in Carries
    BY <1>0, <2>1, NoCarryType
  <2> QED
    BY <1>t, <1>0, <2>1, <2>2, EvalStarted
<1>2. /\ run.kind = "none" /\ batch = None /\ evals \in Nat /\ evals' > 0
      /\ finished # None => cfg.async /\ ready = None
      /\ ~cfg.async => ~Pending /\ ready = None /\ finished = None
  <2>1. run.kind = "none" /\ batch = None /\ evals \in Nat
    BY <1>t, <1>0 DEF TypeOK, Idle
  <2>2. ~cfg.async => ~Pending /\ ready = None /\ finished = None
    BY <1>t, <1>0, NothingInFlight
  <2> QED
    BY <1>t, <1>0, <2>1, <2>2 DEF TypeOK
<1>3. /\ Pending' <=> Pending
      /\ ready' # None => cfg.async
      /\ ready' # None => ready' = IF finished # None THEN finished ELSE ready
  BY <1>0, <1>1, <1>2 DEF Pending
<1>4. TypeOK'
  <2>1. IsBatch(finished') /\ IsBatch(ready') /\ IsBatch(batch') /\ (ready' # None => cfg'.async)
    BY <1>t, <1>0, <1>3 DEF TypeOK, IsBatch
  <2>2. state' \in [obs : {<<>>} \cup [Stages -> Obs], carry : Carries]
    <3>1. state' \in StateType
      BY <1>t, <1>0, StateTypes
    <3> QED
      BY <3>1 DEF StateType
  <2>3. \A s \in Stages : Len(run'.slots[s]) <= Window
    BY <1>1, RolloutAssumption
  <2>4. version \in Nat /\ served' \in 0..version'
    BY <1>t, <1>0 DEF TypeOK
  <2> QED
    BY <1>t, <1>0, <1>1, <1>2, <2>1, <2>2, <2>3, <2>4 DEF TypeOK
<1>5. Exclusive'
  BY <1>t, <1>0, <1>1, <1>2, <1>3 DEF Exclusive
<1>6. Ledger'
  BY <1>t, <1>0, <1>1, <1>2, <1>3 DEF Ledger, EachBatchOnce
<1>7. Versions'
  <2>1. PolicyLag' /\ OneVersion'
    BY <1>0, <1>1 DEF PolicyLag
  <2>2. CASE cfg.async
    <3>1. calls[2] <= served /\ calls[2] \in Nat /\ version \in Nat /\ served \in Nat /\ served <= version
      BY <1>t, <2>2 DEF TypeOK, Versions
    <3>2. calls[2] <= version
      BY <3>1
    <3>3. ready' # None => VersionsIn(ready'.slots, calls[2]..version)
      BY <1>t, <1>0, <1>3, <2>2 DEF Versions
    <3> QED
      BY <1>0, <2>1, <2>2, <3>2, <3>3 DEF Versions, VersionsIn
  <2>3. CASE ~cfg.async
    BY <1>0, <1>1, <2>1, <2>3 DEF Versions
  <2> QED
    BY <2>2, <2>3
<1>8. StartsRight'
  <2>1. launched' > 0 => \A s \in Stages : TrainSim(s)'.ep > 0
    BY <1>t, <1>0, <1>1 DEF StartsRight
  <2> QED
    BY <1>1, <2>1 DEF StartsRight
<1>9. ASSUME NEW s \in Stages
      PROVE  InFlight(s)' = InFlight(s) /\ Held(s)' = Held(s)
  BY <1>0, <1>1, <1>2 DEF InFlight, Held
<1>10. ASSUME NEW s \in Stages, cfg.auto PROVE Stream(s)'
  <2>1. Flow(InFlight(s), Held(s), TrainSim(s), Unbroken, LinkedNow, evals = 0) /\ Ends(buffer[s]) = {}
    BY <1>10, StreamParts DEF IInv
  <2>2. (Unbroken' => Unbroken) /\ (LinkedNow' => LinkedNow /\ ~cfg.shared) /\ ~(evals' = 0)
    BY <1>0, <1>2 DEF Unbroken, LinkedNow
  <2>3. Flow(InFlight(s), Held(s), TrainSim(s)', Unbroken', LinkedNow', evals' = 0)
    <3>1. LinkedNow' => TrainSim(s)' = TrainSim(s)
      BY <1>1, <2>2
    <3> QED
      BY <2>1, <2>2, <3>1 DEF Flow
  <2>4. Playing(run'.slots[s], sims'[Pool("eval")][s], run'.carry[s], run'.kind = "eval" \/ evals' = 0)
    <3>1. PICK exact \in BOOLEAN : exact = (run'.kind = "eval" \/ evals' = 0)
      OBVIOUS
    <3>2. run'.slots[s] = <<>> /\ run'.carry[s] = 0 /\ sims'[Pool("eval")][s].n = 0
      BY <1>1, NoCarryType
    <3>3. Playing(<<>>, sims'[Pool("eval")][s], 0, exact)
      BY <3>2, EmptyLane
    <3> QED
      BY <3>1, <3>2, <3>3
  <2> QED
    BY <1>0, <1>1, <1>9, <2>1, <2>3, <2>4, StreamPartsNext
<1>11. ASSUME NEW s \in Stages, ~cfg.auto PROVE Single(s)'
  <2>1. OneEpisode(InFlight(s)) /\ (pc # "raised" => buffer[s] = <<>>)
    BY <1>11, SingleParts DEF IInv
  <2>2. Alone(run'.slots[s], sims'[Pool("eval")][s])
    BY <1>1, EmptyLane
  <2> QED
    BY <1>0, <1>1, <1>2, <1>9, <2>1, <2>2, SinglePartsNext
<1> QED
  BY <1>0, <1>1, <1>4, <1>5, <1>6, <1>7, <1>8, <1>10, <1>11 DEF IInv

LEMMA EvalRoundKeeps ==
  ASSUME IInv, EvalRound
  PROVE  IInv'
<1>t. TypeOK /\ Exclusive /\ Ledger /\ Versions /\ StartsRight /\ SimBounds /\ FreshObs
  BY DEF IInv
<1>0. /\ AllPlayed /\ run # Idle /\ run.kind = "eval" /\ EvalRun(FALSE, Carried)
      /\ UNCHANGED <<cfg, version, served, state, finished, ready, batch, buffer, pc,
                     back, calls, launched, taken, steps, evals>>
  BY DEF EvalRound, AllPlayed
<1>1. /\ Begun("eval", 0, Carried) /\ run' \in Runs /\ run' # Idle /\ run'.kind = "eval" /\ run'.carry = Carried
      /\ \A s \in Stages : run'.slots[s] = <<>> /\ Len(run'.slots[s]) = 0
      /\ sims' \in [Modes -> [Stages -> [ep : 0..EpisodeIds, n : Nat, over : BOOLEAN]]]
      /\ SimBounds' /\ FreshObs' /\ OneVersion' /\ Pool(run.kind)' = Pool("eval")
      /\ \A s \in Stages : LET sim == sims[Pool("eval")][s]
                               next == sims'[Pool("eval")][s] IN
           /\ next.ep > 0 /\ run'.obs[s] = Shown(next)
           /\ cfg.auto /\ sim.ep > 0 => next = sim
           /\ ~cfg.auto => next.n = 0 /\ ~next.over
           /\ TrainSim(s)' = sims'["train"][s] /\ (TrainSim(s).ep > 0 => TrainSim(s)'.ep > 0)
           /\ ~cfg.shared => TrainSim(s)' = TrainSim(s)
  <2>1. PICK first \in BOOLEAN : first = FALSE
    OBVIOUS
  <2>2. EvalRun(first, Carried) /\ Carried \in Carries
    BY <1>t, <1>0, <2>1, CarriedFacts
  <2> QED
    BY <1>t, <1>0, <2>1, <2>2, EvalStarted
<1>2. /\ Pending' = Pending /\ finished = None /\ batch = None /\ pc = "eval"
  BY <1>t, <1>0, <1>1 DEF Pending, TypeOK, Exclusive
<1>3. TypeOK'
  <2>1. IsBatch(finished') /\ IsBatch(ready') /\ IsBatch(batch')
    BY <1>t, <1>0 DEF TypeOK, IsBatch
  <2>2. \A s \in Stages : Len(run'.slots[s]) <= Window
    BY <1>1, RolloutAssumption
  <2> QED
    BY <1>t, <1>0, <1>1, <1>2, <2>1, <2>2 DEF TypeOK
<1>4. Exclusive'
  BY <1>t, <1>0, <1>1, <1>2 DEF Exclusive
<1>5. Ledger'
  BY <1>t, <1>0, <1>1, <1>2 DEF Ledger, EachBatchOnce
<1>6. Versions'
  BY <1>t, <1>0, <1>1, <1>2 DEF Versions, PolicyLag, VersionsIn
<1>7. StartsRight'
  <2>1. launched' > 0 => \A s \in Stages : TrainSim(s)'.ep > 0
    BY <1>t, <1>0, <1>1 DEF StartsRight
  <2> QED
    BY <1>1, <2>1 DEF StartsRight
<1>8. ASSUME NEW s \in Stages
      PROVE  InFlight(s)' = InFlight(s) /\ Held(s)' = Held(s)
  BY <1>0, <1>1, <1>2 DEF InFlight, Held
<1>9. ASSUME NEW s \in Stages, cfg.auto PROVE Stream(s)'
  <2>1. Flow(InFlight(s), Held(s), TrainSim(s), Unbroken, LinkedNow, evals = 0) /\ Ends(buffer[s]) = {}
    BY <1>9, StreamParts DEF IInv
  <2>2. Unbroken' = Unbroken /\ LinkedNow' = LinkedNow /\ (LinkedNow => ~cfg.shared) /\ ~(evals = 0)
    <3>1. evals \in Nat /\ evals > 0
      BY <1>t, <1>2 DEF TypeOK, Exclusive
    <3> QED
      BY <1>0, <1>2, <3>1 DEF Unbroken, LinkedNow
  <2>3. Flow(InFlight(s), Held(s), TrainSim(s)', Unbroken', LinkedNow', evals' = 0)
    <3>1. LinkedNow' => TrainSim(s)' = TrainSim(s)
      BY <1>1, <2>2
    <3> QED
      BY <1>0, <2>1, <2>2, <3>1 DEF Flow
  <2>4. Playing(run'.slots[s], sims'[Pool("eval")][s], run'.carry[s], run'.kind = "eval" \/ evals' = 0)
    <3>1. PICK exact \in BOOLEAN : exact = (run'.kind = "eval" \/ evals' = 0)
      OBVIOUS
    <3>2. sims[Pool("eval")][s].ep > 0 /\ Carried[s] = sims[Pool("eval")][s].n
      BY <1>t, <1>0, <1>9, CarriedIsStep DEF StartsRight
    <3>3. run'.slots[s] = <<>> /\ run'.carry[s] = Carried[s] /\ sims'[Pool("eval")][s] = sims[Pool("eval")][s]
      BY <1>1, <1>9, <3>2
    <3>4. Playing(<<>>, sims'[Pool("eval")][s], Carried[s], exact)
      BY <3>2, <3>3, EmptyLane
    <3> QED
      BY <3>1, <3>3, <3>4
  <2> QED
    BY <1>0, <1>1, <1>8, <2>1, <2>3, <2>4, StreamPartsNext
<1>10. ASSUME NEW s \in Stages, ~cfg.auto PROVE Single(s)'
  <2>1. OneEpisode(InFlight(s)) /\ (pc # "raised" => buffer[s] = <<>>)
    BY <1>10, SingleParts DEF IInv
  <2>2. Alone(run'.slots[s], sims'[Pool("eval")][s])
    BY <1>1, <1>10, EmptyLane
  <2> QED
    BY <1>0, <1>1, <1>2, <1>8, <2>1, <2>2, SinglePartsNext
<1> QED
  BY <1>0, <1>1, <1>3, <1>4, <1>5, <1>6, <1>7, <1>9, <1>10 DEF IInv

LEMMA EvalEndsKeeps ==
  ASSUME IInv, EvalEnds
  PROVE  IInv'
<1>t. TypeOK /\ Exclusive /\ Ledger /\ Versions /\ StartsRight /\ SimBounds /\ FreshObs
  BY DEF IInv
<1>0. /\ run # Idle /\ run.kind = "eval" /\ sims' = Reset("train", FALSE) /\ run' = Idle
      /\ state' = [obs |-> Observed(sims', "train"), carry |-> NoCarry]
      /\ buffer' = IF back = "fit" THEN buffer ELSE [s \in Stages |-> <<>>]
      /\ pc' \in {"step", "done"} /\ steps' \in {steps, steps + 1}
      /\ UNCHANGED <<cfg, version, served, finished, ready, batch, back, calls, launched, taken, evals>>
  BY DEF EvalEnds, AllPlayed
<1>1. /\ pc = "eval" /\ evals \in Nat /\ evals > 0 /\ finished = None /\ batch = None
      /\ (Pending' <=> Pending) /\ (Pending => cfg.async /\ launched > 0) /\ run'.kind = "none"
  <2>1. pc = "eval" /\ evals \in Nat /\ evals > 0 /\ finished = None /\ batch = None
    BY <1>t, <1>0 DEF Exclusive, TypeOK
  <2>2. Pending' <=> Pending
    BY <1>0 DEF Pending, Idle
  <2>3. Pending => cfg.async /\ launched > 0
    BY <1>t, <2>1 DEF Exclusive, Ledger, TypeOK
  <2> QED
    BY <1>0, <2>1, <2>2, <2>3 DEF Idle
<1>2. ASSUME NEW s \in Stages
      PROVE buffer'[s] = <<>>
  BY <1>t, <1>0, <1>1 DEF Exclusive
<1>3. /\ sims' \in [Modes -> [Stages -> Sim]] /\ AllInBounds(sims')
      /\ Observed(sims', "train") \in [Stages -> Obs]
      /\ \A s \in Stages : /\ sims'["train"][s].ep > 0
                           /\ cfg.auto /\ sims["train"][s].ep > 0 => sims'["train"][s] = sims["train"][s]
                           /\ ~cfg.auto => sims'["train"][s].n = 0 /\ ~sims'["train"][s].over
  <2>1. sims \in [Modes -> [Stages -> Sim]] /\ AllInBounds(sims) /\ "train" \in Modes /\ Pool("train") = "train"
    BY <1>t, Kinds, BoundsOf, PoolType DEF Modes
  <2>2. PICK first \in BOOLEAN : first = FALSE
    OBVIOUS
  <2>3. sims' = Reset("train", first)
    BY <1>0, <2>2
  <2>4. /\ sims' \in [Modes -> [Stages -> Sim]] /\ AllInBounds(sims')
        /\ Observed(sims', "train") \in [Stages -> Obs]
        /\ \A s \in Stages :
             /\ sims'["train"][s].ep > 0
             /\ cfg.auto /\ sims["train"][s].ep > 0 /\ ~first => sims'["train"][s] = sims["train"][s]
             /\ ~cfg.auto \/ first \/ sims["train"][s].ep = 0 =>
                  sims'["train"][s].n = 0 /\ ~sims'["train"][s].over
    BY <2>1, <2>3, ResetSims
  <2> QED
    BY <2>2, <2>4
<1>4. TypeOK'
  <2>1. IsBatch(finished') /\ IsBatch(ready') /\ IsBatch(batch')
    BY <1>t, <1>0 DEF TypeOK, IsBatch
  <2>2. sims' \in [Modes -> [Stages -> [ep : 0..EpisodeIds, n : Nat, over : BOOLEAN]]]
    BY <1>3 DEF Sim
  <2>3. buffer' \in [Stages -> Seq(Slot)]
    <3>1. [s \in Stages |-> <<>>] \in [Stages -> Seq(Slot)]
      BY EmptyLane
    <3> QED
      BY <1>t, <1>0, <3>1 DEF TypeOK
  <2>4. state' \in [obs : {<<>>} \cup [Stages -> Obs], carry : Carries]
    BY <1>0, <1>3, NoCarryType
  <2> QED
    <3>1. /\ cfg' \in Configs /\ version' \in Nat /\ served' \in 0..version'
          /\ back' \in {"fit", "test"} /\ calls' \in Nat \X Nat
          /\ launched' \in Nat /\ taken' \in Nat /\ steps' \in Nat /\ evals' \in Nat
      BY <1>t, <1>0 DEF TypeOK
    <3>2. /\ run' = Idle /\ (ready' # None => cfg'.async /\ finished' = None)
          /\ ~(evals' = 0) /\ batch' = None
          /\ pc' \in {"fit", "step", "collect", "test", "eval", "done", "raised"}
      BY <1>t, <1>0, <1>1 DEF TypeOK
    <3> QED
      BY <2>1, <2>2, <2>3, <2>4, <3>1, <3>2 DEF TypeOK
<1>5. Exclusive'
  BY <1>t, <1>0, <1>1 DEF Exclusive
<1>6. Ledger'
  BY <1>t, <1>0, <1>1 DEF Ledger, EachBatchOnce
<1>7. Versions'
  <2>1. OneVersion' /\ PolicyLag'
    BY <1>0 DEF OneVersion, PolicyLag
  <2> QED
    BY <1>t, <1>0, <1>1, <2>1 DEF Versions, VersionsIn
<1>8. SimBounds' /\ FreshObs'
  <2>1. SimBounds'
    BY <1>0, <1>3 DEF SimBounds, AllInBounds, InBounds
  <2> QED
    BY <1>0, <2>1 DEF FreshObs
<1>9. StartsRight'
  <2>1. Observed(sims, "train")' = Observed(sims', "train")
    BY <1>0, PoolType DEF Observed, Pool
  <2>2. Current(state)'
    <3>1. state'.obs = Observed(sims, "train")'
      BY <1>0, <2>1
    <3>2. ASSUME NEW s \in Stages
          PROVE  /\ TrainSim(s)'.ep > 0 /\ (~cfg'.auto => TrainSim(s)'.n = 0 /\ ~TrainSim(s)'.over)
      <4>1. TrainSim(s)' = sims'["train"][s]
        BY DEF TrainSim, Pool
      <4> QED
        BY <1>0, <1>3, <4>1
    <3>3. ~(evals' = 0)
      BY <1>0, <1>1
    <3> QED
      BY <3>1, <3>2, <3>3 DEF Current
  <2>3. \A s \in Stages : TrainSim(s)'.ep > 0
    BY <2>2 DEF Current
  <2> QED
    BY <1>0, <1>1, <2>2, <2>3 DEF StartsRight
<1>10. ASSUME NEW s \in Stages
       PROVE  InFlight(s)' = InFlight(s) /\ Held(s)' = <<>>
  BY <1>0, <1>1, <1>2 DEF InFlight, Held
<1>11. ASSUME NEW s \in Stages, cfg.auto PROVE Stream(s)'
  <2>1. Flow(InFlight(s), Held(s), TrainSim(s), Unbroken, LinkedNow, evals = 0)
    BY <1>11, StreamParts DEF IInv
  <2>2. Linked(InFlight(s), TrainSim(s)') \/ ~LinkedNow'
    <3>1. CASE ~Pending
      BY <3>1, EmptyFlight, EmptyLane
    <3>2. CASE Pending
      <4>1. cfg.async /\ TrainSim(s).ep > 0
        BY <1>t, <1>1, <3>2 DEF StartsRight
      <4>2. TrainSim(s)' = TrainSim(s)
        BY <1>0, <1>3, <1>11, <4>1 DEF TrainSim, Pool
      <4>3. LinkedNow' => LinkedNow
        BY <1>0, <1>1, <4>1 DEF LinkedNow, Unbroken
      <4> QED
        BY <2>1, <4>2, <4>3 DEF Flow
    <3> QED
      BY <3>1, <3>2
  <2>3. Flow(InFlight(s)', Held(s)', TrainSim(s)', Unbroken', LinkedNow', evals' = 0)
    <3>1. ~(evals' = 0)
      BY <1>0, <1>1
    <3>2. InSequence(InFlight(s)) /\ Bounded(InFlight(s))
      BY <2>1 DEF Flow
    <3>3. Flow(InFlight(s), <<>>, TrainSim(s)', Unbroken', LinkedNow', evals' = 0)
      BY <2>2, <3>1, <3>2, EmptyLane DEF Flow
    <3> QED
      BY <1>10, <3>3
  <2>4. Ends(buffer'[s]) = {}
    BY <1>2, EmptyLane
  <2> QED
    BY <1>0, <2>3, <2>4, StreamPartsNext
<1>12. ASSUME NEW s \in Stages, ~cfg.auto PROVE Single(s)'
  <2>1. OneEpisode(InFlight(s))
    BY <1>12, SingleParts DEF IInv
  <2> QED
    BY <1>0, <1>1, <1>2, <1>10, <2>1, SinglePartsNext
<1> QED
  BY <1>0, <1>4, <1>5, <1>6, <1>7, <1>8, <1>9, <1>11, <1>12 DEF IInv

---------------------------------------------------------------------------
(* The invariant                                                           *)

LEMMA InitIsGood ==
  ASSUME Init
  PROVE  IInv
<1>0. /\ cfg \in Configs /\ version = 0 /\ served = 0
      /\ sims = [m \in Modes |-> [s \in Stages |-> [ep |-> 0, n |-> 0, over |-> FALSE]]]
      /\ state = [obs |-> <<>>, carry |-> NoCarry]
      /\ run = Idle /\ finished = None /\ ready = None /\ batch = None
      /\ buffer = [s \in Stages |-> <<>>] /\ pc = "fit" /\ back = "fit"
      /\ calls = <<0, 0>> /\ launched = 0 /\ taken = 0 /\ steps = 0 /\ evals = 0
  BY DEF Init
<1>1. \A s \in Stages : buffer[s] = <<>> /\ TrainSim(s) = [ep |-> 0, n |-> 0, over |-> FALSE]
  BY <1>0 DEF TrainSim, Pool, Modes
<1>2. TypeOK
  <2>1. sims \in [Modes -> [Stages -> [ep : 0..EpisodeIds, n : Nat, over : BOOLEAN]]]
    BY <1>0, RolloutAssumption
  <2>2. state \in [obs : {<<>>} \cup [Stages -> Obs], carry : Carries]
    BY <1>0, NoCarryType
  <2>3. buffer \in [Stages -> Seq(Slot)]
    BY <1>0, EmptyLane
  <2> QED
    BY <1>0, <2>1, <2>2, <2>3 DEF TypeOK, IsBatch
<1>3. ~Pending /\ run.kind = "none"
  BY <1>0 DEF Pending, Idle
<1>4. Exclusive
  BY <1>0, <1>1, <1>3 DEF Exclusive
<1>5. Ledger
  BY <1>0, <1>3 DEF Ledger, EachBatchOnce
<1>6. Versions
  BY <1>0, <1>3 DEF Versions, OneVersion, PolicyLag
<1>7. SimBounds
  BY <1>0, RolloutAssumption DEF SimBounds
<1>8. StartsRight
  BY <1>0, <1>1 DEF StartsRight, Untouched
<1>9. FreshObs
  BY <1>0 DEF FreshObs
<1>10. ASSUME NEW s \in Stages PROVE Stream(s) /\ Single(s)
  <2>1. InFlight(s) = <<>> /\ Held(s) = <<>>
    BY <1>0, <1>1, <1>3, EmptyFlight DEF Held
  <2>2. TrainSim(s).n = 0
    BY <1>1
  <2>3. Flow(<<>>, <<>>, TrainSim(s), Unbroken, LinkedNow, evals = 0)
    BY <2>2, EmptyLane DEF Flow
  <2> QED
    BY <1>0, <1>1, <2>1, <2>3, EmptyLane, StreamParts, SingleParts
<1> QED
  BY <1>2, <1>4, <1>5, <1>6, <1>7, <1>8, <1>9, <1>10 DEF IInv

LEMMA StutterKeeps ==
  ASSUME IInv, UNCHANGED vars
  PROVE  IInv'
<1>t. TypeOK /\ Exclusive /\ Ledger /\ Versions /\ StartsRight /\ SimBounds /\ FreshObs
  BY DEF IInv
<1>0. UNCHANGED <<cfg, version, served, sims, state, run, finished, ready, batch, buffer,
                  evaluated, pc, back, calls, launched, taken, steps, evals>>
  BY DEF vars
<1>1. TypeOK'
  BY <1>t, <1>0 DEF TypeOK, IsBatch
<1>2. Exclusive'
  BY <1>t, <1>0 DEF Exclusive, Pending
<1>3. Ledger'
  BY <1>t, <1>0 DEF Ledger, EachBatchOnce, Pending
<1>4. Versions'
  BY <1>t, <1>0 DEF Versions, PolicyLag, OneVersion, Serving, VersionsIn
<1>5. SimBounds' /\ FreshObs'
  BY <1>t, <1>0 DEF SimBounds, FreshObs
<1>6. StartsRight'
  BY <1>t, <1>0 DEF StartsRight, Untouched, Current, TrainSim, Pool, Observed, NoCarry
<1>7. \A s \in Stages : IF cfg.auto THEN Stream(s)' ELSE Single(s)'
  BY <1>0, LanesFrame
<1> QED
  BY <1>0, <1>1, <1>2, <1>3, <1>4, <1>5, <1>6, <1>7 DEF IInv

LEMMA NextKeeps ==
  ASSUME IInv, [Next]_vars
  PROVE  IInv'
<1>1. ASSUME NEW s \in Stages, StageStep(s) PROVE IInv'
  BY <1>1, StageKeeps
<1>2. CASE RolloutEnds \/ RolloutSync \/ RolloutReady \/ RolloutAsync \/ Receive
  BY <1>2, RolloutEndsKeeps, SyncKeeps, ReadyKeeps, AsyncKeeps, ReceiveKeeps
<1>3. CASE Train \/ TrainOnly \/ NextStep
  BY <1>3, TrainKeeps, TrainOnlyKeeps, NextStepKeeps
<1>4. CASE EvalBegins \/ EvalRound \/ EvalEnds
  BY <1>4, EvalBeginsKeeps, EvalRoundKeeps, EvalEndsKeeps
<1>5. CASE Terminated \/ UNCHANGED vars
  BY <1>5, StutterKeeps DEF Terminated
<1> QED
  BY <1>1, <1>2, <1>3, <1>4, <1>5 DEF Next

\* At every moment: one rollout is in flight at most and every batch is
\* accounted for, every slot was collected under the version it should be, and
\* from the buffer over the batches to the simulator every lane goes on step by
\* step (TrainCluster.rollout, TrainCluster.eval, EnvLoop, EpisodeBuffer).
THEOREM Invariance == Spec => []IInv
<1>1. Init => IInv
  BY InitIsGood
<1>2. IInv /\ [Next]_vars => IInv'
  BY NextKeeps
<1> QED
  BY <1>1, <1>2, PTL DEF Spec

---------------------------------------------------------------------------
(* What follows from it                                                    *)

\* The segment of a lane that ends in its i-th slot.
Segment(seq, i, b, e) ==
  /\ i \in 1..Len(seq) /\ b \in 0..(i - 1) /\ DOMAIN e = 1..(i - b) /\ Quiet(seq, b + 1, i)
  /\ \A k \in 1..(i - b) : e[k] = seq[b + k] /\ b + k \in 1..Len(seq) /\ b + k \in (b + 1)..i
  /\ b # 0 => b \in 1..Len(seq) /\ seq[b].done

LEMMA SegmentFacts ==
  ASSUME NEW seq \in Seq(Slot), NEW i \in Ends(seq)
  PROVE  Segment(seq, i, Start(seq, i), SubSeq(seq, Start(seq, i) + 1, i))
<1> SUFFICES ASSUME NEW b, b = Start(seq, i), NEW e, e = SubSeq(seq, b + 1, i)
             PROVE  Segment(seq, i, b, e)
  OBVIOUS
<1>1. Len(seq) \in Nat /\ i \in 1..Len(seq)
  BY DEF Ends
<1>2. b \in 0..(i - 1) /\ Quiet(seq, b + 1, i) /\ (b # 0 => b \in 1..Len(seq) /\ seq[b].done)
  BY <1>1, StartFacts
<1>3. \A k \in 1..(i - b) : b + k \in 1..Len(seq) /\ b + k \in (b + 1)..i
  BY <1>1, <1>2
<1>4. /\ b \in Nat /\ b + 1 \in 1..(Len(seq) + 1) /\ i \in b..Len(seq) /\ i \in (b + 1)..Len(seq)
  BY <1>1, <1>2
<1>5. DOMAIN e = 1..(i - b) /\ \A k \in 1..(i - b) : e[k] = seq[b + k]
  <2>1. /\ Len(e) = (IF b + 1 <= i THEN i - (b + 1) + 1 ELSE 0)
        /\ \A k \in 1..(i - (b + 1) + 1) : e[k] = seq[(b + 1) + k - 1]
        /\ e \in Seq(Slot)
    BY <1>4, SubSeqProperties
  <2>2. b + 1 <= i /\ i - (b + 1) + 1 = i - b /\ \A k \in 1..(i - b) : (b + 1) + k - 1 = b + k
    BY <1>1, <1>2
  <2> QED
    BY <2>1, <2>2
<1> QED
  BY <1>1, <1>2, <1>3, <1>5 DEF Segment

LEMMA EpisodesAreWhole ==
  ASSUME IInv
  PROVE  WholeEpisodes
<1> SUFFICES ASSUME pc = "ingest", NEW s \in Stages, NEW e \in Complete(s)
             PROVE  /\ (cfg.auto /\ evals > 0) \/ e[1].n = 0
                    /\ \/ cfg.auto /\ evals > 0 /\ cfg.async /\ cfg.shared
                       \/ \A i \in DOMAIN e : e[i].ep = e[1].ep /\ e[i].n = e[1].n + i - 1
  BY DEF WholeEpisodes
<1>t. TypeOK /\ batch # None /\ evals \in Nat
  BY DEF IInv, TypeOK
<1>0. Lane(s) \in Seq(Slot) /\ Held(s) = Lane(s) /\ buffer[s] \in Seq(Slot) /\ batch.slots[s] \in Seq(Slot)
  BY <1>t, LaneParts DEF Held
<1>1. PICK last \in Ends(Lane(s)) : /\ last - Start(Lane(s), last) > 1
                                    /\ e = SubSeq(Lane(s), Start(Lane(s), last) + 1, last)
  BY DEF Complete
<1>2. PICK b : b = Start(Lane(s), last)
  OBVIOUS
<1>3. /\ last \in 1..Len(Lane(s)) /\ b \in 0..(last - 1) /\ DOMAIN e = 1..(last - b) /\ Quiet(Lane(s), b + 1, last)
      /\ \A k \in 1..(last - b) : /\ e[k] = Lane(s)[b + k]
                                  /\ b + k \in 1..Len(Lane(s)) /\ b + k \in (b + 1)..last
      /\ b # 0 => b \in 1..Len(Lane(s)) /\ Lane(s)[b].done
  <2>1. Segment(Lane(s), last, Start(Lane(s), last), SubSeq(Lane(s), Start(Lane(s), last) + 1, last))
    BY <1>0, SegmentFacts
  <2>2. Segment(Lane(s), last, b, e)
    BY <1>1, <1>2, <2>1
  <2> QED
    BY <2>2 DEF Segment
<1>4. Len(Lane(s)) \in Nat /\ last - b > 1 /\ 1 \in 1..(last - b) /\ b \in Nat /\ last \in Nat
  BY <1>0, <1>1, <1>2, <1>3
<1>5. e[1] = Lane(s)[b + 1] /\ b + 1 \in 1..Len(Lane(s))
  BY <1>3, <1>4
<1>6. ASSUME NEW k \in 1..(last - b)
      PROVE  Quiet(Lane(s), b + 1, b + k) /\ b + 1 <= b + k /\ (b + k) - (b + 1) = k - 1
  <2>1. b + 1 \in Nat /\ b + k \in (b + 1)..last
    BY <1>3, <1>4
  <2> QED
    BY <1>3, <1>4, <2>1, QuietParts
<1>7. CASE cfg.auto
  <2>1. /\ Flow(InFlight(s), Lane(s), TrainSim(s), Unbroken, LinkedNow, evals = 0)
        /\ evals = 0 => Unbroken
    BY <1>0, <1>7, StreamParts DEF IInv, Unbroken
  <2>2. ASSUME Unbroken, NEW k \in DOMAIN e PROVE e[k].ep = e[1].ep /\ e[k].n = e[1].n + k - 1
    <3>1. InSequence(Lane(s)) /\ k \in 1..(last - b)
      BY <1>3, <2>1, <2>2 DEF Flow
    <3>2. /\ Lane(s)[b + k].ep = Lane(s)[b + 1].ep
          /\ Lane(s)[b + k].n = Lane(s)[b + 1].n + ((b + k) - (b + 1))
      BY <1>3, <1>5, <1>6, <3>1 DEF InSequence
    <3>3. e[k] = Lane(s)[b + k] /\ (b + k) - (b + 1) = k - 1
      BY <1>3, <1>6, <3>1
    <3>4. Lane(s)[b + 1].n \in Nat
      BY <1>0, <1>5, SlotOf
    <3> QED
      BY <1>5, <3>1, <3>2, <3>3, <3>4
  <2>3. ASSUME evals = 0 PROVE e[1].n = 0
    <3>1. InSequence(Lane(s)) /\ Opens(Lane(s), Opens(InFlight(s), TrainSim(s))).n = 0
      BY <2>1, <2>3 DEF Flow
    <3>2. CASE b = 0
      <4>1. Lane(s) # <<>>
        BY <1>5, EmptyLane
      <4> QED
        BY <1>5, <3>1, <3>2, <4>1 DEF Opens
    <3>3. CASE b # 0
      <4>1. b \in 1..Len(Lane(s)) /\ Lane(s)[b].done /\ b < Len(Lane(s))
        BY <1>3, <1>4, <1>5, <3>3
      <4> QED
        BY <1>5, <3>1, <4>1 DEF InSequence
    <3> QED
      BY <3>2, <3>3
  <2>4. evals = 0 \/ evals > 0
    BY <1>t
  <2>5. Unbroken \/ (evals > 0 /\ cfg.async /\ cfg.shared)
    BY <2>4 DEF Unbroken
  <2> QED
    BY <1>7, <2>2, <2>3, <2>4, <2>5
<1>8. CASE ~cfg.auto
  <2>1. OneEpisode(batch.slots[s]) /\ buffer[s] = <<>>
    BY <1>t, <1>8, SingleParts DEF IInv
  <2>2. OneEpisode(Lane(s))
    <3>1. Lane(s) = batch.slots[s]
      BY <1>0, <2>1, ConcatEmptySeq DEF Lane
    <3> QED
      BY <2>1, <3>1
  <2>3. b = 0
    <3>1. ASSUME b # 0 PROVE FALSE
      <4>1. b \in 1..Len(Lane(s)) /\ Lane(s)[b].done /\ last \in 1..Len(Lane(s)) /\ Lane(s)[last].done /\ b < last
        BY <1>3, <1>4, <3>1 DEF Ends
      <4> QED
        BY <2>2, <4>1 DEF OneEpisode
    <3> QED
      BY <3>1
  <2>4. ASSUME NEW k \in DOMAIN e PROVE e[k].ep = Lane(s)[1].ep /\ e[k].n = k - 1
    <3>1. k \in 1..(last - b) /\ b + k = k
      BY <1>3, <1>4, <2>3
    <3>2. Quiet(Lane(s), 1, k) /\ k \in 1..Len(Lane(s)) /\ e[k] = Lane(s)[k]
      BY <1>3, <1>6, <2>3, <3>1
    <3> QED
      BY <2>2, <3>2 DEF OneEpisode
  <2>5. 1 \in DOMAIN e /\ DOMAIN e \subseteq Nat
    BY <1>3, <1>4
  <2>6. e[1].n = 0 /\ e[1].ep = Lane(s)[1].ep
    BY <2>4, <2>5
  <2>7. ASSUME NEW k \in DOMAIN e PROVE e[k].ep = e[1].ep /\ e[k].n = e[1].n + k - 1
    BY <2>4, <2>5, <2>6
  <2> QED
    BY <2>6, <2>7
<1> QED
  BY <1>7, <1>8

LEMMA RecordsAreExact ==
  ASSUME IInv
  PROVE  RecordsExact
<1> SUFFICES ASSUME AllPlayed, NEW r \in Records, run.kind = "eval" \/ ~cfg.auto \/ evals = 0
             PROVE  r.length = run.slots[r.stage][r.at].n + 1
  <2>1. TypeOK /\ run # Idle => (run.kind = "train" \/ run.kind = "eval") /\ evals \in Nat
    BY Kinds DEF TypeOK
  <2> QED
    BY <2>1 DEF RecordsExact, IInv, AllPlayed
<1>t. TypeOK /\ run # Idle /\ Window \in Nat /\ Window > 0
  BY RolloutAssumption DEF IInv, AllPlayed
<1>1. CASE cfg.auto
  <2>1. PICK s \in Stages : \E i \in Ends(run.slots[s]) :
          r = [stage |-> s, at |-> i,
               length |-> i - Start(run.slots[s], i) + (IF Start(run.slots[s], i) = 0 THEN run.carry[s] ELSE 0)]
    BY <1>1 DEF Records
  <2>2. PICK i \in Ends(run.slots[s]) :
          r = [stage |-> s, at |-> i,
               length |-> i - Start(run.slots[s], i) + (IF Start(run.slots[s], i) = 0 THEN run.carry[s] ELSE 0)]
    BY <2>1
  <2>3. /\ run.slots[s] \in Seq(Slot) /\ run.carry[s] \in Nat /\ i \in 1..Len(run.slots[s]) /\ Len(run.slots[s]) \in Nat
    BY <1>t, RunParts DEF Ends
  <2>4. Playing(run.slots[s], sims[Pool(run.kind)][s], run.carry[s], TRUE)
    BY <1>t, <1>1, StreamParts DEF IInv, Playing
  <2>5. run.slots[s][1].n = run.carry[s]
    <3>1. run.slots[s] # <<>>
      BY <2>3, EmptyLane
    <3> QED
      BY <2>4, <3>1 DEF Playing, Opens
  <2>6. PICK b : b = Start(run.slots[s], i)
    OBVIOUS
  <2>7. /\ b \in Nat /\ b < i
        /\ run.slots[s][i].n = IF b = 0 THEN run.slots[s][1].n + (i - 1) ELSE i - b - 1
    BY <2>3, <2>4, <2>6, LengthIsStep DEF Playing
  <2>8. r.stage = s /\ r.at = i /\ r.length = i - b + (IF b = 0 THEN run.carry[s] ELSE 0)
    BY <2>2, <2>6
  <2>9. i \in Nat /\ run.carry[s] \in Nat
    BY <2>3
  <2> QED
    BY <2>5, <2>7, <2>8, <2>9
<1>2. CASE ~cfg.auto
  <2>1. PICK s \in Stages :
          LET e == {i \in Ends(run.slots[s]) : Start(run.slots[s], i) = 0}
              i == IF e = {} THEN Window ELSE Last(e)
          IN r = [stage |-> s, at |-> i, length |-> i]
    BY <1>2 DEF Records
  <2>2. PICK e : e = {i \in Ends(run.slots[s]) : Start(run.slots[s], i) = 0}
    OBVIOUS
  <2>3. PICK i : i = IF e = {} THEN Window ELSE Last(e)
    OBVIOUS
  <2>4. r.stage = s /\ r.at = i /\ r.length = i
    BY <2>1, <2>2, <2>3
  <2>5. run.slots[s] \in Seq(Slot) /\ Len(run.slots[s]) = Window /\ OneEpisode(run.slots[s])
    BY <1>t, <1>2, RunParts, SingleParts DEF IInv, AllPlayed, Alone
  <2>6. i \in 1..Window /\ Quiet(run.slots[s], 1, i)
    <3>1. CASE e # {}
      <4>1. i \in e /\ i \in 1..Len(run.slots[s])
        BY <1>t, <2>2, <2>3, <2>5, <3>1, LastOfEnds
      <4>2. Start(run.slots[s], i) = 0
        BY <2>2, <4>1
      <4>3. Quiet(run.slots[s], Start(run.slots[s], i) + 1, i)
        BY <1>t, <2>5, <4>1, StartFacts
      <4> QED
        BY <2>5, <4>1, <4>2, <4>3
    <3>2. CASE e = {}
      <4>1. ASSUME NEW j \in Ends(run.slots[s]) PROVE FALSE
        <5>1. j \in 1..Len(run.slots[s]) /\ run.slots[s][j].done /\ Start(run.slots[s], j) # 0
          BY <2>2, <3>2, <4>1 DEF Ends
        <5>2. PICK b : b = Start(run.slots[s], j)
          OBVIOUS
        <5>3. b \in 1..Len(run.slots[s]) /\ run.slots[s][b].done /\ b \in 0..(j - 1)
          BY <1>t, <2>5, <5>1, <5>2, StartFacts
        <5>4. b < j
          BY <1>t, <2>5, <5>1, <5>3
        <5> QED
          BY <2>5, <5>1, <5>3, <5>4 DEF OneEpisode
      <4>2. i = Window
        BY <2>3, <3>2
      <4>3. Quiet(run.slots[s], 1, Window)
        BY <1>t, <2>5, <4>1 DEF Quiet, Ends
      <4> QED
        BY <1>t, <4>2, <4>3
    <3> QED
      BY <3>1, <3>2
  <2>7. run.slots[s][i].n = i - 1
    BY <2>5, <2>6 DEF OneEpisode
  <2>8. i \in Nat
    BY <1>t, <2>6
  <2> QED
    BY <2>4, <2>7, <2>8
<1> QED
  BY <1>1, <1>2

---------------------------------------------------------------------------
(* The promises                                                            *)

\* A rollout, on all its stages, is collected under one weight version, and the
\* trainer updates on the current one or, with async_rollout, on one no older
\* than the previous call of rollout() (update_weights, TrainCluster.rollout).
THEOREM BatchesAreRecent == Spec => []PolicyVersion
<1>1. IInv => PolicyVersion
  BY DEF IInv, PolicyVersion, Versions
<1> QED
  BY <1>1, Invariance, PTL

\* Every rollout that was started is handed to the trainer once and in order,
\* also over an evaluation that comes between (TrainCluster.rollout and eval).
THEOREM BatchesComeInOrder == Spec => []EachBatchOnce
<1>1. IInv => EachBatchOnce
  BY DEF IInv, Ledger
<1> QED
  BY <1>1, Invariance, PTL

\* The policy always acts on the observation the simulator shows, also on the
\* first step after a prefetched reset or an evaluation (EnvLoop).
THEOREM ObservationsAreCurrent == Spec => []FreshObs
<1>1. IInv => FreshObs
  BY DEF IInv
<1> QED
  BY <1>1, Invariance, PTL

\* What EpisodeBuffer.ingest hands out is one episode, in order and without a
\* gap, and up to the first evaluation from the episode's first step on.
THEOREM EpisodesStayWhole == Spec => []WholeEpisodes
<1>1. IInv => WholeEpisodes
  BY EpisodesAreWhole
<1> QED
  BY <1>1, Invariance, PTL

\* The length in a trajectory record is the number of steps the episode took,
\* over however many rollouts (_collect_trajectory_records).
THEOREM RecordLengthsAreTrue == Spec => []RecordsExact
<1>1. IInv => RecordsExact
  BY RecordsAreExact
<1> QED
  BY <1>1, Invariance, PTL

=============================================================================
