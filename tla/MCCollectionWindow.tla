------------------------- MODULE MCCollectionWindow -------------------------
(* Small instances of CollectionWindow: who owns what. *)
EXTENDS CollectionWindow, TLC

\* Two array elements with one process each; z is a lingering process of the
\* first element, with the same owner id as its replacement a.
CONSTANTS a, z, b, ownerA, ownerB, jobA, jobB

ZombieOwner == (a :> ownerA) @@ (z :> ownerA) @@ (b :> ownerB)
PairOwner == (a :> ownerA) @@ (b :> ownerB)
PairSlot == (a :> 0) @@ (b :> 1)
ZombieSlot == (a :> 0) @@ (z :> 0) @@ (b :> 1)
PairElement == (ownerA :> jobA) @@ (ownerB :> jobB)
PairElementOwner == (jobA :> ownerA) @@ (jobB :> ownerB)

\* simulators_per_gpu = 2: both owner ids (job:lane:sim0, job:lane:sim1) belong
\* to one array element, and the watcher passes job:lane, which owns nothing.
SimElement == (ownerA :> jobA) @@ (ownerB :> jobA)
SimElementOwner == (jobA :> NoOwner)

QueueToTarget == {[mode |-> "target", leases |-> TRUE]}
AnyWindow == {[mode |-> "target", leases |-> TRUE], [mode |-> "drain", leases |-> TRUE],
              [mode |-> "round", leases |-> FALSE]}
=============================================================================
