------------------------------ MODULE MCEvalRun ------------------------------
(* Three items: two of one group, one of another; a packed and a coalesced launch. *)
EXTENDS EvalRun

Groups == [i \in 0..2 |-> IF i = 2 THEN 1 ELSE 0]
PackedLane == [lanes |-> 1, evaluators |-> 2, items |-> 1]
CoalescedLanes == [lanes |-> 2, evaluators |-> 1, items |-> 2]
BothTopologies == {PackedLane, CoalescedLanes}
=============================================================================
