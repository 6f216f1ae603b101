----------------------------- MODULE MCAsyncEnv -----------------------------
(* Small instances of AsyncEnv: two environments, so that one can be done    *)
(* while a step still runs the other.                                        *)
EXTENDS AsyncEnv

CONSTANTS e1, e2

MixedPlans == {1, 2, 4} \* replan_after_steps = 2: refused, exact and longer
=============================================================================
