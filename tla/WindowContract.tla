--------------------------- MODULE WindowContract ---------------------------
(***************************************************************************)
(* What a collection window promises its users, without files, leases or   *)
(* collectors: every candidate gets at most one verdict, and the window    *)
(* closes once, either with a trainable selection of accepted groups or,   *)
(* when no candidate is left, as insufficient.                             *)
(***************************************************************************)
EXTENDS Naturals, FiniteSets

CONSTANTS Candidates, Minimum

VARIABLES verdict, outcome, selected

vars == <<verdict, outcome, selected>>

Verdicts == {"accepted", "rejected", "skipped"}

With(v) == {c \in Candidates : verdict[c] = v}

Init ==
  /\ verdict = [c \in Candidates |-> "open"]
  /\ outcome = "none"
  /\ selected = {}

\* One group is committed, or the operator skips some candidates at once.
Decide(S, v) ==
  /\ outcome = "none"
  /\ S # {} /\ S \subseteq With("open")
  /\ verdict' = [c \in Candidates |-> IF c \in S THEN v ELSE verdict[c]]
  /\ UNCHANGED <<outcome, selected>>

CloseReady(S) ==
  /\ outcome = "none"
  /\ S \subseteq With("accepted") /\ Cardinality(S) >= Minimum
  /\ outcome' = "ready" /\ selected' = S
  /\ UNCHANGED verdict

CloseInsufficient ==
  /\ outcome = "none"
  /\ With("open") = {} /\ Cardinality(With("accepted")) < Minimum
  /\ outcome' = "insufficient"
  /\ UNCHANGED <<verdict, selected>>

Next ==
  \/ \E S \in SUBSET Candidates, v \in Verdicts : Decide(S, v)
  \/ \E S \in SUBSET Candidates : CloseReady(S)
  \/ CloseInsufficient

Spec == Init /\ [][Next]_vars
=============================================================================
