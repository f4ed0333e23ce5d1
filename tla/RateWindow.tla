----------------------------- MODULE RateWindow -----------------------------
(***************************************************************************)
(* What Storage::check_rate promises (g2-storage, lib.rs), for one key: a  *)
(* request is allowed exactly when fewer than Limit allowed requests are   *)
(* younger than Window, each allowed request is remembered with its        *)
(* timestamp, and a denied request leaves no trace.                        *)
(***************************************************************************)
EXTENDS Integers, FiniteSets

CONSTANTS
    Limit,      \* requests per window
    Window,     \* length of the window
    Ids         \* tells apart requests of one instant

VARIABLES
    clock,      \* the backend's clock
    admitted,   \* every allowed request: [score, suffix]
    answer      \* the last decision

\* The allowed requests that still count at time t.
Counting(S, t) == {e \in S : e.score > t - Window}

Init ==
    /\ clock = 0
    /\ admitted = {}
    /\ answer = "none"

Allow ==
    /\ Cardinality(Counting(admitted, clock)) < Limit
    /\ \E id \in Ids :
          /\ [score |-> clock, suffix |-> id] \notin admitted
          /\ admitted' = admitted \cup {[score |-> clock, suffix |-> id]}
    /\ answer' = "allow"
    /\ UNCHANGED clock

Deny ==
    /\ ~(Cardinality(Counting(admitted, clock)) < Limit)
    /\ answer' = "deny"
    /\ UNCHANGED <<clock, admitted>>

Tick ==
    /\ clock' = clock + 1
    /\ UNCHANGED <<admitted, answer>>

Next == Allow \/ Deny \/ Tick

Spec == Init /\ [][Next]_<<clock, admitted, answer>>
=============================================================================
