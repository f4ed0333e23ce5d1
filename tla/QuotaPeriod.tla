---------------------------- MODULE QuotaPeriod -----------------------------
(***************************************************************************)
(* What Storage::check_quota promises (g2-storage, lib.rs), for one key:   *)
(* the first request of a period starts it, at most Max requests are       *)
(* allowed in it, and it ends exactly Period after its first request,      *)
(* whatever was asked meanwhile.  One fault is tolerated: a running period *)
(* may lose its end; the next request gives it a new one.                  *)
(***************************************************************************)
EXTENDS Integers

CONSTANTS Max, Period

VARIABLES
    clock,      \* the backend's clock
    start,      \* first request of the running period, NoPeriod or Endless
    used,       \* requests allowed in the running period
    answer      \* the last decision

\* Between periods; and a period that has lost its end.
NoPeriod == -1
Endless == -2

Init == clock = 0 /\ start = NoPeriod /\ used = 0 /\ answer = "none"

\* Requests allowed so far in the period a call falls into.
Spent == IF start = NoPeriod THEN 0 ELSE used

Opens == start' = IF start \in {NoPeriod, Endless} THEN clock ELSE start

Allow ==
    /\ Spent < Max
    /\ Opens
    /\ used' = Spent + 1
    /\ answer' = "allow"
    /\ UNCHANGED clock

Deny ==
    /\ Spent >= Max
    /\ Opens
    /\ used' = Spent
    /\ answer' = "deny"
    /\ UNCHANGED clock

Tick ==
    /\ clock' = clock + 1
    /\ IF start \notin {NoPeriod, Endless} /\ clock + 1 >= start + Period
       THEN start' = NoPeriod /\ used' = 0
       ELSE UNCHANGED <<start, used>>
    /\ UNCHANGED answer

\* The fault: nothing ends the running period any more.
LoseEnd ==
    /\ start # NoPeriod
    /\ start' = Endless
    /\ UNCHANGED <<clock, used, answer>>

Next == Allow \/ Deny \/ Tick \/ LoseEnd

Spec == Init /\ [][Next]_<<clock, start, used, answer>>
=============================================================================
