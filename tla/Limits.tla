------------------------------- MODULE Limits -------------------------------
(***************************************************************************)
(* The arguments of Storage::check_rate and Storage::check_quota           *)
(* (g2-storage, lib.rs) for one key, and the clock the backend reads.      *)
(***************************************************************************)
EXTENDS Integers

CONSTANTS
    Limit,      \* check_rate: requests per window, 0 denies everything
    Window,     \* check_rate: length of the window
    Max,        \* check_quota: requests per period, 0 denies everything
    Period,     \* check_quota: length of the period
    MaxCount,   \* bound on the quota counter (denied requests count too)
    MaxClock    \* bound on the model's clock

ASSUME LimitsAssumption ==
    /\ {Limit, Max, MaxCount, MaxClock} \subseteq Nat
    /\ {Window, Period} \subseteq Nat \ {0}

VARIABLE clock  \* the backend's clock

Times == 0 .. MaxClock
=============================================================================
