----------------------------- MODULE RedisRate ------------------------------
(***************************************************************************)
(* The sliding-window-log rate check of the Redis backend (g2-storage,     *)
(* redis.rs: RATE_SCRIPT and check_rate) for one key.  The script runs     *)
(* atomically on the server's clock, so one call is one action whichever   *)
(* pod makes it.  The key holds a sorted set of members `now-suffix'       *)
(* scored by the millisecond and expires Window after the last ZADD.       *)
(* The server drops an expired key at any time from its expiry on, and a   *)
(* call that finds an expired key behaves as if it were gone.              *)
(***************************************************************************)
EXTENDS Limits, FiniteSets

CONSTANT Suffixes   \* ARGV[3]: the random values that keep members unique

VARIABLES
    zset,       \* the key's sorted set: records [score, suffix]
    expiry,     \* when the key expires; meaningless while zset is empty
    answer,     \* the last decision
    admitted    \* history: every member ever added

rateVars == <<clock, zset, expiry, answer, admitted>>

Members == [score : Times, suffix : Suffixes]

RateTypeOK ==
    /\ clock \in Times
    /\ zset \in SUBSET Members
    /\ expiry \in Nat
    /\ answer \in {"none", "allow", "deny"}
    /\ admitted \in SUBSET Members

RateInit ==
    /\ clock = 0
    /\ zset = {}
    /\ expiry = 0
    /\ answer = "none"
    /\ admitted = {}

-----------------------------------------------------------------------------
\* The key as a command sees it: an expired key does not exist.
Live == IF expiry <= clock THEN {} ELSE zset

\* Mutant: the purge reaches one millisecond too far.
PurgedEarly(S, now) == {e \in S : ~(e.score <= now - Window + 1)}

\* ZREMRANGEBYSCORE key -inf now-window: the bound is inclusive.
Purged(S, now) == {e \in S : ~(e.score <= now - Window)}

\* The script's allowing branch: ZADD, PEXPIRE, return 1.
AllowRate ==
    /\ Cardinality(Purged(Live, clock)) < Limit
    /\ \E u \in Suffixes :
          LET member == [score |-> clock, suffix |-> u] IN
          /\ member \notin Purged(Live, clock)
          /\ zset' = Purged(Live, clock) \cup {member}
          /\ admitted' = admitted \cup {member}
    /\ expiry' = clock + Window
    /\ answer' = "allow"
    /\ UNCHANGED clock

\* Mutant: a denied request is recorded too.
DenyRateRecorded ==
    /\ ~(Cardinality(Purged(Live, clock)) < Limit)
    /\ \E u \in Suffixes : zset' = Purged(Live, clock) \cup {[score |-> clock, suffix |-> u]}
    /\ expiry' = clock + Window
    /\ answer' = "deny"
    /\ UNCHANGED <<clock, admitted>>

\* The denying branch: the purge has happened, nothing is recorded and the
\* expiry is not extended.
DenyRate ==
    /\ ~(Cardinality(Purged(Live, clock)) < Limit)
    /\ zset' = Purged(Live, clock)
    /\ answer' = "deny"
    /\ UNCHANGED <<clock, expiry, admitted>>

\* The server's active expiry cycle.
ExpireWindow ==
    /\ zset # {}
    /\ expiry <= clock
    /\ zset' = {}
    /\ UNCHANGED <<clock, expiry, answer, admitted>>

RateTick ==
    /\ clock < MaxClock
    /\ clock' = clock + 1
    /\ UNCHANGED <<zset, expiry, answer, admitted>>

RateNext == AllowRate \/ DenyRate \/ ExpireWindow \/ RateTick

RateSpec == RateInit /\ [][RateNext]_rateVars

-----------------------------------------------------------------------------
RateContract == INSTANCE RateWindow WITH Ids <- Suffixes

\* Redis keeps the storage contract: neither the inclusive purge nor the key's
\* expiry ever forgets a request that still counts or counts one that does
\* not, so each call decides as the sliding-window log does.
ImplementsRateWindow == RateContract!Spec

\* No boundary burst: whatever the instant, at most Limit allowed requests lie
\* in the window that ends there.
NoBurst ==
    \A t \in Times : t <= clock =>
        Cardinality({e \in admitted : e.score > t - Window /\ e.score <= t}) <= Limit
=============================================================================
