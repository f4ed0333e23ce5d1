----------------------------- MODULE RedisQuota -----------------------------
(***************************************************************************)
(* The fixed-period quota counter of the Redis backend (g2-storage,        *)
(* redis.rs: QUOTA_SCRIPT and check_quota) for one key.  The script is     *)
(* atomic and counts denied requests too.  The environment may strip the   *)
(* key of its expiry (a restore, an operator's PERSIST), the case the      *)
(* script defends against.                                                 *)
(***************************************************************************)
EXTENDS Limits

VARIABLES
    count,      \* the counter; 0: no such key
    ends,       \* when the key expires; -1: no expiry
    verdict     \* the last decision

quotaVars == <<clock, count, ends, verdict>>

QuotaTypeOK ==
    /\ clock \in Times
    /\ count \in 0 .. MaxCount
    /\ ends \in Nat \cup {-1}
    /\ verdict \in {"none", "allow", "deny"}

QuotaInit == clock = 0 /\ count = 0 /\ ends = -1 /\ verdict = "none"

-----------------------------------------------------------------------------
\* The key as a command sees it: an expired key does not exist.
Exists == count > 0 /\ (ends = -1 \/ ends > clock)

\* INCR on the key.
Incremented == IF Exists THEN count + 1 ELSE 1

\* Mutant: every call renews the expiry.
QuotaScriptSliding ==
    /\ Incremented <= MaxCount
    /\ count' = Incremented
    /\ ends' = clock + Period
    /\ verdict' = IF Incremented > Max THEN "deny" ELSE "allow"
    /\ UNCHANGED clock

\* Mutant: without the defence against a key that has no expiry.
QuotaScriptTrusting ==
    /\ Incremented <= MaxCount
    /\ count' = Incremented
    /\ ends' = IF Incremented = 1 THEN clock + Period ELSE ends
    /\ verdict' = IF Incremented > Max THEN "deny" ELSE "allow"
    /\ UNCHANGED clock

\* The script: INCR; a fresh counter gets its expiry, and so does one whose
\* PTTL says it has none; the decision compares the count with max.
QuotaScript ==
    /\ Incremented <= MaxCount
    /\ count' = Incremented
    /\ ends' = IF Incremented = 1 \/ ends = -1 THEN clock + Period ELSE ends
    /\ verdict' = IF Incremented > Max THEN "deny" ELSE "allow"
    /\ UNCHANGED clock

\* The server's active expiry cycle deletes an expired key.
ExpireCounter ==
    /\ count > 0
    /\ ~Exists
    /\ count' = 0
    /\ ends' = -1
    /\ UNCHANGED <<clock, verdict>>

LoseExpiry ==
    /\ Exists
    /\ ends' = -1
    /\ UNCHANGED <<clock, count, verdict>>

QuotaTick ==
    /\ clock < MaxClock
    /\ clock' = clock + 1
    /\ UNCHANGED <<count, ends, verdict>>

QuotaNext == QuotaScript \/ ExpireCounter \/ LoseExpiry \/ QuotaTick

QuotaSpec == QuotaInit /\ [][QuotaNext]_quotaVars

-----------------------------------------------------------------------------
QuotaContract == INSTANCE QuotaPeriod WITH
    start <- IF ~Exists THEN -1 ELSE IF ends = -1 THEN -2 ELSE ends - Period,
    used  <- IF ~Exists THEN 0 ELSE IF count > Max THEN Max ELSE count,
    answer <- verdict

\* Redis keeps the quota contract (QUOTA_SCRIPT): counting denied requests never
\* extends the period, a period admits at most Max, the key's expiry is the
\* period's end, and a counter that lost its expiry is given one by the next call.
ImplementsQuotaPeriod == QuotaContract!Spec

\* No call leaves a counter that denies for longer than one period, even if
\* the key had lost its expiry: the reset time reported to the client is real.
EveryCallBoundsThePeriod ==
    [][count' # count /\ count' > 0 => ends' > clock /\ ends' <= clock + Period]_quotaVars
=============================================================================
