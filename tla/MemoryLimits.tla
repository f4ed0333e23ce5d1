---------------------------- MODULE MemoryLimits ----------------------------
(***************************************************************************)
(* check_rate and check_quota of the in-memory backend (g2-storage,        *)
(* memory.rs) for one key each.  A call reads the clock first and only     *)
(* then awaits the write lock, so calls enter their critical sections in   *)
(* an order that need not be the order of their clock readings.  The       *)
(* critical section contains no await: it is one action.                   *)
(***************************************************************************)
EXTENDS Limits, Sequences, FiniteSets

CONSTANTS
    Calls,      \* tasks that may be inside the backend at once
    MaxAllowed  \* bound on the requests the rate check may allow in a behaviour

ASSUME MemoryAssumption ==
    /\ IsFiniteSet(Calls)
    /\ Calls # {}
    /\ MaxAllowed \in Nat

VARIABLES
    log,        \* windows[key]: timestamps of allowed requests, oldest first
    quota,      \* quotas[key]: [count, resetsAt]; count 0 means no entry yet
    pc,         \* "idle", or the lock the call waits for
    now,        \* the call's Instant::now()
    allowed,    \* history: timestamps of all requests the rate check allowed
    granted,    \* history: requests the quota allowed in the current entry
    renewed     \* history: when (by its own clock) the current entry began

memVars == <<clock, log, quota, pc, now, allowed, granted, renewed>>


MemTypeOK ==
    /\ clock \in Times
    /\ log \in Seq(Times)
    /\ quota \in [count : 0 .. MaxCount, resetsAt : Nat]
    /\ pc \in [Calls -> {"idle", "rate", "quota"}]
    /\ now \in [Calls -> Times]
    /\ allowed \in Seq(Times)
    /\ granted \in Nat
    /\ renewed \in Times

MemInit ==
    /\ clock = 0
    /\ log = << >>
    /\ quota = [count |-> 0, resetsAt |-> 0]
    /\ pc = [c \in Calls |-> "idle"]
    /\ now = [c \in Calls |-> 0]
    /\ allowed = << >>
    /\ granted = 0
    /\ renewed = 0

-----------------------------------------------------------------------------
MemTick ==
    /\ clock < MaxClock
    /\ clock' = clock + 1
    /\ UNCHANGED <<log, quota, pc, now, allowed, granted, renewed>>

\* A call reads the clock and queues for the lock of its map.
Call(c, check) ==
    /\ pc[c] = "idle"
    /\ pc' = [pc EXCEPT ![c] = check]
    /\ now' = [now EXCEPT ![c] = clock]
    /\ UNCHANGED <<clock, log, quota, allowed, granted, renewed>>

\* `now - t' on Instants saturates at zero.
Age(t, at) == IF at >= t THEN at - t ELSE 0

\* Mutant: a timestamp is dropped one instant before its window has passed.
SlidEarly(s, at) ==
    LET keep == {i \in 1 .. Len(s) : Age(s[i], at) < Window - 1}
        first == CHOOSE i \in keep : \A j \in keep : i <= j
    IN  IF keep = {} THEN << >> ELSE SubSeq(s, first, Len(s))

\* The pop_front loop: it stops at the first timestamp still in the window,
\* even if older ones stand behind it.
Slid(s, at) ==
    LET keep == {i \in 1 .. Len(s) : Age(s[i], at) < Window}
        first == CHOOSE i \in keep : \A j \in keep : i <= j
    IN  IF keep = {} THEN << >> ELSE SubSeq(s, first, Len(s))

\* check_rate's critical section; an empty log at limit 0 is removed, which
\* is the same as an empty log.
CheckRate(c) ==
    /\ pc[c] = "rate"
    /\ LET s == Slid(log, now[c]) IN
       \/ /\ Len(s) < Limit
          /\ Len(allowed) < MaxAllowed
          /\ log' = Append(s, now[c])
          /\ allowed' = Append(allowed, now[c])
       \/ /\ ~(Len(s) < Limit)
          /\ log' = s
          /\ UNCHANGED allowed
    /\ pc' = [pc EXCEPT ![c] = "idle"]
    /\ UNCHANGED <<clock, quota, now, granted, renewed>>

\* Mutant: an entry is renewed one instant before it has elapsed.
RenewsEarly(at) == quota.count = 0 \/ quota.resetsAt <= at + 1

\* A missing entry is inserted, an elapsed one replaced.
Renews(at) == quota.count = 0 \/ quota.resetsAt <= at

\* Mutant: one request too many.
DeniedLate(n) == n > Max + 1

Denied(n) == n > Max

\* check_quota's critical section: or_insert, renew an elapsed entry, count
\* the request whether or not it is allowed.
CheckQuota(c) ==
    /\ pc[c] = "quota"
    /\ LET renews == Renews(now[c])
           n == IF renews THEN 1 ELSE quota.count + 1
       IN  /\ n <= MaxCount
           /\ quota' = [count |-> n,
                        resetsAt |-> IF renews THEN now[c] + Period ELSE quota.resetsAt]
           /\ granted' = (IF renews THEN 0 ELSE granted) + (IF Denied(n) THEN 0 ELSE 1)
           /\ renewed' = IF renews THEN now[c] ELSE renewed
    /\ pc' = [pc EXCEPT ![c] = "idle"]
    /\ UNCHANGED <<clock, log, now, allowed>>

MemNext ==
    \/ MemTick
    \/ \E c \in Calls : \/ Call(c, "rate") \/ Call(c, "quota")
                        \/ CheckRate(c) \/ CheckQuota(c)

MemSpec == MemInit /\ [][MemNext]_memVars

-----------------------------------------------------------------------------
\* A quota entry grants at most Max requests, also to calls whose clock reading
\* predates the entry.
QuotaRespected == granted <= Max

\* A quota entry is renewed only a full period after the previous one began:
\* a call delayed on the lock cannot cut a period short.
PeriodsApart ==
    [][renewed' # renewed /\ quota.count > 0 => renewed' >= renewed + Period]_memVars

\* How far the sliding window bends (check_rate): a call that read the clock
\* early and got the lock late is judged by a log from which a later call has
\* already dropped requests that, at the early call's own time, still counted.
\* So a window may hold more than Limit allowed requests, but at most one more
\* for every other call that may be waiting for the lock.
OverrunBounded ==
    \A t \in Times :
        Cardinality({i \in DOMAIN allowed : t - Window < allowed[i] /\ allowed[i] <= t})
            <= Limit + Cardinality(Calls) - 1
=============================================================================
