----------------------------- MODULE SpikeGuard -----------------------------
(***************************************************************************)
(* One shard of the pod-local spike guard (g2-middleware, spike.rs): a     *)
(* token bucket packed into an AtomicU64, shared by every request whose    *)
(* identity hashes onto it.  Shards never touch each other, so one is      *)
(* modelled.  One action per atomic operation: reading the clock, the      *)
(* load, and the compare_exchange_weak, each with the local computation    *)
(* that follows it.  A spurious failure of the weak CAS reloads the word   *)
(* it compared with, which changes nothing: it is a stuttering step.       *)
(***************************************************************************)
EXTENDS Integers

CONSTANTS
    Requests,   \* requests that may be inside try_acquire at once
    Capacity,   \* SpikeGuardConfig.capacity
    Refill,     \* SpikeGuardConfig.refill_per_sec
    MaxClock    \* bound: seconds since the guard's epoch

ASSUME GuardAssumption ==
    /\ Capacity \in Nat \ {0}
    /\ Refill \in Nat \ {0}
    /\ MaxClock \in Nat

VARIABLES
    clock,      \* seconds since epoch
    bucket,     \* the packed word: last refill second and tokens
    pc,         \* where each request is in try_acquire_at
    now,        \* the request's now_secs
    current,    \* the word the request will compare with
    mark,       \* history: an arbitrary instant, fixed at the start
    taken       \* history: tokens taken by requests that came at or after mark

vars == <<clock, bucket, pc, now, current, mark, taken>>

Times == 0 .. MaxClock
Buckets == [last : Times, tokens : 0 .. Capacity]
Full == [last |-> 0, tokens |-> Capacity]

TypeOK ==
    /\ clock \in Times
    /\ bucket \in Buckets
    /\ pc \in [Requests -> {"idle", "load", "cas"}]
    /\ now \in [Requests -> Times]
    /\ current \in [Requests -> Buckets]
    /\ mark \in Times
    /\ taken \in Nat

Init ==
    /\ clock = 0
    /\ bucket = Full
    /\ pc = [r \in Requests |-> "idle"]
    /\ now = [r \in Requests |-> 0]
    /\ current = [r \in Requests |-> Full]
    /\ mark \in Times
    /\ taken = 0

-----------------------------------------------------------------------------
\* u32 saturation is invisible: capacity fits in 32 bits and caps the sum.
AtMostCapacity(n) == IF n <= Capacity THEN n ELSE Capacity

\* Mutant: the credit does not move the refill instant.
CreditedInPlace(b, t) ==
    IF t > b.last
    THEN [b EXCEPT !.tokens = AtMostCapacity(@ + (t - b.last) * Refill)]
    ELSE b

\* Mutant: the credit comes a second late.
CreditedLate(b, t) ==
    IF t > b.last + 1
    THEN [last |-> t, tokens |-> AtMostCapacity(b.tokens + (t - b.last) * Refill)]
    ELSE b

\* The bucket b as a request at second t finds it: credited when at least one
\* whole second has passed (saturating_sub: a stale t credits nothing).
Credited(b, t) ==
    IF t > b.last
    THEN [last |-> t, tokens |-> AtMostCapacity(b.tokens + (t - b.last) * Refill)]
    ELSE b

\* Mutant: the word is always stamped with the request's own second.
SpentAt(b, t) == [last |-> t, tokens |-> Credited(b, t).tokens - 1]

\* The word a successful CAS writes.
Spent(b, t) == [Credited(b, t) EXCEPT !.tokens = @ - 1]

\* The loop body after a load of b: deny without writing, or go on to the CAS.
Evaluate(r, b) ==
    IF Credited(b, now[r]).tokens = 0
    THEN pc' = [pc EXCEPT ![r] = "idle"] /\ UNCHANGED current
    ELSE /\ pc' = [pc EXCEPT ![r] = "cas"]
         /\ current' = [current EXCEPT ![r] = b]

Tick ==
    /\ clock < MaxClock
    /\ clock' = clock + 1
    /\ UNCHANGED <<bucket, pc, now, current, mark, taken>>

TryAcquire(r) ==
    /\ pc[r] = "idle"
    /\ now' = [now EXCEPT ![r] = clock]
    /\ pc' = [pc EXCEPT ![r] = "load"]
    /\ UNCHANGED <<clock, bucket, current, mark, taken>>

Load(r) ==
    /\ pc[r] = "load"
    /\ Evaluate(r, bucket)
    /\ UNCHANGED <<clock, bucket, now, mark, taken>>

Take(r) ==
    /\ pc[r] = "cas"
    /\ bucket = current[r]
    /\ bucket' = Spent(current[r], now[r])
    /\ taken' = IF now[r] >= mark THEN taken + 1 ELSE taken
    /\ pc' = [pc EXCEPT ![r] = "idle"]
    /\ UNCHANGED <<clock, now, current, mark>>

\* The CAS lost: evaluate again with the word it found.
LoseRace(r) ==
    /\ pc[r] = "cas"
    /\ bucket # current[r]
    /\ Evaluate(r, bucket)
    /\ UNCHANGED <<clock, bucket, now, mark, taken>>

Step(r) == TryAcquire(r) \/ Load(r) \/ Take(r) \/ LoseRace(r)

Next == Tick \/ \E r \in Requests : Step(r)

Spec == Init /\ [][Next]_vars

-----------------------------------------------------------------------------
\* The guard's promise (try_acquire_at): for every instant `mark', requests
\* that came at or after it have taken at most one full burst plus the refill
\* of the seconds since.  Races, stale clock readings and lost CASes never mint
\* a token twice.
WindowBound ==
    taken <= Capacity + (IF clock >= mark THEN (clock - mark) * Refill ELSE 0)

\* A denial is earned: a request is turned away only when the bucket is empty
\* and no whole second has passed, by the request's clock, since the last
\* credit; no traffic pattern starves the bucket of refill it is owed.
DenialJustified ==
    [][\A r \in Requests :
          pc[r] # "idle" /\ pc'[r] = "idle" /\ UNCHANGED bucket =>
              bucket.tokens = 0 /\ now[r] <= bucket.last]_vars

\* The credit clock only moves forward, and never past the present.
CreditClock ==
    [][bucket'.last >= bucket.last /\ bucket'.last <= clock']_vars
=============================================================================
