--------------------------- MODULE CircuitBreaker ---------------------------
(***************************************************************************)
(* The lock-free circuit breaker of one route (g2-proxy, breaker.rs) and   *)
(* the way the forwarder uses it (forward.rs): every request asks          *)
(* try_acquire before it contacts the upstream and reports the final       *)
(* outcome with record_success or record_failure, or reports nothing when  *)
(* the client is gone or the outcome says nothing about the upstream.      *)
(*                                                                         *)
(* One action per atomic memory operation.  `word' is the packed           *)
(* (state, since) AtomicU64, `failures' the separate relaxed counter.      *)
(* The clock is read once, before the word is loaded, so `now[r]' may be   *)
(* arbitrarily old when it is used.                                        *)
(***************************************************************************)
EXTENDS Integers, FiniteSets

CONSTANTS
    Requests,   \* request slots of one route: the requests in flight together
    Threshold,  \* CircuitBreakerConfig.failure_threshold
    Cooldown,   \* CircuitBreakerConfig.cooldown_ms
    MaxClock    \* bound: the model's clock stops here

ASSUME ConfigAssumption ==
    /\ Threshold \in Nat \ {0}
    /\ Cooldown \in Nat \ {0}
    /\ MaxClock \in Nat

\* Only what counts the requests in flight together needs this.
ASSUME InFlightAssumption == IsFiniteSet(Requests)

VARIABLES
    clock,      \* milliseconds since the breaker's epoch
    word,       \* CircuitBreaker::state, unpacked
    failures,   \* CircuitBreaker::failures
    pc,         \* where each request is in forward / breaker code
    now,        \* the request's reading of now_ms()
    seen,       \* the word the request last loaded
    streak      \* history: failures counted since the last success or closing

vars == <<clock, word, failures, pc, now, seen, streak>>

States == {"CLOSED", "OPEN", "HALF_OPEN"}

\* pack(state, since): one word, so a CAS compares and replaces both parts.
Pack(state, since) == [state |-> state, since |-> since]

Closed == Pack("CLOSED", 0)

Times == 0 .. MaxClock
Words == [state : States, since : Times]

PCs == { "idle",      \* no request, or one that is done with the breaker
         "acquire",   \* try_acquire_at: about to load the word
         "claim",     \* try_acquire_at: about to CAS the trial slot
         "inflight",  \* admitted, upstream exchange under way
         "succeeded", \* record_success: failures reset, about to load
         "close",     \* record_success: about to CAS to closed
         "failed",    \* record_failure_at: about to load
         "reopen",    \* record_failure_at, half-open arm: about to CAS
         "count",     \* record_failure_at, closed arm: about to fetch_add
         "trip",      \* record_failure_at: threshold met, about to CAS
         "reset" }    \* record_failure_at: tripped, about to store 0

TypeOK ==
    /\ clock \in Times
    /\ word \in Words
    /\ failures \in Nat
    /\ pc \in [Requests -> PCs]
    /\ now \in [Requests -> Times]
    /\ seen \in [Requests -> Words]
    /\ streak \in Nat

Init ==
    /\ clock = 0
    /\ word = Closed
    /\ failures = 0
    /\ pc = [r \in Requests |-> "idle"]
    /\ now = [r \in Requests |-> 0]
    /\ seen = [r \in Requests |-> Closed]
    /\ streak = 0

-----------------------------------------------------------------------------
Goto(r, label) == pc' = [pc EXCEPT ![r] = label]

\* The request leaves the breaker's code and its locals go out of scope.
Leave(r) ==
    /\ Goto(r, "idle")
    /\ now' = [now EXCEPT ![r] = 0]
    /\ seen' = [seen EXCEPT ![r] = Closed]

\* compare_exchange succeeds exactly when the word is still the one loaded.
CasSucceeds(r) == word = seen[r]

Tick ==
    /\ clock < MaxClock
    /\ clock' = clock + 1
    /\ UNCHANGED <<word, failures, pc, now, seen, streak>>

\* A request reaches forward(): try_acquire reads the clock.
TryAcquire(r) ==
    /\ pc[r] = "idle"
    /\ now' = [now EXCEPT ![r] = clock]
    /\ Goto(r, "acquire")
    /\ UNCHANGED <<clock, word, failures, seen, streak>>

\* Mutant: only an open circuit grants a trial, an abandoned trial is not reclaimed.
LoadAcquireOpenOnly(r) ==
    /\ pc[r] = "acquire"
    /\ \/ /\ word.state = "CLOSED"
          /\ Goto(r, "inflight")
          /\ UNCHANGED <<now, seen>>
       \/ /\ word.state = "HALF_OPEN" \/ (word.state = "OPEN" /\ now[r] < word.since + Cooldown)
          /\ Leave(r)
       \/ /\ word.state = "OPEN"
          /\ now[r] >= word.since + Cooldown
          /\ seen' = [seen EXCEPT ![r] = word]
          /\ Goto(r, "claim")
          /\ UNCHANGED now
    /\ UNCHANGED <<clock, word, failures, streak>>

\* The load at the head of the loop: admitted when closed, rejected (503)
\* inside the cooldown, otherwise on to claim the trial slot.
LoadAcquire(r) ==
    /\ pc[r] = "acquire"
    /\ \/ /\ word.state = "CLOSED"
          /\ Goto(r, "inflight")
          /\ UNCHANGED <<now, seen>>
       \/ /\ word.state # "CLOSED"
          /\ now[r] < word.since + Cooldown
          /\ Leave(r)
       \/ /\ word.state # "CLOSED"
          /\ now[r] >= word.since + Cooldown
          /\ seen' = [seen EXCEPT ![r] = word]
          /\ Goto(r, "claim")
          /\ UNCHANGED now
    /\ UNCHANGED <<clock, word, failures, streak>>

\* Mutant: a plain store claims the slot.
ClaimTrialByStore(r) ==
    /\ pc[r] = "claim"
    /\ word' = Pack("HALF_OPEN", now[r])
    /\ Goto(r, "inflight")
    /\ UNCHANGED <<clock, failures, now, seen, streak>>

\* The CAS to HALF_OPEN: the winner is the trial, a loser loops.
ClaimTrial(r) ==
    /\ pc[r] = "claim"
    /\ \/ /\ CasSucceeds(r)
          /\ word' = Pack("HALF_OPEN", now[r])
          /\ Goto(r, "inflight")
       \/ /\ ~CasSucceeds(r)
          /\ Goto(r, "acquire")
          /\ UNCHANGED word
    /\ UNCHANGED <<clock, failures, now, seen, streak>>

\* The exchange ends without a verdict: the client went away (the future is
\* dropped), its body was too large (413), or no upstream URI could be built.
NoVerdict(r) ==
    /\ pc[r] = "inflight"
    /\ Leave(r)
    /\ UNCHANGED <<clock, word, failures, streak>>

\* record_success: failures.store(0).
RecordSuccess(r) ==
    /\ pc[r] = "inflight"
    /\ failures' = 0
    /\ streak' = 0
    /\ Goto(r, "succeeded")
    /\ UNCHANGED <<clock, word, now, seen>>

\* Mutant: any success closes a circuit that is not closed.
LoadSuccessAnyState(r) ==
    /\ pc[r] = "succeeded"
    /\ \/ /\ word.state # "CLOSED"
          /\ seen' = [seen EXCEPT ![r] = word]
          /\ Goto(r, "close")
          /\ UNCHANGED now
       \/ /\ word.state = "CLOSED"
          /\ Leave(r)
    /\ UNCHANGED <<clock, word, failures, streak>>

LoadSuccess(r) ==
    /\ pc[r] = "succeeded"
    /\ \/ /\ word.state = "HALF_OPEN"
          /\ seen' = [seen EXCEPT ![r] = word]
          /\ Goto(r, "close")
          /\ UNCHANGED now
       \/ /\ word.state # "HALF_OPEN"
          /\ Leave(r)
    /\ UNCHANGED <<clock, word, failures, streak>>

Close(r) ==
    /\ pc[r] = "close"
    /\ \/ /\ CasSucceeds(r)
          /\ word' = Closed
          /\ streak' = 0
       \/ /\ ~CasSucceeds(r)
          /\ UNCHANGED <<word, streak>>
    /\ Leave(r)
    /\ UNCHANGED <<clock, failures>>

\* record_failure (transport error, timeout, 5xx) reads the clock.
RecordFailure(r) ==
    /\ pc[r] = "inflight"
    /\ now' = [now EXCEPT ![r] = clock]
    /\ Goto(r, "failed")
    /\ UNCHANGED <<clock, word, failures, seen, streak>>

\* The load decides the arm; an open circuit takes no evidence.
LoadFailure(r) ==
    /\ pc[r] = "failed"
    /\ \/ /\ word.state # "OPEN"
          /\ seen' = [seen EXCEPT ![r] = word]
          /\ Goto(r, IF word.state = "HALF_OPEN" THEN "reopen" ELSE "count")
          /\ UNCHANGED now
       \/ /\ word.state = "OPEN"
          /\ Leave(r)
    /\ UNCHANGED <<clock, word, failures, streak>>

Reopen(r) ==
    /\ pc[r] = "reopen"
    /\ word' = IF CasSucceeds(r) THEN Pack("OPEN", now[r]) ELSE word
    /\ Leave(r)
    /\ UNCHANGED <<clock, failures, streak>>

\* Mutant: only the failure that meets the threshold exactly trips.
CountFailureExactly(r) ==
    /\ pc[r] = "count"
    /\ failures' = failures + 1
    /\ streak' = streak + 1
    /\ \/ /\ failures + 1 = Threshold
          /\ Goto(r, "trip")
          /\ UNCHANGED <<now, seen>>
       \/ /\ failures + 1 # Threshold
          /\ Leave(r)
    /\ UNCHANGED <<clock, word>>

\* fetch_add on the failure counter.
CountFailure(r) ==
    /\ pc[r] = "count"
    /\ failures' = failures + 1
    /\ streak' = streak + 1
    /\ \/ /\ failures + 1 >= Threshold
          /\ Goto(r, "trip")
          /\ UNCHANGED <<now, seen>>
       \/ /\ failures + 1 < Threshold
          /\ Leave(r)
    /\ UNCHANGED <<clock, word>>

\* Mutant: the word carries the end of the cooldown instead of its start.
TripUntil(r) ==
    /\ pc[r] = "trip"
    /\ \/ /\ CasSucceeds(r)
          /\ word' = Pack("OPEN", now[r] + Cooldown)
          /\ Goto(r, "reset")
          /\ UNCHANGED <<now, seen>>
       \/ /\ ~CasSucceeds(r)
          /\ Leave(r)
          /\ UNCHANGED word
    /\ UNCHANGED <<clock, failures, streak>>

Trip(r) ==
    /\ pc[r] = "trip"
    /\ \/ /\ CasSucceeds(r)
          /\ word' = Pack("OPEN", now[r])
          /\ Goto(r, "reset")
          /\ UNCHANGED <<now, seen>>
       \/ /\ ~CasSucceeds(r)
          /\ Leave(r)
          /\ UNCHANGED word
    /\ UNCHANGED <<clock, failures, streak>>

ResetFailures(r) ==
    /\ pc[r] = "reset"
    /\ failures' = 0
    /\ Leave(r)
    /\ UNCHANGED <<clock, word, streak>>

Acquire(r) == TryAcquire(r) \/ LoadAcquire(r) \/ ClaimTrial(r)

Report(r) ==
    \/ NoVerdict(r)
    \/ RecordSuccess(r) \/ LoadSuccess(r) \/ Close(r)
    \/ RecordFailure(r) \/ LoadFailure(r) \/ Reopen(r)
    \/ CountFailure(r) \/ Trip(r) \/ ResetFailures(r)

Next == Tick \/ \E r \in Requests : Acquire(r) \/ Report(r)

Spec == Init /\ [][Next]_vars

\* Time passes, requests keep arriving (the environment) and every admitted
\* request ends: the whole exchange runs under tokio::time::timeout.
Fairness ==
    /\ WF_vars(Tick)
    /\ \A r \in Requests : WF_vars(Acquire(r) \/ Report(r))

FairSpec == Spec /\ Fairness

-----------------------------------------------------------------------------
\* Admitted in this step.
Admits(r) == pc[r] # "inflight" /\ pc'[r] = "inflight"

\* try_acquire sheds load: at the instant a request is admitted the circuit is
\* closed, or a full cooldown (on the clock, not by the request's own reading)
\* has passed since the stamp of the last transition - itself a reading that may
\* be older than the transition - and this request takes the one trial slot
\* that replaces the current word.  Two racing requests can therefore never
\* both be the trial of one cooldown.
AdmissionRespectsCircuit ==
    [][\A r \in Requests : Admits(r) =>
          \/ word.state = "CLOSED"
          \/ /\ clock >= word.since + Cooldown
             /\ word' # word
             /\ word'.state = "HALF_OPEN"]_vars

\* Closing: whatever stragglers do, an open circuit reaches closed only
\* through half-open (record_success: a success while open is stale evidence).
OpenClosesOnlyThroughTrial ==
    [][word.state = "OPEN" => word'.state # "CLOSED"]_vars

\* No transition is stamped with a time that has not come, and a stalled
\* request never carries one: so from any reachable state a fresh request at
\* clock + Cooldown finds the trial slot open (record_failure_at, pack).
CooldownEnds ==
    /\ word.since <= clock
    /\ \A r \in Requests : now[r] <= clock /\ seen[r].since <= clock

\* The closed circuit's tolerance: the resets of stalled requests may wipe
\* the relaxed counter, but failures in a row without a trip stay bounded by
\* Threshold for each request in flight.
TripPointBounded ==
    word.state = "CLOSED" => streak <= Threshold * Cardinality(Requests)

\* No open or half-open word stays for good while requests arrive: a cooldown
\* ends in a trial and a trial whose client vanished is reclaimed.
NeverWedged ==
    \A w \in {v \in Words : v.state # "CLOSED" /\ v.since + Cooldown <= MaxClock} :
        word = w ~> word # w
=============================================================================
