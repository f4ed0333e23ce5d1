------------------------ MODULE CircuitBreakerProofs ------------------------
(***************************************************************************)
(* Safety of the circuit breaker for any number of requests, any           *)
(* threshold, cooldown and clock bound.  The inductive invariant adds to   *)
(* TypeOK and CooldownEnds what a request that is about to CAS knows of    *)
(* the word it loaded.                                                     *)
(***************************************************************************)
EXTENDS CircuitBreaker, FiniteSetTheorems, TLAPS

\* What the load established still holds of the loaded word when the request
\* reaches its CAS: a claimant has seen a cooled-down word that is not closed,
\* a closer and a re-opener a half-open one.
SeenMatchesArm ==
    \A r \in Requests :
        /\ pc[r] = "claim" => /\ seen[r].state # "CLOSED"
                              /\ now[r] >= seen[r].since + Cooldown
        /\ pc[r] \in {"close", "reopen"} => seen[r].state = "HALF_OPEN"

IInv == TypeOK /\ CooldownEnds /\ SeenMatchesArm

\* The initial state satisfies the inductive invariant.
LEMMA InitIInv == Init => IInv
  BY ConfigAssumption
  DEF Init, IInv, TypeOK, CooldownEnds, SeenMatchesArm, Words, States, Times,
      PCs, Closed, Pack

\* A request leaving the breaker keeps the per-request parts of the invariant.
LEMMA LeaveTypes ==
    ASSUME TypeOK, NEW r \in Requests, Leave(r)
    PROVE  /\ pc' \in [Requests -> PCs]
           /\ now' \in [Requests -> Times]
           /\ seen' \in [Requests -> Words]
  BY ConfigAssumption
  DEF TypeOK, Leave, Goto, Closed, Pack, PCs, Times, Words, States

\* Every step preserves the types.
LEMMA NextTypeOK == TypeOK /\ [Next]_vars => TypeOK'
  <1> SUFFICES ASSUME TypeOK, [Next]_vars PROVE TypeOK'
    OBVIOUS
  <1>1. CASE Tick
    BY <1>1, ConfigAssumption DEF Tick, TypeOK, Times
  <1>2. ASSUME NEW r \in Requests, Acquire(r) PROVE TypeOK'
    <2>1. CASE TryAcquire(r)
      BY <2>1 DEF TryAcquire, Goto, TypeOK, PCs
    <2>2. CASE LoadAcquire(r)
      <3>1. CASE Leave(r)
        BY <2>2, <3>1, LeaveTypes DEF LoadAcquire, TypeOK
      <3>2. CASE ~Leave(r)
        BY <2>2, <3>2 DEF LoadAcquire, Goto, TypeOK, PCs
      <3> QED BY <3>1, <3>2
    <2>3. CASE ClaimTrial(r)
      <3>1. Pack("HALF_OPEN", now[r]) \in Words
        BY DEF TypeOK, Pack, Words, States
      <3> QED BY <2>3, <3>1 DEF ClaimTrial, Goto, TypeOK, PCs
    <2> QED BY <1>2, <2>1, <2>2, <2>3 DEF Acquire
  <1>3. ASSUME NEW r \in Requests, Report(r) PROVE TypeOK'
    <2>0. Pack("OPEN", now[r]) \in Words /\ Closed \in Words
      BY ConfigAssumption DEF TypeOK, Pack, Words, States, Closed, Times
    <2>1. CASE NoVerdict(r)
      BY <2>1, LeaveTypes DEF NoVerdict, TypeOK
    <2>2. CASE RecordSuccess(r)
      BY <2>2 DEF RecordSuccess, Goto, TypeOK, PCs
    <2>3. CASE LoadSuccess(r)
      <3>1. CASE Leave(r)
        BY <2>3, <3>1, LeaveTypes DEF LoadSuccess, TypeOK
      <3>2. CASE ~Leave(r)
        BY <2>3, <3>2 DEF LoadSuccess, Goto, TypeOK, PCs
      <3> QED BY <3>1, <3>2
    <2>4. CASE Close(r)
      BY <2>0, <2>4, LeaveTypes DEF Close, TypeOK
    <2>5. CASE RecordFailure(r)
      BY <2>5 DEF RecordFailure, Goto, TypeOK, PCs
    <2>6. CASE LoadFailure(r)
      <3>1. CASE Leave(r)
        BY <2>6, <3>1, LeaveTypes DEF LoadFailure, TypeOK
      <3>2. CASE ~Leave(r)
        BY <2>6, <3>2 DEF LoadFailure, Goto, TypeOK, PCs
      <3> QED BY <3>1, <3>2
    <2>7. CASE Reopen(r)
      BY <2>0, <2>7, LeaveTypes DEF Reopen, TypeOK
    <2>8. CASE CountFailure(r)
      <3>1. CASE Leave(r)
        BY <2>8, <3>1, LeaveTypes DEF CountFailure, TypeOK
      <3>2. CASE ~Leave(r)
        BY <2>8, <3>2 DEF CountFailure, Goto, TypeOK, PCs
      <3> QED BY <3>1, <3>2
    <2>9. CASE Trip(r)
      <3>1. CASE Leave(r)
        BY <2>0, <2>9, <3>1, LeaveTypes DEF Trip, TypeOK
      <3>2. CASE ~Leave(r)
        BY <2>0, <2>9, <3>2 DEF Trip, Goto, TypeOK, PCs
      <3> QED BY <3>1, <3>2
    <2>10. CASE ResetFailures(r)
      BY <2>10, LeaveTypes DEF ResetFailures, TypeOK
    <2> QED
      BY <1>3, <2>1, <2>2, <2>3, <2>4, <2>5, <2>6, <2>7, <2>8, <2>9, <2>10
      DEF Report
  <1>4. CASE UNCHANGED vars
    BY <1>4 DEF vars, TypeOK
  <1> QED BY <1>1, <1>2, <1>3, <1>4 DEF Next

\* A step that only lets a request leave, whatever it writes to the word as
\* long as the stamp is not in the future.
LEMMA LeaveIInv ==
    ASSUME IInv, NEW r \in Requests, Leave(r), clock' = clock, word'.since <= clock
    PROVE  (CooldownEnds /\ SeenMatchesArm)'
  <1> USE ConfigAssumption DEF IInv, TypeOK, CooldownEnds, SeenMatchesArm, Times, Words
  <1>1. CooldownEnds'
    BY DEF Leave, Closed, Pack
  <1>2. SeenMatchesArm'
    BY DEF Leave, Goto, Closed, Pack
  <1> QED BY <1>1, <1>2

\* Every step preserves the inductive invariant.
LEMMA NextIInv == IInv /\ [Next]_vars => IInv'
  <1> SUFFICES ASSUME IInv, [Next]_vars PROVE (CooldownEnds /\ SeenMatchesArm)'
    BY NextTypeOK DEF IInv
  <1> USE ConfigAssumption DEF IInv, TypeOK, CooldownEnds, SeenMatchesArm, Times, Words
  <1>1. CASE Tick
    BY <1>1 DEF Tick
  <1>2. ASSUME NEW r \in Requests, Acquire(r) PROVE (CooldownEnds /\ SeenMatchesArm)'
    <2>1. CASE TryAcquire(r)
      BY <2>1 DEF TryAcquire, Goto
    <2>2. CASE LoadAcquire(r)
      <3>1. CASE word.state = "CLOSED"
        BY <2>2, <3>1 DEF LoadAcquire, Goto
      <3>2. CASE word.state # "CLOSED" /\ now[r] < word.since + Cooldown
        BY <2>2, <3>2, LeaveIInv DEF LoadAcquire
      <3>3. CASE word.state # "CLOSED" /\ now[r] >= word.since + Cooldown
        <4>1. /\ seen' = [seen EXCEPT ![r] = word]
              /\ pc' = [pc EXCEPT ![r] = "claim"]
              /\ UNCHANGED <<clock, word, now>>
          BY <2>2, <3>3 DEF LoadAcquire, Goto
        <4> QED BY <4>1, <3>3
      <3> QED BY <2>2, <3>1, <3>2, <3>3 DEF LoadAcquire
    <2>3. CASE ClaimTrial(r)
      BY <2>3 DEF ClaimTrial, Goto, CasSucceeds, Pack
    <2> QED BY <1>2, <2>1, <2>2, <2>3 DEF Acquire
  <1>3. ASSUME NEW r \in Requests, Report(r) PROVE (CooldownEnds /\ SeenMatchesArm)'
    <2>1. CASE NoVerdict(r)
      BY <2>1, LeaveIInv DEF NoVerdict
    <2>2. CASE RecordSuccess(r)
      BY <2>2 DEF RecordSuccess, Goto
    <2>3. CASE LoadSuccess(r)
      <3>1. CASE word.state = "HALF_OPEN"
        BY <2>3, <3>1 DEF LoadSuccess, Goto
      <3>2. CASE word.state # "HALF_OPEN"
        BY <2>3, <3>2, LeaveIInv DEF LoadSuccess
      <3> QED BY <3>1, <3>2
    <2>4. CASE Close(r)
      BY <2>4, LeaveIInv DEF Close, Closed, Pack
    <2>5. CASE RecordFailure(r)
      BY <2>5 DEF RecordFailure, Goto
    <2>6. CASE LoadFailure(r)
      <3>1. CASE word.state # "OPEN"
        <4>1. /\ seen' = [seen EXCEPT ![r] = word]
              /\ pc' = [pc EXCEPT ![r] = IF word.state = "HALF_OPEN" THEN "reopen" ELSE "count"]
              /\ UNCHANGED <<clock, word, now>>
          BY <2>6, <3>1 DEF LoadFailure, Goto
        <4> QED BY <4>1
      <3>2. CASE word.state = "OPEN"
        BY <2>6, <3>2, LeaveIInv DEF LoadFailure
      <3> QED BY <3>1, <3>2
    <2>7. CASE Reopen(r)
      BY <2>7, LeaveIInv DEF Reopen, Pack
    <2>8. CASE CountFailure(r)
      <3>1. CASE failures + 1 >= Threshold
        BY <2>8, <3>1 DEF CountFailure, Goto
      <3>2. CASE ~(failures + 1 >= Threshold)
        BY <2>8, <3>2, LeaveIInv DEF CountFailure
      <3> QED BY <3>1, <3>2
    <2>9. CASE Trip(r)
      <3>1. CASE CasSucceeds(r)
        BY <2>9, <3>1 DEF Trip, Goto, Pack
      <3>2. CASE ~CasSucceeds(r)
        BY <2>9, <3>2, LeaveIInv DEF Trip
      <3> QED BY <3>1, <3>2
    <2>10. CASE ResetFailures(r)
      BY <2>10, LeaveIInv DEF ResetFailures
    <2> QED
      BY <1>3, <2>1, <2>2, <2>3, <2>4, <2>5, <2>6, <2>7, <2>8, <2>9, <2>10
      DEF Report
  <1>4. CASE UNCHANGED vars
    BY <1>4 DEF vars
  <1> QED BY <1>1, <1>2, <1>3, <1>4 DEF Next

\* The inductive invariant holds of every behaviour.
LEMMA SpecIInv == Spec => []IInv
  BY InitIInv, NextIInv, PTL DEF Spec

-----------------------------------------------------------------------------
\* Type correctness of the breaker's word, counter and request locals.
THEOREM TypeCorrect == Spec => []TypeOK
  BY SpecIInv, PTL DEF IInv

\* No stamp lies in the future (record_failure_at, try_acquire_at): every
\* cooldown ends, whatever the requests in flight do.
THEOREM CooldownAlwaysEnds == Spec => []CooldownEnds
  BY SpecIInv, PTL DEF IInv

\* The admission step, for one request.
LEMMA AdmissionStep ==
    ASSUME IInv, [Next]_vars, NEW r \in Requests, Admits(r)
    PROVE  \/ word.state = "CLOSED"
           \/ /\ clock >= word.since + Cooldown
              /\ word' # word
              /\ word'.state = "HALF_OPEN"
  <1>0. IInv' BY NextIInv
  <1> USE DEF IInv, TypeOK, PCs
  <1>1. PICK q \in Requests : Acquire(q) \/ Report(q)
    BY DEF Admits, Next, Tick, vars
  <1>2. LoadAcquire(q) \/ ClaimTrial(q)
    BY <1>1 DEF Admits, Acquire, Report, TryAcquire, NoVerdict, RecordSuccess,
       LoadSuccess, Close, RecordFailure, LoadFailure, Reopen, CountFailure,
       Trip, ResetFailures, Goto, Leave
  <1>3. CASE LoadAcquire(q)
    BY <1>3 DEF LoadAcquire, Admits, Goto, Leave
  <1>4. CASE ClaimTrial(q)
    <2>1. CasSucceeds(q) /\ word' = Pack("HALF_OPEN", now[q]) /\ pc[q] = "claim"
      BY <1>4 DEF ClaimTrial, Admits, Goto
    <2>2. now[q] >= word.since + Cooldown /\ now[q] <= clock
      BY <2>1 DEF SeenMatchesArm, CasSucceeds, CooldownEnds
    <2>3. word.since \in Nat /\ now[q] \in Nat /\ clock \in Nat
      BY ConfigAssumption DEF Words, Times
    <2> QED BY <2>1, <2>2, <2>3, ConfigAssumption DEF Pack
  <1> QED BY <1>2, <1>3, <1>4

\* The breaker sheds load (try_acquire_at): a request is admitted only while
\* the circuit is closed, or as the single trial of an elapsed cooldown.
THEOREM AdmissionSafe == Spec => AdmissionRespectsCircuit
  <1>1. IInv /\ [Next]_vars =>
          [\A r \in Requests : Admits(r) =>
              \/ word.state = "CLOSED"
              \/ /\ clock >= word.since + Cooldown
                 /\ word' # word
                 /\ word'.state = "HALF_OPEN"]_vars
    BY AdmissionStep
  <1> QED BY <1>1, SpecIInv, PTL DEF Spec, AdmissionRespectsCircuit

\* A straggler's success never closes an open circuit (record_success).
THEOREM OpenNeverClosesDirectly == Spec => OpenClosesOnlyThroughTrial
  <1>1. IInv /\ [Next]_vars => [word.state = "OPEN" => word'.state # "CLOSED"]_vars
    <2> SUFFICES ASSUME IInv, [Next]_vars, word.state = "OPEN", word' # word
                 PROVE  word'.state # "CLOSED"
      OBVIOUS
    <2>1. PICK r \in Requests : ClaimTrial(r) \/ Close(r) \/ Reopen(r) \/ Trip(r)
      BY DEF Next, vars, Tick, Acquire, Report, TryAcquire, LoadAcquire,
         NoVerdict, RecordSuccess, LoadSuccess, RecordFailure, LoadFailure,
         CountFailure, ResetFailures
    <2>2. ~Close(r)
      BY DEF Close, CasSucceeds, IInv, SeenMatchesArm
    <2> QED BY <2>1, <2>2 DEF ClaimTrial, Reopen, Trip, Pack
  <1> QED BY <1>1, SpecIInv, PTL DEF Spec, OpenClosesOnlyThroughTrial

-----------------------------------------------------------------------------
(* The trip point.  A closed circuit counts failures in a row; a reset that *)
(* is still to come, of a request that tripped the circuit in an earlier    *)
(* closed period, may wipe Threshold - 1 of them, and every request that    *)
(* is about to trip adds one.                                               *)

At(label) == {r \in Requests : pc[r] = label}
Lesser(m, n) == IF m <= n THEN m ELSE n

\* There is one closed word, and it is what a counting or tripping request saw:
\* while the circuit is closed its CAS cannot fail.
OneClosedWord ==
    /\ word.state = "CLOSED" => word = Closed
    /\ \A r \in Requests : pc[r] \in {"count", "trip"} => seen[r] = Closed

\* What the resets that have happened since the circuit closed can have wiped,
\* what the counter holds, and the failures past the threshold.
Tolerance ==
    (Threshold - 1) * (Cardinality(Requests) - 1 - Cardinality(At("reset")))
        + Lesser(failures, Threshold - 1) + Cardinality(At("trip"))

StreakBudget == word.state = "CLOSED" => streak = 0 \/ streak <= Tolerance

\* Requests at one label are finitely many.
LEMMA AtFinite ==
    ASSUME NEW label
    PROVE  /\ IsFiniteSet(At(label))
           /\ Cardinality(At(label)) \in Nat
           /\ Cardinality(At(label)) <= Cardinality(Requests)
           /\ Cardinality(Requests) \in Nat
  <1>1. At(label) \subseteq Requests
    BY DEF At
  <1> QED BY <1>1, InFlightAssumption, FS_Subset, FS_CardinalityType

\* A request that moves leaves one label and joins another.
LEMMA MoveCounts ==
    ASSUME TypeOK, NEW r \in Requests, NEW label, NEW x, Goto(r, label)
    PROVE  /\ x # pc[r] /\ x # label => At(x)' = At(x)
           /\ x = pc[r] /\ x # label => Cardinality(At(x)') = Cardinality(At(x)) - 1
           /\ x # pc[r] /\ x = label => Cardinality(At(x)') = Cardinality(At(x)) + 1
  <1>0. \A s \in Requests : pc'[s] = IF s = r THEN label ELSE pc[s]
    BY DEF Goto, TypeOK
  <1>1. CASE x # pc[r] /\ x # label
    BY <1>0, <1>1 DEF At
  <1>2. CASE x = pc[r] /\ x # label
    <2>1. At(x)' = At(x) \ {r} /\ r \in At(x)
      BY <1>0, <1>2 DEF At
    <2> QED BY <1>2, <2>1, AtFinite, FS_RemoveElement
  <1>3. CASE x # pc[r] /\ x = label
    <2>1. At(x)' = At(x) \cup {r} /\ r \notin At(x)
      BY <1>0, <1>3 DEF At
    <2> QED BY <1>3, <2>1, AtFinite, FS_AddElement
  <1> QED BY <1>1, <1>2, <1>3

\* Every step preserves OneClosedWord.
LEMMA NextOneClosedWord == TypeOK /\ OneClosedWord /\ [Next]_vars => OneClosedWord'
  <1> SUFFICES ASSUME TypeOK, OneClosedWord, [Next]_vars PROVE OneClosedWord'
    OBVIOUS
  <1> USE DEF OneClosedWord
  <1>1. CASE Tick
    BY <1>1 DEF Tick
  <1>2. ASSUME NEW r \in Requests, Acquire(r) PROVE OneClosedWord'
    BY <1>2 DEF Acquire, TryAcquire, LoadAcquire, ClaimTrial, Goto, Leave, Pack, TypeOK
  <1>3. ASSUME NEW r \in Requests, Report(r) PROVE OneClosedWord'
    <2>1. CASE NoVerdict(r) \/ RecordSuccess(r) \/ LoadSuccess(r) \/ RecordFailure(r)
      BY <2>1 DEF NoVerdict, RecordSuccess, LoadSuccess, RecordFailure, Goto, Leave, TypeOK
    <2>2. CASE Close(r) \/ Reopen(r)
      BY <2>2 DEF Close, Reopen, Goto, Leave, Pack, Closed, TypeOK
    <2>3. CASE LoadFailure(r)
      <3>1. word.state \in States
        BY DEF TypeOK, Words
      <3> QED BY <2>3, <3>1 DEF LoadFailure, Goto, Leave, TypeOK, States
    <2>4. CASE CountFailure(r) \/ Trip(r) \/ ResetFailures(r)
      BY <2>4 DEF CountFailure, Trip, ResetFailures, Goto, Leave, Pack, TypeOK
    <2> QED BY <1>3, <2>1, <2>2, <2>3, <2>4 DEF Report
  <1>4. CASE UNCHANGED vars
    BY <1>4 DEF vars
  <1> QED BY <1>1, <1>2, <1>3, <1>4 DEF Next

\* A step that counts and resets nothing keeps the budget.
LEMMA QuietBudget ==
    ASSUME TypeOK, StreakBudget, NEW r \in Requests, NEW label, Goto(r, label),
           label \notin {"trip", "reset"}, pc[r] \notin {"trip", "reset"},
           failures' = failures, streak' = streak,
           word'.state = "CLOSED" => word.state = "CLOSED"
    PROVE  StreakBudget'
  <1>1. At("trip")' = At("trip") /\ At("reset")' = At("reset")
    BY MoveCounts
  <1> QED BY <1>1 DEF StreakBudget, Tolerance

\* Every step preserves the budget.
LEMMA NextStreakBudget == TypeOK /\ OneClosedWord /\ StreakBudget /\ [Next]_vars => StreakBudget'
  <1> SUFFICES ASSUME TypeOK, OneClosedWord, StreakBudget, [Next]_vars PROVE StreakBudget'
    OBVIOUS
  <1>1. CASE Tick \/ UNCHANGED vars
    BY <1>1 DEF Tick, vars, StreakBudget, Tolerance, At
  <1>2. ASSUME NEW r \in Requests, Acquire(r) PROVE StreakBudget'
    BY <1>2, QuietBudget DEF Acquire, TryAcquire, LoadAcquire, ClaimTrial, Leave, Pack
  <1>3. ASSUME NEW r \in Requests, Report(r) PROVE StreakBudget'
    <2>1. CASE NoVerdict(r) \/ LoadSuccess(r) \/ RecordFailure(r) \/ LoadFailure(r) \/ Reopen(r)
      BY <2>1, QuietBudget DEF NoVerdict, LoadSuccess, RecordFailure, LoadFailure, Reopen, Leave, Pack
    <2>2. CASE RecordSuccess(r)
      BY <2>2 DEF RecordSuccess, StreakBudget
    <2>3. CASE Close(r)
      <3>1. CASE CasSucceeds(r)
        BY <2>3, <3>1 DEF Close, StreakBudget
      <3>2. CASE ~CasSucceeds(r)
        BY <2>3, <3>2, QuietBudget DEF Close, Leave
      <3> QED BY <3>1, <3>2
    <2>4. CASE CountFailure(r)
      <3> DEFINE k == Threshold - 1
                 m == Cardinality(Requests) - 1 - Cardinality(At("reset"))
      <3>1. pc[r] = "count" /\ word' = word /\ failures' = failures + 1 /\ streak' = streak + 1
        BY <2>4 DEF CountFailure
      <3>2. k \in Nat /\ failures \in Nat /\ streak \in Nat /\ Cardinality(At("trip")) \in Nat
        BY ConfigAssumption, AtFinite DEF TypeOK
      <3>3. m \in Nat
        <4>1. At("reset") \subseteq Requests \ {r}
          BY <3>1 DEF At
        <4>2. Cardinality(Requests \ {r}) = Cardinality(Requests) - 1 /\ IsFiniteSet(Requests \ {r})
          BY InFlightAssumption, FS_RemoveElement
        <4>3. Cardinality(At("reset")) <= Cardinality(Requests) - 1
          BY <4>1, <4>2, FS_Subset
        <4> QED BY <4>3, AtFinite
      <3>4. k * m \in Nat
        BY <3>2, <3>3
      <3>5. CASE failures + 1 >= Threshold
        <4>1. Goto(r, "trip")
          BY <2>4, <3>5, <3>2, ConfigAssumption DEF CountFailure
        <4>2. At("reset")' = At("reset") /\ Cardinality(At("trip"))' = Cardinality(At("trip")) + 1
          BY <3>1, <4>1, MoveCounts
        <4>3. Tolerance = k * m + Lesser(failures, k) + Cardinality(At("trip"))
          BY DEF Tolerance
        <4>4. Tolerance' = k * m + Lesser(failures + 1, k) + Cardinality(At("trip")) + 1
          BY <3>1, <4>2, <3>2, <3>4 DEF Tolerance, Lesser
        <4> QED BY <3>1, <3>2, <3>4, <4>3, <4>4 DEF StreakBudget, Lesser
      <3>6. CASE failures + 1 < Threshold
        <4>1. Goto(r, "idle")
          BY <2>4, <3>6, <3>2, ConfigAssumption DEF CountFailure, Leave
        <4>2. At("reset")' = At("reset") /\ At("trip")' = At("trip")
          BY <3>1, <4>1, MoveCounts
        <4>3. Tolerance = k * m + Lesser(failures, k) + Cardinality(At("trip"))
          BY DEF Tolerance
        <4>4. Tolerance' = k * m + Lesser(failures + 1, k) + Cardinality(At("trip"))
          BY <3>1, <4>2 DEF Tolerance
        <4>5. Lesser(failures, k) = failures /\ Lesser(failures + 1, k) = failures + 1
          BY <3>2, <3>6, ConfigAssumption DEF Lesser
        <4>6. Tolerance' = Tolerance + 1 /\ Tolerance \in Int /\ Tolerance >= 0
          <5> HIDE DEF k, m
          <5> QED BY <3>2, <3>4, <4>3, <4>4, <4>5
        <4> QED BY <3>1, <3>2, <4>6 DEF StreakBudget
      <3> QED BY <3>2, <3>5, <3>6, ConfigAssumption
    <2>5. CASE Trip(r)
      <3>1. CASE word.state = "CLOSED"
        <4>1. CasSucceeds(r)
          BY <2>5, <3>1 DEF Trip, CasSucceeds, OneClosedWord
        <4> QED BY <2>5, <4>1 DEF Trip, Pack, StreakBudget
      <3>2. CASE word.state # "CLOSED"
        BY <2>5, <3>2 DEF Trip, Pack, StreakBudget
      <3> QED BY <3>1, <3>2
    <2>6. CASE ResetFailures(r)
      <3> DEFINE k == Threshold - 1
                 n == Cardinality(Requests)
                 c == Cardinality(At("reset"))
      <3>1. pc[r] = "reset" /\ Goto(r, "idle") /\ word' = word /\ failures' = 0 /\ streak' = streak
        BY <2>6 DEF ResetFailures, Leave
      <3>2. At("trip")' = At("trip") /\ Cardinality(At("reset"))' = c - 1
        BY <3>1, MoveCounts
      <3>3. k \in Nat /\ n \in Nat /\ c \in Nat /\ failures \in Nat /\ streak \in Nat
            /\ Cardinality(At("trip")) \in Nat
        BY ConfigAssumption, AtFinite DEF TypeOK
      <3>4. k * (n - 1 - (c - 1)) = k * (n - 1 - c) + k /\ k * (n - 1 - c) \in Int
        BY <3>3
      <3>5. Tolerance = k * (n - 1 - c) + Lesser(failures, k) + Cardinality(At("trip"))
        BY DEF Tolerance
      <3>6. Tolerance' = k * (n - 1 - (c - 1)) + Lesser(0, k) + Cardinality(At("trip"))
        BY <3>1, <3>2 DEF Tolerance
      <3> HIDE DEF k, n, c
      <3> QED BY <3>1, <3>3, <3>4, <3>5, <3>6 DEF StreakBudget, Lesser
    <2> QED BY <1>3, <2>1, <2>2, <2>3, <2>4, <2>5, <2>6 DEF Report
  <1> QED BY <1>1, <1>2, <1>3 DEF Next

\* The budget never exceeds Threshold for each request in flight.
LEMMA BudgetBounds == TypeOK /\ StreakBudget => TripPointBounded
  <1> SUFFICES ASSUME TypeOK, StreakBudget, word.state = "CLOSED"
               PROVE  streak <= Threshold * Cardinality(Requests)
    BY DEF TripPointBounded
  <1> DEFINE k == Threshold - 1
             n == Cardinality(Requests)
             c == Cardinality(At("reset"))
             t == Cardinality(At("trip"))
  <1>1. k \in Nat /\ Threshold = k + 1 /\ n \in Nat /\ c \in Nat /\ t \in Nat
        /\ failures \in Nat /\ streak \in Nat
    BY ConfigAssumption, AtFinite DEF TypeOK
  <1>2. t + c <= n
    <2>1. At("trip") \cap At("reset") = {} /\ At("trip") \cup At("reset") \subseteq Requests
      BY DEF At
    <2>2. Cardinality(At("trip") \cup At("reset")) = t + c
      BY <1>1, <2>1, AtFinite, FS_Union, FS_EmptySet
    <2> QED BY <2>1, <2>2, InFlightAssumption, FS_Subset
  <1>3. k * (n - 1 - c) + k = k * n - k * c /\ k * c \in Nat /\ k * n \in Nat
    BY <1>1
  <1>4. Threshold * n = k * n + n
    BY <1>1
  <1>5. Tolerance = k * (n - 1 - c) + Lesser(failures, k) + t
    BY DEF Tolerance
  <1>6. Lesser(failures, k) \in Int /\ Lesser(failures, k) <= k /\ k * (n - 1 - c) \in Int
    BY <1>1 DEF Lesser
  <1>7. streak = 0 \/ streak <= Tolerance
    BY DEF StreakBudget
  <1> HIDE DEF k, n, c, t
  <1> QED BY <1>1, <1>2, <1>3, <1>4, <1>5, <1>6, <1>7 DEF n

\* Late resets wipe the relaxed counter (record_failure_at), yet a closed
\* circuit never sees more failures in a row than Threshold for each request
\* that can be in flight.
THEOREM TripPointStaysBounded == Spec => []TripPointBounded
  <1>1. Init => OneClosedWord /\ StreakBudget
    BY DEF Init, OneClosedWord, StreakBudget
  <1>2. TypeOK /\ (OneClosedWord /\ StreakBudget) /\ [Next]_vars => (OneClosedWord /\ StreakBudget)'
    BY NextOneClosedWord, NextStreakBudget
  <1>3. TypeOK /\ (OneClosedWord /\ StreakBudget) => TripPointBounded
    BY BudgetBounds
  <1> QED BY <1>1, <1>2, <1>3, TypeCorrect, PTL DEF Spec
=============================================================================
