-------------------------- MODULE SpikeGuardProofs --------------------------
(***************************************************************************)
(* The token bucket's bound for every capacity, refill rate, clock bound   *)
(* and number of racing requests.  WindowBound is not inductive: the       *)
(* tokens still in the bucket may be taken next, so the invariant budgets  *)
(* taken plus available tokens against the seconds credited so far.        *)
(***************************************************************************)
EXTENDS SpikeGuard, TLAPS

\* Nobody holds a clock reading, or the bucket a credit, from the future.
NothingFromTheFuture ==
    /\ bucket.last <= clock
    /\ \A r \in Requests : now[r] <= clock

\* A request at its CAS has a token to take in the word it compares with.
CanSpend ==
    \A r \in Requests :
        pc[r] = "cas" => Credited(current[r], now[r]).tokens > 0

\* Tokens taken since mark and tokens left never exceed the burst plus the
\* refill credited after mark; until a credit reaches mark none is counted.
Budget ==
    /\ bucket.last < mark => taken = 0
    /\ bucket.last >= mark =>
          taken + bucket.tokens <= Capacity + (bucket.last - mark) * Refill

IInv == TypeOK /\ NothingFromTheFuture /\ CanSpend /\ Budget

\* Refill distributes over consecutive spans of seconds.
LEMMA RefillAdds ==
    ASSUME NEW a \in Nat, NEW b \in Nat, NEW c \in Nat, a <= b, b <= c
    PROVE  /\ (c - a) * Refill = (b - a) * Refill + (c - b) * Refill
           /\ (b - a) * Refill \in Nat
           /\ (c - b) * Refill \in Nat
  BY GuardAssumption

\* Crediting yields a bucket no later than t or the bucket itself, and never
\* more than capacity.
LEMMA CreditedBucket ==
    ASSUME NEW b \in Buckets, NEW t \in Times
    PROVE  /\ Credited(b, t) \in Buckets
           /\ Credited(b, t).last = IF t > b.last THEN t ELSE b.last
           /\ t > b.last => /\ Credited(b, t).tokens <= Capacity
                            /\ Credited(b, t).tokens <= b.tokens + (t - b.last) * Refill
           /\ ~(t > b.last) => Credited(b, t) = b
  <1> USE GuardAssumption
  <1>1. CASE t > b.last
    <2>1. b.last \in Nat /\ t \in Nat /\ b.tokens \in 0 .. Capacity
      BY DEF Buckets, Times
    <2>2. (t - b.last) * Refill \in Nat
      BY <1>1, <2>1
    <2> DEFINE n == b.tokens + (t - b.last) * Refill
    <2>3. n \in Nat
      BY <2>1, <2>2
    <2>4. AtMostCapacity(n) \in 0 .. Capacity /\ AtMostCapacity(n) <= n
      BY <2>3 DEF AtMostCapacity
    <2>5. Credited(b, t) = [last |-> t, tokens |-> AtMostCapacity(n)]
      BY <1>1 DEF Credited
    <2> HIDE DEF n
    <2>6. /\ Credited(b, t) \in Buckets
          /\ Credited(b, t).last = t
          /\ Credited(b, t).tokens <= Capacity
          /\ Credited(b, t).tokens <= n
      BY <2>4, <2>5 DEF Buckets
    <2> QED BY <1>1, <2>6 DEF n
  <1>2. CASE ~(t > b.last)
    BY <1>2 DEF Credited
  <1> QED BY <1>1, <1>2

\* What a CAS writes is a bucket with one token less than the credited one.
LEMMA SpentBucket ==
    ASSUME NEW b \in Buckets, NEW t \in Times, Credited(b, t).tokens > 0
    PROVE  /\ Spent(b, t) \in Buckets
           /\ Spent(b, t).last = Credited(b, t).last
           /\ Spent(b, t).tokens = Credited(b, t).tokens - 1
  <1>1. Credited(b, t) \in Buckets
    BY CreditedBucket
  <1> DEFINE c == Credited(b, t)
  <1>2. Spent(b, t) = [c EXCEPT !.tokens = c.tokens - 1]
    BY DEF Spent
  <1> HIDE DEF c
  <1>3. c \in Buckets /\ c.tokens > 0
    BY <1>1 DEF c
  <1> QED BY <1>2, <1>3, GuardAssumption DEF Buckets, c

\* The initial bucket is full and nothing is taken.
LEMMA InitIInv == Init => IInv
  <1> SUFFICES ASSUME Init PROVE IInv
    OBVIOUS
  <1> USE GuardAssumption DEF Init, Full, Times
  <1>1. TypeOK
    BY DEF TypeOK, Buckets
  <1>2. NothingFromTheFuture /\ CanSpend
    BY DEF NothingFromTheFuture, CanSpend
  <1>3. Budget
    BY DEF Budget
  <1> QED BY <1>1, <1>2, <1>3 DEF IInv

\* A request that evaluates the present bucket keeps the invariant.
LEMMA EvaluateIInv ==
    ASSUME IInv, NEW r \in Requests, Evaluate(r, bucket),
           UNCHANGED <<clock, bucket, now, mark, taken>>
    PROVE  IInv'
  <1> USE DEF IInv
  <1>1. TypeOK'
    BY DEF TypeOK, Evaluate
  <1>2. NothingFromTheFuture' /\ Budget'
    BY DEF NothingFromTheFuture, Budget
  <1>3. CanSpend'
    <2>1. Credited(bucket, now[r]).tokens \in Nat
      BY CreditedBucket, GuardAssumption DEF TypeOK, Buckets
    <2> SUFFICES ASSUME NEW q \in Requests, pc'[q] = "cas"
                 PROVE  Credited(current'[q], now'[q]).tokens > 0
      BY DEF CanSpend, Credited, AtMostCapacity
    <2>2. CASE q = r
      <3>1. Credited(bucket, now[r]).tokens # 0 /\ current'[r] = bucket
        BY <2>2 DEF Evaluate, TypeOK
      <3> QED BY <2>1, <2>2, <3>1
    <2>3. CASE q # r
      <3>1. pc'[q] = pc[q] /\ current'[q] = current[q]
        BY <2>3 DEF Evaluate, TypeOK
      <3> QED BY <3>1 DEF CanSpend
    <2> QED BY <2>2, <2>3
  <1> QED BY <1>1, <1>2, <1>3

\* Taking a token keeps the budget.
LEMMA TakeIInv ==
    ASSUME IInv, NEW r \in Requests, Take(r)
    PROVE  IInv'
  <1> USE DEF IInv
  <1> DEFINE c == Credited(bucket, now[r])
  <1>1. /\ bucket \in Buckets /\ now[r] \in Times /\ c.tokens > 0
        /\ bucket' = Spent(bucket, now[r])
    BY DEF Take, TypeOK, CanSpend
  <1>2. /\ bucket' \in Buckets
        /\ bucket'.last = c.last
        /\ bucket'.tokens = c.tokens - 1
    BY <1>1, SpentBucket
  <1>3. TypeOK'
    BY <1>2 DEF Take, TypeOK
  <1>4. /\ c \in Buckets
        /\ c.last = IF now[r] > bucket.last THEN now[r] ELSE bucket.last
        /\ now[r] > bucket.last =>
              /\ c.tokens <= Capacity
              /\ c.tokens <= bucket.tokens + (now[r] - bucket.last) * Refill
        /\ ~(now[r] > bucket.last) => c = bucket
    BY <1>1, CreditedBucket
  <1> HIDE DEF c
  <1>5. /\ bucket.last \in Nat /\ bucket.tokens \in Nat /\ now[r] \in Nat
        /\ clock \in Nat /\ mark \in Nat /\ taken \in Nat
        /\ c.tokens \in Nat /\ c.last \in Nat
        /\ Capacity \in Nat /\ Refill \in Nat
    BY <1>1, <1>4, GuardAssumption DEF TypeOK, Buckets, Times
  <1>6. NothingFromTheFuture'
    BY <1>2, <1>4, <1>5 DEF NothingFromTheFuture, Take
  <1>7. CanSpend'
    BY DEF CanSpend, Take, TypeOK, Credited, AtMostCapacity
  <1>8. Budget'
    <2>0. mark' = mark /\ taken' = IF now[r] >= mark THEN taken + 1 ELSE taken
      BY DEF Take
    <2>1. CASE c.last < mark
      BY <1>2, <1>4, <1>5, <2>0, <2>1 DEF Budget
    <2>2. CASE c.last >= mark /\ bucket.last < mark
      <3>1. taken = 0 /\ now[r] > bucket.last /\ c.tokens <= Capacity
        BY <1>4, <1>5, <2>2 DEF Budget
      <3>2. (c.last - mark) * Refill \in Nat
        BY <1>5, <2>2
      <3>3. taken' + bucket'.tokens <= Capacity
        BY <1>2, <1>5, <2>0, <3>1
      <3>4. taken' \in Nat /\ bucket'.tokens \in Int
        BY <1>2, <1>5, <2>0
      <3>5. taken' + bucket'.tokens <= Capacity + (c.last - mark) * Refill
        BY <1>5, <3>2, <3>3, <3>4
      <3> QED BY <1>2, <2>0, <2>2, <1>5, <3>5 DEF Budget
    <2>3. CASE bucket.last >= mark
      <3>1. taken + bucket.tokens <= Capacity + (bucket.last - mark) * Refill
        BY <1>5, <2>3 DEF Budget
      <3>2. CASE now[r] > bucket.last
        <4>1. /\ (now[r] - mark) * Refill =
                   (bucket.last - mark) * Refill + (now[r] - bucket.last) * Refill
              /\ (bucket.last - mark) * Refill \in Nat
              /\ (now[r] - bucket.last) * Refill \in Nat
          BY <1>5, <2>3, <3>2, RefillAdds
        <4>2. taken' = taken + 1 /\ c.last = now[r]
          BY <1>4, <1>5, <2>0, <2>3, <3>2
        <4>3. taken' + bucket'.tokens <= Capacity + (now[r] - mark) * Refill
          BY <1>2, <1>4, <1>5, <3>1, <3>2, <4>1, <4>2
        <4> QED BY <1>2, <1>5, <2>0, <2>3, <3>2, <4>2, <4>3 DEF Budget
      <3>3. CASE ~(now[r] > bucket.last)
        <4>1. c = bucket
          BY <1>4, <3>3
        <4>2. taken' <= taken + 1 /\ taken' \in Nat
          BY <1>5, <2>0
        <4>3. (bucket.last - mark) * Refill \in Nat
          BY <1>5, <2>3
        <4>4. taken' + bucket'.tokens <= Capacity + (bucket.last - mark) * Refill
          BY <1>2, <1>5, <3>1, <4>1, <4>2, <4>3
        <4> QED BY <1>2, <1>5, <2>0, <2>3, <4>1, <4>4 DEF Budget
      <3> QED BY <3>2, <3>3
    <2> QED BY <1>5, <2>1, <2>2, <2>3
  <1> QED BY <1>3, <1>6, <1>7, <1>8

\* Every step preserves the inductive invariant.
LEMMA NextIInv == IInv /\ [Next]_vars => IInv'
  <1> SUFFICES ASSUME IInv, [Next]_vars PROVE IInv'
    OBVIOUS
  <1>1. CASE Tick
    <2>1. TypeOK'
      BY <1>1, GuardAssumption DEF Tick, IInv, TypeOK, Times
    <2>2. NothingFromTheFuture'
      BY <1>1, GuardAssumption DEF Tick, IInv, TypeOK, Times, Buckets, NothingFromTheFuture
    <2>3. CanSpend' /\ Budget'
      BY <1>1 DEF Tick, IInv, CanSpend, Budget, Credited, AtMostCapacity
    <2> QED BY <2>1, <2>2, <2>3 DEF IInv
  <1>2. ASSUME NEW r \in Requests, TryAcquire(r) PROVE IInv'
    <2>1. TypeOK' /\ Budget'
      BY <1>2 DEF TryAcquire, IInv, TypeOK, Budget
    <2>2. NothingFromTheFuture'
      BY <1>2, GuardAssumption DEF TryAcquire, IInv, TypeOK, Times, NothingFromTheFuture
    <2>3. CanSpend'
      BY <1>2 DEF TryAcquire, IInv, TypeOK, CanSpend, Credited, AtMostCapacity
    <2> QED BY <2>1, <2>2, <2>3 DEF IInv
  <1>3. ASSUME NEW r \in Requests, Load(r) \/ LoseRace(r) PROVE IInv'
    BY <1>3, EvaluateIInv DEF Load, LoseRace
  <1>4. ASSUME NEW r \in Requests, Take(r) PROVE IInv'
    BY <1>4, TakeIInv
  <1>5. CASE UNCHANGED vars
    BY <1>5 DEF vars, IInv, TypeOK, NothingFromTheFuture, CanSpend, Budget,
       Credited, AtMostCapacity
  <1> QED BY <1>1, <1>2, <1>3, <1>4, <1>5 DEF Next, Step

\* The inductive invariant holds of every behaviour.
LEMMA SpecIInv == Spec => []IInv
  BY InitIInv, NextIInv, PTL DEF Spec

-----------------------------------------------------------------------------
\* Type correctness of the packed bucket and of the requests' locals; in
\* particular the token count never goes below zero.
THEOREM TypeCorrect == Spec => []TypeOK
  BY SpecIInv, PTL DEF IInv

\* The spike guard's bound (try_acquire_at): from any instant on, at most a
\* burst plus the refill of the elapsed seconds passes, whatever the races.
THEOREM GuardBounds == Spec => []WindowBound
  <1>1. IInv => WindowBound
    <2> SUFFICES ASSUME IInv PROVE WindowBound
      OBVIOUS
    <2>1. /\ bucket.last \in Nat /\ bucket.tokens \in Nat /\ clock \in Nat
          /\ mark \in Nat /\ taken \in Nat /\ Capacity \in Nat /\ Refill \in Nat
          /\ bucket.last <= clock
      BY GuardAssumption DEF IInv, TypeOK, Buckets, Times, NothingFromTheFuture
    <2>2. CASE bucket.last < mark
      <3>1. taken = 0 /\ (clock >= mark => (clock - mark) * Refill \in Nat)
        BY <2>1, <2>2 DEF IInv, Budget
      <3> QED BY <2>1, <3>1 DEF WindowBound
    <2>3. CASE bucket.last >= mark
      <3>1. taken + bucket.tokens <= Capacity + (bucket.last - mark) * Refill
        BY <2>1, <2>3 DEF IInv, Budget
      <3>2. /\ (clock - mark) * Refill =
                 (bucket.last - mark) * Refill + (clock - bucket.last) * Refill
            /\ (bucket.last - mark) * Refill \in Nat
            /\ (clock - bucket.last) * Refill \in Nat
        BY <2>1, <2>3, RefillAdds
      <3>3. taken <= Capacity + (clock - mark) * Refill
        BY <2>1, <3>1, <3>2
      <3> QED BY <2>1, <2>3, <3>3 DEF WindowBound
    <2> QED BY <2>1, <2>2, <2>3
  <1> QED BY <1>1, SpecIInv, PTL

\* An empty credited bucket was empty already and is owed nothing.
LEMMA EmptyIsOwedNothing ==
    ASSUME NEW b \in Buckets, NEW t \in Times, Credited(b, t).tokens = 0
    PROVE  b.tokens = 0 /\ t <= b.last
  <1> USE GuardAssumption
  <1>1. b.last \in Nat /\ t \in Nat /\ b.tokens \in Nat
    BY DEF Buckets, Times
  <1>2. CASE t > b.last
    <2>1. (t - b.last) * Refill \in Nat /\ (t - b.last) * Refill > 0
      BY <1>1, <1>2
    <2> DEFINE n == b.tokens + (t - b.last) * Refill
    <2>2. n \in Nat /\ n > 0
      BY <1>1, <2>1
    <2>3. Credited(b, t).tokens = AtMostCapacity(n)
      BY <1>2 DEF Credited
    <2> QED BY <2>2, <2>3 DEF AtMostCapacity
  <1>3. CASE ~(t > b.last)
    BY <1>1, <1>3 DEF Credited
  <1> QED BY <1>2, <1>3

\* A token taken always changes the packed word.
LEMMA TakeChangesBucket ==
    ASSUME IInv, NEW r \in Requests, Take(r)
    PROVE  /\ bucket' # bucket
           /\ bucket'.last >= bucket.last /\ bucket'.last <= clock'
  <1>1. /\ bucket \in Buckets /\ now[r] \in Times
        /\ Credited(bucket, now[r]).tokens > 0
        /\ bucket' = Spent(bucket, now[r]) /\ clock' = clock
        /\ now[r] <= clock /\ bucket.last <= clock
    BY DEF IInv, Take, TypeOK, CanSpend, NothingFromTheFuture
  <1>2. /\ bucket'.last = Credited(bucket, now[r]).last
        /\ bucket'.tokens = Credited(bucket, now[r]).tokens - 1
    BY <1>1, SpentBucket
  <1>3. /\ Credited(bucket, now[r]).last = IF now[r] > bucket.last THEN now[r] ELSE bucket.last
        /\ ~(now[r] > bucket.last) => Credited(bucket, now[r]) = bucket
    BY <1>1, CreditedBucket
  <1>4. bucket.last \in Nat /\ now[r] \in Nat /\ bucket.tokens \in Nat /\ clock \in Nat
    BY <1>1, GuardAssumption DEF IInv, TypeOK, Buckets, Times
  <1> QED BY <1>1, <1>2, <1>3, <1>4

\* The credit timestamp is monotonic and never ahead of the clock, although
\* requests arrive at the CAS with stale readings.
THEOREM CreditMonotonic == Spec => CreditClock
  <1>1. IInv /\ [Next]_vars =>
          [bucket'.last >= bucket.last /\ bucket'.last <= clock']_vars
    <2> SUFFICES ASSUME IInv, [Next]_vars
                 PROVE  bucket'.last >= bucket.last /\ bucket'.last <= clock'
      OBVIOUS
    <2>1. bucket.last \in Nat /\ clock \in Nat /\ bucket.last <= clock
      BY GuardAssumption DEF IInv, TypeOK, Buckets, Times, NothingFromTheFuture
    <2>2. CASE \E r \in Requests : Take(r)
      BY <2>2, TakeChangesBucket
    <2>3. CASE ~ \E r \in Requests : Take(r)
      <3>1. bucket' = bucket /\ (clock' = clock \/ clock' = clock + 1)
        BY <2>3 DEF Next, Step, vars, Tick, TryAcquire, Load, LoseRace
      <3> QED BY <2>1, <3>1
    <2> QED BY <2>2, <2>3
  <1> QED BY <1>1, SpecIInv, PTL DEF Spec, CreditClock

\* No request is turned away while the bucket holds, or is owed, a token.
THEOREM DenialsAreJustified == Spec => DenialJustified
  <1>1. ASSUME IInv, [Next]_vars, NEW r \in Requests, pc[r] # "idle",
               pc'[r] = "idle", UNCHANGED bucket
        PROVE  bucket.tokens = 0 /\ now[r] <= bucket.last
    <2>1. PICK q \in Requests : Step(q)
      BY <1>1 DEF Next, Tick, vars
    <2>2. ~Take(q) /\ ~TryAcquire(q)
      <3>1. ~Take(q)
        BY <1>1, TakeChangesBucket
      <3>2. ~TryAcquire(q)
        BY <1>1 DEF TryAcquire, IInv, TypeOK
      <3> QED BY <3>1, <3>2
    <2>3. Evaluate(q, bucket)
      BY <2>1, <2>2 DEF Step, Load, LoseRace
    <2>4. q = r /\ Credited(bucket, now[q]).tokens = 0
      BY <1>1, <2>3 DEF Evaluate, IInv, TypeOK
    <2> QED BY <1>1, <2>4, EmptyIsOwedNothing DEF IInv, TypeOK
  <1>2. IInv /\ [Next]_vars =>
          [\A r \in Requests :
              pc[r] # "idle" /\ pc'[r] = "idle" /\ UNCHANGED bucket =>
                  bucket.tokens = 0 /\ now[r] <= bucket.last]_vars
    BY <1>1
  <1> QED BY <1>2, SpecIInv, PTL DEF Spec, DenialJustified
=============================================================================
