--------------------------- MODULE StorageProofs ----------------------------
(***************************************************************************)
(* The storage backends' limits, for every limit, window, maximum, period  *)
(* and bound.  Redis: the rate script implements the sliding-window        *)
(* contract (nothing that still counts has been purged or expired), the    *)
(* quota script the fixed-period one, healing within one period when       *)
(* somebody strips the key of its expiry.  Memory: a call delayed on the   *)
(* lock neither overdraws a quota nor shortens its period, and overruns a  *)
(* rate window by at most one request for each other call.                 *)
(***************************************************************************)
EXTENDS Storage, SequenceTheorems, FiniteSetTheorems,
        WellFoundedInduction, TLAPS

-----------------------------------------------------------------------------
(* RATE_SCRIPT *)

\* The sorted set is the history minus requests too old to count, and the key
\* outlives everything it holds.
NothingForgotten ==
    /\ zset \subseteq admitted
    /\ \A e \in admitted :
          /\ e.score <= clock
          /\ e.score + Window <= expiry
          /\ e.score > clock - Window => e \in zset

RateIInv == RateTypeOK /\ NothingForgotten

\* The contract's instance of FiniteSets counts as this module's does.
LEMMA SameCardinality == \A S : RateContract!Cardinality(S) = Cardinality(S)
  BY DEF Cardinality, RateContract!Cardinality, IsFiniteSet, RateContract!IsFiniteSet

\* The set the script counts is the set the contract counts.
LEMMA PurgedIsCounting ==
    ASSUME RateIInv
    PROVE  Purged(Live, clock) = RateContract!Counting(admitted, clock)
  BY LimitsAssumption
  DEF RateIInv, RateTypeOK, NothingForgotten, Purged, Live, RateContract!Counting, Members, Times

\* The invariant holds initially and is kept by every step.
LEMMA RateInductive == (RateInit => RateIInv) /\ (RateIInv /\ [RateNext]_rateVars => RateIInv')
  <1> USE LimitsAssumption DEF RateIInv, RateTypeOK, NothingForgotten, Times, Members
  <1>1. RateInit => RateIInv
    BY DEF RateInit
  <1>2. ASSUME RateIInv, [RateNext]_rateVars PROVE RateIInv'
    <2>1. CASE AllowRate
      <3>1. PICK u \in Suffixes :
              /\ zset' = Purged(Live, clock) \cup {[score |-> clock, suffix |-> u]}
              /\ admitted' = admitted \cup {[score |-> clock, suffix |-> u]}
        BY <2>1 DEF AllowRate
      <3> QED BY <1>2, <2>1, <3>1 DEF AllowRate, Purged, Live
    <2>2. CASE DenyRate
      BY <1>2, <2>2 DEF DenyRate, Purged, Live
    <2>3. CASE ExpireWindow
      BY <1>2, <2>3 DEF ExpireWindow
    <2>4. CASE RateTick
      BY <1>2, <2>4 DEF RateTick
    <2>5. CASE UNCHANGED rateVars
      BY <1>2, <2>5 DEF rateVars
    <2> QED BY <1>2, <2>1, <2>2, <2>3, <2>4, <2>5 DEF RateNext
  <1> QED BY <1>1, <1>2

\* The invariant holds of every behaviour.
LEMMA RateInvariant == RateSpec => []RateIInv
  BY RateInductive, PTL DEF RateSpec

\* Type correctness of the sorted set and its expiry.
THEOREM RateTypeCorrect == RateSpec => []RateTypeOK
  BY RateInvariant, PTL DEF RateIInv

\* RATE_SCRIPT refines the contract of Storage::check_rate: every call is the
\* contract's decision, the server's expiry is invisible.
THEOREM RedisImplementsContract == RateSpec => ImplementsRateWindow
  <1>1. RateInit => RateContract!Init
    BY DEF RateInit, RateContract!Init
  <1>2. RateIInv /\ [RateNext]_rateVars => [RateContract!Next]_<<clock, admitted, answer>>
    <2> SUFFICES ASSUME RateIInv, [RateNext]_rateVars
                 PROVE  [RateContract!Next]_<<clock, admitted, answer>>
      OBVIOUS
    <2>0. Purged(Live, clock) = RateContract!Counting(admitted, clock)
      BY PurgedIsCounting
    <2>1. CASE AllowRate
      <3>1. PICK u \in Suffixes :
              /\ [score |-> clock, suffix |-> u] \notin Purged(Live, clock)
              /\ admitted' = admitted \cup {[score |-> clock, suffix |-> u]}
        BY <2>1 DEF AllowRate
      <3>2. [score |-> clock, suffix |-> u] \notin admitted
        BY <2>0, <3>1, LimitsAssumption DEF RateContract!Counting, RateIInv, RateTypeOK, Times
      <3>3. RateContract!Allow
        BY <2>0, <2>1, <3>1, <3>2, SameCardinality DEF AllowRate, RateContract!Allow
      <3> QED BY <3>3 DEF RateContract!Next
    <2>2. CASE DenyRate
      BY <2>0, <2>2, SameCardinality DEF DenyRate, RateContract!Deny, RateContract!Next
    <2>3. CASE ExpireWindow
      BY <2>3 DEF ExpireWindow
    <2>4. CASE RateTick
      BY <2>4 DEF RateTick, RateContract!Tick, RateContract!Next
    <2>5. CASE UNCHANGED rateVars
      BY <2>5 DEF rateVars
    <2> QED BY <2>1, <2>2, <2>3, <2>4, <2>5 DEF RateNext
  <1> QED BY <1>1, <1>2, RateInvariant, PTL DEF RateSpec, ImplementsRateWindow, RateContract!Spec

-----------------------------------------------------------------------------
\* The allowed requests in the window that ends at t.
InWindow(S, t) == {e \in S : e.score > t - Window /\ e.score <= t}

\* The inductive form of NoBurst.
BurstInv == IsFiniteSet(admitted) /\ NoBurst

\* NoBurst is inductive given the bookkeeping invariant.
LEMMA BurstInductive == RateIInv /\ BurstInv /\ [RateNext]_rateVars => BurstInv'
  <1> SUFFICES ASSUME RateIInv, BurstInv, [RateNext]_rateVars PROVE BurstInv'
    OBVIOUS
  <1>0. \A t \in Times : t <= clock =>
          /\ IsFiniteSet(InWindow(admitted, t))
          /\ Cardinality(InWindow(admitted, t)) <= Limit
    <2> TAKE t \in Times
    <2>1. InWindow(admitted, t) \subseteq admitted
      BY DEF InWindow
    <2> QED BY <2>1, FS_Subset DEF BurstInv, NoBurst, InWindow
  <1>1. CASE AllowRate
    <2>1. PICK u \in Suffixes :
            admitted' = admitted \cup {[score |-> clock, suffix |-> u]}
      BY <1>1 DEF AllowRate
    <2> DEFINE m == [score |-> clock, suffix |-> u]
    <2>2. IsFiniteSet(admitted')
      BY <2>1, FS_AddElement DEF BurstInv
    <2>3. clock' = clock
      BY <1>1 DEF AllowRate
    <2>4. ASSUME NEW t \in Times, t <= clock
          PROVE  Cardinality(InWindow(admitted', t)) <= Limit
      <3>0. t \in Int /\ clock \in Int /\ Window \in Int /\ Window > 0
        BY LimitsAssumption DEF RateIInv, RateTypeOK, Times
      <3>1. CASE t < clock
        <4>1. InWindow(admitted', t) = InWindow(admitted, t)
          BY <2>1, <3>0, <3>1 DEF InWindow
        <4> QED BY <1>0, <2>4, <4>1
      <3>2. CASE t = clock
        <4>1. RateContract!Counting(admitted, clock) = InWindow(admitted, t)
          BY <3>2, LimitsAssumption
          DEF RateContract!Counting, InWindow, RateIInv, NothingForgotten, RateTypeOK, Members, Times
        <4>2. Cardinality(InWindow(admitted, t)) < Limit
          BY <1>1, <4>1, PurgedIsCounting DEF AllowRate
        <4>3. InWindow(admitted', t) = InWindow(admitted, t) \cup {m}
          BY <2>1, <3>0, <3>2 DEF InWindow
        <4>4. IsFiniteSet(InWindow(admitted, t))
          BY <1>0, <2>4
        <4>5. Cardinality(InWindow(admitted, t)) \in Nat
          BY <4>4, FS_CardinalityType
        <4>6. Cardinality(InWindow(admitted', t)) <= Cardinality(InWindow(admitted, t)) + 1
          <5>1. Cardinality(InWindow(admitted, t) \cup {m}) =
                  IF m \in InWindow(admitted, t) THEN Cardinality(InWindow(admitted, t))
                  ELSE Cardinality(InWindow(admitted, t)) + 1
            BY <4>4, FS_AddElement
          <5> HIDE DEF m
          <5> QED BY <4>3, <4>5, <5>1
        <4>7. Cardinality(InWindow(admitted', t)) \in Nat
          BY <4>3, <4>4, FS_AddElement, FS_CardinalityType
        <4> QED BY <4>2, <4>5, <4>6, <4>7, LimitsAssumption
      <3> QED BY <2>4, <3>0, <3>1, <3>2
    <2> QED BY <2>2, <2>3, <2>4 DEF BurstInv, NoBurst, InWindow
  <1>2. CASE RateTick
    <2>1. admitted' = admitted /\ clock' = clock + 1
      BY <1>2 DEF RateTick
    <2>2. ASSUME NEW t \in Times, t <= clock + 1
          PROVE  Cardinality(InWindow(admitted, t)) <= Limit
      <3>0. t \in Int /\ clock \in Nat /\ Window \in Int /\ Window > 0 /\ clock \in Times
        BY LimitsAssumption DEF RateIInv, RateTypeOK, Times
      <3>1. CASE t <= clock
        BY <1>0, <3>1
      <3>2. CASE t = clock + 1
        <4>1. InWindow(admitted, t) \subseteq InWindow(admitted, clock)
          BY <3>0, <3>2 DEF InWindow, RateIInv, NothingForgotten, RateTypeOK, Members, Times
        <4>2. /\ IsFiniteSet(InWindow(admitted, clock))
              /\ Cardinality(InWindow(admitted, clock)) <= Limit
          BY <1>0, <3>0
        <4>3. /\ Cardinality(InWindow(admitted, t)) <= Cardinality(InWindow(admitted, clock))
              /\ IsFiniteSet(InWindow(admitted, t))
          BY <4>1, <4>2, FS_Subset
        <4>4. /\ Cardinality(InWindow(admitted, t)) \in Nat
              /\ Cardinality(InWindow(admitted, clock)) \in Nat
          BY <4>2, <4>3, FS_CardinalityType
        <4> QED BY <4>2, <4>3, <4>4, LimitsAssumption
      <3> QED BY <2>2, <3>0, <3>1, <3>2
    <2> QED BY <2>1, <2>2 DEF BurstInv, NoBurst, InWindow
  <1>3. CASE DenyRate \/ ExpireWindow \/ UNCHANGED rateVars
    BY <1>3 DEF DenyRate, ExpireWindow, rateVars, BurstInv, NoBurst
  <1> QED BY <1>1, <1>2, <1>3 DEF RateNext

\* No window of any position ever holds more than Limit allowed requests: the
\* sliding log has no boundary burst.
THEOREM NeverBursts == RateSpec => []NoBurst
  <1>1. RateInit => BurstInv
    <2> SUFFICES ASSUME RateInit PROVE BurstInv
      OBVIOUS
    <2>1. \A t \in Times :
            {e \in admitted : e.score > t - Window /\ e.score <= t} = {}
      BY DEF RateInit
    <2>2. IsFiniteSet({}) /\ Cardinality({}) = 0
      BY FS_EmptySet
    <2> QED BY <2>1, <2>2, LimitsAssumption DEF RateInit, BurstInv, NoBurst
  <1>2. BurstInv => NoBurst
    BY DEF BurstInv
  <1> QED BY <1>1, <1>2, BurstInductive, RateInvariant, PTL DEF RateSpec

-----------------------------------------------------------------------------
(* QUOTA_SCRIPT *)

\* A key that expires does so within one period of now, and began at or after 0.
ExpiryInv ==
    /\ ends <= clock + Period
    /\ ends # -1 => ends >= Period

QuotaIInv == QuotaTypeOK /\ ExpiryInv

\* The invariant holds initially and is kept by every step.
LEMMA QuotaInductive == (QuotaInit => QuotaIInv) /\ (QuotaIInv /\ [QuotaNext]_quotaVars => QuotaIInv')
  <1> USE LimitsAssumption DEF QuotaIInv, QuotaTypeOK, Times, ExpiryInv
  <1>1. QuotaInit => QuotaIInv
    BY DEF QuotaInit
  <1>2. ASSUME QuotaIInv, [QuotaNext]_quotaVars PROVE QuotaIInv'
    <2>1. CASE QuotaScript
      BY <1>2, <2>1 DEF QuotaScript, Incremented, Exists
    <2>2. CASE ExpireCounter
      BY <1>2, <2>2 DEF ExpireCounter, Exists
    <2>3. CASE LoseExpiry
      BY <1>2, <2>3 DEF LoseExpiry, Exists
    <2>4. CASE QuotaTick
      BY <1>2, <2>4 DEF QuotaTick
    <2>5. CASE UNCHANGED quotaVars
      BY <1>2, <2>5 DEF quotaVars
    <2> QED BY <1>2, <2>1, <2>2, <2>3, <2>4, <2>5 DEF QuotaNext
  <1> QED BY <1>1, <1>2

\* The invariant holds of every behaviour.
LEMMA QuotaInvariant == QuotaSpec => []QuotaIInv
  BY QuotaInductive, PTL DEF QuotaSpec

\* Type correctness of the counter and its expiry.
THEOREM QuotaTypeCorrect == QuotaSpec => []QuotaTypeOK
  BY QuotaInvariant, PTL DEF QuotaIInv

\* QUOTA_SCRIPT heals: after any call the counter ends within one period even if
\* its expiry had been stripped.
THEOREM QuotaHeals == QuotaSpec => EveryCallBoundsThePeriod
  <1>1. QuotaIInv /\ [QuotaNext]_quotaVars =>
          [count' # count /\ count' > 0 => ends' > clock /\ ends' <= clock + Period]_quotaVars
    <2> SUFFICES ASSUME QuotaIInv, [QuotaNext]_quotaVars, count' # count, count' > 0
                 PROVE  ends' > clock /\ ends' <= clock + Period
      OBVIOUS
    <2>1. QuotaScript
      BY LimitsAssumption DEF QuotaNext, ExpireCounter, LoseExpiry, QuotaTick, quotaVars, QuotaIInv, QuotaTypeOK, Times
    <2> QED BY <2>1, LimitsAssumption
      DEF QuotaScript, Incremented, Exists, QuotaIInv, QuotaTypeOK, Times, ExpiryInv
  <1> QED BY <1>1, QuotaInvariant, PTL DEF QuotaSpec, EveryCallBoundsThePeriod

\* QUOTA_SCRIPT refines the contract of Storage::check_quota.
THEOREM RedisImplementsQuota == QuotaSpec => ImplementsQuotaPeriod
  <1> DEFINE start == IF ~Exists THEN -1 ELSE IF ends = -1 THEN -2 ELSE ends - Period
             used == IF ~Exists THEN 0 ELSE IF count > Max THEN Max ELSE count
  <1>1. QuotaInit => QuotaContract!Init
    BY DEF QuotaInit, QuotaContract!Init, QuotaContract!NoPeriod, Exists
  <1>2. QuotaIInv /\ [QuotaNext]_quotaVars => [QuotaContract!Next]_<<clock, start, used, verdict>>
    <2> SUFFICES ASSUME QuotaIInv, [QuotaNext]_quotaVars
                 PROVE  [QuotaContract!Next]_<<clock, start, used, verdict>>
      OBVIOUS
    <2> USE LimitsAssumption DEF QuotaIInv, QuotaTypeOK, Times, ExpiryInv
    <2>1. CASE QuotaScript
      <3>1. CASE Exists
        <4>1. /\ ends' = (IF ends = -1 THEN clock + Period ELSE ends)
              /\ count' = count + 1 /\ clock' = clock /\ Exists'
          BY <2>1, <3>1 DEF QuotaScript, Incremented, Exists
        <4>2. CASE count < Max
          BY <2>1, <3>1, <4>1, <4>2
          DEF QuotaScript, Incremented, QuotaContract!Next, QuotaContract!Allow, QuotaContract!Spent, QuotaContract!Opens,
              QuotaContract!NoPeriod, QuotaContract!Endless
        <4>3. CASE ~(count < Max)
          BY <2>1, <3>1, <4>1, <4>3
          DEF QuotaScript, Incremented, QuotaContract!Next, QuotaContract!Deny, QuotaContract!Spent, QuotaContract!Opens,
              QuotaContract!NoPeriod, QuotaContract!Endless
        <4> QED BY <4>2, <4>3
      <3>2. CASE ~Exists
        <4>1. /\ ends' = clock + Period /\ count' = 1 /\ clock' = clock
              /\ Exists'
          BY <2>1, <3>2 DEF QuotaScript, Incremented, Exists
        <4>2. CASE 0 < Max
          BY <2>1, <3>2, <4>1, <4>2
          DEF QuotaScript, Incremented, QuotaContract!Next, QuotaContract!Allow, QuotaContract!Spent, QuotaContract!Opens,
              QuotaContract!NoPeriod, QuotaContract!Endless
        <4>3. CASE ~(0 < Max)
          BY <2>1, <3>2, <4>1, <4>3
          DEF QuotaScript, Incremented, QuotaContract!Next, QuotaContract!Deny, QuotaContract!Spent, QuotaContract!Opens,
              QuotaContract!NoPeriod, QuotaContract!Endless
        <4> QED BY <4>2, <4>3
      <3> QED BY <3>1, <3>2
    <2>2. CASE ExpireCounter
      BY <2>2 DEF ExpireCounter, Exists
    <2>3. CASE LoseExpiry
      BY <2>3 DEF LoseExpiry, Exists, QuotaContract!Next, QuotaContract!LoseEnd,
                  QuotaContract!NoPeriod, QuotaContract!Endless
    <2>4. CASE QuotaTick
      BY <2>4 DEF QuotaTick, Exists, QuotaContract!Next, QuotaContract!Tick,
                  QuotaContract!NoPeriod, QuotaContract!Endless
    <2>5. CASE UNCHANGED quotaVars
      BY <2>5 DEF quotaVars, Exists
    <2> QED BY <2>1, <2>2, <2>3, <2>4, <2>5 DEF QuotaNext
  <1> QED BY <1>1, <1>2, QuotaInvariant, PTL DEF QuotaSpec, ImplementsQuotaPeriod, QuotaContract!Spec

-----------------------------------------------------------------------------
(* The in-memory backend *)

\* Every nonempty set of naturals has a least element.
LEMMA LeastNatural ==
    ASSUME NEW T \in SUBSET Nat, T # {}
    PROVE  \E x \in T : \A y \in T : x <= y
  <1> DEFINE R == {ss \in Nat \X Nat : ss[1] < ss[2]}
  <1>1. IsWellFoundedOn(R, Nat)
    BY NatLessThanWellFounded, Zenon DEF OpToRel
  <1> HIDE DEF R
  <1>2. PICK x \in T : \A y \in T : ~ (<<y, x>> \in R)
    BY <1>1, WFMin, Zenon
  <1>3. ASSUME NEW y \in T PROVE x <= y
    <2>1. ~ (<<y, x>> \in R)
      BY <1>2
    <2>2. ~ (y < x)
      BY <2>1 DEF R
    <2> QED BY <2>2
  <1> QED BY <1>3

\* The pop_front loop drops a prefix, and only timestamps whose window has
\* passed at the call's own time.
LEMMA SlidDropsPrefix ==
    ASSUME NEW s \in Seq(Times), NEW at \in Times
    PROVE  \E d \in 0 .. Len(s) :
              /\ Slid(s, at) \in Seq(Times)
              /\ Len(Slid(s, at)) = Len(s) - d
              /\ \A i \in 1 .. Len(s) - d : Slid(s, at)[i] = s[d + i]
              /\ \A i \in 1 .. d : s[i] <= at - Window
  <1> DEFINE keep == {i \in 1 .. Len(s) : Age(s[i], at) < Window}
             first == CHOOSE i \in keep : \A j \in keep : i <= j
  <1>0. /\ Len(s) \in Nat
        /\ \A i \in 1 .. Len(s) : s[i] \in Int
        /\ at \in Int /\ Window \in Int /\ Window > 0
    BY LimitsAssumption DEF Times
  <1>1. \A i \in 1 .. Len(s) : i \notin keep => s[i] <= at - Window
    BY <1>0 DEF Age
  <1>2. CASE keep = {}
    <2>1. Slid(s, at) = << >>
      BY <1>2 DEF Slid
    <2>2. Len(s) \in 0 .. Len(s)
      BY <1>0
    <2>3. /\ << >> \in Seq(Times) /\ Len(<< >>) = 0
          /\ Len(s) - Len(s) = 0
      BY <1>0, EmptySeq
    <2>4. \A i \in 1 .. Len(s) : s[i] <= at - Window
      BY <1>1, <1>2
    <2> QED BY <2>1, <2>2, <2>3, <2>4
  <1>3. CASE keep # {}
    <2>1. keep \in SUBSET Nat
      BY <1>0
    <2>2. \E i \in keep : \A j \in keep : i <= j
      <3> HIDE DEF keep
      <3> QED BY <1>3, <2>1, LeastNatural
    <2>3. first \in keep /\ \A j \in keep : first <= j
      <3> HIDE DEF keep
      <3> QED BY <2>2
    <2>4. Slid(s, at) = SubSeq(s, first, Len(s))
      BY <1>3 DEF Slid
    <2>5. first \in 1 .. Len(s)
      BY <2>3
    <2> HIDE DEF first
    <2>6. \A i \in first .. Len(s) : s[i] \in Times
      BY <1>0, <2>5
    <2>7. /\ SubSeq(s, first, Len(s)) \in Seq(Times)
          /\ Len(SubSeq(s, first, Len(s))) = Len(s) - first + 1
          /\ \A i \in 1 .. Len(s) - first + 1 :
                SubSeq(s, first, Len(s))[i] = s[first + i - 1]
      BY <1>0, <2>5, <2>6, SubSeqProperties
    <2>8. \A i \in 1 .. first - 1 : s[i] <= at - Window
      <3> TAKE i \in 1 .. first - 1
      <3>1. i \in 1 .. Len(s) /\ ~(first <= i)
        BY <1>0, <2>5
      <3>2. i \notin keep
        BY <2>3, <3>1
      <3> HIDE DEF keep
      <3> QED BY <1>1, <3>1, <3>2
    <2> DEFINE d == first - 1
    <2>9. /\ d \in 0 .. Len(s) /\ Len(s) - d = Len(s) - first + 1
          /\ \A i \in Int : d + i = first + i - 1
      BY <1>0, <2>5
    <2>10. \A i \in 1 .. Len(s) - d : SubSeq(s, first, Len(s))[i] = s[d + i]
      <3> SUFFICES ASSUME NEW i \in 1 .. Len(s) - d
                   PROVE  SubSeq(s, first, Len(s))[i] = s[d + i]
        OBVIOUS
      <3>1. i \in 1 .. Len(s) - first + 1 /\ d + i = first + i - 1
        BY <1>0, <2>5
      <3> QED BY <2>7, <3>1
    <2> QED BY <2>4, <2>7, <2>8, <2>9, <2>10
  <1> QED BY <1>2, <1>3

\* The log is what is left of the allowed requests, never more than Limit, and
\* every clock reading is in the past.
LogInv ==
    /\ Len(log) <= Limit
    /\ Len(log) <= Len(allowed)
    /\ \A i \in 1 .. Len(log) : log[i] = allowed[Len(allowed) - Len(log) + i]
    /\ \A c \in Calls : now[c] <= clock

\* The counter of the current entry, the grants made in it and its end agree.
QuotaInv ==
    /\ granted = IF quota.count > Max THEN Max ELSE quota.count
    /\ quota.count > 0 => quota.resetsAt = renewed + Period

\* The allowed requests in the window that ends at t, and the calls that may
\* still add one to it.
Inside(t) == {i \in DOMAIN allowed : t - Window < allowed[i] /\ allowed[i] <= t}
Waiting(t) == {c \in Calls : pc[c] = "rate" /\ now[c] <= t}

\* Either the log still holds everything inside the window, or some later call
\* has dropped from it: then the window has passed and each call still waiting
\* may add at most one request more.
WindowInv ==
    \A t \in Times :
        \/ \A i \in Inside(t) : i > Len(allowed) - Len(log)
        \/ /\ clock > t
           /\ Cardinality(Inside(t)) + Cardinality(Waiting(t)) <= Limit + Cardinality(Calls) - 1

MemIInv == MemTypeOK /\ LogInv /\ QuotaInv

\* What check_rate's critical section does to the log and to the history: it
\* drops d requests, all out of the window at the call's own time, and adds its
\* own if there is room.
LEMMA CheckRateEffect ==
    ASSUME MemTypeOK, LogInv, NEW c \in Calls, CheckRate(c)
    PROVE  \E d \in 0 .. Len(log) :
              /\ \A i \in 1 .. d : log[i] <= now[c] - Window
              /\ \/ /\ Len(log) - d < Limit
                    /\ log' \in Seq(Times) /\ Len(log') = Len(log) - d + 1
                    /\ allowed' = Append(allowed, now[c])
                    /\ \A i \in 1 .. Len(log) - d : log'[i] = log[d + i]
                    /\ log'[Len(log) - d + 1] = now[c]
                 \/ /\ log' \in Seq(Times) /\ Len(log') = Len(log) - d
                    /\ allowed' = allowed
                    /\ \A i \in 1 .. Len(log) - d : log'[i] = log[d + i]
  <1>1. log \in Seq(Times) /\ now[c] \in Times
    BY DEF MemTypeOK
  <1> DEFINE s == Slid(log, now[c])
  <1>2. PICK d \in 0 .. Len(log) :
              /\ s \in Seq(Times)
              /\ Len(s) = Len(log) - d
              /\ \A i \in 1 .. Len(log) - d : s[i] = log[d + i]
              /\ \A i \in 1 .. d : log[i] <= now[c] - Window
    BY <1>1, SlidDropsPrefix
  <1>3. \/ Len(s) < Limit /\ log' = Append(s, now[c]) /\ allowed' = Append(allowed, now[c])
        \/ log' = s /\ allowed' = allowed
    BY DEF CheckRate
  <1> HIDE DEF s
  <1>4. CASE Len(s) < Limit /\ log' = Append(s, now[c]) /\ allowed' = Append(allowed, now[c])
    <2>1. /\ log' \in Seq(Times) /\ Len(log') = Len(s) + 1
          /\ \A i \in 1 .. Len(s) : log'[i] = s[i]
          /\ log'[Len(s) + 1] = now[c]
      BY <1>1, <1>2, <1>4
    <2> QED BY <1>2, <1>4, <2>1
  <1>5. CASE log' = s /\ allowed' = allowed
    BY <1>2, <1>5
  <1> QED BY <1>3, <1>4, <1>5

\* The bookkeeping invariant holds initially and is kept by every step.
LEMMA MemInductive == (MemInit => MemIInv) /\ (MemIInv /\ [MemNext]_memVars => MemIInv')
  <1> USE LimitsAssumption, MemoryAssumption
  <1>1. MemInit => MemIInv
    BY DEF MemInit, MemIInv, MemTypeOK, LogInv, QuotaInv, Times
  <1>2. ASSUME MemIInv, [MemNext]_memVars PROVE MemIInv'
    <2> USE <1>2 DEF MemIInv
    <2>1. CASE MemTick
      <3>1. clock' \in Times /\ clock <= clock' /\ clock \in Times
        BY <2>1 DEF MemTick, MemTypeOK, Times
      <3>2. UNCHANGED <<log, quota, pc, now, allowed, granted, renewed>>
        BY <2>1 DEF MemTick
      <3>3. MemTypeOK' /\ QuotaInv'
        BY <3>1, <3>2 DEF MemTypeOK, QuotaInv
      <3>4. \A c \in Calls : now[c] \in Times /\ now[c] <= clock
        BY DEF MemTypeOK, LogInv
      <3>5. \A c \in Calls : now'[c] <= clock'
        BY <3>1, <3>2, <3>4 DEF Times
      <3> QED BY <3>2, <3>3, <3>5 DEF LogInv
    <2>2. ASSUME NEW c \in Calls, NEW check \in {"rate", "quota"}, Call(c, check)
          PROVE  MemIInv'
      BY <2>2 DEF Call, MemTypeOK, LogInv, QuotaInv, Times
    <2>3. ASSUME NEW c \in Calls, CheckRate(c) PROVE MemIInv'
      <3>0. /\ pc' = [pc EXCEPT ![c] = "idle"]
            /\ UNCHANGED <<clock, quota, now, granted, renewed>>
        BY <2>3 DEF CheckRate
      <3>1. PICK d \in 0 .. Len(log) :
              /\ \A i \in 1 .. d : log[i] <= now[c] - Window
              /\ \/ /\ Len(log) - d < Limit
                    /\ log' \in Seq(Times) /\ Len(log') = Len(log) - d + 1
                    /\ allowed' = Append(allowed, now[c])
                    /\ \A i \in 1 .. Len(log) - d : log'[i] = log[d + i]
                    /\ log'[Len(log) - d + 1] = now[c]
                 \/ /\ log' \in Seq(Times) /\ Len(log') = Len(log) - d
                    /\ allowed' = allowed
                    /\ \A i \in 1 .. Len(log) - d : log'[i] = log[d + i]
        BY <2>3, CheckRateEffect
      <3>2. QuotaInv'
        BY <3>0 DEF QuotaInv
      <3>3. log \in Seq(Times) /\ allowed \in Seq(Times) /\ now[c] \in Times
        BY DEF MemTypeOK
      <3>4. log' \in Seq(Times) /\ allowed' \in Seq(Times)
        <4>1. Append(allowed, now[c]) \in Seq(Times)
          BY <3>3
        <4> QED BY <3>1, <3>3, <4>1
      <3>5. MemTypeOK'
        BY <3>0, <3>4 DEF MemTypeOK
      <3>6. LogInv'
        <4>1. \A e \in Calls : now'[e] <= clock'
          BY <3>0 DEF LogInv
        <4>2. CASE /\ Len(log) - d < Limit /\ Len(log') = Len(log) - d + 1
                   /\ allowed' = Append(allowed, now[c])
                   /\ \A i \in 1 .. Len(log) - d : log'[i] = log[d + i]
                   /\ log'[Len(log) - d + 1] = now[c]
          <5>1. /\ Len(allowed') = Len(allowed) + 1
                /\ allowed'[Len(allowed) + 1] = now[c]
                /\ \A i \in 1 .. Len(allowed) : allowed'[i] = allowed[i]
            BY <3>3, <4>2
          <5>2. Len(log) \in Nat /\ Len(allowed) \in Nat
            BY <3>3
          <5>3. Len(log') <= Limit /\ Len(log') <= Len(allowed')
            BY <4>2, <5>1, <5>2 DEF LogInv
          <5>4. ASSUME NEW i \in 1 .. Len(log')
                PROVE  log'[i] = allowed'[Len(allowed') - Len(log') + i]
            <6>0. i \in 1 .. Len(log) - d \/ i = Len(log) - d + 1
              <7>1. Len(log') = Len(log) - d + 1
                BY <4>2
              <7> QED BY <5>2, <7>1
            <6>1. CASE i \in 1 .. Len(log) - d
              <7>1. log'[i] = allowed[Len(allowed) - Len(log) + (d + i)]
                BY <4>2, <5>2, <6>1 DEF LogInv
              <7>2. /\ Len(allowed) - Len(log) + (d + i) \in 1 .. Len(allowed)
                    /\ Len(allowed') - Len(log') + i = Len(allowed) - Len(log) + (d + i)
                BY <4>2, <5>1, <5>2, <6>1 DEF LogInv
              <7> QED BY <5>1, <7>1, <7>2
            <6>2. CASE i = Len(log) - d + 1
              <7>1. Len(allowed') - Len(log') + i = Len(allowed) + 1
                BY <4>2, <5>1, <5>2, <6>2
              <7> QED BY <4>2, <5>1, <6>2, <7>1
            <6> QED BY <6>0, <6>1, <6>2
          <5> QED BY <4>1, <5>3, <5>4 DEF LogInv
        <4>3. CASE /\ Len(log') = Len(log) - d /\ allowed' = allowed
                   /\ \A i \in 1 .. Len(log) - d : log'[i] = log[d + i]
          <5>2. Len(log) \in Nat /\ Len(allowed) \in Nat
            BY <3>3
          <5>3. Len(log') <= Limit /\ Len(log') <= Len(allowed')
            BY <4>3, <5>2 DEF LogInv
          <5>4. ASSUME NEW i \in 1 .. Len(log')
                PROVE  log'[i] = allowed'[Len(allowed') - Len(log') + i]
            <6>0. i \in 1 .. Len(log) - d
              BY <4>3
            <6>1. log'[i] = allowed[Len(allowed) - Len(log) + (d + i)]
              <7>1. log'[i] = log[d + i]
                BY <4>3, <6>0
              <7>2. d + i \in 1 .. Len(log)
                BY <5>2, <6>0
              <7> QED BY <7>1, <7>2 DEF LogInv
            <6>2. Len(allowed') - Len(log') + i = Len(allowed) - Len(log) + (d + i)
              BY <4>3, <5>2, <5>4
            <6> QED BY <4>3, <6>1, <6>2
          <5> QED BY <4>1, <5>3, <5>4 DEF LogInv
        <4> QED BY <3>1, <4>2, <4>3
      <3> QED BY <3>2, <3>5, <3>6
    <2>4. ASSUME NEW c \in Calls, CheckQuota(c) PROVE MemIInv'
      <3>1. LogInv'
        BY <2>4 DEF CheckQuota, LogInv
      <3> DEFINE renews == Renews(now[c])
                 n == IF renews THEN 1 ELSE quota.count + 1
      <3>2. /\ n <= MaxCount
            /\ quota' = [count |-> n,
                         resetsAt |-> IF renews THEN now[c] + Period ELSE quota.resetsAt]
            /\ granted' = (IF renews THEN 0 ELSE granted) + (IF n > Max THEN 0 ELSE 1)
            /\ renewed' = IF renews THEN now[c] ELSE renewed
            /\ pc' = [pc EXCEPT ![c] = "idle"]
            /\ UNCHANGED <<clock, log, now, allowed>>
        BY <2>4 DEF CheckQuota, Denied
      <3>3. /\ quota.count \in Nat /\ quota.resetsAt \in Nat /\ now[c] \in Nat
            /\ now[c] \in Times /\ granted \in Nat /\ renewed \in Times
            /\ renews \in BOOLEAN
        BY DEF MemTypeOK, Times, Renews
      <3>4. n \in Nat /\ n > 0 /\ (~renews => quota.count > 0)
        BY <3>3 DEF Renews
      <3> HIDE DEF renews
      <3>5. /\ quota'.count = n
            /\ quota'.resetsAt = IF renews THEN now[c] + Period ELSE quota.resetsAt
            /\ quota' \in [count : 0 .. MaxCount, resetsAt : Nat]
        BY <3>2, <3>3, <3>4
      <3>6. granted' \in Nat /\ renewed' \in Times
        BY <3>2, <3>3
      <3>7. MemTypeOK'
        BY <3>2, <3>5, <3>6 DEF MemTypeOK
      <3>8. granted' = IF n > Max THEN Max ELSE n
        BY <3>2, <3>3, <3>4 DEF QuotaInv
      <3>9. quota'.resetsAt = renewed' + Period
        BY <3>2, <3>3, <3>4, <3>5 DEF QuotaInv
      <3> QED BY <3>1, <3>5, <3>7, <3>8, <3>9 DEF QuotaInv
    <2>5. CASE UNCHANGED memVars
      BY <2>5 DEF memVars, MemTypeOK, LogInv, QuotaInv
    <2> QED BY <1>2, <2>1, <2>2, <2>3, <2>4, <2>5 DEF MemNext
  <1> QED BY <1>1, <1>2

\* The bookkeeping invariant holds of every behaviour.
LEMMA MemInvariant == MemSpec => []MemIInv
  BY MemInductive, PTL DEF MemSpec

\* Type correctness of the in-memory limits.
THEOREM MemTypeCorrect == MemSpec => []MemTypeOK
  BY MemInvariant, PTL DEF MemIInv

\* A quota entry of check_quota never grants more than Max requests, whatever
\* the order in which delayed calls get the lock.
THEOREM MemoryQuotaRespected == MemSpec => []QuotaRespected
  <1>1. MemIInv => QuotaRespected
    BY LimitsAssumption DEF MemIInv, MemTypeOK, QuotaInv, QuotaRespected
  <1> QED BY <1>1, MemInvariant, PTL

\* A call delayed on the lock cannot cut a quota period short.
THEOREM MemoryPeriodsApart == MemSpec => PeriodsApart
  <1>1. MemIInv /\ [MemNext]_memVars =>
          [renewed' # renewed /\ quota.count > 0 => renewed' >= renewed + Period]_memVars
    <2> SUFFICES ASSUME MemIInv, [MemNext]_memVars, renewed' # renewed, quota.count > 0
                 PROVE  renewed' >= renewed + Period
      OBVIOUS
    <2>1. PICK c \in Calls : CheckQuota(c)
      BY DEF MemNext, MemTick, Call, CheckRate, memVars
    <2> QED BY <2>1, LimitsAssumption
      DEF CheckQuota, Renews, MemIInv, MemTypeOK, QuotaInv, Times
  <1> QED BY <1>1, MemInvariant, PTL DEF MemSpec, PeriodsApart

\* The sets counted by the window invariant are finite.
LEMMA InsideWaitingFinite ==
    ASSUME MemTypeOK, NEW t
    PROVE  /\ IsFiniteSet(Inside(t)) /\ Cardinality(Inside(t)) \in Nat
           /\ IsFiniteSet(Waiting(t)) /\ Cardinality(Waiting(t)) \in Nat
           /\ Cardinality(Calls) \in Nat \ {0}
  <1>1. DOMAIN allowed = 1 .. Len(allowed) /\ Len(allowed) \in Nat
    BY DEF MemTypeOK
  <1>2. IsFiniteSet(DOMAIN allowed)
    BY <1>1, FS_Interval
  <1>3. Inside(t) \in SUBSET DOMAIN allowed /\ Waiting(t) \in SUBSET Calls
    BY DEF Inside, Waiting
  <1>4. IsFiniteSet(Inside(t)) /\ IsFiniteSet(Waiting(t))
    BY <1>2, <1>3, FS_Subset, MemoryAssumption
  <1>5. Cardinality(Calls) \in Nat /\ Cardinality(Calls) # 0
    BY FS_CardinalityType, FS_EmptySet, MemoryAssumption
  <1> QED BY <1>4, <1>5, FS_CardinalityType

\* A window the log still holds in full has at most Limit requests.
LEMMA HeldWindow ==
    ASSUME MemTypeOK, LogInv, NEW t \in Times,
           \A i \in Inside(t) : i > Len(allowed) - Len(log)
    PROVE  Cardinality(Inside(t)) <= Limit
  <1>1. Len(log) \in Nat /\ Len(allowed) \in Nat /\ DOMAIN allowed = 1 .. Len(allowed)
    BY DEF MemTypeOK
  <1> DEFINE last == (Len(allowed) - Len(log) + 1) .. Len(allowed)
  <1>2. IsFiniteSet(last) /\ Cardinality(last) = Len(log)
    <2>1. Len(allowed) - Len(log) + 1 \in Int /\ Len(allowed) \in Int
      BY <1>1
    <2>2. /\ IsFiniteSet(last)
          /\ Cardinality(last) = IF Len(allowed) - Len(log) + 1 > Len(allowed) THEN 0
                                 ELSE Len(allowed) - (Len(allowed) - Len(log) + 1) + 1
      BY <2>1, FS_Interval
    <2> HIDE DEF last
    <2> QED BY <1>1, <2>2
  <1>3. Inside(t) \in SUBSET last
    <2> SUFFICES ASSUME NEW i \in Inside(t) PROVE i \in last
      OBVIOUS
    <2>1. i \in 1 .. Len(allowed) /\ i > Len(allowed) - Len(log)
      BY <1>1 DEF Inside
    <2> QED BY <1>1, <2>1
  <1> HIDE DEF last
  <1>4. Cardinality(Inside(t)) <= Len(log)
    BY <1>2, <1>3, FS_Subset
  <1> QED BY <1>1, <1>4, InsideWaitingFinite, LimitsAssumption DEF LogInv

\* A step that neither touches the log nor admits a waiting call to the past
\* keeps the window invariant.
LEMMA WindowUntouched ==
    ASSUME MemTypeOK, MemTypeOK', WindowInv, UNCHANGED <<log, allowed>>, clock <= clock',
           \A t \in Times : clock > t => Waiting(t)' \subseteq Waiting(t)
    PROVE  WindowInv'
  <1> SUFFICES ASSUME NEW t \in Times
               PROVE  \/ \A i \in Inside(t)' : i > Len(allowed') - Len(log')
                      \/ /\ clock' > t
                         /\ Cardinality(Inside(t)') + Cardinality(Waiting(t)')
                               <= Limit + Cardinality(Calls) - 1
    BY DEF WindowInv
  <1>1. Inside(t)' = Inside(t)
    BY DEF Inside
  <1>2. CASE \A i \in Inside(t) : i > Len(allowed) - Len(log)
    BY <1>1, <1>2
  <1>3. CASE /\ clock > t
             /\ Cardinality(Inside(t)) + Cardinality(Waiting(t)) <= Limit + Cardinality(Calls) - 1
    <2>1. Waiting(t)' \subseteq Waiting(t)
      BY <1>3
    <2>2. /\ IsFiniteSet(Waiting(t)) /\ Cardinality(Waiting(t)) \in Nat
          /\ Cardinality(Inside(t)) \in Nat /\ Cardinality(Calls) \in Nat
      BY InsideWaitingFinite
    <2>3. /\ Cardinality(Waiting(t)') <= Cardinality(Waiting(t))
          /\ Cardinality(Waiting(t)') \in Nat
      BY <2>1, <2>2, FS_Subset, FS_CardinalityType
    <2>4. clock' > t
      BY <1>3 DEF MemTypeOK, Times
    <2> QED BY <1>1, <1>3, <2>2, <2>3, <2>4, LimitsAssumption
  <1> QED BY <1>2, <1>3 DEF WindowInv

\* The critical section of check_rate keeps the window invariant.
LEMMA WindowChecked ==
    ASSUME MemIInv, MemIInv', WindowInv, NEW c \in Calls, CheckRate(c), NEW t \in Times
    PROVE  \/ \A i \in Inside(t)' : i > Len(allowed') - Len(log')
           \/ /\ clock' > t
              /\ Cardinality(Inside(t)') + Cardinality(Waiting(t)')
                    <= Limit + Cardinality(Calls) - 1
  <1> USE LimitsAssumption
  <1>0. /\ MemTypeOK /\ LogInv /\ MemTypeOK' /\ LogInv'
        /\ log \in Seq(Times) /\ allowed \in Seq(Times) /\ now[c] \in Times
        /\ Len(log) \in Nat /\ Len(allowed) \in Nat /\ DOMAIN allowed = 1 .. Len(allowed)
        /\ DOMAIN (allowed') = 1 .. Len(allowed')
    BY DEF MemIInv, MemTypeOK
  <1>1. /\ pc[c] = "rate" /\ pc' = [pc EXCEPT ![c] = "idle"]
        /\ UNCHANGED <<clock, now>>
    BY DEF CheckRate
  <1>2. PICK d \in 0 .. Len(log) :
              /\ \A i \in 1 .. d : log[i] <= now[c] - Window
              /\ \/ /\ Len(log) - d < Limit
                    /\ log' \in Seq(Times) /\ Len(log') = Len(log) - d + 1
                    /\ allowed' = Append(allowed, now[c])
                    /\ \A i \in 1 .. Len(log) - d : log'[i] = log[d + i]
                    /\ log'[Len(log) - d + 1] = now[c]
                 \/ /\ log' \in Seq(Times) /\ Len(log') = Len(log) - d
                    /\ allowed' = allowed
                    /\ \A i \in 1 .. Len(log) - d : log'[i] = log[d + i]
    BY <1>0, CheckRateEffect
  <1>i. /\ Len(log) \in Int /\ Len(allowed) \in Int /\ d \in Int
        /\ 0 <= d /\ d <= Len(log) /\ Len(log) <= Len(allowed)
    BY <1>0 DEF LogInv
  <1>3. /\ Len(allowed') - Len(log') = Len(allowed) - Len(log) + d
        /\ \/ allowed' = allowed
           \/ /\ Len(allowed') = Len(allowed) + 1
              /\ \A i \in 1 .. Len(allowed) : allowed'[i] = allowed[i]
              /\ allowed'[Len(allowed) + 1] = now[c]
    <2>1. CASE /\ Len(log') = Len(log) - d + 1
               /\ allowed' = Append(allowed, now[c])
      <3>1. /\ Len(allowed') = Len(allowed) + 1
            /\ \A i \in 1 .. Len(allowed) : allowed'[i] = allowed[i]
            /\ allowed'[Len(allowed) + 1] = now[c]
        BY <1>0, <2>1
      <3>2. Len(allowed') - Len(log') = Len(allowed) - Len(log) + d
        <4>1. Len(allowed') = Len(allowed) + 1 /\ Len(log') = Len(log) - d + 1
          BY <2>1, <3>1
        <4> QED BY <1>i, <4>1
      <3> QED BY <3>1, <3>2
    <2>2. CASE Len(log') = Len(log) - d /\ allowed' = allowed
      BY <1>0, <2>2
    <2> QED BY <1>2, <2>1, <2>2
  <1>4. /\ Inside(t)' \subseteq Inside(t) \cup {Len(allowed) + 1}
        /\ now[c] > t => Inside(t)' = Inside(t)
    <2>0. t \in Int /\ now[c] \in Int
      BY <1>0 DEF Times
    <2>1. CASE allowed' = allowed
      BY <2>1 DEF Inside
    <2>2. CASE /\ Len(allowed') = Len(allowed) + 1
               /\ \A i \in 1 .. Len(allowed) : allowed'[i] = allowed[i]
               /\ allowed'[Len(allowed) + 1] = now[c]
      <3>1. 1 .. Len(allowed') = (1 .. Len(allowed)) \cup {Len(allowed) + 1}
        BY <1>0, <2>2
      <3> QED BY <1>0, <2>0, <2>2, <3>1 DEF Inside
    <2> QED BY <1>3, <2>1, <2>2
  <1>5. /\ Waiting(t)' = Waiting(t) \ {c}
        /\ now[c] <= t => c \in Waiting(t)
        /\ ~(now[c] <= t) => c \notin Waiting(t)
    BY <1>0, <1>1 DEF Waiting, MemTypeOK
  <1>6. /\ IsFiniteSet(Inside(t)) /\ Cardinality(Inside(t)) \in Nat
        /\ IsFiniteSet(Waiting(t)) /\ Cardinality(Waiting(t)) \in Nat
        /\ Cardinality(Calls) \in Nat \ {0}
    BY <1>0, InsideWaitingFinite
  <1> DEFINE more == Inside(t) \cup {Len(allowed) + 1}
  <1>m. /\ Cardinality(Inside(t)') \in Nat
        /\ Cardinality(Inside(t)') <= Cardinality(Inside(t)) + 1
    <2>1. /\ IsFiniteSet(more)
          /\ Cardinality(more) = IF Len(allowed) + 1 \in Inside(t) THEN Cardinality(Inside(t))
                                 ELSE Cardinality(Inside(t)) + 1
      BY <1>6, FS_AddElement
    <2>2. Inside(t)' \subseteq more
      BY <1>4
    <2> HIDE DEF more
    <2>3. Cardinality(Inside(t)') <= Cardinality(more) /\ IsFiniteSet(Inside(t)')
      BY <2>1, <2>2, FS_Subset
    <2>4. Cardinality(Inside(t)') \in Nat /\ Cardinality(more) \in Nat
      BY <2>1, <2>3, FS_CardinalityType
    <2> QED BY <1>6, <2>1, <2>3, <2>4
  <1>7. CASE \A i \in Inside(t) : i > Len(allowed) - Len(log)
    <2>1. CASE now[c] <= t
      \* what was dropped had left the window of the earlier reading as well
      <3>1. ASSUME NEW i \in Inside(t)' PROVE i > Len(allowed) - Len(log) + d
        <4>1. CASE i = Len(allowed) + 1
          BY <1>i, <4>1
        <4>2. CASE i \in Inside(t)
          <5>0. i \in Int /\ i \in 1 .. Len(allowed)
            BY <1>0, <4>2 DEF Inside
          <5>1. SUFFICES ASSUME ~(i > Len(allowed) - Len(log) + d) PROVE FALSE
            OBVIOUS
          <5> DEFINE k == i - (Len(allowed) - Len(log))
          <5>2. k \in 1 .. d /\ k \in 1 .. Len(log) /\ Len(allowed) - Len(log) + k = i
            <6>1. i > Len(allowed) - Len(log)
              BY <1>7, <4>2
            <6> QED BY <1>i, <5>0, <5>1, <6>1
          <5> HIDE DEF k
          <5>3. log[k] = allowed[i]
            BY <1>0, <5>2 DEF LogInv
          <5>4. log[k] <= now[c] - Window
            BY <1>2, <5>2
          <5>5. allowed[i] \in Int /\ now[c] \in Int /\ t \in Int /\ Window \in Int
            BY <1>0, <5>0 DEF Times
          <5>6. t - Window < allowed[i]
            BY <4>2 DEF Inside
          <5> QED BY <2>1, <5>3, <5>4, <5>5, <5>6
        <4> QED BY <1>4, <4>1, <4>2
      <3> QED BY <1>3, <3>1
    <2>2. CASE ~(now[c] <= t)
      <3>1. Inside(t)' = Inside(t) /\ clock' > t
        <4>1. now[c] <= clock /\ clock \in Int /\ now[c] \in Int /\ t \in Int
          BY <1>0 DEF LogInv, MemTypeOK, Times
        <4>2. now[c] > t /\ clock > t
          BY <2>2, <4>1
        <4> QED BY <1>1, <1>4, <4>2
      <3>2. Cardinality(Inside(t)) <= Limit
        BY <1>0, <1>7, HeldWindow
      <3>3. Waiting(t)' \subseteq Calls \ {c}
        BY <1>5 DEF Waiting
      <3>4. /\ IsFiniteSet(Calls \ {c}) /\ Cardinality(Calls \ {c}) = Cardinality(Calls) - 1
        BY MemoryAssumption, FS_RemoveElement
      <3>5. Cardinality(Waiting(t)') <= Cardinality(Calls) - 1 /\ Cardinality(Waiting(t)') \in Nat
        BY <3>3, <3>4, FS_Subset, FS_CardinalityType
      <3> QED BY <1>6, <3>1, <3>2, <3>5
    <2> QED BY <2>1, <2>2
  <1>8. CASE /\ clock > t
             /\ Cardinality(Inside(t)) + Cardinality(Waiting(t)) <= Limit + Cardinality(Calls) - 1
    <2>0. clock' > t
      BY <1>1, <1>8
    <2>1. CASE now[c] <= t
      <3>1. Cardinality(Waiting(t)') = Cardinality(Waiting(t)) - 1
        <4>1. c \in Waiting(t) /\ Waiting(t)' = Waiting(t) \ {c}
          BY <1>5, <2>1
        <4>2. Cardinality(Waiting(t) \ {c}) =
                IF c \in Waiting(t) THEN Cardinality(Waiting(t)) - 1 ELSE Cardinality(Waiting(t))
          BY <1>6, FS_RemoveElement
        <4> QED BY <4>1, <4>2
      <3>2. \A a, b, v, w, m \in Int : b <= a + 1 /\ w = v - 1 /\ a + v <= m => b + w <= m
        OBVIOUS
      <3>3. /\ Cardinality(Inside(t)) \in Int /\ Cardinality(Inside(t)') \in Int
            /\ Cardinality(Waiting(t)) \in Int /\ Cardinality(Waiting(t)') \in Int
            /\ Limit + Cardinality(Calls) - 1 \in Int
        BY <1>6, <1>m, <3>1
      <3>4. Cardinality(Inside(t)') + Cardinality(Waiting(t)') <= Limit + Cardinality(Calls) - 1
        BY <1>8, <1>m, <3>1, <3>2, <3>3
      <3> QED BY <2>0, <3>4
    <2>2. CASE ~(now[c] <= t)
      <3>1. Waiting(t)' = Waiting(t)
        BY <1>5, <2>2
      <3>2. Inside(t)' = Inside(t)
        BY <1>0, <1>4, <2>2 DEF Times
      <3> QED BY <1>8, <2>0, <3>1, <3>2
    <2> QED BY <2>1, <2>2
  <1> QED BY <1>7, <1>8 DEF WindowInv

\* The window invariant is inductive given the bookkeeping one.
LEMMA WindowInductive == MemIInv /\ MemIInv' /\ WindowInv /\ [MemNext]_memVars => WindowInv'
  <1> SUFFICES ASSUME MemIInv, MemIInv', WindowInv, [MemNext]_memVars PROVE WindowInv'
    OBVIOUS
  <1>0. MemTypeOK /\ MemTypeOK' /\ clock \in Times
    BY DEF MemIInv, MemTypeOK
  <1>1. CASE MemTick
    <2>1. UNCHANGED <<log, allowed>> /\ clock <= clock' /\ \A t \in Times : Waiting(t)' = Waiting(t)
      BY <1>0, <1>1 DEF MemTick, Waiting, Times
    <2> QED BY <1>0, <2>1, WindowUntouched
  <1>2. ASSUME NEW c \in Calls, NEW check \in {"rate", "quota"}, Call(c, check)
        PROVE  WindowInv'
    <2>1. UNCHANGED <<log, allowed, clock>>
      BY <1>2 DEF Call
    <2>2. ASSUME NEW t \in Times, clock > t PROVE Waiting(t)' \subseteq Waiting(t)
      <3>1. now' = [now EXCEPT ![c] = clock] /\ pc' = [pc EXCEPT ![c] = check]
        BY <1>2 DEF Call
      <3>2. \A e \in Calls : /\ now'[e] = IF e = c THEN clock ELSE now[e]
                             /\ pc'[e] = IF e = c THEN check ELSE pc[e]
        BY <1>0, <3>1 DEF MemTypeOK
      <3>3. ~(clock <= t)
        BY <1>0, <2>2 DEF Times
      <3> QED BY <3>2, <3>3 DEF Waiting
    <2>3. clock <= clock'
      BY <1>0, <2>1 DEF Times
    <2> QED BY <1>0, <2>1, <2>2, <2>3, WindowUntouched
  <1>3. ASSUME NEW c \in Calls, CheckRate(c) PROVE WindowInv'
    BY <1>3, WindowChecked DEF WindowInv
  <1>4. ASSUME NEW c \in Calls, CheckQuota(c) PROVE WindowInv'
    <2>1. UNCHANGED <<log, allowed, clock, now>> /\ pc' = [pc EXCEPT ![c] = "idle"]
      BY <1>4 DEF CheckQuota
    <2>2. \A t \in Times : Waiting(t)' \subseteq Waiting(t)
      BY <1>0, <2>1 DEF Waiting, MemTypeOK
    <2>3. clock <= clock'
      BY <1>0, <2>1 DEF Times
    <2> QED BY <1>0, <2>1, <2>2, <2>3, WindowUntouched
  <1>5. CASE UNCHANGED memVars
    <2>1. UNCHANGED <<log, allowed, clock>> /\ \A t \in Times : Waiting(t)' = Waiting(t)
      BY <1>5 DEF memVars, Waiting
    <2>2. clock <= clock'
      BY <1>0, <2>1 DEF Times
    <2> QED BY <1>0, <2>1, <2>2, WindowUntouched
  <1> QED BY <1>1, <1>2, <1>3, <1>4, <1>5 DEF MemNext

\* How far check_rate bends: no window ever holds more than Limit requests plus
\* one for each other call that may be waiting for the lock.
THEOREM MemoryOverrunBounded == MemSpec => []OverrunBounded
  <1>1. MemInit => WindowInv
    <2> SUFFICES ASSUME MemInit, NEW t \in Times, NEW i \in Inside(t) PROVE FALSE
      BY DEF WindowInv
    <2> QED BY DEF MemInit, Inside
  <1>2. MemIInv /\ WindowInv => OverrunBounded
    <2> SUFFICES ASSUME MemIInv, WindowInv, NEW t \in Times
                 PROVE  Cardinality(Inside(t)) <= Limit + Cardinality(Calls) - 1
      BY DEF OverrunBounded, Inside
    <2>1. /\ Cardinality(Inside(t)) \in Nat /\ Cardinality(Waiting(t)) \in Nat
          /\ Cardinality(Calls) \in Nat \ {0} /\ MemTypeOK /\ LogInv
      BY InsideWaitingFinite DEF MemIInv
    <2>2. CASE \A i \in Inside(t) : i > Len(allowed) - Len(log)
      BY <2>1, <2>2, HeldWindow, LimitsAssumption
    <2>3. CASE Cardinality(Inside(t)) + Cardinality(Waiting(t)) <= Limit + Cardinality(Calls) - 1
      BY <2>1, <2>3, LimitsAssumption
    <2> QED BY <2>2, <2>3 DEF WindowInv
  <1> QED BY <1>1, <1>2, WindowInductive, MemInvariant, PTL DEF MemSpec

-----------------------------------------------------------------------------
(* The storage layer *)

\* Whichever backend the configuration names (main.rs), the behaviours of the
\* storage layer are behaviours of each limit: scripts and calls on other keys
\* are stutters, and all read one clock.  So what is proved of each limit holds
\* of the layer.
THEOREM StorageImplementsLimits == StorageSpec => RateSpec /\ QuotaSpec /\ MemSpec
  <1>1. StorageInit => RateInit /\ QuotaInit /\ MemInit
    BY DEF StorageInit
  <1>2. [StorageNext]_storageVars => /\ [RateNext]_rateVars
                                     /\ [QuotaNext]_quotaVars
                                     /\ [MemNext]_memVars
    <2> SUFFICES ASSUME [StorageNext]_storageVars
                 PROVE  /\ [RateNext]_rateVars
                        /\ [QuotaNext]_quotaVars
                        /\ [MemNext]_memVars
      OBVIOUS
    <2>1. CASE Redis /\ (AllowRate \/ DenyRate \/ ExpireWindow) /\ UNCHANGED quotaLocal
      <3>1. UNCHANGED clock
        BY <2>1 DEF AllowRate, DenyRate, ExpireWindow
      <3> QED BY <2>1, <3>1 DEF Redis, RateNext, quotaVars, quotaLocal, memVars, memLocal
    <2>2. CASE Redis /\ (QuotaScript \/ ExpireCounter \/ LoseExpiry) /\ UNCHANGED rateLocal
      <3>1. UNCHANGED clock
        BY <2>2 DEF QuotaScript, ExpireCounter, LoseExpiry
      <3> QED BY <2>2, <3>1 DEF Redis, QuotaNext, rateVars, rateLocal, memVars, memLocal
    <2>3. CASE Memory
      <3>1. PICK c \in Calls : Call(c, "rate") \/ Call(c, "quota") \/ CheckRate(c) \/ CheckQuota(c)
        BY <2>3 DEF Memory
      <3>2. UNCHANGED clock
        BY <3>1 DEF Call, CheckRate, CheckQuota
      <3>3. MemNext
        BY <3>1 DEF MemNext
      <3> QED BY <2>3, <3>2, <3>3 DEF Memory, rateVars, rateLocal, quotaVars, quotaLocal
    <2>4. CASE StorageTick
      BY <2>4 DEF StorageTick, RateNext, QuotaNext, MemNext
    <2>5. CASE UNCHANGED storageVars
      BY <2>5 DEF storageVars, rateVars, rateLocal, quotaVars, quotaLocal, memVars, memLocal
    <2> QED BY <2>1, <2>2, <2>3, <2>4, <2>5 DEF StorageNext, Redis
  <1> QED BY <1>1, <1>2, PTL DEF StorageSpec, RateSpec, QuotaSpec, MemSpec

\* So the storage layer keeps every promise of its limits, whichever backend it
\* runs on (check_rate and check_quota of redis.rs and memory.rs).
THEOREM StorageKeepsLimits ==
    StorageSpec => /\ []NoBurst /\ ImplementsRateWindow
                   /\ ImplementsQuotaPeriod /\ EveryCallBoundsThePeriod
                   /\ []QuotaRespected /\ PeriodsApart /\ []OverrunBounded
  BY StorageImplementsLimits, NeverBursts, RedisImplementsContract, RedisImplementsQuota, QuotaHeals,
     MemoryQuotaRespected, MemoryPeriodsApart, MemoryOverrunBounded, PTL
=============================================================================
