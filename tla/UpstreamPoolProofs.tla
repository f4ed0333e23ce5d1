-------------------------- MODULE UpstreamPoolProofs -------------------------
(***************************************************************************)
(* What the target pool keeps for any requests, address lists, retries and  *)
(* thresholds: no attempt too many, no eviction without its streak of failed *)
(* probes, no fallback past an address that stayed healthy.                 *)
(***************************************************************************)
EXTENDS UpstreamPool, TLAPS

-----------------------------------------------------------------------------
(* Arithmetic of the rotation.                                             *)

\* What division leaves.
LEMMA DivMod ==
    ASSUME NEW x \in Nat, NEW n \in Nat \ {0}
    PROVE  x = (n * (x \div n)) + (x % n) /\ (x % n) \in 0 .. n - 1 /\ (x \div n) \in Nat
  OBVIOUS

\* A remainder is unique.
LEMMA RemainderUnique ==
    ASSUME NEW n \in Nat \ {0}, NEW q \in Int, NEW d \in Int,
           NEW p \in 0 .. n - 1, NEW m \in 0 .. n - 1, (n * q) + p = (n * d) + m
    PROVE  p = m
  <1>1. n * (q - d) = m - p /\ n * (d - q) = p - m
    OBVIOUS
  <1>2. ~(q - d >= 1)
    <2> SUFFICES ASSUME q - d >= 1 PROVE FALSE
      OBVIOUS
    <2>1. n * (q - d) >= n
      OBVIOUS
    <2> QED BY <2>1, <1>1
  <1>3. ~(d - q >= 1)
    <2> SUFFICES ASSUME d - q >= 1 PROVE FALSE
      OBVIOUS
    <2>1. n * (d - q) >= n
      OBVIOUS
    <2> QED BY <2>1, <1>1
  <1> QED BY <1>1, <1>2, <1>3

\* A number written with a remainder has that remainder.
LEMMA RemainderIs ==
    ASSUME NEW x \in Nat, NEW n \in Nat \ {0}, NEW d \in Int, NEW m \in 0 .. n - 1, x = (n * d) + m
    PROVE  x % n = m
  <1> DEFINE q == x \div n
             p == x % n
  <1>1. x = (n * q) + p /\ p \in 0 .. n - 1 /\ q \in Int
    BY DivMod
  <1>2. (n * q) + p = (n * d) + m
    BY <1>1
  <1> HIDE DEF p, q
  <1>3. p = m
    BY <1>1, <1>2, RemainderUnique
  <1> QED BY <1>3 DEF p

\* The cursor moves every set on by one position, also where it wraps: the
\* wrap is at a multiple of the set's size.
LEMMA CursorMoves ==
    ASSUME NEW M \in Nat \ {0}, NEW n \in Nat \ {0}, M % n = 0, NEW c \in 0 .. M - 1
    PROVE  ((c + 1) % M) % n = IF (c % n) + 1 = n THEN 0 ELSE (c % n) + 1
  <1> DEFINE p == c % n
             q == c \div n
             k == M \div n
  <1>0. c \in Nat /\ c + 1 \in Nat
    OBVIOUS
  <1>1. c = (n * q) + p /\ p \in 0 .. n - 1 /\ q \in Nat
    BY <1>0, DivMod
  <1>2. M = (n * k) + (M % n) /\ k \in Nat
    BY DivMod
  <1>3. CASE c + 1 = M
    <2>1. (c + 1) % M = 0 /\ 0 % n = 0
      BY <1>3
    <2>2. c = (n * (k - 1)) + (n - 1) /\ k - 1 \in Int /\ n - 1 \in 0 .. n - 1
      <3> HIDE DEF k
      <3> QED BY <1>2, <1>3
    <2> HIDE DEF k
    <2>3. c % n = n - 1
      BY <1>0, <2>2, RemainderIs
    <2> QED BY <2>1, <2>3
  <1>4. CASE c + 1 < M
    <2>1. (c + 1) % M = c + 1
      BY <1>4
    <2>2. CASE p + 1 = n
      <3> DEFINE z == 0
      <3>1. c + 1 = (n * (q + 1)) + z /\ q + 1 \in Int /\ z \in 0 .. n - 1
        <4> HIDE DEF p, q
        <4> QED BY <1>1, <2>2
      <3> HIDE DEF q, z
      <3>2. (c + 1) % n = z
        BY <1>0, <3>1, RemainderIs
      <3> QED BY <3>2, <2>1, <2>2 DEF z
    <2>3. CASE p + 1 < n
      <3>1. c + 1 = (n * q) + (p + 1) /\ q \in Int /\ p + 1 \in 0 .. n - 1
        <4> HIDE DEF p, q
        <4> QED BY <1>1, <2>3
      <3> HIDE DEF p, q
      <3>2. (c + 1) % n = p + 1
        BY <1>0, <3>1, RemainderIs
      <3> QED BY <3>2, <2>1, <2>3 DEF p
    <2> QED BY <2>2, <2>3, <1>1
  <1> QED BY <1>3, <1>4

-----------------------------------------------------------------------------
(* Types.                                                                  *)

Lists == {p \in Polls \cup {Seeds} : Len(p) > 0}
Flags == UNION {[1 .. n -> BOOLEAN] : n \in Nat}
Counts == UNION {[1 .. n -> Nat] : n \in Nat}
Generations == [addrs : Lists, healthy : Flags, evidence : Counts]

SetsType ==
  /\ sets \in Seq(Generations)
  /\ \A g \in 1 .. Len(sets) :
        /\ sets[g].healthy \in [1 .. Size(g) -> BOOLEAN]
        /\ sets[g].evidence \in [1 .. Size(g) -> Nat]
  /\ mounted \in 1 .. Len(sets) /\ Len(sets) <= MaxSets

ReqRecords ==
  [pc : {"idle", "load", "pick", "look", "fallback", "send"}, gen : Nat, idx : Nat, tries : Nat,
   attempt : Nat, max : Nat, sent : Nat, steady : SUBSET Nat]

\* Before it picks and after it chose, a request has no place in a rotation.
Unpicked(q) == q.pc \in {"idle", "load", "send"} => q.idx = 1 /\ q.tries = 0 /\ q.steady = {}

ReqType ==
  /\ req \in [Requests -> ReqRecords]
  /\ \A r \in Requests : req[r].gen \in 1 .. Len(sets) /\ req[r].idx \in 1 .. Size(req[r].gen)
  /\ \A r \in Requests : Unpicked(req[r])

CheckerRecords ==
  [pc : {"sleeping", "probing", "judging", "gone"}, gen : Nat, ok : Flags,
   failures : Counts, successes : Counts]

\* The streaks and the outcomes are those of the set that is probed.
CheckerType ==
  /\ checker \in CheckerRecords
  /\ checker.gen \in 0 .. Len(sets)
  /\ checker.pc \in {"probing", "judging"} => checker.gen # 0
  /\ checker.gen # 0 => /\ checker.failures \in [1 .. Size(checker.gen) -> Nat]
                        /\ checker.successes \in [1 .. Size(checker.gen) -> Nat]
  /\ checker.pc = "judging" => checker.ok \in [1 .. Size(checker.gen) -> BOOLEAN]

RestType ==
  /\ cursor \in 0 .. CursorMod - 1
  /\ routed \in BOOLEAN
  /\ refresher \in {"due", "fetching", "body", "sleeping", "gone"}
  /\ up \subseteq Addrs

Types == SetsType /\ ReqType /\ CheckerType /\ RestType

\* A generation has addresses, and the cursor wraps at a multiple of their number.
LEMMA ListSize ==
    ASSUME NEW p \in Lists
    PROVE  p \in Seq(Addrs) /\ Len(p) \in Nat \ {0} /\ CursorMod % Len(p) = 0
  BY PoolAssumption DEF Lists

\* The same for the generation a number stands for.
LEMMA GenerationSize ==
    ASSUME SetsType, NEW g \in 1 .. Len(sets)
    PROVE  /\ sets[g] \in Generations /\ sets[g].addrs \in Lists
           /\ Size(g) \in Nat \ {0} /\ CursorMod % Size(g) = 0
  <1>1. sets[g] \in Generations
    BY DEF SetsType
  <1>2. sets[g].addrs \in Lists
    BY <1>1 DEF Generations
  <1> QED BY <1>1, <1>2, ListSize DEF Size

\* Types imply the type invariant the runs check.
LEMMA TypesSuffice == Types => TypeOK
  <1> SUFFICES ASSUME Types PROVE TypeOK
    OBVIOUS
  <1>1. \A g \in 1 .. Len(sets) : sets[g].addrs \in Seq(Addrs) /\ sets[g].healthy \in [1 .. Size(g) -> BOOLEAN]
    BY GenerationSize, ListSize DEF Types, SetsType
  <1>2. \A r \in Requests : req[r].pc \in {"idle", "load", "pick", "look", "fallback", "send"}
    BY DEF Types, ReqType, ReqRecords
  <1>3. checker.pc \in {"sleeping", "probing", "judging", "gone"}
    BY DEF Types, CheckerType, CheckerRecords
  <1> QED BY <1>1, <1>2, <1>3 DEF Types, SetsType, ReqType, RestType, TypeOK

\* A new generation is well formed.
LEMMA NewSetType ==
    ASSUME NEW p \in Lists
    PROVE  /\ NewSet(p) \in Generations /\ NewSet(p).addrs = p
           /\ NewSet(p).healthy \in [1 .. Len(p) -> BOOLEAN]
           /\ NewSet(p).evidence \in [1 .. Len(p) -> Nat]
  <1>1. p \in Seq(Addrs) /\ Len(p) \in Nat
    BY ListSize
  <1>2. DOMAIN p = 1 .. Len(p)
    BY <1>1
  <1>3. [i \in DOMAIN p |-> TRUE] \in [1 .. Len(p) -> BOOLEAN] /\ [i \in DOMAIN p |-> 0] \in [1 .. Len(p) -> Nat]
    BY <1>2
  <1>4. [i \in DOMAIN p |-> TRUE] \in Flags /\ [i \in DOMAIN p |-> 0] \in Counts
    BY <1>1, <1>3 DEF Flags, Counts
  <1> QED BY <1>3, <1>4 DEF NewSet, Generations

\* The pool starts well typed.
LEMMA InitTypes == Init => Types
  <1> SUFFICES ASSUME Init PROVE Types
    OBVIOUS
  <1>1. Seeds \in Lists
    BY PoolAssumption DEF Lists
  <1>2. /\ sets = <<NewSet(Seeds)>> /\ Len(sets) = 1 /\ sets[1] = NewSet(Seeds)
        /\ sets \in Seq(Generations) /\ Size(1) = Len(Seeds)
    BY <1>1, NewSetType DEF Init, Size
  <1>3. SetsType
    BY <1>1, <1>2, NewSetType, PoolAssumption DEF Init, SetsType
  <1>4. ReqType
    <2>1. req \in [Requests -> ReqRecords]
      BY DEF Init, Idle, ReqRecords
    <2> QED BY <2>1, <1>2, <1>3, GenerationSize DEF Init, Idle, ReqType, Unpicked
  <1>5. CheckerType
    <2>1. << >> \in Flags /\ << >> \in Counts
      <3>1. << >> \in [1 .. 0 -> BOOLEAN] /\ << >> \in [1 .. 0 -> Nat]
        OBVIOUS
      <3> QED BY <3>1 DEF Flags, Counts
    <2> QED BY <2>1, <1>2 DEF Init, CheckerType, CheckerRecords
  <1>6. RestType
    BY PoolAssumption DEF Init, RestType
  <1> QED BY <1>3, <1>4, <1>5, <1>6 DEF Types

\* A request's record after a step of it is well formed, when it names a
\* generation and a position of it; the others keep theirs but for `steady'.
LEMMA OneRequestType ==
    ASSUME Types, NEW r \in Requests, NEW q \in ReqRecords, UNCHANGED <<sets, mounted>>,
           q.gen \in 1 .. Len(sets), q.idx \in 1 .. Size(q.gen), Unpicked(q),
           req' = [req EXCEPT ![r] = q] \/ req' = Drawn(r, q)
    PROVE  ReqType'
  <1>1. CASE req' = [req EXCEPT ![r] = q]
    <2>1. req' \in [Requests -> ReqRecords] /\ \A s \in Requests : req'[s] = IF s = r THEN q ELSE req[s]
      BY <1>1 DEF Types, ReqType
    <2> QED BY <2>1 DEF Types, ReqType, Size
  <1>2. CASE req' = Drawn(r, q)
    <2>0. req \in [Requests -> ReqRecords]
      BY DEF Types, ReqType
    <2>1. \A s \in Requests : [req[s] EXCEPT !.steady = {}] \in ReqRecords
      BY <2>0 DEF ReqRecords
    <2>2. req' \in [Requests -> ReqRecords]
      BY <1>2, <2>1 DEF Drawn
    <2>3. \A s \in Requests : s # r => req'[s].gen = req[s].gen /\ req'[s].idx = req[s].idx
      BY <1>2, <2>0 DEF Drawn, ReqRecords
    <2>4. req'[r] = q
      BY <1>2 DEF Drawn
    <2>5. \A s \in Requests : s # r /\ Unpicked(req[s]) => Unpicked(req'[s])
      BY <1>2, <2>0 DEF Drawn, ReqRecords, Unpicked
    <2>6. \A s \in Requests : Unpicked(req'[s])
      BY <2>4, <2>5 DEF Types, ReqType
    <2>7. \A s \in Requests : req'[s].gen \in 1 .. Len(sets) /\ req'[s].idx \in 1 .. Size(req'[s].gen)
      BY <2>3, <2>4 DEF Types, ReqType
    <2> QED BY <2>2, <2>6, <2>7 DEF ReqType, Size
  <1> QED BY <1>1, <1>2

\* What a request that has chosen its address becomes.
LEMMA ChosenType ==
    ASSUME Types, NEW r \in Requests
    PROVE  /\ Chosen(req[r]) \in ReqRecords /\ Idle \in ReqRecords
           /\ Chosen(req[r]).gen = 1 /\ Chosen(req[r]).idx = 1 /\ Idle.gen = 1 /\ Idle.idx = 1
           /\ Unpicked(Chosen(req[r])) /\ Unpicked(Idle)
           /\ 1 \in 1 .. Len(sets) /\ 1 \in 1 .. Size(1)
  <1>1. req[r] \in ReqRecords
    BY DEF Types, ReqType
  <1>2. Chosen(req[r]) \in ReqRecords /\ Idle \in ReqRecords
    BY <1>1 DEF Chosen, Idle, ReqRecords
  <1>3. Chosen(req[r]).gen = 1 /\ Chosen(req[r]).idx = 1 /\ Idle.gen = 1 /\ Idle.idx = 1
    BY DEF Chosen, Idle
  <1>6. Unpicked(Chosen(req[r])) /\ Unpicked(Idle)
    BY DEF Chosen, Idle, Unpicked
  <1>4. 1 \in 1 .. Len(sets)
    BY DEF Types, SetsType
  <1>5. 1 \in 1 .. Size(1)
    BY <1>4, GenerationSize DEF Types
  <1> QED BY <1>2, <1>3, <1>4, <1>5, <1>6

\* Every step of a request keeps the types.
LEMMA RequestTypes ==
    ASSUME Types, NEW r \in Requests, RequestStep(r) \/ \E b \in BOOLEAN : Start(r, b)
    PROVE  Types'
  <1>0. /\ req[r] \in ReqRecords /\ req[r].gen \in 1 .. Len(sets) /\ req[r].idx \in 1 .. Size(req[r].gen)
        /\ Unpicked(req[r]) /\ mounted \in 1 .. Len(sets) /\ cursor \in 0 .. CursorMod - 1
    BY DEF Types, ReqType, SetsType, RestType
  <1>f. /\ UNCHANGED <<sets, mounted, routed, taskVars, envVars>>
        /\ cursor' = cursor \/ cursor' = (cursor + 1) % CursorMod
    BY DEF RequestStep, Start, LoadSet, Pick, Look, Fallback, TransportError, Finish
  <1>1. SetsType' /\ CheckerType'
    BY <1>f DEF Types, SetsType, CheckerType, taskVars, Size
  <1>2. RestType'
    <2>1. cursor' \in 0 .. CursorMod - 1
      BY <1>0, <1>f, PoolAssumption
    <2> QED BY <1>f, <2>1 DEF Types, RestType, taskVars, envVars
  <1>3. ReqType'
    <2>1. ASSUME NEW b \in BOOLEAN, Start(r, b) PROVE ReqType'
      <3> DEFINE q == [Idle EXCEPT !.pc = "load", !.gen = mounted, !.attempt = 1,
                                   !.max = IF b THEN Retries + 1 ELSE 1]
      <3>1. q \in ReqRecords /\ q.gen = mounted /\ q.idx = 1 /\ Unpicked(q)
        <4>1. mounted \in Nat /\ (IF b THEN Retries + 1 ELSE 1) \in Nat
          BY <1>0, PoolAssumption DEF Types, SetsType
        <4>2. q \in ReqRecords
          BY <4>1 DEF Idle, ReqRecords
        <4> QED BY <4>2 DEF Idle, Unpicked
      <3>2. 1 \in 1 .. Size(mounted)
        BY <1>0, GenerationSize DEF Types
      <3>3. req' = [req EXCEPT ![r] = q]
        BY <2>1 DEF Start
      <3> HIDE DEF q
      <3> QED BY <1>0, <1>f, <3>1, <3>2, <3>3, OneRequestType
    <2>2. CASE req' = [req EXCEPT ![r] = Chosen(req[r])] \/ req' = Drawn(r, Chosen(req[r]))
               \/ req' = [req EXCEPT ![r] = Idle]
      BY <1>f, <2>2, ChosenType, OneRequestType
    <2>3. CASE LoadSet(r)
      <3> DEFINE q == [req[r] EXCEPT !.pc = "pick", !.gen = mounted,
                                     !.steady = {i \in 1 .. Size(mounted) : sets[mounted].healthy[i]}]
      <3>1. CASE Size(mounted) = 1
        BY <2>2, <2>3, <3>1 DEF LoadSet
      <3>2. CASE Size(mounted) # 1
        <4>1. q \in ReqRecords /\ q.gen = mounted /\ q.idx = 1 /\ Unpicked(q)
          <5>1. mounted \in Nat /\ {i \in 1 .. Size(mounted) : sets[mounted].healthy[i]} \in SUBSET Nat
            BY <1>0, GenerationSize DEF Types, SetsType
          <5>2. req[r].pc = "load"
            BY <2>3 DEF LoadSet
          <5>3. q \in ReqRecords
            BY <1>0, <5>1 DEF ReqRecords
          <5>4. q.gen = mounted /\ q.idx = req[r].idx /\ q.pc = "pick"
            BY <1>0 DEF ReqRecords
          <5> HIDE DEF q
          <5> QED BY <1>0, <5>2, <5>3, <5>4 DEF Unpicked
        <4>2. 1 \in 1 .. Size(mounted)
          BY <1>0, GenerationSize DEF Types
        <4>3. req' = [req EXCEPT ![r] = q]
          BY <2>3, <3>2 DEF LoadSet
        <4> HIDE DEF q
        <4> QED BY <1>0, <1>f, <4>1, <4>2, <4>3, OneRequestType
      <3> QED BY <3>1, <3>2
    <2>4. CASE Pick(r)
      <3> DEFINE q == [req[r] EXCEPT !.idx = (cursor % Size(req[r].gen)) + 1,
                                     !.tries = req[r].tries + 1, !.pc = "look"]
      <3>1. Size(req[r].gen) \in Nat \ {0}
        BY <1>0, GenerationSize DEF Types
      <3>2. (cursor % Size(req[r].gen)) + 1 \in 1 .. Size(req[r].gen)
        BY <1>0, <3>1
      <3>3. q \in ReqRecords /\ q.gen = req[r].gen /\ q.idx = (cursor % Size(req[r].gen)) + 1
            /\ Unpicked(q)
        <4>1. q \in ReqRecords
          <5>1. req[r].tries + 1 \in Nat /\ (cursor % Size(req[r].gen)) + 1 \in Nat
            BY <1>0, <3>1, <3>2 DEF ReqRecords
          <5> QED BY <1>0, <5>1 DEF ReqRecords
        <4>2. q.gen = req[r].gen /\ q.idx = (cursor % Size(req[r].gen)) + 1 /\ q.pc = "look"
          BY <1>0 DEF ReqRecords
        <4> HIDE DEF q
        <4> QED BY <4>1, <4>2 DEF Unpicked
      <3>4. req' = Drawn(r, q)
        BY <1>0, <2>4 DEF Pick, ReqRecords
      <3> HIDE DEF q
      <3> QED BY <1>0, <1>f, <3>2, <3>3, <3>4, OneRequestType
    <2>5. CASE Look(r)
      <3>1. CASE sets[req[r].gen].healthy[req[r].idx]
        BY <2>2, <2>5, <3>1 DEF Look
      <3>2. CASE ~sets[req[r].gen].healthy[req[r].idx]
        <4> DEFINE q == [req[r] EXCEPT !.pc = IF req[r].tries < Size(req[r].gen) THEN "pick" ELSE "fallback"]
        <4>1. q \in ReqRecords /\ q.gen = req[r].gen /\ q.idx = req[r].idx /\ Unpicked(q)
          BY <1>0 DEF ReqRecords, Unpicked
        <4>2. req' = [req EXCEPT ![r] = q]
          BY <2>5, <3>2 DEF Look
        <4> HIDE DEF q
        <4> QED BY <1>0, <1>f, <4>1, <4>2, OneRequestType
      <3> QED BY <3>1, <3>2
    <2>6. CASE Fallback(r) \/ Finish(r)
      BY <2>2, <2>6 DEF Fallback, Finish
    <2>7. CASE TransportError(r)
      <3>1. CASE req[r].attempt < req[r].max
        <4> DEFINE q == [req[r] EXCEPT !.pc = "load", !.attempt = req[r].attempt + 1,
                                       !.sent = req[r].sent + 1]
        <4>1. q \in ReqRecords /\ q.gen = req[r].gen /\ q.idx = req[r].idx /\ Unpicked(q)
          <5>0. req[r].attempt + 1 \in Nat /\ req[r].sent + 1 \in Nat
            BY <1>0 DEF ReqRecords
          <5>1. q \in ReqRecords
            BY <1>0, <5>0 DEF ReqRecords
          <5>3. q.gen = req[r].gen /\ q.idx = req[r].idx /\ q.tries = req[r].tries /\ q.steady = req[r].steady
            BY <1>0 DEF ReqRecords
          <5>4. req[r].pc = "send"
            BY <2>7 DEF TransportError
          <5> HIDE DEF q
          <5> QED BY <1>0, <5>1, <5>3, <5>4 DEF Unpicked
        <4>2. req' = [req EXCEPT ![r] = q]
          <5> DEFINE e == IF req[r].attempt < req[r].max
                          THEN [req[r] EXCEPT !.pc = "load", !.attempt = @ + 1, !.sent = @ + 1]
                          ELSE Idle
          <5>1. e = q
            BY <1>0, <3>1 DEF ReqRecords
          <5>2. req' = [req EXCEPT ![r] = e]
            BY <2>7, Zenon DEF TransportError
          <5> QED BY <5>1, <5>2
        <4> HIDE DEF q
        <4> QED BY <1>0, <1>f, <4>1, <4>2, OneRequestType
      <3>2. CASE ~(req[r].attempt < req[r].max)
        BY <2>2, <2>7, <3>2 DEF TransportError
      <3> QED BY <3>1, <3>2
    <2> QED BY <2>1, <2>3, <2>4, <2>5, <2>6, <2>7 DEF RequestStep
  <1> QED BY <1>1, <1>2, <1>3 DEF Types

\* A streak stays a number.
LEMMA LongerNat == \A n \in Nat : Longer(n, UnhealthyThreshold) \in Nat /\ Longer(n, HealthyThreshold) \in Nat
  BY DEF Longer

\* A round's results, as the loop over them leaves the sets, the checker and the
\* requests that look at the set: flags and evidence change, addresses do not.
LEMMA ApplyResultsKind ==
    ASSUME Types, ApplyResults
    PROVE  /\ checker.gen \in 1 .. Len(sets) /\ Len(sets') = Len(sets)
           /\ sets' \in Seq(Generations)
           /\ \A g \in 1 .. Len(sets) : g # checker.gen => sets'[g] = sets[g]
           /\ sets'[checker.gen].addrs = sets[checker.gen].addrs
           /\ sets'[checker.gen].healthy = 
                [i \in 1 .. Size(checker.gen) |->
                   IF checker.ok[i] 
                   THEN \/ sets[checker.gen].healthy[i]
                        \/ Longer(checker.successes[i], HealthyThreshold) >= HealthyThreshold
                   ELSE /\ sets[checker.gen].healthy[i]
                        /\ ~(Longer(checker.failures[i], UnhealthyThreshold) >= UnhealthyThreshold)]
           /\ sets'[checker.gen].evidence = 
                [i \in 1 .. Size(checker.gen) |->
                   IF checker.ok[i] THEN 0 ELSE Longer(sets[checker.gen].evidence[i], UnhealthyThreshold)]
           /\ checker' \in CheckerRecords
           /\ checker'.pc = "sleeping" /\ checker'.gen = checker.gen
           /\ checker'.failures =
                [i \in 1 .. Size(checker.gen) |->
                   IF checker.ok[i] THEN 0 ELSE Longer(checker.failures[i], UnhealthyThreshold)]
           /\ checker'.successes =
                [i \in 1 .. Size(checker.gen) |->
                   IF checker.ok[i] THEN Longer(checker.successes[i], HealthyThreshold) ELSE 0]
           /\ UNCHANGED <<mounted, cursor, routed, refresher, up>>
  <1> DEFINE g == checker.gen
             ok == checker.ok
             f == [i \in 1 .. Size(g) |-> IF ok[i] THEN 0 ELSE Longer(checker.failures[i], UnhealthyThreshold)]
             s == [i \in 1 .. Size(g) |-> IF ok[i] THEN Longer(checker.successes[i], HealthyThreshold) ELSE 0]
             flags == [i \in 1 .. Size(g) |-> NewFlag(sets[g].healthy[i], ok[i], f[i], s[i])]
             e == [i \in 1 .. Size(g) |-> IF ok[i] THEN 0 ELSE Longer(sets[g].evidence[i], UnhealthyThreshold)]
  <1>0. /\ checker \in CheckerRecords /\ g \in 1 .. Len(sets) /\ sets \in Seq(Generations)
        /\ ok \in [1 .. Size(g) -> BOOLEAN] /\ Len(sets) \in Nat
        /\ checker.failures \in [1 .. Size(g) -> Nat] /\ checker.successes \in [1 .. Size(g) -> Nat]
        /\ sets[g].evidence \in [1 .. Size(g) -> Nat] /\ sets[g].healthy \in [1 .. Size(g) -> BOOLEAN]
    BY DEF ApplyResults, Types, CheckerType, SetsType
  <1>1. sets[g] \in Generations /\ Size(g) \in Nat
    BY <1>0, GenerationSize DEF Types
  <1>2. /\ f \in [1 .. Size(g) -> Nat] /\ s \in [1 .. Size(g) -> Nat] /\ e \in [1 .. Size(g) -> Nat]
    <2>1. f \in [1 .. Size(g) -> Nat]
      BY <1>0, LongerNat
    <2>2. s \in [1 .. Size(g) -> Nat]
      BY <1>0, LongerNat
    <2>3. e \in [1 .. Size(g) -> Nat]
      BY <1>0, LongerNat
    <2> QED BY <2>1, <2>2, <2>3
  <1>3. flags \in [1 .. Size(g) -> BOOLEAN]
    BY <1>0 DEF NewFlag
  <1>4. f \in Counts /\ s \in Counts /\ e \in Counts /\ flags \in Flags
    BY <1>1, <1>2, <1>3 DEF Counts, Flags
  <1>5. flags = [i \in 1 .. Size(g) |->
                   IF ok[i] 
                   THEN sets[g].healthy[i] \/ Longer(checker.successes[i], HealthyThreshold) >= HealthyThreshold
                   ELSE sets[g].healthy[i]
                        /\ ~(Longer(checker.failures[i], UnhealthyThreshold) >= UnhealthyThreshold)]
    BY <1>0 DEF NewFlag
  <1>6. /\ sets' = [sets EXCEPT ![g] = [sets[g] EXCEPT !.healthy = flags, !.evidence = e]]
    <2>1. sets' = [sets EXCEPT ![g].healthy = flags, ![g].evidence = e]
      BY DEF ApplyResults
    <2> HIDE DEF flags, e, g
    <2> QED BY <1>0, <1>1, <2>1 DEF Generations
  <1>7. checker' = [checker EXCEPT !.pc = "sleeping", !.ok = << >>, !.failures = f, !.successes = s]
    BY DEF ApplyResults
  <1>8. UNCHANGED <<mounted, cursor, routed, refresher, up>>
    BY DEF ApplyResults, envVars
  <1>9. << >> \in Flags
    <2>1. << >> \in [1 .. 0 -> BOOLEAN]
      OBVIOUS
    <2> QED BY <2>1 DEF Flags
  <1> HIDE DEF f, s, e, flags
  <1>10. checker' \in CheckerRecords /\ checker'.pc = "sleeping" /\ checker'.gen = g
         /\ checker'.failures = f /\ checker'.successes = s
    BY <1>0, <1>4, <1>7, <1>9 DEF CheckerRecords
  <1> DEFINE n == [sets[g] EXCEPT !.healthy = flags, !.evidence = e]
  <1>11. n \in Generations /\ n.addrs = sets[g].addrs /\ n.healthy = flags /\ n.evidence = e
    BY <1>1, <1>4 DEF Generations
  <1> HIDE DEF n
  <1>12. /\ sets' \in Seq(Generations) /\ Len(sets') = Len(sets) /\ sets'[g] = n
         /\ \A h \in 1 .. Len(sets) : h # g => sets'[h] = sets[h]
    <2>1. sets' = [sets EXCEPT ![g] = n]
      BY <1>6 DEF n
    <2> HIDE DEF g
    <2> QED BY <1>0, <1>11, <2>1
  <1> QED BY <1>0, <1>5, <1>8, <1>10, <1>11, <1>12 DEF f, s, e

\* Every round's results keep the types.
LEMMA ApplyResultsTypes == ASSUME Types, ApplyResults PROVE Types'
  <1>0. \A g \in 1 .. Len(sets) : Size(g)' = Size(g)
    BY ApplyResultsKind DEF Size
  <1>1. PICK g \in 1 .. Len(sets) : g = checker.gen
    BY ApplyResultsKind
  <1>2. /\ checker.ok \in [1 .. Size(g) -> BOOLEAN]
        /\ checker.failures \in [1 .. Size(g) -> Nat] /\ checker.successes \in [1 .. Size(g) -> Nat]
        /\ sets[g].evidence \in [1 .. Size(g) -> Nat] /\ sets[g].healthy \in [1 .. Size(g) -> BOOLEAN]
    BY <1>1 DEF ApplyResults, Types, CheckerType, SetsType
  <1>3. /\ sets'[g].healthy \in [1 .. Size(g) -> BOOLEAN] /\ sets'[g].evidence \in [1 .. Size(g) -> Nat]
        /\ checker'.failures \in [1 .. Size(g) -> Nat] /\ checker'.successes \in [1 .. Size(g) -> Nat]
    <2>1. sets'[g].evidence \in [1 .. Size(g) -> Nat]
      <3>1. sets'[g].evidence = [i \in 1 .. Size(g) |-> IF checker.ok[i] THEN 0 ELSE Longer(sets[g].evidence[i], UnhealthyThreshold)]
        BY <1>1, ApplyResultsKind
      <3>2. [i \in 1 .. Size(g) |-> IF checker.ok[i] THEN 0 ELSE Longer(sets[g].evidence[i], UnhealthyThreshold)] \in [1 .. Size(g) -> Nat]
        BY <1>2, LongerNat
      <3> QED BY <3>1, <3>2
    <2>2. checker'.failures \in [1 .. Size(g) -> Nat]
      <3>1. checker'.failures = [i \in 1 .. Size(g) |-> IF checker.ok[i] THEN 0 ELSE Longer(checker.failures[i], UnhealthyThreshold)]
        BY <1>1, ApplyResultsKind
      <3>2. [i \in 1 .. Size(g) |-> IF checker.ok[i] THEN 0 ELSE Longer(checker.failures[i], UnhealthyThreshold)] \in [1 .. Size(g) -> Nat]
        BY <1>2, LongerNat
      <3> QED BY <3>1, <3>2
    <2>3. checker'.successes \in [1 .. Size(g) -> Nat]
      <3>1. checker'.successes = [i \in 1 .. Size(g) |-> IF checker.ok[i] THEN Longer(checker.successes[i], HealthyThreshold) ELSE 0]
        BY <1>1, ApplyResultsKind
      <3>2. [i \in 1 .. Size(g) |-> IF checker.ok[i] THEN Longer(checker.successes[i], HealthyThreshold) ELSE 0] \in [1 .. Size(g) -> Nat]
        BY <1>2, LongerNat
      <3> QED BY <3>1, <3>2
    <2>4. sets'[g].healthy \in [1 .. Size(g) -> BOOLEAN]
      BY <1>1, <1>2, ApplyResultsKind
    <2> QED BY <2>1, <2>2, <2>3, <2>4
  <1>4. SetsType'
    BY <1>0, <1>1, <1>3, ApplyResultsKind DEF Types, SetsType
  <1>5. CheckerType'
    BY <1>0, <1>1, <1>3, ApplyResultsKind DEF CheckerType
  <1>6. RestType'
    BY ApplyResultsKind DEF Types, RestType
  <1>7. ReqType'
    <2>0. req \in [Requests -> ReqRecords]
      BY DEF Types, ReqType
    <2>1. \A r \in Requests :
            /\ req'[r] \in ReqRecords /\ req'[r].pc = req[r].pc /\ req'[r].gen = req[r].gen
            /\ req'[r].idx = req[r].idx /\ req'[r].tries = req[r].tries
            /\ req'[r].steady \subseteq req[r].steady
      <3> SUFFICES ASSUME NEW r \in Requests
                   PROVE  /\ req'[r] \in ReqRecords /\ req'[r].pc = req[r].pc /\ req'[r].gen = req[r].gen
                          /\ req'[r].idx = req[r].idx /\ req'[r].tries = req[r].tries
                          /\ req'[r].steady \subseteq req[r].steady
        OBVIOUS
      <3>1. req'[r] = req[r] \/ \E S \in SUBSET req[r].steady : req'[r] = [req[r] EXCEPT !.steady = S]
        BY DEF ApplyResults
      <3>2. req[r] \in ReqRecords
        BY <2>0
      <3> QED BY <3>1, <3>2 DEF ReqRecords
    <2>2. req' \in [Requests -> ReqRecords]
      <3>1. DOMAIN req' = Requests /\ req' = [r \in Requests |-> req'[r]]
        BY DEF ApplyResults
      <3> QED BY <2>1, <3>1
    <2>3. \A r \in Requests : Unpicked(req'[r])
      BY <2>1 DEF Types, ReqType, Unpicked
    <2> QED BY <1>0, <2>1, <2>2, <2>3, ApplyResultsKind DEF Types, ReqType
  <1> QED BY <1>4, <1>5, <1>6, <1>7 DEF Types

\* A step of the health checker keeps the types.
LEMMA CheckerTypes == ASSUME Types, CheckerWake \/ Probe \/ ApplyResults PROVE Types'
  <1>g. \A g \in 1 .. Len(sets) : /\ sets[g] \in Generations /\ sets[g].addrs \in Lists
                                  /\ Size(g) \in Nat \ {0}
    BY GenerationSize DEF Types
  <1>c. checker \in CheckerRecords /\ Len(sets) \in Nat /\ mounted \in 1 .. Len(sets)
    BY DEF Types, CheckerType, SetsType
  <1>1. CASE CheckerWake
    <2>1. SetsType' /\ ReqType' /\ RestType'
      BY <1>1 DEF CheckerWake, Types, SetsType, ReqType, RestType, reqVars, envVars, Size
    <2>2. CASE checker' = [checker EXCEPT !.pc = "gone"]
      <3>1. checker' \in CheckerRecords
        BY <1>c, <2>2 DEF CheckerRecords
      <3>2. /\ checker'.pc = "gone" /\ checker'.gen = checker.gen
            /\ checker'.failures = checker.failures /\ checker'.successes = checker.successes
        BY <1>c, <2>2 DEF CheckerRecords
      <3>3. CheckerType'
        BY <1>1, <3>1, <3>2 DEF Types, CheckerType, CheckerWake, Size
      <3> QED BY <2>1, <3>3 DEF Types
    <2>3. CASE checker.gen = mounted /\ checker' = [checker EXCEPT !.pc = "probing"]
      <3>1. checker' \in CheckerRecords
        BY <1>c, <2>3 DEF CheckerRecords
      <3>2. /\ checker'.pc = "probing" /\ checker'.gen = checker.gen
            /\ checker'.failures = checker.failures /\ checker'.successes = checker.successes
        BY <1>c, <2>3 DEF CheckerRecords
      <3>3. CheckerType'
        BY <1>1, <1>c, <2>3, <3>1, <3>2 DEF Types, CheckerType, CheckerWake, Size
      <3> QED BY <2>1, <3>3 DEF Types
    <2>4. CASE checker' = [pc |-> "probing", gen |-> mounted, ok |-> << >>,
                           failures |-> NoStreak(mounted), successes |-> NoStreak(mounted)]
      <3>1. NoStreak(mounted) \in [1 .. Size(mounted) -> Nat] /\ NoStreak(mounted) \in Counts
        <4>1. NoStreak(mounted) \in [1 .. Size(mounted) -> Nat]
          BY DEF NoStreak, Size
        <4> QED BY <4>1, <1>c, <1>g DEF Counts
      <3>2. << >> \in Flags
        <4>1. << >> \in [1 .. 0 -> BOOLEAN]
          OBVIOUS
        <4> QED BY <4>1 DEF Flags
      <3>3. checker' \in CheckerRecords
        BY <1>c, <2>4, <3>1, <3>2 DEF CheckerRecords
      <3>4. CheckerType'
        BY <1>1, <1>c, <2>4, <3>1, <3>3 DEF CheckerType, CheckerWake, Size
      <3> QED BY <2>1, <3>4 DEF Types
    <2> QED BY <1>1, <2>2, <2>3, <2>4 DEF CheckerWake
  <1>2. CASE Probe
    <2>0. checker.gen \in 1 .. Len(sets)
      BY <1>2, <1>c DEF Probe, Types, CheckerType
    <2>1. SetsType' /\ ReqType' /\ RestType'
      BY <1>2 DEF Probe, Types, SetsType, ReqType, RestType, reqVars, envVars, Size
    <2> DEFINE ok == [i \in 1 .. Size(checker.gen) |-> sets[checker.gen].addrs[i] \in up]
    <2>2. ok \in [1 .. Size(checker.gen) -> BOOLEAN] /\ ok \in Flags
      <3>1. ok \in [1 .. Size(checker.gen) -> BOOLEAN]
        OBVIOUS
      <3> QED BY <2>0, <3>1, <1>g DEF Flags
    <2>3. checker' = [checker EXCEPT !.pc = "judging", !.ok = ok]
      BY <1>2 DEF Probe
    <2> HIDE DEF ok
    <2>4. checker' \in CheckerRecords
      BY <1>c, <2>2, <2>3 DEF CheckerRecords
    <2>5. /\ checker'.pc = "judging" /\ checker'.gen = checker.gen /\ checker'.ok = ok
          /\ checker'.failures = checker.failures /\ checker'.successes = checker.successes
      BY <1>c, <2>3 DEF CheckerRecords
    <2>6. CheckerType'
      BY <1>2, <2>0, <2>2, <2>4, <2>5 DEF Types, CheckerType, Probe, Size
    <2> QED BY <2>1, <2>6 DEF Types
  <1>3. CASE ApplyResults
    BY <1>3, ApplyResultsTypes
  <1> QED BY <1>1, <1>2, <1>3

\* A body that mounts a generation appends it; the older ones stay as they are.
LEMMA BodyArrivesTypes == ASSUME Types, NEW p \in Polls, BodyArrives(p) PROVE Types'
  <1>0. sets \in Seq(Generations) /\ Len(sets) \in Nat
    BY DEF Types, SetsType
  <1>r. RestType'
    BY DEF BodyArrives, Types, RestType, reqVars, envVars
  <1>1. CASE UNCHANGED <<sets, mounted>>
    BY <1>1, <1>r DEF BodyArrives, Types, SetsType, ReqType, CheckerType, reqVars, Size
  <1>2. CASE p # << >> /\ Len(sets) < MaxSets /\ sets' = Append(sets, NewSet(p)) /\ mounted' = Len(sets) + 1
    <2>1. p \in Lists
      BY <1>2, PoolAssumption DEF Lists
    <2>2. /\ NewSet(p) \in Generations /\ NewSet(p).addrs = p
          /\ NewSet(p).healthy \in [1 .. Len(p) -> BOOLEAN]
          /\ NewSet(p).evidence \in [1 .. Len(p) -> Nat]
      BY <2>1, NewSetType
    <2>3. /\ sets' \in Seq(Generations) /\ Len(sets') = Len(sets) + 1
          /\ sets'[Len(sets) + 1] = NewSet(p) /\ \A g \in 1 .. Len(sets) : sets'[g] = sets[g]
      BY <1>0, <1>2, <2>2
    <2>4. \A g \in 1 .. Len(sets) : Size(g)' = Size(g)
      BY <2>2, <2>3 DEF Size
    <2>5. \A g \in 1 .. Len(sets') : g \in 1 .. Len(sets) \/ g = Len(sets) + 1
      BY <1>0, <2>3
    <2>6. \A g \in 1 .. Len(sets') : /\ sets'[g].healthy \in [1 .. Size(g)' -> BOOLEAN]
                                     /\ sets'[g].evidence \in [1 .. Size(g)' -> Nat]
      <3> SUFFICES ASSUME NEW g \in 1 .. Len(sets')
                   PROVE  /\ sets'[g].healthy \in [1 .. Size(g)' -> BOOLEAN]
                          /\ sets'[g].evidence \in [1 .. Size(g)' -> Nat]
        OBVIOUS
      <3>1. CASE g \in 1 .. Len(sets)
        BY <2>3, <2>4, <3>1 DEF Types, SetsType
      <3>2. CASE g = Len(sets) + 1
        BY <2>2, <2>3, <3>2 DEF Size
      <3> QED BY <2>5, <3>1, <3>2
    <2>7. Len(sets') <= MaxSets /\ mounted' \in 1 .. Len(sets')
      BY <1>0, <1>2, <2>3, PoolAssumption
    <2>8. SetsType'
      BY <2>3, <2>6, <2>7 DEF SetsType
    <2>9. ReqType'
      <3>1. req' = req
        BY DEF BodyArrives, reqVars
      <3>2. \A r \in Requests : req[r].gen \in 1 .. Len(sets) /\ req[r].gen \in 1 .. Len(sets')
        BY <1>0, <2>3 DEF Types, ReqType
      <3> QED BY <2>4, <3>1, <3>2 DEF Types, ReqType
    <2>10. CheckerType'
      <3>1. checker' = checker /\ checker.gen \in 0 .. Len(sets')
        BY <1>0, <2>3 DEF BodyArrives, Types, CheckerType
      <3>2. checker.gen # 0 => Size(checker.gen)' = Size(checker.gen)
        BY <1>0, <2>4, <3>1 DEF Types, CheckerType, Size
      <3> QED BY <3>1, <3>2 DEF Types, CheckerType
    <2> QED BY <1>r, <2>8, <2>9, <2>10 DEF Types
  <1> QED BY <1>1, <1>2 DEF BodyArrives

\* So does everything else that happens around the pool.
LEMMA OtherTypes ==
    ASSUME Types,
           \/ BeginPoll \/ HeadFails \/ HeadArrives \/ BodyFails \/ RefresherWake
           \/ OtherDraws \/ Unroute \/ (\E a \in Addrs : Flip(a)) \/ UNCHANGED vars
    PROVE  Types'
  <1>0. UNCHANGED <<sets, mounted, checker>>
    BY DEF BeginPoll, HeadFails, HeadArrives, BodyFails, RefresherWake, OtherDraws, Unroute, Flip,
           vars, taskVars
  <1>1. SetsType' /\ CheckerType'
    BY <1>0 DEF Types, SetsType, CheckerType, Size
  <1>2. CASE OtherDraws
    <2>0. req \in [Requests -> ReqRecords]
      BY DEF Types, ReqType
    <2>1. req' = [r \in Requests |-> [req[r] EXCEPT !.steady = {}]]
      BY <1>2 DEF OtherDraws
    <2>2. \A r \in Requests :
            /\ req'[r] \in ReqRecords /\ req'[r].pc = req[r].pc /\ req'[r].gen = req[r].gen
            /\ req'[r].idx = req[r].idx /\ req'[r].tries = req[r].tries /\ req'[r].steady = {}
      BY <2>0, <2>1 DEF ReqRecords
    <2>3. req' \in [Requests -> ReqRecords]
      BY <2>1, <2>2
    <2>4. \A r \in Requests : Unpicked(req'[r])
      BY <2>2 DEF Types, ReqType, Unpicked
    <2>5. ReqType'
      BY <1>0, <2>2, <2>3, <2>4 DEF Types, ReqType, Size
    <2>6. cursor' \in 0 .. CursorMod - 1
      BY <1>2, PoolAssumption DEF OtherDraws, Types, RestType
    <2>7. RestType'
      BY <1>2, <2>6 DEF OtherDraws, Types, RestType, taskVars, envVars
    <2> QED BY <1>1, <2>5, <2>7 DEF Types
  <1>3. CASE ~OtherDraws
    <2>1. UNCHANGED <<cursor, req>>
      BY <1>3 DEF BeginPoll, HeadFails, HeadArrives, BodyFails, RefresherWake, Unroute, Flip, vars, reqVars
    <2>2. ReqType'
      BY <1>0, <2>1 DEF Types, ReqType, Size
    <2>3. RestType'
      BY <1>3, <2>1 DEF BeginPoll, HeadFails, HeadArrives, BodyFails, RefresherWake, Unroute, Flip, vars,
              envVars, taskVars, Types, RestType
    <2> QED BY <1>1, <2>2, <2>3 DEF Types
  <1> QED BY <1>2, <1>3

\* Every step keeps the types.
LEMMA NextTypes == Types /\ [Next]_vars => Types'
  <1> SUFFICES ASSUME Types, [Next]_vars PROVE Types'
    OBVIOUS
  <1>1. ASSUME NEW r \in Requests, RequestStep(r) \/ \E b \in BOOLEAN : Start(r, b) PROVE Types'
    BY <1>1, RequestTypes
  <1>2. CASE CheckerWake \/ Probe \/ ApplyResults
    BY <1>2, CheckerTypes
  <1>3. ASSUME NEW p \in Polls, BodyArrives(p) PROVE Types'
    BY <1>3, BodyArrivesTypes
  <1> QED BY <1>1, <1>2, <1>3, OtherTypes DEF Next, BodyEnds

\* The pool's types hold throughout: flags, streaks and probe results are as
\* many as the addresses of the generation they are of, whatever swaps it.
THEOREM TypeCorrect == Spec => []TypeOK
  BY InitTypes, NextTypes, TypesSuffice, PTL DEF Spec

-----------------------------------------------------------------------------
(* Attempts.                                                               *)

\* What has been sent is one less than the attempt, and attempts are counted.
Counted(q) == q.pc # "idle" => q.sent + 1 = q.attempt /\ q.attempt <= q.max
Attempts == \A r \in Requests : Counted(req[r])

\* What a step of a request does to the counts.
LEMMA NextAttempts == Types /\ Attempts /\ [Next]_vars => Attempts'
  <1> SUFFICES ASSUME Types, Attempts, [Next]_vars PROVE Attempts'
    OBVIOUS
  <1>0. req \in [Requests -> ReqRecords]
    BY DEF Types, ReqType
  <1>s. ASSUME \A s \in Requests : /\ req'[s].pc = req[s].pc /\ req'[s].sent = req[s].sent
                                   /\ req'[s].attempt = req[s].attempt /\ req'[s].max = req[s].max
        PROVE  Attempts'
    BY <1>s DEF Attempts, Counted
  <1>1. ASSUME NEW r \in Requests, RequestStep(r) \/ \E b \in BOOLEAN : Start(r, b) PROVE Attempts'
    <2>1. \A s \in Requests : s # r => /\ req'[s].pc = req[s].pc /\ req'[s].sent = req[s].sent
                                       /\ req'[s].attempt = req[s].attempt /\ req'[s].max = req[s].max
      BY <1>0, <1>1 DEF RequestStep, Start, LoadSet, Pick, Look, Fallback, TransportError, Finish, Drawn,
              ReqRecords
    <2>2. Counted(req'[r])
      <3>0. req[r] \in ReqRecords
        BY <1>0
      <3>c. Counted(req[r])
        BY DEF Attempts
      <3>1. ASSUME NEW b \in BOOLEAN, Start(r, b) PROVE Counted(req'[r])
        <4>1. /\ req'[r].attempt = 1 /\ req'[r].sent = 0
              /\ req'[r].max = IF b THEN Retries + 1 ELSE 1
          BY <1>0, <3>1 DEF Start, Idle
        <4> QED BY <4>1, PoolAssumption DEF Counted
      <3>2. CASE LoadSet(r) \/ Pick(r) \/ Look(r) \/ Fallback(r)
        <4>1. /\ req[r].pc # "idle" /\ req'[r].sent = req[r].sent
              /\ req'[r].attempt = req[r].attempt /\ req'[r].max = req[r].max
          <5>1. CASE LoadSet(r)
            BY <1>0, <3>0, <5>1 DEF LoadSet, Chosen, Idle, ReqRecords
          <5>2. CASE Pick(r)
            BY <1>0, <3>0, <5>2 DEF Pick, Drawn, ReqRecords
          <5>3. CASE Look(r)
            BY <1>0, <3>0, <5>3 DEF Look, Chosen, Idle, ReqRecords
          <5>4. CASE Fallback(r)
            BY <1>0, <3>0, <5>4 DEF Fallback, Drawn, Chosen, Idle
          <5> QED BY <3>2, <5>1, <5>2, <5>3, <5>4
        <4> QED BY <3>c, <4>1 DEF Counted
      <3>3. CASE TransportError(r)
        <4>1. CASE req[r].attempt < req[r].max
          <5>1. /\ req'[r].sent = req[r].sent + 1 /\ req'[r].attempt = req[r].attempt + 1
                /\ req'[r].max = req[r].max /\ req[r].pc # "idle"
            BY <1>0, <3>0, <3>3, <4>1 DEF TransportError, ReqRecords
          <5>2. req[r].sent \in Nat /\ req[r].attempt \in Nat /\ req[r].max \in Nat
            BY <3>0 DEF ReqRecords
          <5> QED BY <3>c, <4>1, <5>1, <5>2 DEF Counted
        <4>2. CASE ~(req[r].attempt < req[r].max)
          BY <1>0, <3>3, <4>2 DEF TransportError, Idle, Counted
        <4> QED BY <4>1, <4>2
      <3>4. CASE Finish(r)
        BY <1>0, <3>4 DEF Finish, Idle, Counted
      <3> QED BY <1>1, <3>1, <3>2, <3>3, <3>4 DEF RequestStep
    <2> QED BY <2>1, <2>2 DEF Attempts, Counted
  <1>2. CASE ApplyResults
    <2>1. \A s \in Requests : req'[s] = req[s] \/ \E S : req'[s] = [req[s] EXCEPT !.steady = S]
      BY <1>2 DEF ApplyResults
    <2> QED BY <1>0, <1>s, <2>1 DEF ReqRecords
  <1>3. CASE OtherDraws
    BY <1>0, <1>3, <1>s DEF OtherDraws, ReqRecords
  <1>4. CASE UNCHANGED req
    BY <1>4, <1>s
  <1> QED BY <1>1, <1>2, <1>3, <1>4 DEF Next, BodyEnds, CheckerWake, Probe, BeginPoll, HeadFails,
             HeadArrives, BodyFails, BodyArrives, RefresherWake, Unroute, Flip, vars, reqVars

\* Retrying never repeats what must not be repeated: whatever Retries is, a
\* request that is not replayable has been sent to no upstream before its current
\* attempt, and no request more often than its attempts allow (run_attempts).
THEOREM NeverDuplicated == Spec => []NoDuplicateDelivery
  <1>1. Init => Attempts
    BY DEF Init, Idle, Attempts, Counted
  <1>2. Types /\ Attempts => NoDuplicateDelivery
    <2> SUFFICES ASSUME Types, Attempts, NEW r \in Requests, req[r].pc # "idle"
                 PROVE  req[r].sent < req[r].max
      BY DEF NoDuplicateDelivery
    <2>1. req[r].sent \in Nat /\ req[r].attempt \in Nat /\ req[r].max \in Nat
      BY DEF Types, ReqType, ReqRecords
    <2> QED BY <2>1 DEF Attempts, Counted
  <1> QED BY <1>1, <1>2, InitTypes, NextTypes, NextAttempts, PTL DEF Spec

-----------------------------------------------------------------------------
(* Evictions.                                                              *)

\* Of an address that is probed, the streak of failures the checker counts is
\* not longer than the failures in a row its generation has seen.
Evidence ==
  checker.gen # 0 =>
    \A i \in 1 .. Size(checker.gen) : checker.failures[i] <= sets[checker.gen].evidence[i]

\* Only a round's results change a generation; others may only join.
LEMMA GenerationsStay ==
    ASSUME Types, [Next]_vars, ~ApplyResults
    PROVE  Len(sets') \in Nat /\ Len(sets) <= Len(sets') /\ \A g \in 1 .. Len(sets) : sets'[g] = sets[g]
  <1>0. sets \in Seq(Generations)
    BY DEF Types, SetsType
  <1>1. ASSUME NEW p \in Polls, BodyArrives(p)
        PROVE  Len(sets') \in Nat /\ Len(sets) <= Len(sets') /\ \A g \in 1 .. Len(sets) : sets'[g] = sets[g]
    <2>1. CASE sets' = sets
      BY <1>0, <2>1
    <2>2. CASE sets' = Append(sets, NewSet(p)) /\ p # << >>
      <3>1. NewSet(p) \in Generations
        BY <2>2, NewSetType, PoolAssumption DEF Lists
      <3> QED BY <1>0, <2>2, <3>1
    <2> QED BY <1>1, <2>1, <2>2 DEF BodyArrives
  <1>2. CASE sets' = sets
    BY <1>0, <1>2
  <1> QED BY <1>1, <1>2 DEF Next, RequestStep, Start, LoadSet, Pick, Look, Fallback, TransportError, Finish,
             OtherDraws, BodyEnds, CheckerWake, Probe, BeginPoll, HeadFails, HeadArrives, BodyFails,
             RefresherWake, Unroute, Flip, vars

\* A longer streak stays the longer one.
LEMMA LongerMonotone ==
    ASSUME NEW m \in Nat, NEW n \in Nat, m <= n
    PROVE  Longer(m, UnhealthyThreshold) <= Longer(n, UnhealthyThreshold)
  BY PoolAssumption DEF Longer

\* Every step keeps the evidence ahead of the streaks.
LEMMA NextEvidence == Types /\ Evidence /\ [Next]_vars => Evidence'
  <1> SUFFICES ASSUME Types, Evidence, [Next]_vars PROVE Evidence'
    OBVIOUS
  <1>1. CASE ApplyResults
    <2>1. PICK g \in 1 .. Len(sets) : g = checker.gen
      BY <1>1, ApplyResultsKind
    <2>2. Size(g)' = Size(g) /\ checker'.gen = g /\ g # 0
      BY <1>1, <2>1, ApplyResultsKind DEF Size
    <2>3. checker.failures \in [1 .. Size(g) -> Nat] /\ sets[g].evidence \in [1 .. Size(g) -> Nat]
      BY <2>1 DEF Types, CheckerType, SetsType
    <2>4. \A i \in 1 .. Size(g) : checker'.failures[i] <= sets'[g].evidence[i]
      <3> SUFFICES ASSUME NEW i \in 1 .. Size(g) PROVE checker'.failures[i] <= sets'[g].evidence[i]
        OBVIOUS
      <3>1. checker'.failures[i] = IF checker.ok[i] THEN 0 ELSE Longer(checker.failures[i], UnhealthyThreshold)
        BY <1>1, <2>1, ApplyResultsKind
      <3>2. sets'[g].evidence[i] = IF checker.ok[i] THEN 0 ELSE Longer(sets[g].evidence[i], UnhealthyThreshold)
        BY <1>1, <2>1, ApplyResultsKind
      <3>3. checker.failures[i] \in Nat /\ sets[g].evidence[i] \in Nat /\ checker.failures[i] <= sets[g].evidence[i]
        BY <2>1, <2>2, <2>3 DEF Evidence
      <3> QED BY <3>1, <3>2, <3>3, LongerMonotone
    <2> QED BY <2>2, <2>4 DEF Evidence, Size
  <1>2. CASE ~ApplyResults
    <2>1. \A g \in 1 .. Len(sets) : sets'[g] = sets[g]
      BY <1>2, GenerationsStay
    <2>2. checker.gen \in 0 .. Len(sets) /\ Len(sets) \in Nat /\ checker \in CheckerRecords
      BY DEF Types, CheckerType, SetsType
    <2>3. CASE checker'.gen = checker.gen /\ checker'.failures = checker.failures
      <3>1. checker.gen # 0 => sets'[checker.gen] = sets[checker.gen]
        BY <2>1, <2>2
      <3> QED BY <2>3, <3>1 DEF Evidence, Size
    <2>4. CASE sets' = sets /\ checker'.gen = mounted /\ checker'.failures = NoStreak(mounted)
      <3>1. \A i \in 1 .. Size(mounted) : NoStreak(mounted)[i] = 0 /\ sets[mounted].evidence[i] \in Nat
        BY DEF NoStreak, Size, Types, SetsType
      <3> QED BY <2>4, <3>1 DEF Evidence, Size
    <2>5. CASE CheckerWake
      BY <2>2, <2>3, <2>4, <2>5 DEF CheckerWake, CheckerRecords
    <2>6. CASE Probe
      BY <2>2, <2>3, <2>6 DEF Probe, CheckerRecords
    <2>7. CASE UNCHANGED checker
      BY <2>3, <2>7
    <2> QED BY <1>2, <2>5, <2>6, <2>7 DEF Next, RequestStep, Start, LoadSet, Pick, Look, Fallback,
               TransportError, Finish, OtherDraws, BodyEnds, BeginPoll, HeadFails, HeadArrives, BodyFails,
               BodyArrives, RefresherWake, Unroute, Flip, vars, taskVars
  <1> QED BY <1>1, <1>2

\* No address leaves the rotation of a generation without UnhealthyThreshold
\* failed probes in a row since that generation was mounted, whatever swaps
\* raced the rounds (run_checker).
THEOREM EvictionsAlwaysEarned == Spec => EvictionEarned
  <1>1. Init => Evidence
    BY DEF Init, Evidence
  <1>2. ASSUME Types, Evidence, [Next]_vars
        PROVE  [\A g \in 1 .. Len(sets) : \A i \in 1 .. Size(g) :
                   sets[g].healthy[i] /\ ~sets'[g].healthy[i] =>
                       sets'[g].evidence[i] >= UnhealthyThreshold]_vars
    <2> SUFFICES ASSUME NEW g \in 1 .. Len(sets), NEW i \in 1 .. Size(g),
                        sets[g].healthy[i], ~sets'[g].healthy[i]
                 PROVE  sets'[g].evidence[i] >= UnhealthyThreshold
      OBVIOUS
    <2>1. ApplyResults /\ g = checker.gen
      BY <1>2, GenerationsStay, ApplyResultsKind
    <2>2. ~checker.ok[i] /\ Longer(checker.failures[i], UnhealthyThreshold) >= UnhealthyThreshold
      BY <1>2, <2>1, ApplyResultsKind
    <2>3. sets'[g].evidence[i] = Longer(sets[g].evidence[i], UnhealthyThreshold)
      <3>1. sets'[g].evidence = [k \in 1 .. Size(g) |->
              IF checker.ok[k] THEN 0 ELSE Longer(sets[g].evidence[k], UnhealthyThreshold)]
        BY <1>2, <2>1, ApplyResultsKind
      <3> QED BY <2>2, <3>1
    <2>4. checker.gen # 0 /\ checker.failures \in [1 .. Size(g) -> Nat] /\ sets[g].evidence \in [1 .. Size(g) -> Nat]
      BY <1>2, <2>1 DEF ApplyResults, Types, CheckerType, SetsType
    <2>5. checker.failures[i] \in Nat /\ sets[g].evidence[i] \in Nat /\ checker.failures[i] <= sets[g].evidence[i]
      BY <1>2, <2>1, <2>4 DEF Evidence
    <2>6. /\ Longer(checker.failures[i], UnhealthyThreshold) <= Longer(sets[g].evidence[i], UnhealthyThreshold)
          /\ Longer(checker.failures[i], UnhealthyThreshold) \in Nat
          /\ Longer(sets[g].evidence[i], UnhealthyThreshold) \in Nat
      BY <2>5, LongerMonotone, LongerNat
    <2> QED BY <2>2, <2>3, <2>6, PoolAssumption
  <1> QED BY <1>1, <1>2, InitTypes, NextTypes, NextEvidence, PTL DEF Spec, EvictionEarned

-----------------------------------------------------------------------------
(* The rotation.                                                           *)

\* The position drawn j draws before the cursor came to p, in a set of size n.
Back(p, j, n) == IF p >= j THEN p - j ELSE (p - j) + n

\* One draw later the same position is one draw further back.
LEMMA BackMoves ==
    ASSUME NEW n \in Nat \ {0}, NEW p \in 0 .. n - 1, NEW p2, p2 = IF p + 1 = n THEN 0 ELSE p + 1
    PROVE  Back(p2, 1, n) = p /\ \A j \in 1 .. n - 1 : Back(p2, j + 1, n) = Back(p, j, n)
  BY DEF Back

\* n draws in a row see every position.
LEMMA BackCovers ==
    ASSUME NEW n \in Nat \ {0}, NEW p \in 0 .. n - 1, NEW i \in 1 .. n
    PROVE  \E j \in 1 .. n : Back(p, j, n) + 1 = i
  <1>1. CASE i - 1 < p
    <2>1. p - (i - 1) \in 1 .. n /\ Back(p, p - (i - 1), n) + 1 = i
      BY <1>1 DEF Back
    <2> QED BY <2>1
  <1>2. CASE i - 1 >= p
    <2>1. (p - (i - 1)) + n \in 1 .. n /\ Back(p, (p - (i - 1)) + n, n) + 1 = i
      BY <1>2 DEF Back
    <2> QED BY <2>1
  <1> QED BY <1>1, <1>2

\* The steady positions are healthy ones.
SteadyHealthy(r) ==
  req[r].steady \subseteq {i \in 1 .. Size(req[r].gen) : sets[req[r].gen].healthy[i]}

\* As long as nobody else drew, the last draws were the request's own, each at
\* the position before, and what it has looked at is not steady any more.
Looked(q, n, p) ==
  q.steady # {} =>
    /\ q.tries <= n
    /\ q.pc = "pick" => q.tries < n
    /\ q.pc = "look" => q.tries >= 1 /\ q.idx = Back(p, 1, n) + 1
    /\ q.pc = "fallback" => q.tries = n
    /\ \A j \in 1 .. q.tries : (j = 1 /\ q.pc = "look") \/ Back(p, j, n) + 1 \notin q.steady

Rotation ==
  \A r \in Requests : SteadyHealthy(r) /\ Looked(req[r], Size(req[r].gen), cursor % Size(req[r].gen))

\* Every step of a request keeps its own place in the rotation.
LEMMA OwnRotation ==
    ASSUME Types, Rotation, NEW r \in Requests, RequestStep(r)
    PROVE  LET q == req'[r] IN
           /\ SteadyHealthy(r)'
           /\ Looked(q, Size(q.gen), cursor' % Size(q.gen))
  <1> DEFINE q == req'[r]
             n == Size(req[r].gen)
             p == cursor % n
  <1>0. req \in [Requests -> ReqRecords] /\ req[r] \in ReqRecords /\ req[r].gen \in 1 .. Len(sets)
    BY DEF Types, ReqType
  <1>1. n \in Nat \ {0} /\ CursorMod % n = 0 /\ cursor \in 0 .. CursorMod - 1
    BY <1>0, GenerationSize DEF Types, RestType
  <1>2. p \in 0 .. n - 1
    BY <1>1
  <1>3. SteadyHealthy(r) /\ Looked(req[r], n, p)
    BY DEF Rotation
  <1>4. sets' = sets
    BY DEF RequestStep, LoadSet, Pick, Look, Fallback, TransportError, Finish
  <1>e. ASSUME q.steady = {} PROVE SteadyHealthy(r)' /\ Looked(q, Size(q.gen), cursor' % Size(q.gen))
    BY <1>e DEF SteadyHealthy, Looked
  <1>5. CASE LoadSet(r)
    <2>0. mounted \in 1 .. Len(sets)
      BY DEF Types, SetsType
    <2>1. CASE Size(mounted) = 1
      <3>1. q.steady = {}
        BY <1>0, <1>5, <2>1 DEF LoadSet, Chosen, Idle
      <3> QED BY <3>1, <1>e
    <2>2. CASE Size(mounted) # 1
      <3>1. /\ q.gen = mounted /\ q.pc = "pick" /\ q.tries = req[r].tries
            /\ q.steady = {i \in 1 .. Size(mounted) : sets[mounted].healthy[i]}
        BY <1>0, <1>5, <2>2 DEF LoadSet, ReqRecords
      <3>2. req[r].tries = 0
        BY <1>5 DEF LoadSet, Types, ReqType, Unpicked
      <3>3. Size(mounted) \in Nat \ {0}
        BY <2>0, GenerationSize DEF Types
      <3>4. SteadyHealthy(r)'
        BY <1>4, <3>1 DEF SteadyHealthy, Size
      <3>5. Looked(q, Size(q.gen), cursor' % Size(q.gen))
        BY <3>1, <3>2, <3>3 DEF Looked
      <3> QED BY <3>4, <3>5
    <2> QED BY <2>1, <2>2
  <1>6. CASE Pick(r)
    <2>1. /\ q.gen = req[r].gen /\ q.pc = "look" /\ q.tries = req[r].tries + 1
          /\ q.idx = p + 1 /\ q.steady = req[r].steady /\ req[r].pc = "pick"
      BY <1>0, <1>6 DEF Pick, Drawn, ReqRecords
    <2>2. SteadyHealthy(r)'
      BY <1>3, <1>4, <2>1 DEF SteadyHealthy, Size
    <2> DEFINE p2 == cursor' % n
    <2>3. p2 = IF p + 1 = n THEN 0 ELSE p + 1
      BY <1>1, <1>6, CursorMoves, PoolAssumption DEF Pick
    <2> HIDE DEF p, p2, n
    <2>4. Back(p2, 1, n) = p /\ \A j \in 1 .. n - 1 : Back(p2, j + 1, n) = Back(p, j, n)
      BY <1>1, <1>2, <2>3, BackMoves
    <2>5. ASSUME q.steady # {} PROVE Looked(q, n, p2)
      <3>1. /\ req[r].tries \in Nat /\ req[r].tries < n
            /\ \A j \in 1 .. req[r].tries : Back(p, j, n) + 1 \notin req[r].steady
        BY <1>0, <1>3, <2>1, <2>5 DEF Looked, ReqRecords
      <3>2. ASSUME NEW j \in 1 .. q.tries, j # 1 PROVE Back(p2, j, n) + 1 \notin q.steady
        <4>1. j - 1 \in 1 .. req[r].tries /\ j - 1 \in 1 .. n - 1 /\ (j - 1) + 1 = j
          BY <1>1, <2>1, <3>1, <3>2
        <4>2. Back(p2, j, n) = Back(p, j - 1, n)
          BY <2>4, <4>1
        <4> QED BY <2>1, <3>1, <4>1, <4>2
      <3> QED BY <1>1, <2>1, <2>4, <3>1, <3>2 DEF Looked
    <2>6. Looked(q, n, p2)
      BY <2>5 DEF Looked
    <2> QED BY <2>1, <2>2, <2>6 DEF n, p2
  <1>7. CASE Look(r)
    <2>1. CASE sets[req[r].gen].healthy[req[r].idx]
      <3>1. q.steady = {}
        BY <1>0, <1>7, <2>1 DEF Look, Chosen, Idle
      <3> QED BY <3>1, <1>e
    <2>2. CASE ~sets[req[r].gen].healthy[req[r].idx]
      <3>1. /\ q.gen = req[r].gen /\ q.tries = req[r].tries /\ q.steady = req[r].steady
            /\ q.pc = IF req[r].tries < n THEN "pick" ELSE "fallback"
            /\ req[r].pc = "look" /\ cursor' = cursor
        BY <1>0, <1>7, <2>2 DEF Look, ReqRecords
      <3>2. req[r].idx \notin q.steady
        BY <1>3, <2>2, <3>1 DEF SteadyHealthy
      <3>3. SteadyHealthy(r)'
        BY <1>3, <1>4, <3>1 DEF SteadyHealthy, Size
      <3>4. req[r].tries \in Nat
        BY <1>0 DEF ReqRecords
      <3> HIDE DEF p, n
      <3>5. Looked(q, n, p)
        BY <1>1, <1>3, <3>1, <3>2, <3>4 DEF Looked
      <3> QED BY <3>1, <3>3, <3>5 DEF p, n
    <2> QED BY <2>1, <2>2
  <1>8. CASE Fallback(r) \/ TransportError(r) \/ Finish(r)
    <2>1. q.steady = {}
      <3>1. CASE Fallback(r) \/ Finish(r)
        <4>1. q = Chosen(req[r]) \/ q = Idle
          BY <1>0, <3>1 DEF Fallback, Finish, Drawn
        <4>2. Chosen(req[r]).steady = {} /\ Idle.steady = {}
          BY DEF Chosen, Idle
        <4> QED BY <4>1, <4>2
      <3>2. CASE TransportError(r)
        <4>1. req[r].steady = {}
          BY <3>2 DEF TransportError, Types, ReqType, Unpicked
        <4> QED BY <1>0, <3>2, <4>1 DEF TransportError, Idle, ReqRecords
      <3> QED BY <1>8, <3>1, <3>2
    <2> QED BY <2>1, <1>e
  <1> QED BY <1>5, <1>6, <1>7, <1>8 DEF RequestStep

\* Every step keeps the rotation.
LEMMA NextRotation == Types /\ Rotation /\ [Next]_vars => Rotation'
  <1> SUFFICES ASSUME Types, Rotation, [Next]_vars, NEW s \in Requests
               PROVE  (SteadyHealthy(s) /\ Looked(req[s], Size(req[s].gen), cursor % Size(req[s].gen)))'
    BY DEF Rotation
  <1>0. req \in [Requests -> ReqRecords] /\ req[s] \in ReqRecords /\ req[s].gen \in 1 .. Len(sets)
    BY DEF Types, ReqType
  <1>e. ASSUME req'[s].steady = {}
        PROVE  (SteadyHealthy(s) /\ Looked(req[s], Size(req[s].gen), cursor % Size(req[s].gen)))'
    BY <1>e DEF SteadyHealthy, Looked
  <1>u. ASSUME req'[s] = req[s], cursor' = cursor, sets'[req[s].gen] = sets[req[s].gen]
        PROVE  (SteadyHealthy(s) /\ Looked(req[s], Size(req[s].gen), cursor % Size(req[s].gen)))'
    BY <1>u DEF Rotation, SteadyHealthy, Looked, Size
  <1>1. ASSUME NEW r \in Requests, RequestStep(r)
        PROVE  (SteadyHealthy(s) /\ Looked(req[s], Size(req[s].gen), cursor % Size(req[s].gen)))'
    <2>0. sets' = sets
      BY <1>1 DEF RequestStep, LoadSet, Pick, Look, Fallback, TransportError, Finish
    <2>1. CASE s = r
      <3>1. SteadyHealthy(s)' /\ Looked(req'[s], Size(req'[s].gen), cursor' % Size(req'[s].gen))
        BY <1>1, <2>1, OwnRotation
      <3>2. Size(req[s].gen)' = Size(req'[s].gen)
        BY <2>0 DEF Size
      <3> QED BY <3>1, <3>2 DEF Looked
    <2>2. CASE s # r /\ (Pick(r) \/ Fallback(r))
      <3>1. req'[s] = [req[s] EXCEPT !.steady = {}]
        BY <2>2 DEF Pick, Fallback, Drawn
      <3>2. req'[s].steady = {}
        BY <1>0, <3>1 DEF ReqRecords
      <3> QED BY <3>2, <1>e
    <2>3. CASE s # r /\ (LoadSet(r) \/ Look(r) \/ TransportError(r) \/ Finish(r))
      <3>1. req'[s] = req[s] /\ cursor' = cursor
        BY <1>0, <2>3 DEF LoadSet, Look, TransportError, Finish
      <3> QED BY <2>0, <3>1, <1>u
    <2> QED BY <1>1, <2>1, <2>2, <2>3 DEF RequestStep
  <1>2. ASSUME NEW r \in Requests, NEW b \in BOOLEAN, Start(r, b)
        PROVE  (SteadyHealthy(s) /\ Looked(req[s], Size(req[s].gen), cursor % Size(req[s].gen)))'
    <2>1. CASE s = r
      <3>1. req'[s].steady = {}
        BY <1>0, <1>2, <2>1 DEF Start, Idle
      <3> QED BY <3>1, <1>e
    <2>2. CASE s # r
      BY <1>0, <1>2, <2>2, <1>u DEF Start
    <2> QED BY <2>1, <2>2
  <1>3. CASE OtherDraws
    <2>1. req'[s] = [req[s] EXCEPT !.steady = {}]
      BY <1>3 DEF OtherDraws
    <2>2. req'[s].steady = {}
      BY <1>0, <2>1 DEF ReqRecords
    <2> QED BY <2>2, <1>e
  <1>4. CASE ApplyResults
    <2>1. PICK g \in 1 .. Len(sets) : g = checker.gen
      BY <1>4, ApplyResultsKind
    <2>2. cursor' = cursor /\ Size(g)' = Size(g)
      BY <1>4, <2>1, ApplyResultsKind DEF Size
    <2>3. CASE req[s].gen # g
      <3>1. req'[s] = req[s]
        BY <1>4, <2>1, <2>3 DEF ApplyResults
      <3> QED BY <1>0, <1>4, <1>u, <2>1, <2>2, <2>3, <3>1, ApplyResultsKind
    <2>4. CASE req[s].gen = g
      <3> DEFINE flags == sets'[g].healthy
      <3>1. req'[s] = [req[s] EXCEPT !.steady = {i \in req[s].steady : flags[i]}]
        <4> DEFINE f == [i \in 1 .. Size(g) |->
                            IF checker.ok[i] THEN 0 ELSE Longer(checker.failures[i], UnhealthyThreshold)]
                   u == [i \in 1 .. Size(g) |->
                            IF checker.ok[i] THEN Longer(checker.successes[i], HealthyThreshold) ELSE 0]
                   F == [i \in 1 .. Size(g) |-> NewFlag(sets[g].healthy[i], checker.ok[i], f[i], u[i])]
        <4>1. req'[s] = [req[s] EXCEPT !.steady = {i \in req[s].steady : F[i]}]
          BY <1>4, <2>1, <2>4 DEF ApplyResults
        <4>2. F = [i \in 1 .. Size(g) |->
                     IF checker.ok[i]
                     THEN \/ sets[g].healthy[i]
                          \/ Longer(checker.successes[i], HealthyThreshold) >= HealthyThreshold
                     ELSE /\ sets[g].healthy[i]
                          /\ ~(Longer(checker.failures[i], UnhealthyThreshold) >= UnhealthyThreshold)]
          BY DEF NewFlag
        <4>3. F = flags
          BY <1>4, <2>1, <4>2, ApplyResultsKind
        <4> HIDE DEF F
        <4> QED BY <4>1, <4>3
      <3>2. /\ req'[s].gen = g /\ req'[s].pc = req[s].pc /\ req'[s].idx = req[s].idx
            /\ req'[s].tries = req[s].tries /\ req'[s].steady = {i \in req[s].steady : flags[i]}
        BY <1>0, <2>4, <3>1 DEF ReqRecords
      <3>3. req[s].steady \subseteq 1 .. Size(g)
        BY <2>4 DEF Rotation, SteadyHealthy
      <3>4. SteadyHealthy(s)'
        BY <2>2, <3>2, <3>3 DEF SteadyHealthy, Size
      <3>5. Looked(req[s], Size(g), cursor % Size(g))
        BY <2>4 DEF Rotation
      <3>6. Looked(req'[s], Size(g), cursor % Size(g))
        BY <3>2, <3>5 DEF Looked
      <3> QED BY <2>2, <3>2, <3>4, <3>6 DEF Looked, Size
    <2> QED BY <2>3, <2>4
  <1>5. CASE UNCHANGED <<req, cursor>> /\ ~ApplyResults
    <2>1. sets'[req[s].gen] = sets[req[s].gen]
      BY <1>0, <1>5, GenerationsStay
    <2> QED BY <1>5, <1>u, <2>1
  <1> QED BY <1>1, <1>2, <1>3, <1>4, <1>5 DEF Next, BodyEnds, CheckerWake, Probe, BeginPoll, HeadFails,
             HeadArrives, BodyFails, BodyArrives, RefresherWake, Unroute, Flip, vars, reqVars

\* A request falls back to the plain rotation only when no address of its set
\* stayed healthy while it looked, unless somebody else drew from the shared
\* cursor: whatever the size of the set, and also where the cursor wraps
\* (next_addr).
THEOREM FallbackOnlyWhenNoneHealthy == Spec => []FallbackOnlyWhenAllEvicted
  <1>1. Init => Rotation
    <2> SUFFICES ASSUME Init PROVE Rotation
      OBVIOUS
    <2>1. \A r \in Requests : req[r].steady = {}
      BY DEF Init, Idle
    <2> QED BY <2>1 DEF Rotation, SteadyHealthy, Looked
  <1>2. Types /\ Rotation => FallbackOnlyWhenAllEvicted
    <2> SUFFICES ASSUME Types, Rotation, NEW r \in Requests, req[r].pc = "fallback", req[r].steady # {}
                 PROVE  FALSE
      BY DEF FallbackOnlyWhenAllEvicted
    <2> DEFINE n == Size(req[r].gen)
               p == cursor % n
    <2>1. n \in Nat \ {0} /\ cursor \in 0 .. CursorMod - 1
      BY GenerationSize DEF Types, ReqType, RestType
    <2>2. p \in 0 .. n - 1
      BY <2>1
    <2>3. PICK i \in 1 .. n : i \in req[r].steady
      BY DEF Rotation, SteadyHealthy
    <2>4. \A j \in 1 .. n : Back(p, j, n) + 1 \notin req[r].steady
      BY DEF Rotation, Looked
    <2> HIDE DEF n, p
    <2> QED BY <2>1, <2>2, <2>3, <2>4, BackCovers
  <1> QED BY <1>1, <1>2, InitTypes, NextTypes, NextRotation, PTL DEF Spec
=============================================================================
