---------------------------- MODULE ServerProofs ----------------------------
(***************************************************************************)
(* What the process keeps of its promises for any requests, key sets, queue  *)
(* and batch sizes: refetches after a miss are a cooldown apart, a key that   *)
(* is in every published set is never lost from the cache, and a drain that  *)
(* ended in time leaves no record unaccounted for.                           *)
(***************************************************************************)
EXTENDS Server, TLAPS

Actors == Requests \cup {Refresher}
ConnPcs == {"out", "handshake", "lookup", "elect", "refetch", "upstream", "writing", "tunnel",
            "done", "gone", "killed"}
Kids == {""} \cup UNION {w.kids : w \in Worlds}
Conns == [pc : ConnPcs, kid : Kids, seen : Nat, recorded : BOOLEAN]
Fetches == [pc : {"none", "discover", "fetch", "reply"}, reply : KeySets \cup {{}}]

Workers == [pc : {"recv", "emit", "drain", "gone"}, then : {"", "recv", "drain", "gone"}]

ConnsType ==
  /\ world \in Worlds
  /\ phase \in {"serving", "draining", "closed", "flushing", "stopped"}
  /\ ended \in {"", "drained", "grace", "error"}
  /\ admin \in {"up", "busy", "closed"}
  /\ conns \in [Requests -> Conns]

JwksType ==
  /\ provider \in KeySets
  /\ keys \in {{}} \cup {Usable(set) : set \in KeySets}
  /\ resolved \in BOOLEAN /\ routed \in BOOLEAN
  /\ last \in Nat /\ now \in Nat /\ rotations \in Nat
  /\ fetches \in [Actors -> Fetches]
  /\ refresher \in {"sleep", "refresh", "gone"}
  /\ wins \in SUBSET [by : Requests, at : Nat]
  /\ \A a \in Actors : fetches[a].pc = "reply" => fetches[a].reply \in KeySets

AnalyticsType ==
  /\ queue \in Seq(Requests) /\ buf \in Seq(Requests)
  /\ dropped \in SUBSET Requests /\ delivered \in SUBSET Requests /\ refused \in SUBSET Requests
  /\ worker \in Workers
  /\ worker.pc = "emit" => worker.then \in {"recv", "drain", "gone"}
  /\ stop \in BOOLEAN

\* The type invariant of the process.
TypeOK == ConnsType /\ JwksType /\ AnalyticsType

-----------------------------------------------------------------------------
(* Types.                                                                  *)

\* A response leaves the connection and the pipeline well typed.
LEMMA RespondType ==
    ASSUME TypeOK, NEW r \in Requests, NEW pc \in ConnPcs, Respond(r, pc)
    PROVE  conns' \in [Requests -> Conns] /\ AnalyticsType'
  <1>1. conns' \in [Requests -> Conns]
    BY DEF Respond, Fresh, TypeOK, ConnsType, Conns, Kids
  <1>2. CASE Record(r)
    BY <1>1, <1>2 DEF Record, TypeOK, AnalyticsType
  <1>3. CASE UNCHANGED analyticsVars
    BY <1>1, <1>3 DEF analyticsVars, TypeOK, AnalyticsType
  <1> QED BY <1>1, <1>2, <1>3 DEF Respond

\* Every step of a connection keeps the types.
LEMMA ConnStepType == ASSUME TypeOK, NEW r \in Requests, ConnStep(r) PROVE TypeOK'
  <1> USE DEF TypeOK
  <1>a. ASSUME UNCHANGED analyticsVars PROVE AnalyticsType'
    BY <1>a DEF analyticsVars, AnalyticsType
  <1>j. ASSUME UNCHANGED jwksVars PROVE JwksType'
    BY <1>j DEF jwksVars, JwksType
  <1>c. ASSUME Alone, conns' \in [Requests -> Conns] PROVE ConnsType'
    BY <1>c DEF Alone, ConnsType
  <1>p. ASSUME Pass(r) PROVE conns' \in [Requests -> Conns]
    BY <1>p DEF Pass, Fresh, ConnsType, Conns, ConnPcs, Kids
  <1>1. CASE Accept(r)
    <2>1. PICK kid \in world.kids :
            conns' = [conns EXCEPT ![r].kid = kid,
                                   ![r].pc = IF world.tls THEN "handshake"
                                             ELSE IF world.jwks THEN "lookup" ELSE "upstream"]
      BY <1>1 DEF Accept
    <2>2. kid \in Kids
      BY DEF Kids, ConnsType
    <2>3. PICK pc \in ConnPcs : conns' = [conns EXCEPT ![r].kid = kid, ![r].pc = pc]
      BY <2>1 DEF ConnPcs
    <2>4. conns' \in [Requests -> Conns]
      BY <2>2, <2>3 DEF ConnsType, Conns
    <2> QED BY <1>1, <2>4, <1>a, <1>j, <1>c DEF Accept
  <1>2. CASE Handshaken(r) \/ HandshakeFails(r) \/ BodyWritten(r)
    <2>0. PICK pc \in ConnPcs : Move(r, pc)
      BY <1>2 DEF Handshaken, HandshakeFails, BodyWritten, ConnPcs
    <2>1. conns' \in [Requests -> Conns]
      BY <2>0 DEF Move, ConnsType, Conns
    <2> QED BY <1>2, <2>1, <1>a, <1>j, <1>c DEF Handshaken, HandshakeFails, BodyWritten
  <1>3. CASE Lookup(r)
    <2>1. last \in Nat
      BY DEF JwksType
    <2>2. CASE Pass(r)
      BY <1>3, <2>2, <1>p, <1>a, <1>j, <1>c DEF Lookup
    <2>3. CASE conns' = [conns EXCEPT ![r].pc = "elect", ![r].seen = last]
      <3>1. conns' \in [Requests -> Conns]
        BY <2>1, <2>3 DEF ConnsType, Conns, ConnPcs
      <3> QED BY <1>3, <3>1, <1>a, <1>j, <1>c DEF Lookup
    <2> QED BY <1>3, <2>2, <2>3 DEF Lookup
  <1>4. CASE Elect(r)
    <2>1. conns' \in [Requests -> Conns]
      BY <1>4 DEF Elect, ConnsType, Conns, ConnPcs
    <2>2. fetches' \in [Actors -> Fetches]
      BY <1>4 DEF Elect, Refresh, JwksType, Fetches, Actors
    <2>3. \A a \in Actors : fetches'[a].pc = "reply" => fetches'[a].reply \in KeySets
      BY <1>4 DEF Elect, Refresh, JwksType, Actors
    <2>4. JwksType'
      BY <1>4, <2>2, <2>3 DEF Elect, Refresh, JwksType
    <2> QED BY <1>4, <2>1, <2>4, <1>a, <1>c DEF Elect
  <1>5. CASE Reload(r)
    <2>1. CASE Found(r)
      BY <1>5, <2>1, <1>p, <1>a, <1>j, <1>c DEF Reload
    <2>2. CASE ~Found(r)
      BY <1>5, <2>2, RespondType, <1>j, <1>c DEF Reload, ConnPcs
    <2> QED BY <2>1, <2>2
  <1>6. CASE UpstreamAnswers(r)
    BY <1>6, RespondType, <1>j, <1>c DEF UpstreamAnswers, ConnPcs
  <1>7. CASE ClientLeaves(r)
    <2>1. conns' \in [Requests -> Conns]
      BY <1>7 DEF ClientLeaves, Fresh, ConnsType, Conns, ConnPcs, Kids
    <2>2. fetches' \in [Actors -> Fetches]
      BY <1>7 DEF ClientLeaves, JwksType, Fetches, Actors, NoFetch
    <2>3. \A a \in Actors : fetches'[a].pc = "reply" => fetches'[a].reply \in KeySets
      BY <1>7 DEF ClientLeaves, JwksType, Actors, NoFetch
    <2>4. JwksType'
      BY <1>7, <2>2, <2>3 DEF ClientLeaves, JwksType
    <2> QED BY <1>7, <2>1, <2>4, <1>a, <1>c DEF ClientLeaves
  <1> QED BY ConnStep(r), <1>1, <1>2, <1>3, <1>4, <1>5, <1>6, <1>7 DEF ConnStep

\* Every step of the process keeps the types.
LEMMA ProcessStepType == ASSUME TypeOK, ProcessStep PROVE TypeOK'
  <1>j. JwksType'
    <2>1. UNCHANGED jwksVars
      BY DEF ProcessStep, Signal, Drained, GraceExpires, AcceptFails, AdminCall, AdminDone,
             AdminCloses, StopWorker, WorkerJoined, Idle
    <2> QED BY <2>1 DEF TypeOK, JwksType, jwksVars
  <1>a. AnalyticsType'
    BY DEF ProcessStep, Signal, Drained, GraceExpires, AcceptFails, AdminCall, AdminDone,
           AdminCloses, StopWorker, WorkerJoined, TypeOK, AnalyticsType, analyticsVars
  <1>c. ConnsType'
    <2>1. CASE Exit
      <3>1. conns' \in [Requests -> Conns]
        BY <2>1 DEF Exit, TypeOK, ConnsType, Conns, ConnPcs
      <3> QED BY <2>1, <3>1 DEF ProcessStep, Signal, Drained, GraceExpires, AcceptFails, AdminCall,
                 AdminDone, AdminCloses, StopWorker, WorkerJoined, Idle, Exit, TypeOK, ConnsType
    <2>2. CASE UNCHANGED conns
      BY <2>2 DEF ProcessStep, Signal, Drained, GraceExpires, AcceptFails, AdminCall,
                 AdminDone, AdminCloses, StopWorker, WorkerJoined, Idle, Exit, TypeOK, ConnsType
    <2> QED BY <2>1, <2>2 DEF ProcessStep, Signal, Drained, GraceExpires, AcceptFails, AdminCall,
                 AdminDone, AdminCloses, StopWorker, WorkerJoined, Idle
  <1> QED BY <1>j, <1>a, <1>c DEF TypeOK

\* Every step of the key cache keeps its types.
LEMMA JwksNextType == ASSUME TypeOK, JwksNext PROVE JwksType'
  <1> USE DEF TypeOK
  <1>1. CASE Rotate
    BY <1>1 DEF Rotate, JwksType
  <1>4. CASE Tick
    BY <1>4 DEF Tick, JwksType
  <1>5. CASE Unroute
    BY <1>5 DEF Unroute, JwksType
  <1>2. CASE RefreshOnce
    <2>1. fetches' \in [Actors -> Fetches]
      BY <1>2 DEF RefreshOnce, Refresh, JwksType, Fetches, Actors
    <2>2. \A a \in Actors : fetches'[a].pc = "reply" => fetches'[a].reply \in KeySets
      <3>1. CASE fetches' = fetches
        BY <3>1 DEF JwksType
      <3>2. CASE Refresh(Refresher)
        BY <3>2 DEF Refresh, JwksType, Actors, Fetches
      <3> QED BY <1>2, <3>1, <3>2 DEF RefreshOnce
    <2> QED BY <1>2, <2>1, <2>2 DEF RefreshOnce, Refresh, JwksType
  <1>3. ASSUME NEW a \in Actors, JwksStep(a) PROVE JwksType'
    <2>1. fetches' \in [Actors -> Fetches]
      BY <1>3 DEF JwksStep, Discover, ProviderAnswers, StoreKeys, RefreshFails, Over, NoFetch,
                  JwksType, Fetches
    <2>2. \A b \in Actors : fetches'[b].pc = "reply" => fetches'[b].reply \in KeySets
      <3>1. CASE Discover(a)
        BY <3>1 DEF Discover, JwksType, Fetches
      <3>2. CASE ProviderAnswers(a)
        BY <3>2 DEF ProviderAnswers, JwksType
      <3>3. CASE Over(a)
        BY <3>3 DEF Over, NoFetch, JwksType
      <3> QED BY <1>3, <3>1, <3>2, <3>3 DEF JwksStep, StoreKeys, RefreshFails
    <2>3. keys' \in {{}} \cup {Usable(set) : set \in KeySets}
      BY <1>3 DEF JwksStep, Discover, ProviderAnswers, StoreKeys, RefreshFails, JwksType
    <2> QED BY <1>3, <2>1, <2>2, <2>3 DEF JwksStep, Discover, ProviderAnswers, StoreKeys, RefreshFails, Over, JwksType
  <1> QED BY <1>1, <1>2, <1>3, <1>4, <1>5 DEF JwksNext, Actors

\* Every step of the analytics worker keeps its types.
LEMMA WorkerStepType == ASSUME TypeOK, WorkerStep PROVE AnalyticsType'
  <1> USE DEF TypeOK, AnalyticsType
  <1>1. ASSUME NEW loop \in {"recv", "drain"}, Take(loop) PROVE AnalyticsType'
    <2>0. queue \in Seq(Requests) /\ buf \in Seq(Requests) /\ queue # <<>>
      BY <1>1 DEF Take
    <2>1. Head(queue) \in Requests /\ Tail(queue) \in Seq(Requests)
      BY <2>0
    <2>2. queue' \in Seq(Requests) /\ buf' \in Seq(Requests)
      BY <1>1, <2>0, <2>1 DEF Take
    <2>3. worker' \in Workers /\ (worker'.pc = "emit" => worker'.then \in {"recv", "drain", "gone"})
      BY <1>1 DEF Take, Workers
    <2> QED BY <1>1, <2>2, <2>3 DEF Take
  <1>2. CASE FlushTick \/ StopSeen \/ LastFlush
    <2>3. worker' \in Workers /\ (worker'.pc = "emit" => worker'.then \in {"recv", "drain", "gone"})
      <3>1. CASE worker' = [pc |-> "emit", then |-> "recv"]
        BY <3>1 DEF Workers
      <3>2. CASE worker' = [pc |-> "drain", then |-> ""]
        BY <3>2 DEF Workers
      <3>3. CASE worker' = [pc |-> IF buf = <<>> THEN "gone" ELSE "emit", then |-> "gone"]
        BY <3>3 DEF Workers
      <3> QED BY <1>2, <3>1, <3>2, <3>3 DEF FlushTick, StopSeen, LastFlush
    <2> QED BY <1>2, <2>3 DEF FlushTick, StopSeen, LastFlush
  <1>3. CASE Emitted
    <2>0. buf \in Seq(Requests)
      OBVIOUS
    <2>1. Range(buf) \in SUBSET Requests
      BY <2>0 DEF Range
    <2>2. worker' \in Workers /\ worker'.pc # "emit"
      BY <1>3 DEF Emitted, Workers
    <2>3. delivered' \in SUBSET Requests /\ refused' \in SUBSET Requests
      BY <1>3, <2>1 DEF Emitted
    <2>4. buf' \in Seq(Requests)
      <3>1. buf' = <<>>
        BY <1>3 DEF Emitted
      <3> QED BY <3>1
    <2> QED BY <1>3, <2>2, <2>3, <2>4 DEF Emitted
  <1> QED BY <1>1, <1>2, <1>3 DEF WorkerStep, Receive, Drain

\* Every step keeps the types.
LEMMA NextType == TypeOK /\ [Next]_vars => TypeOK'
  <1> SUFFICES ASSUME TypeOK, [Next]_vars PROVE TypeOK'
    OBVIOUS
  <1>1. CASE OfJwks(JwksNext)
    BY <1>1, JwksNextType DEF OfJwks, TypeOK, ConnsType, AnalyticsType, serverVars, analyticsVars
  <1>2. CASE OfWorker(WorkerStep)
    BY <1>2, WorkerStepType DEF OfWorker, TypeOK, ConnsType, JwksType, serverVars, jwksVars
  <1>3. CASE UNCHANGED vars
    <2>1. ConnsType'
      BY <1>3 DEF vars, serverVars, TypeOK, ConnsType
    <2>2. JwksType'
      BY <1>3 DEF vars, jwksVars, TypeOK, JwksType
    <2>3. AnalyticsType'
      BY <1>3 DEF vars, analyticsVars, TypeOK, AnalyticsType
    <2> QED BY <2>1, <2>2, <2>3 DEF TypeOK
  <1> QED BY <1>1, <1>2, <1>3, ConnStepType, ProcessStepType DEF Next

\* A process starts well typed.
LEMMA InitType == Init => TypeOK
  <1> SUFFICES ASSUME Init PROVE TypeOK
    OBVIOUS
  <1>1. ConnsType
    BY DEF Init, ConnsType, Conns, ConnPcs, Kids, Fresh
  <1>2. JwksType
    <2>1. fetches \in [Actors -> Fetches]
      BY DEF Init, JwksInit, Actors, Fetches, NoFetch
    <2> QED BY <2>1, WorldsAssumption, CooldownAssumption DEF Init, JwksInit, JwksType, NoFetch, Actors
  <1>3. AnalyticsType
    <2>1. worker \in Workers /\ worker.pc # "emit"
      BY DEF Init, AnalyticsInit, Workers
    <2>2. queue \in Seq(Requests) /\ buf \in Seq(Requests)
      <3>1. <<>> \in Seq(Requests)
        OBVIOUS
      <3> QED BY <3>1 DEF Init, AnalyticsInit
    <2> QED BY <2>1, <2>2 DEF Init, AnalyticsInit, AnalyticsType
  <1> QED BY <1>1, <1>2, <1>3 DEF TypeOK

\* The types of the process's state (server.rs, jwks.rs, analytics.rs) hold
\* throughout; a reply that is being stored is a set the provider published.
THEOREM TypeCorrect == Spec => []TypeOK
  BY InitType, NextType, PTL DEF Spec

-----------------------------------------------------------------------------
(* The key cache.                                                          *)

\* No election is later than the last attempt, which is not in the future.
Attempts ==
  /\ last <= now
  /\ \A w \in wins : w.at <= last
  /\ MissRefetchesSpaced

\* Every step keeps the elections apart: a winner's read of the last attempt is
\* the last attempt still, and that is a cooldown ago.
LEMMA NextAttempts == TypeOK /\ Attempts /\ [Next]_vars => Attempts'
  <1> SUFFICES ASSUME TypeOK, Attempts, [Next]_vars PROVE Attempts'
    OBVIOUS
  <1> USE DEF Attempts, MissRefetchesSpaced
  <1>0. last \in Nat /\ now \in Nat /\ Cooldown \in Nat /\ wins \subseteq [by : Requests, at : Nat]
    BY CooldownAssumption DEF TypeOK, JwksType
  <1>s. ASSUME UNCHANGED <<last, now, wins>> PROVE Attempts'
    BY <1>s
  <1>1. ASSUME NEW r \in Requests, ConnStep(r) PROVE Attempts'
    <2>1. CASE Elect(r)
      <3>1. last' = now /\ now' = now /\ wins' = wins \cup {[by |-> r, at |-> now]}
        BY <2>1 DEF Elect, Refresh
      <3>2. now - last >= Cooldown
        BY <2>1 DEF Elect, Elected
      <3>3. \A w \in wins : w.at \in Nat /\ now - w.at >= Cooldown
        BY <1>0, <3>2
      <3>4. \A w \in wins' : w.at <= last'
        BY <1>0, <3>1, <3>3
      <3>5. MissRefetchesSpaced'
        BY <1>0, <3>1, <3>3
      <3> QED BY <1>0, <3>1, <3>4, <3>5
    <2>2. CASE ~Elect(r)
      BY <1>1, <2>2, <1>s DEF ConnStep, Accept, Handshaken, HandshakeFails, Lookup, Reload,
              UpstreamAnswers, BodyWritten, ClientLeaves, jwksVars
    <2> QED BY <2>1, <2>2
  <1>2. CASE ProcessStep
    BY <1>2, <1>s DEF ProcessStep, Signal, Drained, GraceExpires, AcceptFails, AdminCall, AdminDone,
            AdminCloses, StopWorker, WorkerJoined, Idle, jwksVars
  <1>3. CASE JwksNext
    <2>1. CASE Tick
      BY <1>0, <2>1 DEF Tick
    <2>2. CASE RefreshOnce
      <3>1. wins' = wins /\ now' = now /\ last' \in {last, now}
        BY <2>2 DEF RefreshOnce, Refresh
      <3>2. \A w \in wins : w.at \in Nat
        BY <1>0
      <3> QED BY <1>0, <3>1, <3>2
    <2>3. CASE ~Tick /\ ~RefreshOnce
      BY <1>3, <2>3, <1>s DEF JwksNext, Rotate, Unroute, JwksStep, Discover, ProviderAnswers,
              StoreKeys, RefreshFails
    <2> QED BY <2>1, <2>2, <2>3
  <1>4. CASE OfWorker(WorkerStep) \/ UNCHANGED vars
    BY <1>4, <1>s DEF OfWorker, vars, jwksVars
  <1> QED BY <1>1, <1>2, <1>3, <1>4 DEF Next, OfJwks

\* However many requests miss at a time and whoever of them is dropped on the
\* way, refetches after a miss are a cooldown apart (`key_for`).
THEOREM MissRefetchesStaySpaced == Spec => []MissRefetchesSpaced
  <1>1. Init => Attempts
    <2> SUFFICES ASSUME Init PROVE Attempts
      OBVIOUS
    <2>1. last = 0 /\ now = Cooldown /\ wins = {}
      BY DEF Init, JwksInit
    <2> QED BY <2>1, CooldownAssumption DEF Attempts, MissRefetchesSpaced
  <1>2. Attempts => MissRefetchesSpaced
    BY DEF Attempts
  <1> QED BY <1>1, <1>2, InitType, NextType, NextAttempts, PTL DEF Spec

\* Whatever refreshes fail or answer late, a key of every set the provider may
\* publish is never lost from the cache (`refresh`, stale on error).
THEOREM KnownKeysAlwaysStay == Spec => KnownKeysStay
  <1>1. ASSUME TypeOK, [Next]_vars
        PROVE  [\A kid \in keys : (\A set \in KeySets : kid \in Usable(set)) => kid \in keys']_vars
    <2>1. ASSUME NEW a \in Actors, StoreKeys(a)
          PROVE  \A kid \in keys : (\A set \in KeySets : kid \in Usable(set)) => kid \in keys'
      <3>1. fetches[a].reply \in KeySets /\ keys' = Usable(fetches[a].reply)
        BY <1>1, <2>1 DEF StoreKeys, TypeOK, JwksType
      <3> QED BY <3>1
    <2>2. ASSUME \A a \in Actors : ~StoreKeys(a) PROVE keys' = keys
      <3>1. ASSUME NEW r \in Requests, ConnStep(r) PROVE keys' = keys
        BY <3>1 DEF ConnStep, Accept, Handshaken, HandshakeFails, Lookup, Elect, Reload,
                UpstreamAnswers, BodyWritten, ClientLeaves, jwksVars
      <3>2. CASE ProcessStep
        BY <3>2 DEF ProcessStep, Signal, Drained, GraceExpires, AcceptFails, AdminCall, AdminDone,
              AdminCloses, StopWorker, WorkerJoined, Idle, jwksVars
      <3>3. CASE JwksNext
        BY <2>2, <3>3 DEF JwksNext, Rotate, Tick, Unroute, RefreshOnce, JwksStep, Discover,
              ProviderAnswers, RefreshFails, Actors
      <3>4. CASE OfWorker(WorkerStep) \/ UNCHANGED vars
        BY <3>4 DEF OfWorker, vars, jwksVars
      <3> QED BY <1>1, <3>1, <3>2, <3>3, <3>4 DEF Next, OfJwks
    <2> QED BY <2>1, <2>2
  <1> QED BY <1>1, TypeCorrect, PTL DEF Spec, KnownKeysStay

-----------------------------------------------------------------------------
(* The shutdown.                                                           *)

\* How serving ended is known once it has; the worker is stopped after that,
\* and a process that did not fail exits when the worker is gone.
PhaseOrder ==
  /\ ended = "" <=> phase \in {"serving", "draining"}
  /\ stop => phase \in {"flushing", "stopped"}
  /\ phase = "stopped" /\ ended = "drained" => worker.pc = "gone"

\* The worker leaves its loop when it is told to, and never with a batch in hand.
Ending == worker.pc = "gone" \/ (worker.pc = "emit" /\ worker.then = "gone")
WorkerOrder ==
  /\ world.sink /\ Ending => stop
  /\ worker.pc = "drain" \/ worker.then = "drain" => stop
  /\ worker.pc = "gone" => buf = <<>>

\* A request that has its answer has left its record, and the record is on its
\* way or accounted for.
Held(r) == r \in Range(queue) \cup Range(buf) \/ Accounted(r)
Recorded ==
  \A r \in Requests :
    /\ conns[r].pc \in {"writing", "tunnel"} => conns[r].recorded
    /\ conns[r].recorded /\ world.sink => Held(r)

\* After a drain no connection is open, so nothing joins the queue that the
\* worker found empty; what is cut off at the exit is a tunnel.
Quiet ==
  ended = "drained" =>
    /\ \A r \in Requests : ~Open(r)
    /\ world.sink /\ Ending => queue = <<>>
    /\ \A r \in Requests : conns[r].pc = "killed" => conns[r].recorded

\* A connection is cut off by the exit only.
CutAtExit == \A r \in Requests : conns[r].pc = "killed" => phase = "stopped"

Shutdown == PhaseOrder /\ WorkerOrder /\ Recorded /\ Quiet /\ CutAtExit

\* A queue and its range: a record joins at the end and leaves at the head.
LEMMA AppendRange ==
    ASSUME NEW S, NEW s \in Seq(S), NEW e \in S
    PROVE  Range(Append(s, e)) = Range(s) \cup {e}
  <1>1. DOMAIN Append(s, e) = 1 .. Len(s) + 1 /\ DOMAIN s = 1 .. Len(s) /\ Len(s) \in Nat
    OBVIOUS
  <1>2. \A i \in 1 .. Len(s) : Append(s, e)[i] = s[i]
    OBVIOUS
  <1>3. Append(s, e)[Len(s) + 1] = e
    OBVIOUS
  <1>4. 1 .. Len(s) + 1 = (1 .. Len(s)) \cup {Len(s) + 1}
    BY <1>1
  <1> QED BY <1>1, <1>2, <1>3, <1>4 DEF Range

\* The same for the head of a queue.
LEMMA TailRange ==
    ASSUME NEW S, NEW s \in Seq(S), s # <<>>
    PROVE  Range(s) = Range(Tail(s)) \cup {Head(s)}
  <1>1. DOMAIN s = 1 .. Len(s) /\ Len(s) \in Nat /\ Len(s) >= 1
    OBVIOUS
  <1>2. DOMAIN Tail(s) = 1 .. Len(s) - 1 /\ \A i \in 1 .. Len(s) - 1 : Tail(s)[i] = s[i + 1]
    BY <1>1
  <1>3. Head(s) = s[1]
    BY <1>1
  <1>4. ASSUME NEW x \in Range(s) PROVE x \in Range(Tail(s)) \cup {Head(s)}
    <2>1. PICK i \in 1 .. Len(s) : x = s[i]
      BY <1>1, <1>4 DEF Range
    <2>2. CASE i = 1
      BY <2>1, <2>2, <1>3
    <2>3. CASE i # 1
      <3>1. i - 1 \in 1 .. Len(s) - 1 /\ i = (i - 1) + 1
        BY <1>1, <2>3
      <3>2. Tail(s)[i - 1] = x
        BY <1>2, <2>1, <3>1
      <3> QED BY <1>2, <3>1, <3>2 DEF Range
    <2> QED BY <2>2, <2>3
  <1>5. ASSUME NEW x \in Range(Tail(s)) \cup {Head(s)} PROVE x \in Range(s)
    <2>1. CASE x = Head(s)
      BY <1>1, <1>3, <2>1 DEF Range
    <2>2. CASE x \in Range(Tail(s))
      <3>1. PICK i \in 1 .. Len(s) - 1 : x = s[i + 1]
        BY <1>2, <2>2 DEF Range
      <3>2. i + 1 \in 1 .. Len(s)
        BY <1>1
      <3> QED BY <1>1, <3>1, <3>2 DEF Range
    <2> QED BY <1>5, <2>1, <2>2
  <1> QED BY <1>4, <1>5

\* A connection's step, as the shutdown sees it.
LEMMA ConnStepKind ==
    ASSUME TypeOK, Shutdown, NEW r \in Requests, ConnStep(r)
    PROVE  /\ UNCHANGED <<world, phase, ended, worker, buf, delivered, refused, stop>>
           /\ \A s \in Requests : s # r => conns'[s] = conns[s]
           /\ conns'[r].pc # "killed"
           /\ conns'[r].pc \in {"writing", "tunnel"} => conns'[r].recorded
           /\ Open(r)' => phase = "serving" \/ Open(r)
           /\ \/ UNCHANGED <<queue, dropped>> /\ (conns'[r].recorded => conns[r].recorded)
              \/ UNCHANGED <<queue, dropped>> /\ ~world.sink
              \/ world.sink /\ Record(r) /\ Open(r)
  <1>0. conns \in [Requests -> Conns]
    BY DEF TypeOK, ConnsType
  <1>1. CASE Accept(r)
    BY <1>0, <1>1 DEF Accept, Alone, analyticsVars, Conns, Open
  <1>2. CASE Handshaken(r)
    BY <1>0, <1>2 DEF Handshaken, Alone, analyticsVars, Conns, Open, Move
  <1>3. CASE HandshakeFails(r)
    BY <1>0, <1>3 DEF HandshakeFails, Alone, analyticsVars, Conns, Open, Move
  <1>4. CASE BodyWritten(r)
    BY <1>0, <1>4 DEF BodyWritten, Alone, analyticsVars, Conns, Open, Move
  <1>5. CASE Lookup(r)
    BY <1>0, <1>5 DEF Lookup, Pass, Fresh, Alone, analyticsVars, Conns, Open
  <1>6. CASE Elect(r)
    BY <1>0, <1>6 DEF Elect, Alone, analyticsVars, Conns, Open
  <1>7. CASE ClientLeaves(r)
    BY <1>0, <1>7 DEF ClientLeaves, Fresh, Alone, analyticsVars, Conns, Open
  <1>8. ASSUME NEW pc \in {"writing", "tunnel"}, Respond(r, pc), Alone, Open(r)
        PROVE  /\ UNCHANGED <<world, phase, ended, worker, buf, delivered, refused, stop>>
               /\ \A s \in Requests : s # r => conns'[s] = conns[s]
               /\ conns'[r].pc # "killed" /\ conns'[r].recorded
               /\ \/ UNCHANGED <<queue, dropped>> /\ ~world.sink
                  \/ world.sink /\ Record(r)
    BY <1>0, <1>8 DEF Respond, Record, Fresh, Alone, analyticsVars
  <1>9. CASE Reload(r)
    <2>1. Open(r)
      BY <1>9 DEF Reload, Open
    <2>2. CASE Found(r)
      BY <1>0, <1>9, <2>1, <2>2 DEF Reload, Pass, Fresh, Alone, analyticsVars
    <2>3. CASE ~Found(r)
      BY <1>8, <1>9, <2>1, <2>3 DEF Reload
    <2> QED BY <2>2, <2>3
  <1>10. CASE UpstreamAnswers(r)
    <2>1. Open(r)
      BY <1>10 DEF UpstreamAnswers, Open
    <2> QED BY <1>8, <1>10, <2>1 DEF UpstreamAnswers
  <1> QED BY <1>1, <1>2, <1>3, <1>4, <1>5, <1>6, <1>7, <1>9, <1>10 DEF ConnStep

\* A connection's step preserves the invariant of the shutdown.
LEMMA ConnStepShutdown ==
    ASSUME TypeOK, Shutdown, phase # "stopped", NEW r \in Requests, ConnStep(r)
    PROVE  Shutdown'
  <1>1. /\ UNCHANGED <<world, phase, ended, worker, buf, delivered, refused, stop>>
        /\ \A s \in Requests : s # r => conns'[s] = conns[s]
        /\ conns'[r].pc # "killed"
        /\ conns'[r].pc \in {"writing", "tunnel"} => conns'[r].recorded
        /\ Open(r)' => phase = "serving" \/ Open(r)
    BY ConnStepKind
  <1>2. \/ UNCHANGED <<queue, dropped>> /\ (conns'[r].recorded => conns[r].recorded)
        \/ UNCHANGED <<queue, dropped>> /\ ~world.sink
        \/ world.sink /\ Record(r) /\ Open(r)
    BY ConnStepKind
  <1>3. PhaseOrder' /\ WorkerOrder'
    BY <1>1 DEF Shutdown, PhaseOrder, WorkerOrder, Ending
  <1>4. CutAtExit'
    BY <1>1 DEF Shutdown, CutAtExit
  <1>5. Recorded'
    <2>1. CASE UNCHANGED <<queue, dropped>> /\ (conns'[r].recorded => conns[r].recorded)
      BY <1>1, <2>1 DEF Shutdown, Recorded, Held, Accounted
    <2>2. CASE UNCHANGED <<queue, dropped>> /\ ~world.sink
      BY <1>1, <2>2 DEF Shutdown, Recorded
    <2>3. CASE world.sink /\ Record(r)
      <3>1. queue \in Seq(Requests)
        BY DEF TypeOK, AnalyticsType
      <3>2. Held(r)' /\ \A s \in Requests : Held(s) => Held(s)'
        <4>1. CASE queue' = Append(queue, r) /\ dropped' = dropped
          <5>1. Range(queue') = Range(queue) \cup {r}
            BY <3>1, <4>1, AppendRange
          <5> QED BY <1>1, <4>1, <5>1 DEF Held, Accounted
        <4>2. CASE dropped' = dropped \cup {r} /\ queue' = queue
          BY <1>1, <4>2 DEF Held, Accounted
        <4> QED BY <2>3, <4>1, <4>2 DEF Record
      <3> QED BY <1>1, <3>2 DEF Shutdown, Recorded
    <2> QED BY <1>2, <2>1, <2>2, <2>3
  <1>6. Quiet'
    <2> SUFFICES ASSUME ended = "drained" PROVE Quiet'
      BY <1>1 DEF Quiet
    <2>1. phase # "serving" /\ \A s \in Requests : ~Open(s)
      BY DEF Shutdown, PhaseOrder, Quiet
    <2>2. world.sink => queue' = queue
      BY <1>2, <2>1
    <2>3. \A s \in Requests : ~Open(s)'
      BY <1>1, <2>1 DEF Open
    <2>4. world'.sink /\ Ending' => queue' = <<>>
      BY <1>1, <2>2 DEF Shutdown, Quiet, Ending
    <2>5. \A s \in Requests : conns'[s].pc = "killed" => conns'[s].recorded
      BY <1>1 DEF Shutdown, Quiet
    <2> QED BY <2>3, <2>4, <2>5 DEF Quiet
  <1> QED BY <1>3, <1>4, <1>5, <1>6 DEF Shutdown

\* So does a step of the process.
LEMMA ProcessStepShutdown == ASSUME TypeOK, Shutdown, ProcessStep PROVE Shutdown'
  <1>0. conns \in [Requests -> Conns]
    BY DEF TypeOK, ConnsType
  <1>e. ASSUME Exit, phase # "stopped", UNCHANGED <<world, analyticsVars>>,
               \/ ended' = "error"
               \/ ended' = ended /\ ended # "" /\ worker.pc = "gone"
        PROVE  Shutdown'
    <2>1. phase' = "stopped"
      BY <1>e DEF Exit
    <2>2. PhaseOrder' /\ WorkerOrder' /\ CutAtExit'
      BY <1>e, <2>1 DEF analyticsVars, Shutdown, PhaseOrder, WorkerOrder, Ending, CutAtExit
    <2>3. \A r \in Requests :
            /\ conns'[r].recorded = conns[r].recorded
            /\ conns'[r].pc = conns[r].pc \/ conns'[r].pc = "killed"
            /\ conns'[r].pc = "killed" => Open(r) \/ conns[r].pc \in {"tunnel", "killed"}
      BY <1>0, <1>e DEF Exit, Conns
    <2>4. Recorded'
      BY <1>e, <2>3 DEF analyticsVars, Shutdown, Recorded, Held, Accounted
    <2>5. Quiet'
      <3> SUFFICES ASSUME ended' = "drained", ended = "drained" PROVE Quiet'
        BY <1>e DEF Quiet
      <3>1. \A r \in Requests : ~Open(r)
        BY DEF Shutdown, Quiet
      <3>2. \A r \in Requests : ~Open(r)'
        BY <2>3, <3>1 DEF Open
      <3>3. \A r \in Requests : conns'[r].pc = "killed" => conns'[r].recorded
        BY <2>3, <3>1 DEF Shutdown, Quiet, Recorded
      <3>4. world'.sink /\ Ending' => queue' = <<>>
        BY <1>e DEF Shutdown, Quiet, Ending, analyticsVars
      <3> QED BY <3>2, <3>3, <3>4 DEF Quiet
    <2> QED BY <2>2, <2>4, <2>5 DEF Shutdown
  <1>1. CASE AcceptFails
    BY <1>1, <1>e DEF AcceptFails
  <1>2. CASE WorkerJoined
    BY <1>2, <1>e DEF WorkerJoined, Shutdown, PhaseOrder
  <1>3. CASE Signal
    BY <1>3 DEF Signal, Idle, analyticsVars, Shutdown, PhaseOrder, WorkerOrder, Ending, Recorded, Held,
            Accounted, Quiet, Open, CutAtExit
  <1>4. CASE Drained
    <2>1. PhaseOrder' /\ WorkerOrder' /\ Recorded' /\ CutAtExit'
      BY <1>4 DEF Drained, Idle, analyticsVars, Shutdown, PhaseOrder, WorkerOrder, Ending, Recorded, Held,
              Accounted, CutAtExit
    <2>2. ~(world.sink /\ Ending) /\ \A r \in Requests : conns[r].pc # "killed"
      BY <1>4 DEF Drained, Shutdown, PhaseOrder, WorkerOrder, CutAtExit
    <2>3. Quiet'
      BY <1>4, <2>2 DEF Drained, Idle, analyticsVars, Quiet, Open, Ending
    <2> QED BY <2>1, <2>3 DEF Shutdown
  <1>5. CASE GraceExpires
    BY <1>5 DEF GraceExpires, Idle, analyticsVars, Shutdown, PhaseOrder, WorkerOrder, Ending, Recorded, Held,
            Accounted, Quiet, CutAtExit
  <1>6. CASE AdminCall \/ AdminDone \/ AdminCloses
    <2>1. UNCHANGED <<world, phase, ended, conns, analyticsVars>>
      BY <1>6 DEF AdminCall, AdminDone, AdminCloses, Idle
    <2> QED BY <2>1 DEF analyticsVars, Shutdown, PhaseOrder, WorkerOrder, Ending, Recorded, Held,
            Accounted, Quiet, Open, CutAtExit
  <1>7. CASE StopWorker
    BY <1>7 DEF StopWorker, Idle, Shutdown, PhaseOrder, WorkerOrder, Ending, Recorded, Held,
            Accounted, Quiet, Open, CutAtExit
  <1> QED BY <1>1, <1>2, <1>3, <1>4, <1>5, <1>6, <1>7 DEF ProcessStep

\* So does a step of the analytics worker.
LEMMA WorkerStepShutdown ==
    ASSUME TypeOK, Shutdown, phase # "stopped", WorkerStep, UNCHANGED serverVars
    PROVE  Shutdown'
  <1>0. queue \in Seq(Requests) /\ buf \in Seq(Requests) /\ worker \in Workers
    BY DEF TypeOK, AnalyticsType
  <1>1. PhaseOrder'
    <2>1. stop' = stop
      BY DEF WorkerStep, Receive, FlushTick, StopSeen, Drain, LastFlush, Emitted, Take
    <2> QED BY <2>1 DEF serverVars, Shutdown, PhaseOrder
  <1>2. CutAtExit'
    BY DEF serverVars, Shutdown, CutAtExit
  <1>3. \A r \in Requests : Held(r) => Held(r)'
    <2>1. CASE queue' = Tail(queue) /\ buf' = Append(buf, Head(queue)) /\ queue # <<>>
               /\ UNCHANGED <<dropped, delivered, refused>>
      <3>1. Head(queue) \in Requests
        BY <1>0, <2>1
      <3>2. Range(queue) = Range(queue') \cup {Head(queue)}
        BY <1>0, <2>1, TailRange
      <3>3. Range(buf') = Range(buf) \cup {Head(queue)}
        BY <1>0, <2>1, <3>1, AppendRange
      <3> QED BY <2>1, <3>2, <3>3 DEF Held, Accounted
    <2>2. CASE UNCHANGED <<queue, buf, dropped, delivered, refused>>
      BY <2>2 DEF Held, Accounted
    <2>3. CASE Emitted
      BY <2>3 DEF Emitted, Held, Accounted
    <2> QED BY <2>1, <2>2, <2>3 DEF WorkerStep, Receive, FlushTick, StopSeen, Drain, LastFlush, Take
  <1>4. Recorded'
    BY <1>3 DEF serverVars, Shutdown, Recorded
  <1>5. /\ world'.sink /\ Ending' => stop'
        /\ worker'.pc = "drain" \/ worker'.then = "drain" => stop'
        /\ worker'.pc = "gone" => buf' = <<>>
        /\ Ending' => (Ending /\ queue' = queue) \/ queue' = <<>>
    <2> USE DEF Shutdown, WorkerOrder, Ending, serverVars
    <2>1. ASSUME NEW loop \in {"recv", "drain"}, worker.pc = loop, Take(loop)
          PROVE  /\ ~Ending'
                 /\ worker'.pc = "drain" \/ worker'.then = "drain" => stop'
      BY <1>0, <2>1 DEF Take, Workers
    <2>2. CASE Receive \/ Drain
      BY <2>1, <2>2 DEF Receive, Drain
    <2>3. CASE FlushTick
      BY <2>3 DEF FlushTick
    <2>4. CASE StopSeen
      BY <2>4 DEF StopSeen
    <2>5. CASE LastFlush
      <3>1. CASE buf = <<>>
        BY <2>5, <3>1 DEF LastFlush
      <3>2. CASE buf # <<>>
        BY <2>5, <3>2 DEF LastFlush
      <3> QED BY <3>1, <3>2
    <2>6. CASE Emitted
      BY <1>0, <2>6 DEF Emitted, Workers
    <2> QED BY <2>2, <2>3, <2>4, <2>5, <2>6 DEF WorkerStep
  <1>6. WorkerOrder'
    BY <1>5 DEF WorkerOrder
  <1>7. Quiet'
    BY <1>5 DEF serverVars, Shutdown, Quiet, Open
  <1> QED BY <1>1, <1>2, <1>4, <1>6, <1>7 DEF Shutdown

\* Every step preserves the invariant of the shutdown.
LEMMA NextShutdown == TypeOK /\ Shutdown /\ [Next]_vars => Shutdown'
  <1> SUFFICES ASSUME TypeOK, Shutdown, [Next]_vars PROVE Shutdown'
    OBVIOUS
  <1>1. ASSUME UNCHANGED <<serverVars, analyticsVars>> PROVE Shutdown'
    BY <1>1 DEF serverVars, analyticsVars, Shutdown, PhaseOrder, WorkerOrder, Ending, Recorded, Held,
            Accounted, Quiet, Open, CutAtExit
  <1>2. CASE OfJwks(JwksNext) \/ UNCHANGED vars
    BY <1>1, <1>2 DEF OfJwks, vars
  <1>3. CASE OfWorker(WorkerStep)
    BY <1>3, WorkerStepShutdown DEF OfWorker
  <1> QED BY <1>2, <1>3, ConnStepShutdown, ProcessStepShutdown DEF Next

\* A drain within the grace period cuts no request off, tunnels apart, and
\* leaves no response's record unaccounted for, whatever the channel's
\* capacity, the batch size and the sink's failures (`run`, the tail of main).
THEOREM DrainAlwaysDelivers == Spec => []DrainDelivers
  <1>1. Init => Shutdown
    <2> SUFFICES ASSUME Init PROVE Shutdown
      OBVIOUS
    <2>1. /\ phase = "serving" /\ ended = "" /\ conns = [r \in Requests |-> Fresh]
          /\ stop = FALSE /\ buf = <<>> /\ worker.then = ""
          /\ worker.pc = IF world.sink THEN "recv" ELSE "gone"
      BY DEF Init, AnalyticsInit
    <2> QED BY <2>1 DEF Fresh, Shutdown, PhaseOrder, WorkerOrder, Ending, Recorded, Quiet, CutAtExit
  <1>2. Shutdown => DrainDelivers
    <2> SUFFICES ASSUME Shutdown, phase = "stopped", ended = "drained", NEW r \in Requests
                 PROVE  /\ conns[r].pc = "killed" => conns[r].recorded
                        /\ conns[r].recorded /\ world.sink => Accounted(r)
      BY DEF DrainDelivers
    <2>1. conns[r].pc = "killed" => conns[r].recorded
      BY DEF Shutdown, Quiet
    <2>2. worker.pc = "gone" /\ buf = <<>> /\ (world.sink => queue = <<>>)
      BY DEF Shutdown, PhaseOrder, WorkerOrder, Quiet, Ending
    <2>3. Range(<<>>) = {}
      BY DEF Range
    <2> QED BY <2>1, <2>2, <2>3 DEF Shutdown, Recorded, Held
  <1> QED BY <1>1, <1>2, InitType, NextType, NextShutdown, PTL DEF Spec
=============================================================================
