------------------------------- MODULE Server -------------------------------
(***************************************************************************)
(* The life of the process: connections accepted, handshaken and served      *)
(* (g2way server.rs), a request that may have to wait for the JWKS cache on   *)
(* its way (auth.rs resolve_jwks_key) and leaves an analytics record, and the *)
(* shutdown of main.rs: signal, drain within the grace period, the admin      *)
(* listener, the analytics worker's last flush.                              *)
(*                                                                         *)
(*   world  [tls, jwks, discovery, sink, admin, signal, published, clients,  *)
(*          kids]: what is configured, and who comes with which keys         *)
(*   phase  "serving", "draining", "closed" (the proxy listener's future is  *)
(*          done), "flushing", "stopped"                                     *)
(*   ended  how serving ended: "drained", "grace" or "error"                 *)
(*   admin  "up", "busy", "closed"                                           *)
(*   conns  per request its connection: [pc, kid, seen, recorded], pc one of *)
(*          "out", "handshake", "lookup", "elect", "refetch", "upstream",    *)
(*          "writing", "tunnel", "done", "gone", "killed"        *)
(***************************************************************************)
EXTENDS JwksCache, AnalyticsPipeline

CONSTANT Worlds

\* What a provider publishes at first is one of the key sets it may publish.
ASSUME WorldsAssumption == \A w \in Worlds : w.published \in KeySets

VARIABLES world, phase, ended, admin, conns

serverVars == <<world, phase, ended, admin, conns>>
vars == <<jwksVars, analyticsVars, serverVars>>

Fresh == [pc |-> "out", kid |-> "", seen |-> 0, recorded |-> FALSE]

Init ==
  /\ world \in Worlds
  /\ phase = "serving" /\ ended = ""
  /\ admin = IF world.admin THEN "up" ELSE "closed"
  /\ conns = [r \in Requests |-> Fresh]
  /\ JwksInit(world.jwks, world.discovery, world.published)
  /\ AnalyticsInit(world.sink)

Move(r, pc) == conns' = [conns EXCEPT ![r].pc = pc]
Alone == UNCHANGED <<world, phase, ended, admin>>

-----------------------------------------------------------------------------
(* A connection and its request.                                           *)

\* The accept loop: the drain watcher is taken here, before any handshake.
Accept(r) ==
  /\ phase = "serving" /\ routed /\ r \in world.clients /\ conns[r].pc = "out"
  /\ \E kid \in world.kids :
        conns' = [conns EXCEPT ![r].kid = kid,
                               ![r].pc = IF world.tls THEN "handshake"
                                         ELSE IF world.jwks THEN "lookup" ELSE "upstream"]
  /\ Alone /\ UNCHANGED <<jwksVars, analyticsVars>>

Handshaken(r) ==
  /\ conns[r].pc = "handshake" /\ Move(r, IF world.jwks THEN "lookup" ELSE "upstream")
  /\ Alone /\ UNCHANGED <<jwksVars, analyticsVars>>

\* It fails, or HANDSHAKE_TIMEOUT is over.
HandshakeFails(r) ==
  /\ conns[r].pc = "handshake" /\ Move(r, "gone")
  /\ Alone /\ UNCHANGED <<jwksVars, analyticsVars>>

\* The response passes the layers that count, measure and record it.
Respond(r, pc) ==
  /\ conns' = [conns EXCEPT ![r] = [Fresh EXCEPT !.pc = pc, !.recorded = TRUE]]
  /\ IF world.sink THEN Record(r) ELSE UNCHANGED analyticsVars

\* A look at the cached keys: on to the upstream, or else.
Found(r) == conns[r].kid \in keys
Pass(r) == conns' = [conns EXCEPT ![r] = [Fresh EXCEPT !.pc = "upstream"]]

\* `key_for`: a cached key at once; otherwise the last attempt is read.
Lookup(r) ==
  /\ conns[r].pc = "lookup"
  /\ IF Found(r) THEN Pass(r)
     ELSE conns' = [conns EXCEPT ![r].pc = "elect", ![r].seen = last]
  /\ Alone /\ UNCHANGED <<jwksVars, analyticsVars>>

Elect(r) ==
  /\ conns[r].pc = "elect" /\ Elected(conns[r].seen)
  /\ conns' = [conns EXCEPT ![r].pc = "refetch", ![r].seen = 0]
  /\ Refresh(r) /\ wins' = wins \cup {[by |-> r, at |-> now]}
  /\ Alone
  /\ UNCHANGED <<provider, keys, resolved, now, refresher, routed, rotations, analyticsVars>>

\* The second look, after the refetch or, for the others, at once.
Reload(r) ==
  /\ \/ conns[r].pc = "elect" /\ ~Elected(conns[r].seen)
     \/ conns[r].pc = "refetch" /\ fetches[r].pc = "none"
  /\ IF Found(r) THEN Pass(r) /\ UNCHANGED analyticsVars
     ELSE Respond(r, "writing")                     \* 403
  /\ Alone /\ UNCHANGED jwksVars

\* The upstream's answer, or an error response; a 101 frees the connection,
\* which the tunnel's own task keeps.
UpstreamAnswers(r) ==
  /\ conns[r].pc = "upstream"
  /\ \E pc \in {"writing", "tunnel"} : Respond(r, pc)
  /\ Alone /\ UNCHANGED jwksVars

BodyWritten(r) ==
  /\ conns[r].pc \in {"writing", "tunnel"} /\ Move(r, "done")
  /\ Alone /\ UNCHANGED <<jwksVars, analyticsVars>>

\* The connection breaks: whatever the request was awaiting is dropped with it,
\* a refetch it was elected for too.
ClientLeaves(r) ==
  /\ conns[r].pc \in {"lookup", "elect", "refetch", "upstream", "writing"}
  /\ conns' = [conns EXCEPT ![r] = [Fresh EXCEPT !.pc = "gone", !.recorded = conns[r].recorded]]
  /\ fetches' = [fetches EXCEPT ![r] = NoFetch]
  /\ Alone
  /\ UNCHANGED <<provider, keys, resolved, last, now, refresher, wins, routed, rotations, analyticsVars>>

-----------------------------------------------------------------------------
(* The process.                                                            *)
Open(r) == conns[r].pc \notin {"out", "done", "gone", "tunnel", "killed"}
Idle == UNCHANGED <<world, conns, jwksVars>>

Signal ==
  /\ world.signal /\ phase = "serving" /\ phase' = "draining"
  /\ Idle /\ UNCHANGED <<ended, admin, analyticsVars>>

\* `GracefulShutdown::shutdown`: every watcher has been dropped.
Drained ==
  /\ phase = "draining" /\ \A r \in Requests : ~Open(r)
  /\ phase' = "closed" /\ ended' = "drained"
  /\ Idle /\ UNCHANGED <<admin, analyticsVars>>

\* Mutant: the grace period waits for handshakes.
GraceExpiresAfterHandshakes ==
  /\ phase = "draining" /\ \A r \in Requests : conns[r].pc # "handshake"
  /\ phase' = "closed" /\ ended' = "grace"
  /\ Idle /\ UNCHANGED <<admin, analyticsVars>>

GraceExpires ==
  /\ phase = "draining"
  /\ phase' = "closed" /\ ended' = "grace"
  /\ Idle /\ UNCHANGED <<admin, analyticsVars>>

\* What the runtime still held is dropped with it.
Exit ==
  /\ phase' = "stopped"
  /\ conns' = [r \in Requests |-> IF Open(r) \/ conns[r].pc = "tunnel"
                                  THEN [conns[r] EXCEPT !.pc = "killed"] ELSE conns[r]]

\* `accept` fails for good: `?` leaves main at once.
AcceptFails ==
  /\ world.signal /\ phase = "serving" /\ ended' = "error"
  /\ Exit
  /\ UNCHANGED <<world, admin, jwksVars, analyticsVars>>

\* The admin listener: its own graceful shutdown, without a grace period.
AdminCall ==
  /\ admin = "up" /\ phase = "serving" /\ admin' = "busy"
  /\ Idle /\ UNCHANGED <<phase, ended, analyticsVars>>

AdminDone ==
  /\ admin = "busy" /\ phase # "stopped" /\ admin' = "up"
  /\ Idle /\ UNCHANGED <<phase, ended, analyticsVars>>

AdminCloses ==
  /\ admin = "up" /\ phase \in {"draining", "closed"} /\ admin' = "closed"
  /\ Idle /\ UNCHANGED <<phase, ended, analyticsVars>>

\* Both listeners are done: stop the worker and wait for it.
StopWorker ==
  /\ phase = "closed" /\ admin = "closed"
  /\ phase' = "flushing" /\ stop' = TRUE
  /\ Idle /\ UNCHANGED <<ended, admin, queue, dropped, worker, buf, delivered, refused>>

WorkerJoined ==
  /\ phase = "flushing" /\ worker.pc = "gone"
  /\ Exit
  /\ UNCHANGED <<world, ended, admin, jwksVars, analyticsVars>>

-----------------------------------------------------------------------------
ConnStep(r) ==
  \/ Accept(r) \/ Handshaken(r) \/ HandshakeFails(r)
  \/ Lookup(r) \/ Elect(r) \/ Reload(r)
  \/ UpstreamAnswers(r) \/ BodyWritten(r) \/ ClientLeaves(r)

ProcessStep ==
  \/ Signal \/ Drained \/ GraceExpires \/ AcceptFails
  \/ AdminCall \/ AdminDone \/ AdminCloses \/ StopWorker \/ WorkerJoined

JwksNext ==
  \/ Rotate \/ Tick \/ Unroute \/ RefreshOnce
  \/ \E a \in Requests \cup {Refresher} : JwksStep(a)

\* Steps of a task of their own, as long as the process runs.
OfJwks(step)   == phase # "stopped" /\ step /\ UNCHANGED <<serverVars, analyticsVars>>
OfWorker(step) == phase # "stopped" /\ step /\ UNCHANGED <<serverVars, jwksVars>>

Next ==
  \/ phase # "stopped" /\ \E r \in Requests : ConnStep(r)
  \/ ProcessStep
  \/ OfJwks(JwksNext)
  \/ OfWorker(WorkerStep)

\* The runtime runs the tasks, the grace timer fires, the sink returns, admin
\* requests end, main goes on when it can; the provider, asked again and again,
\* answers and ends an answer it began.  Of connections nothing is assumed.
Fairness ==
  /\ WF_vars(OfJwks(RefreshOnce)) /\ WF_vars(OfJwks(JwksStep(Refresher)))
  /\ SF_vars(OfJwks(Discover(Refresher)))
  /\ SF_vars(OfJwks(ProviderAnswers(Refresher))) /\ SF_vars(OfJwks(StoreKeys(Refresher)))
  /\ WF_vars(OfWorker(WorkerStep)) /\ SF_vars(OfWorker(StopSeen))
  /\ WF_vars(GraceExpires) /\ WF_vars(Drained)
  /\ WF_vars(AdminDone) /\ WF_vars(AdminCloses)
  /\ WF_vars(StopWorker) /\ WF_vars(WorkerJoined)

Spec == Init /\ [][Next]_vars /\ Fairness

-----------------------------------------------------------------------------
(* Properties.                                                             *)

\* A key the provider never withdrew, once cached, stays: no failed refresh
\* and no late answer loses it (`refresh` is stale-on-error).
KnownKeysStay ==
  [][\A kid \in keys : (\A set \in KeySets : kid \in Usable(set)) => kid \in keys']_vars

\* Misses refetch at most once per cooldown, however many requests miss at a
\* time and whoever of them is dropped on the way (`key_for`).
MissRefetchesSpaced ==
  \A w, v \in wins : w # v => w.at - v.at >= Cooldown \/ v.at - w.at >= Cooldown

\* While the process and the route live on, the cache comes to hold what the
\* provider publishes and nothing it withdrew, although an older answer may
\* be stored after a newer one (`spawn_refresher`).
KeysConverge ==
  <>[](phase # "stopped" /\ routed /\ world.jwks) => <>[](keys = Usable(provider))

\* When the listeners drained within the grace period, no request was cut off
\* and every response's record is accounted for: delivered, in a batch the
\* sink refused, or dropped and counted (`run`, the tail of main).
DrainDelivers ==
  phase = "stopped" /\ ended = "drained" =>
    \A r \in Requests :
      /\ conns[r].pc = "killed" => conns[r].recorded       \* tunnels only
      /\ conns[r].recorded /\ world.sink => Accounted(r)

\* A signal ends the process, whatever the proxy's connections do (`serve_inner`,
\* main).  Requests to the admin listener, which has no grace period, are assumed
\* to end.
ShutdownEnds == (phase = "draining") ~> (phase = "stopped")
=============================================================================
