------------------------- MODULE RequestPathProofs -------------------------
(***************************************************************************)
(* Proofs about the request path, for any number of requests in flight and   *)
(* any deployment.  A step of a request replaces its record, and every       *)
(* invariant below but those of the cache is a predicate of one such record: *)
(* a lemma per action shows that the record it leaves is good again.         *)
(***************************************************************************)
EXTENDS RequestPath, FiniteSetTheorems, SequenceTheorems, TLAPS

\* The fields of a request that has arrived.
Fields == {"pc", "q", "api", "scope", "ctx", "headers", "charged", "opened", "status", "by",
           "sent", "out", "left", "recording", "src", "faulted", "steady", "dead"}

\* What names a request's chain, and the bill it has run up, do not change.
SameChain(x, y) == y.q = x.q /\ y.api = x.api /\ y.scope = x.scope

SameRoute(x, y) ==
  /\ y.q = x.q /\ y.api = x.api /\ y.scope = x.scope /\ y.dead = x.dead /\ y.steady = x.steady
  /\ y.left = x.left

SameBill(x, y) == y.ctx = x.ctx /\ y.charged = x.charged /\ y.opened = x.opened

Keeps(x, y) == DOMAIN y = Fields /\ SameRoute(x, y) /\ SameBill(x, y)

\* Neither does what it records for the cache, nor whether storage failed it.
Quiet(x, y) == y.recording = x.recording /\ y.faulted = x.faulted

-----------------------------------------------------------------------------
(* What the operators that answer a request or move it on leave alone.        *)

\* An answer changes the position, the status and the layer that gave it.
LEMMA AnswersKeep ==
  ASSUME NEW x, DOMAIN x = Fields, NEW status, NEW by
  PROVE  LET y == Answered(x, status, by)
         IN Keeps(x, y) /\ Quiet(x, y) /\ y.pc = "done" /\ y.by = by
  BY DEF Answered, Keeps, Quiet, SameRoute, SameBill, Fields

\* Moving on changes the position.
LEMMA GotoKeeps ==
  ASSUME NEW x, DOMAIN x = Fields, NEW pc
  PROVE  LET y == Goto(x, pc)
         IN Keeps(x, y) /\ Quiet(x, y) /\ y.pc = pc /\ y.by = x.by /\ y.headers = x.headers
  BY DEF Goto, Keeps, Quiet, SameRoute, SameBill, Fields

\* The response header rules set the headers of an answer.
LEMMA RespondKeeps ==
  ASSUME NEW x, DOMAIN x = Fields, NEW resp, NEW by
  PROVE  LET y == Respond(x, resp, by)
         IN Keeps(x, y) /\ Quiet(x, y) /\ y.pc = "done" /\ y.by = by
  <1> DEFINE z == Answered(x, resp.status, by)
  <1>1. Keeps(x, z) /\ Quiet(x, z) /\ z.pc = "done" /\ z.by = by
    BY AnswersKeep
  <1> HIDE DEF z
  <1>2. Respond(x, resp, by) =
          [z EXCEPT !.out = IF Def(x).transform_headers = None THEN resp.headers
             ELSE ApplyRules((CHOOSE t \in Def(x).transform_headers : TRUE).response, resp.headers)]
    BY DEF Respond, z
  <1> QED BY <1>1, <1>2 DEF Keeps, Quiet, SameRoute, SameBill, Fields

\* Every way out of the body transform is an answer of the layer below or of
\* the transform itself.
LEMMA ReturnedKeeps ==
  ASSUME NEW x, DOMAIN x = Fields, NEW resp, NEW by, NEW y \in Returned(x, resp, by)
  PROVE  Keeps(x, y) /\ Quiet(x, y) /\ y.pc = "done" /\ y.by \in {by, "transform"}
  <1>1. PICK rs, b : y = Respond(x, rs, b) /\ b \in {by, "transform"}
    BY Zenon DEF Returned
  <1> QED BY <1>1, RespondKeeps

\* A hook layer answers, or rewrites headers and moves on.
LEMMA HooksKeep ==
  ASSUME NEW x, DOMAIN x = Fields, NEW kind, NEW next
  PROVE  LET y == HookStep(x, kind, next)
         IN /\ Keeps(x, y) /\ Quiet(x, y)
            /\ \/ y.pc = "done" /\ y.by = kind
               \/ /\ y.pc = next /\ y.by = x.by
                  /\ y.headers = RunPlugins(Hooks(Def(x), kind), x.headers)
  <1>1. CASE StopsAt(Hooks(Def(x), kind)) # {}
    <2>1. PICK st, hs : HookStep(x, kind, next) = [Answered(x, st, kind) EXCEPT !.out = hs]
      BY <1>1 DEF HookStep
    <2> DEFINE z == Answered(x, st, kind)
    <2>2. Keeps(x, z) /\ Quiet(x, z) /\ z.pc = "done" /\ z.by = kind
      BY AnswersKeep
    <2> HIDE DEF z
    <2>3. HookStep(x, kind, next) = [z EXCEPT !.out = hs]
      BY <2>1 DEF z
    <2> QED BY <2>2, <2>3 DEF Keeps, Quiet, SameRoute, SameBill, Fields
  <1>2. CASE StopsAt(Hooks(Def(x), kind)) = {}
    <2> DEFINE hs == RunPlugins(Hooks(Def(x), kind), x.headers)
    <2>1. HookStep(x, kind, next) = [x EXCEPT !.headers = hs, !.pc = next]
      BY <1>2 DEF HookStep
    <2> HIDE DEF hs
    <2>2. LET y == HookStep(x, kind, next)
          IN Keeps(x, y) /\ Quiet(x, y) /\ y.pc = next /\ y.by = x.by /\ y.headers = hs
      BY <2>1 DEF Keeps, Quiet, SameRoute, SameBill, Fields
    <2> QED BY <2>2 DEF hs
  <1> QED BY <1>1, <1>2

\* The request transforms rewrite headers, or refuse the body they must read.
LEMMA TransformedKeeps ==
  ASSUME NEW x, DOMAIN x = Fields, NEW y \in Transformed(x)
  PROVE  /\ Keeps(x, y) /\ Quiet(x, y)
         /\ (y.pc = "done" /\ y.by \in {"size", "transform"}) \/ (y.pc = x.pc /\ y.by = x.by)
  <1> DEFINE h == IF Def(x).transform_headers = None THEN x.headers
                  ELSE ApplyRules((CHOOSE t \in Def(x).transform_headers : TRUE).request, x.headers)
             z == [x EXCEPT !.headers = h]
  <1>1. Keeps(x, z) /\ Quiet(x, z) /\ z.pc = x.pc /\ z.by = x.by
    BY DEF Keeps, Quiet, SameRoute, SameBill, Fields
  <1>2. \/ y = z
        \/ \E rs : \E b \in {"size", "transform"} : y = Respond(z, rs, b)
        \/ \E hs : y = [z EXCEPT !.headers = hs]
    <2>1. \/ y = z \/ y = Respond(z, JsonError(413), "size")
          \/ y \in {Respond(z, JsonError(status), "transform") : status \in {400, 500}}
          \/ \E hs : y = [z EXCEPT !.headers = hs]
      BY Zenon DEF Transformed
    <2> HIDE DEF z
    <2>2. y \in {Respond(z, JsonError(status), "transform") : status \in {400, 500}} =>
            \E rs : y = Respond(z, rs, "transform")
      OBVIOUS
    <2> QED BY <2>1, <2>2, Zenon
  <1> HIDE DEF z
  <1>3. CASE y = z
    BY <1>1, <1>3
  <1>4. CASE \E rs : \E b \in {"size", "transform"} : y = Respond(z, rs, b)
    <2>1. PICK rs, b : b \in {"size", "transform"} /\ y = Respond(z, rs, b)
      BY <1>4
    <2>2. Keeps(z, y) /\ Quiet(z, y) /\ y.pc = "done" /\ y.by = b
      BY <1>1, <2>1, RespondKeeps DEF Keeps
    <2> QED BY <1>1, <2>1, <2>2 DEF Keeps, Quiet, SameRoute, SameBill
  <1>5. CASE \E hs : y = [z EXCEPT !.headers = hs]
    BY <1>1, <1>5 DEF Keeps, Quiet, SameRoute, SameBill, Fields
  <1> QED BY <1>2, <1>3, <1>4, <1>5

-----------------------------------------------------------------------------
(* The invariant of one request.                                              *)

\* The positions at which a limit still lies ahead, and below all of them.
AboveLimits == {"gate", "auth", "session", "policy", "endpoint"}
BelowPcs == {"below", "dispatch", "cache", "forward", "upstream"}

\* The limits a request has passed at its position, or when it was answered.
Due(x) ==
  CASE x.pc = "done" -> Before(x.by)
    [] x.pc \in BelowPcs -> LimitNames
    [] x.pc = "quota" -> {"endpoint", "rate"}
    [] x.pc \in {"guard", "rate"} -> {"endpoint"}
    [] OTHER -> {}

\* At each position exactly the limits passed so far, of those that apply, have
\* been charged once or have failed open.
Metered(x) ==
  /\ x.charged \in [LimitNames -> Nat]
  /\ x.pc # "gone" =>
       \A l \in LimitNames : Passes(x, l) = IF l \in Due(x) /\ l \in Applicable(x) THEN 1 ELSE 0

\* A credential that was dead at every instant of the request is dead now, and
\* has taken it no further than the session lookup.
Barred(x) ==
  x.dead => Dead(x, sessions, now) /\ ~Passed(x) /\ x.pc # "policy"

\* A request waits for a session only with a credential that names one.
Asks(x) ==
  x.pc = "session" =>
    /\ ~NoneNeeded(Def(x), Q(x))
    /\ Def(x).auth.mode \notin TokenModes
    /\ Presented(Def(x).auth, Seen(x)) # {}

\* The headers auth reads are what the pre hooks made of the client's.
Hooked(x) ==
  /\ x.pc = "gate" => x.headers = Q(x).headers
  /\ x.pc \in {"auth", "session"} => x.headers = RunPlugins(Hooks(Def(x), "pre"), Q(x).headers)

\* Only a request without a route is answered as one.
Routed(x) ==
  /\ x.api # "none" => \E d \in world.defs : d.api_id = x.api
  /\ x.by = "route" => x.api = "none"

Good(x) ==
  /\ DOMAIN x = Fields /\ x.pc \in Pcs \ {"idle"}
  /\ Metered(x) /\ Barred(x) /\ Asks(x) /\ Hooked(x) /\ Routed(x)

Requested ==
  /\ DOMAIN req = Requests /\ req = [r \in Requests |-> req[r]]
  /\ \A r \in Requests : req[r].pc = "idle" \/ Good(req[r])

\* What a request's chain looks up depends on its route alone, and which limits
\* apply to it on its route and its session.
LEMMA RouteFixes ==
  ASSUME NEW x, NEW y, SameChain(x, y)
  PROVE  /\ Api(y) = Api(x) /\ Def(y) = Def(x) /\ Q(y) = Q(x)
         /\ Dead(y, sessions, now) = Dead(x, sessions, now)
         /\ y.ctx = x.ctx => Applicable(y) = Applicable(x) /\ Allowance(y) = Allowance(x)
  <1>1. Api(y) = Api(x) /\ Q(y) = Q(x)
    BY DEF SameChain, Api, Q
  <1>2. Def(y) = Def(x)
    BY <1>1 DEF SameChain, Def
  <1>3. Dead(y, sessions, now) = Dead(x, sessions, now)
    BY <1>1, <1>2, Zenon DEF Dead, SameChain
  <1>4. y.ctx = x.ctx => Allowance(y) = Allowance(x)
    BY DEF Allowance
  <1>5. y.ctx = x.ctx => Applicable(y) = Applicable(x)
    BY <1>1, <1>2, <1>4 DEF Applicable
  <1> QED BY <1>1, <1>2, <1>3, <1>4, <1>5

\* The same of a step that keeps the route.
LEMMA RouteDecides ==
  ASSUME NEW x, NEW y, SameRoute(x, y)
  PROVE  /\ Api(y) = Api(x) /\ Def(y) = Def(x) /\ Q(y) = Q(x)
         /\ Dead(y, sessions, now) = Dead(x, sessions, now)
         /\ y.ctx = x.ctx => Applicable(y) = Applicable(x) /\ Allowance(y) = Allowance(x)
  <1>1. SameChain(x, y)
    BY DEF SameRoute, SameChain
  <1> QED BY <1>1, RouteFixes

\* Auth sees the request the pre hooks left.
LEMMA SeenIs ==
  ASSUME NEW x, Hooked(x), x.pc \in {"auth", "session"}
  PROVE  Seen(x) = AtAuth(Def(x), Q(x))
  BY DEF Hooked, Seen, AtAuth

\* The limits due, by position and by who answered.
LEMMA DueIs ==
  ASSUME NEW x
  PROVE  /\ x.pc \in AboveLimits => Due(x) = {}
         /\ x.pc \in {"guard", "rate"} => Due(x) = {"endpoint"}
         /\ x.pc = "quota" => Due(x) = {"endpoint", "rate"}
         /\ x.pc \in BelowPcs => Due(x) = LimitNames
         /\ (x.pc = "done" /\ x.by \in BelowLimits) => Due(x) = LimitNames
         /\ (x.pc = "done" /\ x.by \in {"auth", "path", "declared", "pre", "version", "ip", "preflight",
                                        "route", "endpoint"}) => Due(x) = {}
         /\ (x.pc = "done" /\ x.by \in {"guard", "rate"}) => Due(x) = {"endpoint"}
         /\ (x.pc = "done" /\ x.by = "quota") => Due(x) = {"endpoint", "rate"}
  BY DEF Due, Before, AboveLimits, BelowPcs, BelowLimits, LimitNames

\* A bill that does not change pays for the same limits, and one that pays for
\* none does so under any session.
LEMMA SameDue ==
  ASSUME NEW x, Metered(x), x.pc # "gone", NEW y, y.charged = x.charged, y.opened = x.opened,
         Due(y) = Due(x), Applicable(y) = Applicable(x) \/ Due(x) = {}
  PROVE  Metered(y)
  BY DEF Metered, Passes

\* The three limits, and when each applies.
LEMMA ApplicableIs ==
  ASSUME NEW x
  PROVE  /\ Applicable(x) \subseteq LimitNames
         /\ "endpoint" \in Applicable(x) <=> FirstMatch(Def(x).limits, Q(x)) # {}
         /\ "rate" \in Applicable(x) <=> Allowance(x).rate # None
         /\ "quota" \in Applicable(x) <=> Allowance(x).quota # None
  BY DEF Applicable, Allowance, LimitNames

\* A step that keeps route and bill, and that stays among the positions where
\* the same bill is due, leaves a good request.
LEMMA StaysGood ==
  ASSUME NEW x, Good(x), NEW y, Keeps(x, y), y.pc \in Pcs \ {"idle", "gate", "auth", "session"},
         Metered(y),
         x.dead => ~Passed(y) /\ y.pc # "policy",
         y.by = "route" => x.by = "route"
  PROVE  Good(y)
  <1>1. SameRoute(x, y)
    BY DEF Keeps
  <1>2. Barred(y)
    BY <1>1, RouteDecides DEF Barred, Good, SameRoute
  <1>3. Routed(y)
    BY <1>1 DEF Routed, Good, SameRoute
  <1> QED BY <1>2, <1>3 DEF Good, Keeps, Asks, Hooked

\* A refusal above the limits, by any layer but the router.
LEMMA RefusalGood ==
  ASSUME NEW x, Good(x), x.pc \in AboveLimits, NEW y, Keeps(x, y), y.pc = "done",
         y.by \in {"auth", "path", "declared", "pre"}
  PROVE  Good(y)
  <1>1. Metered(y)
    BY DueIs, SameDue DEF Good, Keeps, SameBill, AboveLimits
  <1>2. ~Passed(y)
    BY DEF Passed, Pcs, BelowLimits, LimitNames
  <1> QED BY <1>1, <1>2, StaysGood DEF Pcs

\* An answer from below the limits.
LEMMA AnswerGood ==
  ASSUME NEW x, Good(x), x.pc \in BelowPcs, NEW y, Keeps(x, y),
         \/ y.pc = "done" /\ y.by \in BelowLimits
         \/ y.pc \in BelowPcs /\ y.by = x.by
  PROVE  Good(y)
  <1>1. Applicable(y) = Applicable(x)
    BY RouteDecides DEF Keeps, SameBill
  <1>2. Metered(y)
    <2>1. Due(x) = LimitNames /\ Due(y) = LimitNames /\ x.pc # "gone"
      BY DueIs DEF BelowPcs
    <2> QED BY <1>1, <2>1, SameDue DEF Good, Keeps, SameBill
  <1>3. ~x.dead
    BY DEF Good, Barred, Passed, BelowPcs, Pcs
  <1> QED BY <1>2, <1>3, StaysGood DEF Pcs, BelowPcs, BelowLimits

-----------------------------------------------------------------------------
(* Each action on a request leaves a good one.                                *)

\* The positions past authentication.
Reached == {"endpoint", "guard", "rate", "quota"} \cup BelowPcs

\* A step past authentication goes on, or ends in an answer of another layer.
Onward(x, y) ==
  /\ SameRoute(x, y) /\ y.faulted = x.faulted /\ x.pc \in Reached
  /\ y.pc \in Reached \/ (y.pc = "done" /\ y.by \notin {"auth", "preflight"})

\* A step that neither records a response nor answers from the cache, nor
\* forgets that storage has failed the request; that happens only in auth.
Unrecorded(x, y) ==
  /\ SameRoute(x, y) /\ y.recording = x.recording /\ (x.faulted => y.faulted)
  /\ y.faulted => x.faulted \/ (y.pc = "done" /\ y.by = "auth")
  /\ x.pc \notin {"idle", "done", "gone"} /\ ~(y.pc = "done" /\ y.by \in {"hit", "preflight"})

\* A routed request starts with nothing on its bill; whether its credential is
\* dead is judged for the chain it was given.
LEMMA OuterGood ==
  ASSUME NEW x, DOMAIN x = Fields, x.pc = "new", x.by = "none", x.headers = Q(x).headers,
         x.charged = [l \in LimitNames |-> 0], x.opened = {},
         \E d \in world.defs : d.api_id = x.api
  PROVE  LET y == OuterStep(x) IN Good([y EXCEPT !.dead = Dead(y, sessions, now)])
  <1> DEFINE y == OuterStep(x)
             z == [y EXCEPT !.dead = Dead(y, sessions, now)]
  <1>1. /\ DOMAIN y = Fields
        /\ y.api = x.api /\ y.q = x.q /\ y.charged = x.charged /\ y.opened = {}
        /\ \/ y.pc = "gate" /\ y.by = "none" /\ y.headers = x.headers
           \/ y.pc = "done" /\ y.by \in {"ip", "preflight", "version"}
    <2>1. \/ \E st : \E by \in {"ip", "version"} : y = Answered(x, st, by)
          \/ \E hs : y = [Answered(x, 204, "preflight") EXCEPT !.out = hs]
          \/ \E sc : y = [x EXCEPT !.scope = sc, !.pc = "gate"]
      <3>1. \/ VersionStep(x) = Answered(x, 403, "version")
            \/ \E sc : VersionStep(x) = [x EXCEPT !.scope = sc, !.pc = "gate"]
        BY Zenon DEF VersionStep
      <3>2. \/ y = Answered(x, 403, "ip") \/ y = VersionStep(x)
            \/ \E hs : y = [Answered(x, 204, "preflight") EXCEPT !.out = hs]
        BY Zenon DEF OuterStep
      <3> HIDE DEF y
      <3>3. CASE y = Answered(x, 403, "ip")
        BY <3>3, Zenon
      <3>4. CASE y = VersionStep(x)
        <4>1. CASE y = Answered(x, 403, "version")
          BY <4>1, Zenon
        <4>2. CASE \E sc : y = [x EXCEPT !.scope = sc, !.pc = "gate"]
          BY <4>2, Zenon
        <4>3. \/ y = Answered(x, 403, "version")
              \/ \E sc : y = [x EXCEPT !.scope = sc, !.pc = "gate"]
          BY <3>1, <3>4, Zenon
        <4> QED BY <4>1, <4>2, <4>3, Zenon
      <3>5. CASE \E hs : y = [Answered(x, 204, "preflight") EXCEPT !.out = hs]
        BY <3>5, Zenon
      <3> QED BY <3>2, <3>3, <3>4, <3>5, Zenon
    <2> HIDE DEF y
    <2>2. CASE \E st : \E by \in {"ip", "version"} : y = Answered(x, st, by)
      BY <2>2, AnswersKeep DEF Keeps, SameRoute, SameBill
    <2>3. CASE \E sc : y = [x EXCEPT !.scope = sc, !.pc = "gate"]
      BY <2>3 DEF Fields
    <2>4. CASE \E hs : y = [Answered(x, 204, "preflight") EXCEPT !.out = hs]
      <3> DEFINE u == Answered(x, 204, "preflight")
      <3>1. Keeps(x, u) /\ u.pc = "done" /\ u.by = "preflight"
        BY AnswersKeep
      <3> HIDE DEF u
      <3>2. PICK hs : y = [u EXCEPT !.out = hs]
        BY <2>4 DEF u
      <3> QED BY <3>1, <3>2 DEF Keeps, SameRoute, SameBill, Fields
    <2> QED BY <2>1, <2>2, <2>3, <2>4
  <1> HIDE DEF y
  <1>2. /\ DOMAIN z = Fields /\ z.api = y.api /\ z.q = y.q /\ z.scope = y.scope /\ z.headers = y.headers
        /\ z.charged = x.charged /\ z.opened = {} /\ z.pc = y.pc /\ z.by = y.by
        /\ z.dead = Dead(y, sessions, now)
    BY <1>1 DEF Fields
  <1> HIDE DEF z
  <1>3. Dead(z, sessions, now) = Dead(y, sessions, now)
    BY <1>2, RouteFixes DEF SameChain
  <1>4. Metered(z)
    <2>1. Due(z) = {}
      BY <1>1, <1>2, DueIs DEF AboveLimits
    <2> QED BY <1>2, <2>1 DEF Metered, Passes
  <1>5. Barred(z)
    BY <1>1, <1>2, <1>3 DEF Barred, Passed, BelowLimits, LimitNames
  <1>6. Routed(z) /\ Asks(z)
    BY <1>1, <1>2 DEF Routed, Asks
  <1>8. Hooked(z)
    BY <1>1, <1>2 DEF Hooked, Q
  <1>7. Good(z)
    BY <1>1, <1>2, <1>4, <1>5, <1>6, <1>8 DEF Good, Pcs
  <1> QED BY <1>7 DEF z, y

\* `Gateway::handle`: the health endpoints and unknown paths are answered at
\* once, the rest enters its chain.
LEMMA ArriveGood ==
  ASSUME Requested, NEW r \in Requests, Arrive(r)
  PROVE  \E y : Good(y) /\ Move(r, y)
  <1>1. PICK q \in DOMAIN world.inputs :
          LET hits == MatchPath(world.defs, world.inputs[q].path)
              x == IF world.inputs[q].path \in HealthPaths THEN Answered(Fresh(q), 200, "route")
                   ELSE IF hits = {} THEN Answered(Fresh(q), 404, "route")
                   ELSE OuterStep([Fresh(q) EXCEPT !.api = (CHOOSE d \in hits : TRUE).api_id])
          IN Move(r, [x EXCEPT !.dead = Dead(x, sessions, now)])
    BY DEF Arrive
  <1> DEFINE hits == MatchPath(world.defs, world.inputs[q].path)
             id == (CHOOSE d \in hits : TRUE).api_id
             f == Fresh(q)
  <1>2. /\ DOMAIN f = Fields /\ f.pc = "new" /\ f.by = "none" /\ f.api = "none" /\ f.q = q
        /\ f.headers = world.inputs[q].headers /\ f.charged = [l \in LimitNames |-> 0] /\ f.opened = {}
    BY DEF Fresh, Fields
  <1>3. CASE world.inputs[q].path \in HealthPaths \/ hits = {}
    <2>1. PICK st : Move(r, [Answered(f, st, "route") EXCEPT
                               !.dead = Dead(Answered(f, st, "route"), sessions, now)])
      BY <1>1, <1>3
    <2> DEFINE y == Answered(f, st, "route")
               z == [y EXCEPT !.dead = Dead(y, sessions, now)]
    <2> HIDE DEF f
    <2>2. Keeps(f, y) /\ y.pc = "done" /\ y.by = "route"
      BY <1>2, AnswersKeep
    <2> HIDE DEF y
    <2>3. ~Dead(y, sessions, now)
      BY <1>2, <2>2 DEF Dead, Keeps, SameRoute
    <2>4. /\ DOMAIN z = Fields /\ z.api = "none" /\ z.charged = [l \in LimitNames |-> 0] /\ z.opened = {}
          /\ z.pc = "done" /\ z.by = "route" /\ ~z.dead
      BY <1>2, <2>2, <2>3 DEF Keeps, SameRoute, SameBill, Fields
    <2> HIDE DEF z
    <2>6. Metered(z)
      <3>1. Due(z) = {}
        BY <2>4, DueIs
      <3> QED BY <2>4, <3>1 DEF Metered, Passes
    <2>5. Good(z)
      BY <2>4, <2>6 DEF Good, Barred, Asks, Hooked, Routed, Pcs
    <2> QED BY <2>1, <2>5 DEF y, z
  <1>4. CASE world.inputs[q].path \notin HealthPaths /\ hits # {}
    <2> DEFINE x == [f EXCEPT !.api = id]
    <2>1. Move(r, [OuterStep(x) EXCEPT !.dead = Dead(OuterStep(x), sessions, now)])
      BY <1>1, <1>4
    <2>2. \E d \in world.defs : d.api_id = id
      BY <1>4 DEF MatchPath
    <2> HIDE DEF f, id
    <2>3. /\ DOMAIN x = Fields /\ x.pc = "new" /\ x.by = "none" /\ x.api = id /\ x.headers = Q(x).headers
          /\ x.charged = [l \in LimitNames |-> 0] /\ x.opened = {}
      BY <1>2 DEF Fields, Q
    <2> HIDE DEF x
    <2> QED BY <2>1, <2>2, <2>3, OuterGood
  <1> QED BY <1>3, <1>4

\* Path policy, size limit and pre hooks charge nothing and admit no one.
LEMMA GateGood ==
  ASSUME Requested, NEW r \in Requests, Gate(r)
  PROVE  \E y : Good(y) /\ Move(r, y) /\ Unrecorded(req[r], y)
  <1> DEFINE x == req[r]
  <1>1. Good(x) /\ x.pc = "gate"
    BY DEF Requested, Gate
  <1>2. PICK y : /\ Move(r, y)
                 /\ \/ \E st : \E by \in {"path", "declared"} : y = Answered(x, st, by)
                    \/ y = HookStep(x, "pre", "auth")
    BY DEF Gate
  <1> HIDE DEF x
  <1>3. Keeps(x, y) /\ Quiet(x, y) /\ \/ y.pc = "done" /\ y.by \in {"path", "declared", "pre"}
                                      \/ /\ y.pc = "auth" /\ y.by = x.by
                                         /\ y.headers = RunPlugins(Hooks(Def(x), "pre"), x.headers)
    BY <1>1, <1>2, AnswersKeep, HooksKeep DEF Good
  <1>6. Unrecorded(req[r], y)
    BY <1>1, <1>3 DEF Keeps, Quiet, Unrecorded, x
  <1>4. CASE y.pc = "done"
    BY <1>1, <1>2, <1>3, <1>4, <1>6, RefusalGood DEF AboveLimits
  <1>5. CASE y.pc = "auth"
    <2>1. Metered(y)
      BY <1>1, <1>3, <1>5, DueIs, SameDue DEF Good, Keeps, SameBill, AboveLimits
    <2>2. Api(y) = Api(x) /\ Def(y) = Def(x) /\ Q(y) = Q(x) /\ Dead(y, sessions, now) = Dead(x, sessions, now)
      BY <1>3, RouteDecides DEF Keeps
    <2>3. Barred(y)
      BY <1>1, <1>3, <1>5, <2>2 DEF Barred, Passed, Good, Keeps, SameRoute
    <2>4. Hooked(y)
      BY <1>1, <1>3, <1>5, <2>2 DEF Hooked, Good
    <2>5. Asks(y) /\ Routed(y)
      BY <1>1, <1>3, <1>5 DEF Asks, Routed, Good, Keeps, SameRoute
    <2>6. Good(y)
      BY <1>3, <1>5, <2>1, <2>3, <2>4, <2>5 DEF Good, Keeps, Pcs
    <2> QED BY <1>2, <1>6, <2>6
  <1> QED BY <1>3, <1>4, <1>5

\* Post hooks and request transforms come after every limit.
LEMMA BelowGood ==
  ASSUME Requested, NEW r \in Requests, Below(r)
  PROVE  \E y : Good(y) /\ Move(r, y) /\ Onward(req[r], y) /\ Unrecorded(req[r], y)
  <1> DEFINE x == req[r]
             hooked == HookStep(x, "post", "dispatch")
  <1>1. Good(x) /\ x.pc = "below"
    BY DEF Requested, Below
  <1>2. PICK y : /\ Move(r, y)
                 /\ (y = hooked /\ hooked.pc = "done") \/ (hooked.pc # "done" /\ y \in Transformed(hooked))
    BY DEF Below
  <1> HIDE DEF x
  <1>3. /\ Keeps(x, hooked) /\ Quiet(x, hooked)
        /\ (hooked.pc = "done" /\ hooked.by = "post") \/ (hooked.pc = "dispatch" /\ hooked.by = x.by)
    BY <1>1, HooksKeep DEF Good
  <1> HIDE DEF hooked
  <1>4. CASE y = hooked /\ hooked.pc = "done"
    <2>1. Onward(req[r], y) /\ Unrecorded(req[r], y)
      BY <1>1, <1>3, <1>4 DEF Keeps, Quiet, Onward, Unrecorded, Reached, BelowPcs, x
    <2> QED BY <1>1, <1>2, <1>3, <1>4, <2>1, AnswerGood DEF BelowPcs, BelowLimits
  <1>5. CASE hooked.pc # "done" /\ y \in Transformed(hooked)
    <2>1. /\ Keeps(hooked, y) /\ Quiet(hooked, y)
          /\ (y.pc = "done" /\ y.by \in {"size", "transform"})
               \/ (y.pc = hooked.pc /\ y.by = hooked.by)
      BY <1>3, <1>5, TransformedKeeps DEF Keeps
    <2>2. Keeps(x, y) /\ Quiet(x, y)
      BY <1>3, <2>1 DEF Keeps, Quiet, SameRoute, SameBill
    <2>3. Good(y)
      BY <1>1, <1>3, <1>5, <2>1, <2>2, AnswerGood DEF BelowPcs, BelowLimits
    <2>4. Onward(req[r], y) /\ Unrecorded(req[r], y)
      BY <1>1, <1>3, <1>5, <2>1, <2>2 DEF Keeps, Quiet, Onward, Unrecorded, Reached, BelowPcs, x
    <2> QED BY <1>2, <2>3, <2>4
  <1> QED BY <1>2, <1>4, <1>5

\* A mock, or the way to the cache or the upstream.
LEMMA DispatchGood ==
  ASSUME Requested, NEW r \in Requests, Dispatch(r)
  PROVE  \E y : Good(y) /\ Move(r, y) /\ Onward(req[r], y) /\ Unrecorded(req[r], y)
  <1> DEFINE x == req[r]
  <1>1. Good(x) /\ x.pc = "dispatch"
    BY DEF Requested, Dispatch
  <1>2. PICK y : /\ Move(r, y)
                 /\ \/ \E resp : y \in Returned(x, resp, "mock")
                    \/ \E pc \in {"cache", "forward"} : y = Goto(x, pc)
    BY Zenon DEF Dispatch
  <1> HIDE DEF x
  <1>3. Keeps(x, y) /\ Quiet(x, y) /\ \/ y.pc = "done" /\ y.by \in {"mock", "transform"}
                                      \/ y.pc \in {"cache", "forward"} /\ y.by = x.by
    BY <1>1, <1>2, ReturnedKeeps, GotoKeeps DEF Good
  <1>4. Onward(req[r], y) /\ Unrecorded(req[r], y)
    BY <1>1, <1>3 DEF Keeps, Quiet, Onward, Unrecorded, Reached, BelowPcs, x
  <1> QED BY <1>1, <1>2, <1>3, <1>4, AnswerGood DEF BelowPcs, BelowLimits

\* A hit answers; everything else goes on to the upstream.
LEMMA CacheGetGood ==
  ASSUME Requested, NEW r \in Requests, CacheGet(r)
  PROVE  \E y : Good(y) /\ Move(r, y) /\ Onward(req[r], y)
  <1> DEFINE x == req[r]
  <1>1. Good(x) /\ x.pc = "cache"
    BY DEF Requested, CacheGet
  <1>2. PICK y : /\ Move(r, y)
                 /\ \/ \E src, resp : y \in Returned([x EXCEPT !.src = src], resp, "hit")
                    \/ y = Goto(x, "forward")
    BY Zenon DEF CacheGet
  <1> HIDE DEF x
  <1>3. CASE y = Goto(x, "forward")
    <2>1. Keeps(x, y) /\ Quiet(x, y) /\ y.pc = "forward" /\ y.by = x.by
      BY <1>1, <1>3, GotoKeeps DEF Good
    <2>2. Onward(req[r], y)
      BY <1>1, <2>1 DEF Keeps, Quiet, Onward, Reached, BelowPcs, x
    <2> QED BY <1>1, <1>2, <2>1, <2>2, AnswerGood DEF BelowPcs
  <1>4. CASE \E src, resp : y \in Returned([x EXCEPT !.src = src], resp, "hit")
    <2>1. PICK src, resp : y \in Returned([x EXCEPT !.src = src], resp, "hit")
      BY <1>4
    <2> DEFINE z == [x EXCEPT !.src = src]
    <2>2. Keeps(x, z) /\ Quiet(x, z)
      BY <1>1 DEF Good, Keeps, Quiet, SameRoute, SameBill, Fields
    <2> HIDE DEF z
    <2>3. Keeps(z, y) /\ Quiet(z, y) /\ y.pc = "done" /\ y.by \in {"hit", "transform"}
      BY <2>1, <2>2, ReturnedKeeps DEF Keeps, z
    <2>4. Keeps(x, y) /\ Quiet(x, y)
      BY <2>2, <2>3 DEF Keeps, Quiet, SameRoute, SameBill
    <2>5. Onward(req[r], y)
      BY <1>1, <2>3, <2>4 DEF Keeps, Quiet, Onward, Reached, BelowPcs, x
    <2> QED BY <1>1, <1>2, <2>3, <2>4, <2>5, AnswerGood DEF BelowPcs, BelowLimits
  <1> QED BY <1>2, <1>3, <1>4

\* The request leaves for the upstream, or an open circuit answers it.
LEMMA SendGood ==
  ASSUME Requested, NEW r \in Requests, Send(r)
  PROVE  \E y : Good(y) /\ Move(r, y) /\ Onward(req[r], y) /\ Unrecorded(req[r], y)
  <1> DEFINE x == req[r]
  <1>1. Good(x) /\ x.pc = "forward"
    BY DEF Requested, Send
  <1>2. PICK y : /\ Move(r, y)
                 /\ \/ \E hs, src : y = [x EXCEPT !.pc = "upstream", !.sent = hs, !.src = src]
                    \/ \E resp : y \in Returned(x, resp, "error")
    BY Zenon DEF Send
  <1> HIDE DEF x
  <1>3. CASE \E resp : y \in Returned(x, resp, "error")
    <2>1. Keeps(x, y) /\ Quiet(x, y) /\ y.pc = "done" /\ y.by \in {"error", "transform"}
      BY <1>1, <1>3, ReturnedKeeps DEF Good
    <2>2. Onward(req[r], y) /\ Unrecorded(req[r], y)
      BY <1>1, <2>1 DEF Keeps, Quiet, Onward, Unrecorded, Reached, BelowPcs, x
    <2> QED BY <1>1, <1>2, <2>1, <2>2, AnswerGood DEF BelowPcs, BelowLimits
  <1>4. CASE \E hs, src : y = [x EXCEPT !.pc = "upstream", !.sent = hs, !.src = src]
    <2>1. Keeps(x, y) /\ Quiet(x, y) /\ y.pc = "upstream" /\ y.by = x.by
      BY <1>1, <1>4 DEF Good, Keeps, Quiet, SameRoute, SameBill, Fields
    <2>2. Onward(req[r], y) /\ Unrecorded(req[r], y)
      BY <1>1, <2>1 DEF Keeps, Quiet, Onward, Unrecorded, Reached, BelowPcs, x
    <2> QED BY <1>1, <1>2, <2>1, <2>2, AnswerGood DEF BelowPcs
  <1> QED BY <1>2, <1>3, <1>4

\* The upstream's answer, or an error in its place.
LEMMA ReceiveGood ==
  ASSUME Requested, NEW r \in Requests, Receive(r)
  PROVE  \E y : Good(y) /\ Move(r, y) /\ Onward(req[r], y)
  <1> DEFINE x == req[r]
  <1>1. Good(x) /\ x.pc = "upstream"
    BY DEF Requested, Receive
  <1>2. PICK y, z : /\ Move(r, z)
                    /\ \E resp : \E by \in {"upstream", "error"} : y \in Returned(x, resp, by)
                    /\ z = y \/ \E rec : z = [y EXCEPT !.recording = rec]
    <2>1. \/ \E resp, rec : \E u \in Returned(x, resp, "upstream") :
                Move(r, [u EXCEPT !.recording = rec])
          \/ \E resp : \E u \in Returned(x, resp, "error") : Move(r, u)
      BY ZenonT(60) DEF Receive
    <2>2. CASE \E resp, rec : \E u \in Returned(x, resp, "upstream") :
                 Move(r, [u EXCEPT !.recording = rec])
      <3>1. PICK resp, rec, u : u \in Returned(x, resp, "upstream") /\ Move(r, [u EXCEPT !.recording = rec])
        BY <2>2
      <3> QED BY <3>1, Zenon
    <2>3. CASE \E resp : \E u \in Returned(x, resp, "error") : Move(r, u)
      BY <2>3, Zenon
    <2> QED BY <2>1, <2>2, <2>3
  <1> HIDE DEF x
  <1>3. Keeps(x, y) /\ Quiet(x, y) /\ y.pc = "done" /\ y.by \in {"upstream", "error", "transform"}
    BY <1>1, <1>2, ReturnedKeeps DEF Good
  <1>4. Keeps(x, z) /\ z.faulted = x.faulted /\ z.pc = "done" /\ z.by \in {"upstream", "error", "transform"}
    BY <1>2, <1>3 DEF Keeps, Quiet, SameRoute, SameBill, Fields
  <1>5. Onward(req[r], z)
    BY <1>1, <1>4 DEF Keeps, Onward, Reached, BelowPcs, x
  <1> QED BY <1>1, <1>2, <1>4, <1>5, AnswerGood DEF BelowPcs, BelowLimits

\* The end of a streamed body changes nothing a client or a limit can see.
LEMMA StreamGood ==
  ASSUME Requested, NEW r \in Requests, StreamEnd(r) \/ StreamCut(r)
  PROVE  \E y : Good(y) /\ Move(r, y)
  <1> DEFINE x == req[r]
             y == [x EXCEPT !.recording = None]
  <1>1. Good(x) /\ x.pc = "done" /\ Move(r, y)
    BY DEF Requested, StreamEnd, StreamCut
  <1> HIDE DEF x
  <1>2. Keeps(x, y) /\ y.pc = x.pc /\ y.by = x.by
    BY <1>1 DEF Good, Keeps, SameRoute, SameBill, Fields
  <1> HIDE DEF y
  <1>3. Applicable(y) = Applicable(x)
    BY <1>2, RouteDecides DEF Keeps, SameBill
  <1>4. Metered(y)
    <2>1. Due(y) = Due(x)
      BY <1>2 DEF Due
    <2> QED BY <1>1, <1>2, <1>3, <2>1, SameDue DEF Good, Keeps, SameBill
  <1>5. x.dead => ~Passed(y)
    BY <1>1, <1>2 DEF Good, Barred, Passed
  <1>6. Good(y)
    BY <1>1, <1>2, <1>4, <1>5, StaysGood DEF Pcs
  <1> QED BY <1>1, <1>6

\* The CORS layer lays headers over the answer that leaves, and nothing else.
LEMMA LeaveGood ==
  ASSUME Requested, NEW r \in Requests, Leave(r)
  PROVE  \E y : Good(y) /\ Move(r, y)
  <1> DEFINE x == req[r]
  <1>1. PICK hs : Good(x) /\ x.pc = "done" /\ Move(r, [x EXCEPT !.left = hs])
    BY DEF Requested, Leave, Leaving
  <1> DEFINE y == [x EXCEPT !.left = hs]
  <1> HIDE DEF x
  <1>2. /\ DOMAIN y = Fields /\ SameChain(x, y) /\ SameBill(x, y) /\ y.pc = "done" /\ y.by = x.by
        /\ y.dead = x.dead
    BY <1>1 DEF Good, SameChain, SameBill, Fields
  <1> HIDE DEF y
  <1>3. /\ Applicable(y) = Applicable(x) /\ Dead(y, sessions, now) = Dead(x, sessions, now)
    BY <1>2, RouteFixes DEF SameBill
  <1>4. Metered(y)
    <2>1. Due(y) = Due(x)
      BY <1>1, <1>2 DEF Due
    <2> QED BY <1>1, <1>2, <1>3, <2>1, SameDue DEF Good, SameBill
  <1>5. Barred(y)
    BY <1>1, <1>2, <1>3 DEF Good, Barred, Passed
  <1>6. Asks(y) /\ Hooked(y) /\ Routed(y)
    BY <1>1, <1>2 DEF Good, Asks, Hooked, Routed, SameChain
  <1>7. Good(y)
    BY <1>2, <1>4, <1>5, <1>6 DEF Good, Pcs
  <1> QED BY <1>1, <1>7 DEF y

\* A cancelled request has passed nothing any more.
LEMMA DisconnectGood ==
  ASSUME Requested, NEW r \in Requests, Disconnect(r)
  PROVE  \E y : Good(y) /\ Move(r, y) /\ Unrecorded(req[r], y)
  <1> DEFINE x == req[r]
             y == Goto(x, "gone")
  <1>1. Good(x) /\ Move(r, y) /\ x.pc \notin {"idle", "done", "gone"}
    BY DEF Requested, Disconnect
  <1> HIDE DEF x
  <1>2. Keeps(x, y) /\ Quiet(x, y) /\ y.pc = "gone" /\ y.by = x.by
    BY <1>1, GotoKeeps DEF Good
  <1> HIDE DEF y
  <1>3. Metered(y)
    BY <1>1, <1>2 DEF Metered, Good, Keeps, SameBill
  <1>4. Good(y)
    BY <1>1, <1>2, <1>3, StaysGood DEF Pcs, Passed
  <1>5. Unrecorded(req[r], y)
    BY <1>1, <1>2 DEF Keeps, Quiet, Unrecorded, x
  <1> QED BY <1>1, <1>4, <1>5

-----------------------------------------------------------------------------
(* Authentication: whoever gets past it has a credential that is not dead.    *)

\* A request that stops being about to authenticate keeps its route and has
\* nothing on its bill, whatever session it is given.
Admits(x, y) ==
  /\ DOMAIN y = Fields /\ SameRoute(x, y) /\ Quiet(x, y) /\ y.by = x.by
  /\ y.charged = x.charged /\ y.opened = x.opened

\* A request admitted, or sent on to its policy, is good if its credential is
\* not dead.
LEMMA AdmittedGood ==
  ASSUME NEW x, Good(x), x.pc \in AboveLimits, ~x.dead,
         NEW y, Admits(x, y), y.pc \in {"policy", "endpoint"}
  PROVE  Good(y)
  <1>1. Metered(y)
    BY DueIs, SameDue DEF Good, Admits, AboveLimits
  <1>2. Barred(y)
    BY DEF Barred, Admits, SameRoute
  <1>3. Routed(y) /\ Asks(y) /\ Hooked(y)
    BY DEF Routed, Asks, Hooked, Good, Admits, SameRoute
  <1> QED BY <1>1, <1>2, <1>3 DEF Good, Admits, Pcs

\* A verified token is a live credential: it goes on only if it is not dead.
LEMMA TokenAdmits ==
  ASSUME NEW x, DOMAIN x = Fields, ~NoneNeeded(Def(x), Q(x)), Def(x).auth.mode \in TokenModes,
         Seen(x) = AtAuth(Def(x), Q(x))
  PROVE  LET y == TokenStep(x)
         IN \/ Keeps(x, y) /\ Quiet(x, y) /\ y.pc = "done" /\ y.by = "auth"
            \/ Admits(x, y) /\ y.pc \in {"policy", "endpoint"} /\ ~Dead(x, sessions, now)
  <1> DEFINE a == Def(x).auth
             tokens == {t \in ExtractToken(a, Seen(x)) : ClaimsVerified(a, t, world.key, now) /\ t.sub # None}
             ids == UNION {MappedPolicy(a, t) : t \in tokens}
             y == TokenStep(x)
  <1>1. CASE tokens = {} \/ (NeedsMapping(a) /\ ids = {})
    <2>1. y = Answered(x, 403, "auth")
      BY <1>1 DEF TokenStep
    <2> QED BY <2>1, AnswersKeep
  <1>2. CASE ~(tokens = {} \/ (NeedsMapping(a) /\ ids = {}))
    <2>1. PICK c : \/ y = Goto([x EXCEPT !.ctx = c], "endpoint")
                   \/ y = [[x EXCEPT !.ctx = c] EXCEPT !.pc = "policy",
                             !.ctx = {[d EXCEPT !.session.apply_policies = SetToSeq(ids)] : d \in c}]
      BY <1>2 DEF TokenStep
    <2>2. Admits(x, y) /\ y.pc \in {"policy", "endpoint"}
      <3> HIDE DEF y, ids
      <3> QED BY <2>1 DEF Goto, Admits, Quiet, SameRoute, Fields
    <2>3. Credentials(Def(x), Q(x), sessions, now) = UNION {Claimed(Def(x), t) : t \in tokens}
      BY DEF Credentials
    <2>4. \E t \in tokens : Claimed(Def(x), t) # {}
      <3>1. CASE NeedsMapping(a)
        <4>1. PICK t \in tokens : MappedPolicy(a, t) # {}
          BY <1>2, <3>1
        <4> QED BY <3>1, <4>1 DEF Claimed
      <3>2. CASE ~NeedsMapping(a)
        BY <1>2, <3>2 DEF Claimed
      <3> QED BY <3>1, <3>2
    <2>5. Credentials(Def(x), Q(x), sessions, now) # {}
      BY <2>3, <2>4
    <2>6. ~Dead(x, sessions, now)
      BY <2>5 DEF Dead
    <2> QED BY <2>2, <2>6
  <1> QED BY <1>1, <1>2

\* `Auth::call` up to its first await.
LEMMA AuthenticateGood ==
  ASSUME Requested, NEW r \in Requests, Authenticate(r)
  PROVE  \E y : Good(y) /\ Move(r, y) /\ Unrecorded(req[r], y)
  <1> DEFINE x == req[r]
             y == AuthStep(x)
             d == Def(x)
  <1>1. Good(x) /\ x.pc = "auth" /\ Move(r, y)
    BY DEF Requested, Authenticate
  <1>0. DOMAIN x = Fields /\ x.pc \in AboveLimits /\ Seen(x) = AtAuth(Def(x), Q(x))
    BY <1>1, SeenIs DEF Good, AboveLimits
  <1> HIDE DEF x
  <1>2. CASE NoneNeeded(d, Q(x))
    <2>1. y = Goto(x, "endpoint")
      BY <1>2 DEF AuthStep, NoneNeeded
    <2>2. Admits(x, y) /\ y.pc = "endpoint"
      BY <1>0, <2>1, GotoKeeps DEF Keeps, SameBill, Admits
    <2>3. ~x.dead
      BY <1>1, <1>2 DEF Good, Barred, Dead
    <2> HIDE DEF y
    <2> QED BY <1>0, <1>1, <2>2, <2>3, AdmittedGood DEF Admits, Quiet, Unrecorded, x
  <1>3. CASE ~NoneNeeded(d, Q(x)) /\ Presented(d.auth, Seen(x)) = None
    <2>1. y = Answered(x, 401, "auth")
      BY <1>3 DEF AuthStep, NoneNeeded
    <2>2. Keeps(x, y) /\ Quiet(x, y) /\ y.pc = "done" /\ y.by = "auth"
      BY <1>0, <2>1, AnswersKeep
    <2> HIDE DEF y
    <2> QED BY <1>0, <1>1, <2>2, RefusalGood DEF Keeps, Quiet, Unrecorded, x
  <1>4. CASE ~NoneNeeded(d, Q(x)) /\ Presented(d.auth, Seen(x)) # None /\ d.auth.mode \in TokenModes
    <2>1. y = TokenStep(x)
      BY <1>4 DEF AuthStep, NoneNeeded
    <2>2. \/ Keeps(x, y) /\ Quiet(x, y) /\ y.pc = "done" /\ y.by = "auth"
          \/ Admits(x, y) /\ y.pc \in {"policy", "endpoint"} /\ ~Dead(x, sessions, now)
      BY <1>0, <1>4, <2>1, TokenAdmits
    <2>3. Dead(x, sessions, now) \/ ~x.dead
      BY <1>1 DEF Good, Barred
    <2> HIDE DEF y
    <2>4. Good(y)
      BY <1>0, <1>1, <2>2, <2>3, AdmittedGood, RefusalGood
    <2> QED BY <1>1, <2>2, <2>4 DEF Keeps, Admits, Quiet, Unrecorded, x
  <1>5. CASE ~NoneNeeded(d, Q(x)) /\ Presented(d.auth, Seen(x)) # None /\ d.auth.mode \notin TokenModes
    <2>1. y = Answered(x, 403, "auth") \/ y = Goto(x, "session")
      BY <1>5 DEF AuthStep, NoneNeeded
    <2>2. CASE y = Answered(x, 403, "auth")
      <3>1. Keeps(x, y) /\ Quiet(x, y) /\ y.pc = "done" /\ y.by = "auth"
        BY <1>0, <2>2, AnswersKeep
      <3> HIDE DEF y
      <3> QED BY <1>0, <1>1, <3>1, RefusalGood DEF Keeps, Quiet, Unrecorded, x
    <2>3. CASE y = Goto(x, "session")
      <3>1. Keeps(x, y) /\ Quiet(x, y) /\ y.pc = "session" /\ y.by = x.by /\ y.headers = x.headers
        BY <1>0, <2>3, GotoKeeps
      <3> HIDE DEF y
      <3>2. Def(y) = Def(x) /\ Q(y) = Q(x) /\ Dead(y, sessions, now) = Dead(x, sessions, now)
        BY <3>1, RouteDecides DEF Keeps
      <3>3. Metered(y)
        BY <1>0, <1>1, <3>1, DueIs, SameDue DEF Good, Keeps, SameBill, AboveLimits
      <3>4. Barred(y)
        BY <1>1, <3>1, <3>2 DEF Barred, Good, Keeps, SameRoute, Passed
      <3>7. Seen(y) = Seen(x) /\ Hooked(y)
        BY <1>1, <3>1, <3>2 DEF Seen, Hooked, Good
      <3>5. Asks(y) /\ Routed(y)
        BY <1>1, <1>5, <3>1, <3>2, <3>7 DEF Asks, Routed, Good, Keeps, SameRoute, None
      <3>6. Good(y)
        BY <3>1, <3>3, <3>4, <3>5, <3>7 DEF Good, Keeps, Pcs
      <3> QED BY <1>1, <3>1, <3>6 DEF Keeps, Quiet, Unrecorded, x
    <2> QED BY <2>1, <2>2, <2>3
  <1> QED BY <1>2, <1>3, <1>4, <1>5

\* The grant check admits or refuses.
LEMMA GrantedAdmits ==
  ASSUME NEW x, DOMAIN x = Fields, NEW ctx
  PROVE  LET y == Granted(x, ctx)
         IN \/ Keeps(x, y) /\ Quiet(x, y) /\ y.pc = "done" /\ y.by = "auth"
            \/ Admits(x, y) /\ y.pc = "endpoint"
  <1>1. CASE AllowsApi(ctx.session, x.api)
    <2>1. Granted(x, ctx) = [x EXCEPT !.pc = "endpoint", !.ctx = Some(ctx)]
      BY <1>1 DEF Granted
    <2> QED BY <2>1 DEF Admits, Quiet, SameRoute, Fields
  <1>2. CASE ~AllowsApi(ctx.session, x.api)
    <2>1. Granted(x, ctx) = Answered(x, 403, "auth")
      BY <1>2 DEF Granted
    <2> QED BY <2>1, AnswersKeep
  <1> QED BY <1>1, <1>2

\* A session that passes its checks admits, sends on to its policy, or refuses.
LEMMA ResolvedAdmits ==
  ASSUME NEW x, DOMAIN x = Fields, NEW ctx
  PROVE  LET y == Resolved(x, ctx)
         IN \/ Keeps(x, y) /\ Quiet(x, y) /\ y.pc = "done" /\ y.by = "auth"
            \/ Admits(x, y) /\ y.pc \in {"policy", "endpoint"}
  <1> DEFINE y == Resolved(x, ctx)
  <1>1. \/ y = Granted(x, ctx)
        \/ y = [x EXCEPT !.pc = "policy", !.ctx = Some(ctx)]
        \/ y = Answered(x, 500, "auth")
    BY DEF Resolved
  <1> SUFFICES \/ Keeps(x, y) /\ Quiet(x, y) /\ y.pc = "done" /\ y.by = "auth"
               \/ Admits(x, y) /\ y.pc \in {"policy", "endpoint"}
    OBVIOUS
  <1> HIDE DEF y
  <1>2. CASE y = Granted(x, ctx)
    BY <1>2, GrantedAdmits
  <1>3. CASE y = [x EXCEPT !.pc = "policy", !.ctx = Some(ctx)]
    BY <1>3 DEF Admits, Quiet, SameRoute, Fields
  <1>4. CASE y = Answered(x, 500, "auth")
    BY <1>4, AnswersKeep
  <1> QED BY <1>1, <1>2, <1>3, <1>4

\* The session lookup goes on only with a live session that its credential
\* proves, and then the credential is not dead.
LEMMA SessionAdmits ==
  ASSUME NEW x, DOMAIN x = Fields, x.pc = "session", Asks(x), Seen(x) = AtAuth(Def(x), Q(x))
  PROVE  LET y == SessionFound(x)
         IN \/ Keeps(x, y) /\ Quiet(x, y) /\ y.pc = "done" /\ y.by = "auth"
            \/ Admits(x, y) /\ y.pc \in {"policy", "endpoint"} /\ ~Dead(x, sessions, now)
  <1> DEFINE d == Def(x)
             cred == CHOOSE c \in Presented(d.auth, Seen(x)) : TRUE
             found == At(sessions, SessionKey(d.org_id, Identity(d.auth, cred)))
             rec == CHOOSE s \in found : TRUE
             live == SessionLive(rec.session, now) /\ Proved(d.auth, Seen(x), cred, rec.session)
             y == SessionFound(x)
  <1>0. y = IF found = None THEN Answered(x, 403, "auth")
            ELSE IF rec.corrupt THEN Answered(x, 500, "auth")
            ELSE IF live
                 THEN Resolved(x, [session |-> rec.session, identity |-> Identity(d.auth, cred)])
            ELSE Answered(x, 403, "auth")
    BY Zenon DEF SessionFound
  <1>1. CASE found = None \/ rec.corrupt \/ ~live
    <2> HIDE DEF y, found, rec, live
    <2>1. y = Answered(x, 403, "auth") \/ y = Answered(x, 500, "auth")
      BY <1>0, <1>1
    <2>2. Keeps(x, y) /\ Quiet(x, y) /\ y.pc = "done" /\ y.by = "auth"
      BY <2>1, AnswersKeep
    <2> QED BY <2>2 DEF y
  <1>2. CASE ~(found = None \/ rec.corrupt \/ ~live)
    <2>1. y = Resolved(x, [session |-> rec.session, identity |-> Identity(d.auth, cred)])
      <3> HIDE DEF y, found, rec, live
      <3> QED BY <1>0, <1>2
    <2>2. cred \in Presented(d.auth, Seen(x))
      BY DEF Asks
    <2>3. rec \in found
      BY <1>2 DEF None
    <2> HIDE DEF cred, rec
    <2>4. rec.session \in Held(d, Seen(x), cred, sessions, now)
      BY <1>2, <2>3 DEF Held
    <2>5. ~Dead(x, sessions, now)
      BY <2>2, <2>4 DEF Dead, Asks
    <2> QED BY <2>1, <2>5, ResolvedAdmits
  <1> QED BY <1>1, <1>2

\* Storage that fails refuses.
LEMMA FailedKeeps ==
  ASSUME NEW x, DOMAIN x = Fields, NEW status
  PROVE  LET y == Failed(x, status) IN Keeps(x, y) /\ y.recording = x.recording /\ y.faulted /\ y.pc = "done" /\ y.by = "auth"
  <1> DEFINE z == Answered(x, status, "auth")
  <1>1. Keeps(x, z) /\ Quiet(x, z) /\ z.pc = "done" /\ z.by = "auth"
    BY AnswersKeep
  <1> HIDE DEF z
  <1>2. Failed(x, status) = [z EXCEPT !.faulted = TRUE]
    BY DEF Failed, z
  <1> QED BY <1>1, <1>2 DEF Keeps, Quiet, SameRoute, SameBill, Fields

\* The session lookup as a step.
LEMMA LookupSessionGood ==
  ASSUME Requested, NEW r \in Requests, LookupSession(r)
  PROVE  \E y : Good(y) /\ Move(r, y) /\ Unrecorded(req[r], y)
  <1> DEFINE x == req[r]
  <1>1. Good(x) /\ x.pc = "session"
    BY DEF Requested, LookupSession
  <1>2. PICK y : Move(r, y) /\ (y = SessionFound(x) \/ y = Failed(x, 503))
    BY DEF LookupSession
  <1> HIDE DEF x
  <1>3. \/ /\ Keeps(x, y) /\ y.recording = x.recording /\ (x.faulted => y.faulted)
           /\ y.pc = "done" /\ y.by = "auth"
        \/ Admits(x, y) /\ y.pc \in {"policy", "endpoint"} /\ ~Dead(x, sessions, now)
    <2>1. Seen(x) = AtAuth(Def(x), Q(x))
      BY <1>1, SeenIs DEF Good
    <2> QED BY <1>1, <1>2, <2>1, SessionAdmits, FailedKeeps DEF Good, Quiet
  <1>4. Dead(x, sessions, now) \/ ~x.dead
    BY <1>1 DEF Good, Barred
  <1>5. Good(y)
    BY <1>1, <1>3, <1>4, AdmittedGood, RefusalGood DEF AboveLimits
  <1>6. Unrecorded(req[r], y)
    BY <1>1, <1>3 DEF Keeps, Admits, Quiet, Unrecorded, x
  <1> QED BY <1>2, <1>5, <1>6

\* A refusal by the policy also takes the session back.
LEMMA WithdrawnGood ==
  ASSUME NEW x, Good(x), x.pc = "policy", NEW y, DOMAIN y = Fields, SameRoute(x, y),
         y.charged = x.charged, y.opened = x.opened, y.pc = "done", y.by = "auth"
  PROVE  Good(y)
  <1>1. Metered(y)
    BY DueIs, SameDue DEF Good, AboveLimits
  <1>2. ~y.dead
    BY DEF Good, Barred, SameRoute
  <1>3. Routed(y) /\ Asks(y) /\ Hooked(y)
    BY DEF Routed, Asks, Hooked, Good, SameRoute
  <1> QED BY <1>1, <1>2, <1>3 DEF Good, Barred, Pcs

\* The policy lookup: by now the credential is known not to be dead.
LEMMA LookupPolicyGood ==
  ASSUME Requested, NEW r \in Requests, LookupPolicy(r)
  PROVE  \E y : Good(y) /\ Move(r, y) /\ Unrecorded(req[r], y)
  <1> DEFINE x == req[r]
             z == [x EXCEPT !.ctx = None]
  <1>1. Good(x) /\ x.pc = "policy"
    BY DEF Requested, LookupPolicy
  <1>2. PICK y : Move(r, y) /\ (y = PolicyFound(x) \/ y = Failed(z, 503))
    BY DEF LookupPolicy
  <1> HIDE DEF x
  <1>3. /\ DOMAIN x = Fields /\ ~x.dead
        /\ DOMAIN z = Fields /\ SameRoute(x, z) /\ z.charged = x.charged /\ z.opened = x.opened
        /\ z.recording = x.recording
    BY <1>1 DEF Good, Barred, SameRoute, Fields
  <1>4. CASE y = Failed(z, 503)
    <2> HIDE DEF z
    <2>1. Keeps(z, y) /\ y.recording = z.recording /\ y.faulted /\ y.pc = "done" /\ y.by = "auth"
      BY <1>3, <1>4, FailedKeeps
    <2>2. Good(y)
      BY <1>1, <1>3, <2>1, WithdrawnGood DEF Keeps, SameRoute, SameBill
    <2> QED BY <1>1, <1>2, <1>3, <2>1, <2>2 DEF Keeps, SameRoute, Unrecorded, x
  <1>5. CASE y = PolicyFound(x)
    <2>1. \/ \E st : y = [Answered(x, st, "auth") EXCEPT !.ctx = None]
          \/ \E c : y = Granted(x, c)
      BY <1>5 DEF PolicyFound
    <2>2. CASE \E st : y = [Answered(x, st, "auth") EXCEPT !.ctx = None]
      <3>1. PICK st : y = [Answered(x, st, "auth") EXCEPT !.ctx = None]
        BY <2>2
      <3> DEFINE u == Answered(x, st, "auth")
      <3>2. Keeps(x, u) /\ Quiet(x, u) /\ u.pc = "done" /\ u.by = "auth"
        BY <1>3, AnswersKeep
      <3> HIDE DEF u
      <3>3. y = [u EXCEPT !.ctx = None]
        BY <3>1 DEF u
      <3>4. Good(y)
        BY <1>1, <3>2, <3>3, WithdrawnGood DEF Keeps, SameRoute, SameBill, Fields
      <3>5. Unrecorded(req[r], y)
        BY <1>1, <3>2, <3>3 DEF Keeps, Quiet, SameRoute, SameBill, Unrecorded, Fields, x
      <3> QED BY <1>2, <3>4, <3>5
    <2>3. CASE \E c : y = Granted(x, c)
      <3>1. \/ Keeps(x, y) /\ Quiet(x, y) /\ y.pc = "done" /\ y.by = "auth"
            \/ Admits(x, y) /\ y.pc = "endpoint"
        BY <1>3, <2>3, GrantedAdmits
      <3>2. Good(y)
        BY <1>1, <1>3, <3>1, AdmittedGood, RefusalGood DEF AboveLimits
      <3> QED BY <1>1, <1>2, <3>1, <3>2 DEF Keeps, Admits, Quiet, Unrecorded, x
    <2> QED BY <2>1, <2>2, <2>3
  <1> QED BY <1>2, <1>4, <1>5

-----------------------------------------------------------------------------
(* The limits.                                                                *)

\* A limit at the request's position lets it pass: it is charged there, or
\* storage failed and it goes free.
Lets(x, y) ==
  \/ y.charged = [x.charged EXCEPT ![x.pc] = @ + 1] /\ y.opened = x.opened
  \/ y.charged = x.charged /\ y.opened = x.opened \cup {x.pc}

\* One limit admits and charges, fails open, or denies.
LEMMA CheckLimitMoves ==
  ASSUME NEW r \in Requests, NEW key, NEW max, NEW status, NEW next,
         DOMAIN req[r] = Fields, CheckLimit(r, key, max, status, next)
  PROVE  \E y : /\ Move(r, y)
                /\ DOMAIN y = Fields /\ SameRoute(req[r], y) /\ Quiet(req[r], y) /\ y.ctx = req[r].ctx
                /\ \/ y.pc = next /\ y.by = req[r].by /\ Lets(req[r], y)
                   \/ Keeps(req[r], y) /\ y.pc = "done" /\ y.by = req[r].pc
  <1> DEFINE x == req[r]
             c == [x EXCEPT !.pc = next, !.charged = [x.charged EXCEPT ![x.pc] = @ + 1]]
             o == [x EXCEPT !.pc = next, !.opened = x.opened \cup {x.pc}]
             n == Answered(x, status, x.pc)
  <1>0. [x EXCEPT !.pc = next, !.charged[x.pc] = @ + 1] = c
    OBVIOUS
  <1>1. Move(r, c) \/ Move(r, n) \/ Move(r, o)
    BY <1>0 DEF CheckLimit
  <1> HIDE DEF x
  <1>2. DOMAIN x = Fields
    BY DEF x
  <1>3. /\ DOMAIN c = Fields /\ SameRoute(x, c) /\ Quiet(x, c) /\ c.ctx = x.ctx /\ c.pc = next /\ c.by = x.by
        /\ c.charged = [x.charged EXCEPT ![x.pc] = @ + 1] /\ c.opened = x.opened
    BY <1>2 DEF SameRoute, Quiet, Fields
  <1>4. /\ DOMAIN o = Fields /\ SameRoute(x, o) /\ Quiet(x, o) /\ o.ctx = x.ctx /\ o.pc = next /\ o.by = x.by
        /\ o.charged = x.charged /\ o.opened = x.opened \cup {x.pc}
    BY <1>2 DEF SameRoute, Quiet, Fields
  <1>5. Keeps(x, n) /\ Quiet(x, n) /\ n.pc = "done" /\ n.by = x.pc
    BY <1>2, AnswersKeep
  <1> HIDE DEF c, o, n
  <1> QED BY <1>1, <1>3, <1>4, <1>5, Zenon DEF x, Keeps, SameBill, Lets

\* A limit denies, or the spike guard does: nothing is added to the bill.
LEMMA DeniedGood ==
  ASSUME NEW x, Good(x), x.pc \in {"endpoint", "guard", "rate", "quota"}, NEW y, Keeps(x, y),
         y.pc = "done", y.by = x.pc
  PROVE  Good(y)
  <1>1. Due(y) = Due(x)
    BY DueIs DEF AboveLimits
  <1>2. Applicable(y) = Applicable(x)
    BY RouteDecides DEF Keeps, SameBill
  <1>3. Metered(y)
    BY <1>1, <1>2, SameDue DEF Good, Keeps, SameBill
  <1>4. ~x.dead
    BY DEF Good, Barred, Passed, Pcs
  <1> QED BY <1>3, <1>4, StaysGood DEF Pcs

\* A request that goes on past a limit with the bill its new position asks for.
LEMMA PastLimitGood ==
  ASSUME NEW x, Good(x), x.pc \in {"endpoint", "guard", "rate", "quota"},
         NEW y, DOMAIN y = Fields, SameRoute(x, y), y.ctx = x.ctx, y.by = x.by,
         y.pc \in {"guard", "rate", "quota", "below"}, Metered(y)
  PROVE  Good(y)
  <1>1. ~x.dead
    BY DEF Good, Barred, Passed, Pcs
  <1>2. Barred(y)
    BY <1>1 DEF Barred, SameRoute
  <1>3. Routed(y) /\ Asks(y) /\ Hooked(y)
    BY DEF Routed, Asks, Hooked, Good, SameRoute
  <1> QED BY <1>2, <1>3 DEF Good, Pcs

\* A limit that applies lets a request pass, one that does not is skipped.
Settles(x, y) ==
  IF x.pc \in Applicable(x) THEN Lets(x, y) ELSE y.charged = x.charged /\ y.opened = x.opened

\* Past a limit it was not yet due to have passed, a request's bill shows that
\* limit once if it applies.
LEMMA SettledMetered ==
  ASSUME NEW x, Metered(x), x.pc \in LimitNames, x.pc \notin Due(x), NEW y, Settles(x, y), y.pc # "gone",
         Applicable(y) = Applicable(x), Due(y) \cap Applicable(x) = (Due(x) \cup {x.pc}) \cap Applicable(x)
  PROVE  Metered(y)
  <1>0. x.pc # "gone"
    BY DEF LimitNames
  <1>1. x.charged \in [LimitNames -> Nat] /\ Passes(x, x.pc) = 0
    BY <1>0 DEF Metered
  <1>2. x.charged[x.pc] = 0 /\ x.pc \notin x.opened
    BY <1>1 DEF Passes
  <1>3. y.charged \in [LimitNames -> Nat]
    BY <1>1 DEF Settles, Lets
  <1>4. ASSUME NEW l \in LimitNames
        PROVE  Passes(y, l) = IF l \in Due(y) /\ l \in Applicable(y) THEN 1 ELSE 0
    <2>1. Passes(x, l) = IF l \in Due(x) /\ l \in Applicable(x) THEN 1 ELSE 0
      BY <1>0 DEF Metered
    <2>2. l \in Due(y) /\ l \in Applicable(y) <=> (l \in Due(x) \/ l = x.pc) /\ l \in Applicable(x)
      OBVIOUS
    <2>3. CASE l = x.pc /\ l \in Applicable(x)
      <3>1. Passes(y, l) = 1
        BY <1>1, <1>2, <2>3 DEF Settles, Lets, Passes
      <3> QED BY <2>2, <2>3, <3>1
    <2>4. CASE ~(l = x.pc /\ l \in Applicable(x))
      <3>1. Passes(y, l) = Passes(x, l)
        BY <1>1, <1>2, <2>4 DEF Settles, Lets, Passes
      <3> QED BY <2>1, <2>2, <2>4, <3>1
    <2> QED BY <2>3, <2>4
  <1> QED BY <1>3, <1>4 DEF Metered

\* The endpoint limit comes first, and the session's limits are skipped when it
\* has none.
LEMMA CheckEndpointGood ==
  ASSUME Requested, NEW r \in Requests, CheckEndpoint(r)
  PROVE  \E y : Good(y) /\ Move(r, y) /\ Onward(req[r], y) /\ Unrecorded(req[r], y)
  <1> DEFINE x == req[r]
             rules == FirstMatch(Def(x).limits, Q(x))
             none == Allowance(x) = [rate |-> None, quota |-> None]
             next == IF ~none THEN "guard" ELSE "below"
  <1>1. Good(x) /\ x.pc = "endpoint" /\ DOMAIN x = Fields
    BY DEF Requested, CheckEndpoint, Good
  <1>2. none => "rate" \notin Applicable(x) /\ "quota" \notin Applicable(x)
    BY ApplicableIs
  <1>4. ASSUME NEW y, DOMAIN y = Fields, SameRoute(x, y), y.ctx = x.ctx, y.pc = next, y.by = x.by,
               Settles(x, y)
        PROVE  Good(y)
    <2>1. Applicable(y) = Applicable(x)
      BY <1>4, RouteDecides
    <2>2. Applicable(x) \subseteq LimitNames
      BY ApplicableIs
    <2>3. Due(x) = {} /\ y.pc \in {"guard", "below"}
      BY <1>1, <1>4, DueIs DEF AboveLimits
    <2>4. Due(y) \cap Applicable(x) = {"endpoint"} \cap Applicable(x)
      <3> HIDE DEF none, x
      <3>1. CASE none
        BY <1>2, <1>4, <2>2, <3>1, DueIs DEF BelowPcs, LimitNames
      <3>2. CASE ~none
        BY <1>4, <3>2, DueIs
      <3> QED BY <3>1, <3>2
    <2>5. Metered(y)
      <3> HIDE DEF x, next
      <3> QED BY <1>1, <1>4, <2>1, <2>3, <2>4, SettledMetered DEF Good, LimitNames
    <2> QED BY <1>1, <1>4, <2>5, PastLimitGood
  <1>5. CASE rules = {} /\ SkipLimit(r, next)
    <2> DEFINE y == Goto(x, next)
    <2>1. Move(r, y)
      BY <1>5 DEF SkipLimit
    <2> HIDE DEF x, next
    <2>2. Keeps(x, y) /\ Quiet(x, y) /\ y.pc = next /\ y.by = x.by
      BY <1>1, GotoKeeps
    <2> HIDE DEF y
    <2>3. "endpoint" \notin Applicable(x)
      BY <1>5, ApplicableIs
    <2>4. Settles(x, y)
      BY <1>1, <2>2, <2>3 DEF Keeps, SameBill, Settles
    <2>5. Onward(req[r], y) /\ Unrecorded(req[r], y)
      BY <1>1, <2>2 DEF Keeps, Quiet, Onward, Unrecorded, Reached, BelowPcs, x, next
    <2> QED BY <1>4, <2>1, <2>2, <2>4, <2>5 DEF Keeps, SameBill
  <1>6. CASE \E i \in rules :
               CheckLimit(r, EndpointKey(Def(x).org_id, x.scope, i), Def(x).limits[i].requests, 429, next)
    <2>1. PICK y : /\ Move(r, y)
                   /\ DOMAIN y = Fields /\ SameRoute(x, y) /\ Quiet(x, y) /\ y.ctx = x.ctx
                   /\ \/ y.pc = next /\ y.by = x.by /\ Lets(x, y)
                      \/ Keeps(x, y) /\ y.pc = "done" /\ y.by = x.pc
      <3> HIDE DEF next
      <3> QED BY <1>1, <1>6, CheckLimitMoves
    <2>2. "endpoint" \in Applicable(x)
      BY <1>6, ApplicableIs
    <2> HIDE DEF x, next
    <2>3. CASE Keeps(x, y) /\ y.pc = "done" /\ y.by = x.pc
      BY <1>1, <2>1, <2>3, DeniedGood DEF Quiet, Onward, Unrecorded, Reached, x
    <2>4. CASE y.pc = next /\ y.by = x.by /\ Lets(x, y)
      <3>1. Settles(x, y)
        BY <1>1, <2>2, <2>4 DEF Settles
      <3>2. Onward(req[r], y) /\ Unrecorded(req[r], y)
        BY <1>1, <2>1, <2>4 DEF Quiet, Onward, Unrecorded, Reached, BelowPcs, x, next
      <3> QED BY <1>4, <2>1, <2>4, <3>1, <3>2
    <2> QED BY <2>1, <2>3, <2>4
  <1> QED BY <1>5, <1>6, Zenon DEF CheckEndpoint

\* The spike guard charges nothing.
LEMMA GuardGood ==
  ASSUME Requested, NEW r \in Requests, Guard(r)
  PROVE  \E y : Good(y) /\ Move(r, y) /\ Onward(req[r], y) /\ Unrecorded(req[r], y)
  <1> DEFINE x == req[r]
  <1>1. Good(x) /\ x.pc = "guard" /\ DOMAIN x = Fields
    BY DEF Requested, Guard, Good
  <1>2. PICK y : Move(r, y) /\ (y = Goto(x, "rate") \/ y = Answered(x, 429, "guard"))
    BY DEF Guard
  <1> HIDE DEF x
  <1>3. CASE y = Goto(x, "rate")
    <2>1. Keeps(x, y) /\ Quiet(x, y) /\ y.pc = "rate" /\ y.by = x.by
      BY <1>1, <1>3, GotoKeeps
    <2>2. Applicable(y) = Applicable(x) /\ Due(y) = Due(x)
      BY <1>1, <2>1, RouteDecides, DueIs DEF Keeps, SameBill
    <2>3. Metered(y)
      BY <1>1, <2>1, <2>2, SameDue DEF Good, Keeps, SameBill
    <2>4. Onward(req[r], y) /\ Unrecorded(req[r], y)
      BY <1>1, <2>1 DEF Keeps, Quiet, Onward, Unrecorded, Reached, x
    <2> QED BY <1>1, <1>2, <2>1, <2>3, <2>4, PastLimitGood DEF Keeps, SameBill
  <1>4. CASE y = Answered(x, 429, "guard")
    <2>1. Keeps(x, y) /\ Quiet(x, y) /\ y.pc = "done" /\ y.by = "guard"
      BY <1>1, <1>4, AnswersKeep
    <2>2. Onward(req[r], y) /\ Unrecorded(req[r], y)
      BY <1>1, <2>1 DEF Keeps, Quiet, Onward, Unrecorded, Reached, x
    <2> QED BY <1>1, <1>2, <2>1, <2>2, DeniedGood
  <1> QED BY <1>2, <1>3, <1>4

\* What a session limit does to a request that it lets on to `next`, or denies.
Charges(x, y, next) ==
  /\ DOMAIN y = Fields /\ SameRoute(x, y) /\ Quiet(x, y) /\ y.ctx = x.ctx
  /\ \/ y.pc = next /\ y.by = x.by /\ Settles(x, y)
     \/ Keeps(x, y) /\ y.pc = "done" /\ y.by = x.pc

\* A session limit: skipped when the session has none, else charged or open.
LEMMA CheckSessionMoves ==
  ASSUME NEW r \in Requests, DOMAIN req[r] = Fields, NEW pc \in {"rate", "quota"}, NEW next, NEW status,
         CheckSession(r, pc, next, status)
  PROVE  \E y : Move(r, y) /\ Charges(req[r], y, next)
  <1> DEFINE x == req[r]
             limits == Allowance(x)[pc]
             key(c) == IF pc = "rate" THEN RateKey(c.session.org_id, c.identity)
                       ELSE QuotaKey(c.session.org_id, c.identity)
  <1>1. x.pc = pc
    BY DEF CheckSession
  <1>2. limits # None <=> pc \in Applicable(x)
    BY ApplicableIs DEF Applicable, LimitNames
  <1>3. CASE limits = None /\ SkipLimit(r, next)
    <2> DEFINE y == Goto(x, next)
    <2>1. Move(r, y)
      BY <1>3 DEF SkipLimit
    <2> HIDE DEF x
    <2>2. Keeps(x, y) /\ Quiet(x, y) /\ y.pc = next /\ y.by = x.by
      BY GotoKeeps DEF x
    <2> HIDE DEF y
    <2>3. Settles(x, y)
      BY <1>1, <1>2, <1>3, <2>2 DEF Keeps, SameBill, Settles
    <2>4. DOMAIN y = Fields /\ SameRoute(x, y) /\ Quiet(x, y) /\ y.ctx = x.ctx
      BY <2>2 DEF Keeps, SameBill
    <2>5. Charges(x, y, next)
      BY <2>2, <2>3, <2>4 DEF Charges
    <2> QED BY <2>1, <2>5 DEF x
  <1>4. CASE \E l \in limits, c \in x.ctx : CheckLimit(r, key(c), l.max, status, next)
    <2>1. PICK y : /\ Move(r, y)
                   /\ DOMAIN y = Fields /\ SameRoute(x, y) /\ Quiet(x, y) /\ y.ctx = x.ctx
                   /\ \/ y.pc = next /\ y.by = x.by /\ Lets(x, y)
                      \/ Keeps(x, y) /\ y.pc = "done" /\ y.by = x.pc
      <3> HIDE DEF key
      <3> QED BY <1>4, CheckLimitMoves
    <2>2. pc \in Applicable(x)
      BY <1>2, <1>4 DEF None
    <2> HIDE DEF x
    <2>3. Charges(x, y, next)
      BY <1>1, <2>1, <2>2 DEF Charges, Settles
    <2> QED BY <2>1, <2>3 DEF x
  <1> QED BY <1>3, <1>4, Zenon DEF CheckSession

\* The rate is charged after the endpoint limit, and before the quota.
LEMMA CheckRateGood ==
  ASSUME Requested, NEW r \in Requests, CheckRate(r)
  PROVE  \E y : Good(y) /\ Move(r, y) /\ Onward(req[r], y) /\ Unrecorded(req[r], y)
  <1> DEFINE x == req[r]
  <1>1. Good(x) /\ DOMAIN x = Fields /\ x.pc = "rate"
    BY DEF Requested, CheckRate, CheckSession, Good
  <1>2. PICK y : Move(r, y) /\ Charges(x, y, "quota")
    BY <1>1, CheckSessionMoves DEF CheckRate
  <1> HIDE DEF x
  <1>5. Onward(req[r], y) /\ Unrecorded(req[r], y)
    BY <1>1, <1>2 DEF Charges, Quiet, Onward, Unrecorded, Reached, BelowPcs, x
  <1>3. CASE Keeps(x, y) /\ y.pc = "done" /\ y.by = x.pc
    BY <1>1, <1>2, <1>3, <1>5, DeniedGood
  <1>4. CASE y.pc = "quota" /\ y.by = x.by /\ Settles(x, y)
    <2>1. Applicable(y) = Applicable(x)
      BY <1>2, RouteDecides DEF Charges
    <2>2. Due(x) = {"endpoint"} /\ Due(y) = {"endpoint", "rate"}
      BY <1>1, <1>4, DueIs
    <2>3. Metered(y)
      BY <1>1, <1>4, <2>1, <2>2, SettledMetered DEF Good, LimitNames
    <2> QED BY <1>1, <1>2, <1>4, <1>5, <2>3, PastLimitGood DEF Charges
  <1> QED BY <1>2, <1>3, <1>4 DEF Charges

\* The quota is the last limit: what is below it has paid for all.
LEMMA CheckQuotaGood ==
  ASSUME Requested, NEW r \in Requests, CheckQuota(r)
  PROVE  \E y : Good(y) /\ Move(r, y) /\ Onward(req[r], y) /\ Unrecorded(req[r], y)
  <1> DEFINE x == req[r]
  <1>1. Good(x) /\ DOMAIN x = Fields /\ x.pc = "quota"
    BY DEF Requested, CheckQuota, CheckSession, Good
  <1>2. PICK y : Move(r, y) /\ Charges(x, y, "below")
    BY <1>1, CheckSessionMoves DEF CheckQuota
  <1> HIDE DEF x
  <1>5. Onward(req[r], y) /\ Unrecorded(req[r], y)
    BY <1>1, <1>2 DEF Charges, Quiet, Onward, Unrecorded, Reached, BelowPcs, x
  <1>3. CASE Keeps(x, y) /\ y.pc = "done" /\ y.by = x.pc
    BY <1>1, <1>2, <1>3, <1>5, DeniedGood
  <1>4. CASE y.pc = "below" /\ y.by = x.by /\ Settles(x, y)
    <2>1. Applicable(y) = Applicable(x)
      BY <1>2, RouteDecides DEF Charges
    <2>2. Due(x) = {"endpoint", "rate"} /\ Due(y) = LimitNames
      BY <1>1, <1>4, DueIs DEF BelowPcs
    <2>3. Metered(y)
      BY <1>1, <1>4, <2>1, <2>2, SettledMetered DEF Good, LimitNames
    <2> QED BY <1>1, <1>2, <1>4, <1>5, <2>3, PastLimitGood DEF Charges
  <1> QED BY <1>2, <1>3, <1>4 DEF Charges

-----------------------------------------------------------------------------
(* The invariant is inductive.                                                *)

\* A good request stays good when nothing it depends on changes.
LEMMA GoodLasts ==
  ASSUME UNCHANGED <<world, sessions, now>>, NEW x
  PROVE  Good(x)' <=> Good(x)
  <1>1. Q(x)' = Q(x) /\ Api(x)' = Api(x)
    BY DEF Q, Api
  <1>2. Def(x)' = Def(x)
    BY <1>1 DEF Def
  <1>3. Metered(x)' <=> Metered(x)
    <2>1. Applicable(x)' = Applicable(x)
      BY <1>1, <1>2 DEF Applicable, Allowance
    <2> QED BY <2>1 DEF Metered, Passes, Due
  <1>4. Barred(x)' <=> Barred(x)
    BY <1>1, <1>2 DEF Barred, Dead, Passed, Credentials
  <1>5. (Asks(x)' <=> Asks(x)) /\ (Hooked(x)' <=> Hooked(x)) /\ (Routed(x)' <=> Routed(x))
    BY <1>1, <1>2 DEF Asks, Hooked, Routed, Seen
  <1> QED BY <1>3, <1>4, <1>5 DEF Good

\* A request that sees storage or the clock change: it is dead from then on only
\* if it was dead before and still is.
LEMMA ObservedGood ==
  ASSUME UNCHANGED world, NEW x, Good(x), NEW y, NEW ss, NEW t,
         y = [x EXCEPT !.steady = FALSE, !.dead = @ /\ Dead(x, ss, t)],
         ss = sessions', t = now'
  PROVE  Good(y)'
  <1>1. /\ DOMAIN y = Fields /\ y.q = x.q /\ y.api = x.api /\ y.scope = x.scope
        /\ SameBill(x, y) /\ y.pc = x.pc /\ y.by = x.by /\ y.headers = x.headers
        /\ y.dead => x.dead /\ Dead(x, ss, t)
    BY DEF Good, Fields, SameBill
  <1>2. Q(y)' = Q(x) /\ Api(y)' = Api(x)
    BY <1>1 DEF Q, Api
  <1>3. Def(y)' = Def(x)
    BY <1>1, <1>2 DEF Def
  <1>4. Applicable(y)' = Applicable(x)
    BY <1>1, <1>2, <1>3 DEF Applicable, Allowance, SameBill
  <1>5. Metered(y)'
    BY <1>1, <1>4 DEF Metered, Passes, Due, Good, SameBill
  <1>6. Dead(x, ss, t) => Dead(y, sessions, now)'
    BY <1>1, <1>2, <1>3 DEF Dead, Credentials
  <1>7. Barred(y)'
    BY <1>1, <1>6 DEF Barred, Good, Passed
  <1>8. Asks(y)' /\ Hooked(y)' /\ Routed(y)'
    BY <1>1, <1>2, <1>3 DEF Asks, Hooked, Routed, Seen, Good
  <1> QED BY <1>1, <1>5, <1>7, <1>8 DEF Good

\* The step of one request leaves the others alone.
LEMMA MoveGood ==
  ASSUME Requested, NEW r \in Requests, NEW y, Good(y), Move(r, y), UNCHANGED <<world, sessions, now>>
  PROVE  Requested'
  <1>1. req' = [req EXCEPT ![r] = y]
    BY DEF Move
  <1>2. DOMAIN req' = Requests /\ req' = [s \in Requests |-> req'[s]]
    BY <1>1 DEF Requested
  <1>3. ASSUME NEW s \in Requests
        PROVE  (req[s].pc = "idle" \/ Good(req[s]))'
    <2>1. CASE s = r
      <3>1. req'[s] = y
        BY <1>1, <2>1 DEF Requested
      <3>2. Good(y)'
        BY GoodLasts
      <3> QED BY <3>1, <3>2
    <2>2. CASE s # r
      <3>1. req'[s] = req[s]
        BY <1>1, <2>2 DEF Requested
      <3>2. CASE req[s].pc = "idle"
        BY <3>1, <3>2
      <3>3. CASE Good(req[s])
        <4>1. PICK x : x = req[s]
          OBVIOUS
        <4>2. Good(x)'
          BY <3>3, <4>1, GoodLasts
        <4> QED BY <3>1, <4>1, <4>2
      <3> QED BY <3>2, <3>3 DEF Requested
    <2> QED BY <2>1, <2>2
  <1> QED BY <1>2, <1>3 DEF Requested

\* No request moves when nothing it depends on does.
LEMMA StandsGood ==
  ASSUME Requested, UNCHANGED <<world, sessions, now, req>>
  PROVE  Requested'
  <1>1. ASSUME NEW s \in Requests
        PROVE  (req[s].pc = "idle" \/ Good(req[s]))'
    <2>1. CASE req[s].pc = "idle"
      BY <2>1
    <2>2. CASE Good(req[s])
      <3>1. PICK x : x = req[s]
        OBVIOUS
      <3>2. Good(x)'
        BY <2>2, <3>1, GoodLasts
      <3> QED BY <3>1, <3>2
    <2> QED BY <2>1, <2>2 DEF Requested
  <1> QED BY <1>1 DEF Requested

\* An edit or a tick is seen by every request in flight.
LEMMA ObserveGood ==
  ASSUME Requested, UNCHANGED world, Observe
  PROVE  Requested'
  <1>1. DOMAIN req' = Requests /\ req' = [s \in Requests |-> req'[s]]
    BY DEF Observe
  <1>2. ASSUME NEW s \in Requests
        PROVE  (req[s].pc = "idle" \/ Good(req[s]))'
    <2>1. CASE req[s].pc = "idle"
      BY <2>1 DEF Observe
    <2>2. CASE req[s].pc # "idle"
      <3>1. PICK x, y, ss, t : x = req[s] /\ y = req'[s] /\ ss = sessions' /\ t = now'
        OBVIOUS
      <3>2. Good(x) /\ y = [x EXCEPT !.steady = FALSE, !.dead = @ /\ Dead(x, ss, t)]
        BY <2>2, <3>1 DEF Observe, Requested
      <3>3. Good(y)'
        BY <3>1, <3>2, ObservedGood
      <3> QED BY <3>1, <3>3
    <2> QED BY <2>1, <2>2
  <1> QED BY <1>1, <1>2 DEF Requested

\* Every step of a request leaves a good one, and touches neither storage's
\* sessions and policies, nor the clock, nor the table.
LEMMA StepGood ==
  ASSUME Requested, NEW r \in Requests, Step(r)
  PROVE  /\ \E y : Good(y) /\ Move(r, y)
         /\ UNCHANGED <<world, table, sessions, policies, now>>
         /\ req[r].pc = "idle" => table = "built"
  <1>1. \E y : Good(y) /\ Move(r, y)
    BY ArriveGood, GateGood, AuthenticateGood, LookupSessionGood, LookupPolicyGood, CheckEndpointGood,
       GuardGood, CheckRateGood, CheckQuotaGood, BelowGood, DispatchGood, CacheGetGood, SendGood,
       ReceiveGood, StreamGood, LeaveGood, DisconnectGood, Zenon DEF Step
  <1>2. UNCHANGED <<world, table, sessions, policies, now>> /\ (req[r].pc = "idle" => table = "built")
    BY DEF Step, Arrive, Gate, Authenticate, LookupSession, LookupPolicy, CheckEndpoint, Guard,
       CheckRate, CheckQuota, CheckSession, Below, Dispatch, CacheGet, Send, Receive, Leave, Leaving, StreamEnd,
       StreamCut, Disconnect, store
  <1> QED BY <1>1, <1>2

\* Every behaviour keeps every request good.
THEOREM RequestsStayGood == Spec => []Requested
  <1>1. Init => Requested
    BY DEF Init, Requested
  <1>2. Requested /\ [Next]_vars => Requested'
    <2> SUFFICES ASSUME Requested, [Next]_vars PROVE Requested'
      OBVIOUS
    <2>1. ASSUME NEW r \in Requests, Step(r)
          PROVE  Requested'
      BY <2>1, StepGood, MoveGood
    <2>2. CASE Load \/ (\E w \in writes : WriteCache(w)) \/ (\E key \in DOMAIN counters : WindowElapses(key))
      BY <2>2, StandsGood DEF Load, WriteCache, WindowElapses, store
    <2>3. CASE Admin \/ Tick
      BY <2>3, ObserveGood DEF Admin, Tick
    <2>4. CASE UNCHANGED vars
      BY <2>4, StandsGood DEF vars, store
    <2> QED BY <2>1, <2>2, <2>3, <2>4 DEF Next
  <1> QED BY <1>1, <1>2, PTL DEF Spec

\* A session deleted, deactivated or expired before a request arrives, and not
\* restored since, admits no request (`authenticate` of auth.rs), however the
\* edits of the admin API interleave with the request's storage calls.
THEOREM RevocationHolds == Spec => []RevokedNeverServed
  <1>1. Requested => RevokedNeverServed
    BY DEF Requested, Good, Barred, RevokedNeverServed
  <1> QED BY <1>1, RequestsStayGood, PTL

\* Whoever answers, a request was charged exactly once (or let through once by
\* failing storage) by every limit that applies and comes before the answer, and by
\* no other (rate_limit.rs:16-19, and its place in the chain).
THEOREM MeteringHolds == Spec => []ServedIsMetered
  <1>1. ASSUME NEW x, Metered(x), x.pc = "done", NEW l \in LimitNames
        PROVE  Passes(x, l) = Owed(x, l)
    <2>1. Due(x) = Before(x.by)
      BY <1>1 DEF Due, BelowPcs
    <2>2. Passes(x, l) = IF l \in Due(x) /\ l \in Applicable(x) THEN 1 ELSE 0
      BY <1>1 DEF Metered
    <2> QED BY <2>1, <2>2 DEF Owed
  <1>2. Requested => ServedIsMetered
    <2>1. ASSUME Requested, NEW r \in Requests, req[r].pc = "done"
          PROVE  \A l \in LimitNames : Passes(req[r], l) = Owed(req[r], l)
      <3>1. Metered(req[r])
        BY <2>1 DEF Requested, Good
      <3> QED BY <1>1, <2>1, <3>1
    <2> QED BY <2>1 DEF ServedIsMetered
  <1> QED BY <1>2, RequestsStayGood, PTL

-----------------------------------------------------------------------------
(* Only definitions that validate are ever routed to.                          *)

\* Requests are in flight only under a table that was built.
Tabled ==
  /\ table \in {"empty", "built", "refused"}
  /\ table = "built" => TableBuilds(world.defs)
  /\ \A r \in Requests : req[r].pc # "idle" => table = "built"

\* The table is built before anything is served, and stays.
LEMMA AlwaysTabled == Spec => []Tabled
  <1>1. Init => Tabled
    BY DEF Init, Tabled
  <1>2. Requested /\ Tabled /\ [Next]_vars => Tabled'
    <2> SUFFICES ASSUME Requested, Tabled, [Next]_vars PROVE Tabled'
      OBVIOUS
    <2>1. ASSUME NEW r \in Requests, Step(r)
          PROVE  Tabled'
      <3>1. PICK y : Move(r, y)
        BY <2>1, StepGood
      <3>2. UNCHANGED <<world, table>> /\ table = "built"
        BY <2>1, StepGood DEF Tabled
      <3> QED BY <3>1, <3>2 DEF Tabled, Move, Requested
    <2>2. CASE Load
      BY <2>2 DEF Load, Tabled
    <2>3. CASE \E w \in writes : WriteCache(w)
      BY <2>3 DEF WriteCache, Tabled
    <2>4. CASE \E key \in DOMAIN counters : WindowElapses(key)
      BY <2>4 DEF WindowElapses, Tabled
    <2>5. CASE Admin \/ Tick
      <3>1. UNCHANGED <<world, table>> /\ Observe
        BY <2>5 DEF Admin, Tick
      <3>2. ASSUME NEW r \in Requests, req[r].pc = "idle"
            PROVE  req'[r].pc = "idle"
        BY <3>1, <3>2 DEF Observe
      <3> QED BY <3>1, <3>2 DEF Tabled
    <2>6. CASE UNCHANGED vars
      BY <2>6 DEF vars, Tabled
    <2> QED BY <2>1, <2>2, <2>3, <2>4, <2>5, <2>6 DEF Next
  <1> QED BY <1>1, <1>2, RequestsStayGood, PTL DEF Spec

-----------------------------------------------------------------------------
(* The response cache.  An entry's key determines the upstream request it      *)
(* stands for, because the scope in the key names the API and the version.     *)

\* The definition a scope names, and the resource its chain asks for.
Base(scope) == IF scope[1] = "none" THEN NoApi ELSE CHOOSE d \in world.defs : d.api_id = scope[1]
Chain(scope) == IF Len(scope) = 2 THEN Apply(Base(scope), scope[2]) ELSE Base(scope)

SourceAt(scope, method, path) ==
  [target |-> Chain(scope).target_url, method |-> UpstreamMethod(Chain(scope), [method |-> method]),
   path |-> UpstreamPath(Chain(scope), <<>>, path)]

\* A response worth keeping, as an upstream gave it.
Storable(resp) ==
  /\ resp.status \in 200..299 /\ "set-cookie" \notin DOMAIN resp.headers
  /\ \E a \in world.answers : resp = [a EXCEPT !.headers = StripHopByHop(a.headers)]

\* What is kept under `key` is a response to the request the key stands for.
Honest(key, e) == e.src = SourceAt(key[3], key[4], key[5]) /\ Storable(e.resp)

HitTag == Header("x-g2-cache", <<"hit">>)

\* A hit's answer is one a miss could have returned.
HitSound(x) ==
  (x.pc = "done" /\ x.by = "hit") =>
    /\ x.src = {Source(x)}
    /\ \E a \in world.answers :
         \E y \in Returned(x, [a EXCEPT !.headers = With(StripHopByHop(@), HitTag)], "hit") :
            y.out = x.out /\ y.status = x.status /\ y.by = "hit"

CacheGood(x) ==
  /\ x.pc \notin {"idle", "done", "gone"} => x.scope[1] = x.api
  /\ HitSound(x)
  /\ \A w \in x.recording : Honest(w.key, w)

CacheInv ==
  /\ world \in Worlds
  /\ \A w \in writes : Honest(w.key, w) /\ w.resp.complete
  /\ \A k \in DOMAIN entries : Honest(k, entries[k]) /\ entries[k].resp.complete
  /\ \A r \in Requests : req[r].pc # "idle" => CacheGood(req[r])

\* The chain of a request depends on its route alone.
LEMMA ChainDecides ==
  ASSUME NEW x, NEW y, SameChain(x, y)
  PROVE  Api(y) = Api(x) /\ Q(y) = Q(x) /\ Def(y) = Def(x) /\ Source(y) = Source(x)
  <1>1. Api(y) = Api(x) /\ Q(y) = Q(x)
    BY DEF SameChain, Api, Q
  <1>2. Def(y) = Def(x)
    BY <1>1 DEF SameChain, Def
  <1> QED BY <1>1, <1>2 DEF Source

\* The key of a request names its upstream resource.
LEMMA KeyNamesSource ==
  ASSUME NEW x, x.scope[1] = x.api
  PROVE  Source(x) = SourceAt(KeyOf(x)[3], KeyOf(x)[4], KeyOf(x)[5])
  <1>1. Base(x.scope) = Api(x)
    BY DEF Base, Api
  <1>2. Chain(x.scope) = Def(x)
    BY <1>1 DEF Chain, Def
  <1>3. KeyOf(x)[3] = x.scope /\ KeyOf(x)[4] = Q(x).method /\ KeyOf(x)[5] = Q(x).path
    BY DEF KeyOf, CacheKey
  <1>4. UpstreamMethod(Def(x), [method |-> Q(x).method]) = UpstreamMethod(Def(x), Q(x))
    BY DEF UpstreamMethod
  <1> QED BY <1>2, <1>3, <1>4 DEF Source, SourceAt

\* The headers the response transform of a chain makes of a response's.
OutHeaders(d, resp) ==
  IF d.transform_headers = None THEN resp.headers
  ELSE ApplyRules((CHOOSE t \in d.transform_headers : TRUE).response, resp.headers)

\* A response is an answer whose headers went through the response transform.
LEMMA RespondIs ==
  ASSUME NEW x, NEW resp, NEW by
  PROVE  Respond(x, resp, by) =
           [Answered(x, resp.status, by) EXCEPT !.out = OutHeaders(Def(x), resp)]
  BY DEF Respond, OutHeaders

\* What a response becomes on its way out depends on the chain alone.
LEMMA RespondAgain ==
  ASSUME NEW x, DOMAIN x = Fields, NEW y, DOMAIN y = Fields, SameChain(x, y), NEW resp, NEW by
  PROVE  LET u == Respond(x, resp, by)
             v == Respond(y, resp, by)
         IN v.out = u.out /\ v.status = u.status /\ u.by = by /\ v.by = by /\ u.src = x.src
  <1> DEFINE h == OutHeaders(Def(x), resp)
             a == Answered(x, resp.status, by)
             b == Answered(y, resp.status, by)
  <1>1. Respond(x, resp, by) = [a EXCEPT !.out = h]
    BY RespondIs
  <1>2. Respond(y, resp, by) = [b EXCEPT !.out = h]
    <2>1. Def(y) = Def(x)
      BY ChainDecides
    <2> QED BY <2>1, RespondIs
  <1>3. /\ DOMAIN a = Fields /\ a.status = resp.status /\ a.by = by /\ a.src = x.src
        /\ DOMAIN b = Fields /\ b.status = resp.status /\ b.by = by
    BY DEF Answered, Fields
  <1> HIDE DEF a, b, h
  <1> QED BY <1>1, <1>2, <1>3 DEF Fields

\* So the same answers can leave the body transform of two requests of a chain.
LEMMA ReturnedAgain ==
  ASSUME NEW x, DOMAIN x = Fields, NEW y, DOMAIN y = Fields, SameChain(x, y), NEW resp,
         NEW u \in Returned(x, resp, "hit"), u.by = "hit"
  PROVE  /\ u.src = x.src
         /\ \E v \in Returned(y, resp, "hit") : v.out = u.out /\ v.status = u.status /\ v.by = "hit"
  <1>1. /\ BodyRules(y, "response") = BodyRules(x, "response")
        /\ MaxResponse(y) = MaxResponse(x)
    BY ChainDecides DEF BodyRules, MaxResponse
  <1>2. PICK rs : u = Respond(x, rs, "hit") /\ Respond(y, rs, "hit") \in Returned(y, resp, "hit")
    <2>1. CASE BodyRules(x, "response") = {} \/ resp.status < 200
      BY <1>1, <2>1 DEF Returned
    <2>2. CASE ~(BodyRules(x, "response") = {} \/ resp.status < 200)
      <3>1. u # Respond(x, JsonError(502), "transform")
        BY RespondAgain
      <3>2. PICK rule \in BodyRules(x, "response") :
              /\ resp.complete /\ resp.size <= MaxResponse(x)
              /\ u = Respond(x, [resp EXCEPT !.headers = SetFraming(rule, @)], "hit")
        BY <2>2, <3>1 DEF Returned
      <3>3. Respond(y, [resp EXCEPT !.headers = SetFraming(rule, @)], "hit") \in Returned(y, resp, "hit")
        BY <1>1, <2>2, <3>2 DEF Returned
      <3> QED BY <3>2, <3>3
    <2> QED BY <2>1, <2>2
  <1> QED BY <1>2, RespondAgain

\* A hit stays sound while only its history or its recording change.
LEMMA HitLasts ==
  ASSUME NEW x, DOMAIN x = Fields, NEW y, DOMAIN y = Fields, SameChain(x, y), HitSound(x),
         y.pc = x.pc, y.by = x.by, y.src = x.src, y.out = x.out, y.status = x.status
  PROVE  HitSound(y)
  <1> SUFFICES ASSUME y.pc = "done", y.by = "hit"
               PROVE  /\ y.src = {Source(y)}
                      /\ \E a \in world.answers :
                           \E v \in Returned(y, [a EXCEPT !.headers = With(StripHopByHop(@), HitTag)], "hit") :
                              v.out = y.out /\ v.status = y.status /\ v.by = "hit"
    BY Zenon DEF HitSound
  <1>1. y.src = {Source(y)}
    BY ChainDecides DEF HitSound
  <1>2. PICK a \in world.answers :
          \E u \in Returned(x, [a EXCEPT !.headers = With(StripHopByHop(@), HitTag)], "hit") :
             u.out = x.out /\ u.status = x.status /\ u.by = "hit"
    BY DEF HitSound
  <1> DEFINE resp == [a EXCEPT !.headers = With(StripHopByHop(@), HitTag)]
  <1>3. PICK u \in Returned(x, resp, "hit") : u.out = x.out /\ u.status = x.status /\ u.by = "hit"
    BY <1>2
  <1> HIDE DEF resp
  <1>4. \E v \in Returned(y, resp, "hit") : v.out = u.out /\ v.status = u.status /\ v.by = "hit"
    BY <1>3, ReturnedAgain
  <1> QED BY <1>1, <1>3, <1>4 DEF resp

\* What the cache invariant says of a request, a key and an entry depends on the
\* deployment alone.
LEMMA CacheLasts ==
  ASSUME UNCHANGED world, NEW x, NEW k, NEW e
  PROVE  (CacheGood(x)' <=> CacheGood(x)) /\ (Honest(k, e)' <=> Honest(k, e))
  <1>1. \A z : Q(z)' = Q(z) /\ Api(z)' = Api(z)
    BY DEF Q, Api
  <1>2. \A z : Def(z)' = Def(z)
    BY <1>1 DEF Def
  <1>3. \A s : Base(s)' = Base(s)
    BY DEF Base
  <1>4. \A s : Chain(s)' = Chain(s)
    BY <1>3 DEF Chain
  <1>5. \A s, m, p : SourceAt(s, m, p)' = SourceAt(s, m, p)
    BY <1>4 DEF SourceAt
  <1>6. \A j, f : Honest(j, f)' <=> Honest(j, f)
    BY <1>5 DEF Honest, Storable
  <1>7. Source(x)' = Source(x)
    BY <1>1, <1>2 DEF Source
  <1>8. \A z, rs, b : Respond(z, rs, b)' = Respond(z, rs, b)
    <2> SUFFICES ASSUME NEW z, NEW rs, NEW b
                 PROVE  Respond(z, rs, b)' = Respond(z, rs, b)
      OBVIOUS
    <2>1. Respond(z, rs, b)' = [Answered(z, rs.status, b) EXCEPT !.out = OutHeaders(Def(z)', rs)]
      BY DEF Respond, OutHeaders, Answered
    <2> QED BY <1>2, <2>1, RespondIs
  <1>9. \A rs, b : Returned(x, rs, b)' = Returned(x, rs, b)
    <2>1. BodyRules(x, "response")' = BodyRules(x, "response") /\ MaxResponse(x)' = MaxResponse(x)
      BY <1>1, <1>2 DEF BodyRules, MaxResponse
    <2> QED BY <1>8, <2>1 DEF Returned
  <1>10. HitSound(x)' <=> HitSound(x)
    BY <1>7, <1>9 DEF HitSound
  <1> QED BY <1>6, <1>10 DEF CacheGood

\* A step that records nothing and is no hit.
LEMMA UnrecordedGood ==
  ASSUME NEW x, CacheGood(x), NEW y, Unrecorded(x, y)
  PROVE  CacheGood(y)
  BY DEF CacheGood, Unrecorded, SameRoute, HitSound

\* A set of no or one version name, as a sequence.
LEMMA SeqOfOption ==
  /\ SetToSeq({}) = <<>>
  /\ \A n : SetToSeq({n}) = <<n>>
  <1>1. SetToSeq({}) = <<>>
    <2>1. Cardinality({}) = 0
      BY FS_EmptySet
    <2>2. (\A f \in [1..0 -> {}] : f = <<>>) /\ <<>> \in [1..0 -> {}]
      OBVIOUS
    <2>3. IsInjective(<<>>)
      BY DEF IsInjective
    <2> QED BY <2>1, <2>2, <2>3 DEF SetToSeq
  <1>2. ASSUME NEW n PROVE SetToSeq({n}) = <<n>>
    <2>1. Cardinality({n}) = 1
      BY FS_Singleton
    <2>2. (\A f \in [1..1 -> {n}] : f = <<n>>) /\ <<n>> \in [1..1 -> {n}]
      OBVIOUS
    <2>3. IsInjective(<<n>>)
      BY DEF IsInjective
    <2> QED BY <2>1, <2>2, <2>3 DEF SetToSeq
  <1> QED BY <1>1, <1>2

\* A request runs under at most one version.
LEMMA OneVersion ==
  ASSUME world \in Worlds, NEW d \in world.defs, NEW q \in DOMAIN world.inputs, NEW t
  PROVE  Option(UNION {Version(v, world.inputs[q], t) : v \in d.versioning})
  <1>1. /\ Option(d.versioning) /\ \A v \in d.versioning : Option(v.default)
        /\ Option(world.inputs[q].version)
    BY WorldsAssumption
  <1>2. \A v \in d.versioning : Version(v, world.inputs[q], t) \subseteq RequestedVersion(v, world.inputs[q])
    BY DEF Version
  <1> QED BY <1>1, <1>2 DEF Option, RequestedVersion

\* A request that enters its inner chain has a scope that starts with its API.
LEMMA ScopeNamesApi ==
  ASSUME world \in Worlds, NEW x, DOMAIN x = Fields, x.q \in DOMAIN world.inputs,
         x.by = "none", x.recording = {}, Api(x) \in world.defs
  PROVE  LET y == OuterStep(x)
         IN /\ y.pc = "done" \/ y.scope[1] = x.api
            /\ DOMAIN y = Fields /\ y.api = x.api /\ y.recording = {} /\ y.by # "hit"
  <1> DEFINE y == OuterStep(x)
             names == UNION {Version(v, Q(x), now) : v \in Api(x).versioning}
  <1>1. \/ \E st : \E by \in {"ip", "version"} : y = Answered(x, st, by)
        \/ \E hs : y = [Answered(x, 204, "preflight") EXCEPT !.out = hs]
        \/ y = [x EXCEPT !.scope = <<x.api>> \o SetToSeq(names), !.pc = "gate"]
    <2>1. \/ VersionStep(x) = Answered(x, 403, "version")
          \/ VersionStep(x) = [x EXCEPT !.scope = <<x.api>> \o SetToSeq(names), !.pc = "gate"]
      BY Zenon DEF VersionStep
    <2>2. \/ y = Answered(x, 403, "ip") \/ y = VersionStep(x)
          \/ \E hs : y = [Answered(x, 204, "preflight") EXCEPT !.out = hs]
      BY Zenon DEF OuterStep
    <2> HIDE DEF y, names
    <2> QED BY <2>1, <2>2, Zenon
  <1>2. Option(names)
    BY OneVersion DEF Q
  <1> HIDE DEF y, names
  <1>3. names = {} \/ \E n : names = {n}
    <2>1. ASSUME NEW n \in names PROVE names = {n}
      BY <1>2 DEF Option
    <2> QED BY <2>1
  <1>4. (<<x.api>> \o SetToSeq(names))[1] = x.api
    <2>1. CASE names = {}
      BY <2>1, SeqOfOption
    <2>2. CASE \E n : names = {n}
      <3>1. PICK n : SetToSeq(names) = <<n>>
        BY <2>2, SeqOfOption
      <3> QED BY <3>1
    <2> QED BY <1>3, <2>1, <2>2
  <1>7. CASE \E hs : y = [Answered(x, 204, "preflight") EXCEPT !.out = hs]
    <2> DEFINE u == Answered(x, 204, "preflight")
    <2>1. Keeps(x, u) /\ Quiet(x, u) /\ u.pc = "done" /\ u.by = "preflight"
      BY AnswersKeep
    <2> HIDE DEF u
    <2>2. PICK hs : y = [u EXCEPT !.out = hs]
      BY <1>7 DEF u
    <2>3. DOMAIN y = Fields /\ y.api = x.api /\ y.recording = {} /\ y.by # "hit" /\ y.pc = "done"
      BY <2>1, <2>2 DEF Keeps, SameRoute, Quiet, Fields
    <2> QED BY <2>3 DEF y
  <1>5. CASE \E st : \E by \in {"ip", "version"} : y = Answered(x, st, by)
    <2>1. DOMAIN y = Fields /\ y.api = x.api /\ y.recording = {} /\ y.by # "hit" /\ y.pc = "done"
      BY <1>5, AnswersKeep DEF Keeps, SameRoute, Quiet
    <2> QED BY <2>1 DEF y
  <1>6. CASE y = [x EXCEPT !.scope = <<x.api>> \o SetToSeq(names), !.pc = "gate"]
    <2> DEFINE sc == <<x.api>> \o SetToSeq(names)
    <2>1. sc[1] = x.api
      BY <1>4
    <2>2. y = [x EXCEPT !.scope = sc, !.pc = "gate"]
      BY <1>6
    <2> HIDE DEF sc
    <2>3. /\ y.scope[1] = x.api
          /\ DOMAIN y = Fields /\ y.api = x.api /\ y.recording = {} /\ y.by # "hit"
      BY <2>1, <2>2 DEF Fields
    <2> QED BY <2>3 DEF y
  <1> QED BY <1>1, <1>5, <1>6, <1>7

\* `Gateway::handle` records nothing and is no hit.
LEMMA ArriveCached ==
  ASSUME world \in Worlds, NEW r \in Requests, Arrive(r)
  PROVE  \E y : CacheGood(y) /\ Move(r, y)
  <1>1. PICK q \in DOMAIN world.inputs :
          LET hits == MatchPath(world.defs, world.inputs[q].path)
              x == IF world.inputs[q].path \in HealthPaths THEN Answered(Fresh(q), 200, "route")
                   ELSE IF hits = {} THEN Answered(Fresh(q), 404, "route")
                   ELSE OuterStep([Fresh(q) EXCEPT !.api = (CHOOSE d \in hits : TRUE).api_id])
          IN Move(r, [x EXCEPT !.dead = Dead(x, sessions, now)])
    BY DEF Arrive
  <1> DEFINE hits == MatchPath(world.defs, world.inputs[q].path)
             id == (CHOOSE d \in hits : TRUE).api_id
             f == Fresh(q)
             x == [f EXCEPT !.api = id]
  <1>2. DOMAIN f = Fields /\ f.by = "none" /\ f.recording = {} /\ f.q = q
    BY DEF Fresh, Fields, None
  <1>3. PICK u : /\ Move(r, [u EXCEPT !.dead = Dead(u, sessions, now)])
                 /\ \/ \E st : u = Answered(f, st, "route")
                    \/ hits # {} /\ u = OuterStep(x)
    BY <1>1, Zenon
  <1> HIDE DEF f, id
  <1>4. /\ DOMAIN u = Fields /\ u.recording = {} /\ u.by # "hit"
        /\ u.pc = "done" \/ u.scope[1] = u.api
    <2>1. CASE \E st : u = Answered(f, st, "route")
      BY <1>2, <2>1, AnswersKeep DEF Keeps, Quiet
    <2>2. CASE hits # {} /\ u = OuterStep(x)
      <3>1. DOMAIN x = Fields /\ x.by = "none" /\ x.recording = {} /\ x.q = q /\ x.api = id
        BY <1>2 DEF Fields
      <3> HIDE DEF x
      <3>2. \E d \in world.defs : d.api_id = id /\ id # "none"
        BY <2>2, WorldsAssumption DEF MatchPath, id
      <3>3. Api(x) \in world.defs
        BY <3>1, <3>2 DEF Api
      <3> QED BY <2>2, <3>1, <3>3, ScopeNamesApi
    <2> QED BY <1>3, <2>1, <2>2
  <1> DEFINE z == [u EXCEPT !.dead = Dead(u, sessions, now)]
  <1>5. /\ z.pc = u.pc /\ z.by = u.by /\ z.recording = {} /\ z.scope = u.scope /\ z.api = u.api
    BY <1>4 DEF Fields
  <1> HIDE DEF z
  <1>6. CacheGood(z)
    BY <1>4, <1>5 DEF CacheGood, HitSound
  <1> QED BY <1>3, <1>6 DEF z

\* `Cache::call`: what an honest entry answers is what a miss could return.
LEMMA CacheGetCached ==
  ASSUME Requested, CacheInv, NEW r \in Requests, CacheGet(r)
  PROVE  \E y : CacheGood(y) /\ Move(r, y)
  <1> DEFINE x == req[r]
             live == {e \in At(entries, KeyOf(x)) : now < e.expires}
  <1>1. Good(x) /\ x.pc = "cache" /\ CacheGood(x)
    BY DEF Requested, CacheInv, CacheGet
  <1>2. \/ \E e \in live : \E y \in Returned([x EXCEPT !.src = Some(e.src)],
                                [e.resp EXCEPT !.headers = With(@, HitTag)], "hit") : Move(r, y)
        \/ Move(r, Goto(x, "forward"))
    BY Zenon DEF CacheGet, HitTag
  <1>3. \A e \in live : KeyOf(x) \in DOMAIN entries /\ e = entries[KeyOf(x)]
    BY DEF At, None
  <1>4. \A e \in live : Honest(KeyOf(x), e)
    BY <1>3 DEF CacheInv
  <1> HIDE DEF x, live
  <1>5. CASE Move(r, Goto(x, "forward"))
    <2> DEFINE y == Goto(x, "forward")
    <2>1. Keeps(x, y) /\ Quiet(x, y) /\ y.pc = "forward"
      BY <1>1, GotoKeeps DEF Good
    <2> HIDE DEF y
    <2>2. Unrecorded(x, y)
      BY <1>1, <2>1 DEF Unrecorded, Keeps, Quiet
    <2>3. CacheGood(y)
      BY <1>1, <2>2, UnrecordedGood
    <2> QED BY <1>5, <2>3 DEF y
  <1>6. ASSUME NEW e \in live, NEW y, Move(r, y),
               y \in Returned([x EXCEPT !.src = Some(e.src)], [e.resp EXCEPT !.headers = With(@, HitTag)], "hit")
        PROVE  CacheGood(y)
    <2> DEFINE z == [x EXCEPT !.src = Some(e.src)]
    <2>1. DOMAIN z = Fields /\ Keeps(x, z) /\ Quiet(x, z) /\ z.src = {e.src}
      BY <1>1 DEF Good, Keeps, Quiet, SameRoute, SameBill, Fields, Some
    <2>2. PICK a \in world.answers : e.resp = [a EXCEPT !.headers = StripHopByHop(a.headers)]
      BY <1>4 DEF Honest, Storable
    <2>3. DOMAIN a = {"status", "headers", "size", "complete"}
      BY WorldsAssumption DEF CacheInv
    <2>4. [e.resp EXCEPT !.headers = With(@, HitTag)] = [a EXCEPT !.headers = With(StripHopByHop(@), HitTag)]
      <3> DEFINE h == StripHopByHop(a.headers)
                 g == With(h, HitTag)
      <3>1. e.resp.headers = h /\ e.resp = [a EXCEPT !.headers = h]
        BY <2>2, <2>3
      <3> HIDE DEF h
      <3>2. [e.resp EXCEPT !.headers = With(@, HitTag)] = [e.resp EXCEPT !.headers = g]
        BY <3>1
      <3> HIDE DEF g
      <3>3. [e.resp EXCEPT !.headers = g] = [a EXCEPT !.headers = g]
        BY <2>3, <3>1
      <3> QED BY <3>2, <3>3 DEF g, h
    <2> DEFINE rs == [a EXCEPT !.headers = With(StripHopByHop(@), HitTag)]
    <2>5. y \in Returned(z, rs, "hit")
      BY <1>6, <2>4
    <2> HIDE DEF z, rs
    <2>6. Keeps(z, y) /\ Quiet(z, y) /\ y.pc = "done" /\ y.by \in {"hit", "transform"}
      BY <2>1, <2>5, ReturnedKeeps
    <2>7. SameChain(z, y) /\ SameChain(x, y) /\ DOMAIN y = Fields /\ y.recording = x.recording
      BY <2>1, <2>6 DEF SameChain, Keeps, SameRoute, Quiet
    <2>8. e.src = Source(x)
      BY <1>1, <1>4, KeyNamesSource DEF CacheGood, Honest
    <2>9. ASSUME y.by = "hit"
          PROVE  /\ y.src = {Source(y)}
                 /\ \E v \in Returned(y, rs, "hit") : v.out = y.out /\ v.status = y.status /\ v.by = "hit"
      <3>1. Source(y) = Source(x)
        BY <2>7, ChainDecides
      <3>2. /\ y.src = z.src
            /\ \E v \in Returned(y, rs, "hit") : v.out = y.out /\ v.status = y.status /\ v.by = "hit"
        BY <2>1, <2>5, <2>7, <2>9, ReturnedAgain
      <3> QED BY <2>1, <2>8, <3>1, <3>2
    <2>10. HitSound(y)
      BY <2>9, Zenon DEF HitSound, rs
    <2> QED BY <1>1, <2>6, <2>7, <2>10 DEF CacheGood
  <1> QED BY <1>2, <1>5, <1>6

\* A successful response is no upgrade.
LEMMA SuccessIsNoUpgrade == \A status \in 200..299 : status # 101
  OBVIOUS

\* An upstream answer as the forwarder hands it up.
Stripped(a, more) == [a EXCEPT !.headers = With(StripHopByHop(a.headers), more)]

\* A recording holds what the upstream answered, under the request's own key.
LEMMA RecordsHonestly ==
  ASSUME NEW x, x.scope[1] = x.api, NEW a \in world.answers,
         DOMAIN a = {"status", "headers", "size", "complete"}, NEW more, a.status # 101 => more = <<>>,
         NEW w \in Recordable(x, Stripped(a, more))
  PROVE  Honest(w.key, w) /\ w.resp.complete = a.complete
  <1> DEFINE resp == Stripped(a, more)
  <1> HIDE DEF resp
  <1>1. /\ w.key = KeyOf(x) /\ w.src = Source(x) /\ w.resp = resp
        /\ resp.status \in 200..299 /\ "set-cookie" \notin DOMAIN resp.headers
    BY DEF Recordable, resp
  <1> DEFINE h == StripHopByHop(a.headers)
  <1>2. With(h, <<>>) = h
    BY DEF With, StripHopByHop, Without
  <1> HIDE DEF h
  <1>3. resp = [a EXCEPT !.headers = With(h, more)]
    BY DEF h, resp, Stripped
  <1>4. resp.status = a.status /\ resp.complete = a.complete
    BY <1>3
  <1>5. resp = [a EXCEPT !.headers = h]
    <2>1. a.status # 101
      BY <1>1, <1>4, SuccessIsNoUpgrade, Zenon
    <2> QED BY <1>2, <1>3, <2>1
  <1>6. Storable(resp)
    BY <1>1, <1>5 DEF Storable, h
  <1>7. Source(x) = SourceAt(KeyOf(x)[3], KeyOf(x)[4], KeyOf(x)[5])
    BY KeyNamesSource
  <1> QED BY <1>1, <1>4, <1>6, <1>7 DEF Honest

\* The writes a step may leave: honest ones of whole bodies.
WritesGood(ws) == \A w \in ws : Honest(w.key, w) /\ w.resp.complete

\* `record_if_cacheable` records and spawns honest writes only.
LEMMA ReceiveCached ==
  ASSUME Requested, CacheInv, NEW r \in Requests, Receive(r)
  PROVE  \E y : CacheGood(y) /\ Move(r, y) /\ WritesGood(writes')
  <1> DEFINE x == req[r]
             more(a) == IF a.status = 101 THEN Header("connection", <<"upgrade">>) ELSE <<>>
             rs(a) == [a EXCEPT !.headers = With(StripHopByHop(@), more(a))]
  <1>1. Good(x) /\ x.pc = "upstream" /\ CacheGood(x) /\ WritesGood(writes)
    BY DEF Requested, CacheInv, Receive, WritesGood
  <1>2. \/ \E a \in world.answers : \E y \in Returned(x, rs(a), "upstream") : \E rec :
             /\ rec = {} \/ rec = Recordable(x, rs(a))
             /\ Move(r, [y EXCEPT !.recording = rec])
             /\ writes' = writes \/ (a.complete /\ writes' = writes \cup Recordable(x, rs(a)))
        \/ \E resp : \E y \in Returned(x, resp, "error") : Move(r, y) /\ writes' = writes
    <2>1. ASSUME NEW a \in world.answers, NEW y \in Returned(x, rs(a), "upstream"),
                 Move(r, [y EXCEPT !.recording =
                            IF BodyRules(x, "response") # {} THEN None ELSE Recordable(x, rs(a))]),
                 \/ writes' = writes \cup (IF BodyRules(x, "response") # {} /\ a.complete
                                           THEN Recordable(x, rs(a)) ELSE {})
                 \/ UNCHANGED writes
          PROVE  \E rec :
                   /\ rec = {} \/ rec = Recordable(x, rs(a))
                   /\ Move(r, [y EXCEPT !.recording = rec])
                   /\ writes' = writes \/ (a.complete /\ writes' = writes \cup Recordable(x, rs(a)))
      <3> DEFINE rr == Recordable(x, rs(a))
      <3> HIDE DEF rr
      <3>1. writes' = writes \/ (a.complete /\ writes' = writes \cup rr)
        BY <2>1 DEF rr
      <3>2. \E rec : (rec = {} \/ rec = rr) /\ Move(r, [y EXCEPT !.recording = rec])
        BY <2>1, Zenon DEF rr, None
      <3> QED BY <3>1, <3>2 DEF rr
    <2>2. \/ \E a \in world.answers : \E y \in Returned(x, rs(a), "upstream") :
               /\ Move(r, [y EXCEPT !.recording =
                             IF BodyRules(x, "response") # {} THEN None ELSE Recordable(x, rs(a))])
               /\ \/ writes' = writes \cup (IF BodyRules(x, "response") # {} /\ a.complete
                                            THEN Recordable(x, rs(a)) ELSE {})
                  \/ UNCHANGED writes
          \/ \E resp : \E y \in Returned(x, resp, "error") : Move(r, y) /\ writes' = writes
      <3>1. CASE \E a \in {a \in world.answers : a.status = 101 => Upgrading(x)} :
                   \E y \in Returned(x, rs(a), "upstream") :
                     /\ Move(r, [y EXCEPT !.recording =
                                   IF BodyRules(x, "response") # {} THEN None ELSE Recordable(x, rs(a))])
                     /\ \/ writes' = writes \cup (IF BodyRules(x, "response") # {} /\ a.complete
                                                  THEN Recordable(x, rs(a)) ELSE {})
                        \/ /\ (IF BodyRules(x, "response") # {} /\ a.complete
                                THEN Recordable(x, rs(a)) ELSE {}) # {}
                           /\ a.size > MaxResponse(x) /\ UNCHANGED writes
        <4> HIDE DEF x, rs, more
        <4> QED BY <3>1
      <3>2. CASE \E status \in {502, 504} \cup (IF BodyTooLarge(Def(x), Q(x)) THEN {413} ELSE {}) :
                   \E y \in Returned(x, JsonError(status), "error") : Move(r, y) /\ UNCHANGED writes
        <4> HIDE DEF x, rs, more
        <4> QED BY <3>2
      <3> QED BY <3>1, <3>2, Zenon DEF Receive
    <2> HIDE DEF x, rs, more
    <2>3. CASE \E a \in world.answers : \E y \in Returned(x, rs(a), "upstream") :
               /\ Move(r, [y EXCEPT !.recording =
                             IF BodyRules(x, "response") # {} THEN None ELSE Recordable(x, rs(a))])
               /\ \/ writes' = writes \cup (IF BodyRules(x, "response") # {} /\ a.complete
                                            THEN Recordable(x, rs(a)) ELSE {})
                  \/ UNCHANGED writes
      BY <2>1, <2>3, Zenon
    <2> QED BY <2>2, <2>3, Zenon
  <1> HIDE DEF x
  <1>3. ASSUME NEW a \in world.answers, NEW y \in Returned(x, rs(a), "upstream"), NEW rec,
               rec = {} \/ rec = Recordable(x, rs(a)), Move(r, [y EXCEPT !.recording = rec]),
               writes' = writes \/ (a.complete /\ writes' = writes \cup Recordable(x, rs(a)))
        PROVE  \E z : CacheGood(z) /\ Move(r, z) /\ WritesGood(writes')
    <2> DEFINE resp == rs(a)
               z == [y EXCEPT !.recording = rec]
    <2>1. DOMAIN a = {"status", "headers", "size", "complete"}
      BY WorldsAssumption DEF CacheInv
    <2>2. x.scope[1] = x.api
      BY <1>1 DEF CacheGood
    <2>3. \A w \in Recordable(x, resp) : Honest(w.key, w) /\ w.resp.complete = a.complete
      <3>1. resp = Stripped(a, more(a)) /\ (a.status # 101 => more(a) = <<>>)
        BY DEF Stripped
      <3>2. PICK m : resp = Stripped(a, m) /\ (a.status # 101 => m = <<>>)
        BY <3>1, Zenon
      <3> HIDE DEF resp, more, x
      <3>3. ASSUME NEW w \in Recordable(x, resp)
            PROVE  Honest(w.key, w) /\ w.resp.complete = a.complete
        BY <2>1, <2>2, <3>2, RecordsHonestly
      <3> QED BY <3>3
    <2>4. Keeps(x, y) /\ Quiet(x, y) /\ y.pc = "done" /\ y.by \in {"upstream", "transform"}
      BY <1>1, ReturnedKeeps DEF Good
    <2>5. z.pc = "done" /\ z.by # "hit" /\ z.recording = rec
      BY <2>4 DEF Keeps, Fields
    <2> HIDE DEF z
    <2>6. CacheGood(z)
      BY <1>3, <2>3, <2>5 DEF CacheGood, HitSound
    <2>7. WritesGood(writes')
      BY <1>1, <1>3, <2>3 DEF WritesGood
    <2> QED BY <1>3, <2>6, <2>7 DEF z
  <1>4. ASSUME NEW resp, NEW y \in Returned(x, resp, "error"), Move(r, y), writes' = writes
        PROVE  CacheGood(y) /\ WritesGood(writes')
    <2>1. Keeps(x, y) /\ Quiet(x, y) /\ y.pc = "done" /\ y.by \in {"error", "transform"}
      BY <1>1, ReturnedKeeps DEF Good
    <2>2. Unrecorded(x, y)
      BY <1>1, <2>1 DEF Unrecorded, Keeps, Quiet
    <2> QED BY <1>1, <1>4, <2>2, UnrecordedGood
  <1> QED
    <2> HIDE DEF rs, more
    <2>1. CASE \E a \in world.answers : \E y \in Returned(x, rs(a), "upstream") : \E rec :
             /\ rec = {} \/ rec = Recordable(x, rs(a))
             /\ Move(r, [y EXCEPT !.recording = rec])
             /\ writes' = writes \/ (a.complete /\ writes' = writes \cup Recordable(x, rs(a)))
      BY <1>3, <2>1, Zenon
    <2>2. CASE \E resp : \E y \in Returned(x, resp, "error") : Move(r, y) /\ writes' = writes
      BY <1>4, <2>2, Zenon
    <2> QED BY <1>2, <2>1, <2>2

\* The end of a streamed body writes what was recorded, if the body was whole.
LEMMA StreamCached ==
  ASSUME Requested, CacheInv, NEW r \in Requests, StreamEnd(r) \/ StreamCut(r)
  PROVE  \E y : CacheGood(y) /\ Move(r, y) /\ WritesGood(writes')
  <1> DEFINE x == req[r]
             y == [x EXCEPT !.recording = None]
  <1>1. Good(x) /\ x.pc = "done" /\ Move(r, y) /\ CacheGood(x) /\ WritesGood(writes)
    BY DEF Requested, CacheInv, StreamEnd, StreamCut, WritesGood
  <1>2. writes' = writes \/ writes' = writes \cup {w \in x.recording : w.resp.complete}
    BY DEF StreamEnd, StreamCut
  <1> HIDE DEF x
  <1>3. /\ DOMAIN x = Fields /\ DOMAIN y = Fields /\ SameChain(x, y) /\ y.recording = {}
        /\ y.pc = x.pc /\ y.by = x.by /\ y.src = x.src /\ y.out = x.out /\ y.status = x.status
    BY <1>1 DEF Good, SameChain, Fields, None
  <1> HIDE DEF y
  <1>4. HitSound(y)
    BY <1>1, <1>3, HitLasts DEF CacheGood
  <1>5. CacheGood(y)
    BY <1>1, <1>3, <1>4 DEF CacheGood
  <1>6. WritesGood(writes')
    BY <1>1, <1>2 DEF WritesGood, CacheGood
  <1> QED BY <1>1, <1>5, <1>6

\* The CORS layer leaves the inner answer and the recording alone.
LEMMA LeaveCached ==
  ASSUME Requested, CacheInv, NEW r \in Requests, Leave(r)
  PROVE  \E y : CacheGood(y) /\ Move(r, y)
  <1> DEFINE x == req[r]
  <1>1. PICK hs : Good(x) /\ x.pc = "done" /\ CacheGood(x) /\ Move(r, [x EXCEPT !.left = hs])
    BY DEF Requested, CacheInv, Leave, Leaving
  <1> DEFINE y == [x EXCEPT !.left = hs]
  <1> HIDE DEF x
  <1>2. /\ DOMAIN x = Fields /\ DOMAIN y = Fields /\ SameChain(x, y) /\ y.recording = x.recording
        /\ y.pc = x.pc /\ y.by = x.by /\ y.src = x.src /\ y.out = x.out /\ y.status = x.status
    BY <1>1 DEF Good, SameChain, Fields
  <1> HIDE DEF y
  <1>3. HitSound(y)
    BY <1>1, <1>2, HitLasts DEF CacheGood
  <1>4. CacheGood(y)
    BY <1>1, <1>2, <1>3 DEF CacheGood
  <1> QED BY <1>1, <1>4 DEF y

\* Every step of a request keeps its part of the cache invariant.
LEMMA StepCached ==
  ASSUME Requested, CacheInv, NEW r \in Requests, Step(r)
  PROVE  /\ \E y : CacheGood(y) /\ Move(r, y)
         /\ WritesGood(writes') /\ UNCHANGED <<world, entries>>
  <1>1. UNCHANGED <<world, entries>>
    BY DEF Step, Arrive, Gate, Authenticate, LookupSession, LookupPolicy, CheckEndpoint, Guard,
       CheckRate, CheckQuota, CheckSession, Below, Dispatch, CacheGet, Send, Receive, Leave, StreamEnd,
       StreamCut, Disconnect
  <1>2. CASE Receive(r) \/ StreamEnd(r) \/ StreamCut(r)
    BY <1>1, <1>2, ReceiveCached, StreamCached
  <1>3. CASE ~(Receive(r) \/ StreamEnd(r) \/ StreamCut(r))
    <2>1. writes' = writes
      BY <1>3 DEF Step, Arrive, Gate, Authenticate, LookupSession, LookupPolicy, CheckEndpoint, Guard,
         CheckRate, CheckQuota, CheckSession, Below, Dispatch, CacheGet, Send, Leave, Disconnect
    <2>2. WritesGood(writes')
      BY <2>1 DEF CacheInv, WritesGood
    <2>3. CASE Arrive(r)
      BY <1>1, <2>2, <2>3, ArriveCached DEF CacheInv
    <2>4. CASE CacheGet(r)
      BY <1>1, <2>2, <2>4, CacheGetCached
    <2>6. CASE Leave(r)
      BY <1>1, <2>2, <2>6, LeaveCached
    <2>5. CASE ~(Arrive(r) \/ CacheGet(r) \/ Leave(r))
      <3>1. \E y : Move(r, y) /\ Unrecorded(req[r], y)
        BY <1>3, <2>5, GateGood, AuthenticateGood, LookupSessionGood, LookupPolicyGood,
           CheckEndpointGood, GuardGood, CheckRateGood, CheckQuotaGood, BelowGood, DispatchGood, SendGood,
           DisconnectGood, Zenon DEF Step
      <3>2. PICK y : Move(r, y) /\ Unrecorded(req[r], y)
        BY <3>1
      <3>3. CacheGood(req[r])
        BY <3>2 DEF Unrecorded, CacheInv
      <3> QED BY <1>1, <2>2, <3>2, <3>3, UnrecordedGood
    <2> QED BY <2>3, <2>4, <2>5, <2>6
  <1> QED BY <1>2, <1>3

\* A request that sees an edit or a tick is the same to the cache.
LEMMA ObservedCached ==
  ASSUME NEW x, DOMAIN x = Fields, CacheGood(x), NEW b,
         NEW y, y = [x EXCEPT !.steady = FALSE, !.dead = b]
  PROVE  CacheGood(y)
  <1>1. /\ DOMAIN y = Fields /\ SameChain(x, y) /\ y.recording = x.recording
        /\ y.pc = x.pc /\ y.by = x.by /\ y.src = x.src /\ y.out = x.out /\ y.status = x.status
    BY DEF SameChain, Fields
  <1>2. HitSound(y)
    BY <1>1, HitLasts DEF CacheGood
  <1> QED BY <1>1, <1>2 DEF CacheGood, SameChain

\* The cache invariant is inductive.
LEMMA CacheStays ==
  ASSUME Requested, CacheInv, [Next]_vars
  PROVE  CacheInv'
  <1>1. /\ UNCHANGED world
        /\ WritesGood(writes')
        /\ \A k \in DOMAIN entries' : Honest(k, entries'[k]) /\ entries'[k].resp.complete
        /\ \A s \in Requests : req'[s].pc # "idle" => CacheGood(req'[s])
    <2>0. /\ \A k \in DOMAIN entries : Honest(k, entries[k]) /\ entries[k].resp.complete
          /\ WritesGood(writes)
          /\ \A s \in Requests : req[s].pc # "idle" => CacheGood(req[s])
      BY DEF CacheInv, WritesGood
    <2>1. ASSUME NEW r \in Requests, Step(r)
          PROVE  /\ UNCHANGED <<world, entries>> /\ WritesGood(writes')
                 /\ \A s \in Requests : req'[s].pc # "idle" => CacheGood(req'[s])
      <3>1. PICK y : CacheGood(y) /\ Move(r, y)
        BY <2>1, StepCached
      <3>2. UNCHANGED <<world, entries>> /\ WritesGood(writes')
        BY <2>1, StepCached
      <3>3. \A s \in Requests : req'[s] = IF s = r THEN y ELSE req[s]
        BY <3>1 DEF Move, Requested
      <3> QED BY <2>0, <3>1, <3>2, <3>3
    <2>2. CASE Load \/ (\E key \in DOMAIN counters : WindowElapses(key)) \/ UNCHANGED vars
      <3>1. UNCHANGED <<world, entries, writes, req>>
        BY <2>2 DEF Load, WindowElapses, vars
      <3> QED BY <2>0, <3>1
    <2>3. ASSUME NEW w \in writes, WriteCache(w)
          PROVE  /\ UNCHANGED <<world, req>> /\ writes' \subseteq writes
                 /\ \A k \in DOMAIN entries' : Honest(k, entries'[k]) /\ entries'[k].resp.complete
      <3>1. UNCHANGED <<world, req>> /\ writes' \subseteq writes
        BY <2>3 DEF WriteCache
      <3> DEFINE e == [resp |-> w.resp, src |-> w.src, expires |-> now + w.ttl]
                 f == [key \in {w.key} |-> e]
      <3>2. entries' = With(entries, f) \/ entries' = entries
        BY <2>3 DEF WriteCache
      <3>3. Honest(w.key, e) /\ e.resp.complete
        BY <2>0 DEF Honest, WritesGood
      <3> HIDE DEF e
      <3>4. CASE entries' = With(entries, f)
        <4>1. \A k \in DOMAIN entries' : entries'[k] = (IF k = w.key THEN e ELSE entries[k]) /\ (k # w.key => k \in DOMAIN entries)
          BY <3>4 DEF With
        <4> QED BY <2>0, <3>1, <3>3, <4>1
      <3> QED BY <2>0, <3>1, <3>2, <3>4
    <2>4. CASE Admin \/ Tick
      <3>1. UNCHANGED <<world, entries, writes>> /\ Observe
        BY <2>4 DEF Admin, Tick
      <3>2. ASSUME NEW s \in Requests, req'[s].pc # "idle"
            PROVE  CacheGood(req'[s])
        <4>1. CASE req[s].pc = "idle"
          BY <3>1, <3>2, <4>1 DEF Observe
        <4>2. CASE req[s].pc # "idle"
          <5>1. PICK b : req'[s] = [req[s] EXCEPT !.steady = FALSE, !.dead = b]
            BY <3>1, <4>2 DEF Observe
          <5>2. DOMAIN req[s] = Fields /\ CacheGood(req[s])
            BY <2>0, <4>2 DEF Requested, Good
          <5> QED BY <5>1, <5>2, ObservedCached
        <4> QED BY <4>1, <4>2
      <3> QED BY <2>0, <3>1, <3>2
    <2> QED BY <2>0, <2>1, <2>2, <2>3, <2>4 DEF Next, WritesGood
  <1>2. ASSUME NEW k, NEW e, Honest(k, e)
        PROVE  Honest(k, e)'
    BY <1>1, <1>2, CacheLasts
  <1>3. ASSUME NEW x, CacheGood(x)
        PROVE  CacheGood(x)'
    BY <1>1, <1>3, CacheLasts
  <1>4. ASSUME NEW w \in writes'
        PROVE  (Honest(w.key, w) /\ w.resp.complete)'
    BY <1>1, <1>2 DEF WritesGood
  <1>5. ASSUME NEW k \in DOMAIN entries'
        PROVE  (Honest(k, entries[k]) /\ entries[k].resp.complete)'
    <2>1. PICK e : e = entries'[k]
      OBVIOUS
    <2>2. Honest(k, e)' /\ e.resp.complete
      BY <1>1, <1>2, <2>1
    <2> QED BY <2>1, <2>2
  <1>6. ASSUME NEW s \in Requests, req'[s].pc # "idle"
        PROVE  CacheGood(req[s])'
    <2>1. PICK x : x = req'[s]
      OBVIOUS
    <2>2. CacheGood(x)'
      BY <1>1, <1>3, <1>6, <2>1
    <2> QED BY <2>1, <2>2
  <1> QED BY <1>1, <1>4, <1>5, <1>6 DEF CacheInv

\* What is stored, being written or recorded is always an honest response.
LEMMA CacheStaysHonest == Spec => []CacheInv
  <1>1. Init => CacheInv
    BY DEF Init, CacheInv
  <1>2. Requested /\ CacheInv /\ [Next]_vars => CacheInv'
    BY CacheStays
  <1> QED BY <1>1, <1>2, RequestsStayGood, PTL DEF Spec

\* The cache is invisible but for its tag (cache.rs): a hit is what a miss of the
\* same request could have returned, run through the response transforms once,
\* and only whole, successful responses that set no cookie are ever stored.
THEOREM HitsMatchMisses == Spec => []CacheSound
  <1>1. Requested /\ CacheInv => CacheSound
    <2> SUFFICES ASSUME Requested, CacheInv PROVE CacheSound
      OBVIOUS
    <2>1. ASSUME NEW r \in Requests, req[r].pc = "done" PROVE HitSound(req[r])
      BY <2>1 DEF CacheInv, CacheGood
    <2>2. ASSUME NEW e \in writes \cup {entries[k] : k \in DOMAIN entries}
          PROVE  e.resp.complete /\ e.resp.status \in 200..299 /\ "set-cookie" \notin DOMAIN e.resp.headers
      BY DEF CacheInv, Honest, Storable
    <2> QED BY <2>1, <2>2, Zenon DEF CacheSound, HitSound, HitTag
  <1> QED BY <1>1, RequestsStayGood, CacheStaysHonest, PTL

-----------------------------------------------------------------------------
(* Authentication against its specification.  While storage stands still a     *)
(* request is worth what its credential is worth, at every await of the chain. *)

UsableNow(x) == Usable(Api(x), Q(x), sessions, policies, now)

\* The token an API reads comes from one carrier, which holds at most one.
LEMMA TokenIsOption ==
  ASSUME NEW a, NEW q, Option(q.query_token)
  PROVE  Option(ExtractToken(a, q))
  <1> DEFINE first == HeaderValue(q, a.header)
             more == IF a.mode = "auth_token"
                     THEN <<IF a.query_param = None THEN {} ELSE q.query_token,
                            IF a.cookie = None THEN {} ELSE CookieValue(q)>>
                     ELSE <<>>
             carriers == <<first>> \o more
             held == {i \in DOMAIN carriers : carriers[i] \ {EmptyText} # {}}
  <1>1. ExtractToken(a, q) = IF held = {} THEN None ELSE carriers[Min(held)]
    BY DEF ExtractToken
  <1>0. Option(first) /\ Option(CookieValue(q))
    BY DEF HeaderValue, CookieValue, Some, None, Option
  <1> HIDE DEF first
  <1>2. /\ DOMAIN carriers \subseteq 1..3
        /\ \A i \in DOMAIN carriers : Option(carriers[i])
    <2>1. CASE a.mode = "auth_token"
      <3>1. PICK b, c : more = <<b, c>> /\ Option(b) /\ Option(c)
        <4>1. /\ Option(IF a.query_param = None THEN {} ELSE q.query_token)
              /\ Option(IF a.cookie = None THEN {} ELSE CookieValue(q))
          BY <1>0 DEF Option
        <4> QED BY <2>1, <4>1
      <3> HIDE DEF more
      <3>2. /\ Len(carriers) = 3 /\ DOMAIN carriers = 1..3
            /\ carriers[1] = first /\ carriers[2] = b /\ carriers[3] = c
        BY <3>1
      <3> QED BY <1>0, <2>1, <3>1, <3>2
    <2>2. CASE a.mode # "auth_token"
      <3>1. more = <<>>
        BY <2>2
      <3> HIDE DEF more
      <3>2. carriers = <<first>>
        BY <3>1
      <3> QED BY <1>0, <3>2
    <2> QED BY <2>1, <2>2
  <1> HIDE DEF carriers
  <1>3. held # {} => Min(held) \in DOMAIN carriers
    <2> SUFFICES ASSUME held # {} PROVE Min(held) \in held
      OBVIOUS
    <2>1. held \subseteq 1..3
      BY <1>2
    <2> HIDE DEF held
    <2>2. \E m \in held : \A n \in held : m <= n
      <3>1. CASE 1 \in held
        BY <2>1, <3>1
      <3>2. CASE 1 \notin held /\ 2 \in held
        BY <2>1, <3>2
      <3>3. CASE 1 \notin held /\ 2 \notin held
        <4>1. \A n \in held : n = 3
          BY <2>1, <3>3
        <4>2. 3 \in held /\ 3 <= 3
          BY <4>1
        <4> QED BY <4>1, <4>2, Zenon
      <3> QED BY <3>1, <3>2, <3>3
    <2> QED BY <2>2 DEF Min
  <1> HIDE DEF held
  <1> QED BY <1>1, <1>2, <1>3 DEF Option, None

\* A request presents at most one credential to a valid API.
LEMMA OneCredential ==
  ASSUME NEW a, AuthOk(a), a.mode # "keyless", NEW q, Option(q.query_token), Option(q.cert)
  PROVE  Option(Presented(a, q))
  <1>1. a.mode \in {"auth_token", "jwt", "oidc", "basic_auth", "mtls", "hmac"}
    BY DEF AuthOk
  <1>0. Option(HeaderValue(q, "authorization"))
    BY DEF HeaderValue, Some, None, Option
  <1>2. CASE a.mode \in {"auth_token", "jwt", "oidc"}
    BY <1>2, TokenIsOption DEF Presented
  <1>3. CASE a.mode = "basic_auth"
    BY <1>0, <1>3 DEF Presented, BasicCredentials, Option
  <1>4. CASE a.mode = "mtls"
    BY <1>4 DEF Presented
  <1>5. CASE a.mode = "hmac"
    BY <1>0, <1>5 DEF Presented, SignatureParams, Option
  <1> QED BY <1>1, <1>2, <1>3, <1>4, <1>5

\* The definition of every inner chain of a table that was built is valid.
LEMMA ChainsValid ==
  ASSUME TableBuilds(world.defs), NEW d \in world.defs, NEW e \in Chains(d)
  PROVE  UnversionedOk(e)
  <1>1. Validate(d)
    BY DEF TableBuilds
  <1>2. CASE e = d
    BY <1>1, <1>2, Zenon DEF Validate
  <1>3. CASE e # d
    <2>0. PICK v \in d.versioning : \E n \in DOMAIN v.versions : e = Apply(d, n)
      BY <1>3 DEF Chains
    <2>1. PICK n \in DOMAIN v.versions : e = Apply(d, n)
      BY <2>0
    <2>2. VersioningOk(d, v)
      BY <1>1, Zenon DEF Validate
    <2>3. UnversionedOk(Apply(d, n))
      BY <2>2, Zenon DEF VersioningOk
    <2> QED BY <2>1, <2>3
  <1> QED BY <1>2, <1>3

\* The chain a request may use is one of its API's.
LEMMA EffectiveIsChain ==
  ASSUME NEW d, NEW q, NEW t
  PROVE  Effective(d, q, t) \subseteq Chains(d)
  <1>1. \A v \in d.versioning : Version(v, q, t) \subseteq DOMAIN v.versions
    BY DEF Version
  <1> QED BY <1>1 DEF Effective, Chains

\* What a session granted by a policy may call depends on the policy alone.
LEMMA GrantsByPolicy ==
  ASSUME NEW s, NEW u, NEW id, s.org_id = u.org_id, s.apply_policies = <<id>>, u.apply_policies = <<id>>,
         "access" \in DOMAIN s, "access" \in DOMAIN u, NEW api, NEW ps
  PROVE  Grants(api, s, ps) <=> Grants(api, u, ps)
  <1>1. \A p : AllowsApi(ApplyPolicy(s, p), api) <=> AllowsApi(ApplyPolicy(u, p), api)
    BY DEF AllowsApi, ApplyPolicy
  <1>2. <<id>> # <<>>
    OBVIOUS
  <1> QED BY <1>1, <1>2 DEF Grants

\* The default session may call any API and has no policy.
LEMMA DefaultGrants ==
  ASSUME NEW org, NEW api, NEW ps
  PROVE  Grants(api, DefaultSession(org), ps)
  BY DEF Grants, DefaultSession, AllowsApi

\* The chain a request runs under, as one it may use, and its API.
Placed(x) ==
  /\ x.q \in DOMAIN world.inputs /\ Api(x) \in world.defs /\ Api(x).api_id = x.api
  /\ Effective(Api(x), Q(x), now) = {Def(x)}

\* A request is worth what its credentials under its chain are granted.
LEMMA Worth ==
  ASSUME NEW x, Placed(x)
  PROVE  UsableNow(x) <=> \E s \in Credentials(Def(x), Q(x), sessions, now) : Grants(x.api, s, policies)
  BY DEF Placed, UsableNow, Usable

\* What an authentication step decided: the request is worth admitting, or not,
\* or as much as the policy it is sent to grants.
Verdict(x, y) ==
  \/ y.pc = "endpoint" /\ UsableNow(x)
  \/ y.pc = "done" /\ y.by = "auth" /\ ~UsableNow(x)
  \/ /\ y.pc = "policy"
     /\ \E c : /\ y.ctx = {c} /\ DOMAIN c = {"session", "identity"} /\ Len(c.session.apply_policies) = 1
               /\ UsableNow(x) <=> Grants(x.api, c.session, policies)

\* A request in a built table carries at most one credential for its chain.
LEMMA PlacedCredential ==
  ASSUME world \in Worlds, TableBuilds(world.defs), NEW x, Placed(x)
  PROVE  /\ AuthOk(Def(x).auth) /\ Def(x) \in Chains(Api(x))
         /\ Def(x).auth.mode # "keyless" => Option(Presented(Def(x).auth, AtAuth(Def(x), Q(x))))
  <1>1. Def(x) \in Chains(Api(x))
    BY EffectiveIsChain DEF Placed
  <1>2. AuthOk(Def(x).auth)
    <2>1. UnversionedOk(Def(x))
      BY <1>1, ChainsValid DEF Placed
    <2> QED BY <2>1, Zenon DEF UnversionedOk
  <1>3. /\ Option(Q(x).query_token) /\ Option(Q(x).cert)
        /\ {"query_token", "cert"} \subseteq DOMAIN Q(x)
    BY WorldsAssumption DEF Placed, Q
  <1>4. Option(AtAuth(Def(x), Q(x)).query_token) /\ Option(AtAuth(Def(x), Q(x)).cert)
    BY <1>3 DEF AtAuth
  <1> QED BY <1>1, <1>2, <1>4, OneCredential

\* `authenticate_jwt` and `authenticate_oidc`: a token is worth its claims.
LEMMA TokenVerdict ==
  ASSUME world \in Worlds, TableBuilds(world.defs), NEW x, DOMAIN x = Fields, Placed(x),
         Seen(x) = AtAuth(Def(x), Q(x)), ~NoneNeeded(Def(x), Q(x)), Def(x).auth.mode \in TokenModes
  PROVE  Verdict(x, TokenStep(x))
  <1> DEFINE d == Def(x)
             a == d.auth
             tokens == {t \in ExtractToken(a, Seen(x)) : ClaimsVerified(a, t, world.key, now) /\ t.sub # None}
             ids == UNION {MappedPolicy(a, t) : t \in tokens}
             ctx(t) == [session |-> ClaimsSession(d.org_id, x.api, t),
                        identity |-> <<a.mode, CHOOSE s \in t.sub : TRUE>>]
             y == TokenStep(x)
             z == [x EXCEPT !.ctx = {ctx(t) : t \in tokens}]
  <1>1. UsableNow(x) <=> \E t \in tokens : \E s \in Claimed(d, t) : Grants(x.api, s, policies)
    <2>1. Credentials(d, Q(x), sessions, now) = UNION {Claimed(d, t) : t \in tokens}
      BY DEF Credentials
    <2> HIDE DEF tokens, d
    <2> QED BY <2>1, Worth DEF d
  <1>2. CASE tokens = {} \/ (NeedsMapping(a) /\ ids = {})
    <2>1. y = Answered(x, 403, "auth")
      BY <1>2 DEF TokenStep
    <2>2. y.pc = "done" /\ y.by = "auth"
      BY <2>1, AnswersKeep
    <2>3. \A t \in tokens : Claimed(d, t) = {}
      <3> HIDE DEF tokens
      <3> QED BY <1>2 DEF Claimed
    <2> HIDE DEF tokens, y
    <2> QED BY <1>1, <2>2, <2>3 DEF Verdict, y
  <1>3. CASE tokens # {} /\ ~NeedsMapping(a)
    <2>1. y = Goto(z, "endpoint")
      BY <1>3 DEF TokenStep
    <2>2. DOMAIN z = Fields
      BY DEF Fields
    <2> HIDE DEF tokens, z
    <2>3. y.pc = "endpoint"
      BY <2>1, <2>2, GotoKeeps
    <2>4. \A t \in tokens : Claimed(d, t) = {DefaultSession(d.org_id)}
      BY <1>3 DEF Claimed
    <2>5. UsableNow(x)
      BY <1>1, <1>3, <2>4, DefaultGrants
    <2> HIDE DEF y
    <2> QED BY <2>3, <2>5 DEF Verdict, y
  <1>4. CASE tokens # {} /\ NeedsMapping(a) /\ ids # {}
    <2>1. y = [z EXCEPT !.pc = "policy", !.ctx = {[c EXCEPT !.session.apply_policies = SetToSeq(ids)] : c \in z.ctx}]
      BY <1>4 DEF TokenStep
    <2>2. PICK t : tokens = {t}
      <3>1. Option(Presented(a, Seen(x))) /\ Presented(a, Seen(x)) = ExtractToken(a, Seen(x))
        BY PlacedCredential DEF Presented, TokenModes
      <3>2. Option(tokens)
        BY <3>1 DEF Option
      <3> HIDE DEF tokens
      <3>3. PICK t \in tokens : TRUE
        BY <1>4
      <3>4. tokens = {t}
        BY <3>2, <3>3 DEF Option
      <3> QED BY <3>4
    <2>3. a.mode = "oidc" /\ t \in ExtractToken(a, AtAuth(d, Q(x)))
      BY <1>4, <2>2 DEF NeedsMapping
    <2>4. Option(t.client)
      <3>1. Def(x) \in Chains(Api(x))
        BY PlacedCredential
      <3> HIDE DEF tokens
      <3> QED BY <2>3, <3>1, WorldsAssumption DEF Placed, Q
    <2> HIDE DEF tokens
    <2>5. ids = MappedPolicy(a, t)
      BY <2>2
    <2>6. PICK id : MappedPolicy(a, t) = {id}
      <3>1. PICK c : t.client \cap DOMAIN a.policy_map = {c}
        <4>1. PICK c \in t.client : c \in DOMAIN a.policy_map
          BY <1>4, <2>5 DEF MappedPolicy
        <4>2. t.client \cap DOMAIN a.policy_map = {c}
          BY <2>4, <4>1 DEF Option
        <4> QED BY <4>2
      <3>2. MappedPolicy(a, t) = {a.policy_map[c]}
        BY <3>1 DEF MappedPolicy
      <3> QED BY <3>2
    <2>7. SetToSeq(ids) = <<id>>
      BY <2>5, <2>6, SeqOfOption
    <2> DEFINE u == ctx(t)
               c1 == [u EXCEPT !.session.apply_policies = <<id>>]
    <2>8. y.pc = "policy" /\ y.ctx = {c1}
      <3>1. DOMAIN z = Fields /\ z.ctx = {u}
        BY <2>2 DEF Fields
      <3> HIDE DEF z, u, ids, y
      <3>2. y = [z EXCEPT !.pc = "policy", !.ctx = {c1}]
        BY <2>1, <2>7, <3>1
      <3> HIDE DEF c1
      <3> QED BY <3>1, <3>2 DEF Fields
    <2> DEFINE cs == ClaimsSession(d.org_id, x.api, t)
    <2>9. /\ cs.org_id = d.org_id /\ "access" \in DOMAIN cs /\ "apply_policies" \in DOMAIN cs
      BY DEF ClaimsSession, DefaultSession
    <2>10. /\ DOMAIN u = {"session", "identity"} /\ u.session = cs
      OBVIOUS
    <2> HIDE DEF u, cs
    <2>11. /\ DOMAIN c1 = {"session", "identity"}
           /\ c1.session = [cs EXCEPT !.apply_policies = <<id>>]
      BY <2>10
    <2> HIDE DEF c1
    <2>12. /\ c1.session.org_id = d.org_id /\ c1.session.apply_policies = <<id>>
           /\ "access" \in DOMAIN c1.session
      BY <2>9, <2>11
    <2> DEFINE ds == [DefaultSession(d.org_id) EXCEPT !.apply_policies = <<id>>]
    <2>13. Claimed(d, t) = {ds}
      BY <1>4, <2>6 DEF Claimed
    <2>14. ds.org_id = d.org_id /\ ds.apply_policies = <<id>> /\ "access" \in DOMAIN ds
      BY DEF DefaultSession
    <2> HIDE DEF ds
    <2>15. UsableNow(x) <=> Grants(x.api, c1.session, policies)
      <3>1. UsableNow(x) <=> Grants(x.api, ds, policies)
        BY <1>1, <2>2, <2>13
      <3> QED BY <2>12, <2>14, <3>1, GrantsByPolicy
    <2>16. Len(c1.session.apply_policies) = 1
      BY <2>12
    <2> HIDE DEF y
    <2> QED BY <2>8, <2>11, <2>15, <2>16 DEF Verdict, y
  <1> QED BY <1>2, <1>3, <1>4

\* The checks of a signature that need no session have passed.
Fit(x) ==
  Def(x).auth.mode = "hmac" =>
    \E c \in Presented(Def(x).auth, AtAuth(Def(x), Q(x))) :
       HmacAdmissible(Def(x).auth, AtAuth(Def(x), Q(x)), c, now)

\* `Auth::call` up to its first await decides, or asks for a session with a
\* credential that has passed the checks that need none.
LEMMA AuthVerdict ==
  ASSUME world \in Worlds, TableBuilds(world.defs), NEW x, DOMAIN x = Fields, Placed(x),
         Seen(x) = AtAuth(Def(x), Q(x))
  PROVE  LET y == AuthStep(x)
         IN \/ Verdict(x, y)
            \/ y.pc = "session" /\ Fit(x)
  <1> DEFINE d == Def(x)
             a == d.auth
             creds == Presented(a, Seen(x))
             y == AuthStep(x)
  <1>1. CASE NoneNeeded(d, Q(x))
    <2>1. y = Goto(x, "endpoint")
      BY <1>1 DEF AuthStep, NoneNeeded
    <2>2. y.pc = "endpoint"
      BY <2>1, GotoKeeps
    <2>3. DefaultSession(d.org_id) \in Credentials(d, Q(x), sessions, now)
      BY <1>1 DEF Credentials
    <2>4. UsableNow(x)
      BY <2>3, Worth, DefaultGrants
    <2> HIDE DEF y
    <2> QED BY <2>2, <2>4 DEF Verdict, y
  <1>2. CASE ~NoneNeeded(d, Q(x)) /\ creds = None
    <2>1. y = Answered(x, 401, "auth")
      BY <1>2 DEF AuthStep, NoneNeeded
    <2>2. y.pc = "done" /\ y.by = "auth"
      BY <2>1, AnswersKeep
    <2>3. Credentials(d, Q(x), sessions, now) = {}
      <3>1. CASE a.mode \in TokenModes
        <4>1. ExtractToken(a, Seen(x)) = {}
          BY <1>2, <3>1 DEF Presented, TokenModes, None
        <4> QED BY <1>2, <3>1, <4>1 DEF Credentials
      <3>2. CASE a.mode \notin TokenModes
        <4> HIDE DEF creds
        <4>1. \A c \in creds : FALSE
          BY <1>2 DEF None
        <4> QED BY <1>2, <3>2, <4>1 DEF Credentials, creds
      <3> QED BY <3>1, <3>2
    <2>4. ~UsableNow(x)
      BY <2>3, Worth
    <2> HIDE DEF y
    <2> QED BY <2>2, <2>4 DEF Verdict, y
  <1>3. CASE ~NoneNeeded(d, Q(x)) /\ creds # None /\ a.mode \in TokenModes
    <2>1. y = TokenStep(x)
      BY <1>3 DEF AuthStep, NoneNeeded
    <2> QED BY <1>3, <2>1, TokenVerdict
  <1>4. CASE /\ ~NoneNeeded(d, Q(x)) /\ creds # None /\ a.mode \notin TokenModes
             /\ a.mode = "hmac" /\ ~\E s \in creds : HmacAdmissible(a, Seen(x), s, now)
    <2>1. y = Answered(x, 403, "auth")
      BY <1>4 DEF AuthStep, NoneNeeded
    <2>2. y.pc = "done" /\ y.by = "auth"
      BY <2>1, AnswersKeep
    <2>3. Credentials(d, Q(x), sessions, now) = {}
      <3> HIDE DEF creds
      <3> QED BY <1>4 DEF Credentials, creds
    <2>4. ~UsableNow(x)
      BY <2>3, Worth
    <2> HIDE DEF y
    <2> QED BY <2>2, <2>4 DEF Verdict, y
  <1>5. CASE /\ ~NoneNeeded(d, Q(x)) /\ creds # None /\ a.mode \notin TokenModes
             /\ a.mode = "hmac" => \E s \in creds : HmacAdmissible(a, Seen(x), s, now)
    <2>1. y = Goto(x, "session")
      BY <1>5 DEF AuthStep, NoneNeeded
    <2>2. y.pc = "session"
      BY <2>1, GotoKeeps
    <2>3. Fit(x)
      BY <1>5 DEF Fit
    <2> HIDE DEF y
    <2> QED BY <2>2, <2>3 DEF y
  <1> QED BY <1>1, <1>2, <1>3, <1>4, <1>5

\* A session that passes its checks is worth what it and its policy grant.
LEMMA ResolvedVerdict ==
  ASSUME NEW x, DOMAIN x = Fields, NEW ctx, DOMAIN ctx = {"session", "identity"},
         UsableNow(x) <=> Grants(x.api, ctx.session, policies)
  PROVE  Verdict(x, Resolved(x, ctx))
  <1> DEFINE y == Resolved(x, ctx)
             ids == ctx.session.apply_policies
  <1>1. CASE ids = <<>>
    <2>1. y = Granted(x, ctx)
      BY <1>1 DEF Resolved
    <2>2. UsableNow(x) <=> AllowsApi(ctx.session, x.api)
      BY <1>1 DEF Grants
    <2>3. CASE AllowsApi(ctx.session, x.api)
      <3>1. y.pc = "endpoint"
        BY <2>1, <2>3 DEF Granted, Fields
      <3> HIDE DEF y
      <3> QED BY <2>2, <2>3, <3>1 DEF Verdict, y
    <2>4. CASE ~AllowsApi(ctx.session, x.api)
      <3>1. y.pc = "done" /\ y.by = "auth"
        BY <2>1, <2>4, AnswersKeep DEF Granted
      <3> HIDE DEF y
      <3> QED BY <2>2, <2>4, <3>1 DEF Verdict, y
    <2> QED BY <2>3, <2>4
  <1>2. CASE ids # <<>> /\ Len(ids) = 1
    <2>1. y = [x EXCEPT !.pc = "policy", !.ctx = Some(ctx)]
      BY <1>2 DEF Resolved
    <2>2. y.pc = "policy" /\ y.ctx = {ctx}
      BY <2>1 DEF Fields, Some
    <2> HIDE DEF y
    <2> QED BY <1>2, <2>2 DEF Verdict, y
  <1>3. CASE ids # <<>> /\ Len(ids) # 1
    <2>1. y = Answered(x, 500, "auth")
      BY <1>3 DEF Resolved
    <2>2. y.pc = "done" /\ y.by = "auth"
      BY <2>1, AnswersKeep
    <2>3. ~UsableNow(x)
      BY <1>3 DEF Grants
    <2> HIDE DEF y
    <2> QED BY <2>2, <2>3 DEF Verdict, y
  <1> QED BY <1>1, <1>2, <1>3

\* The session lookup decides as the one credential's session stands.
LEMMA SessionVerdict ==
  ASSUME world \in Worlds, TableBuilds(world.defs), NEW x, DOMAIN x = Fields, Placed(x), x.pc = "session", Asks(x),
         Seen(x) = AtAuth(Def(x), Q(x)), Fit(x)
  PROVE  Verdict(x, SessionFound(x))
  <1> DEFINE d == Def(x)
             a == d.auth
             cred == CHOOSE c \in Presented(a, Seen(x)) : TRUE
             found == At(sessions, SessionKey(d.org_id, Identity(a, cred)))
             rec == CHOOSE s \in found : TRUE
             proved == SessionLive(rec.session, now) /\ Proved(a, Seen(x), cred, rec.session)
             live == ~rec.corrupt /\ proved
             y == SessionFound(x)
  <1>0. y = IF found = None THEN Answered(x, 403, "auth")
            ELSE IF rec.corrupt THEN Answered(x, 500, "auth")
            ELSE IF proved
                 THEN Resolved(x, [session |-> rec.session, identity |-> Identity(a, cred)])
            ELSE Answered(x, 403, "auth")
    BY Zenon DEF SessionFound
  <1>1. Presented(a, Seen(x)) = {cred} /\ (a.mode = "hmac" => HmacAdmissible(a, Seen(x), cred, now))
    <2>1. a.mode # "keyless" /\ Presented(a, Seen(x)) # {}
      BY DEF Asks, NoneNeeded
    <2>2. Option(Presented(a, Seen(x)))
      BY <2>1, PlacedCredential
    <2>3. cred \in Presented(a, Seen(x))
      BY <2>1
    <2> HIDE DEF cred
    <2>4. Presented(a, Seen(x)) = {cred}
      BY <2>2, <2>3 DEF Option
    <2> QED BY <2>4 DEF Fit
  <1>2. Credentials(d, Q(x), sessions, now) = Held(d, Seen(x), cred, sessions, now)
    <2> HIDE DEF cred
    <2>1. {c \in Presented(a, Seen(x)) : a.mode = "hmac" => HmacAdmissible(a, Seen(x), c, now)} = {cred}
      BY <1>1
    <2>2. Credentials(d, Q(x), sessions, now) =
            UNION {Held(d, Seen(x), c, sessions, now) :
                     c \in {c \in Presented(a, Seen(x)) : a.mode = "hmac" => HmacAdmissible(a, Seen(x), c, now)}}
      BY Zenon DEF Credentials, Asks
    <2> QED BY <2>1, <2>2
  <1>3. found = {} \/ found = {rec}
    <2>1. \A k : At(sessions, k) = {} \/ At(sessions, k) = {sessions[k]}
      BY DEF At, None
    <2> HIDE DEF cred
    <2> QED BY <2>1
  <1>4. Held(d, Seen(x), cred, sessions, now) = IF found # {} /\ live THEN {rec.session} ELSE {}
    <2>1. Held(d, Seen(x), cred, sessions, now) =
            {s.session : s \in {s \in found : ~s.corrupt /\ SessionLive(s.session, now)
                                                 /\ Proved(a, Seen(x), cred, s.session)}}
      BY DEF Held
    <2> HIDE DEF found, rec
    <2> QED BY <1>3, <2>1
  <1>5. CASE found # {} /\ live
    <2> DEFINE ctx == [session |-> rec.session, identity |-> Identity(a, cred)]
    <2>1. y = Resolved(x, ctx)
      <3> HIDE DEF y, found, rec, proved
      <3> QED BY <1>0, <1>5 DEF None
    <2>2. DOMAIN ctx = {"session", "identity"} /\ ctx.session = rec.session
      OBVIOUS
    <2>3. UsableNow(x) <=> Grants(x.api, rec.session, policies)
      <3> HIDE DEF rec, found, cred
      <3> QED BY <1>2, <1>4, <1>5, Worth
    <2> HIDE DEF ctx, rec
    <2> QED BY <2>1, <2>2, <2>3, ResolvedVerdict
  <1>6. CASE found = {} \/ ~live
    <2>1. y = Answered(x, 403, "auth") \/ y = Answered(x, 500, "auth")
      <3> HIDE DEF y, found, rec, proved
      <3> QED BY <1>0, <1>6 DEF None
    <2>2. ~UsableNow(x)
      <3> HIDE DEF rec, found, cred
      <3> QED BY <1>2, <1>4, <1>6, Worth
    <2> HIDE DEF y
    <2>3. y.pc = "done" /\ y.by = "auth"
      BY <2>1, AnswersKeep
    <2> QED BY <2>2, <2>3 DEF Verdict, y
  <1> QED BY <1>5, <1>6

\* The policy lookup decides as the policy stands.
LEMMA PolicyVerdictHolds ==
  ASSUME NEW x, DOMAIN x = Fields, NEW c, x.ctx = {c}, DOMAIN c = {"session", "identity"},
         Len(c.session.apply_policies) = 1, UsableNow(x) <=> Grants(x.api, c.session, policies)
  PROVE  Verdict(x, PolicyFound(x))
  <1> DEFINE org == c.session.org_id
             id == Head(c.session.apply_policies)
             found == At(policies, PolicyKey(org, id))
             verdict == PolicyVerdict(found, org, id)
             p == CHOOSE p \in found : TRUE
             y == PolicyFound(x)
  <1>1. (CHOOSE e \in x.ctx : TRUE) = c
    OBVIOUS
  <1>2. found = {} \/ found = {p}
    <2>1. \A k : At(policies, k) = {} \/ At(policies, k) = {policies[k]}
      BY DEF At, None
    <2> HIDE DEF org, id
    <2> QED BY <2>1
  <1>3. verdict = 0 => found # {}
    BY DEF PolicyVerdict, None
  <1>4. c.session.apply_policies # <<>>
    OBVIOUS
  <1>5. UsableNow(x) <=> verdict = 0 /\ AllowsApi(ApplyPolicy(c.session, p), x.api)
    <2>1. Grants(x.api, c.session, policies) <=>
            verdict = 0 /\ \E e \in found : AllowsApi(ApplyPolicy(c.session, e), x.api)
      BY <1>4 DEF Grants
    <2> HIDE DEF found, p
    <2> QED BY <1>2, <1>3, <2>1
  <1>6. CASE verdict # 0
    <2>1. y = [Answered(x, verdict, "auth") EXCEPT !.ctx = None]
      BY <1>1, <1>6 DEF PolicyFound
    <2> DEFINE u == Answered(x, verdict, "auth")
    <2>2. DOMAIN u = Fields /\ u.pc = "done" /\ u.by = "auth"
      BY AnswersKeep DEF Keeps
    <2> HIDE DEF u
    <2>3. y = [u EXCEPT !.ctx = None]
      BY <2>1 DEF u
    <2> HIDE DEF y
    <2>4. y.pc = "done" /\ y.by = "auth"
      BY <2>2, <2>3 DEF Fields
    <2> QED BY <1>5, <1>6, <2>4 DEF Verdict, y
  <1>7. CASE verdict = 0
    <2> DEFINE s == ApplyPolicy(c.session, p)
               u == [c EXCEPT !.session = s]
    <2>1. y = Granted(x, u)
      BY <1>1, <1>7 DEF PolicyFound
    <2> HIDE DEF s
    <2>2. u.session = s
      OBVIOUS
    <2> HIDE DEF u, y
    <2>3. CASE AllowsApi(s, x.api)
      <3>1. y.pc = "endpoint"
        BY <2>1, <2>2, <2>3 DEF Granted, Fields
      <3> QED BY <1>5, <1>7, <2>3, <3>1 DEF Verdict, y, s
    <2>4. CASE ~AllowsApi(s, x.api)
      <3>1. y.pc = "done" /\ y.by = "auth"
        BY <2>1, <2>2, <2>4, AnswersKeep DEF Granted
      <3> QED BY <1>5, <1>7, <2>4, <3>1 DEF Verdict, y, s
    <2> QED BY <2>3, <2>4
  <1> QED BY <1>6, <1>7

\* The invariant: while storage stands still and has not failed it, a request is
\* where its worth takes it.
Judged(x) ==
  /\ x.faulted => x.pc = "done" /\ x.by = "auth"
  /\ (x.steady /\ ~x.faulted) =>
    /\ x.pc \in {"gate", "auth", "session"} => Placed(x)
    /\ x.pc = "session" => Fit(x)
    /\ x.pc = "policy" =>
         \E c : /\ x.ctx = {c} /\ DOMAIN c = {"session", "identity"} /\ Len(c.session.apply_policies) = 1
                /\ UsableNow(x) <=> Grants(x.api, c.session, policies)
    /\ Passed(x) => UsableNow(x)
    /\ (x.pc = "done" /\ x.by = "auth") => ~UsableNow(x)

JudgedAll == world \in Worlds /\ \A r \in Requests : req[r].pc # "idle" => Judged(req[r])

\* A request's worth depends on its route alone.
LEMMA WorthLasts ==
  ASSUME NEW x, NEW y, SameRoute(x, y)
  PROVE  /\ Q(y) = Q(x) /\ Def(y) = Def(x)
         /\ (UsableNow(y) <=> UsableNow(x)) /\ (Placed(y) <=> Placed(x)) /\ (Fit(y) <=> Fit(x))
  <1>1. Api(y) = Api(x) /\ Q(y) = Q(x) /\ Def(y) = Def(x)
    BY ChainDecides DEF SameChain, SameRoute
  <1> QED BY <1>1 DEF UsableNow, Placed, Fit, SameRoute

\* A verdict of authentication makes a judged request.
LEMMA VerdictJudged ==
  ASSUME NEW x, NEW y, SameRoute(x, y), Verdict(x, y), ~y.faulted
  PROVE  Judged(y)
  <1>1. y.api = x.api /\ (UsableNow(y) <=> UsableNow(x))
    BY WorthLasts DEF SameRoute
  <1>2. CASE y.pc = "endpoint" /\ UsableNow(x)
    BY <1>1, <1>2 DEF Judged
  <1>3. CASE y.pc = "done" /\ y.by = "auth" /\ ~UsableNow(x)
    BY <1>1, <1>3 DEF Judged, Passed, BelowLimits, LimitNames
  <1>4. CASE /\ y.pc = "policy"
             /\ \E c : /\ y.ctx = {c} /\ DOMAIN c = {"session", "identity"} /\ Len(c.session.apply_policies) = 1
                       /\ UsableNow(x) <=> Grants(x.api, c.session, policies)
    BY <1>1, <1>4 DEF Judged, Passed
  <1> QED BY <1>2, <1>3, <1>4 DEF Verdict

\* Past authentication nothing changes a request's worth.
LEMMA OnwardJudged ==
  ASSUME NEW x, Judged(x), NEW y, Onward(x, y)
  PROVE  Judged(y)
  <1>1. (UsableNow(y) <=> UsableNow(x)) /\ y.steady = x.steady /\ y.faulted = x.faulted
    BY WorthLasts DEF Onward, SameRoute
  <1>2. Passed(x)
    BY DEF Onward, Reached, BelowPcs, Passed, Pcs
  <1>3. /\ y.pc \notin {"gate", "auth", "session", "policy"}
        /\ ~(y.pc = "done" /\ y.by = "auth")
    BY DEF Onward, Reached, BelowPcs
  <1>4. ~x.faulted
    BY DEF Judged, Onward, Reached, BelowPcs
  <1> QED BY <1>1, <1>2, <1>3, <1>4 DEF Judged

\* An arriving request is placed in the one chain it may use.
LEMMA ArriveJudged ==
  ASSUME world \in Worlds, NEW r \in Requests, Arrive(r)
  PROVE  \E y : Judged(y) /\ Move(r, y)
  <1>1. PICK q \in DOMAIN world.inputs :
          LET hits == MatchPath(world.defs, world.inputs[q].path)
              x == IF world.inputs[q].path \in HealthPaths THEN Answered(Fresh(q), 200, "route")
                   ELSE IF hits = {} THEN Answered(Fresh(q), 404, "route")
                   ELSE OuterStep([Fresh(q) EXCEPT !.api = (CHOOSE d \in hits : TRUE).api_id])
          IN Move(r, [x EXCEPT !.dead = Dead(x, sessions, now)])
    BY DEF Arrive
  <1> DEFINE hits == MatchPath(world.defs, world.inputs[q].path)
             id == (CHOOSE d \in hits : TRUE).api_id
             f == Fresh(q)
             x == [f EXCEPT !.api = id]
             names == UNION {Version(v, Q(x), now) : v \in Api(x).versioning}
  <1>2. DOMAIN f = Fields /\ f.q = q /\ f.pc = "new" /\ ~f.faulted
    BY DEF Fresh, Fields
  <1>3. PICK u : /\ Move(r, [u EXCEPT !.dead = Dead(u, sessions, now)])
                 /\ \/ \E st : u = Answered(f, st, "route")
                    \/ hits # {} /\ u = OuterStep(x)
    BY <1>1, Zenon
  <1> HIDE DEF f
  <1> DEFINE z == [u EXCEPT !.dead = Dead(u, sessions, now)]
  <1>4. CASE \E st : u = Answered(f, st, "route")
    <2>1. DOMAIN u = Fields /\ u.pc = "done" /\ u.by = "route" /\ ~u.faulted
      BY <1>2, <1>4, AnswersKeep DEF Keeps, Quiet
    <2>2. z.pc = "done" /\ z.by = "route" /\ ~z.faulted
      BY <2>1 DEF Fields
    <2> HIDE DEF z
    <2>3. Judged(z)
      BY <2>2 DEF Judged, Passed, BelowLimits, LimitNames
    <2> QED BY <1>3, <2>3 DEF z
  <1>5. CASE hits # {} /\ u = OuterStep(x)
    <2>1. \E d \in world.defs : d.api_id = id /\ id # "none"
      BY <1>5, WorldsAssumption DEF MatchPath
    <2> HIDE DEF id
    <2>2. DOMAIN x = Fields /\ x.q = q /\ x.api = id /\ ~x.faulted
      BY <1>2 DEF Fields
    <2> HIDE DEF x
    <2>3. Api(x) \in world.defs /\ Api(x).api_id = x.api
      BY <2>1, <2>2 DEF Api
    <2>4. \/ \E st : \E by \in {"ip", "version"} : u = Answered(x, st, by)
          \/ \E hs : u = [Answered(x, 204, "preflight") EXCEPT !.out = hs]
          \/ /\ u = [x EXCEPT !.scope = <<x.api>> \o SetToSeq(names), !.pc = "gate"]
             /\ Api(x).versioning = None \/ names # {}
      <3>1. \/ VersionStep(x) = Answered(x, 403, "version")
            \/ /\ VersionStep(x) = [x EXCEPT !.scope = <<x.api>> \o SetToSeq(names), !.pc = "gate"]
               /\ Api(x).versioning = None \/ names # {}
        BY Zenon DEF VersionStep
      <3>2. \/ u = Answered(x, 403, "ip") \/ u = VersionStep(x)
            \/ \E hs : u = [Answered(x, 204, "preflight") EXCEPT !.out = hs]
        BY <1>5, Zenon DEF OuterStep
      <3> HIDE DEF names
      <3> QED BY <3>1, <3>2, Zenon
    <2>5. CASE \/ \E st : \E by \in {"ip", "version"} : u = Answered(x, st, by)
               \/ \E hs : u = [Answered(x, 204, "preflight") EXCEPT !.out = hs]
      <3> DEFINE p == Answered(x, 204, "preflight")
      <3>0. DOMAIN p = Fields /\ p.pc = "done" /\ p.by = "preflight" /\ ~p.faulted
        BY <2>2, AnswersKeep DEF Keeps, Quiet
      <3> HIDE DEF p
      <3>1. DOMAIN u = Fields /\ u.pc = "done" /\ u.by \in {"ip", "preflight", "version"} /\ ~u.faulted
        <4>1. CASE \E hs : u = [p EXCEPT !.out = hs]
          BY <3>0, <4>1 DEF Fields
        <4>2. CASE \E st : \E by \in {"ip", "version"} : u = Answered(x, st, by)
          BY <2>2, <4>2, AnswersKeep DEF Keeps, Quiet
        <4> QED BY <2>5, <4>1, <4>2 DEF p
      <3>2. z.pc = "done" /\ z.by \in {"ip", "preflight", "version"} /\ ~z.faulted
        BY <3>1 DEF Fields
      <3> HIDE DEF z
      <3>3. Judged(z)
        BY <3>2 DEF Judged, Passed, BelowLimits, LimitNames
      <3> QED BY <1>3, <3>3 DEF z
    <2>6. CASE /\ u = [x EXCEPT !.scope = <<x.api>> \o SetToSeq(names), !.pc = "gate"]
               /\ Api(x).versioning = None \/ names # {}
      <3> DEFINE sc == <<x.api>> \o SetToSeq(names)
      <3>1. Option(names)
        BY <2>2, <2>3, OneVersion DEF Q
      <3>2. /\ names = {} => Len(sc) = 1
            /\ \A n : names = {n} => Len(sc) = 2 /\ sc[2] = n
        <4> HIDE DEF names
        <4>1. CASE names = {}
          BY <4>1, SeqOfOption
        <4>2. ASSUME NEW n, names = {n} PROVE Len(sc) = 2 /\ sc[2] = n
          <5>1. SetToSeq(names) = <<n>>
            BY <4>2, SeqOfOption
          <5> QED BY <5>1
        <4> QED BY <4>1, <4>2
      <3>3. /\ DOMAIN u = Fields /\ u.pc = "gate" /\ u.q = x.q /\ u.api = x.api /\ u.scope = sc /\ ~u.faulted
        <4>1. u = [x EXCEPT !.scope = sc, !.pc = "gate"]
          BY <2>6
        <4> HIDE DEF sc
        <4> QED BY <2>2, <4>1 DEF Fields
      <3> HIDE DEF sc
      <3>4. DOMAIN z = Fields /\ z.pc = "gate" /\ z.q = x.q /\ z.api = x.api /\ z.scope = sc /\ ~z.faulted
        BY <3>3 DEF Fields
      <3> HIDE DEF z
      <3>5. Api(z) = Api(x) /\ Q(z) = Q(x)
        BY <3>4 DEF Api, Q
      <3>6. Effective(Api(x), Q(x), now) = {Def(z)}
        <4>1. CASE Api(x).versioning = None
          <5>1. names = {}
            BY <4>1 DEF None
          <5>2. Def(z) = Api(x)
            BY <3>2, <3>4, <3>5, <5>1 DEF Def
          <5> QED BY <4>1, <5>2 DEF Effective
        <4>2. CASE Api(x).versioning # None
          <5>1. PICK n : names = {n}
            <6> HIDE DEF names
            <6>1. PICK n \in names : TRUE
              BY <2>6, <4>2
            <6>2. names = {n}
              BY <3>1, <6>1 DEF Option
            <6> QED BY <6>2
          <5>2. Def(z) = Apply(Api(x), n)
            BY <3>2, <3>4, <3>5, <5>1 DEF Def
          <5>3. Effective(Api(x), Q(x), now) = {Apply(Api(x), m) : m \in names}
            BY <4>2 DEF Effective
          <5> QED BY <5>1, <5>2, <5>3
        <4> QED BY <4>1, <4>2
      <3>7. Placed(z)
        BY <2>2, <2>3, <3>4, <3>5, <3>6 DEF Placed
      <3>8. Judged(z)
        BY <3>4, <3>7 DEF Judged, Passed
      <3> QED BY <1>3, <3>8 DEF z
    <2> QED BY <2>4, <2>5, <2>6
  <1> QED BY <1>3, <1>4, <1>5

\* The record a step leaves.
LEMMA MoveIs ==
  ASSUME Requested, NEW r \in Requests, NEW y, Move(r, y)
  PROVE  req'[r] = y
  BY DEF Move, Requested

\* The steps of authentication judge a request by its worth.
LEMMA AuthStepsJudged ==
  ASSUME Requested, Tabled, JudgedAll, NEW r \in Requests,
         Authenticate(r) \/ LookupSession(r) \/ LookupPolicy(r)
  PROVE  Judged(req'[r])
  <1>1. PICK x, y : x = req[r] /\ y = req'[r]
    OBVIOUS
  <1>2. /\ Good(x) /\ Judged(x) /\ DOMAIN x = Fields
        /\ world \in Worlds /\ TableBuilds(world.defs)
    BY <1>1 DEF Authenticate, LookupSession, LookupPolicy, Requested, JudgedAll, Tabled, Good
  <1>8. ~x.faulted
    BY <1>1, <1>2 DEF Judged, Authenticate, LookupSession, LookupPolicy
  <1>3. SameRoute(x, y) /\ (y.faulted => y.pc = "done" /\ y.by = "auth")
    <2>1. PICK z : Move(r, z) /\ Unrecorded(req[r], z)
      BY AuthenticateGood, LookupSessionGood, LookupPolicyGood
    <2> QED BY <1>1, <1>8, <2>1, MoveIs DEF Unrecorded
  <1> SUFFICES ASSUME y.steady, ~y.faulted
               PROVE  Judged(y)
    BY <1>1, <1>3 DEF Judged
  <1>4. x.steady /\ ~x.faulted
    BY <1>3, <1>8 DEF SameRoute
  <1>5. CASE Authenticate(r)
    <2>1. x.pc = "auth" /\ y = AuthStep(x)
      BY <1>1, <1>5, MoveIs DEF Authenticate
    <2>2. Placed(x) /\ Seen(x) = AtAuth(Def(x), Q(x))
      BY <1>2, <1>4, <2>1, SeenIs DEF Judged, Good
    <2>3. Verdict(x, y) \/ (y.pc = "session" /\ Fit(x))
      BY <1>2, <2>1, <2>2, AuthVerdict
    <2>4. CASE Verdict(x, y)
      BY <1>3, <2>4, VerdictJudged
    <2>5. CASE y.pc = "session" /\ Fit(x)
      <3>1. Placed(y) /\ (Fit(y) <=> Fit(x))
        BY <1>3, <2>2, WorthLasts
      <3> QED BY <2>5, <3>1 DEF Judged, Passed
    <2> QED BY <2>3, <2>4, <2>5
  <1>6. CASE LookupSession(r)
    <2>1. x.pc = "session" /\ (y = SessionFound(x) \/ y = Failed(x, 503))
      BY <1>1, <1>6, MoveIs DEF LookupSession
    <2>2. y = SessionFound(x)
      BY <1>2, <2>1, FailedKeeps
    <2>3. Placed(x) /\ Asks(x) /\ Fit(x) /\ Seen(x) = AtAuth(Def(x), Q(x))
      BY <1>2, <1>4, <2>1, SeenIs DEF Judged, Good
    <2>4. Verdict(x, y)
      BY <1>2, <2>1, <2>2, <2>3, SessionVerdict
    <2> QED BY <1>3, <2>4, VerdictJudged
  <1>7. CASE LookupPolicy(r)
    <2> DEFINE z == [x EXCEPT !.ctx = None]
    <2>1. x.pc = "policy" /\ (y = PolicyFound(x) \/ y = Failed(z, 503))
      BY <1>1, <1>7, MoveIs DEF LookupPolicy
    <2>2. DOMAIN z = Fields
      BY <1>2 DEF Fields
    <2> HIDE DEF z
    <2>3. y = PolicyFound(x)
      BY <2>1, <2>2, FailedKeeps
    <2>4. PICK c : /\ x.ctx = {c} /\ DOMAIN c = {"session", "identity"} /\ Len(c.session.apply_policies) = 1
                   /\ UsableNow(x) <=> Grants(x.api, c.session, policies)
      BY <1>2, <1>4, <2>1 DEF Judged
    <2>5. Verdict(x, y)
      BY <1>2, <2>3, <2>4, PolicyVerdictHolds
    <2> QED BY <1>3, <2>5, VerdictJudged
  <1> QED BY <1>5, <1>6, <1>7

\* Path policy, size limit and hooks do not judge; neither do the CORS layer, the
\* end of a streamed body and a client that leaves.
LEMMA OtherStepsJudged ==
  ASSUME Requested, JudgedAll, NEW r \in Requests,
         Gate(r) \/ Leave(r) \/ StreamEnd(r) \/ StreamCut(r) \/ Disconnect(r)
  PROVE  Judged(req'[r])
  <1>1. PICK x, y : x = req[r] /\ y = req'[r]
    OBVIOUS
  <1>2. Good(x) /\ Judged(x) /\ DOMAIN x = Fields
    BY <1>1 DEF Gate, Leave, Leaving, StreamEnd, StreamCut, Disconnect, Requested, JudgedAll, Good
  <1>3. CASE Gate(r)
    <2>1. /\ x.pc = "gate"
          /\ \/ \E st : \E by \in {"path", "declared"} : y = Answered(x, st, by)
             \/ y = HookStep(x, "pre", "auth")
      <3>1. PICK z : /\ Move(r, z)
                     /\ \/ \E st : \E by \in {"path", "declared"} : z = Answered(req[r], st, by)
                        \/ z = HookStep(req[r], "pre", "auth")
        BY <1>3 DEF Gate
      <3>2. y = z /\ x.pc = "gate"
        BY <1>1, <1>3, <3>1, MoveIs DEF Gate
      <3> QED BY <1>1, <3>1, <3>2, Zenon
    <2>2. Keeps(x, y) /\ Quiet(x, y) /\ \/ y.pc = "done" /\ y.by \in {"path", "declared", "pre"}
                                        \/ y.pc = "auth"
      BY <1>2, <2>1, AnswersKeep, HooksKeep
    <2>3. SameRoute(x, y) /\ y.steady = x.steady /\ y.faulted = x.faulted
      BY <2>2 DEF Keeps, Quiet, SameRoute
    <2>6. ~y.faulted
      BY <1>2, <2>1, <2>3 DEF Judged
    <2>4. y.steady /\ ~y.faulted => Placed(y)
      BY <1>2, <2>1, <2>3, WorthLasts DEF Judged
    <2>5. Judged(y)
      BY <2>2, <2>4, <2>6 DEF Judged, Passed, BelowLimits, LimitNames
    <2> QED BY <1>1, <2>5
  <1>4. CASE Leave(r) \/ StreamEnd(r) \/ StreamCut(r)
    <2>1. x.pc = "done" /\ \E hs : y = [x EXCEPT !.recording = None] \/ y = [x EXCEPT !.left = hs]
      BY <1>1, <1>4, MoveIs DEF Leave, Leaving, StreamEnd, StreamCut
    <2>2. SameChain(x, y) /\ y.steady = x.steady /\ y.faulted = x.faulted /\ y.pc = "done" /\ y.by = x.by
      BY <1>2, <2>1 DEF SameChain, Fields
    <2>3. UsableNow(y) <=> UsableNow(x)
      BY <2>2, RouteFixes DEF UsableNow
    <2>4. Judged(y)
      BY <1>2, <2>1, <2>2, <2>3 DEF Judged, Passed
    <2> QED BY <1>1, <2>4
  <1>5. CASE Disconnect(r)
    <2>1. y = Goto(x, "gone")
      BY <1>1, <1>5, MoveIs DEF Disconnect
    <2>2. y.pc = "gone" /\ ~y.faulted
      BY <1>1, <1>2, <1>5, <2>1, GotoKeeps DEF Quiet, Judged, Disconnect
    <2>3. Judged(y)
      BY <2>2 DEF Judged, Passed
    <2> QED BY <1>1, <2>3
  <1> QED BY <1>3, <1>4, <1>5

\* Every step of a request leaves a judged one.
LEMMA StepJudged ==
  ASSUME Requested, Tabled, JudgedAll, NEW r \in Requests, Step(r)
  PROVE  Judged(req'[r])
  <1>1. CASE Arrive(r)
    <2>1. PICK y : Judged(y) /\ Move(r, y)
      BY <1>1, ArriveJudged DEF JudgedAll
    <2> QED BY <2>1, MoveIs
  <1>2. CASE Authenticate(r) \/ LookupSession(r) \/ LookupPolicy(r)
    BY <1>2, AuthStepsJudged
  <1>3. CASE Gate(r) \/ Leave(r) \/ StreamEnd(r) \/ StreamCut(r) \/ Disconnect(r)
    BY <1>3, OtherStepsJudged
  <1>4. CASE \/ CheckEndpoint(r) \/ Guard(r) \/ CheckRate(r) \/ CheckQuota(r) \/ Below(r)
             \/ Dispatch(r) \/ CacheGet(r) \/ Send(r) \/ Receive(r)
    <2>1. \E y : Move(r, y) /\ Onward(req[r], y)
      BY <1>4, CheckEndpointGood, GuardGood, CheckRateGood, CheckQuotaGood, BelowGood, DispatchGood,
         CacheGetGood, SendGood, ReceiveGood, Zenon
    <2>2. PICK y : Move(r, y) /\ Onward(req[r], y)
      BY <2>1
    <2>3. req[r].pc # "idle"
      BY <2>2 DEF Onward, Reached, BelowPcs
    <2>4. Judged(y)
      BY <2>2, <2>3, OnwardJudged DEF JudgedAll
    <2> QED BY <2>2, <2>4, MoveIs
  <1> QED BY <1>1, <1>2, <1>3, <1>4 DEF Step

\* A judged request stays so while storage and the clock stand still.
LEMMA JudgedLasts ==
  ASSUME UNCHANGED <<world, sessions, policies, now>>, NEW x
  PROVE  Judged(x)' <=> Judged(x)
  <1>1. Q(x)' = Q(x) /\ Api(x)' = Api(x)
    BY DEF Q, Api
  <1>2. Def(x)' = Def(x)
    BY <1>1 DEF Def
  <1>3. UsableNow(x)' <=> UsableNow(x)
    BY <1>1 DEF UsableNow, Usable, Credentials
  <1>4. (Placed(x)' <=> Placed(x)) /\ (Fit(x)' <=> Fit(x))
    BY <1>1, <1>2 DEF Placed, Fit
  <1>5. Passed(x)' <=> Passed(x)
    BY DEF Passed
  <1> QED BY <1>1, <1>2, <1>3, <1>4, <1>5 DEF Judged

\* The judgement of every request is inductive.
LEMMA JudgedStays ==
  ASSUME Requested, Tabled, JudgedAll, [Next]_vars
  PROVE  JudgedAll'
  <1>1. CASE \E r \in Requests : Step(r)
    <2>1. PICK r \in Requests : Step(r)
      BY <1>1
    <2>2. UNCHANGED <<world, sessions, policies, now>> /\ \E y : Move(r, y)
      BY <2>1, StepGood
    <2>3. \A s \in Requests : s # r => req'[s] = req[s]
      BY <2>2 DEF Move, Requested
    <2>4. ASSUME NEW s \in Requests, req'[s].pc # "idle"
          PROVE  Judged(req[s])'
      <3>1. PICK x : x = req'[s]
        OBVIOUS
      <3>2. Judged(x)
        <4>1. CASE s = r
          BY <2>1, <3>1, <4>1, StepJudged
        <4>2. CASE s # r
          BY <2>3, <2>4, <3>1, <4>2 DEF JudgedAll
        <4> QED BY <4>1, <4>2
      <3>3. Judged(x)'
        BY <2>2, <3>2, JudgedLasts
      <3> QED BY <3>1, <3>3
    <2> QED BY <2>2, <2>4 DEF JudgedAll
  <1>2. CASE \/ Load \/ (\E w \in writes : WriteCache(w))
             \/ (\E key \in DOMAIN counters : WindowElapses(key)) \/ UNCHANGED vars
    <2>1. UNCHANGED <<world, sessions, policies, now, req>>
      BY <1>2 DEF Load, WriteCache, WindowElapses, vars, store
    <2>2. ASSUME NEW s \in Requests, req'[s].pc # "idle"
          PROVE  Judged(req[s])'
      <3>1. PICK x : x = req'[s]
        OBVIOUS
      <3>2. Judged(x)
        BY <2>1, <2>2, <3>1 DEF JudgedAll
      <3>3. Judged(x)'
        BY <2>1, <3>2, JudgedLasts
      <3> QED BY <3>1, <3>3
    <2> QED BY <2>1, <2>2 DEF JudgedAll
  <1>3. CASE Admin \/ Tick
    <2>1. UNCHANGED world /\ Observe
      BY <1>3 DEF Admin, Tick
    <2>2. ASSUME NEW s \in Requests, req'[s].pc # "idle"
          PROVE  Judged(req[s])'
      <3>1. PICK x : x = req'[s]
        OBVIOUS
      <3>2. CASE req[s].pc = "idle"
        BY <2>1, <2>2, <3>2 DEF Observe
      <3>3. CASE req[s].pc # "idle"
        <4>1. ~x.steady /\ (x.faulted => x.pc = "done" /\ x.by = "auth")
          <5>1. DOMAIN req[s] = Fields /\ Judged(req[s])
            BY <3>3 DEF Requested, Good, JudgedAll
          <5>2. PICK b : x = [req[s] EXCEPT !.steady = FALSE, !.dead = b]
            BY <2>1, <3>1, <3>3 DEF Observe
          <5> QED BY <5>1, <5>2 DEF Fields, Judged
        <4>2. Judged(x)'
          BY <4>1 DEF Judged
        <4> QED BY <3>1, <4>2
      <3> QED BY <3>2, <3>3
    <2> QED BY <2>1, <2>2 DEF JudgedAll
  <1> QED BY <1>1, <1>2, <1>3 DEF Next

\* Across all auth modes the chain decides exactly what the credential that the
\* pre hooks leave is worth (auth.rs, plugin.rs:3-5): while storage stands still a
\* request passes only if that credential is live, proved and granted the API,
\* whatever storage calls failed, and is refused by auth only if it is not or
\* storage failed.
THEOREM AuthDecidesBySpec == Spec => []AuthMatchesSpec
  <1>1. Init => JudgedAll
    BY DEF Init, JudgedAll
  <1>2. Requested /\ Tabled /\ JudgedAll /\ [Next]_vars => JudgedAll'
    BY JudgedStays
  <1>3. JudgedAll => AuthMatchesSpec
    <2>1. ASSUME NEW x, Judged(x), x.steady, Passed(x)
          PROVE  UsableNow(x)
      <3>1. ~x.faulted
        BY <2>1 DEF Judged, Passed, BelowLimits, LimitNames, Pcs
      <3> QED BY <2>1, <3>1 DEF Judged
    <2>2. ASSUME NEW x, Judged(x), x.steady, x.pc = "done", x.by = "auth", ~x.faulted
          PROVE  ~UsableNow(x)
      BY <2>2 DEF Judged
    <2> QED BY <2>1, <2>2 DEF JudgedAll, AuthMatchesSpec, UsableNow
  <1> QED BY <1>1, <1>2, <1>3, RequestsStayGood, AlwaysTabled, PTL DEF Spec

-----------------------------------------------------------------------------
(* Headers: what the operators on them leave.                                 *)

\* The hop appended to a chain is its last.
LEMMA AppendsLast ==
  ASSUME NEW s, IsChain(s), NEW e
  PROVE  Last(Append(s, e)) = e
  <1> DEFINE t == Append(s, e)
             S == Range(s) \cup {e}
  <1>0. s \in Seq(S) /\ e \in S
    BY DEF IsChain
  <1> HIDE DEF S
  <1>1. Len(t) = Len(s) + 1 /\ t[Len(s) + 1] = e
    BY <1>0, AppendProperties
  <1> HIDE DEF t
  <1> QED BY <1>1 DEF Last, t

\* Headers laid over others: the later ones win.
LEMMA WithIs ==
  ASSUME NEW f, NEW g
  PROVE  /\ DOMAIN With(f, g) = DOMAIN f \cup DOMAIN g
         /\ \A h \in DOMAIN With(f, g) : With(f, g)[h] = IF h \in DOMAIN g THEN g[h] ELSE f[h]
  BY DEF With

\* Headers taken out: the others stay as they were.
LEMMA WithoutIs ==
  ASSUME NEW f, NEW names
  PROVE  /\ DOMAIN Without(f, names) = DOMAIN f \ names
         /\ \A h \in DOMAIN f \ names : Without(f, names)[h] = f[h]
  BY DEF Without

\* A single header.
LEMMA HeaderIs ==
  ASSUME NEW name, NEW value
  PROVE  DOMAIN Header(name, value) = {name} /\ Header(name, value)[name] = value
  BY DEF Header


\* Stripping leaves end-to-end headers, as they were.
LEMMA StrippedIs ==
  ASSUME NEW f
  PROVE  /\ DOMAIN StripHopByHop(f) \subseteq DOMAIN f
         /\ DOMAIN StripHopByHop(f) \cap HopByHop = {}
         /\ \A h \in DOMAIN StripHopByHop(f) : StripHopByHop(f)[h] = f[h]
  <1> DEFINE names == HopByHop \cup IF "connection" \in DOMAIN f THEN Range(f["connection"]) ELSE {}
  <1>1. StripHopByHop(f) = Without(f, names)
    BY DEF StripHopByHop
  <1>2. HopByHop \subseteq names
    OBVIOUS
  <1> HIDE DEF names
  <1>3. DOMAIN StripHopByHop(f) = DOMAIN f \ names
    BY <1>1, WithoutIs
  <1>4. \A h \in DOMAIN f \ names : StripHopByHop(f)[h] = f[h]
    <2>1. \A h \in DOMAIN f \ names : Without(f, names)[h] = f[h]
      BY WithoutIs, Zenon
    <2> QED BY <1>1, <2>1
  <1> QED BY <1>2, <1>3, <1>4

\* What `apply_forwarded_headers` leaves: the client's address is the last hop,
\* and every other header is an old one or one of the forwarded ones.
LEMMA ForwardedIs ==
  ASSUME NEW f, Hops(f), NEW ip, NEW host, NEW tls,
         NEW g, g = ApplyForwarded(f, ip, host, tls)
  PROVE  /\ "x-forwarded-for" \in DOMAIN g /\ Last(g["x-forwarded-for"]) = ip
         /\ DOMAIN g \subseteq DOMAIN f \cup
              {"x-forwarded-for", "x-forwarded-proto", "x-forwarded-host"}
         /\ \A h \in DOMAIN f : h # "x-forwarded-for" => g[h] = f[h]
  <1> DEFINE chain == IF "x-forwarded-for" \in DOMAIN f THEN f["x-forwarded-for"] ELSE <<>>
             hop == Append(chain, ip)
             proto == Header("x-forwarded-proto", <<IF tls THEN "https" ELSE "http">>)
             named == IF host = <<>> THEN <<>> ELSE Header("x-forwarded-host", host)
             fresh == With(proto, named)
             one == Header("x-forwarded-for", hop)
             old == With(f, one)
  <1>1. g = With(fresh, old)
    BY DEF ApplyForwarded
  <1>2. Last(hop) = ip
    <2>1. IsChain(<<>>)
      BY DEF IsChain
    <2>2. IsChain(chain)
      BY <2>1, Zenon DEF Hops
    <2> HIDE DEF chain
    <2> QED BY <2>2, AppendsLast
  <1> HIDE DEF hop
  <1>3. DOMAIN one = {"x-forwarded-for"} /\ one["x-forwarded-for"] = hop
    BY HeaderIs
  <1>4. DOMAIN proto = {"x-forwarded-proto"} /\ DOMAIN named \subseteq {"x-forwarded-host"}
    <2>1. DOMAIN <<>> = {}
      OBVIOUS
    <2> QED BY <2>1, HeaderIs, Zenon
  <1> HIDE DEF one, proto, named
  <1>5. DOMAIN fresh \subseteq {"x-forwarded-proto", "x-forwarded-host"}
    <2>1. DOMAIN fresh = DOMAIN proto \cup DOMAIN named
      BY WithIs, Zenon
    <2> HIDE DEF fresh
    <2> QED BY <1>4, <2>1
  <1>6. /\ DOMAIN old = DOMAIN f \cup {"x-forwarded-for"} /\ old["x-forwarded-for"] = hop
        /\ \A h \in DOMAIN f : h # "x-forwarded-for" => old[h] = f[h]
    BY <1>3, WithIs
  <1> HIDE DEF fresh, old
  <1>7. DOMAIN g = DOMAIN fresh \cup DOMAIN old /\ \A h \in DOMAIN old : g[h] = old[h]
    <2> DEFINE w == With(fresh, old)
    <2>1. DOMAIN w = DOMAIN fresh \cup DOMAIN old
      BY WithIs, Zenon
    <2>2. \A h \in DOMAIN w : w[h] = IF h \in DOMAIN old THEN old[h] ELSE fresh[h]
      BY WithIs, Zenon
    <2> HIDE DEF w
    <2>3. g = w
      BY <1>1 DEF w
    <2> QED BY <2>1, <2>2, <2>3
  <1> QED BY <1>2, <1>5, <1>6, <1>7

\* `prepare_upstream_headers`: nothing hop-by-hop but a kept `te`, no value of an
\* end-to-end header changed outside the forwarded ones, the client as last hop.
Prepared(d, f, ip, g) ==
  /\ DOMAIN g \cap HopByHop \subseteq IF d.http2 THEN {"te"} ELSE {}
  /\ "x-forwarded-for" \in DOMAIN g /\ Last(g["x-forwarded-for"]) = ip
  /\ "x-g2-api-id" \in DOMAIN g => g["x-g2-api-id"] = f["x-g2-api-id"]

\* ... and with the API id of `b` stamped first.
Outgoing(d, b, ip, g) ==
  /\ DOMAIN g \cap HopByHop \subseteq IF d.http2 THEN {"te"} ELSE {}
  /\ "x-forwarded-for" \in DOMAIN g /\ Last(g["x-forwarded-for"]) = ip
  /\ "x-g2-api-id" \in DOMAIN g => g["x-g2-api-id"] = <<b.api_id>>

\* Such are the headers `prepare_upstream_headers` makes of any.
LEMMA PreparedIs ==
  ASSUME NEW d, NEW f, Hops(f), NEW ip, NEW tls
  PROVE  Prepared(d, f, ip, PrepareUpstreamHeaders(d, f, ip, tls))
  <1>0. PICK g : g = PrepareUpstreamHeaders(d, f, ip, tls)
    OBVIOUS
  <1> DEFINE host == IF "host" \in DOMAIN f THEN f["host"] ELSE <<>>
             cut == IF d.preserve_host THEN {} ELSE {"host"}
             kept == Without(StripHopByHop(f), cut)
             te == IF d.http2 /\ "te" \in DOMAIN f /\ "trailers" \in Range(f["te"])
                   THEN Header("te", <<"trailers">>) ELSE <<>>
             fwd == ApplyForwarded(kept, ip, host, tls)
  <1>1. g = With(fwd, te)
    BY <1>0 DEF PrepareUpstreamHeaders
  <1>2. /\ DOMAIN kept \subseteq DOMAIN f /\ DOMAIN kept \cap HopByHop = {}
        /\ \A h \in DOMAIN kept : kept[h] = f[h]
    <2> DEFINE s == StripHopByHop(f)
    <2>1. /\ DOMAIN s \subseteq DOMAIN f /\ DOMAIN s \cap HopByHop = {}
          /\ \A h \in DOMAIN s : s[h] = f[h]
      BY StrippedIs, Zenon
    <2> HIDE DEF cut, s
    <2>2. DOMAIN kept = DOMAIN s \ cut
      BY WithoutIs, Zenon DEF s
    <2>3. \A h \in DOMAIN s \ cut : kept[h] = s[h]
      BY WithoutIs, Zenon DEF s
    <2> HIDE DEF kept
    <2> QED BY <2>1, <2>2, <2>3
  <1>3. Hops(kept)
    BY <1>2 DEF Hops
  <1>4. DOMAIN te \subseteq {"te"} /\ (~d.http2 => DOMAIN te = {})
    <2>1. DOMAIN <<>> = {}
      OBVIOUS
    <2>2. DOMAIN Header("te", <<"trailers">>) = {"te"}
      BY HeaderIs, Zenon
    <2> QED BY <2>1, <2>2, Zenon
  <1> HIDE DEF kept, host, te
  <1>5. /\ "x-forwarded-for" \in DOMAIN fwd /\ Last(fwd["x-forwarded-for"]) = ip
        /\ DOMAIN fwd \subseteq DOMAIN kept \cup
             {"x-forwarded-for", "x-forwarded-proto", "x-forwarded-host"}
        /\ \A h \in DOMAIN kept : h # "x-forwarded-for" => fwd[h] = kept[h]
    BY <1>3, ForwardedIs
  <1> HIDE DEF fwd
  <1>6. DOMAIN g = DOMAIN fwd \cup DOMAIN te /\ \A h \in DOMAIN fwd : h # "te" => g[h] = fwd[h]
    <2>1. /\ DOMAIN g = DOMAIN fwd \cup DOMAIN te
          /\ \A h \in DOMAIN g : g[h] = IF h \in DOMAIN te THEN te[h] ELSE fwd[h]
      <3> DEFINE w == With(fwd, te)
      <3>1. DOMAIN w = DOMAIN fwd \cup DOMAIN te
        BY WithIs, Zenon
      <3>2. \A h \in DOMAIN w : w[h] = IF h \in DOMAIN te THEN te[h] ELSE fwd[h]
        BY WithIs, Zenon
      <3> QED BY <1>1, <3>1, <3>2
    <2> QED BY <1>4, <2>1
  <1>7. DOMAIN fwd \cap HopByHop = {}
    BY <1>2, <1>5, OwnHeadersAssumption
  <1>8. DOMAIN g \cap HopByHop \subseteq IF d.http2 THEN {"te"} ELSE {}
    BY <1>4, <1>6, <1>7
  <1>9. /\ "x-forwarded-for" \in DOMAIN g /\ Last(g["x-forwarded-for"]) = ip
        /\ "x-g2-api-id" \in DOMAIN g => g["x-g2-api-id"] = f["x-g2-api-id"]
    BY <1>2, <1>4, <1>5, <1>6
  <1>10. Prepared(d, f, ip, g)
    BY <1>8, <1>9 DEF Prepared
  <1> QED BY <1>0, <1>10

\* A request in one of the inner chains of a routed API.
Chained(x) ==
  /\ x.q \in DOMAIN world.inputs /\ Api(x) \in world.defs /\ Api(x).api_id = x.api
  /\ Def(x) \in Chains(Api(x))

\* What the upstream may see of a request's headers.
SentClean(x, hs) ==
  /\ DOMAIN hs \cap HopByHop \subseteq
       (IF Upgrading(x) THEN {"connection", "upgrade"} ELSE {})
       \cup (IF Def(x).http2 THEN {"te"} ELSE {})
  /\ "x-g2-api-id" \in DOMAIN hs => hs["x-g2-api-id"] = <<x.api>>
  /\ Last(hs["x-forwarded-for"]) = ClientIp(Q(x))

\* The stamp replaces whatever the header held, and no other header.
Stamped(d, f, g) ==
  /\ DOMAIN g = DOMAIN f \cup {"x-g2-api-id"} /\ g["x-g2-api-id"] = <<d.api_id>>
  /\ \A h \in DOMAIN f : h # "x-g2-api-id" => g[h] = f[h]

\* Such are the headers `ApiIdHeader` makes of any.
LEMMA StampedIs ==
  ASSUME NEW d, NEW f
  PROVE  Stamped(d, f, StampApiId(d, f))
  <1> DEFINE one == Header("x-g2-api-id", <<d.api_id>>)
             w == With(f, one)
  <1>1. StampApiId(d, f) = w
    BY DEF StampApiId
  <1>2. DOMAIN one = {"x-g2-api-id"} /\ one["x-g2-api-id"] = <<d.api_id>>
    BY HeaderIs, Zenon
  <1> HIDE DEF one
  <1>3. DOMAIN w = DOMAIN f \cup DOMAIN one
    BY WithIs, Zenon
  <1>4. \A h \in DOMAIN w : w[h] = IF h \in DOMAIN one THEN one[h] ELSE f[h]
    BY WithIs, Zenon
  <1> HIDE DEF one, w
  <1>5. Stamped(d, f, w)
    BY <1>2, <1>3, <1>4 DEF Stamped
  <1> QED BY <1>1, <1>5

\* The two together: whatever the header held, the id is the API's own.
LEMMA OutgoingIs ==
  ASSUME NEW d, NEW b, NEW hs, Hops(hs), NEW ip, NEW tls
  PROVE  Outgoing(d, b, ip, PrepareUpstreamHeaders(d, StampApiId(b, hs), ip, tls))
  <1>1. PICK f : f = StampApiId(b, hs)
    OBVIOUS
  <1>2. Stamped(b, hs, f)
    BY <1>1, StampedIs
  <1>3. Hops(f)
    BY <1>2 DEF Hops, Stamped
  <1>4. PICK g : g = PrepareUpstreamHeaders(d, f, ip, tls)
    OBVIOUS
  <1>5. Prepared(d, f, ip, g)
    BY <1>3, <1>4, PreparedIs
  <1>6. Outgoing(d, b, ip, g)
    BY <1>2, <1>5 DEF Outgoing, Stamped, Prepared
  <1> QED BY <1>1, <1>4, <1>6

\* An upgrade adds its two headers and leaves the others.
LEMMA UpgradedIs ==
  ASSUME NEW g, NEW value, NEW w,
         w = With(g, With(Header("connection", <<"upgrade">>), Header("upgrade", value)))
  PROVE  /\ DOMAIN w = DOMAIN g \cup {"connection", "upgrade"}
         /\ \A h \in DOMAIN g : h \notin {"connection", "upgrade"} => w[h] = g[h]
  <1> DEFINE one == Header("connection", <<"upgrade">>)
             two == Header("upgrade", value)
             up == With(one, two)
             v == With(g, up)
  <1>1. DOMAIN one = {"connection"} /\ DOMAIN two = {"upgrade"}
    BY HeaderIs, Zenon
  <1> HIDE DEF one, two
  <1>2. DOMAIN up = DOMAIN one \cup DOMAIN two
    BY WithIs, Zenon
  <1>3. DOMAIN up = {"connection", "upgrade"}
    BY <1>1, <1>2
  <1>4. w = v
    BY DEF one, two
  <1> HIDE DEF up
  <1>5. DOMAIN v = DOMAIN g \cup DOMAIN up
    BY WithIs, Zenon
  <1>6. \A h \in DOMAIN v : v[h] = IF h \in DOMAIN up THEN up[h] ELSE g[h]
    BY WithIs, Zenon
  <1> HIDE DEF v
  <1> QED BY <1>3, <1>4, <1>5, <1>6

\* What the forwarder sends is clean.
LEMMA UpstreamClean ==
  ASSUME NEW x, Chained(x), Hops(x.headers)
  PROVE  SentClean(x, UpstreamHeaders(x))
  <1>1. PICK d, b, hs, ip, tls : /\ d = Def(x) /\ b = Api(x) /\ hs = x.headers
                                 /\ ip = ClientIp(Q(x)) /\ tls = Q(x).tls
    OBVIOUS
  <1>2. b.api_id = x.api
    BY <1>1 DEF Chained
  <1>3. PICK g : g = PrepareUpstreamHeaders(d, StampApiId(b, hs), ip, tls)
    OBVIOUS
  <1>4. Outgoing(d, b, ip, g)
    <2>1. Hops(hs)
      BY <1>1
    <2> QED BY <1>3, <2>1, OutgoingIs
  <1>5. PICK w : w = With(g, With(Header("connection", <<"upgrade">>), Header("upgrade", hs["upgrade"])))
    OBVIOUS
  <1>6. /\ DOMAIN w = DOMAIN g \cup {"connection", "upgrade"}
        /\ \A h \in DOMAIN g : h \notin {"connection", "upgrade"} => w[h] = g[h]
    BY <1>5, UpgradedIs
  <1>7. UpstreamHeaders(x) = IF Upgrading(x) THEN w ELSE g
    BY <1>1, <1>3, <1>5, Zenon DEF UpstreamHeaders
  <1>8. CASE Upgrading(x)
    <2>1. DOMAIN w \cap HopByHop \subseteq {"connection", "upgrade"} \cup (IF d.http2 THEN {"te"} ELSE {})
      BY <1>4, <1>6 DEF Outgoing
    <2>2. /\ "x-g2-api-id" \in DOMAIN w => w["x-g2-api-id"] = <<x.api>>
          /\ Last(w["x-forwarded-for"]) = ip
      BY <1>2, <1>4, <1>6 DEF Outgoing
    <2>3. UpstreamHeaders(x) = w
      BY <1>7, <1>8
    <2> QED BY <1>1, <1>8, <2>1, <2>2, <2>3 DEF SentClean
  <1>9. CASE ~Upgrading(x)
    <2>1. UpstreamHeaders(x) = g
      BY <1>7, <1>9
    <2> QED BY <1>1, <1>2, <1>4, <1>9, <2>1 DEF SentClean, Outgoing
  <1> QED BY <1>8, <1>9

\* A definition that sets no hop-by-hop header, in transforms and in mocks.
SetsCleanly(d) ==
  /\ \A t \in d.transform_headers : DOMAIN t.response.add \cap HopByHop = {}
  /\ \A i \in DOMAIN d.mocks : DOMAIN d.mocks[i].headers \cap HopByHop = {}

\* Such is every definition that validates.
LEMMA ValidSetsCleanly ==
  ASSUME NEW d, UnversionedOk(d)
  PROVE  SetsCleanly(d)
  <1>1. \A t \in d.transform_headers : HeadersOk(t.response.add)
    BY Zenon DEF UnversionedOk, HeaderTransformOk
  <1>2. \A m \in Range(d.mocks) : HeadersOk(m.headers)
    BY Zenon DEF UnversionedOk, MockOk
  <1>3. \A i \in DOMAIN d.mocks : d.mocks[i] \in Range(d.mocks)
    BY DEF Range
  <1>4. \A add : HeadersOk(add) => DOMAIN add \cap HopByHop = {}
    BY DEF HeadersOk
  <1> QED BY <1>1, <1>2, <1>3, <1>4 DEF SetsCleanly

-----------------------------------------------------------------------------
(* Headers through hooks and transforms.                                      *)

\* End-to-end headers only.
EndToEnd(f) == DOMAIN f \cap HopByHop = {}

\* Headers laid over others.
LEMMA OverlaidIs ==
  ASSUME NEW f, NEW g
  PROVE  /\ EndToEnd(f) /\ EndToEnd(g) => EndToEnd(With(f, g))
         /\ Hops(f) /\ Hops(g) => Hops(With(f, g))
  <1>1. PICK w : w = With(f, g)
    OBVIOUS
  <1>2. /\ DOMAIN w = DOMAIN f \cup DOMAIN g
        /\ \A h \in DOMAIN w : w[h] = IF h \in DOMAIN g THEN g[h] ELSE f[h]
    BY <1>1 DEF With
  <1>3. /\ EndToEnd(f) /\ EndToEnd(g) => EndToEnd(w)
        /\ Hops(f) /\ Hops(g) => Hops(w)
    BY <1>2 DEF EndToEnd, Hops
  <1> QED BY <1>1, <1>3

\* Headers taken out.
LEMMA CutIs ==
  ASSUME NEW f, NEW names
  PROVE  /\ EndToEnd(f) => EndToEnd(Without(f, names))
         /\ Hops(f) => Hops(Without(f, names))
  <1>1. PICK w : w = Without(f, names)
    OBVIOUS
  <1>2. DOMAIN w = DOMAIN f \ names /\ \A h \in DOMAIN f \ names : w[h] = f[h]
    BY <1>1, WithoutIs
  <1>3. /\ EndToEnd(f) => EndToEnd(w)
        /\ Hops(f) => Hops(w)
    BY <1>2 DEF EndToEnd, Hops
  <1> QED BY <1>1, <1>3

\* One header.
LEMMA OneHeaderIs ==
  ASSUME NEW name, NEW value
  PROVE  /\ name \notin HopByHop => EndToEnd(Header(name, value))
         /\ name # "x-forwarded-for" => Hops(Header(name, value))
  <1>1. PICK w : w = Header(name, value)
    OBVIOUS
  <1>2. DOMAIN w = {name}
    BY <1>1, HeaderIs
  <1>3. /\ name \notin HopByHop => EndToEnd(w)
        /\ name # "x-forwarded-for" => Hops(w)
    BY <1>2 DEF EndToEnd, Hops
  <1> QED BY <1>1, <1>3

\* A header transform.
LEMMA RulesKeep ==
  ASSUME NEW t, NEW f
  PROVE  /\ EndToEnd(f) /\ EndToEnd(t.add) => EndToEnd(ApplyRules(t, f))
         /\ Hops(f) /\ Hops(t.add) => Hops(ApplyRules(t, f))
  BY OverlaidIs, CutIs DEF ApplyRules

\* The framing of a rendered body.
LEMMA FramingKeeps ==
  ASSUME NEW rule, NEW f
  PROVE  /\ EndToEnd(f) => EndToEnd(SetFraming(rule, f))
         /\ Hops(f) => Hops(SetFraming(rule, f))
  <1>1. /\ EndToEnd(Header("content-type", <<rule.content_type>>))
        /\ Hops(Header("content-type", <<rule.content_type>>))
    BY OneHeaderIs, OwnHeadersAssumption
  <1> QED BY <1>1, OverlaidIs, CutIs DEF SetFraming

\* The plugin hooks.
LEMMA PluginsKeep ==
  ASSUME NEW plugins, \A i \in DOMAIN plugins : Hops(plugins[i].out.set), NEW f, Hops(f)
  PROVE  Hops(RunPlugins(plugins, f))
  <1> DEFINE x == "x-forwarded-for"
             out(i) == plugins[i].out
             touches(i, h) == h \in out(i).remove \cup DOMAIN out(i).set
             sets(i, h) == h \in DOMAIN out(i).set /\ ~\E j \in (i + 1)..Len(plugins) : touches(j, h)
             kept == {h \in DOMAIN f : ~\E i \in DOMAIN plugins : touches(i, h)}
             set == UNION {{h \in DOMAIN out(i).set : sets(i, h)} : i \in DOMAIN plugins}
             value(h) == IF h \in kept THEN f[h] ELSE out(CHOOSE i \in DOMAIN plugins : sets(i, h)).set[h]
             w == [h \in kept \cup set |-> value(h)]
  <1>1. RunPlugins(plugins, f) = w
    BY DEF RunPlugins
  <1>2. DOMAIN w = kept \cup set /\ (x \in kept \cup set => w[x] = value(x))
    <2> HIDE DEF kept, set, value
    <2> QED OBVIOUS
  <1>3. x \in kept => IsChain(value(x))
    BY DEF Hops
  <1>4. x \in set => x \in kept \/ IsChain(value(x))
    <2> SUFFICES ASSUME x \in set, x \notin kept
                 PROVE  IsChain(value(x))
      OBVIOUS
    <2>1. \E i \in DOMAIN plugins : sets(i, x)
      OBVIOUS
    <2>2. PICK i : i = CHOOSE j \in DOMAIN plugins : sets(j, x)
      OBVIOUS
    <2>3. i \in DOMAIN plugins /\ sets(i, x)
      <3> HIDE DEF sets
      <3> QED BY <2>1, <2>2
    <2>4. value(x) = out(i).set[x]
      <3> HIDE DEF sets, kept, out
      <3> QED BY <2>2
    <2> HIDE DEF value, kept, set
    <2> QED BY <2>3, <2>4 DEF Hops
  <1> HIDE DEF w, kept, set, value
  <1>5. Hops(w)
    BY <1>2, <1>3, <1>4 DEF Hops
  <1> QED BY <1>1, <1>5

\* A step that leaves a request's chain, its headers and what was sent alone...
Spares(x, y) == DOMAIN y = Fields /\ SameChain(x, y) /\ y.headers = x.headers /\ y.sent = x.sent

\* ... and also what the client sees.
Carries(x, y) == Spares(x, y) /\ y.out = x.out

\* An answer the client may see; a hook is the author of its own.
Shown(y) ==
  y.pc = "done" /\ (y.status # 101 /\ y.by \notin {"pre", "post"} => EndToEnd(y.out))

\* The headers of a response that may travel back.
Presentable(resp) == resp.status # 101 => EndToEnd(resp.headers)

\* An answer of a layer of its own, and a move.
LEMMA AnswersCarry ==
  ASSUME NEW x, DOMAIN x = Fields, NEW status, NEW by, NEW pc
  PROVE  /\ LET y == Answered(x, status, by) IN Carries(x, y) /\ y.pc = "done" /\ y.status = status
         /\ LET y == Goto(x, pc) IN Carries(x, y) /\ y.pc = pc
  BY DEF Answered, Goto, Carries, Spares, SameChain, Fields

\* A response leaves through the response transform, which sets no hop-by-hop header.
LEMMA RespondClean ==
  ASSUME NEW x, DOMAIN x = Fields, SetsCleanly(Def(x)), NEW resp, Presentable(resp), NEW by
  PROVE  LET y == Respond(x, resp, by) IN Spares(x, y) /\ Shown(y)
  <1> DEFINE z == Answered(x, resp.status, by)
             h == OutHeaders(Def(x), resp)
             y == [z EXCEPT !.out = h]
  <1>1. Respond(x, resp, by) = y
    BY RespondIs
  <1>2. Carries(x, z) /\ z.pc = "done" /\ z.status = resp.status
    BY AnswersCarry
  <1>3. resp.status # 101 => EndToEnd(h)
    <2> SUFFICES ASSUME EndToEnd(resp.headers)
                 PROVE  EndToEnd(h)
      BY DEF Presentable
    <2>1. CASE Def(x).transform_headers = None
      BY <2>1 DEF OutHeaders
    <2>2. CASE Def(x).transform_headers # None
      <3>1. PICK t : t = CHOOSE rules \in Def(x).transform_headers : TRUE
        OBVIOUS
      <3>2. t \in Def(x).transform_headers
        BY <2>2, <3>1 DEF None
      <3>3. EndToEnd(t.response.add)
        BY <3>2 DEF SetsCleanly, EndToEnd
      <3>4. h = ApplyRules(t.response, resp.headers)
        BY <2>2, <3>1 DEF OutHeaders
      <3> HIDE DEF h
      <3> QED BY <3>3, <3>4, RulesKeep
    <2> QED BY <2>1, <2>2
  <1> HIDE DEF z, h
  <1>4. Spares(x, y) /\ y.pc = "done" /\ y.status = resp.status /\ y.out = h
    BY <1>2 DEF Carries, Spares, SameChain, Fields
  <1>5. Shown(y)
    BY <1>3, <1>4 DEF Shown
  <1> QED BY <1>1, <1>4, <1>5

\* The gateway's own error answers are presentable.
LEMMA ErrorsPresentable ==
  ASSUME NEW status
  PROVE  Presentable(JsonError(status)) /\ DOMAIN JsonError(status) = {"status", "headers", "size", "complete"}
  <1>1. EndToEnd(Header("content-type", <<"json">>))
    BY OneHeaderIs, OwnHeadersAssumption
  <1>2. PICK h : h = Header("content-type", <<"json">>)
    OBVIOUS
  <1>3. JsonError(status) = [status |-> status, headers |-> h, size |-> 0, complete |-> TRUE]
    BY <1>2 DEF JsonError
  <1> QED BY <1>1, <1>2, <1>3 DEF Presentable

\* Every way out of the body transform shows an end-to-end response.
LEMMA ReturnedClean ==
  ASSUME NEW x, DOMAIN x = Fields, SetsCleanly(Def(x)), NEW resp, Presentable(resp),
         DOMAIN resp = {"status", "headers", "size", "complete"}, NEW by, NEW y \in Returned(x, resp, by)
  PROVE  Spares(x, y) /\ Shown(y)
  <1>1. \/ y = Respond(x, resp, by)
        \/ y = Respond(x, JsonError(502), "transform")
        \/ /\ ~(resp.status < 200)
           /\ \E rule : y = Respond(x, [resp EXCEPT !.headers = SetFraming(rule, @)], by)
    BY Zenon DEF Returned
  <1>2. CASE y = Respond(x, resp, by)
    BY <1>2, RespondClean
  <1>3. CASE y = Respond(x, JsonError(502), "transform")
    BY <1>3, RespondClean, ErrorsPresentable
  <1>4. CASE /\ ~(resp.status < 200)
             /\ \E rule : y = Respond(x, [resp EXCEPT !.headers = SetFraming(rule, @)], by)
    <2>1. PICK rule : y = Respond(x, [resp EXCEPT !.headers = SetFraming(rule, @)], by)
      BY <1>4
    <2>2. PICK f : f = SetFraming(rule, resp.headers)
      OBVIOUS
    <2>3. PICK rs : rs = [resp EXCEPT !.headers = f]
      OBVIOUS
    <2>4. y = Respond(x, rs, by)
      BY <2>1, <2>2, <2>3
    <2>5. EndToEnd(f)
      <3>1. resp.status # 101
        BY <1>4
      <3> QED BY <2>2, <3>1, FramingKeeps DEF Presentable
    <2>6. Presentable(rs)
      BY <2>3, <2>5 DEF Presentable
    <2> QED BY <2>4, <2>6, RespondClean
  <1> QED BY <1>1, <1>2, <1>3, <1>4

\* What the deployment's hooks and transforms set are chains of hops.
LEMMA ChainsSetHops ==
  ASSUME world \in Worlds, NEW d \in world.defs, NEW e \in Chains(d)
  PROVE  /\ \A t \in e.transform_headers : Hops(t.request.add)
         /\ \A kind \in {"pre", "post"} : \A i \in DOMAIN Hooks(e, kind) : Hops(Hooks(e, kind)[i].out.set)
  BY WorldsAssumption, Zenon

\* A hook layer answers, or leaves a chain of hops.
LEMMA HooksClean ==
  ASSUME world \in Worlds, NEW x, DOMAIN x = Fields, Chained(x), Hops(x.headers),
         NEW kind \in {"pre", "post"}, NEW next
  PROVE  LET y == HookStep(x, kind, next)
         IN /\ DOMAIN y = Fields /\ SameChain(x, y) /\ y.sent = x.sent
            /\ Shown(y) \/ y.out = x.out
            /\ Hops(y.headers)
  <1> DEFINE hooks == Hooks(Def(x), kind)
             y == HookStep(x, kind, next)
  <1>1. CASE StopsAt(hooks) # {}
    <2>1. PICK st, hs : y = [Answered(x, st, kind) EXCEPT !.out = hs]
      BY <1>1 DEF HookStep
    <2> HIDE DEF y
    <2>2. /\ DOMAIN y = Fields /\ SameChain(x, y) /\ y.sent = x.sent
          /\ y.headers = x.headers /\ y.pc = "done" /\ y.by = kind
      BY <2>1 DEF Answered, SameChain, Fields
    <2> QED BY <2>2 DEF Shown, y
  <1>2. CASE StopsAt(hooks) = {}
    <2>1. PICK hs : hs = RunPlugins(hooks, x.headers)
      OBVIOUS
    <2>2. y = [x EXCEPT !.headers = hs, !.pc = next]
      BY <1>2, <2>1 DEF HookStep
    <2>3. Hops(hs)
      <3>1. \A i \in DOMAIN hooks : Hops(hooks[i].out.set)
        BY ChainsSetHops DEF Chained
      <3>2. PICK hk, f : hk = hooks /\ f = x.headers
        OBVIOUS
      <3>3. (\A i \in DOMAIN hk : Hops(hk[i].out.set)) /\ Hops(f)
        BY <3>1, <3>2
      <3>4. Hops(RunPlugins(hk, f))
        BY <3>3, PluginsKeep
      <3> QED BY <2>1, <3>2, <3>4
    <2> HIDE DEF y
    <2>4. /\ DOMAIN y = Fields /\ SameChain(x, y) /\ y.sent = x.sent /\ y.out = x.out
          /\ y.headers = hs
      BY <2>2 DEF SameChain, Fields
    <2> QED BY <2>3, <2>4 DEF y
  <1> QED BY <1>1, <1>2

\* The request transforms leave a chain of hops, or refuse with an error.
LEMMA TransformedClean ==
  ASSUME world \in Worlds, NEW x, DOMAIN x = Fields, Chained(x), Hops(x.headers),
         SetsCleanly(Def(x)), NEW y \in Transformed(x)
  PROVE  /\ DOMAIN y = Fields /\ SameChain(x, y) /\ y.sent = x.sent
         /\ Hops(y.headers)
         /\ Shown(y) \/ (y.pc = x.pc /\ y.out = x.out)
  <1> DEFINE hs == IF Def(x).transform_headers = None THEN x.headers
                   ELSE ApplyRules((CHOOSE t \in Def(x).transform_headers : TRUE).request, x.headers)
             u == [x EXCEPT !.headers = hs]
  <1>0. \/ y = u
        \/ \E st, by : y = Respond(u, JsonError(st), by)
        \/ \E rule : y = [u EXCEPT !.headers = SetFraming(rule, @)]
    <2>1. y \in IF BodyRules(x, "request") = {} THEN {u}
                ELSE IF TransformTooLarge(Def(x), Q(x)) THEN {Respond(u, JsonError(413), "size")}
                ELSE {Respond(u, JsonError(st), "transform") : st \in {400, 500}}
                     \cup {[u EXCEPT !.headers = SetFraming(rule, @)] : rule \in BodyRules(x, "request")}
      BY Zenon DEF Transformed
    <2> HIDE DEF u
    <2>2. CASE \E st \in {400, 500} : y = Respond(u, JsonError(st), "transform")
      BY <2>2, Zenon
    <2> QED BY <2>1, <2>2, Zenon
  <1> HIDE DEF hs
  <1>1. PICK h : h = hs
    OBVIOUS
  <1>2. PICK z : z = [x EXCEPT !.headers = h]
    OBVIOUS
  <1>3. Hops(h)
    <2>1. CASE Def(x).transform_headers = None
      BY <1>1, <2>1 DEF hs
    <2>2. CASE Def(x).transform_headers # None
      <3>1. PICK t, f : t = (CHOOSE rules \in Def(x).transform_headers : TRUE) /\ f = x.headers
        OBVIOUS
      <3>2. t \in Def(x).transform_headers
        BY <2>2, <3>1 DEF None
      <3>3. Hops(t.request.add) /\ Hops(f)
        BY <3>1, <3>2, ChainsSetHops DEF Chained
      <3>4. h = ApplyRules(t.request, f)
        BY <1>1, <2>2, <3>1 DEF hs
      <3> QED BY <3>3, <3>4, RulesKeep
    <2> QED BY <2>1, <2>2
  <1>4. /\ DOMAIN z = Fields /\ SameChain(x, z) /\ z.sent = x.sent /\ z.out = x.out
        /\ z.headers = h /\ z.pc = x.pc
    BY <1>2 DEF SameChain, Fields
  <1>5. \/ y = z
        \/ \E st, by : y = Respond(z, JsonError(st), by)
        \/ \E rule : y = [z EXCEPT !.headers = SetFraming(rule, @)]
    BY <1>0, <1>1, <1>2
  <1>6. CASE y = z
    BY <1>3, <1>4, <1>6
  <1>7. CASE \E st, by : y = Respond(z, JsonError(st), by)
    <2>1. PICK st, by : y = Respond(z, JsonError(st), by)
      BY <1>7
    <2>2. Def(z) = Def(x)
      BY <1>4, ChainDecides
    <2>3. Spares(z, y) /\ Shown(y)
      BY <1>4, <2>1, <2>2, RespondClean, ErrorsPresentable
    <2> QED BY <1>3, <1>4, <2>3 DEF Spares, SameChain
  <1>8. CASE \E rule : y = [z EXCEPT !.headers = SetFraming(rule, @)]
    <2>1. PICK rule : y = [z EXCEPT !.headers = SetFraming(rule, @)]
      BY <1>8
    <2>2. PICK f : f = SetFraming(rule, h)
      OBVIOUS
    <2>3. Hops(f)
      BY <1>3, <2>2, FramingKeeps
    <2>4. y = [z EXCEPT !.headers = f]
      BY <1>4, <2>1, <2>2
    <2> QED BY <1>4, <2>3, <2>4 DEF SameChain, Fields
  <1> QED BY <1>5, <1>6, <1>7, <1>8

-----------------------------------------------------------------------------
(* The steps that touch no header.                                            *)

\* Authentication, up to its first await.
LEMMA AuthCarries ==
  ASSUME NEW x, DOMAIN x = Fields
  PROVE  Carries(x, AuthStep(x))
  <1> DEFINE a == Def(x).auth
             tokens == {t \in ExtractToken(a, Seen(x)) : ClaimsVerified(a, t, world.key, now) /\ t.sub # None}
             ids == UNION {MappedPolicy(a, t) : t \in tokens}
             ctx(t) == [session |-> ClaimsSession(Def(x).org_id, x.api, t),
                        identity |-> <<a.mode, CHOOSE s \in t.sub : TRUE>>]
             z == [x EXCEPT !.ctx = {ctx(t) : t \in tokens}]
  <1>1. \/ TokenStep(x) = Answered(x, 403, "auth")
        \/ TokenStep(x) = Goto(z, "endpoint")
        \/ TokenStep(x) = [z EXCEPT !.pc = "policy",
                             !.ctx = {[c EXCEPT !.session.apply_policies = SetToSeq(ids)] : c \in @}]
    BY Zenon DEF TokenStep
  <1>2. PICK c : z = [x EXCEPT !.ctx = c]
    OBVIOUS
  <1> HIDE DEF z, ids
  <1>3. DOMAIN z = Fields /\ Carries(x, z)
    BY <1>2 DEF Carries, Spares, SameChain, Fields
  <1>4. Carries(x, TokenStep(x))
    <2>1. PICK y : y = TokenStep(x)
      OBVIOUS
    <2>2. CASE y = Answered(x, 403, "auth")
      BY <2>1, <2>2, AnswersCarry
    <2>3. CASE y = Goto(z, "endpoint")
      <3>1. Carries(z, y)
        BY <1>3, <2>3, AnswersCarry
      <3>2. Carries(x, y)
        BY <1>3, <3>1 DEF Carries, Spares, SameChain
      <3> QED BY <2>1, <3>2
    <2>4. CASE \E d : y = [z EXCEPT !.pc = "policy", !.ctx = d]
      <3>1. Carries(x, y)
        BY <1>3, <2>4 DEF Carries, Spares, SameChain, Fields
      <3> QED BY <2>1, <3>1
    <2> QED BY <1>1, <2>1, <2>2, <2>3, <2>4
  <1>5. \/ \E st : AuthStep(x) = Answered(x, st, "auth")
        \/ \E pc : AuthStep(x) = Goto(x, pc)
        \/ AuthStep(x) = TokenStep(x)
    BY Zenon DEF AuthStep
  <1> QED BY <1>4, <1>5, AnswersCarry

\* The grant check, the session and the policy lookup.
LEMMA LookupsCarry ==
  ASSUME NEW x, DOMAIN x = Fields
  PROVE  Carries(x, SessionFound(x)) /\ Carries(x, PolicyFound(x)) /\ \A st : Carries(x, Failed(x, st))
  <1>1. ASSUME NEW c, NEW pc
        PROVE  Carries(x, [x EXCEPT !.pc = pc, !.ctx = c])
    BY DEF Carries, Spares, SameChain, Fields
  <1>0. \A st : Carries(x, Answered(x, st, "auth"))
    BY AnswersCarry
  <1>2. ASSUME NEW c
        PROVE  Carries(x, Granted(x, c))
    <2>1. \/ Granted(x, c) = [x EXCEPT !.pc = "endpoint", !.ctx = Some(c)]
          \/ Granted(x, c) = Answered(x, 403, "auth")
      BY Zenon DEF Granted
    <2>2. Carries(x, [x EXCEPT !.pc = "endpoint", !.ctx = Some(c)])
      BY <1>1
    <2> QED BY <1>0, <2>1, <2>2, Zenon
  <1>3. ASSUME NEW c
        PROVE  Carries(x, Resolved(x, c))
    <2>1. \/ Resolved(x, c) = Granted(x, c)
          \/ Resolved(x, c) = [x EXCEPT !.pc = "policy", !.ctx = Some(c)]
          \/ Resolved(x, c) = Answered(x, 500, "auth")
      BY DEF Resolved
    <2>2. Carries(x, [x EXCEPT !.pc = "policy", !.ctx = Some(c)])
      BY <1>1
    <2> QED BY <1>0, <1>2, <2>1, <2>2, Zenon
  <1>4. Carries(x, SessionFound(x))
    <2>1. \/ \E st : SessionFound(x) = Answered(x, st, "auth")
          \/ \E c : SessionFound(x) = Resolved(x, c)
      BY Zenon DEF SessionFound
    <2> QED BY <1>3, <2>1, AnswersCarry
  <1>5. Carries(x, PolicyFound(x))
    <2>1. \/ \E st : PolicyFound(x) = [Answered(x, st, "auth") EXCEPT !.ctx = None]
          \/ \E c : PolicyFound(x) = Granted(x, c)
      BY Zenon DEF PolicyFound
    <2>2. ASSUME NEW st
          PROVE  Carries(x, [Answered(x, st, "auth") EXCEPT !.ctx = None])
      <3>1. PICK z : z = Answered(x, st, "auth")
        OBVIOUS
      <3>2. Carries(x, z)
        BY <3>1, AnswersCarry
      <3>3. Carries(x, [z EXCEPT !.ctx = None])
        BY <3>2 DEF Carries, Spares, SameChain, Fields
      <3> QED BY <3>1, <3>3
    <2> QED BY <1>2, <2>1, <2>2
  <1>6. ASSUME NEW st
        PROVE  Carries(x, Failed(x, st))
    <2>1. PICK z : z = Answered(x, st, "auth")
      OBVIOUS
    <2>2. Carries(x, z)
      BY <2>1, AnswersCarry
    <2>3. Carries(x, [z EXCEPT !.faulted = TRUE])
      BY <2>2 DEF Carries, Spares, SameChain, Fields
    <2> QED BY <2>1, <2>3 DEF Failed
  <1> QED BY <1>4, <1>5, <1>6

\* One limit, and a limit skipped.
LEMMA LimitCarries ==
  ASSUME NEW r \in Requests, NEW x, x = req[r], DOMAIN x = Fields, NEW key, NEW max, NEW status, NEW next,
         CheckLimit(r, key, max, status, next) \/ SkipLimit(r, next)
  PROVE  \E y : Move(r, y) /\ Carries(x, y)
  <1>1. \/ \E b : Move(r, [x EXCEPT !.pc = next, !.charged = b])
        \/ \E b : Move(r, [x EXCEPT !.pc = next, !.opened = b])
        \/ Move(r, Answered(x, status, x.pc))
        \/ Move(r, Goto(x, next))
    BY DEF CheckLimit, SkipLimit
  <1>2. ASSUME NEW b
        PROVE  /\ Carries(x, [x EXCEPT !.pc = next, !.charged = b])
               /\ Carries(x, [x EXCEPT !.pc = next, !.opened = b])
    BY DEF Carries, Spares, SameChain, Fields
  <1>3. Carries(x, Answered(x, status, x.pc)) /\ Carries(x, Goto(x, next))
    BY AnswersCarry
  <1> QED BY <1>1, <1>2, <1>3, Zenon

\* The steps of authentication, of the limits, and a client that leaves.
LEMMA StepsCarry ==
  ASSUME Requested, NEW r \in Requests,
         \/ Authenticate(r) \/ LookupSession(r) \/ LookupPolicy(r) \/ CheckEndpoint(r) \/ Guard(r)
         \/ CheckRate(r) \/ CheckQuota(r) \/ Disconnect(r)
  PROVE  Carries(req[r], req'[r])
  <1>1. PICK x : x = req[r]
    OBVIOUS
  <1>2. DOMAIN x = Fields
    BY <1>1 DEF Authenticate, LookupSession, LookupPolicy, CheckEndpoint, Guard, CheckRate, CheckQuota,
               CheckSession, Disconnect, Requested, Good
  <1> SUFFICES \E y : Move(r, y) /\ Carries(x, y)
    BY <1>1, MoveIs
  <1>3. CASE Authenticate(r)
    BY <1>1, <1>2, <1>3, AuthCarries DEF Authenticate
  <1>4. CASE LookupSession(r)
    BY <1>1, <1>2, <1>4, LookupsCarry DEF LookupSession
  <1>5. CASE LookupPolicy(r)
    <2>1. PICK z : z = [x EXCEPT !.ctx = None]
      OBVIOUS
    <2>2. Carries(x, z) /\ DOMAIN z = Fields
      BY <1>2, <2>1 DEF Carries, Spares, SameChain, Fields
    <2>3. Carries(z, Failed(z, 503))
      BY <2>2, LookupsCarry
    <2>4. Carries(x, Failed(z, 503))
      BY <2>2, <2>3 DEF Carries, Spares, SameChain
    <2>5. Carries(x, PolicyFound(x))
      BY <1>2, LookupsCarry
    <2>6. Move(r, PolicyFound(x)) \/ Move(r, Failed(z, 503))
      BY <1>1, <1>5, <2>1 DEF LookupPolicy
    <2> QED BY <2>4, <2>5, <2>6
  <1>6. CASE CheckEndpoint(r) \/ CheckRate(r) \/ CheckQuota(r)
    <2>1. \E key, max, status, next : CheckLimit(r, key, max, status, next) \/ SkipLimit(r, next)
      <3>1. CASE CheckEndpoint(r)
        BY <3>1, Zenon DEF CheckEndpoint
      <3>2. CASE CheckRate(r) \/ CheckQuota(r)
        BY <3>2, Zenon DEF CheckRate, CheckQuota, CheckSession
      <3> QED BY <1>6, <3>1, <3>2
    <2>2. PICK key, max, status, next : CheckLimit(r, key, max, status, next) \/ SkipLimit(r, next)
      BY <2>1
    <2> QED BY <1>1, <1>2, <2>2, LimitCarries
  <1>7. CASE Guard(r)
    BY <1>1, <1>2, <1>7, AnswersCarry DEF Guard
  <1>8. CASE Disconnect(r)
    BY <1>1, <1>2, <1>8, AnswersCarry DEF Disconnect
  <1> QED BY <1>3, <1>4, <1>5, <1>6, <1>7, <1>8

-----------------------------------------------------------------------------
(* The invariant of a request's headers.                                      *)

\* On its way down a request is in a chain of its API, with a chain of hops and
\* nothing shown; nothing is sent before the forwarder, and what was sent and
\* what is shown is clean.
Clean(x) ==
  /\ x.pc \notin {"done", "gone"} => Chained(x) /\ Hops(x.headers) /\ x.out = <<>>
  /\ x.pc \notin {"upstream", "done", "gone"} => x.sent = {}
  /\ \A hs \in x.sent : SentClean(x, hs)
  /\ x.pc = "done" => Shown(x)

CleanAll == world \in Worlds /\ \A r \in Requests : req[r].pc # "idle" => Clean(req[r])

\* No header is end to end.
LEMMA NothingShown == EndToEnd(<<>>)
  <1>1. DOMAIN <<>> = {}
    OBVIOUS
  <1> QED BY <1>1 DEF EndToEnd

\* A request's chain is one of its route's.
LEMMA ChainedFollows ==
  ASSUME NEW x, NEW y, SameChain(x, y)
  PROVE  Chained(y) <=> Chained(x)
  BY ChainDecides DEF Chained, SameChain

\* Before the forwarder the headers may be rewritten.
LEMMA RewrittenClean ==
  ASSUME NEW x, Clean(x), x.pc \notin {"upstream", "done", "gone"},
         NEW y, SameChain(x, y), y.sent = x.sent, Hops(y.headers), Shown(y) \/ y.out = x.out
  PROVE  Clean(y)
  <1>1. Chained(y) /\ y.sent = {} /\ x.out = <<>>
    BY ChainedFollows DEF Clean
  <1> QED BY <1>1, NothingShown DEF Clean, Shown

\* What was sent is judged by headers that no longer change.
LEMMA SentFollows ==
  ASSUME NEW x, NEW y, Spares(x, y), NEW hs
  PROVE  SentClean(y, hs) <=> SentClean(x, hs)
  <1>1. Def(y) = Def(x) /\ Q(y) = Q(x) /\ y.api = x.api /\ y.headers = x.headers
    BY ChainDecides DEF Spares, SameChain
  <1>2. Upgrading(y) <=> Upgrading(x)
    BY <1>1 DEF Upgrading
  <1> QED BY <1>1, <1>2 DEF SentClean

\* An answer to a request that was sent.
LEMMA AnsweredClean ==
  ASSUME NEW x, Clean(x), NEW y, Spares(x, y), Shown(y) \/ y.pc = "gone"
  PROVE  Clean(y)
  <1>1. \A hs \in y.sent : SentClean(y, hs)
    BY SentFollows DEF Clean, Spares
  <1> QED BY <1>1 DEF Clean, Shown

\* The chain of a request in flight sets no hop-by-hop header.
LEMMA ChainedCleanly ==
  ASSUME TableBuilds(world.defs), NEW x, Chained(x)
  PROVE  SetsCleanly(Def(x))
  <1>1. UnversionedOk(Def(x))
    BY ChainsValid DEF Chained
  <1> QED BY <1>1, ValidSetsCleanly

\* What a step finds: a clean request in flight.
Flows(r, x) ==
  /\ x = req[r] /\ Clean(x) /\ DOMAIN x = Fields
  /\ world \in Worlds /\ TableBuilds(world.defs)

\* Every request that is not idle flows so.
LEMMA StepFlows ==
  ASSUME Requested, Tabled, CleanAll, NEW r \in Requests, req[r].pc # "idle"
  PROVE  Flows(r, req[r])
  BY DEF Flows, Requested, Tabled, CleanAll, Good

\* The answer to a preflight carries headers of the layer's own alone.
LEMMA PreflightsClean ==
  ASSUME NEW c, NEW q
  PROVE  EndToEnd(PreflightHeaders(c, q))
  <1> DEFINE creds == AllowCredentials(c)
             asked == IF c.allowed_headers = {} THEN q.request_headers ELSE c.allowed_headers
             methods == Header("access-control-allow-methods", <<c.methods>>)
             hdrs == IF asked = {} THEN <<>> ELSE Header("access-control-allow-headers", <<asked>>)
             granted == With(creds, With(methods, hdrs))
             origin == AllowOrigin(c, CHOOSE o \in q.origin : TRUE)
             vary == Header("vary", <<"origin", "access-control-request-method",
                                      "access-control-request-headers">>)
             rest == IF PreflightAllowed(c, q) THEN With(granted, origin) ELSE <<>>
  <1>1. PreflightHeaders(c, q) = With(vary, rest)
    BY Zenon DEF PreflightHeaders
  <1>2. EndToEnd(creds)
    BY OneHeaderIs, OwnHeadersAssumption, NothingShown DEF AllowCredentials
  <1>3. EndToEnd(methods) /\ EndToEnd(vary) /\ EndToEnd(hdrs)
    BY OneHeaderIs, OwnHeadersAssumption, NothingShown
  <1>4. EndToEnd(origin)
    BY OneHeaderIs, OwnHeadersAssumption DEF AllowOrigin
  <1> HIDE DEF creds, methods, hdrs, origin, vary
  <1>5. EndToEnd(granted)
    BY <1>2, <1>3, OverlaidIs
  <1> HIDE DEF granted
  <1>6. EndToEnd(rest)
    BY <1>4, <1>5, OverlaidIs, NothingShown
  <1> HIDE DEF rest
  <1> QED BY <1>1, <1>3, <1>6, OverlaidIs

\* A request arrives in the one chain it may use, with the client's headers.
LEMMA ArriveClean ==
  ASSUME world \in Worlds, Requested, NEW r \in Requests, Arrive(r)
  PROVE  Clean(req'[r])
  <1>0. PICK y : y = req'[r]
    OBVIOUS
  <1>1. PICK q \in DOMAIN world.inputs :
          LET hits == MatchPath(world.defs, world.inputs[q].path)
              x == IF world.inputs[q].path \in HealthPaths THEN Answered(Fresh(q), 200, "route")
                   ELSE IF hits = {} THEN Answered(Fresh(q), 404, "route")
                   ELSE OuterStep([Fresh(q) EXCEPT !.api = (CHOOSE d \in hits : TRUE).api_id])
          IN Move(r, [x EXCEPT !.dead = Dead(x, sessions, now)])
    BY DEF Arrive
  <1> DEFINE hits == MatchPath(world.defs, world.inputs[q].path)
             f == Fresh(q)
  <1>2. /\ DOMAIN f = Fields /\ f.headers = world.inputs[q].headers /\ f.sent = {} /\ f.out = <<>>
        /\ f.steady /\ ~f.faulted
    BY DEF Fresh, Fields, None
  <1>3. PICK u, x : /\ Move(r, [u EXCEPT !.dead = Dead(u, sessions, now)])
                    /\ x = f \/ \E id : x = [f EXCEPT !.api = id]
                    /\ \/ \E st, by : u = Answered(x, st, by)
                       \/ \E hs : EndToEnd(hs) /\ u = [Answered(x, 204, "preflight") EXCEPT !.out = hs]
                       \/ \E sc : u = [x EXCEPT !.scope = sc, !.pc = "gate"]
    <2>1. \A z : \/ \E st, by : OuterStep(z) = Answered(z, st, by)
                 \/ \E hs : /\ EndToEnd(hs)
                            /\ OuterStep(z) = [Answered(z, 204, "preflight") EXCEPT !.out = hs]
                 \/ \E sc : OuterStep(z) = [z EXCEPT !.scope = sc, !.pc = "gate"]
      <3> TAKE z
      <3>1. \/ OuterStep(z) = Answered(z, 403, "ip") \/ OuterStep(z) = VersionStep(z)
            \/ \E c : OuterStep(z) = [Answered(z, 204, "preflight") EXCEPT !.out = PreflightHeaders(c, Q(z))]
        BY Zenon DEF OuterStep
      <3>2. \/ VersionStep(z) = Answered(z, 403, "version")
            \/ \E sc : VersionStep(z) = [z EXCEPT !.scope = sc, !.pc = "gate"]
        BY Zenon DEF VersionStep
      <3> QED BY <3>1, <3>2, PreflightsClean, Zenon
    <2>2. \/ \E st : Move(r, [Answered(f, st, "route") EXCEPT
                                !.dead = Dead(Answered(f, st, "route"), sessions, now)])
          \/ \E id : LET z == [f EXCEPT !.api = id]
                     IN Move(r, [OuterStep(z) EXCEPT !.dead = Dead(OuterStep(z), sessions, now)])
      BY <1>1, Zenon
    <2> HIDE DEF f
    <2>3. CASE \E st : Move(r, [Answered(f, st, "route") EXCEPT
                                  !.dead = Dead(Answered(f, st, "route"), sessions, now)])
      <3>1. PICK st : Move(r, [Answered(f, st, "route") EXCEPT
                                 !.dead = Dead(Answered(f, st, "route"), sessions, now)])
        BY <2>3
      <3>2. PICK u : u = Answered(f, st, "route")
        OBVIOUS
      <3>3. Move(r, [u EXCEPT !.dead = Dead(u, sessions, now)])
        BY <3>1, <3>2
      <3>4. f = f \/ \E id : f = [f EXCEPT !.api = id]
        OBVIOUS
      <3>5. \E st1, by : u = Answered(f, st1, by)
        BY <3>2
      <3> QED BY <3>3, <3>4, <3>5
    <2>4. CASE \E id : LET z == [f EXCEPT !.api = id]
                       IN Move(r, [OuterStep(z) EXCEPT !.dead = Dead(OuterStep(z), sessions, now)])
      <3>1. PICK id : LET z == [f EXCEPT !.api = id]
                      IN Move(r, [OuterStep(z) EXCEPT !.dead = Dead(OuterStep(z), sessions, now)])
        BY <2>4
      <3>2. PICK z : z = [f EXCEPT !.api = id]
        OBVIOUS
      <3>3. PICK u : u = OuterStep(z)
        OBVIOUS
      <3>4. Move(r, [u EXCEPT !.dead = Dead(u, sessions, now)])
        BY <3>1, <3>2, <3>3
      <3>5. \/ \E st, by : u = Answered(z, st, by)
            \/ \E hs : EndToEnd(hs) /\ u = [Answered(z, 204, "preflight") EXCEPT !.out = hs]
            \/ \E sc : u = [z EXCEPT !.scope = sc, !.pc = "gate"]
        BY <2>1, <3>3
      <3>6. z = f \/ \E ident : z = [f EXCEPT !.api = ident]
        BY <3>2, Zenon
      <3> QED BY <3>4, <3>5, <3>6, ZenonT(60)
    <2> QED BY <2>2, <2>3, <2>4
  <1> HIDE DEF f
  <1>4. /\ DOMAIN x = Fields /\ x.headers = world.inputs[q].headers /\ x.sent = {} /\ x.out = <<>>
        /\ x.steady /\ ~x.faulted
    BY <1>2, <1>3 DEF Fields
  <1>5. /\ DOMAIN u = Fields /\ u.headers = world.inputs[q].headers /\ u.sent = {}
        /\ (u.pc = "done" /\ EndToEnd(u.out)) \/ (u.pc = "gate" /\ u.out = <<>>)
        /\ u.steady /\ ~u.faulted
    <2>1. CASE \E st, by : u = Answered(x, st, by)
      <3>1. /\ DOMAIN u = Fields /\ u.headers = world.inputs[q].headers /\ u.sent = {} /\ u.out = <<>>
            /\ u.steady /\ ~u.faulted /\ u.pc = "done"
        BY <1>4, <2>1 DEF Answered, Fields
      <3> QED BY <3>1, NothingShown
    <2>2. CASE \E sc : u = [x EXCEPT !.scope = sc, !.pc = "gate"]
      BY <1>4, <2>2 DEF Fields
    <2>3. CASE \E hs : EndToEnd(hs) /\ u = [Answered(x, 204, "preflight") EXCEPT !.out = hs]
      <3>1. PICK hs : EndToEnd(hs) /\ u = [Answered(x, 204, "preflight") EXCEPT !.out = hs]
        BY <2>3
      <3>2. /\ DOMAIN u = Fields /\ u.headers = world.inputs[q].headers /\ u.sent = {} /\ u.out = hs
            /\ u.steady /\ ~u.faulted /\ u.pc = "done"
        <4>1. PICK z : z = Answered(x, 204, "preflight")
          OBVIOUS
        <4>2. /\ DOMAIN z = Fields /\ z.headers = world.inputs[q].headers /\ z.sent = {}
              /\ z.steady /\ ~z.faulted /\ z.pc = "done"
          BY <1>4, <4>1 DEF Answered, Fields
        <4>3. u = [z EXCEPT !.out = hs]
          BY <3>1, <4>1
        <4>4. /\ DOMAIN u = Fields /\ u.headers = z.headers /\ u.sent = z.sent /\ u.out = hs
              /\ u.steady = z.steady /\ u.faulted = z.faulted /\ u.pc = z.pc
          BY <4>2, <4>3 DEF Fields
        <4> QED BY <4>2, <4>4, Zenon
      <3>3. EndToEnd(u.out)
        BY <3>1, <3>2, Zenon
      <3> QED BY <3>2, <3>3, Zenon
    <2> QED BY <1>3, <2>1, <2>2, <2>3
  <1>6. PICK b : Move(r, [u EXCEPT !.dead = b])
    BY <1>3
  <1>7. y = [u EXCEPT !.dead = b]
    BY <1>0, <1>6, MoveIs
  <1>8. /\ y.headers = world.inputs[q].headers /\ y.sent = {}
        /\ (y.pc = "done" /\ EndToEnd(y.out)) \/ (y.pc = "gate" /\ y.out = <<>>)
        /\ y.steady /\ ~y.faulted
    BY <1>5, <1>7 DEF Fields
  <1>9. Judged(y)
    BY <1>0, ArriveJudged, MoveIs
  <1>10. y.pc = "gate" => Chained(y)
    <2>1. y.pc = "gate" => Placed(y)
      BY <1>8, <1>9 DEF Judged
    <2> QED BY <2>1, EffectiveIsChain DEF Placed, Chained
  <1>11. Hops(y.headers)
    BY <1>8, WorldsAssumption
  <1>12. Clean(y)
    BY <1>8, <1>10, <1>11, NothingShown DEF Clean, Shown
  <1> QED BY <1>0, <1>12

\* Path policy, size limit and pre hooks.
LEMMA GateClean ==
  ASSUME Requested, NEW r \in Requests, NEW x, Flows(r, x), Gate(r)
  PROVE  \E y : Clean(y) /\ Move(r, y)
  <1>1. PICK y : /\ Move(r, y)
                 /\ \/ \E st, by : y = Answered(x, st, by)
                    \/ y = HookStep(x, "pre", "auth")
    BY DEF Gate, Flows
  <1>2. x.pc = "gate" /\ Chained(x) /\ Hops(x.headers)
    BY DEF Gate, Flows, Clean
  <1>3. SameChain(x, y) /\ y.sent = x.sent /\ Hops(y.headers) /\ (Shown(y) \/ y.out = x.out)
    <2>1. CASE \E st, by : y = Answered(x, st, by)
      BY <1>2, <2>1, AnswersCarry DEF Carries, Spares, Flows
    <2>2. CASE y = HookStep(x, "pre", "auth")
      BY <1>2, <2>2, HooksClean DEF Flows
    <2> QED BY <1>1, <2>1, <2>2
  <1>4. Clean(y)
    BY <1>2, <1>3, RewrittenClean DEF Flows
  <1> QED BY <1>1, <1>4

\* Post hooks and request transforms.
LEMMA BelowClean ==
  ASSUME Requested, NEW r \in Requests, NEW x, Flows(r, x), Below(r)
  PROVE  \E y : Clean(y) /\ Move(r, y)
  <1>1. PICK h : h = HookStep(x, "post", "dispatch")
    OBVIOUS
  <1>2. PICK y : Move(r, y) /\ (y = h \/ (h.pc # "done" /\ y \in Transformed(h)))
    BY <1>1 DEF Below, Flows
  <1>3. x.pc = "below" /\ Chained(x) /\ Hops(x.headers)
    BY DEF Below, Flows, Clean
  <1>4. /\ DOMAIN h = Fields /\ SameChain(x, h) /\ h.sent = x.sent /\ Hops(h.headers)
        /\ Shown(h) \/ h.out = x.out
    BY <1>1, <1>3, HooksClean DEF Flows
  <1>5. Chained(h) /\ SetsCleanly(Def(h))
    BY <1>3, <1>4, ChainedFollows, ChainedCleanly DEF Flows
  <1>6. CASE y = h
    BY <1>2, <1>3, <1>4, <1>6, RewrittenClean DEF Flows
  <1>7. CASE h.pc # "done" /\ y \in Transformed(h)
    <2>1. /\ SameChain(h, y) /\ y.sent = h.sent /\ Hops(y.headers)
          /\ Shown(y) \/ y.out = h.out
      BY <1>4, <1>5, <1>7, TransformedClean DEF Flows
    <2>2. SameChain(x, y) /\ y.sent = x.sent /\ (Shown(y) \/ y.out = x.out)
      BY <1>4, <1>7, <2>1 DEF SameChain, Shown
    <2>3. Clean(y)
      BY <1>3, <2>1, <2>2, RewrittenClean DEF Flows
    <2> QED BY <1>2, <2>3
  <1> QED BY <1>2, <1>6, <1>7

\* A move to the next await before the forwarder.
LEMMA MovedClean ==
  ASSUME NEW x, Clean(x), DOMAIN x = Fields, x.pc \notin {"upstream", "done", "gone"}, NEW pc
  PROVE  Clean(Goto(x, pc))
  <1>1. PICK y : y = Goto(x, pc)
    OBVIOUS
  <1>2. Carries(x, y)
    BY <1>1, AnswersCarry
  <1>3. Hops(y.headers)
    BY <1>2 DEF Carries, Spares, Clean
  <1>4. Clean(y)
    BY <1>2, <1>3, RewrittenClean DEF Carries, Spares
  <1> QED BY <1>1, <1>4

\* A presentable response, whoever gave it.
LEMMA ReturnClean ==
  ASSUME NEW r \in Requests, NEW x, Flows(r, x), x.pc \notin {"done", "gone"}, NEW resp, Presentable(resp),
         DOMAIN resp = {"status", "headers", "size", "complete"}, NEW by, NEW y \in Returned(x, resp, by)
  PROVE  Clean(y) /\ Spares(x, y) /\ Shown(y)
  <1>1. SetsCleanly(Def(x))
    BY ChainedCleanly DEF Flows, Clean
  <1>2. Spares(x, y) /\ Shown(y)
    BY <1>1, ReturnedClean DEF Flows
  <1> QED BY <1>2, AnsweredClean DEF Flows

\* A mock, or the way to the cache or the upstream.
LEMMA DispatchClean ==
  ASSUME Requested, NEW r \in Requests, NEW x, Flows(r, x), Dispatch(r)
  PROVE  \E y : Clean(y) /\ Move(r, y)
  <1>1. x.pc = "dispatch" /\ SetsCleanly(Def(x))
    BY ChainedCleanly DEF Dispatch, Flows, Clean
  <1>2. \/ \E resp \in MockAnswer(x) : \E y \in Returned(x, resp, "mock") : Move(r, y)
        \/ \E pc : Move(r, Goto(x, pc))
    BY Zenon DEF Dispatch, Flows
  <1>3. CASE \E resp \in MockAnswer(x) : \E y \in Returned(x, resp, "mock") : Move(r, y)
    <2>1. PICK resp \in MockAnswer(x) : \E y \in Returned(x, resp, "mock") : Move(r, y)
      BY <1>3
    <2>2. PICK i \in FirstMatch(Def(x).mocks, Q(x)) :
            resp = [status |-> Def(x).mocks[i].status, headers |-> Def(x).mocks[i].headers,
                    size |-> Def(x).mocks[i].size, complete |-> TRUE]
      BY <2>1 DEF MockAnswer
    <2>3. i \in DOMAIN Def(x).mocks
      BY <2>2 DEF FirstMatch
    <2>4. EndToEnd(Def(x).mocks[i].headers)
      BY <1>1, <2>3 DEF SetsCleanly, EndToEnd
    <2>5. Presentable(resp) /\ DOMAIN resp = {"status", "headers", "size", "complete"}
      BY <2>2, <2>4 DEF Presentable
    <2> QED BY <1>1, <2>1, <2>5, ReturnClean
  <1>4. CASE \E pc : Move(r, Goto(x, pc))
    BY <1>1, <1>4, MovedClean DEF Flows
  <1> QED BY <1>2, <1>3, <1>4

\* Stripped headers, tagged.
LEMMA TaggedIs ==
  ASSUME NEW f
  PROVE  EndToEnd(StripHopByHop(f)) /\ EndToEnd(With(StripHopByHop(f), HitTag))
  <1>1. EndToEnd(StripHopByHop(f))
    BY StrippedIs DEF EndToEnd
  <1>2. EndToEnd(HitTag)
    BY OneHeaderIs, OwnHeadersAssumption DEF HitTag
  <1> QED BY <1>1, <1>2, OverlaidIs

\* A hit shows what an upstream answered, stripped.
LEMMA CacheGetClean ==
  ASSUME Requested, CacheInv, NEW r \in Requests, NEW x, Flows(r, x), CacheGet(r)
  PROVE  \E y : Clean(y) /\ Move(r, y)
  <1> DEFINE live == {e \in At(entries, KeyOf(x)) : now < e.expires}
  <1>1. x.pc = "cache"
    BY DEF CacheGet, Flows
  <1>2. \/ \E e \in live : \E y \in Returned([x EXCEPT !.src = Some(e.src)],
                                [e.resp EXCEPT !.headers = With(@, HitTag)], "hit") : Move(r, y)
        \/ Move(r, Goto(x, "forward"))
    BY Zenon DEF CacheGet, HitTag, Flows
  <1>3. \A e \in live : KeyOf(x) \in DOMAIN entries /\ e = entries[KeyOf(x)]
    BY DEF At, None
  <1>4. \A e \in live : Honest(KeyOf(x), e)
    BY <1>3 DEF CacheInv
  <1> HIDE DEF live
  <1>5. CASE Move(r, Goto(x, "forward"))
    BY <1>1, <1>5, MovedClean DEF Flows
  <1>6. ASSUME NEW e \in live, NEW y, Move(r, y),
               y \in Returned([x EXCEPT !.src = Some(e.src)], [e.resp EXCEPT !.headers = With(@, HitTag)], "hit")
        PROVE  Clean(y)
    <2>1. PICK z : z = [x EXCEPT !.src = Some(e.src)]
      OBVIOUS
    <2>2. DOMAIN z = Fields /\ Carries(x, z)
      BY <2>1 DEF Carries, Spares, SameChain, Fields, Flows
    <2>3. PICK a \in world.answers : e.resp = [a EXCEPT !.headers = StripHopByHop(a.headers)]
      BY <1>4 DEF Honest, Storable
    <2>4. DOMAIN a = {"status", "headers", "size", "complete"}
      BY WorldsAssumption DEF CacheInv
    <2>5. PICK h, g : h = StripHopByHop(a.headers) /\ g = With(h, HitTag)
      OBVIOUS
    <2>6. EndToEnd(g)
      BY <2>5, TaggedIs
    <2>7. e.resp.headers = h /\ DOMAIN e.resp = {"status", "headers", "size", "complete"}
      BY <2>3, <2>4, <2>5
    <2>8. PICK rs : rs = [e.resp EXCEPT !.headers = g]
      OBVIOUS
    <2>9. y \in Returned(z, rs, "hit")
      BY <1>6, <2>1, <2>5, <2>7, <2>8
    <2>10. Presentable(rs) /\ DOMAIN rs = {"status", "headers", "size", "complete"}
      BY <2>6, <2>7, <2>8 DEF Presentable
    <2>11. SetsCleanly(Def(z))
      <3>1. Chained(z)
        BY <1>1, <2>2, ChainedFollows DEF Flows, Clean, Carries, Spares
      <3> QED BY <3>1, ChainedCleanly DEF Flows
    <2>12. Spares(z, y) /\ Shown(y)
      BY <2>2, <2>9, <2>10, <2>11, ReturnedClean
    <2>13. Spares(x, y)
      BY <2>2, <2>12 DEF Carries, Spares, SameChain
    <2> QED BY <2>12, <2>13, AnsweredClean DEF Flows
  <1> QED BY <1>2, <1>5, <1>6

\* What the forwarder sends, or an open circuit's answer.
LEMMA SendClean ==
  ASSUME Requested, NEW r \in Requests, NEW x, Flows(r, x), Send(r)
  PROVE  \E y : Clean(y) /\ Move(r, y)
  <1>1. x.pc = "forward" /\ Chained(x) /\ Hops(x.headers) /\ x.out = <<>>
    BY DEF Send, Flows, Clean
  <1>2. \/ \E src : Move(r, [x EXCEPT !.pc = "upstream", !.sent = Some(UpstreamHeaders(x)), !.src = src])
        \/ \E y \in Returned(x, JsonError(503), "error") : Move(r, y)
    BY Zenon DEF Send, Flows
  <1>3. CASE \E y \in Returned(x, JsonError(503), "error") : Move(r, y)
    BY <1>1, <1>3, ErrorsPresentable, ReturnClean
  <1>4. CASE \E src : Move(r, [x EXCEPT !.pc = "upstream", !.sent = Some(UpstreamHeaders(x)), !.src = src])
    <2>1. PICK hs : hs = UpstreamHeaders(x)
      OBVIOUS
    <2>2. PICK src : Move(r, [x EXCEPT !.pc = "upstream", !.sent = Some(hs), !.src = src])
      BY <1>4, <2>1
    <2>3. PICK y : y = [x EXCEPT !.pc = "upstream", !.sent = Some(hs), !.src = src]
      OBVIOUS
    <2>4. /\ SameChain(x, y) /\ y.headers = x.headers /\ y.sent = {hs} /\ y.pc = "upstream"
          /\ y.out = <<>> /\ y.api = x.api
      BY <1>1, <2>3 DEF Flows, SameChain, Fields, Some
    <2>5. Def(y) = Def(x) /\ Q(y) = Q(x)
      BY <2>4, ChainDecides
    <2>6. SentClean(x, hs)
      BY <1>1, <2>1, UpstreamClean
    <2>7. Upgrading(y) <=> Upgrading(x)
      BY <2>4, <2>5 DEF Upgrading
    <2>8. SentClean(y, hs)
      BY <2>4, <2>5, <2>6, <2>7 DEF SentClean
    <2>9. Chained(y) /\ Hops(y.headers)
      BY <1>1, <2>4, ChainedFollows
    <2>10. Clean(y)
      BY <2>4, <2>8, <2>9 DEF Clean
    <2> QED BY <2>2, <2>3, <2>10
  <1> QED BY <1>2, <1>3, <1>4

\* The upstream's answer, stripped, or an error in its place.
LEMMA ReceiveClean ==
  ASSUME Requested, NEW r \in Requests, NEW x, Flows(r, x), Receive(r)
  PROVE  \E y : Clean(y) /\ Move(r, y)
  <1> DEFINE more(a) == IF a.status = 101 THEN Header("connection", <<"upgrade">>) ELSE <<>>
             rs(a) == [a EXCEPT !.headers = With(StripHopByHop(@), more(a))]
  <1>1. x.pc = "upstream"
    BY DEF Receive, Flows
  <1>2. \/ \E a \in world.answers : \E y \in Returned(x, rs(a), "upstream") : \E rec :
             Move(r, [y EXCEPT !.recording = rec])
        \/ \E st : \E y \in Returned(x, JsonError(st), "error") : Move(r, y)
    <2> DEFINE z == req[r]
               upstream(a) == \E y \in Returned(z, rs(a), "upstream") : \E rec :
                                Move(r, [y EXCEPT !.recording = rec])
               error(st) == \E y \in Returned(z, JsonError(st), "error") : Move(r, y)
    <2>1. ASSUME \E a \in {a \in world.answers : a.status = 101 => Upgrading(z)} :
                 \E y \in Returned(z, rs(a), "upstream") :
                   /\ Move(r, [y EXCEPT !.recording =
                                 IF BodyRules(z, "response") # {} THEN None ELSE Recordable(z, rs(a))])
                   /\ \/ writes' = writes \cup (IF BodyRules(z, "response") # {} /\ a.complete
                                                THEN Recordable(z, rs(a)) ELSE {})
                      \/ /\ (IF BodyRules(z, "response") # {} /\ a.complete
                              THEN Recordable(z, rs(a)) ELSE {}) # {}
                         /\ a.size > MaxResponse(z) /\ UNCHANGED writes
          PROVE  \E a \in world.answers : upstream(a)
      <3> HIDE DEF z, rs, more
      <3>1. PICK a \in world.answers : \E y \in Returned(z, rs(a), "upstream") :
              Move(r, [y EXCEPT !.recording =
                         IF BodyRules(z, "response") # {} THEN None ELSE Recordable(z, rs(a))])
        BY <2>1
      <3> QED BY <3>1, Zenon
    <2>2. ASSUME \E status \in {502, 504} \cup (IF BodyTooLarge(Def(z), Q(z)) THEN {413} ELSE {}) :
                 \E y \in Returned(z, JsonError(status), "error") : Move(r, y) /\ UNCHANGED writes
          PROVE  \E st : error(st)
      <3> HIDE DEF z, rs, more
      <3> QED BY <2>2
    <2>3. (\E a \in world.answers : upstream(a)) \/ \E st : error(st)
      <3> HIDE DEF upstream, error
      <3> QED BY <2>1, <2>2, Zenon DEF Receive
    <2>4. z = x
      BY DEF Flows
    <2> HIDE DEF z, rs, more
    <2> QED BY <2>3, <2>4
  <1>3. CASE \E st : \E y \in Returned(x, JsonError(st), "error") : Move(r, y)
    <2>1. PICK st : \E y \in Returned(x, JsonError(st), "error") : Move(r, y)
      BY <1>3
    <2> QED BY <1>1, <2>1, ErrorsPresentable, ReturnClean
  <1>4. ASSUME NEW a \in world.answers, NEW u \in Returned(x, rs(a), "upstream"), NEW rec,
               Move(r, [u EXCEPT !.recording = rec])
        PROVE  Clean([u EXCEPT !.recording = rec])
    <2>1. DOMAIN a = {"status", "headers", "size", "complete"}
      BY WorldsAssumption DEF Flows
    <2>2. PICK g : g = With(StripHopByHop(a.headers), more(a))
      OBVIOUS
    <2>3. a.status # 101 => EndToEnd(g)
      BY <2>2, TaggedIs, NothingShown, OverlaidIs
    <2>4. PICK resp : resp = [a EXCEPT !.headers = g]
      OBVIOUS
    <2>5. rs(a) = resp
      BY <2>1, <2>2, <2>4
    <2>6. Presentable(resp) /\ DOMAIN resp = {"status", "headers", "size", "complete"}
      BY <2>1, <2>3, <2>4 DEF Presentable
    <2>7. u \in Returned(x, resp, "upstream")
      BY <1>4, <2>5
    <2>8. Clean(u) /\ Spares(x, u) /\ Shown(u)
      BY <1>1, <2>6, <2>7, ReturnClean
    <2>9. PICK y : y = [u EXCEPT !.recording = rec]
      OBVIOUS
    <2>10. Spares(u, y) /\ y.pc = u.pc /\ y.status = u.status /\ y.by = u.by /\ y.out = u.out
      BY <2>8, <2>9 DEF Spares, SameChain, Fields
    <2>11. Shown(y)
      BY <2>8, <2>10 DEF Shown
    <2>12. Clean(y)
      BY <2>8, <2>10, <2>11, AnsweredClean
    <2> QED BY <2>9, <2>12
  <1>5. CASE \E a \in world.answers : \E y \in Returned(x, rs(a), "upstream") : \E rec :
               Move(r, [y EXCEPT !.recording = rec])
    <2>1. PICK a \in world.answers : \E y \in Returned(x, rs(a), "upstream") : \E rec :
            Move(r, [y EXCEPT !.recording = rec])
      <3> HIDE DEF rs
      <3> QED BY <1>5
    <2>2. PICK u \in Returned(x, rs(a), "upstream") : \E rec : Move(r, [u EXCEPT !.recording = rec])
      <3> HIDE DEF rs
      <3> QED BY <2>1
    <2>3. PICK rec : Move(r, [u EXCEPT !.recording = rec])
      BY <2>2
    <2>4. Clean([u EXCEPT !.recording = rec])
      BY <1>4, <2>3
    <2> QED BY <2>3, <2>4
  <1> HIDE DEF rs, more
  <1> QED BY <1>2, <1>3, <1>5

\* A request that has been answered stays clean while its body streams, and one
\* whose history changes too.
LEMMA SettledClean ==
  ASSUME NEW x, Clean(x), DOMAIN x = Fields, NEW y,
         \/ \E b : y = [x EXCEPT !.recording = b] \/ y = [x EXCEPT !.left = b]
         \/ \E b, c : y = [x EXCEPT !.steady = b, !.dead = c]
  PROVE  Clean(y)
  <1>1. Spares(x, y) /\ y.pc = x.pc /\ y.status = x.status /\ y.by = x.by /\ y.out = x.out
    BY DEF Spares, SameChain, Fields
  <1>2. \A hs \in y.sent : SentClean(y, hs)
    BY <1>1, SentFollows DEF Clean, Spares
  <1>3. Chained(y) <=> Chained(x)
    BY <1>1, ChainedFollows DEF Spares
  <1> QED BY <1>1, <1>2, <1>3 DEF Clean, Spares, Shown

\* Every step of a request leaves a clean one.
LEMMA StepClean ==
  ASSUME Requested, Tabled, CacheInv, CleanAll, NEW r \in Requests, Step(r)
  PROVE  Clean(req'[r])
  <1>1. CASE Arrive(r)
    BY <1>1, ArriveClean DEF CleanAll
  <1>2. CASE ~Arrive(r)
    <2>1. req[r].pc # "idle"
      BY <1>2 DEF Step, Gate, Authenticate, LookupSession, LookupPolicy, CheckEndpoint, Guard,
         CheckRate, CheckQuota, CheckSession, Below, Dispatch, CacheGet, Send, Receive, Leave, Leaving,
         StreamEnd, StreamCut, Disconnect
    <2>2. PICK x : x = req[r]
      OBVIOUS
    <2>3. Flows(r, x)
      BY <2>1, <2>2, StepFlows
    <2>4. CASE Gate(r) \/ Below(r) \/ Dispatch(r) \/ CacheGet(r) \/ Send(r) \/ Receive(r)
      <3>1. \E y : Clean(y) /\ Move(r, y)
        BY <2>3, <2>4, GateClean, BelowClean, DispatchClean, CacheGetClean, SendClean, ReceiveClean, Zenon
      <3> QED BY <3>1, MoveIs
    <2>5. CASE \/ Authenticate(r) \/ LookupSession(r) \/ LookupPolicy(r) \/ CheckEndpoint(r) \/ Guard(r)
               \/ CheckRate(r) \/ CheckQuota(r)
      <3>1. PICK y : y = req'[r]
        OBVIOUS
      <3>2. Carries(x, y)
        BY <2>2, <2>5, <3>1, StepsCarry
      <3>3. x.pc \notin {"upstream", "done", "gone"}
        BY <2>2, <2>5 DEF Authenticate, LookupSession, LookupPolicy, CheckEndpoint, Guard,
           CheckRate, CheckQuota, CheckSession
      <3>4. Hops(y.headers)
        BY <2>3, <3>2, <3>3 DEF Flows, Clean, Carries, Spares
      <3>5. Clean(y)
        BY <2>3, <3>2, <3>3, <3>4, RewrittenClean DEF Flows, Carries, Spares
      <3> QED BY <3>1, <3>5
    <2>6. CASE StreamEnd(r) \/ StreamCut(r)
      <3>1. Move(r, [x EXCEPT !.recording = None])
        BY <2>2, <2>6 DEF StreamEnd, StreamCut
      <3>2. Clean([x EXCEPT !.recording = None])
        BY <2>3, SettledClean DEF Flows
      <3> QED BY <3>1, <3>2, MoveIs
    <2>8. CASE Leave(r)
      <3>1. PICK b : Move(r, [x EXCEPT !.left = b])
        BY <2>2, <2>8 DEF Leave
      <3>2. Clean([x EXCEPT !.left = b])
        BY <2>3, SettledClean DEF Flows
      <3> QED BY <3>1, <3>2, MoveIs
    <2>7. CASE Disconnect(r)
      <3>1. PICK y : y = Goto(x, "gone")
        OBVIOUS
      <3>2. Carries(x, y) /\ y.pc = "gone"
        BY <2>3, <3>1, AnswersCarry DEF Flows
      <3>3. Clean(y)
        BY <2>3, <3>2, AnsweredClean DEF Flows, Carries
      <3>4. req'[r] = y
        BY <2>2, <2>7, <3>1, MoveIs DEF Disconnect
      <3> QED BY <3>3, <3>4
    <2> QED BY <1>2, <2>4, <2>5, <2>6, <2>7, <2>8 DEF Step
  <1> QED BY <1>1, <1>2

\* Whether a request is clean depends on the deployment alone.
LEMMA CleanLasts ==
  ASSUME UNCHANGED world, NEW x
  PROVE  Clean(x)' <=> Clean(x)
  <1>1. Q(x)' = Q(x) /\ Api(x)' = Api(x)
    BY DEF Q, Api
  <1>2. Def(x)' = Def(x)
    BY <1>1 DEF Def
  <1>3. Upgrading(x)' <=> Upgrading(x)
    BY <1>2 DEF Upgrading
  <1>4. \A hs : SentClean(x, hs)' <=> SentClean(x, hs)
    BY <1>1, <1>2, <1>3 DEF SentClean
  <1>5. Chained(x)' <=> Chained(x)
    BY <1>1, <1>2 DEF Chained
  <1> QED BY <1>4, <1>5 DEF Clean

\* The headers of every request stay clean.
LEMMA CleanStays ==
  ASSUME Requested, Tabled, CacheInv, CleanAll, [Next]_vars
  PROVE  CleanAll'
  <1>1. UNCHANGED world
    <2>1. ASSUME NEW r \in Requests, Step(r)
          PROVE  UNCHANGED world
      BY <2>1, StepGood
    <2> QED BY <2>1 DEF Next, Load, WriteCache, WindowElapses, Admin, Tick, vars
  <1>2. ASSUME NEW s \in Requests, NEW y, y = req'[s], y.pc # "idle"
        PROVE  Clean(y)
    <2>1. CASE \E r \in Requests : Step(r)
      <3>1. PICK r \in Requests : Step(r)
        BY <2>1
      <3>2. CASE s = r
        BY <1>2, <3>1, <3>2, StepClean
      <3>3. CASE s # r
        <4>1. PICK z : Move(r, z)
          BY <3>1, StepGood
        <4>2. req'[s] = req[s]
          BY <3>3, <4>1 DEF Move, Requested
        <4> QED BY <1>2, <4>2 DEF CleanAll
      <3> QED BY <3>2, <3>3
    <2>2. CASE \/ Load \/ (\E w \in writes : WriteCache(w))
               \/ (\E key \in DOMAIN counters : WindowElapses(key)) \/ UNCHANGED vars
      <3>1. UNCHANGED req
        BY <2>2 DEF Load, WriteCache, WindowElapses, vars
      <3> QED BY <1>2, <3>1 DEF CleanAll
    <2>3. CASE Admin \/ Tick
      <3>1. Observe
        BY <2>3 DEF Admin, Tick
      <3>2. CASE req[s].pc = "idle"
        BY <1>2, <3>1, <3>2 DEF Observe
      <3>3. CASE req[s].pc # "idle"
        <4>1. \E b, c : y = [req[s] EXCEPT !.steady = b, !.dead = c]
          BY <1>2, <3>1, <3>3 DEF Observe
        <4>2. Clean(req[s]) /\ DOMAIN req[s] = Fields
          BY <3>3 DEF CleanAll, Requested, Good
        <4> QED BY <4>1, <4>2, SettledClean
      <3> QED BY <3>2, <3>3
    <2> QED BY <2>1, <2>2, <2>3 DEF Next
  <1>3. ASSUME NEW s \in Requests, req'[s].pc # "idle"
        PROVE  Clean(req[s])'
    <2>1. PICK y : y = req'[s]
      OBVIOUS
    <2>2. Clean(y)
      BY <1>2, <1>3, <2>1
    <2>3. Clean(y)'
      BY <1>1, <2>2, CleanLasts
    <2> QED BY <2>1, <2>3
  <1> QED BY <1>1, <1>3 DEF CleanAll

\* Every behaviour keeps the headers of its requests clean.
LEMMA AlwaysClean == Spec => []CleanAll
  <1>1. Init => CleanAll
    BY DEF Init, CleanAll
  <1>2. Requested /\ Tabled /\ CacheInv /\ CleanAll /\ [Next]_vars => CleanAll'
    BY CleanStays
  <1> QED BY <1>1, <1>2, RequestsStayGood, AlwaysTabled, CacheStaysHonest, PTL DEF Spec

-----------------------------------------------------------------------------
(* The CORS layer: what it lays over an answer, whatever is below.             *)

\* The headers a browser reads for a page of `o`, as a policy sets them.
Permits(f, c, o) ==
  /\ "access-control-allow-origin" \in DOMAIN f
  /\ f["access-control-allow-origin"] = <<IF "*" \in c.origins THEN "*" ELSE o>>
  /\ c.credentials => /\ "access-control-allow-credentials" \in DOMAIN f
                      /\ f["access-control-allow-credentials"] = <<"true">>

\* A valid policy never names the wildcard with credentials, so what it sets
\* is what a browser wants to see.
LEMMA PermitsReadable ==
  ASSUME NEW c, CorsOk(c), NEW o, NEW f, Permits(f, c, o)
  PROVE  Readable(f, o, c.credentials)
  <1>1. ~("*" \in c.origins /\ c.credentials)
    BY DEF CorsOk
  <1>2. f["access-control-allow-origin"] \in {<<o>>} \cup IF c.credentials THEN {} ELSE {<<"*">>}
    BY <1>1 DEF Permits
  <1> QED BY <1>2, Zenon DEF Permits, Readable

\* They stay when laid over others, and when others are laid over them.
LEMMA PermitsStays ==
  ASSUME NEW c, NEW o, NEW f, NEW g
  PROVE  /\ Permits(g, c, o) => Permits(With(f, g), c, o)
         /\ /\ Permits(f, c, o)
            /\ DOMAIN g \cap {"access-control-allow-origin", "access-control-allow-credentials"} = {}
            => Permits(With(f, g), c, o)
  <1>1. PICK w : w = With(f, g)
    OBVIOUS
  <1>2. /\ DOMAIN w = DOMAIN f \cup DOMAIN g
        /\ \A h \in DOMAIN w : w[h] = IF h \in DOMAIN g THEN g[h] ELSE f[h]
    BY <1>1 DEF With
  <1> QED BY <1>1, <1>2 DEF Permits

\* The origin, laid over whatever carries the credentials flag.
LEMMA AllowPermits ==
  ASSUME NEW c, NEW o, NEW f,
         c.credentials => /\ "access-control-allow-credentials" \in DOMAIN f
                          /\ f["access-control-allow-credentials"] = <<"true">>
  PROVE  Permits(With(f, AllowOrigin(c, o)), c, o)
  <1>1. PICK v : v = <<IF "*" \in c.origins THEN "*" ELSE o>>
    OBVIOUS
  <1>2. PICK g : g = Header("access-control-allow-origin", v)
    OBVIOUS
  <1>3. AllowOrigin(c, o) = g /\ DOMAIN g = {"access-control-allow-origin"} /\ g["access-control-allow-origin"] = v
    BY <1>1, <1>2, HeaderIs DEF AllowOrigin
  <1>4. PICK w : w = With(f, g)
    OBVIOUS
  <1>5. /\ DOMAIN w = DOMAIN f \cup DOMAIN g
        /\ \A h \in DOMAIN w : w[h] = IF h \in DOMAIN g THEN g[h] ELSE f[h]
    BY <1>4 DEF With
  <1>6. Permits(w, c, o)
    BY <1>1, <1>3, <1>5 DEF Permits
  <1> QED BY <1>3, <1>4, <1>6

\* The credentials flag alone.
LEMMA FlagIs ==
  ASSUME NEW c
  PROVE  /\ DOMAIN AllowCredentials(c) \subseteq {"access-control-allow-credentials"}
         /\ c.credentials => /\ "access-control-allow-credentials" \in DOMAIN AllowCredentials(c)
                             /\ AllowCredentials(c)["access-control-allow-credentials"] = <<"true">>
  <1>1. CASE c.credentials
    <2>1. PICK g : g = Header("access-control-allow-credentials", <<"true">>)
      OBVIOUS
    <2>2. AllowCredentials(c) = g
      BY <1>1, <2>1 DEF AllowCredentials
    <2>3. /\ DOMAIN g = {"access-control-allow-credentials"}
          /\ g["access-control-allow-credentials"] = <<"true">>
      BY <2>1, HeaderIs
    <2> QED BY <2>2, <2>3
  <1>2. CASE ~c.credentials
    <2>1. AllowCredentials(c) = <<>>
      BY <1>2 DEF AllowCredentials
    <2>2. DOMAIN <<>> = {}
      OBVIOUS
    <2> QED BY <1>2, <2>1, <2>2
  <1> QED BY <1>1, <1>2

\* An answer that passes the layer can be read by an allowed origin, and is as
\* end to end as it was.
LEMMA DecoratedIs ==
  ASSUME NEW c, CorsOk(c), NEW o, NEW f
  PROVE  /\ OriginAllowed(c, o) => Readable(Decorated(c, o, f), o, c.credentials)
         /\ EndToEnd(f) => EndToEnd(Decorated(c, o, f))
  <1> DEFINE exposed == IF c.exposed_headers = {} THEN <<>>
                        ELSE Header("access-control-expose-headers", <<c.exposed_headers>>)
             flag == AllowCredentials(c)
             allow == AllowOrigin(c, o)
             under == With(f, exposed)
             over == With(flag, allow)
             shown == IF OriginAllowed(c, o) THEN With(under, over) ELSE f
             old == IF "vary" \in DOMAIN f THEN f["vary"] ELSE <<>>
             vary == Header("vary", Append(old, "origin"))
  <1>1. Decorated(c, o, f) = IF "*" \in c.origins THEN shown ELSE With(shown, vary)
    BY Zenon DEF Decorated
  <1>2. EndToEnd(exposed) /\ EndToEnd(flag) /\ EndToEnd(allow)
    BY OneHeaderIs, OwnHeadersAssumption, NothingShown DEF AllowCredentials, AllowOrigin
  <1>3. EndToEnd(vary) /\ DOMAIN vary = {"vary"}
    BY OneHeaderIs, HeaderIs, OwnHeadersAssumption
  <1>4. Permits(over, c, o)
    BY FlagIs, AllowPermits
  <1> HIDE DEF exposed, flag, allow, vary
  <1>5. EndToEnd(f) => EndToEnd(under) /\ EndToEnd(over)
    BY <1>2, OverlaidIs
  <1> HIDE DEF under, over
  <1>6. OriginAllowed(c, o) => Permits(shown, c, o)
    BY <1>4, PermitsStays
  <1>7. EndToEnd(f) => EndToEnd(shown)
    BY <1>5, OverlaidIs
  <1> HIDE DEF shown
  <1>8. OriginAllowed(c, o) => Permits(Decorated(c, o, f), c, o)
    BY <1>1, <1>3, <1>6, PermitsStays
  <1>9. EndToEnd(f) => EndToEnd(Decorated(c, o, f))
    BY <1>1, <1>3, <1>7, OverlaidIs
  <1> QED BY <1>8, <1>9, PermitsReadable

\* A preflight the policy allows can be read by the page that sent it.
LEMMA PreflightsReadable ==
  ASSUME NEW c, CorsOk(c), NEW q, Option(q.origin), NEW o \in q.origin, PreflightAllowed(c, q)
  PROVE  Readable(PreflightHeaders(c, q), o, c.credentials)
  <1> DEFINE flag == AllowCredentials(c)
             asked == IF c.allowed_headers = {} THEN q.request_headers ELSE c.allowed_headers
             methods == Header("access-control-allow-methods", <<c.methods>>)
             hdrs == IF asked = {} THEN <<>> ELSE Header("access-control-allow-headers", <<asked>>)
             more == With(methods, hdrs)
             granted == With(flag, more)
             origin == AllowOrigin(c, CHOOSE p \in q.origin : TRUE)
             vary == Header("vary", <<"origin", "access-control-request-method",
                                      "access-control-request-headers">>)
  <1>1. PreflightHeaders(c, q) = With(vary, With(granted, origin))
    BY Zenon DEF PreflightHeaders
  <1>2. (CHOOSE p \in q.origin : TRUE) = o
    BY DEF Option
  <1>3. origin = AllowOrigin(c, o)
    BY <1>2
  <1>4. DOMAIN more \subseteq {"access-control-allow-methods", "access-control-allow-headers"}
    <2>1. DOMAIN methods = {"access-control-allow-methods"}
      BY HeaderIs
    <2>2. DOMAIN hdrs \subseteq {"access-control-allow-headers"}
      <3>1. DOMAIN <<>> = {}
        OBVIOUS
      <3> QED BY <3>1, HeaderIs
    <2> HIDE DEF methods, hdrs
    <2>3. DOMAIN more = DOMAIN methods \cup DOMAIN hdrs
      BY DEF With
    <2> HIDE DEF more
    <2> QED BY <2>1, <2>2, <2>3
  <1> HIDE DEF more, origin, vary
  <1>5. c.credentials => /\ "access-control-allow-credentials" \in DOMAIN granted
                         /\ granted["access-control-allow-credentials"] = <<"true">>
    <2>1. PICK a : a = flag
      OBVIOUS
    <2>2. c.credentials => /\ "access-control-allow-credentials" \in DOMAIN a
                           /\ a["access-control-allow-credentials"] = <<"true">>
      BY <2>1, FlagIs
    <2>3. PICK w : w = With(a, more)
      OBVIOUS
    <2>4. /\ DOMAIN w = DOMAIN a \cup DOMAIN more
          /\ \A h \in DOMAIN w : w[h] = IF h \in DOMAIN more THEN more[h] ELSE a[h]
      BY <2>3 DEF With
    <2> QED BY <1>4, <2>1, <2>2, <2>3, <2>4
  <1> HIDE DEF granted
  <1>6. Permits(With(granted, origin), c, o)
    BY <1>3, <1>5, AllowPermits
  <1>7. Permits(PreflightHeaders(c, q), c, o)
    BY <1>1, <1>6, PermitsStays
  <1> QED BY <1>7, PermitsReadable

-----------------------------------------------------------------------------
(* What has left the gateway.                                                  *)

\* Only an answer leaves, decorated for the origin it goes to; a preflight is
\* answered by the layer itself.
Left(x) ==
  /\ x.q \in DOMAIN world.inputs
  /\ x.pc # "done" => x.left = {}
  /\ \A hs \in x.left : \A c \in Api(x).cors, o \in Q(x).origin :
       OriginAllowed(c, o) => Readable(hs, o, c.credentials)
  /\ (x.status # 101 /\ x.by \notin {"pre", "post"}) => \A hs \in x.left : EndToEnd(hs)
  /\ (x.pc = "done" /\ x.by = "preflight") =>
       /\ x.left = {}
       /\ \A c \in Api(x).cors, o \in Q(x).origin :
            PreflightAllowed(c, Q(x)) => Readable(x.out, o, c.credentials)

LeftAll == \A r \in Requests : req[r].pc # "idle" => Left(req[r])

\* The CORS policy of a routed request is the only one of its API, and valid.
LEMMA PolicyIs ==
  ASSUME world \in Worlds, TableBuilds(world.defs), NEW x, Routed(x), NEW c \in Api(x).cors
  PROVE  CorsOk(c) /\ Api(x).cors = {c}
  <1>1. x.api # "none"
    BY DEF Api, NoApi, None
  <1>2. PICK d : d = Api(x)
    OBVIOUS
  <1>3. d \in world.defs
    BY <1>1, <1>2 DEF Routed, Api
  <1>4. UnversionedOk(d)
    BY <1>3, Zenon DEF TableBuilds, Validate
  <1>5. CorsOk(c)
    BY <1>2, <1>4, Zenon DEF UnversionedOk
  <1>6. Option(d.cors)
    BY <1>3, WorldsAssumption, Zenon
  <1> QED BY <1>2, <1>5, <1>6 DEF Option

\* A request that has not been answered has nothing that left, nor does one
\* that another layer than the preflight's has just answered.
LEMMA UnansweredLeft ==
  ASSUME NEW x, Left(x), x.pc # "done", NEW y, y.q = x.q, y.left = x.left,
         ~(y.pc = "done" /\ y.by = "preflight")
  PROVE  Left(y)
  BY DEF Left

\* A preflight is answered on arrival.
LEMMA ArriveLeft ==
  ASSUME world \in Worlds, Tabled, Requested, NEW r \in Requests, Arrive(r)
  PROVE  Left(req'[r])
  <1>0. PICK y : y = req'[r]
    OBVIOUS
  <1>1. PICK q \in DOMAIN world.inputs :
          LET hits == MatchPath(world.defs, world.inputs[q].path)
              x == IF world.inputs[q].path \in HealthPaths THEN Answered(Fresh(q), 200, "route")
                   ELSE IF hits = {} THEN Answered(Fresh(q), 404, "route")
                   ELSE OuterStep([Fresh(q) EXCEPT !.api = (CHOOSE d \in hits : TRUE).api_id])
          IN Move(r, [x EXCEPT !.dead = Dead(x, sessions, now)])
    BY DEF Arrive
  <1> DEFINE f == Fresh(q)
  <1>2. DOMAIN f = Fields /\ f.q = q /\ f.left = {}
    BY DEF Fresh, Fields, None
  <1>3. \/ \E st, b : Move(r, [Answered(f, st, "route") EXCEPT !.dead = b])
        \/ \E id, b : Move(r, [OuterStep([f EXCEPT !.api = id]) EXCEPT !.dead = b])
    <2>1. \/ \E st : Move(r, [Answered(f, st, "route") EXCEPT
                                !.dead = Dead(Answered(f, st, "route"), sessions, now)])
          \/ \E id : LET z == [f EXCEPT !.api = id]
                     IN Move(r, [OuterStep(z) EXCEPT !.dead = Dead(OuterStep(z), sessions, now)])
      BY <1>1, Zenon
    <2> HIDE DEF f
    <2> QED BY <2>1
  <1> HIDE DEF f
  <1>4. CASE \E st, b : Move(r, [Answered(f, st, "route") EXCEPT !.dead = b])
    <2>1. PICK st, b : y = [Answered(f, st, "route") EXCEPT !.dead = b]
      BY <1>0, <1>4, MoveIs
    <2>2. y.q = q /\ y.left = {} /\ y.by = "route"
      BY <1>2, <2>1 DEF Answered, Fields
    <2>3. Left(y)
      BY <2>2 DEF Left
    <2> QED BY <1>0, <2>3
  <1>5. CASE \E id, b : Move(r, [OuterStep([f EXCEPT !.api = id]) EXCEPT !.dead = b])
    <2>1. PICK id, b : y = [OuterStep([f EXCEPT !.api = id]) EXCEPT !.dead = b]
      BY <1>0, <1>5, MoveIs
    <2>2. PICK x : x = [f EXCEPT !.api = id]
      OBVIOUS
    <2>3. DOMAIN x = Fields /\ x.q = q /\ x.left = {}
      BY <1>2, <2>2 DEF Fields
    <2>4. \/ \E st : OuterStep(x) = Answered(x, st, "ip") \/ OuterStep(x) = Answered(x, st, "version")
          \/ \E sc : OuterStep(x) = [x EXCEPT !.scope = sc, !.pc = "gate"]
          \/ /\ Api(x).cors # {}
             /\ OuterStep(x) = [Answered(x, 204, "preflight") EXCEPT
                                  !.out = PreflightHeaders(CHOOSE c \in Api(x).cors : TRUE, Q(x))]
      <3>1. \/ OuterStep(x) = Answered(x, 403, "ip") \/ OuterStep(x) = VersionStep(x)
            \/ /\ CorsAnswers(Api(x), Q(x))
               /\ OuterStep(x) = [Answered(x, 204, "preflight") EXCEPT
                                    !.out = PreflightHeaders(CHOOSE c \in Api(x).cors : TRUE, Q(x))]
        BY Zenon DEF OuterStep
      <3>2. \/ VersionStep(x) = Answered(x, 403, "version")
            \/ \E sc : VersionStep(x) = [x EXCEPT !.scope = sc, !.pc = "gate"]
        BY Zenon DEF VersionStep
      <3>3. CorsAnswers(Api(x), Q(x)) => Api(x).cors # {}
        BY DEF CorsAnswers
      <3> QED BY <3>1, <3>2, <3>3, Zenon
    <2>5. CASE \E st : OuterStep(x) = Answered(x, st, "ip") \/ OuterStep(x) = Answered(x, st, "version")
      <3>1. PICK st, by : by # "preflight" /\ y = [Answered(x, st, by) EXCEPT !.dead = b]
        BY <2>1, <2>2, <2>5
      <3>2. y.q = q /\ y.left = {} /\ y.by # "preflight"
        BY <2>3, <3>1 DEF Answered, Fields
      <3>3. Left(y)
        BY <3>2 DEF Left
      <3> QED BY <1>0, <3>3
    <2>6. CASE \E sc : OuterStep(x) = [x EXCEPT !.scope = sc, !.pc = "gate"]
      <3>1. PICK sc : y = [[x EXCEPT !.scope = sc, !.pc = "gate"] EXCEPT !.dead = b]
        BY <2>1, <2>2, <2>6
      <3>2. y.q = q /\ y.left = {} /\ y.pc = "gate"
        BY <2>3, <3>1 DEF Fields
      <3>3. Left(y)
        BY <3>2 DEF Left
      <3> QED BY <1>0, <3>3
    <2>7. CASE /\ Api(x).cors # {}
               /\ OuterStep(x) = [Answered(x, 204, "preflight") EXCEPT
                                    !.out = PreflightHeaders(CHOOSE c \in Api(x).cors : TRUE, Q(x))]
      <3>1. PICK c : c = CHOOSE p \in Api(x).cors : TRUE
        OBVIOUS
      <3>2. PICK hs : hs = PreflightHeaders(c, Q(x))
        OBVIOUS
      <3>3. PICK u : u = Answered(x, 204, "preflight")
        OBVIOUS
      <3>4. y = [[u EXCEPT !.out = hs] EXCEPT !.dead = b]
        BY <2>1, <2>2, <2>7, <3>1, <3>2, <3>3
      <3>5. DOMAIN u = Fields /\ u.left = {} /\ SameChain(x, u)
        BY <2>3, <3>3 DEF Answered, SameChain, Fields
      <3>6. y.left = {} /\ SameChain(x, y) /\ y.out = hs /\ y.pc # "idle"
        <4>1. y.left = {} /\ SameChain(x, y) /\ y.out = hs /\ y.pc = u.pc /\ u.pc = "done"
          BY <2>3, <3>3, <3>4, <3>5 DEF Answered, SameChain, Fields
        <4> QED BY <4>1
      <3>7. Api(y) = Api(x) /\ Q(y) = Q(x)
        BY <3>6, ChainDecides
      <3>8. Routed(y)
        <4>1. PICK z : Good(z) /\ Move(r, z)
          BY ArriveGood
        <4> QED BY <1>0, <4>1, MoveIs DEF Good
      <3>9. TableBuilds(world.defs)
        BY DEF Tabled, Arrive
      <3>10. c \in Api(y).cors
        BY <2>7, <3>1, <3>7
      <3>11. CorsOk(c) /\ Api(y).cors = {c}
        BY <3>8, <3>9, <3>10, PolicyIs
      <3>12. Option(Q(y).origin)
        BY <2>3, <3>7, WorldsAssumption DEF Q
      <3>13. ASSUME NEW o \in Q(y).origin, PreflightAllowed(c, Q(y))
             PROVE  Readable(y.out, o, c.credentials)
        <4>1. PICK p : p = Q(y)
          OBVIOUS
        <4>2. Readable(PreflightHeaders(c, p), o, c.credentials)
          BY <3>11, <3>12, <3>13, <4>1, PreflightsReadable
        <4> QED BY <3>2, <3>6, <3>7, <4>1, <4>2
      <3>14. Left(y)
        BY <2>3, <3>6, <3>11, <3>13 DEF Left, SameChain
      <3> QED BY <1>0, <3>14
    <2> QED BY <2>4, <2>5, <2>6, <2>7
  <1> QED BY <1>3, <1>4, <1>5

\* An answer leaves decorated.
LEMMA LeaveLeft ==
  ASSUME Requested, Tabled, CleanAll, LeftAll, NEW r \in Requests, Leave(r)
  PROVE  Left(req'[r])
  <1>1. PICK x, y : x = req[r] /\ y = req'[r]
    OBVIOUS
  <1>2. /\ Good(x) /\ Left(x) /\ Clean(x) /\ x.pc = "done" /\ x.by # "preflight"
        /\ TableBuilds(world.defs) /\ world \in Worlds
    BY <1>1 DEF Leave, Leaving, Requested, LeftAll, CleanAll, Tabled
  <1>3. PICK c \in Api(x).cors, o \in Q(x).origin : Move(r, [x EXCEPT !.left = Some(Decorated(c, o, x.out))])
    BY <1>1 DEF Leave
  <1>4. PICK hs : hs = Decorated(c, o, x.out)
    OBVIOUS
  <1>5. y = [x EXCEPT !.left = {hs}]
    BY <1>1, <1>3, <1>4, MoveIs DEF Some
  <1>6. /\ SameChain(x, y) /\ y.left = {hs} /\ y.pc = "done" /\ y.by = x.by /\ y.status = x.status
    BY <1>2, <1>5 DEF Good, SameChain, Fields
  <1>7. Api(y) = Api(x) /\ Q(y) = Q(x)
    BY <1>6, ChainDecides
  <1>8. CorsOk(c) /\ Api(x).cors = {c}
    BY <1>2, PolicyIs DEF Good
  <1>9. Q(x).origin = {o}
    <2>1. Option(Q(x).origin)
      BY <1>2, WorldsAssumption DEF Left, Q
    <2> QED BY <2>1 DEF Option
  <1>10. /\ OriginAllowed(c, o) => Readable(hs, o, c.credentials)
         /\ EndToEnd(x.out) => EndToEnd(hs)
    BY <1>4, <1>8, DecoratedIs
  <1>11. x.status # 101 /\ x.by \notin {"pre", "post"} => EndToEnd(x.out)
    BY <1>2 DEF Clean, Shown
  <1>12. Left(y)
    BY <1>2, <1>6, <1>7, <1>8, <1>9, <1>10, <1>11 DEF Left, SameChain
  <1> QED BY <1>1, <1>12

\* A request that streams, or that sees an edit or a tick, leaves what it left.
LEMMA SettledLeft ==
  ASSUME NEW x, Left(x), DOMAIN x = Fields, NEW y,
         \/ \E b : y = [x EXCEPT !.recording = b]
         \/ \E b, c : y = [x EXCEPT !.steady = b, !.dead = c]
  PROVE  Left(y)
  <1>1. /\ SameChain(x, y) /\ y.left = x.left /\ y.pc = x.pc /\ y.by = x.by /\ y.status = x.status
        /\ y.out = x.out
    BY DEF SameChain, Fields
  <1>2. Api(y) = Api(x) /\ Q(y) = Q(x)
    BY <1>1, ChainDecides
  <1> QED BY <1>1, <1>2 DEF Left, SameChain

\* Every step of a request keeps what it says of the answers that left.
LEMMA StepLeft ==
  ASSUME Requested, Tabled, CleanAll, LeftAll, NEW r \in Requests, Step(r)
  PROVE  Left(req'[r])
  <1>1. CASE Arrive(r)
    BY <1>1, ArriveLeft DEF CleanAll
  <1>2. CASE Leave(r)
    BY <1>2, LeaveLeft
  <1>3. CASE StreamEnd(r) \/ StreamCut(r)
    <2>1. Left(req[r]) /\ DOMAIN req[r] = Fields /\ Move(r, [req[r] EXCEPT !.recording = None])
      BY <1>3 DEF StreamEnd, StreamCut, LeftAll, Requested, Good
    <2>2. Left([req[r] EXCEPT !.recording = None])
      BY <2>1, SettledLeft
    <2> QED BY <2>1, <2>2, MoveIs
  <1>4. CASE ~(Arrive(r) \/ Leave(r) \/ StreamEnd(r) \/ StreamCut(r))
    <2>1. \E y : Move(r, y) /\ (Unrecorded(req[r], y) \/ Onward(req[r], y))
      BY <1>4, GateGood, AuthenticateGood, LookupSessionGood, LookupPolicyGood, CheckEndpointGood,
         GuardGood, CheckRateGood, CheckQuotaGood, BelowGood, DispatchGood, CacheGetGood, SendGood,
         ReceiveGood, DisconnectGood, Zenon DEF Step
    <2>2. PICK y : Move(r, y) /\ (Unrecorded(req[r], y) \/ Onward(req[r], y))
      BY <2>1
    <2>3. /\ req[r].pc \notin {"idle", "done"} /\ y.q = req[r].q /\ y.left = req[r].left
          /\ ~(y.pc = "done" /\ y.by = "preflight")
      BY <2>2 DEF Unrecorded, Onward, SameRoute, Reached, BelowPcs
    <2>4. Left(y)
      BY <2>3, UnansweredLeft DEF LeftAll
    <2> QED BY <2>2, <2>4, MoveIs
  <1> QED BY <1>1, <1>2, <1>3, <1>4

\* What is said of a request's answer depends on the deployment alone.
LEMMA LeftLasts ==
  ASSUME UNCHANGED world, NEW x
  PROVE  Left(x)' <=> Left(x)
  <1>1. Q(x)' = Q(x) /\ Api(x)' = Api(x)
    BY DEF Q, Api
  <1> QED BY <1>1 DEF Left

\* Every step keeps what it says of the answers that left.
LEMMA LeftStays ==
  ASSUME Requested, Tabled, CleanAll, LeftAll, [Next]_vars
  PROVE  LeftAll'
  <1>1. UNCHANGED world
    <2>1. ASSUME NEW r \in Requests, Step(r)
          PROVE  UNCHANGED world
      BY <2>1, StepGood
    <2> QED BY <2>1 DEF Next, Load, WriteCache, WindowElapses, Admin, Tick, vars
  <1>2. ASSUME NEW s \in Requests, NEW y, y = req'[s], y.pc # "idle"
        PROVE  Left(y)
    <2>1. CASE \E r \in Requests : Step(r)
      <3>1. PICK r \in Requests : Step(r)
        BY <2>1
      <3>2. CASE s = r
        BY <1>2, <3>1, <3>2, StepLeft
      <3>3. CASE s # r
        <4>1. PICK z : Move(r, z)
          BY <3>1, StepGood
        <4>2. req'[s] = req[s]
          BY <3>3, <4>1 DEF Move, Requested
        <4> QED BY <1>2, <4>2 DEF LeftAll
      <3> QED BY <3>2, <3>3
    <2>2. CASE \/ Load \/ (\E w \in writes : WriteCache(w))
               \/ (\E key \in DOMAIN counters : WindowElapses(key)) \/ UNCHANGED vars
      <3>1. UNCHANGED req
        BY <2>2 DEF Load, WriteCache, WindowElapses, vars
      <3> QED BY <1>2, <3>1 DEF LeftAll
    <2>3. CASE Admin \/ Tick
      <3>1. Observe
        BY <2>3 DEF Admin, Tick
      <3>2. CASE req[s].pc = "idle"
        BY <1>2, <3>1, <3>2 DEF Observe
      <3>3. CASE req[s].pc # "idle"
        <4>1. \E b, c : y = [req[s] EXCEPT !.steady = b, !.dead = c]
          BY <1>2, <3>1, <3>3 DEF Observe
        <4>2. Left(req[s]) /\ DOMAIN req[s] = Fields
          BY <3>3 DEF LeftAll, Requested, Good
        <4> QED BY <4>1, <4>2, SettledLeft
      <3> QED BY <3>2, <3>3
    <2> QED BY <2>1, <2>2, <2>3 DEF Next
  <1>3. ASSUME NEW s \in Requests, req'[s].pc # "idle"
        PROVE  Left(req[s])'
    <2>1. PICK y : y = req'[s]
      OBVIOUS
    <2>2. Left(y)
      BY <1>2, <1>3, <2>1
    <2>3. Left(y)'
      BY <1>1, <2>2, LeftLasts
    <2> QED BY <2>1, <2>3
  <1> QED BY <1>3 DEF LeftAll

\* Every behaviour keeps what is said of the answers that left.
LEMMA AlwaysLeft == Spec => []LeftAll
  <1>1. Init => LeftAll
    BY DEF Init, LeftAll
  <1>2. Requested /\ Tabled /\ CleanAll /\ LeftAll /\ [Next]_vars => LeftAll'
    BY LeftStays
  <1> QED BY <1>1, <1>2, RequestsStayGood, AlwaysTabled, AlwaysClean, PTL DEF Spec

\* A page of an allowed origin can read every answer that has left the gateway
\* (`Cors::call` and `decorate` of cors.rs, above every layer but the IP filter),
\* whoever gave it and whatever CORS headers it came with.
THEOREM RejectionsStayReadable == Spec => []CorsReadable
  <1>1. ASSUME LeftAll, NEW r \in Requests, NEW x, x = req[r], x.pc = "done", ~Leaving(x),
               x.by \notin {"ip", "route"}, NEW c \in Api(x).cors, NEW o \in Q(x).origin,
               IF x.by = "preflight" THEN PreflightAllowed(c, Q(x)) ELSE OriginAllowed(c, o)
        PROVE  Readable(Received(x), o, c.credentials)
    <2>1. Left(x)
      BY <1>1 DEF LeftAll
    <2>2. CASE x.by = "preflight"
      BY <1>1, <2>1, <2>2 DEF Left, Received, None
    <2>3. CASE x.by # "preflight"
      <3>1. x.left # {}
        BY <1>1, <2>3 DEF Leaving, None
      <3>2. Received(x) \in x.left
        BY <3>1 DEF Received, None
      <3> QED BY <1>1, <2>1, <2>3, <3>2 DEF Left
    <2> QED BY <2>2, <2>3
  <1>2. LeftAll => CorsReadable
    BY <1>1, Zenon DEF CorsReadable
  <1> QED BY <1>2, AlwaysLeft, PTL

\* Whatever the client, the hooks and the transforms put in the headers
\* (forward.rs, headers.rs), the upstream sees no connection-level header beyond
\* a negotiated upgrade or `te: trailers`, no API id but the matched one and the
\* client as the last hop, and the client sees none of the upstream's.
THEOREM HeadersStayClean == Spec => []HeadersClean
  <1>1. CleanAll /\ LeftAll => HeadersClean
    <2> SUFFICES ASSUME CleanAll, LeftAll, NEW r \in Requests, req[r].pc # "idle", NEW x, x = req[r]
                 PROVE  /\ \A hs \in x.sent : SentClean(x, hs)
                        /\ (x.pc = "done" /\ x.status # 101 /\ x.by \notin {"pre", "post"}) =>
                             \A hs \in {x.out} \cup x.left : DOMAIN hs \cap HopByHop = {}
      BY Zenon DEF HeadersClean, SentClean
    <2> QED BY DEF CleanAll, Clean, Shown, EndToEnd, LeftAll, Left
  <1> QED BY <1>1, AlwaysClean, AlwaysLeft, PTL
=============================================================================
