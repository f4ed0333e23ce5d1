---------------------------- MODULE RequestPath ----------------------------
(***************************************************************************)
(* A gateway pod handling requests: routing, then the middleware chain of    *)
(* the matched API in its order, down to the upstream and back.  A step of a *)
(* request is a group of layers between two awaits; meanwhile other requests *)
(* run, the admin API rewrites sessions and policies, windows elapse, cache  *)
(* entries are written by their background tasks, and clients disconnect.    *)
(***************************************************************************)
EXTENDS Authentication

CONSTANTS Requests,    \* requests in flight
          DefaultMaxBody,  \* body bytes a transform reads when the API sets no limit
          Worlds       \* the configurations a behaviour starts from; each bounds its clock

\* Optional fields hold at most one value.
Option(S) == \A a, b \in S : a = b

\* The definitions of an API's inner chains: its own, and one for each version.
Chains(d) == {d} \cup {Apply(d, n) : n \in UNION {DOMAIN v.versions : v \in d.versioning}}

\* A forwarding chain, whoever wrote it, is a sequence of hops.
IsChain(hops) == hops \in Seq(Range(hops))
Hops(headers) == "x-forwarded-for" \in DOMAIN headers => IsChain(headers["x-forwarded-for"])

\* A request as the auth layer of a chain meets it, its headers rewritten by
\* the pre hooks.
AtAuth(d, q) == [q EXCEPT !.headers = RunPlugins(Hooks(d, "pre"), @)]

\* The limits a request may be charged by, in their order.
LimitNames == {"endpoint", "rate", "quota"}

\* No API is called "none", which stands for the absence of one.  A request names
\* at most one version and origin, a token at most one client id; an upstream answer has a head and a body.
ASSUME WorldsAssumption ==
  \A w \in Worlds :
    /\ \A d \in w.defs :
         /\ d.api_id # "none"
         /\ Option(d.cors) /\ Option(d.versioning) /\ \A v \in d.versioning : Option(v.default)
         /\ \A e \in Chains(d) :
              /\ \A t \in e.transform_headers : Hops(t.request.add)
              /\ \A kind \in {"pre", "post"} : \A i \in DOMAIN Hooks(e, kind) :
                   Hops(Hooks(e, kind)[i].out.set)
    /\ \A i \in DOMAIN w.inputs :
         LET q == w.inputs[i]
         IN /\ {"query_token", "cert"} \subseteq DOMAIN q
            /\ Option(q.version) /\ Option(q.query_token) /\ Option(q.cert) /\ Option(q.origin)
            /\ Hops(q.headers)
            /\ \A e \in UNION {Chains(d) : d \in w.defs} :
                 e.auth.mode = "oidc" => \A t \in ExtractToken(e.auth, AtAuth(e, q)) : Option(t.client)
    /\ \A a \in w.answers : DOMAIN a = {"status", "headers", "size", "complete"}

VARIABLES world,     \* definitions, request inputs, upstream answers, edits (never changes)
          table,     \* "empty", "built" or "refused": the route table
          sessions,  \* storage: key sessions
          policies,  \* storage: policies
          counters,  \* storage: units used per rate or quota key
          entries,   \* storage: response cache
          writes,    \* cache writes spawned and not yet applied
          req,       \* the requests
          now        \* seconds

store == <<sessions, policies>>
vars == <<world, table, store, counters, entries, writes, req, now>>

\* What storage holds at a key, as an option, and a counter's value.
At(f, key) == IF key \in DOMAIN f THEN {f[key]} ELSE None
Count(f, key) == IF key \in DOMAIN f THEN f[key] ELSE 0

Init ==
  /\ world \in Worlds
  /\ table = "empty"
  /\ sessions = world.sessions /\ policies = world.policies
  /\ counters = <<>> /\ entries = <<>> /\ writes = {}
  /\ req = [r \in Requests |-> [pc |-> "idle"]]
  /\ now = 0

\* The table is built from every definition or not at all.
Load ==
  /\ table = "empty"
  /\ table' = IF TableBuilds(world.defs) THEN "built" ELSE "refused"
  /\ UNCHANGED <<world, store, counters, entries, writes, req, now>>

-----------------------------------------------------------------------------
(* A request `x` carries what it read so far; its definitions are looked up.   *)

Q(x) == world.inputs[x.q]

\* Mutant: the layers below the hooks see the request the client sent.
SeenAsSent(x) == Q(x)

\* The request with its headers as the layers so far left them.
Seen(x) == [Q(x) EXCEPT !.headers = x.headers]

\* /hello and /ready, answered before any route.
HealthPaths == {<<"/", "hello">>, <<"/", "ready">>}

NoApi == [api_id |-> "none", cors |-> None]

\* The matched API, and the definition of its inner chain: that of the version.
Api(x) == IF x.api = "none" THEN NoApi ELSE CHOOSE d \in world.defs : d.api_id = x.api
Def(x) == IF Len(x.scope) = 2 THEN Apply(Api(x), x.scope[2]) ELSE Api(x)

Fresh(q) ==
  [pc |-> "new", q |-> q, api |-> "none", scope |-> <<>>, ctx |-> None,
   headers |-> world.inputs[q].headers, charged |-> [l \in LimitNames |-> 0], opened |-> {},
   status |-> 0, by |-> "none", sent |-> None, out |-> <<>>, left |-> None, recording |-> None, src |-> None,
   faulted |-> FALSE, steady |-> TRUE, dead |-> FALSE]

Answered(x, status, by) == [x EXCEPT !.pc = "done", !.status = status, !.by = by]

Goto(x, pc) == [x EXCEPT !.pc = pc]

Move(r, x) == req' = [req EXCEPT ![r] = x]

-----------------------------------------------------------------------------
(* Specification of authentication, used by the properties only: whether a     *)
(* credential is good for an API under what storage holds at one instant.  The *)
(* credential is the one the API's pre hooks leave in the request.             *)

\* The definition the request's version names, if it may be used.
Effective(d, q, t) ==
  IF d.versioning = None THEN {d}
  ELSE {Apply(d, n) : n \in UNION {Version(v, q, t) : v \in d.versioning}}

\* The stored sessions a credential is good for, and the one a token's claims make.
Held(d, q, c, ss, t) ==
  {s.session : s \in {s \in At(ss, SessionKey(d.org_id, Identity(d.auth, c))) :
                        ~s.corrupt /\ SessionLive(s.session, t) /\ Proved(d.auth, q, c, s.session)}}

Claimed(d, c) ==
  IF NeedsMapping(d.auth)
  THEN {[DefaultSession(d.org_id) EXCEPT !.apply_policies = <<id>>] : id \in MappedPolicy(d.auth, c)}
  ELSE {DefaultSession(d.org_id)}

NoneNeeded(d, q) == d.auth.mode = "keyless" \/ AuthBypass(d, q)

\* The live credentials: sessions found and proved, or verified tokens.
Credentials(d, q, ss, t) ==
  LET a == d.auth
      h == AtAuth(d, q)
  IN IF NoneNeeded(d, q) THEN {DefaultSession(d.org_id)}
     ELSE IF a.mode \in TokenModes
     THEN UNION {Claimed(d, c) : c \in {c \in ExtractToken(a, h) :
                                   ClaimsVerified(a, c, world.key, t) /\ c.sub # None}}
     ELSE UNION {Held(d, h, c, ss, t) : c \in {c \in Presented(a, h) :
                                            a.mode = "hmac" => HmacAdmissible(a, h, c, t)}}

Grants(api, session, ps) ==
  LET ids == session.apply_policies
      found == At(ps, PolicyKey(session.org_id, Head(ids)))
  IN IF ids = <<>> THEN AllowsApi(session, api)
     ELSE /\ Len(ids) = 1
          /\ PolicyVerdict(found, session.org_id, Head(ids)) = 0
          /\ \E p \in found : AllowsApi(ApplyPolicy(session, p), api)

Usable(d, q, ss, ps, t) ==
  \E e \in Effective(d, q, t) : \E s \in Credentials(e, q, ss, t) : Grants(d.api_id, s, ps)

\* No session stands behind the request's credential now, in the version it
\* runs under.  How old its signature or that version has become is no matter:
\* both were judged when the request passed them.
Dead(x, ss, t) ==
  LET d == Def(x)
      h == AtAuth(d, Q(x))
  IN /\ x.api # "none" /\ ~NoneNeeded(d, Q(x))
     /\ IF d.auth.mode \in TokenModes THEN Credentials(d, Q(x), ss, t) = {}
        ELSE \A c \in Presented(d.auth, h) : Held(d, h, c, ss, t) = {}

-----------------------------------------------------------------------------
(* From the socket to the first storage call.  The outer layers use the base  *)
(* definition, the inner ones that of the requested version.                   *)

\* The claims of a verified token make the session; a policy map may replace it.
TokenStep(x) ==
  LET a == Def(x).auth
      tokens == {t \in ExtractToken(a, Seen(x)) : ClaimsVerified(a, t, world.key, now) /\ t.sub # None}
      ctx(t) == [session |-> ClaimsSession(Def(x).org_id, x.api, t),
                 identity |-> <<a.mode, CHOOSE s \in t.sub : TRUE>>]
      ids == UNION {MappedPolicy(a, t) : t \in tokens}
      y == [x EXCEPT !.ctx = {ctx(t) : t \in tokens}]
  IN IF tokens = {} \/ (NeedsMapping(a) /\ ids = {}) THEN Answered(x, 403, "auth")
     ELSE IF ~NeedsMapping(a) THEN Goto(y, "endpoint")
     ELSE [y EXCEPT !.pc = "policy",
                    !.ctx = {[c EXCEPT !.session.apply_policies = SetToSeq(ids)] : c \in @}]

\* `Auth::call` up to its first await.
AuthStep(x) ==
  LET a == Def(x).auth
      creds == Presented(a, Seen(x))
  IN IF a.mode = "keyless" \/ AuthBypass(Def(x), Q(x)) THEN Goto(x, "endpoint")
     ELSE IF creds = None THEN Answered(x, 401, "auth")
     ELSE IF a.mode \in TokenModes THEN TokenStep(x)
     ELSE IF a.mode = "hmac" /\ ~\E s \in creds : HmacAdmissible(a, Seen(x), s, now)
          THEN Answered(x, 403, "auth")
     ELSE Goto(x, "session")

Authenticate(r) ==
  /\ req[r].pc = "auth"
  /\ Move(r, AuthStep(req[r]))
  /\ UNCHANGED <<world, table, store, counters, entries, writes, now>>

\* A hook layer: the first hook that answers or fails ends the request.  What
\* the others do to its headers is what the layers below see.
HookStep(x, kind, next) ==
  LET hooks == Hooks(Def(x), kind)
      stop == StopsAt(hooks)
      out == hooks[Min(stop)].out
  IN IF stop # {} THEN [Answered(x, HookStatus(out), kind) EXCEPT !.out = HookHeaders(out)]
     ELSE [x EXCEPT !.headers = RunPlugins(hooks, @), !.pc = next]

\* Path policy, size limit and pre hooks, above auth.
Gate(r) ==
  LET x == req[r]
  IN /\ x.pc = "gate"
     /\ Move(r, IF PathForbidden(Def(x), Q(x)) THEN Answered(x, 403, "path")
                ELSE IF DeclaredTooLarge(Def(x), Q(x)) THEN Answered(x, 413, "declared")
                ELSE HookStep(x, "pre", "auth"))
     /\ UNCHANGED <<world, table, store, counters, entries, writes, now>>

\* Version dispatch: an unversioned API has one inner chain, its own.
VersionStep(x) ==
  LET names == UNION {Version(v, Q(x), now) : v \in Api(x).versioning}
  IN IF Api(x).versioning # None /\ names = {} THEN Answered(x, 403, "version")
     ELSE [x EXCEPT !.scope = <<x.api>> \o SetToSeq(names), !.pc = "gate"]

OuterStep(x) ==
  IF IpFiltered(Api(x), Q(x)) THEN Answered(x, 403, "ip")
  ELSE IF CorsAnswers(Api(x), Q(x))
       THEN [Answered(x, 204, "preflight") EXCEPT
               !.out = PreflightHeaders(CHOOSE c \in Api(x).cors : TRUE, Q(x))]
  ELSE VersionStep(x)

\* `Gateway::handle`: health endpoints, then the route, then its chain.
Arrive(r) ==
  /\ req[r].pc = "idle" /\ table = "built"
  /\ \E q \in DOMAIN world.inputs :
       LET hits == MatchPath(world.defs, world.inputs[q].path)
           x == IF world.inputs[q].path \in HealthPaths THEN Answered(Fresh(q), 200, "route")
                ELSE IF hits = {} THEN Answered(Fresh(q), 404, "route")
                ELSE OuterStep([Fresh(q) EXCEPT !.api = (CHOOSE d \in hits : TRUE).api_id])
       IN Move(r, [x EXCEPT !.dead = Dead(x, sessions, now)])
  /\ UNCHANGED <<world, table, store, counters, entries, writes, now>>

-----------------------------------------------------------------------------
(* Storage calls: a request waits at "session", "policy", "endpoint", "rate",  *)
(* "quota" or "cache" and moves when storage answers or fails.                 *)

\* The policy's allowance and grants replace the session's before the access check.
Granted(x, ctx) ==
  IF AllowsApi(ctx.session, x.api)
  THEN [x EXCEPT !.pc = "endpoint", !.ctx = Some(ctx)]
  ELSE Answered(x, 403, "auth")

Resolved(x, ctx) ==
  CASE ctx.session.apply_policies = <<>> -> Granted(x, ctx)
    [] Len(ctx.session.apply_policies) = 1 -> [x EXCEPT !.pc = "policy", !.ctx = Some(ctx)]
    [] OTHER -> Answered(x, 500, "auth")

\* Mutant: a stored session is used whatever its state.
SessionFoundUnchecked(x) ==
  LET a == Def(x).auth
      cred == CHOOSE c \in Presented(a, Seen(x)) : TRUE
      found == At(sessions, SessionKey(Def(x).org_id, Identity(a, cred)))
  IN IF found = None THEN Answered(x, 403, "auth")
     ELSE Resolved(x, [session |-> (CHOOSE s \in found : TRUE).session, identity |-> Identity(a, cred)])

SessionFound(x) ==
  LET a == Def(x).auth
      cred == CHOOSE c \in Presented(a, Seen(x)) : TRUE
      found == At(sessions, SessionKey(Def(x).org_id, Identity(a, cred)))
  IN IF found = None THEN Answered(x, 403, "auth")
     ELSE LET rec == CHOOSE s \in found : TRUE
          IN IF rec.corrupt THEN Answered(x, 500, "auth")
             ELSE IF SessionLive(rec.session, now) /\ Proved(a, Seen(x), cred, rec.session)
                  THEN Resolved(x, [session |-> rec.session, identity |-> Identity(a, cred)])
                  ELSE Answered(x, 403, "auth")

Failed(x, status) == [Answered(x, status, "auth") EXCEPT !.faulted = TRUE]

LookupSession(r) ==
  /\ req[r].pc = "session"
  /\ \/ Move(r, SessionFound(req[r]))
     \/ Move(r, Failed(req[r], 503))
  /\ UNCHANGED <<world, table, store, counters, entries, writes, now>>

PolicyFound(x) ==
  LET ctx == CHOOSE c \in x.ctx : TRUE
      org == ctx.session.org_id
      id == Head(ctx.session.apply_policies)
      found == At(policies, PolicyKey(org, id))
      verdict == PolicyVerdict(found, org, id)
  IN IF verdict # 0 THEN [Answered(x, verdict, "auth") EXCEPT !.ctx = None]
     ELSE Granted(x, [ctx EXCEPT !.session = ApplyPolicy(@, CHOOSE p \in found : TRUE)])

LookupPolicy(r) ==
  /\ req[r].pc = "policy"
  /\ \/ Move(r, PolicyFound(req[r]))
     \/ Move(r, Failed([req[r] EXCEPT !.ctx = None], 503))
  /\ UNCHANGED <<world, table, store, counters, entries, writes, now>>

\* One limit: it admits and charges, denies, or fails open.
CheckLimit(r, key, max, status, next) ==
  LET x == req[r]
  IN \/ /\ Count(counters, key) < max
        /\ counters' = With(counters, key :> Count(counters, key) + 1)
        /\ Move(r, [x EXCEPT !.pc = next, !.charged[x.pc] = @ + 1])
     \/ /\ Count(counters, key) >= max
        /\ Move(r, Answered(x, status, x.pc))
        /\ UNCHANGED counters
     \/ /\ Move(r, [x EXCEPT !.pc = next, !.opened = @ \cup {x.pc}])
        /\ UNCHANGED counters

SkipLimit(r, next) == Move(r, Goto(req[r], next)) /\ UNCHANGED counters

\* The session allowance a request is held to; none without a session.
Allowance(x) ==
  [rate |-> UNION {c.session.rate : c \in x.ctx}, quota |-> UNION {c.session.quota : c \in x.ctx}]

CheckEndpoint(r) ==
  LET x == req[r]
      rules == FirstMatch(Def(x).limits, Q(x))
      limited == Allowance(x) # [rate |-> None, quota |-> None]
      next == IF limited THEN "guard" ELSE "below"
  IN /\ x.pc = "endpoint"
     /\ \/ rules = {} /\ SkipLimit(r, next)
        \/ \E i \in rules :
             CheckLimit(r, EndpointKey(Def(x).org_id, x.scope, i), Def(x).limits[i].requests, 429, next)
     /\ UNCHANGED <<world, table, store, entries, writes, now>>

\* The pod-local spike guard, which may refuse before any storage call.
Guard(r) ==
  /\ req[r].pc = "guard"
  /\ \/ Move(r, Goto(req[r], "rate"))
     \/ world.spike /\ Move(r, Answered(req[r], 429, "guard"))
  /\ UNCHANGED <<world, table, store, counters, entries, writes, now>>

CheckSession(r, pc, next, status) ==
  LET x == req[r]
      limits == Allowance(x)[pc]
      key(c) == IF pc = "rate" THEN RateKey(c.session.org_id, c.identity)
                ELSE QuotaKey(c.session.org_id, c.identity)
  IN /\ x.pc = pc
     /\ \/ limits = None /\ SkipLimit(r, next)
        \/ \E l \in limits, c \in x.ctx : CheckLimit(r, key(c), l.max, status, next)
     /\ UNCHANGED <<world, table, store, entries, writes, now>>

\* Mutant: a request within its rate is not counted against its quota.
CheckRateOnly(r) == CheckSession(r, "rate", "below", 429)

CheckRate(r)  == CheckSession(r, "rate", "quota", 429)
CheckQuota(r) == CheckSession(r, "quota", "below", 403)

-----------------------------------------------------------------------------
(* Below the limits: post hooks, request transforms and mocks, then the cache  *)
(* or the upstream.  A response travels back through the transforms.           *)

JsonError(status) ==
  [status |-> status, headers |-> Header("content-type", <<"json">>), size |-> 0, complete |-> TRUE]

\* The response header rules, on everything that comes from below their layer.
Respond(x, resp, by) ==
  [Answered(x, resp.status, by) EXCEPT
     !.out = IF Def(x).transform_headers = None THEN resp.headers
             ELSE ApplyRules((CHOOSE t \in Def(x).transform_headers : TRUE).response, resp.headers)]

BodyRules(x, side) ==
  UNION {{t[side][i] : i \in FirstMatch(t[side], Q(x))} : t \in Def(x).transform_body}

MaxResponse(x) == CHOOSE n \in {t.max_response : t \in Def(x).transform_body} : TRUE

\* The ways a response of the inner service can leave the body transform:
\* rendered, refused as too large or broken, or failed by its template.
Returned(x, resp, by) ==
  LET rules == BodyRules(x, "response")
  IN IF rules = {} \/ resp.status < 200 THEN {Respond(x, resp, by)}
     ELSE {Respond(x, JsonError(502), "transform")}
          \cup {Respond(x, [resp EXCEPT !.headers = SetFraming(rule, @)], by) :
                  rule \in {rule \in rules : resp.complete /\ resp.size <= MaxResponse(x)}}

\* `first_match` of the mocks: the answer, before the response transforms.
MockAnswer(x) ==
  {[status |-> Def(x).mocks[i].status, headers |-> Def(x).mocks[i].headers,
    size |-> Def(x).mocks[i].size, complete |-> TRUE] : i \in FirstMatch(Def(x).mocks, Q(x))}

IsSafeMethod(method) == method \in {"GET", "HEAD", "OPTIONS"}

\* A body a rule must read is held to the API's limit or the default one.
TransformTooLarge(d, q) ==
  \E max \in IF d.max_body = None THEN {DefaultMaxBody} ELSE d.max_body : q.body > max

\* The request transforms: a body that is too large, cannot be read (400) or
\* rendered (500) ends the request.
Transformed(x) ==
  LET rules == BodyRules(x, "request")
      y == [x EXCEPT !.headers =
              IF Def(x).transform_headers = None THEN @
              ELSE ApplyRules((CHOOSE t \in Def(x).transform_headers : TRUE).request, @)]
  IN IF rules = {} THEN {y}
     ELSE IF TransformTooLarge(Def(x), Q(x)) THEN {Respond(y, JsonError(413), "size")}
     ELSE {Respond(y, JsonError(status), "transform") : status \in {400, 500}}
          \cup {[y EXCEPT !.headers = SetFraming(rule, @)] : rule \in rules}

Below(r) ==
  LET hooked == HookStep(req[r], "post", "dispatch")
  IN /\ req[r].pc = "below"
     /\ \E x \in IF hooked.pc = "done" THEN {hooked} ELSE Transformed(hooked) : Move(r, x)
     /\ UNCHANGED <<world, table, store, counters, entries, writes, now>>

\* A mock answers; else the cache is asked for a safe method, or the upstream.
Dispatch(r) ==
  LET x == req[r]
      next == IF Def(x).cache # None /\ IsSafeMethod(Q(x).method) THEN "cache" ELSE "forward"
  IN /\ x.pc = "dispatch"
     /\ \/ \E resp \in MockAnswer(x) : \E y \in Returned(x, resp, "mock") : Move(r, y)
        \/ MockAnswer(x) = {} /\ Move(r, Goto(x, next))
     /\ UNCHANGED <<world, table, store, counters, entries, writes, now>>

KeyOf(x) == CacheKey(Def(x).org_id, x.scope, Q(x).method, Q(x).path)

\* `Cache::call`: a hit is answered from storage; an absent, expired or corrupt
\* entry and a failed lookup all go on to the upstream.
CacheGet(r) ==
  LET x == req[r]
      live == {e \in At(entries, KeyOf(x)) : now < e.expires}
  IN /\ x.pc = "cache"
     /\ \/ \E e \in live : \E y \in Returned([x EXCEPT !.src = Some(e.src)],
                [e.resp EXCEPT !.headers = With(@, Header("x-g2-cache", <<"hit">>))], "hit") : Move(r, y)
        \/ live = {} /\ Move(r, Goto(x, "forward"))
        \/ live # {} /\ Move(r, Goto(x, "forward"))
     /\ UNCHANGED <<world, table, store, counters, entries, writes, now>>

-----------------------------------------------------------------------------
(* The upstream exchange.  The pool, retries and breaker behind it are modelled *)
(* in UpstreamPool and CircuitBreaker.                                          *)

Upgrading(x) ==
  (Def(x).upgrades \/ GraphqlSubscriptions(Def(x))) /\ "upgrade" \in DOMAIN x.headers

\* Without a peer address the unspecified one is forwarded.
ClientIp(q) == IF q.ip = None THEN "0.0.0.0" ELSE CHOOSE ip \in q.ip : TRUE

UpstreamHeaders(x) ==
  LET hs == PrepareUpstreamHeaders(Def(x), StampApiId(Api(x), x.headers), ClientIp(Q(x)), Q(x).tls)
  IN IF Upgrading(x)
     THEN With(hs, With(Header("connection", <<"upgrade">>), Header("upgrade", x.headers["upgrade"])))
     ELSE hs

\* What identifies the resource an upstream request asks for.
Source(x) ==
  [target |-> Def(x).target_url, method |-> UpstreamMethod(Def(x), Q(x)),
   path |-> UpstreamPath(Def(x), <<>>, Q(x).path)]

\* An open circuit answers without contacting the upstream.
Send(r) ==
  LET x == req[r]
  IN /\ x.pc = "forward"
     /\ \/ Move(r, [x EXCEPT !.pc = "upstream", !.sent = Some(UpstreamHeaders(x)),
                             !.src = Some(Source(x))])
        \/ Def(x).breaker # None /\ \E y \in Returned(x, JsonError(503), "error") : Move(r, y)
     /\ UNCHANGED <<world, table, store, counters, entries, writes, now>>

\* `record_if_cacheable`: what is recorded while the body streams.
Recordable(x, resp) ==
  {[key |-> KeyOf(x), ttl |-> c.ttl_secs, src |-> Source(x), resp |-> resp] :
     c \in {c \in Def(x).cache : /\ IsSafeMethod(Q(x).method)
                                 /\ resp.status \in 200..299
                                 /\ "set-cookie" \notin DOMAIN resp.headers
                                 /\ resp.size <= c.max_body_bytes}}

\* The head of an upstream response.  When a rule must render the body it is
\* read here, and with it the recording ends (the last frame of a body that is
\* too large to render may have completed it); otherwise the body streams on.
Receive(r) ==
  LET x == req[r]
      rendered == BodyRules(x, "response") # {}
  IN /\ x.pc = "upstream"
     /\ \/ \E a \in {a \in world.answers : a.status = 101 => Upgrading(x)} :
             LET upgrade == IF a.status = 101 THEN Header("connection", <<"upgrade">>) ELSE <<>>
                 resp == [a EXCEPT !.headers = With(StripHopByHop(@), upgrade)]
                 spawned == IF rendered /\ a.complete THEN Recordable(x, resp) ELSE {}
             IN \E y \in Returned(x, resp, "upstream") :
                  /\ Move(r, [y EXCEPT !.recording = IF rendered THEN None ELSE Recordable(x, resp)])
                  /\ \/ writes' = writes \cup spawned
                     \/ spawned # {} /\ a.size > MaxResponse(x) /\ UNCHANGED writes
        \/ \E status \in {502, 504} \cup (IF BodyTooLarge(Def(x), Q(x)) THEN {413} ELSE {}) :
             \E y \in Returned(x, JsonError(status), "error") : Move(r, y) /\ UNCHANGED writes
     /\ UNCHANGED <<world, table, store, counters, entries, now>>

\* Mutant: the CORS layer sits below auth and the limits.
LeavingFromBelow(x) ==
  /\ x.pc = "done" /\ x.left = None /\ x.by \in {"mock", "hit", "upstream", "error", "transform"}
  /\ Api(x).cors # None /\ Q(x).origin # None

\* An answer of a layer below the CORS layer that has yet to pass it on its way
\* out; the IP filter and the router answer above it, preflights it answers itself.
Leaving(x) ==
  /\ x.pc = "done" /\ x.left = None /\ x.by \notin {"ip", "route", "preflight"}
  /\ Api(x).cors # None /\ Q(x).origin # None

\* `Cors::call` after its inner service has answered: what leaves is the
\* decorated answer.
Leave(r) ==
  LET x == req[r]
  IN /\ Leaving(x)
     /\ \E c \in Api(x).cors, o \in Q(x).origin :
          Move(r, [x EXCEPT !.left = Some(Decorated(c, o, x.out))])
     /\ UNCHANGED <<world, table, store, counters, entries, writes, now>>

\* `RecordingBody`: the end of the body spawns the write; an error of the
\* upstream or a client that leaves drops it.
StreamEnd(r) ==
  /\ req[r].pc = "done" /\ ~Leaving(req[r]) /\ req[r].recording # None
  /\ writes' = writes \cup {w \in req[r].recording : w.resp.complete}
  /\ Move(r, [req[r] EXCEPT !.recording = None])
  /\ UNCHANGED <<world, table, store, counters, entries, now>>

StreamCut(r) ==
  /\ req[r].pc = "done" /\ ~Leaving(req[r]) /\ req[r].recording # None
  /\ Move(r, [req[r] EXCEPT !.recording = None])
  /\ UNCHANGED <<world, table, store, counters, entries, writes, now>>

\* The spawned task: the write lands, or storage fails and it is dropped.
WriteCache(w) ==
  /\ writes' = writes \ {w}
  /\ \/ entries' = With(entries, [key \in {w.key} |->
                    [resp |-> w.resp, src |-> w.src, expires |-> now + w.ttl]])
     \/ UNCHANGED entries
  /\ UNCHANGED <<world, table, store, counters, req, now>>

\* A client that disconnects cancels its request at the await it is in.
Disconnect(r) ==
  /\ req[r].pc \notin {"idle", "done", "gone"}
  /\ Move(r, Goto(req[r], "gone"))
  /\ UNCHANGED <<world, table, store, counters, entries, writes, now>>

-----------------------------------------------------------------------------
(* The admin API and the clock.  The requests see a changed world: what the    *)
(* properties say of a steady one no longer applies to them, and a credential  *)
(* that is live at any instant of a request is not dead for it.                *)

Observe ==
  req' = [r \in Requests |->
            IF req[r].pc = "idle" THEN req[r]
            ELSE [req[r] EXCEPT !.steady = FALSE, !.dead = @ /\ Dead(req[r], sessions', now')]]

\* `put_key`, also `create_key` under a key of the gateway's own making.
PutKey(e) ==
  /\ e.kind = "put_key" /\ SessionOk(e.session)
  /\ sessions' = With(sessions, SessionKey(e.session.org_id, e.identity) :>
                                  [corrupt |-> FALSE, session |-> e.session])
  /\ UNCHANGED policies

\* `delete_key` under the organisation the call names.
DeleteKey(e) ==
  /\ e.kind = "delete_key" /\ SessionKey(e.org_id, e.identity) \in DOMAIN sessions
  /\ sessions' = Without(sessions, {SessionKey(e.org_id, e.identity)})
  /\ UNCHANGED policies

PutPolicy(e) ==
  /\ e.kind = "put_policy" /\ PolicyOk(e.policy)
  /\ policies' = With(policies, PolicyKey(e.policy.org_id, e.policy.policy_id) :> e.policy)
  /\ UNCHANGED sessions

DeletePolicy(e) ==
  /\ e.kind = "delete_policy" /\ PolicyKey(e.org_id, e.id) \in DOMAIN policies
  /\ policies' = Without(policies, {PolicyKey(e.org_id, e.id)})
  /\ UNCHANGED sessions

Admin ==
  /\ \E e \in world.edits : PutKey(e) \/ DeleteKey(e) \/ PutPolicy(e) \/ DeletePolicy(e)
  /\ store' # store
  /\ UNCHANGED <<world, table, counters, entries, writes, now>>
  /\ Observe

\* A rate window or quota period ends.
WindowElapses(key) ==
  /\ counters' = Without(counters, {key})
  /\ UNCHANGED <<world, table, store, entries, writes, req, now>>

Tick ==
  /\ now < world.horizon
  /\ now' = now + 1
  /\ sessions' = sessions /\ policies' = policies
  /\ Observe
  /\ UNCHANGED <<world, table, counters, entries, writes>>

Step(r) ==
  \/ Arrive(r) \/ Gate(r) \/ Authenticate(r) \/ LookupSession(r) \/ LookupPolicy(r)
  \/ CheckEndpoint(r) \/ Guard(r) \/ CheckRate(r) \/ CheckQuota(r)
  \/ Below(r) \/ Dispatch(r) \/ CacheGet(r) \/ Send(r) \/ Receive(r)
  \/ Leave(r) \/ StreamEnd(r) \/ StreamCut(r) \/ Disconnect(r)

Next ==
  \/ Load
  \/ \E r \in Requests : Step(r)
  \/ \E w \in writes : WriteCache(w)
  \/ \E key \in DOMAIN counters : WindowElapses(key)
  \/ Admin \/ Tick

Spec == Init /\ [][Next]_vars

-----------------------------------------------------------------------------
(* Properties *)

Pcs == {"idle", "gate", "auth", "session", "policy", "endpoint", "guard", "rate", "quota",
        "below", "dispatch", "cache", "forward", "upstream", "done", "gone"}

\* Between its awaits a request is always at one of the storage or upstream
\* calls of the chain, answered, or cancelled; an answer has an HTTP status.
TypeOK ==
  /\ table \in {"empty", "built", "refused"}
  /\ \A r \in Requests : /\ req[r].pc \in Pcs
                          /\ req[r].pc = "done" => req[r].status \in 100..599
  /\ \A key \in DOMAIN counters : counters[key] \in Nat
  /\ now \in 0..world.horizon

\* Who answers below auth and the limits.
BelowLimits == {"post", "size", "transform", "mock", "hit", "upstream", "error"}

\* The request has passed authentication.
Passed(x) ==
  \/ x.pc \in Pcs \ {"idle", "gate", "auth", "session", "policy", "done", "gone"}
  \/ x.pc = "done" /\ x.by \in BelowLimits \cup LimitNames \cup {"guard"}

\* Across all auth modes the steps of the chain decide exactly what the
\* credential is worth: while storage stands still, a request passes
\* authentication only if the credential that reached it, below the pre hooks, is
\* live, proved and granted the API (directly or by its policy) or the path needs
\* none, whatever storage calls failed on the way; and one that is refused with
\* none of them failing had no such credential.
AuthMatchesSpec ==
  \A r \in Requests :
    LET x == req[r]
        usable == Usable(Api(x), Q(x), sessions, policies, now)
    IN (x.pc # "idle" /\ x.steady) =>
         /\ Passed(x) => usable
         /\ (x.pc = "done" /\ x.by = "auth" /\ ~x.faulted) => ~usable

\* A session deleted, deactivated or expired before a request arrives, and not
\* restored since, admits no request, whatever is edited while it is in flight.
RevokedNeverServed == \A r \in Requests : req[r].pc # "idle" => ~(Passed(req[r]) /\ req[r].dead)

\* The limits that apply to a request with the session it was admitted under.
Applicable(x) ==
  {pc \in LimitNames :
     IF pc = "endpoint" THEN FirstMatch(Def(x).limits, Q(x)) # {} ELSE Allowance(x)[pc] # None}

\* The limits a request has passed when the layer `by` answers it.
Before(by) ==
  CASE by \in BelowLimits -> LimitNames
    [] by = "quota" -> {"endpoint", "rate"}
    [] by \in {"rate", "guard"} -> {"endpoint"}
    [] OTHER -> {}

\* How often a limit let the request through: it was charged, or storage failed.
Passes(x, l) == x.charged[l] + IF l \in x.opened THEN 1 ELSE 0

\* How often it should have when the request is answered.
Owed(x, l) == IF l \in Before(x.by) /\ l \in Applicable(x) THEN 1 ELSE 0

\* Whoever answers, a request was charged exactly once (or passed by a limit
\* whose storage failed) by every limit that applies and comes before the answer,
\* and by no other: nothing served is free, a denial by an endpoint limit or the
\* spike guard consumes no session rate, one by the rate no quota, and a refusal
\* above the limits nothing.
ServedIsMetered ==
  \A r \in Requests :
    LET x == req[r]
    IN x.pc = "done" => \A l \in LimitNames : Passes(x, l) = Owed(x, l)

\* The cache is invisible but for its tag: a hit is what a miss would have
\* returned (an answer of the same upstream to the same method and path, in the
\* same version of the same API, run through the response transforms once), and
\* only complete, successful responses that set no cookie are stored, however
\* the stream ends and whoever else writes the entry meanwhile.
CacheSound ==
  /\ \A r \in Requests :
       LET x == req[r]
       IN (x.pc = "done" /\ x.by = "hit") =>
            /\ x.src = {Source(x)}
            /\ \E a \in world.answers :
                 \E y \in Returned(x, [a EXCEPT !.headers =
                                    With(StripHopByHop(@), Header("x-g2-cache", <<"hit">>))], "hit") :
                    y.out = x.out /\ y.status = x.status /\ y.by = "hit"
  /\ \A e \in writes \cup {entries[k] : k \in DOMAIN entries} :
       e.resp.complete /\ e.resp.status \in 200..299 /\ "set-cookie" \notin DOMAIN e.resp.headers

\* A browser shows a page of `origin` the answer: its own origin and, when it
\* sends credentials, the flag; the wildcard does not admit credentials.
Readable(headers, origin, credentials) ==
  /\ "access-control-allow-origin" \in DOMAIN headers
  /\ headers["access-control-allow-origin"] \in {<<origin>>} \cup IF credentials THEN {} ELSE {<<"*">>}
  /\ credentials => /\ "access-control-allow-credentials" \in DOMAIN headers
                    /\ headers["access-control-allow-credentials"] = <<"true">>

\* The headers of the answer the client gets.
Received(x) == IF x.left = None THEN x.out ELSE CHOOSE hs \in x.left : TRUE

\* A page of an allowed origin can read every answer that has left the gateway,
\* with credentials where the policy lets it send them: rejections by any layer
\* below the CORS layer, answers of hooks, mocks and upstreams that carry CORS
\* headers of their own, and hits recorded for another origin.  Only the IP
\* filter, above the layer, and refused preflights are left unreadable.
CorsReadable ==
  \A r \in Requests :
    LET x == req[r]
    IN (x.pc = "done" /\ ~Leaving(x) /\ x.by \notin {"ip", "route"}) =>
         \A c \in Api(x).cors, o \in Q(x).origin :
           (IF x.by = "preflight" THEN PreflightAllowed(c, Q(x)) ELSE OriginAllowed(c, o)) =>
              Readable(Received(x), o, c.credentials)

\* Whatever the client, the hooks and the transforms put in the headers, the
\* upstream sees no connection-level header beyond a negotiated upgrade or
\* `te: trailers`, no API id but the matched one, and the client's address as
\* the last hop; a client sees no connection-level header of the upstream (a hook
\* that answers itself is the author of its headers).
HeadersClean ==
  \A r \in Requests :
    LET x == req[r]
    IN x.pc # "idle" =>
         /\ \A hs \in x.sent :
              /\ DOMAIN hs \cap HopByHop \subseteq
                   (IF Upgrading(x) THEN {"connection", "upgrade"} ELSE {})
                   \cup (IF Def(x).http2 THEN {"te"} ELSE {})
              /\ "x-g2-api-id" \in DOMAIN hs => hs["x-g2-api-id"] = <<x.api>>
              /\ Last(hs["x-forwarded-for"]) = ClientIp(Q(x))
         /\ (x.pc = "done" /\ x.status # 101 /\ x.by \notin {"pre", "post"}) =>
              \A hs \in {x.out} \cup x.left : DOMAIN hs \cap HopByHop = {}
=============================================================================
