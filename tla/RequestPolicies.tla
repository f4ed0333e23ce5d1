-------------------------- MODULE RequestPolicies --------------------------
(***************************************************************************)
(* Routing and the stateless layers of an API's middleware chain: IP filter, *)
(* CORS, version dispatch, path policy, request size limit, mocks, plugin    *)
(* hooks, header and body transforms, and the rewriting of the request the   *)
(* forwarder sends.  A path is a sequence of tokens ("/" and letters); the   *)
(* regular expression of a rule is the set of paths it matches.              *)
(***************************************************************************)
EXTENDS Sessions

(* A header map gives each header present the sequence of its values. *)

Without(headers, names) == [h \in DOMAIN headers \ names |-> headers[h]]
With(headers, more) ==
  [h \in DOMAIN headers \cup DOMAIN more |-> IF h \in DOMAIN more THEN more[h] ELSE headers[h]]

Header(name, value) == [h \in {name} |-> value]

-----------------------------------------------------------------------------
(* Routing *)

ListenPrefix(d) ==
  IF Last(d.listen) = "/" THEN Front(d.listen) ELSE d.listen

\* `Route::matches`: a prefix that ends on a segment boundary.
RouteMatches(prefix, path) ==
  /\ IsPrefix(prefix, path)
  /\ \/ prefix = <<>>
     \/ Len(path) = Len(prefix)
     \/ path[Len(prefix) + 1] = "/"

\* `RouteTable::build`: any invalid definition, active or not, fails the build.
TableBuilds(defs) == \A d \in defs : Validate(d)

\* `match_path`: the longest listen path wins.
MatchPath(defs, path) ==
  LET hits == {d \in defs : d.active /\ RouteMatches(ListenPrefix(d), path)}
  IN {d \in hits : \A e \in hits : Len(ListenPrefix(e)) <= Len(ListenPrefix(d))}

-----------------------------------------------------------------------------
(* IP filter, CORS, version dispatch *)

\* An address is permitted unless blocked; an allow list admits only its own.
IpPermits(d, ip) ==
  /\ ip \notin d.block_ips
  /\ d.allow_ips = {} \/ ip \in d.allow_ips

\* The layer is built only when a list is configured; it fails closed without an address.
IpFiltered(d, q) ==
  /\ d.allow_ips \cup d.block_ips # {}
  /\ ~\E ip \in q.ip : IpPermits(d, ip)

OriginAllowed(c, origin) == "*" \in c.origins \/ origin \in c.origins

\* `allow_origin_value`, and the credentials flag.
AllowOrigin(c, origin) ==
  Header("access-control-allow-origin", <<IF "*" \in c.origins THEN "*" ELSE origin>>)
AllowCredentials(c) ==
  IF c.credentials THEN Header("access-control-allow-credentials", <<"true">>) ELSE <<>>

IsPreflight(q) == q.method = "OPTIONS" /\ q.request_method # None

PreflightAllowed(c, q) ==
  /\ \A o \in q.origin : OriginAllowed(c, o)
  /\ q.request_method \subseteq c.methods
  /\ c.allowed_headers = {} \/ q.request_headers \subseteq c.allowed_headers

\* A preflight is answered by the layer itself unless it is passed through.
CorsAnswers(d, q) ==
  \E c \in d.cors : q.origin # None /\ IsPreflight(q) /\ ~c.passthrough

\* `preflight_response`: the headers of the answer the layer gives itself.
PreflightHeaders(c, q) ==
  LET asked == IF c.allowed_headers = {} THEN q.request_headers ELSE c.allowed_headers
      granted == With(AllowCredentials(c),
                      With(Header("access-control-allow-methods", <<c.methods>>),
                           IF asked = {} THEN <<>> ELSE Header("access-control-allow-headers", <<asked>>)))
  IN With(Header("vary", <<"origin", "access-control-request-method", "access-control-request-headers">>),
          IF PreflightAllowed(c, q)
          THEN With(granted, AllowOrigin(c, CHOOSE o \in q.origin : TRUE)) ELSE <<>>)

\* `decorate` on a response of the layers below, whatever they put under the
\* same names, then `vary` for a policy that depends on the origin.
Decorated(c, origin, headers) ==
  LET exposed == IF c.exposed_headers = {} THEN <<>>
                 ELSE Header("access-control-expose-headers", <<c.exposed_headers>>)
      shown == IF OriginAllowed(c, origin)
               THEN With(With(headers, exposed), With(AllowCredentials(c), AllowOrigin(c, origin)))
               ELSE headers
      vary == IF "vary" \in DOMAIN headers THEN headers["vary"] ELSE <<>>
  IN IF "*" \in c.origins THEN shown ELSE With(shown, Header("vary", Append(vary, "origin")))

\* `VersionDispatch::requested`, or the default version.
RequestedVersion(v, q) == IF q.version # None THEN q.version ELSE v.default

\* The version a request runs under: refused when absent, unknown or expired.
Version(v, q, now) ==
  {name \in RequestedVersion(v, q) \cap DOMAIN v.versions :
     ~\E at \in v.versions[name].expires_at : at <= now}

-----------------------------------------------------------------------------
(* Path policy, size limit, mocks, endpoint limits *)

RuleMatches(rule, q) ==
  (rule.methods = {} \/ q.method \in rule.methods) /\ q.path \in rule.paths

AnyMatch(rules, q) == \E i \in DOMAIN rules : RuleMatches(rules[i], q)

PathForbidden(d, q) ==
  \/ AnyMatch(d.block_paths, q)
  \/ d.allow_paths # <<>> /\ ~AnyMatch(d.allow_paths, q)

AuthBypass(d, q) == AnyMatch(d.ignore_auth_paths, q)

FirstMatch(rules, q) ==
  {i \in DOMAIN rules : /\ RuleMatches(rules[i], q)
                        /\ \A j \in 1..(i - 1) : ~RuleMatches(rules[j], q)}

\* Tier 1 of the size limit, on the declared length; tier 2 counts what arrives.
DeclaredTooLarge(d, q) == \E max \in d.max_body, len \in q.declared : len > max
BodyTooLarge(d, q) == \E max \in d.max_body : q.body > max

-----------------------------------------------------------------------------
(* Plugin hooks *)

\* What a hook, guest code, returns: it continues with the headers of `set` on
\* the request, answers with `set` as the headers of its response, or fails.
\* `decode_output`: a status outside 100..599 or a malformed header is a failure.
HookOutcome(out) ==
  IF \/ out.kind = "trap"
     \/ out.kind = "respond" /\ out.status \notin 100..599
     \/ \E h \in DOMAIN out.set \cup out.remove : ~Parses(h)
  THEN [out EXCEPT !.kind = "trap"] ELSE out

\* The hook of `plugins[i]` that ends the request: an answer, or a failure (fail closed).
StopsAt(plugins) ==
  {i \in DOMAIN plugins : /\ HookOutcome(plugins[i].out).kind # "continue"
                          /\ \A j \in 1..(i - 1) : HookOutcome(plugins[j].out).kind = "continue"}

\* The hooks a definition configures for "pre" or "post" auth.
Hooks(d, kind) ==
  IF d.plugins = None THEN <<>> ELSE (CHOOSE p \in d.plugins : TRUE)[kind]

\* What the layer answers with when a hook stops the request.
HookStatus(out) == IF HookOutcome(out).kind = "trap" THEN 500 ELSE out.status
HookHeaders(out) == IF HookOutcome(out).kind = "trap" THEN <<>> ELSE out.set

\* The hooks run one after the other, each removing headers and then setting
\* some: the last hook that touches a header decides it.
RunPlugins(plugins, headers) ==
  LET out(i) == plugins[i].out
      touches(i, h) == h \in out(i).remove \cup DOMAIN out(i).set
      sets(i, h) == h \in DOMAIN out(i).set /\ ~\E j \in (i + 1)..Len(plugins) : touches(j, h)
      kept == {h \in DOMAIN headers : ~\E i \in DOMAIN plugins : touches(i, h)}
      set == UNION {{h \in DOMAIN out(i).set : sets(i, h)} : i \in DOMAIN plugins}
  IN [h \in kept \cup set |->
        IF h \in kept THEN headers[h] ELSE out(CHOOSE i \in DOMAIN plugins : sets(i, h)).set[h]]

-----------------------------------------------------------------------------
(* Transforms and the upstream request *)

\* The headers the gateway itself sets are end to end.
ASSUME OwnHeadersAssumption ==
  HopByHop \cap {"content-type", "x-g2-cache", "x-forwarded-for", "x-forwarded-proto",
                 "x-forwarded-host", "vary", "access-control-allow-origin",
                 "access-control-allow-credentials", "access-control-expose-headers",
                 "access-control-allow-methods", "access-control-allow-headers"} = {}

ApplyRules(t, headers) == With(Without(headers, t.remove), t.add)

SetFraming(rule, headers) ==
  With(Without(headers, {"transfer-encoding", "content-encoding"}),
       Header("content-type", <<rule.content_type>>))

\* Mutant: an API id the request already carries is kept.
StampApiIdIfAbsent(d, headers) ==
  IF "x-g2-api-id" \in DOMAIN headers THEN headers ELSE With(headers, Header("x-g2-api-id", <<d.api_id>>))

\* `ApiIdHeader`: the matched API's id replaces whatever the header held.
StampApiId(d, headers) == With(headers, Header("x-g2-api-id", <<d.api_id>>))

StripHopByHop(headers) ==
  Without(headers, HopByHop \cup IF "connection" \in DOMAIN headers
                                 THEN Range(headers["connection"]) ELSE {})

ApplyForwarded(headers, ip, host, tls) ==
  LET chain == IF "x-forwarded-for" \in DOMAIN headers THEN headers["x-forwarded-for"] ELSE <<>>
      fresh == With(Header("x-forwarded-proto", <<IF tls THEN "https" ELSE "http">>),
                    IF host = <<>> THEN <<>> ELSE Header("x-forwarded-host", host))
  IN With(fresh, With(headers, Header("x-forwarded-for", Append(chain, ip))))

\* `prepare_upstream_headers`, in the source's order.
PrepareUpstreamHeaders(d, headers, ip, tls) ==
  LET host == IF "host" \in DOMAIN headers THEN headers["host"] ELSE <<>>
      kept == Without(StripHopByHop(headers), IF d.preserve_host THEN {} ELSE {"host"})
      te == IF d.http2 /\ "te" \in DOMAIN headers /\ "trailers" \in Range(headers["te"])
            THEN Header("te", <<"trailers">>) ELSE <<>>
  IN With(ApplyForwarded(kept, ip, host, tls), te)

\* `join_paths`: one slash between the base and the tail, whatever the tail starts with.
JoinPaths(base, tail) ==
  LET text == {i \in DOMAIN tail : tail[i] # "/"}
      rest == IF text = {} THEN <<>> ELSE SubSeq(tail, Min(text), Len(tail))
  IN IF rest = <<>> THEN (IF base = <<>> THEN <<"/">> ELSE base) ELSE base \o <<"/">> \o rest

\* `upstream_path_and_query`: the first rewrite that matches, else the listen path stripped.
UpstreamPath(d, base, path) ==
  LET hits == {i \in DOMAIN d.url_rewrites : path \in d.url_rewrites[i].paths}
      tail == IF hits # {} THEN d.url_rewrites[Min(hits)].to
              ELSE IF d.strip THEN SubSeq(path, Len(ListenPrefix(d)) + 1, Len(path))
              ELSE path
  IN JoinPaths(base, tail)

UpstreamMethod(d, q) ==
  IF d.transform_method # None THEN CHOOSE m \in d.transform_method : TRUE ELSE q.method
=============================================================================
