--------------------------- MODULE MC_RequestPath ---------------------------
(* Configurations for RequestPath: each is a small deployment of one or two    *)
(* APIs that exercises a group of features, with the requests, upstream        *)
(* answers and admin edits that matter to them.                                *)
EXTENDS RequestPath

Api0 ==
  [api_id |-> "a", name |-> "a", org_id |-> "o", listen |-> <<"/", "a">>, target_url |-> "u",
   target_list |-> <<>>, strip |-> TRUE, preserve_host |-> FALSE, timeout_ms |-> 1, active |-> TRUE,
   auth |-> [mode |-> "keyless"], transform_headers |-> None, transform_body |-> None,
   url_rewrites |-> <<>>, transform_method |-> None, allow_paths |-> <<>>, block_paths |-> <<>>,
   ignore_auth_paths |-> <<>>, mocks |-> <<>>, limits |-> <<>>, cors |-> None, allow_ips |-> {},
   block_ips |-> {}, max_body |-> None, health |-> None, discovery |-> None, breaker |-> None,
   retries |-> 0, upgrades |-> FALSE, http2 |-> FALSE, cache |-> None, versioning |-> None,
   graphql |-> None, plugins |-> None]

In0 ==
  [path |-> <<"/", "a">>, method |-> "GET", headers |-> <<>>, ip |-> {"1.1.1.1"}, tls |-> FALSE,
   origin |-> None, request_method |-> None, request_headers |-> {}, version |-> None,
   declared |-> None, body |-> 0, query_token |-> None, cert |-> None]

Ok == [status |-> 200, headers |-> <<>>, size |-> 1, complete |-> TRUE]

World0 ==
  [defs |-> {Api0}, inputs |-> <<In0>>, answers |-> {Ok}, sessions |-> <<>>, policies |-> <<>>,
   edits |-> {}, key |-> "sk", spike |-> FALSE, horizon |-> 0]

Session0 == [DefaultSession("o") EXCEPT !.access = ("a" :> [allowed_types |-> {}, restricted_types |-> {}])]
Stored(identity, s) == SessionKey("o", identity) :> [corrupt |-> FALSE, session |-> s]
Policy0 ==
  [policy_id |-> "p", name |-> "p", org_id |-> "o", active |-> TRUE, corrupt |-> FALSE,
   rate |-> None, quota |-> None, access |-> Session0.access]
Limit(n) == {[max |-> n, period |-> 1]}
Rule(paths) == [pattern |-> "x", methods |-> {}, paths |-> paths]
A == <<"/", "a">>
AB == <<"/", "a", "/", "b">>

-----------------------------------------------------------------------------
(* Stored keys: tokens, metered sessions, policies, edits while in flight *)

TokenApi == [Api0 EXCEPT !.auth = [mode |-> "auth_token", header |-> "h", query_param |-> {"q"}, cookie |-> {"c"}],
                         !.ignore_auth_paths = <<Rule({AB})>>]
Metered == [Session0 EXCEPT !.rate = Limit(1), !.quota = Limit(2)]
Token(t) == [In0 EXCEPT !.headers = ("h" :> <<t>>)]
Cookie(t) == [In0 EXCEPT !.headers = ("cookie" :> <<EmptyText, t>>)]

Tokens ==
  [World0 EXCEPT !.defs = {TokenApi},
     !.inputs = <<Token("k1"), Token(EmptyText), [Token(EmptyText) EXCEPT !.query_token = {"k1"}],
                  Cookie("k1"), [In0 EXCEPT !.path = AB]>>,
     !.sessions = Stored(<<"raw", "k1">>, Metered),
     !.spike = TRUE]

Revocation ==
  [World0 EXCEPT !.defs = {TokenApi}, !.inputs = <<Token("k1"), Token("k2")>>,
     !.sessions = Stored(<<"raw", "k1">>, [Session0 EXCEPT !.expires_at = {1}])
                  @@ Stored(<<"raw", "k2">>, [Session0 EXCEPT !.active = FALSE]),
     !.edits = {[kind |-> "delete_key", org_id |-> "o", identity |-> <<"raw", "k1">>],
                [kind |-> "put_key", session |-> Session0, identity |-> <<"raw", "k2">>],
                [kind |-> "put_key", session |-> [Session0 EXCEPT !.active = FALSE], identity |-> <<"raw", "k2">>]},
     !.horizon = 2]

\* Pre hooks below which auth finds another credential than the client sent:
\* one API's hook injects a key, the other's takes the header away.
HookOut(kind, status, set, remove) ==
  [name |-> "w", path |-> "w", timeout_ms |-> None, memory |-> None,
   out |-> [kind |-> kind, status |-> status, set |-> set, remove |-> remove]]
Pre(hook) == {[pre |-> <<hook>>, post |-> <<>>]}

Injected ==
  [World0 EXCEPT !.defs = {[TokenApi EXCEPT !.plugins = Pre(HookOut("continue", 0, "h" :> <<"k1">>, {}))],
        [TokenApi EXCEPT !.api_id = "b", !.listen = <<"/", "b">>,
                         !.plugins = Pre(HookOut("continue", 0, <<>>, {"h"}))]},
     !.inputs = LET b(q) == [q EXCEPT !.path = <<"/", "b">>]
                IN <<In0, Token("k2"), b(Token("k1")), b([Token("k1") EXCEPT !.query_token = {"k3"}])>>,
     !.sessions = Stored(<<"raw", "k1">>, [Session0 EXCEPT !.expires_at = {1}])
                  @@ Stored(<<"raw", "k2">>, [Session0 EXCEPT !.active = FALSE])
                  @@ Stored(<<"raw", "k3">>, [Session0 EXCEPT !.access = ("b" :> Session0.access["a"])]),
     !.edits = {[kind |-> "delete_key", org_id |-> "o", identity |-> <<"raw", "k1">>],
                [kind |-> "put_key", session |-> Session0, identity |-> <<"raw", "k2">>]},
     !.horizon = 1]

Policied ==
  [World0 EXCEPT !.defs = {TokenApi}, !.inputs = <<Token("k1"), Token("k2"), Token("k3"), Token("k4")>>,
     !.sessions = Stored(<<"raw", "k1">>, [Session0 EXCEPT !.apply_policies = <<"p">>])
                  @@ Stored(<<"raw", "k2">>, [Session0 EXCEPT !.apply_policies = <<"p", "p">>])
                  @@ Stored(<<"raw", "k3">>, [Session0 EXCEPT !.access = ("b" :> Session0.access["a"])])
                  @@ (SessionKey("o", <<"raw", "k4">>) :> [corrupt |-> TRUE, session |-> Session0]),
     !.policies = PolicyKey("o", "p") :> [Policy0 EXCEPT !.quota = Limit(1)],
     !.edits = {[kind |-> "delete_policy", org_id |-> "o", id |-> "p"],
                [kind |-> "put_policy", policy |-> Policy0],
                [kind |-> "put_policy", policy |-> [Policy0 EXCEPT !.access = ("b" :> Session0.access["a"])]],
                [kind |-> "put_policy", policy |-> [Policy0 EXCEPT !.active = FALSE]]}]

BrokenPolicy ==
  [Policied EXCEPT !.edits = {}, !.policies = PolicyKey("o", "p") :> [Policy0 EXCEPT !.policy_id = "q"]]

-----------------------------------------------------------------------------
(* The other auth modes *)

Basic ==
  [World0 EXCEPT !.defs = {[Api0 EXCEPT !.auth = [mode |-> "basic_auth", realm |-> "r"]]},
     !.inputs = LET user(u, pw) == [In0 EXCEPT !.headers =
                      ("authorization" :> <<[scheme |-> "basic", user |-> u, password |-> pw]>>)]
                IN <<user("u", "pw"), user("u", "no"), user("v", "pw"), In0>>,
     !.sessions = Stored(<<"basic", "u">>, [Session0 EXCEPT !.basic_auth = {"pw"}])
                  @@ Stored(<<"basic", "v">>, Session0)]

Signed(alg, secret, at, names) ==
  LET q == [In0 EXCEPT !.headers = ("date" :> <<at>>)]
      text == CHOOSE t \in SigningString(q, names) : TRUE
      signature == [scheme |-> "signature", duplicate |-> FALSE, decodes |-> TRUE, key_id |-> "k",
                    algorithm |-> alg, headers |-> {names},
                    mac |-> [algorithm |-> alg, secret |-> secret, text |-> text]]
  IN [q EXCEPT !.headers = @ @@ ("authorization" :> <<signature>>)]

Hmac ==
  [World0 EXCEPT !.defs = {[Api0 EXCEPT !.auth = [mode |-> "hmac", algorithms |-> <<"sha256">>, skew |-> {1}]]},
     !.inputs = <<Signed("sha256", "s", 0, <<"(request-target)", "date">>), Signed("sha1", "s", 0, <<"date">>),
                  Signed("sha256", "no", 0, <<"date">>), Signed("sha256", "s", 0, <<"(request-target)">>),
                  Signed("sha256", "s", 2, <<"date">>)>>,
     !.sessions = Stored(<<"hmac", "k">>, [Session0 EXCEPT !.hmac = {"s"}]),
     !.horizon = 2]

\* A hook rewrites a signed header: only what was signed as it arrives verifies.
Redated ==
  [Hmac EXCEPT !.defs = {[d EXCEPT !.plugins = Pre(HookOut("continue", 0, "date" :> <<1>>, {}))] : d \in @},
     !.inputs = <<Signed("sha256", "s", 1, <<"date">>), Signed("sha256", "s", 0, <<"date">>)>>]

Claims(key, exp) == [key |-> key, exp |-> exp, iss |-> {"i"}, aud |-> {"w"}, sub |-> {"s"}, client |-> {"c"}]
Bearer(t) == [In0 EXCEPT !.headers = ("h" :> <<t>>)]

Jwt ==
  [World0 EXCEPT !.defs = {[Api0 EXCEPT !.auth = [mode |-> "jwt", header |-> "h", method |-> "hs256",
        identity_claim |-> "sub", secret |-> {"x"}, pem |-> None, jwks_url |-> None, refresh |-> None]]},
     !.inputs = <<Bearer(Claims("sk", {1})), Bearer(Claims("other", {1})), Bearer(Claims("sk", {})),
                  Bearer([Claims("sk", {1}) EXCEPT !.sub = {}])>>,
     !.horizon = 3]

Oidc ==
  [World0 EXCEPT !.defs = {[Api0 EXCEPT !.auth = [mode |-> "oidc", header |-> "h", issuer |-> "i",
        audiences |-> {"w"}, identity_claim |-> "sub", policy_claim |-> "azp", jwks_url |-> None,
        refresh |-> None, policy_map |-> ("c" :> "p")]]},
     !.inputs = <<Bearer(Claims("sk", {5})), Bearer([Claims("sk", {5}) EXCEPT !.iss = {}]),
                  Bearer([Claims("sk", {5}) EXCEPT !.aud = {"z"}]), Bearer([Claims("sk", {5}) EXCEPT !.client = {"d"}])>>,
     !.policies = PolicyKey("o", "p") :> [Policy0 EXCEPT !.rate = Limit(1)]]

Mtls ==
  [World0 EXCEPT !.defs = {[Api0 EXCEPT !.auth = [mode |-> "mtls"]]},
     !.inputs = <<[In0 EXCEPT !.cert = {"f"}], [In0 EXCEPT !.cert = {"g"}], In0>>,
     !.sessions = Stored(<<"mtls", "f">>, Session0)]

-----------------------------------------------------------------------------
(* Policies of the chain, versions, transforms, cache, upstream headers *)

Cached == {[ttl_secs |-> 1, max_body_bytes |-> 1]}

Versions ==
  [World0 EXCEPT !.defs = {[Api0 EXCEPT !.cache = Cached, !.versioning =
        {[location |-> "header", key |-> "v", default |-> {"v1"},
          versions |-> ("v1" :> [expires_at |-> {2}, set |-> <<>>])
                       @@ ("v2" :> [expires_at |-> None, set |-> ("target_url" :> "u2")])]}]},
     !.inputs = <<In0, [In0 EXCEPT !.version = {"v2"}], [In0 EXCEPT !.version = {"v3"}]>>,
     !.horizon = 2]

Caching ==
  [World0 EXCEPT !.defs = {[Api0 EXCEPT !.cache = Cached, !.strip = FALSE]},
     !.inputs = <<In0, [In0 EXCEPT !.path = AB], [In0 EXCEPT !.method = "HEAD"], [In0 EXCEPT !.method = "POST"]>>,
     !.answers = {Ok, [Ok EXCEPT !.complete = FALSE], [Ok EXCEPT !.headers = ("set-cookie" :> <<"c">>)],
                  [Ok EXCEPT !.size = 2], [Ok EXCEPT !.status = 404]}]

Policing ==
  [World0 EXCEPT !.defs = {[Api0 EXCEPT !.block_paths = <<Rule({AB})>>, !.max_body = {1}, !.breaker = {[failure_threshold |-> 1, cooldown_ms |-> 1]},
        !.block_ips = {"2.2.2.2"}, !.mocks = <<Rule({<<"/", "a", "/", "m">>}) @@ [status |-> 201, headers |-> <<>>, size |-> 1]>>,
        !.limits = <<Rule({A}) @@ [requests |-> 1, per_seconds |-> 1]>>,
        !.cors = {[origins |-> {"w"}, credentials |-> TRUE, methods |-> {"GET"}, allowed_headers |-> {},
                   exposed_headers |-> {}, passthrough |-> FALSE]}],
        [Api0 EXCEPT !.api_id = "root", !.listen = <<"/">>, !.cors =
           {[origins |-> {"*"}, credentials |-> FALSE, methods |-> {"GET"}, allowed_headers |-> {},
             exposed_headers |-> {}, passthrough |-> TRUE]}]},
     !.inputs = LET q == [In0 EXCEPT !.origin = {"w"}]
                IN <<q, [q EXCEPT !.path = AB], [q EXCEPT !.path = <<"/", "a", "/", "m">>],
                     [q EXCEPT !.declared = {2}], [q EXCEPT !.body = 2], [q EXCEPT !.ip = {"2.2.2.2"}],
                     [q EXCEPT !.method = "OPTIONS", !.request_method = {"GET"}],
                     [q EXCEPT !.method = "OPTIONS", !.request_method = {"GET"}, !.path = <<"/", "x">>],
                     [q EXCEPT !.origin = {"z"}], [q EXCEPT !.path = <<"/", "hello">>]>>]

\* Rejections, hooks, an upstream with CORS headers of its own and a cache, for
\* pages of two allowed origins and one that is not.
CrossOrigin ==
  [World0 EXCEPT !.defs = {[TokenApi EXCEPT !.cache = Cached,
        !.cors = {[origins |-> {"w", "y"}, credentials |-> TRUE, methods |-> {"GET"}, allowed_headers |-> {"x"},
                   exposed_headers |-> {"e"}, passthrough |-> FALSE]}],
        [Api0 EXCEPT !.api_id = "b", !.listen = <<"/", "b">>,
           !.plugins = Pre(HookOut("respond", 403, "access-control-allow-origin" :> <<"z">>, {})),
           !.cors = {[origins |-> {"*"}, credentials |-> FALSE, methods |-> {"GET"}, allowed_headers |-> {},
                      exposed_headers |-> {}, passthrough |-> FALSE]}]},
     !.inputs = LET from(q, o) == [q EXCEPT !.origin = {o}]
                    preflight(hs) == [In0 EXCEPT !.origin = {"w"}, !.method = "OPTIONS",
                                                 !.request_method = {"GET"}, !.request_headers = hs]
                IN <<from(Token("k1"), "w"), from(Token("k1"), "y"), from(Token("k2"), "w"), from(In0, "z"),
                     from([In0 EXCEPT !.path = <<"/", "b">>], "w"), preflight({"x"}), preflight({"v"})>>,
     !.answers = {[Ok EXCEPT !.headers = ("access-control-allow-origin" :> <<"z">>) @@ ("vary" :> <<"accept">>)]},
     !.sessions = Stored(<<"raw", "k1">>, [Session0 EXCEPT !.rate = Limit(2)])]

NoRoute == [World0 EXCEPT !.inputs = <<[In0 EXCEPT !.path = <<"/", "ab">>], In0>>]

Hook(kind, status) == HookOut(kind, status, "x-g2-api-id" :> <<"other">>, {"x-r"})

Transforms ==
  [World0 EXCEPT !.defs = {[Api0 EXCEPT !.cache = {[ttl_secs |-> 1, max_body_bytes |-> 2]}, !.http2 = TRUE,
        !.transform_headers = {[request |-> [add |-> ("x-g2-api-id" :> <<"other">>), remove |-> {"x-r"}],
                                response |-> [add |-> ("x-a" :> <<"1">>), remove |-> {"server"}]]},
        !.transform_body = {[request |-> <<Rule({A}) @@ [template |-> "t", content_type |-> "json"]>>,
                             response |-> <<Rule({A}) @@ [template |-> "t", content_type |-> "json"]>>, max_response |-> 1]},
        !.url_rewrites = <<[pattern |-> "x", rewrite |-> "y", paths |-> {AB}, to |-> <<"/", "c">>]>>,
        !.transform_method = {"POST"}, !.max_body = {1},
        !.plugins = {[pre |-> <<>>, post |-> <<Hook("continue", 0)>>]}],
        [Api0 EXCEPT !.api_id = "b", !.listen = <<"/", "b">>,
           !.transform_body = {[request |-> <<Rule({<<"/", "b">>}) @@ [template |-> "t", content_type |-> "json"]>>,
                                response |-> <<>>, max_response |-> 1]}]},
     !.inputs = LET q == [In0 EXCEPT !.headers = ("te" :> <<"trailers">>) @@ ("x-forwarded-for" :> <<"9.9.9.9">>)]
                IN <<q, [q EXCEPT !.path = AB], [q EXCEPT !.body = 2], [In0 EXCEPT !.path = <<"/", "b">>, !.body = 2]>>,
     !.answers = {[Ok EXCEPT !.headers = ("connection" :> <<"x-h">>) @@ ("server" :> <<"s">>) @@ ("x-h" :> <<"h">>)],
                  [Ok EXCEPT !.size = 2]},
     !.horizon = 1]

Upgrades ==
  [World0 EXCEPT !.defs = {[Api0 EXCEPT !.upgrades = TRUE, !.preserve_host = TRUE,
        !.plugins = {[pre |-> <<Hook("continue", 0), Hook("respond", 202)>>, post |-> <<>>]}],
        [Api0 EXCEPT !.api_id = "b", !.listen = <<"/", "b">>, !.upgrades = TRUE],
        [Api0 EXCEPT !.api_id = "c", !.listen = <<"/", "c">>,
           !.plugins = {[pre |-> <<>>, post |-> <<Hook("respond", 999)>>]}],
        [Api0 EXCEPT !.api_id = "d", !.listen = <<"/", "d">>, !.active = FALSE]},
     !.inputs = LET up == [In0 EXCEPT !.headers = ("connection" :> <<"upgrade">>) @@ ("upgrade" :> <<"ws">>)
                                                   @@ ("host" :> <<"h">>)]
                IN <<In0, [up EXCEPT !.path = <<"/", "b">>], [In0 EXCEPT !.path = <<"/", "b">>, !.ip = {}],
                     [In0 EXCEPT !.path = <<"/", "c">>], [In0 EXCEPT !.path = <<"/", "d">>]>>,
     !.answers = {[Ok EXCEPT !.status = 101, !.headers = ("upgrade" :> <<"ws">>)], Ok}]

\* Definitions `validate` refuses: no table is built and nothing is served.
Invalid(d) == [World0 EXCEPT !.defs = {d}, !.inputs = <<[In0 EXCEPT !.origin = {"w"}]>>]

BadCors ==
  Invalid([Api0 EXCEPT !.cors = {[origins |-> {"*"}, credentials |-> TRUE, methods |-> {"GET"},
             allowed_headers |-> {}, exposed_headers |-> {}, passthrough |-> FALSE]}])
BadHeaders ==
  Invalid([Api0 EXCEPT !.transform_headers =
             {[request |-> [add |-> <<>>, remove |-> {}],
               response |-> [add |-> ("connection" :> <<"close">>), remove |-> {}]]}])

MCWorlds ==
  {Tokens, Revocation, Injected, CrossOrigin, Redated, Policied, BrokenPolicy, Basic, Hmac, Jwt, Oidc, Mtls, Versions, Caching,
    Policing, NoRoute, Transforms, Upgrades, BadCors, BadHeaders}

MCHopByHop == {"connection", "te", "transfer-encoding", "upgrade"}
MCMethods == {"GET", "HEAD", "POST", "OPTIONS"}
MCPluginMemory == 1..2
=============================================================================
