------------------------------ MODULE Sessions ------------------------------
(***************************************************************************)
(* Key sessions and policies (g2-core session.rs and policy.rs).  A session  *)
(* is what a stored credential grants: an allowance (rate, quota), the APIs  *)
(* it may call, an expiry, and for basic and hmac auth the secret it is      *)
(* checked against.  Optional fields are sets of at most one value.          *)
(***************************************************************************)
EXTENDS ApiDefinitions

LimitOk(limit) == Positive({limit.max, limit.period})

GrantOk(grant) ==
  \A t \in grant.allowed_types \cup grant.restricted_types :
     ~Blank(t.name) /\ "" \notin t.fields

\* `KeySession::validate`.
SessionOk(s) ==
  /\ ~Blank(s.org_id)
  /\ \A limit \in s.rate \cup s.quota : LimitOk(limit)
  /\ "" \notin DOMAIN s.access /\ \A api \in DOMAIN s.access : GrantOk(s.access[api])
  /\ "" \notin s.basic_auth \cup s.hmac
  /\ Len(s.apply_policies) <= 1 /\ "" \notin Range(s.apply_policies)

\* `Policy::validate`.
PolicyOk(p) ==
  /\ ~Blank(p.policy_id) /\ ~Blank(p.name) /\ ~Blank(p.org_id)
  /\ \A limit \in p.rate \cup p.quota : LimitOk(limit)
  /\ "" \notin DOMAIN p.access

\* `KeySession::default`, the session a verified token's claims start from.
DefaultSession(org) ==
  [org_id |-> org, alias |-> None, rate |-> None, quota |-> None, expires_at |-> None,
   active |-> TRUE, access |-> <<>>, basic_auth |-> None, hmac |-> None,
   apply_policies |-> <<>>]

ApplyPolicy(s, p) == [s EXCEPT !.rate = p.rate, !.quota = p.quota, !.access = p.access]

IsExpired(s, now) == \E at \in s.expires_at : now >= at

AllowsApi(s, api) == DOMAIN s.access = {} \/ api \in DOMAIN s.access

\* Storage keys: the name spaces are disjoint by construction of the key text.
SessionKey(org, identity) == <<org, "apikey", identity>>
PolicyKey(org, id)        == <<org, "policy", id>>
RateKey(org, identity)    == <<org, "ratelimit", identity>>
QuotaKey(org, identity)   == <<org, "quota", identity>>
EndpointKey(org, scope, i) == <<org, "endpoint", scope, i>>
\* Mutant: versions of an API share their cache entries.
CacheKeyNoScope(org, scope, method, target) == <<org, "cache", method, target>>

CacheKey(org, scope, method, target) == <<org, "cache", scope, method, target>>
=============================================================================
