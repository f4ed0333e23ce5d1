--------------------------- MODULE Authentication ---------------------------
(***************************************************************************)
(* The credentialed auth modes (g2-middleware auth.rs and hmac.rs) as        *)
(* decisions: what a request must present, which stored session its          *)
(* credential names, and how the credential is proved against it.  Hashes    *)
(* are injective, a signature verifies exactly under the key, algorithm and   *)
(* text it was made with, and a token is the record of its claims.           *)
(***************************************************************************)
EXTENDS RequestPolicies

CONSTANTS JwtLeeway,   \* seconds past `exp` a token is still accepted (jsonwebtoken's default)
          EmptyText    \* an empty header, query or cookie value

StoredModes == {"auth_token", "mtls", "basic_auth", "hmac"}
TokenModes  == {"jwt", "oidc"}

\* `headers().get(name)`: the first value of a header, as an option.
HeaderValue(q, name) ==
  IF name \in DOMAIN q.headers /\ q.headers[name] # <<>> THEN Some(q.headers[name][1]) ELSE None

\* The values of the configured cookie: the first that is not empty.
CookieValue(q) ==
  LET held == {i \in DOMAIN q.headers["cookie"] : q.headers["cookie"][i] # EmptyText}
  IN IF "cookie" \in DOMAIN q.headers /\ held # {} THEN Some(q.headers["cookie"][Min(held)]) ELSE None

\* `extract_token`: the first configured carrier that holds a non-empty value.
\* Headers are those the request has when it reaches auth, below the pre hooks.
ExtractToken(a, q) ==
  LET carriers == <<HeaderValue(q, a.header)>>
                  \o IF a.mode = "auth_token"
                     THEN <<IF a.query_param = None THEN {} ELSE q.query_token,
                            IF a.cookie = None THEN {} ELSE CookieValue(q)>>
                     ELSE <<>>
      held == {i \in DOMAIN carriers : carriers[i] \ {EmptyText} # {}}
  IN IF held = {} THEN None ELSE carriers[Min(held)]

\* `parse_signature_header`: another scheme, a repeated parameter, an empty key
\* id or algorithm, or an empty header list is no credential at all.
SignatureParams(q) ==
  {s \in HeaderValue(q, "authorization") :
     /\ s.scheme = "signature" /\ ~s.duplicate /\ ~Blank(s.key_id) /\ ~Blank(s.algorithm)
     /\ s.headers # {<<>>} /\ s.decodes}

\* The signed headers default to `date`.
SignedHeaders(s) == IF s.headers = None THEN <<"date">> ELSE CHOOSE hs \in s.headers : TRUE

\* `build_signing_string`: None when a signed header is absent from the request.
SigningString(q, names) ==
  IF \A i \in DOMAIN names : names[i] = "(request-target)" \/ names[i] \in DOMAIN q.headers
  THEN Some([i \in DOMAIN names |-> IF names[i] = "(request-target)"
                                    THEN <<q.method, q.path>> ELSE q.headers[names[i]]])
  ELSE None

MacVerifies(s, algorithm, secret, text) ==
  s.mac = [algorithm |-> algorithm, secret |-> secret, text |-> text]

\* `extract_basic_credentials`: the password may be empty, the user name not.
BasicCredentials(q) ==
  {b \in HeaderValue(q, "authorization") : b.scheme = "basic" /\ ~Blank(b.user)}

\* What the mode reads from the request; None is answered 401.
Presented(a, q) ==
  CASE a.mode \in {"auth_token", "jwt", "oidc"} -> ExtractToken(a, q)
    [] a.mode = "basic_auth" -> BasicCredentials(q)
    [] a.mode = "mtls" -> q.cert
    [] a.mode = "hmac" -> SignatureParams(q)

\* `authenticate_hmac` before the storage lookup: algorithm, then freshness,
\* which only a signed date can prove, then the signing string.
HmacAdmissible(a, q, s, now) ==
  /\ s.algorithm \in Range(a.algorithms)
  /\ \A max \in a.skew :
        /\ "date" \in Range(SignedHeaders(s))
        /\ \E t \in HeaderValue(q, "date") : t - now <= max /\ now - t <= max
  /\ SigningString(q, SignedHeaders(s)) # None

\* The identity a stored credential is looked up under; each mode but
\* auth_token has a name space of its own.
Identity(a, cred) ==
  CASE a.mode = "auth_token" -> <<"raw", cred>>
    [] a.mode = "mtls" -> <<"mtls", cred>>
    [] a.mode = "basic_auth" -> <<"basic", cred.user>>
    [] a.mode = "hmac" -> <<"hmac", cred.key_id>>

\* The proof: a password or a signature under the session's own secret.  A
\* session without that secret never verifies, whatever the dummy would do.
Proved(a, q, cred, session) ==
  CASE a.mode \in {"auth_token", "mtls"} -> TRUE
    [] a.mode = "basic_auth" -> session.basic_auth = {cred.password}
    [] a.mode = "hmac" ->
         \E secret \in session.hmac, text \in SigningString(q, SignedHeaders(cred)) :
            MacVerifies(cred, cred.algorithm, secret, text)

\* A session that may still be used, before its policy and grants are looked at.
SessionLive(session, now) == session.active /\ ~IsExpired(session, now)

\* `verify_jwt_claims`: signature under the key, expiry, and for oidc issuer
\* and audience, each of which the token must carry.
ClaimsVerified(a, token, key, now) ==
  /\ token.key = key
  /\ \E exp \in token.exp : exp + JwtLeeway >= now
  /\ a.mode = "oidc" => token.iss = {a.issuer} /\ token.aud \cap a.audiences # {}

\* The ephemeral session of `authenticate_jwt` and `build_oidc_session`.
ClaimsSession(org, api, token) ==
  [DefaultSession(org) EXCEPT !.alias = token.sub, !.expires_at = token.exp,
     !.access = (api :> [allowed_types |-> {}, restricted_types |-> {}])]

\* The policy a token's client id maps to; an unmapped client id is refused.
MappedPolicy(a, token) ==
  {a.policy_map[c] : c \in token.client \cap DOMAIN a.policy_map}

NeedsMapping(a) == a.mode = "oidc" /\ DOMAIN a.policy_map # {}

\* `fetch_active_policy` on the record found under (org, id): the status it
\* answers with, or 0 when the policy may be applied.
PolicyVerdict(record, org, id) ==
  IF record = None THEN 403
  ELSE LET p == CHOOSE r \in record : TRUE
       IN IF p.corrupt \/ p.org_id # org \/ p.policy_id # id THEN 500
          ELSE IF ~p.active THEN 403 ELSE 0
=============================================================================
