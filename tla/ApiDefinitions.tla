--------------------------- MODULE ApiDefinitions ---------------------------
(***************************************************************************)
(* API definitions as data, and what `ApiDefinition::validate` accepts      *)
(* (g2-core).  An optional field is a set of at most one value; a text is a  *)
(* string of which only three things matter: whether it is empty, whether    *)
(* the parser of its field accepts it (Malformed collects the texts that no  *)
(* parser accepts), and whether two texts are equal.  A regular expression   *)
(* is a record with its text and the set of paths it matches.                *)
(***************************************************************************)
EXTENDS GraphqlDocuments, Composition

CONSTANTS Malformed,        \* texts that are no URL, header, regex, template...
          HopByHop,         \* header names of `HOP_BY_HOP`
          Methods,          \* the standard methods of `TRANSFORM_METHODS`
          MaxRetries,       \* 10 in the source
          MaxPluginTimeout, \* MAX_TIMEOUT_MS
          PluginMemory      \* MIN_MEMORY_BYTES..MAX_MEMORY_BYTES

Blank(text) == text = ""
Parses(text) == text \notin Malformed \cup {""}
None == {}
Some(v) == {v}

Positive(ns) == \A n \in ns : n > 0

\* `check_target_url`: an absolute http(s) URL with a host.
TargetUrlOk(url) == Parses(url)

HealthCheckOk(h) ==
  /\ Parses(h.path)
  /\ Positive({h.interval_ms, h.timeout_ms, h.unhealthy, h.healthy})

ServiceDiscoveryOk(s) ==
  /\ TargetUrlOk(s.endpoint)
  /\ s.scheme \in {"http", "https"}
  /\ Positive({s.interval_ms, s.timeout_ms})
  /\ \A p \in {s.data_path} \cup s.port_data_path \cup s.parent_data_path :
        p \notin Malformed

CircuitBreakerOk(b) == Positive({b.failure_threshold, b.cooldown_ms})

CacheOk(c) == Positive({c.ttl_secs, c.max_body_bytes})

JwtOk(a) ==
  /\ Parses(a.header) /\ ~Blank(a.identity_claim)
  /\ a.refresh # None => a.jwks_url # None
  /\ Positive(a.refresh)
  /\ \A u \in a.jwks_url : Parses(u)
  /\ CASE a.method = "hs256" -> /\ \E s \in a.secret : ~Blank(s)
                                /\ a.pem = None /\ a.jwks_url = None
       [] a.method = "rs256" -> /\ (\E p \in a.pem : ~Blank(p)) # (a.jwks_url # None)
                                /\ a.secret = None

OidcOk(a) ==
  /\ Parses(a.header) /\ ~Blank(a.identity_claim) /\ ~Blank(a.policy_claim)
  /\ Parses(a.issuer)
  /\ a.audiences # {} /\ "" \notin a.audiences
  /\ \A u \in a.jwks_url : Parses(u)
  /\ Positive(a.refresh)
  /\ "" \notin (DOMAIN a.policy_map) \cup Range(a.policy_map)

\* `AuthConfig::validate`, one disjunct per mode.
AuthOk(a) ==
  \/ a.mode \in {"keyless", "mtls"}
  \/ a.mode = "auth_token" /\ Parses(a.header) /\ "" \notin a.query_param \cup a.cookie
  \/ a.mode = "jwt" /\ JwtOk(a)
  \/ a.mode = "oidc" /\ OidcOk(a)
  \/ a.mode = "basic_auth" /\ Parses(a.realm)
  \/ /\ a.mode = "hmac"
     /\ a.algorithms # <<>> /\ IsInjective(a.algorithms)
     /\ Positive(a.skew)

\* `PathRule`, `MockResponse` and `EndpointRateLimit` share a pattern and methods.
PatternOk(rule) == rule.pattern \notin Malformed /\ rule.methods \subseteq Methods

\* Headers a definition may set: well-formed, and never hop-by-hop.
HeadersOk(add) ==
  \A h \in DOMAIN add : Parses(h) /\ h \notin HopByHop /\ add[h] \notin Malformed

MockOk(mock) ==
  /\ PatternOk(mock)
  /\ mock.status \in 100..599
  /\ HeadersOk(mock.headers)

EndpointLimitOk(limit) == PatternOk(limit) /\ Positive({limit.requests, limit.per_seconds})

\* `CorsConfig::validate`.
CorsOk(c) ==
  /\ c.origins # {}
  /\ "*" \in c.origins => Cardinality(c.origins) = 1
  /\ ~("*" \in c.origins /\ c.credentials)
  /\ \A o \in c.origins \ {"*"} : Parses(o)
  /\ c.methods # {} /\ c.methods \subseteq Methods
  /\ \A h \in c.allowed_headers \cup c.exposed_headers : Parses(h)

IpListOk(entries) == \A e \in entries : Parses(e)

HeaderTransformOk(t) ==
  /\ HeadersOk(t.add)
  /\ \A h \in t.remove : Parses(h)

BodyRuleOk(rule) ==
  PatternOk(rule) /\ Parses(rule.template) /\ rule.content_type \notin Malformed

BodyTransformsOk(t) ==
  /\ t.request \o t.response # <<>>
  /\ t.max_response > 0
  /\ \A rule \in Range(t.request \o t.response) : BodyRuleOk(rule)

RewriteOk(rule) == rule.pattern \notin Malformed /\ Parses(rule.rewrite)

PluginOk(p) ==
  /\ ~Blank(p.name) /\ Parses(p.path)
  /\ \A ms \in p.timeout_ms : ms \in 1..MaxPluginTimeout
  /\ p.memory \subseteq PluginMemory

PluginsOk(p) ==
  /\ p.pre \o p.post # <<>>
  /\ \A plugin \in Range(p.pre \o p.post) : PluginOk(plugin)

\* The data source of a root field in udg mode, REST or GraphQL.
DataSourceOk(s) ==
  /\ s.kind = "rest" => s.method \in Methods
  /\ Parses(s.url) /\ s.body \cap Malformed = {}
  /\ HeadersOk(s.headers)
  /\ Positive(s.timeout_ms \cup s.max_bytes)

\* `validate_data_sources`: every root field has its source, and no other has.
DataSourcesOk(g, schema) ==
  /\ DOMAIN g.data_sources # {}
  /\ DOMAIN g.data_sources = {f \in schema.fields : f[1] \in RootTypes}
  /\ \A at \in DOMAIN g.data_sources : DataSourceOk(g.data_sources[at])

SubgraphConfigOk(s) ==
  /\ ~Blank(s.name) /\ Parses(s.url)
  /\ HeadersOk(s.headers)
  /\ Positive(s.timeout_ms \cup s.max_bytes)

SchemaSyncOk(s) ==
  /\ Positive({s.interval_ms, s.timeout_ms})
  /\ \A u \in s.url : Parses(u)
  /\ HeadersOk(s.headers)

\* The composition inputs of `graphql.supergraph`.
Subgraphs(g) == IF g.supergraph = None THEN <<>> ELSE CHOOSE s \in g.supergraph : TRUE

\* `effective_schema`, where it succeeds.
EffectiveSchema(g) ==
  CASE g.mode = "supergraph" -> ComposedSchema(Subgraphs(g))
    [] g.mode = "subgraph"   -> AugmentedSchema(g.schema)
    [] OTHER -> g.schema

EffectiveSchemaOk(g) ==
  IF g.mode = "supergraph"
  THEN /\ Blank(g.schema.sdl[2])
       /\ Subgraphs(g) # <<>> /\ \A s \in Range(Subgraphs(g)) : SubgraphConfigOk(s)
       /\ Composes(Subgraphs(g))
  ELSE ~Blank(g.schema.sdl[2]) /\ g.schema.compiles

SubscriptionsOn(g) == \E s \in g.subscriptions : s.enabled

\* `PersistedQuery::validate`: a REST endpoint over one operation, which may
\* read its own path parameters and any header.
PersistedOk(g, p, schema) ==
  /\ p.method \in Methods /\ Parses(p.path)
  /\ ValidAgainst(schema, p.doc)
  /\ SelectedOp(p.doc, p.op) # {}
  /\ \A t \in Range(p.vars) : t[1] = "path" => t[2] \in p.params
  /\ g.mode \in {"udg", "supergraph"}
       => \A op \in SelectedOp(p.doc, p.op) : p.doc.ops[op].kind # "subscription"
  /\ p.path \notin g.playground

\* `GraphQlConfig::validate`.
GraphqlOk(g) ==
  LET schema == EffectiveSchema(g)
  IN /\ EffectiveSchemaOk(g)
     /\ Positive(g.max_query_depth)
     /\ \A c \in g.cache : CacheOk(c)
     /\ g.supergraph # None => g.mode = "supergraph"
     /\ DOMAIN g.data_sources # {} => g.mode = "udg"
     /\ g.mode \in {"udg", "supergraph"} => g.schema_sync = None /\ ~SubscriptionsOn(g)
     /\ g.mode = "udg" => /\ DataSourcesOk(g, schema)
                          /\ g.cache # None => \A s \in Range(g.data_sources) : ~s.reads_g2
     /\ \A path \in g.playground : Parses(path)
     /\ \A s \in g.schema_sync : SchemaSyncOk(s)
     /\ \A s \in g.subscriptions : Positive(s.max_bytes)
     /\ SubscriptionsOn(g) => "subscription" \in schema.roots
     /\ \A p \in Range(g.persisted) : PersistedOk(g, p, schema)

GraphqlSubscriptions(d) == \E g \in d.graphql : g.enabled /\ SubscriptionsOn(g)

\* `ApiDefinition::validate` without the versioning block, which it checks last.
UnversionedOk(d) ==
  /\ ~Blank(d.api_id) /\ ~Blank(d.name) /\ ~Blank(d.org_id)
  /\ d.listen # <<>> /\ Head(d.listen) = "/"
  /\ d.timeout_ms > 0
  /\ TargetUrlOk(d.target_url) /\ \A u \in Range(d.target_list) : TargetUrlOk(u)
  /\ AuthOk(d.auth)
  /\ \A t \in d.transform_headers : HeaderTransformOk(t.request) /\ HeaderTransformOk(t.response)
  /\ \A t \in d.transform_body : BodyTransformsOk(t)
  /\ \A r \in Range(d.url_rewrites) : RewriteOk(r)
  /\ d.transform_method \subseteq Methods
  /\ \A r \in Range(d.allow_paths \o d.block_paths \o d.ignore_auth_paths) : PatternOk(r)
  /\ \A r \in Range(d.mocks) : MockOk(r)
  /\ \A r \in Range(d.limits) : EndpointLimitOk(r)
  /\ \A c \in d.cors : CorsOk(c)
  /\ IpListOk(d.allow_ips) /\ IpListOk(d.block_ips)
  /\ Positive(d.max_body)
  /\ \A h \in d.health : HealthCheckOk(h)
  /\ \A s \in d.discovery : ServiceDiscoveryOk(s)
  /\ \A b \in d.breaker : CircuitBreakerOk(b)
  /\ d.retries <= MaxRetries
  /\ ~(d.http2 /\ (d.upgrades \/ GraphqlSubscriptions(d)))
  /\ \A c \in d.cache : CacheOk(c)
  /\ \A g \in d.graphql : GraphqlOk(g)
  /\ \A p \in d.plugins : PluginsOk(p)

\* `VersioningConfig::apply`: the overrides present replace the base's fields.
Apply(base, name) ==
  LET v == CHOOSE c \in base.versioning : TRUE
      fields == DOMAIN v.versions[name].set
  IN [f \in DOMAIN base |-> IF f = "versioning" THEN None
                            ELSE IF f \in fields THEN v.versions[name].set[f]
                            ELSE base[f]]

VersioningOk(base, v) ==
  /\ IF v.location = "header" THEN Parses(v.key) ELSE ~Blank(v.key)
  /\ DOMAIN v.versions # {} /\ "" \notin DOMAIN v.versions
  /\ v.default \subseteq DOMAIN v.versions
  /\ \A name \in DOMAIN v.versions :
        /\ "target_url" \in DOMAIN v.versions[name].set => Apply(base, name).target_list = <<>>
        /\ UnversionedOk(Apply(base, name))

Validate(d) == UnversionedOk(d) /\ \A v \in d.versioning : VersioningOk(d, v)
=============================================================================
