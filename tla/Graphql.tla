------------------------------- MODULE Graphql ------------------------------
(***************************************************************************)
(* The GraphQL layer of one API (g2-middleware graphql.rs, graphql_cache.rs, *)
(* graphql_udg.rs, graphql_ws.rs) over the schema leaf of SchemaSync: what a *)
(* request goes through between authentication above it and the forwarder    *)
(* below, every await a step of its own.                                     *)
(*                                                                         *)
(* A request is [pc, call, state, doc, op, vars, key, todo, got, out, vocab, *)
(* ops]:                                                                    *)
(*   pc     "idle", "body", "lookup", "run", "fields", "streaming",          *)
(*          "handshake", "tunnel", "done"                                    *)
(*   call   what the client sent: [method, path, body, doc, op, vars, grants,*)
(*          headers, params, offers]                                         *)
(*   state  the schema state it loaded when it arrived                       *)
(*   doc, op, vars  the operation it runs, with its variables                *)
(*   key    its cache key, if it may be cached                               *)
(*   todo   root fields not yet fetched, in order; got what they gave        *)
(*   out    the response: [by, status, answer]                               *)
(*   vocab  the message vocabulary of its tunnel                             *)
(*   ops    the operations a tunnel let through, with the schema then served *)
(***************************************************************************)
EXTENDS ApiDefinitions, SchemaSync

CONSTANTS
  Requests,
  SupergraphOutcomes(_, _, _)  \* what fetching one root field of a supergraph may
                               \* give, by configuration, request and response key:
                               \* a set of [key, errors, failed, cells] (see Supergraph)

\* The documents that reach one API: sent, configured, or over a tunnel.
Documents(a) ==
  {c.doc : c \in a.calls} \cup {p.doc : p \in Range(a.persisted)} \cup UNION {m.doc : m \in a.messages}

\* A text is the sequence of its lines.
Lined(text) == text \in Seq(Range(text))

\* What every configuration and its clients' input are: texts have lines,
\* parsing depends on the text alone, a body gives a query or one of three
\* errors, depth limits are numbers.
ASSUME ApisAssumption ==
  \A a \in Apis :
    /\ DOMAIN a.schema = {"sdl", "compiles", "entities", "fields", "roots"}
    /\ DOMAIN a.persisted = 1..Len(a.persisted) /\ Len(a.persisted) \in Nat
    /\ \A d \in Documents(a) : WellFormed(d)
    /\ \A d \in Documents(a) : Lined(d.text)
    /\ \A d, e \in Documents(a) : d.text = e.text => d = e
    /\ \A c \in a.calls : Lined(CanonicalVariables(c.vars))
    /\ \A c \in a.calls : c.body \in {"too_large", "unreadable", "missing", "query"}
    /\ a.max_query_depth \subseteq Int
    /\ \A g \in UNION {c.grants : c \in a.calls} : g.max_query_depth \subseteq Int

VARIABLES reqs,    \* Requests -> the record above
          cache,   \* the entries of the shared storage: a set of [key, answer]
          writes   \* cache writes spawned and not yet done

requestVars == <<reqs, cache, writes>>
vars == <<syncVars, requestVars>>

Fresh == [pc |-> "idle", call |-> {}, state |-> {}, doc |-> {}, op |-> {}, vars |-> NoVars,
          key |-> {}, todo |-> <<>>, got |-> {}, out |-> {}, vocab |-> "",
          ops |-> {}]

Init ==
  /\ api \in {a \in Apis : GraphqlOk(a)}
  /\ SyncInit(EffectiveSchema(api))
  /\ reqs = [r \in Requests |-> Fresh]
  /\ cache = {} /\ writes = {}

Set(r, new) == reqs' = [reqs EXCEPT ![r] = new]

\* A response the gateway makes up itself.
Answer(req, code) == [req EXCEPT !.pc = "done", !.out = {[by |-> "gateway", status |-> code]}]

CallOf(req)  == CHOOSE c \in req.call : TRUE
StateOf(req) == CHOOSE s \in req.state : TRUE
DocOf(req)   == CHOOSE d \in req.doc : TRUE
OutOf(req)   == CHOOSE o \in req.out : TRUE

GatewayExecuted == api.mode \in {"udg", "supergraph"}
OpKind(doc, op) == {doc.ops[o].kind : o \in SelectedOp(doc, op)}

-----------------------------------------------------------------------------
(* From the query to the cache.                                            *)

\* Mutant: the key leaves out the operation the request selects.
KeyWithoutOp(sdl, op, text, variables) == <<sdl, text \o variables>>

\* `GraphQlCache::key`: four strings joined by newlines.  The first two hold
\* none; the text and the variables may, and what joins them is a newline too.
GraphqlKey(sdl, op, text, variables) == <<sdl, op, text \o variables>>

\* The operation passed every gate: look it up if it is a query and the API
\* has a cache.
Admit(req, doc, op, variables) ==
  LET key == IF api.cache # None /\ OpKind(doc, op) = {"query"}
             THEN {GraphqlKey(StateOf(req).schema.sdl, op, doc.text, CanonicalVariables(variables))}
             ELSE {}
  IN [req EXCEPT !.doc = {doc}, !.op = op, !.vars = variables, !.key = key,
                 !.pc = IF key = {} THEN "run" ELSE "lookup"]

\* A plain request: `extract_query`, validation, and the policing of what it asks.
Plain(req) ==
  LET c == CallOf(req)
      doc == c.doc
      schema == StateOf(req).schema
  IN CASE c.body = "too_large" -> Answer(req, 413)
       [] c.body \in {"unreadable", "missing"} -> Answer(req, 400)
       [] c.body = "query" ->
            IF ~ValidAgainst(schema, doc) \/ OpKind(doc, c.op) = {"subscription"}
            THEN Answer(req, 400)
            ELSE IF Enforce(api, c.grants, doc) # {}
            THEN Answer(req, CHOOSE s \in Enforce(api, c.grants, doc) : TRUE)
            ELSE Admit(req, doc, c.op, c.vars)

\* `substitute_variables`: path parameters, headers (null when absent), constants.
Substituted(p, c) ==
  LET value(t) == CASE t[1] = "path"   -> c.params[t[2]]
                    [] t[1] = "header" -> IF t[2] \in DOMAIN c.headers THEN c.headers[t[2]] ELSE "null"
                    [] t[1] = "const"  -> t[2]
  IN IF p.vars = <<>> THEN NoVars
     ELSE [form |-> "object", content |-> [v \in DOMAIN p.vars |-> value(p.vars[v])]]

\* A persisted endpoint: its document rides the schema state, same index.
Persisted(req, index) ==
  LET p == api.persisted[index]
      doc == StateOf(req).docs[index]
      refusal == Enforce(api, CallOf(req).grants, doc)
  IN IF refusal # {} THEN Answer(req, CHOOSE s \in refusal : TRUE)
     ELSE Admit(req, doc, p.op, Substituted(p, CallOf(req)))

\* The subprotocols `offers_known_protocol` knows.
KnownProtocols == {"graphql-transport-ws", "graphql-ws"}

Handshake(req) ==
  IF ~SubscriptionsOn(api) \/ KnownProtocols \cap UNION CallOf(req).offers = {}
  THEN Answer(req, 400) ELSE [req EXCEPT !.pc = "handshake"]

\* `call`, up to its first await: one load of the schema state, then the
\* playground, the handshake, the persisted endpoints and the plain query.
Arrive(r) ==
  /\ routed /\ reqs[r].pc = "idle"
  /\ \E c \in api.calls :
       LET req == [Fresh EXCEPT !.call = {c}, !.state = {leaf}]
           matches == {p \in DOMAIN api.persisted : /\ api.persisted[p].method = c.method
                                                    /\ api.persisted[p].path = c.path}
       IN Set(r, IF c.method = "GET" /\ c.path \in api.playground THEN Answer(req, 200)
                 ELSE IF c.method = "GET" /\ c.offers # None THEN Handshake(req)
                 ELSE IF matches # {} THEN Persisted(req, Min(matches))
                 ELSE IF c.method = "GET" THEN Plain(req)
                 ELSE IF c.method = "POST" THEN [req EXCEPT !.pc = "body"]
                 ELSE Answer(req, 405))
  /\ UNCHANGED <<syncVars, cache, writes>>

ReadBody(r) ==
  /\ reqs[r].pc = "body" /\ Set(r, Plain(reqs[r]))
  /\ UNCHANGED <<syncVars, cache, writes>>

\* `lookup`: a stored entry is served; an error, a corrupt and an expired one
\* are misses.
Lookup(r) ==
  /\ reqs[r].pc = "lookup"
  /\ \/ \E e \in cache : /\ e.key \in reqs[r].key
                         /\ Set(r, [reqs[r] EXCEPT !.pc = "done",
                                      !.out = {[by |-> "cache", status |-> 200, answer |-> e.answer]}])
     \/ Set(r, [reqs[r] EXCEPT !.pc = "run"])
  /\ UNCHANGED <<syncVars, cache, writes>>

-----------------------------------------------------------------------------
(* Execution: by the upstream, or by the gateway field by field.            *)

\* What an execution yields, for the operation and the schema it was policed
\* under: `errors` whether the response carries any, `cells` its data (of a
\* supergraph), `failed` whether a source failed.
Yield(req, errors, failed, cells) ==
  [under |-> StateOf(req).schema.sdl, text |-> DocOf(req).text,
   op |-> SelectedOp(DocOf(req), req.op), vars |-> CanonicalVariables(req.vars),
   errors |-> errors, failed |-> failed, cells |-> cells]

\* A response about to be streamed to the client.
Respond(req, by, code, answer) ==
  [req EXCEPT !.pc = "streaming", !.out = {[by |-> by, status |-> code, answer |-> answer]}]

\* The forwarder (external here, see RequestPath): the upstream answers with
\* or without errors, always with errors when the document is not valid for
\* the schema it serves by then; or the exchange fails.
Forward(r) ==
  LET req == reqs[r] IN
  /\ req.pc = "run" /\ ~GatewayExecuted
  /\ \E errors \in BOOLEAN, code \in {200, 502} :
        /\ code = 502 \/ ~ValidAgainst(upstream, DocOf(req)) => errors
        /\ Set(r, Respond(req, "upstream", code, Yield(req, errors, code = 502, {})))
  /\ UNCHANGED <<syncVars, cache, writes>>

RootType(kind) == IF kind = "mutation" THEN "Mutation" ELSE "Query"
TheOp(req) == CHOOSE op \in SelectedOp(DocOf(req), req.op) : TRUE
RootOf(req) == RootType(DocOf(req).ops[TheOp(req)].kind)

\* `execute`: the operation and the variables are fixed, then the record pass
\* lists the root fields, one per response key.
Record(r) ==
  LET req == reqs[r]
      doc == DocOf(req)
      first(k) == Min({i \in RootFieldNodes(doc, TheOp(req)) : doc.nodes[i].key = k})
      keys == {doc.nodes[i].key : i \in RootFieldNodes(doc, TheOp(req))}
  IN /\ req.pc = "run" /\ GatewayExecuted
     /\ Set(r, IF ParseRawVariables(req.vars) = {} \/ SelectedOp(doc, req.op) = {}
               THEN Answer(req, 400)
               ELSE [req EXCEPT !.pc = "fields",
                                !.todo = SetToSortSeq(keys, LAMBDA j, k : first(j) < first(k))])
     /\ UNCHANGED <<syncVars, cache, writes>>

NodesOf(req, key) ==
  {i \in RootFieldNodes(DocOf(req), TheOp(req)) : DocOf(req).nodes[i].key = key}

\* A GraphQL source rejects a sub-query that uses what it does not define.
Closed(doc, q, raw) ==
  \A i \in Selected(doc, q.fields) :
     /\ doc.nodes[i].vars \subseteq q.defs
     /\ doc.nodes[i].vars \cap DOMAIN raw \subseteq DOMAIN q.variables
     /\ doc.nodes[i].sel = "spread" => doc.nodes[i].name \in q.frags

\* `fetch_field` of the universal data graph: what one source's answer
\* becomes.  A REST source answers a value, nothing (null), or something that
\* is not the type's shape; a GraphQL source may add errors to a value.
UdgOutcomes(req, key) ==
  LET doc == DocOf(req)
      nodes == NodesOf(req, key)
      at == <<RootOf(req), doc.nodes[Min(nodes)].name>>
      raw == CHOOSE m \in ParseRawVariables(req.vars) : TRUE
      answerable == /\ at \in DOMAIN api.data_sources
                    /\ \/ api.data_sources[at].kind = "rest"
                       \/ Closed(doc, Subquery(doc, TheOp(req), nodes, raw), raw)
      outcome(errors, failed) == [key |-> key, errors |-> errors, failed |-> failed, cells |-> {}]
  IN IF answerable THEN {outcome(FALSE, FALSE), outcome(TRUE, TRUE)} ELSE {outcome(TRUE, FALSE)}

\* Query fields are fetched side by side, mutation fields one after the other.
FetchField(r) ==
  LET req == reqs[r] IN
  /\ req.pc = "fields"
  /\ \E j \in DOMAIN req.todo :
       /\ RootOf(req) = "Mutation" => j = 1
       /\ \E o \in IF api.mode = "udg" THEN UdgOutcomes(req, req.todo[j])
                   ELSE SupergraphOutcomes(api, req, req.todo[j]) :
             Set(r, [req EXCEPT !.todo = RemoveAt(@, j), !.got = @ \cup {o}])
  /\ UNCHANGED <<syncVars, cache, writes>>

\* The second execution pass over the prefetched values.
Stitch(r) ==
  LET req == reqs[r] IN
  /\ req.pc = "fields" /\ req.todo = <<>>
  /\ Set(r, Respond(req, "sources", 200,
                    Yield(req, \E o \in req.got : o.errors, \E o \in req.got : o.failed,
                          UNION {o.cells : o \in req.got})))
  /\ UNCHANGED <<syncVars, cache, writes>>

-----------------------------------------------------------------------------
(* Recording the response.                                                 *)

\* `WritePolicy::GraphQlSuccess`.
Allowed(answer) == ~answer.errors

\* The whole body was streamed within the cap: the write is spawned.
StreamEnd(r) ==
  LET req == reqs[r]
      out == OutOf(req)
      recorded == out.status = 200 /\ Allowed(out.answer)
  IN /\ req.pc = "streaming"
     /\ Set(r, [req EXCEPT !.pc = "done"])
     /\ writes' = IF recorded THEN writes \cup {[key |-> k, answer |-> out.answer] : k \in req.key}
                  ELSE writes
     /\ UNCHANGED <<syncVars, cache>>

\* The client left, the upstream broke off, the response sets a cookie or the
\* body outgrew the cap: nothing is recorded.
StreamUnrecorded(r) ==
  /\ reqs[r].pc = "streaming" /\ Set(r, [reqs[r] EXCEPT !.pc = "done"])
  /\ UNCHANGED <<syncVars, cache, writes>>

WriteCache(w) ==
  /\ writes' = writes \ {w}
  /\ \/ cache' = {e \in cache : e.key # w.key} \cup {w}
     \/ UNCHANGED cache
  /\ UNCHANGED <<syncVars, reqs>>

-----------------------------------------------------------------------------
(* The policed subscription tunnel.                                        *)

\* The upstream switches protocols with a subprotocol the gateway can police
\* (none named is taken to be either), or names another one, or declines.
Switch(r) ==
  LET req == reqs[r] IN
  /\ req.pc = "handshake"
  /\ \/ \E vocab \in {"modern", "legacy", "union"} :
          Set(r, [req EXCEPT !.pc = "tunnel", !.vocab = vocab])
     \/ Set(r, Answer(req, 502))
  /\ UNCHANGED <<syncVars, cache, writes>>

Vocabulary(vocab) ==
  LET modern == {"connection_init", "ping", "pong", "subscribe", "complete"}
      legacy == {"connection_init", "start", "stop", "connection_terminate"}
  IN CASE vocab = "modern" -> modern [] vocab = "legacy" -> legacy [] OTHER -> modern \cup legacy

\* `police_client_text`, `police_operation`: what becomes of a client message.
\* An operation is checked against the schema served now and the grants of
\* the handshake.
Policed(req, m) ==
  IF m.kind \notin Vocabulary(req.vocab) THEN "close"       \* binary and garbled frames too
  ELSE IF m.kind \notin {"subscribe", "start"} THEN "forward"
  ELSE IF ~m.id THEN "close"
  ELSE IF \A d \in m.doc : /\ ValidAgainst(leaf.schema, d)
                            /\ CheckDocument(api, CallOf(req).grants, d) = "none"
       THEN IF m.doc = {} THEN "reply" ELSE "operation"
  ELSE "reply"

ClientMessage(r) ==
  LET req == reqs[r] IN
  /\ req.pc = "tunnel"
  /\ \E m \in api.messages :
       Set(r, CASE Policed(req, m) = "close" -> [req EXCEPT !.pc = "done"]
                [] Policed(req, m) = "operation" ->
                     [req EXCEPT !.ops = @ \cup {[doc |-> d, schema |-> leaf.schema] : d \in m.doc}]
                [] OTHER -> req)
  /\ UNCHANGED <<syncVars, cache, writes>>

\* Either leg closes or fails; the other one is closed too.
TunnelEnds(r) ==
  /\ reqs[r].pc = "tunnel" /\ Set(r, [reqs[r] EXCEPT !.pc = "done"])
  /\ UNCHANGED <<syncVars, cache, writes>>

-----------------------------------------------------------------------------
Step(r) ==
  \/ Arrive(r) \/ ReadBody(r) \/ Lookup(r) \/ Forward(r)
  \/ Record(r) \/ FetchField(r) \/ Stitch(r)
  \/ StreamEnd(r) \/ StreamUnrecorded(r)
  \/ Switch(r) \/ ClientMessage(r) \/ TunnelEnds(r)

Next ==
  \/ SyncNext /\ UNCHANGED requestVars
  \/ \E r \in Requests : Step(r)
  \/ \E w \in writes : WriteCache(w)

Spec == Init /\ [][Next]_vars /\ SyncFairness

-----------------------------------------------------------------------------
(* Properties.                                                             *)

\* The field chains of a document, root to leaf: the reference the recursive
\* walks of the code are compared with.  A chain is the set of its nodes.
IsChain(doc, chain) ==
  /\ Min(chain) \in RootKids(doc)
  /\ \A i \in chain : i = Max(chain) \/ Min({k \in chain : k > i}) \in Range(Kids(doc, i))

Chains(doc) == {chain \in (SUBSET DOMAIN doc.nodes) \ {{}} : IsChain(doc, chain)}

\* What the API's settings and a key's grants permit, said without recursion.
Permitted(grants, doc, schema) ==
  LET fields(chain) == {i \in chain : IsField(doc, i)}
      used == UNION {fields(chain) : chain \in Chains(doc)}
      named(names) == {i \in used : doc.nodes[i].name \in names}
      introspects == named({"__schema", "__type"}) # {}
      onlyMeta == \A chain \in Chains(doc) :
                     fields(chain) # {} => IsMeta(doc.nodes[Min(fields(chain))].name)
      limits == UNION {g.max_query_depth : g \in grants}
      limit == IF limits = {} THEN api.max_query_depth ELSE limits
  IN /\ ValidAgainst(schema, doc)
     /\ introspects => api.introspection_enabled /\ \A g \in grants : ~g.disable_introspection
     /\ onlyMeta \/ /\ \A n \in limit, chain \in Chains(doc) : n > 0 => Cardinality(fields(chain)) <= n
                    /\ \A g \in grants, i \in used :
                          \/ IsMeta(doc.nodes[i].name)
                          \/ FieldAllowed(doc.nodes[i].ty, doc.nodes[i].name, g)

\* Nothing runs, is answered from the cache, or passes a subscription tunnel
\* unless it is valid for the schema state the request holds (for a tunnel:
\* the one served when the message came) and the API's depth limit,
\* introspection switch and the key's grants permit it - at whatever moment a
\* sync swaps the schema (`check_document` behind plain queries, persisted
\* endpoints and tunnels).
OnlyPermittedRuns ==
  \A r \in Requests :
    /\ reqs[r].doc # {} =>
          Permitted(CallOf(reqs[r]).grants, DocOf(reqs[r]), StateOf(reqs[r]).schema)
    /\ \A op \in reqs[r].ops : Permitted(CallOf(reqs[r]).grants, op.doc, op.schema)

\* The stored answer is one to the request's own operation, in its own document
\* and with its own variables.
AnswersOwn(req, answer) ==
  /\ answer.text = DocOf(req).text
  /\ answer.op = SelectedOp(DocOf(req), req.op)
  /\ answer.vars = CanonicalVariables(req.vars)

\* A request answered from the cache asks for a query and gets an answer
\* without errors, given under the schema it was validated against.  It is what
\* running its own operation, with its own variables, gave some request before
\* it, unless the variables of one of the two, not being JSON, have more lines
\* than the other's (`GraphQlCache::key`, `canonical_variables`).
GraphqlHitSound ==
  \A r \in Requests : \A out \in reqs[r].out :
    out.by = "cache" =>
      /\ out.answer.under = StateOf(reqs[r]).schema.sdl
      /\ OpKind(DocOf(reqs[r]), reqs[r].op) = {"query"}
      /\ ~out.answer.errors
      /\ Len(out.answer.vars) = Len(CanonicalVariables(reqs[r].vars))
           => AnswersOwn(reqs[r], out.answer)

\* What the comment on `canonical_variables` says of text that is not JSON, kept
\* verbatim in the key: "a spurious miss, never a leak".  A request with such
\* variables gets no answer to another operation or other variables.
VerbatimNeverLeaks ==
  \A r \in Requests : \A out \in reqs[r].out :
    out.by = "cache" /\ reqs[r].vars.form = "text" => AnswersOwn(reqs[r], out.answer)

\* Every schema state, the one served and those in-flight requests hold, has a
\* schema that compiles and for which all its persisted documents are valid,
\* whatever the upstream's introspection gives (`apply_introspection`).
PersistedStayValid ==
  \A s \in {leaf} \cup UNION {reqs[r].state : r \in Requests} :
    s.schema.compiles /\ \A p \in DOMAIN s.docs : ValidAgainst(s.schema, s.docs[p])

\* Once the upstream stays with a schema that compiles and suits the persisted
\* queries, the gateway comes to serve it and stays with it, whatever fetches
\* failed before and whatever schemas were refused (`run_refresher`).
SchemaFollows ==
  <>[](routed /\ api.schema_sync # {} /\ Applicable(Rendered(upstream)))
    => <>[](leaf.schema.sdl = Rendered(upstream).sdl)
=============================================================================
