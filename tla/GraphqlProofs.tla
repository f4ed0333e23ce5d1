--------------------------- MODULE GraphqlProofs ----------------------------
(***************************************************************************)
(* Proofs about the GraphQL layer, for any number of requests, any          *)
(* configuration and whatever fetching a supergraph's fields gives.          *)
(* First, that every schema state held anywhere suits its persisted          *)
(* documents; then, that what a request holds was checked under the state    *)
(* it loaded and that cache entries are what their keys say; last, that      *)
(* check_document's recursive walks decide what Permitted says of the        *)
(* document's field chains.                                                  *)
(***************************************************************************)
EXTENDS Graphql, FiniteSetTheorems, SequenceTheorems, WellFoundedInduction, TLAPS

-----------------------------------------------------------------------------
(* Schema states.                                                          *)

\* A schema state that may be served: it compiles, and it carries exactly the
\* API's persisted documents, all valid.
Sound(a, s) ==
  /\ s.schema.compiles
  /\ s.docs = [p \in DOMAIN a.persisted |-> a.persisted[p].doc]
  /\ \A p \in DOMAIN a.persisted : ValidAgainst(s.schema, a.persisted[p].doc)

\* The configuration is one that was accepted, and the leaf may be served.
Served ==
  /\ api \in Apis /\ GraphqlOk(api)
  /\ Sound(api, leaf)

\* The effective schema of an accepted configuration compiles and suits the
\* persisted documents.
LEMMA EffectiveSound ==
  ASSUME NEW a \in Apis, GraphqlOk(a)
  PROVE  /\ EffectiveSchema(a).compiles
         /\ \A p \in DOMAIN a.persisted : ValidAgainst(EffectiveSchema(a), a.persisted[p].doc)
  <1>1. EffectiveSchemaOk(a) /\ \A p \in Range(a.persisted) : PersistedOk(a, p, EffectiveSchema(a))
    BY Zenon DEF GraphqlOk
  <1>2. \A p \in DOMAIN a.persisted : a.persisted[p] \in Range(a.persisted)
    BY Zenon DEF Range
  <1>3. \A p \in DOMAIN a.persisted : ValidAgainst(EffectiveSchema(a), a.persisted[p].doc)
    BY <1>1, <1>2, Zenon DEF PersistedOk
  <1>4. EffectiveSchema(a).compiles
    <2>1. CASE a.mode = "supergraph"
      <3>1. EffectiveSchema(a) = ComposedSchema(Subgraphs(a))
        BY <2>1, Zenon DEF EffectiveSchema
      <3> QED BY <3>1 DEF ComposedSchema
    <2>2. CASE a.mode = "subgraph"
      <3>1. EffectiveSchema(a) = AugmentedSchema(a.schema)
        BY <2>2 DEF EffectiveSchema
      <3>2. a.schema.compiles /\ "compiles" \in DOMAIN a.schema
        BY <1>1, <2>2, ApisAssumption DEF EffectiveSchemaOk
      <3> QED BY <3>1, <3>2 DEF AugmentedSchema
    <2>3. CASE a.mode \notin {"supergraph", "subgraph"}
      <3>1. EffectiveSchema(a) = a.schema
        BY <2>3 DEF EffectiveSchema
      <3> QED BY <1>1, <2>3, <3>1 DEF EffectiveSchemaOk
    <2> QED BY <2>1, <2>2, <2>3
  <1> QED BY <1>3, <1>4

\* Only the refresher's swap changes the leaf, and nothing the configuration.
LEMMA SyncKeeps ==
  ASSUME SyncNext
  PROVE  /\ api' = api
         /\ \/ leaf' = leaf
            \/ \E schema : leaf' = SchemaState(schema, api.persisted) /\ Applicable(schema)
  <1>1. CASE ApplyIntrospection
    BY <1>1, Zenon DEF ApplyIntrospection
  <1>2. CASE UpstreamMoves \/ Nudge \/ Unroute
    BY <1>2, Zenon DEF UpstreamMoves, Nudge, Unroute
  <1>3. CASE IntervalEnds \/ TakePermit \/ Introspected \/ FetchFails
    BY <1>3, Zenon DEF IntervalEnds, TakePermit, Introspected, FetchFails
  <1> QED BY <1>1, <1>2, <1>3 DEF SyncNext

\* A step of a request or of a cache write leaves the configuration and the
\* leaf alone.
LEMMA RequestsKeep ==
  ASSUME (\E r \in Requests : Step(r)) \/ (\E w \in writes : WriteCache(w))
  PROVE  api' = api /\ leaf' = leaf
  <1>1. UNCHANGED syncVars
    BY Zenon DEF Step, Arrive, ReadBody, Lookup, Forward, Record, FetchField, Stitch, StreamEnd,
       StreamUnrecorded, Switch, ClientMessage, TunnelEnds, WriteCache
  <1> QED BY <1>1 DEF syncVars

\* The leaf may be served at any time.
LEMMA AlwaysServed == Spec => []Served
  <1>1. Init => Served
    <2> SUFFICES ASSUME Init PROVE Served
      OBVIOUS
    <2>1. api \in Apis /\ GraphqlOk(api) /\ leaf = SchemaState(EffectiveSchema(api), api.persisted)
      BY DEF Init, SyncInit
    <2>2. /\ leaf.schema = EffectiveSchema(api)
          /\ leaf.docs = [p \in DOMAIN api.persisted |-> api.persisted[p].doc]
      BY <2>1 DEF SchemaState
    <2> QED BY <2>1, <2>2, EffectiveSound DEF Served, Sound
  <1>2. Served /\ [Next]_vars => Served'
    <2> SUFFICES ASSUME Served, [Next]_vars PROVE Served'
      OBVIOUS
    <2>1. CASE SyncNext
      <3>1. CASE leaf' = leaf
        BY <2>1, <3>1, SyncKeeps DEF Served, Sound
      <3>2. CASE \E schema : leaf' = SchemaState(schema, api.persisted) /\ Applicable(schema)
        <4>1. PICK schema : leaf' = SchemaState(schema, api.persisted) /\ Applicable(schema)
          BY <3>2
        <4>2. /\ leaf'.schema = schema
              /\ leaf'.docs = [p \in DOMAIN api.persisted |-> api.persisted[p].doc]
          BY <4>1 DEF SchemaState
        <4>3. api' = api
          BY <2>1, SyncKeeps
        <4> QED BY <4>1, <4>2, <4>3 DEF Served, Sound, Applicable
      <3> QED BY <2>1, <3>1, <3>2, SyncKeeps
    <2>2. CASE (\E r \in Requests : Step(r)) \/ (\E w \in writes : WriteCache(w))
      BY <2>2, RequestsKeep DEF Served, Sound
    <2>3. CASE UNCHANGED vars
      BY <2>3 DEF vars, syncVars, Served, Sound
    <2> QED BY <2>1, <2>2, <2>3 DEF Next
  <1> QED BY <1>1, <1>2, PTL DEF Spec

-----------------------------------------------------------------------------
(* What a request holds.                                                    *)

\* The fields of a request's record.
Fields == {"pc", "call", "state", "doc", "op", "vars", "key", "todo", "got", "out", "vocab", "ops"}

\* The request has one call and the one schema state it loaded.
Started(a, x) ==
  /\ \E c \in a.calls : x.call = {c}
  /\ \E s : x.state = {s}

\* A document the layer let through, under the schema it was checked against.
Checked(a, x, doc, schema) ==
  /\ doc \in Documents(a)
  /\ ValidAgainst(schema, doc)
  /\ CheckDocument(a, CallOf(x).grants, doc) = "none"

KeyOf(x) == GraphqlKey(StateOf(x).schema.sdl, x.op, DocOf(x).text, CanonicalVariables(x.vars))

\* What the request runs, and the tunnel's operations, were checked; its cache
\* key is that of its own query.
Work(a, x) ==
  /\ DOMAIN x = Fields
  /\ Lined(CanonicalVariables(x.vars))
  /\ \A s \in x.state : Sound(a, s)
  /\ x.doc # {} => (\E d : x.doc = {d}) /\ Checked(a, x, DocOf(x), StateOf(x).schema)
  /\ \A o \in x.ops : Checked(a, x, o.doc, o.schema)
  /\ x.key # {} => x.doc # {} /\ x.key = {KeyOf(x)} /\ OpKind(DocOf(x), x.op) = {"query"}

\* The answer is one to the request's own operation under its own schema.
Honest(x, answer) == answer.under = StateOf(x).schema.sdl /\ AnswersOwn(x, answer)

\* The answer is one a hit may give the request.
Hit(x, answer) ==
  /\ answer.under = StateOf(x).schema.sdl
  /\ OpKind(DocOf(x), x.op) = {"query"} /\ ~answer.errors
  /\ Len(answer.vars) = Len(CanonicalVariables(x.vars)) => AnswersOwn(x, answer)

Executed == {"upstream", "sources"}

Answers(x) ==
  /\ \A o \in x.out :
        /\ o.by \in Executed => Honest(x, o.answer)
        /\ o.by = "cache" => Hit(x, o.answer)
  /\ x.pc = "streaming" => \E o : x.out = {o} /\ o.by \in Executed
  /\ x.pc = "body" => x.out = {}

Held(a, x) ==
  /\ Work(a, x) /\ Answers(x)
  /\ (x.pc # "idle" \/ x.doc # {} \/ x.ops # {}) => Started(a, x)

\* What is stored, or about to be, answers the query its key names.
Entry(a, e) ==
  \E d \in Documents(a) : \E op, sdl, variables :
     /\ e.key = GraphqlKey(sdl, op, d.text, variables) /\ Lined(variables)
     /\ e.answer.under = sdl /\ e.answer.text = d.text /\ e.answer.vars = variables
     /\ e.answer.op = SelectedOp(d, op) /\ OpKind(d, op) = {"query"}
     /\ ~e.answer.errors

\* Fields that say what the request runs.
SameWork(x, y) ==
  /\ DOMAIN y = Fields
  /\ y.call = x.call /\ y.state = x.state /\ y.doc = x.doc /\ y.op = x.op
  /\ y.vars = x.vars /\ y.key = x.key /\ y.ops = x.ops

\* What a request runs stays checked while only its position and answer move.
LEMMA SameWorkKeeps ==
  ASSUME NEW a, NEW x, NEW y, SameWork(x, y)
  PROVE  /\ Work(a, x) => Work(a, y)
         /\ Started(a, x) => Started(a, y)
         /\ \A answer : (Honest(x, answer) => Honest(y, answer)) /\ (Hit(x, answer) => Hit(y, answer))
         /\ CallOf(y) = CallOf(x) /\ StateOf(y) = StateOf(x) /\ DocOf(y) = DocOf(x)
  <1>1. CallOf(y) = CallOf(x) /\ StateOf(y) = StateOf(x) /\ DocOf(y) = DocOf(x)
    BY DEF SameWork, CallOf, StateOf, DocOf
  <1>2. /\ DOMAIN y = Fields
        /\ y.call = x.call /\ y.state = x.state /\ y.doc = x.doc /\ y.op = x.op
        /\ y.vars = x.vars /\ y.key = x.key /\ y.ops = x.ops
    BY DEF SameWork
  <1>3. ASSUME NEW doc, NEW schema, Checked(a, x, doc, schema) PROVE Checked(a, y, doc, schema)
    BY <1>1, <1>3 DEF Checked
  <1>4. KeyOf(y) = KeyOf(x)
    BY <1>1, <1>2 DEF KeyOf
  <1>5. ASSUME Work(a, x) PROVE Work(a, y)
    BY <1>1, <1>2, <1>3, <1>4, <1>5, Zenon DEF Work
  <1>6. ASSUME Started(a, x) PROVE Started(a, y)
    BY <1>2, <1>6 DEF Started
  <1>7. ASSUME NEW answer, Honest(x, answer) PROVE Honest(y, answer)
    BY <1>1, <1>2, <1>7 DEF Honest, AnswersOwn
  <1>8. ASSUME NEW answer, Hit(x, answer) PROVE Hit(y, answer)
    BY <1>1, <1>2, <1>8, Zenon DEF Hit, AnswersOwn
  <1> QED BY <1>1, <1>5, <1>6, <1>7, <1>8

\* An answer of the gateway's own.
LEMMA AnswerHeld ==
  ASSUME NEW a, NEW x, Work(a, x), Started(a, x), NEW code
  PROVE  Held(a, Answer(x, code))
  <1> DEFINE y == Answer(x, code)
  <1>1. SameWork(x, y) /\ y.pc = "done" /\ y.out = {[by |-> "gateway", status |-> code]}
    BY DEF Answer, SameWork, Work, Fields
  <1>2. Answers(y)
    BY <1>1 DEF Answers, Executed
  <1> HIDE DEF y
  <1>3. Work(a, y) /\ Started(a, y)
    BY <1>1, SameWorkKeeps
  <1> QED BY <1>2, <1>3 DEF Held, y

\* The admission of a checked operation.
LEMMA AdmitHeld ==
  ASSUME NEW x, Work(api, x), Started(api, x), x.out = {}, NEW doc, NEW op, NEW variables,
         Lined(CanonicalVariables(variables)), Checked(api, x, doc, StateOf(x).schema)
  PROVE  Held(api, Admit(x, doc, op, variables))
  <1> DEFINE key == IF api.cache # None /\ OpKind(doc, op) = {"query"}
                    THEN {GraphqlKey(StateOf(x).schema.sdl, op, doc.text, CanonicalVariables(variables))}
                    ELSE {}
             pc == IF key = {} THEN "run" ELSE "lookup"
             y == [x EXCEPT !.doc = {doc}, !.op = op, !.vars = variables, !.key = key, !.pc = pc]
  <1>1. Admit(x, doc, op, variables) = y
    BY DEF Admit
  <1>2. pc \in {"run", "lookup"} /\ (key # {} => OpKind(doc, op) = {"query"} /\ key =
           {GraphqlKey(StateOf(x).schema.sdl, op, doc.text, CanonicalVariables(variables))})
    OBVIOUS
  <1> HIDE DEF key, pc
  <1>3. /\ DOMAIN y = Fields /\ y.pc = pc /\ y.doc = {doc} /\ y.op = op /\ y.vars = variables
        /\ y.key = key /\ y.call = x.call /\ y.state = x.state /\ y.ops = x.ops /\ y.out = {}
    BY DEF Work, Fields
  <1> HIDE DEF y
  <1>4. DocOf(y) = doc /\ CallOf(y) = CallOf(x) /\ StateOf(y) = StateOf(x)
    BY <1>3 DEF DocOf, CallOf, StateOf
  <1>5. \A d, schema : Checked(api, x, d, schema) => Checked(api, y, d, schema)
    BY <1>4 DEF Checked
  <1>6. key # {} => key = {KeyOf(y)}
    BY <1>2, <1>3, <1>4, Zenon DEF KeyOf
  <1>7. Work(api, y)
    <2>1. y.doc # {} => (\E d : y.doc = {d}) /\ Checked(api, y, DocOf(y), StateOf(y).schema)
      BY <1>3, <1>4, <1>5
    <2>2. \A o \in y.ops : Checked(api, y, o.doc, o.schema)
      BY <1>3, <1>5 DEF Work
    <2>3. y.key # {} => y.doc # {} /\ y.key = {KeyOf(y)} /\ OpKind(DocOf(y), y.op) = {"query"}
      BY <1>2, <1>3, <1>4, <1>6
    <2>4. Lined(CanonicalVariables(y.vars)) /\ \A s \in y.state : Sound(api, s)
      BY <1>3 DEF Work
    <2> QED BY <1>3, <2>1, <2>2, <2>3, <2>4 DEF Work
  <1>8. Started(api, y) /\ Answers(y)
    BY <1>2, <1>3 DEF Started, Answers
  <1> QED BY <1>1, <1>7, <1>8 DEF Held

\* A refusal has a status, so none means that check_document found nothing.
LEMMA EnforceDecides ==
  ASSUME NEW a, NEW grants, NEW doc, Enforce(a, grants, doc) = {}
  PROVE  CheckDocument(a, grants, doc) = "none"
  <1> DEFINE check == CheckDocument(a, grants, doc)
  <1>1. Enforce(a, grants, doc) =
          CASE check = "none" -> {} [] check = "field" -> {400} [] OTHER -> {403}
    BY DEF Enforce
  <1> HIDE DEF check
  <1>2. check = "none"
    BY <1>1
  <1> QED BY <1>2 DEF check

\* A plain query.
LEMMA PlainHeld ==
  ASSUME Served, NEW x, Work(api, x), Started(api, x), x.out = {}
  PROVE  Held(api, Plain(x))
  <1> DEFINE c == CallOf(x)
  <1>1. c \in api.calls
    BY DEF Started, CallOf
  <1>2. c.body \in {"too_large", "unreadable", "missing", "query"} /\ c.doc \in Documents(api)
    BY <1>1, ApisAssumption DEF Served, Documents
  <1>0. Lined(CanonicalVariables(c.vars))
    BY <1>1, ApisAssumption DEF Served
  <1>3. \/ \E code : Plain(x) = Answer(x, code)
        \/ /\ Plain(x) = Admit(x, c.doc, c.op, c.vars)
           /\ ValidAgainst(StateOf(x).schema, c.doc) /\ Enforce(api, c.grants, c.doc) = {}
    <2>1. CASE c.body \in {"too_large", "unreadable", "missing"}
      BY <2>1 DEF Plain
    <2>2. CASE c.body = "query"
      <3>1. Plain(x) =
              IF ~ValidAgainst(StateOf(x).schema, c.doc) \/ OpKind(c.doc, c.op) = {"subscription"}
              THEN Answer(x, 400)
              ELSE IF Enforce(api, c.grants, c.doc) # {}
              THEN Answer(x, CHOOSE s \in Enforce(api, c.grants, c.doc) : TRUE)
              ELSE Admit(x, c.doc, c.op, c.vars)
        BY <2>2 DEF Plain
      <3> QED BY <3>1, Zenon
    <2> QED BY <1>2, <2>1, <2>2
  <1>4. CASE \E code : Plain(x) = Answer(x, code)
    BY <1>4, AnswerHeld
  <1>5. CASE /\ Plain(x) = Admit(x, c.doc, c.op, c.vars)
             /\ ValidAgainst(StateOf(x).schema, c.doc) /\ Enforce(api, c.grants, c.doc) = {}
    <2>1. Checked(api, x, c.doc, StateOf(x).schema)
      BY <1>2, <1>5, EnforceDecides DEF Checked
    <2> QED BY <1>0, <1>5, <2>1, AdmitHeld
  <1> QED BY <1>3, <1>4, <1>5

\* One line is a text.
LEMMA OneLine ==
  ASSUME NEW line
  PROVE  Lined(<<line>>)
  <1>1. line \in Range(<<line>>)
    BY DEF Range
  <1> QED BY <1>1 DEF Lined

\* So are absent variables.
LEMMA NoVarsLined == Lined(CanonicalVariables(NoVars))
  <1>1. CanonicalVariables(NoVars) = <<<<"text", "">>>>
    BY DEF CanonicalVariables, NoVars
  <1> QED BY <1>1, OneLine

\* The variables of a persisted endpoint take one line.
LEMMA SubstitutedLined ==
  ASSUME NEW p, NEW c
  PROVE  Lined(CanonicalVariables(Substituted(p, c)))
  <1>1. PICK raw : raw = Substituted(p, c)
    OBVIOUS
  <1>2. raw.form \in {"absent", "object"}
    BY <1>1 DEF Substituted, NoVars
  <1>3. \E line : CanonicalVariables(raw) = <<line>>
    <2>1. CanonicalVariables(raw) \in {<<<<"text", "">>>>, <<<<"json", raw.content>>>>}
      BY <1>2 DEF CanonicalVariables
    <2> QED BY <2>1
  <1> QED BY <1>1, <1>3, OneLine

\* A persisted endpoint runs the document of the state the request loaded.
LEMMA PersistedHeld ==
  ASSUME Served, NEW x, Work(api, x), Started(api, x), x.out = {}, NEW index \in DOMAIN api.persisted
  PROVE  Held(api, Persisted(x, index))
  <1> DEFINE doc == StateOf(x).docs[index]
             refusal == Enforce(api, CallOf(x).grants, doc)
  <1>1. Sound(api, StateOf(x))
    BY DEF Started, StateOf, Work
  <1>2. doc = api.persisted[index].doc /\ ValidAgainst(StateOf(x).schema, doc)
    BY <1>1 DEF Sound
  <1>3. doc \in Documents(api)
    BY <1>2 DEF Documents, Range
  <1>4. \/ \E code : Persisted(x, index) = Answer(x, code)
        \/ /\ \E op, p, c : Persisted(x, index) = Admit(x, doc, op, Substituted(p, c))
           /\ refusal = {}
    BY Zenon DEF Persisted
  <1>5. CASE \E code : Persisted(x, index) = Answer(x, code)
    BY <1>5, AnswerHeld
  <1>6. CASE /\ \E op, p, c : Persisted(x, index) = Admit(x, doc, op, Substituted(p, c))
             /\ refusal = {}
    <2>1. Checked(api, x, doc, StateOf(x).schema)
      BY <1>2, <1>3, <1>6, EnforceDecides DEF Checked
    <2> QED BY <1>6, <2>1, SubstitutedLined, AdmitHeld
  <1> QED BY <1>4, <1>5, <1>6

-----------------------------------------------------------------------------
(* Least and greatest elements: the induction the walks below need.           *)

\* Every nonempty set of naturals has a least element, which Min is.
LEMMA LeastNatural ==
  ASSUME NEW T \in SUBSET Nat, T # {}
  PROVE  Min(T) \in T /\ \A y \in T : Min(T) <= y
  <1> DEFINE R == {ss \in Nat \X Nat : ss[1] < ss[2]}
  <1>1. IsWellFoundedOn(R, Nat)
    BY NatLessThanWellFounded, Zenon DEF OpToRel
  <1> HIDE DEF R
  <1>2. PICK x \in T : \A y \in T : ~ (<<y, x>> \in R)
    BY <1>1, WFMin, Zenon
  <1>3. ASSUME NEW y \in T PROVE x <= y
    <2>1. ~ (<<y, x>> \in R)
      BY <1>2
    <2>2. ~ (y < x)
      BY <2>1 DEF R
    <2> QED BY <2>2
  <1>4. \E m \in T : \A y \in T : m <= y
    BY <1>3
  <1> QED BY <1>4, Zenon DEF Min

-----------------------------------------------------------------------------
(* One lemma per step: the record it leaves is held again.                   *)

\* A request arrives with the schema state served at that instant.
LEMMA ArriveHeld ==
  ASSUME Served, NEW r \in Requests, r \in DOMAIN reqs, Arrive(r)
  PROVE  Held(api, reqs'[r])
  <1>1. PICK c \in api.calls :
          LET req == [Fresh EXCEPT !.call = {c}, !.state = {leaf}]
              matches == {p \in DOMAIN api.persisted : /\ api.persisted[p].method = c.method
                                                       /\ api.persisted[p].path = c.path}
          IN Set(r, IF c.method = "GET" /\ c.path \in api.playground THEN Answer(req, 200)
                    ELSE IF c.method = "GET" /\ c.offers # None THEN Handshake(req)
                    ELSE IF matches # {} THEN Persisted(req, Min(matches))
                    ELSE IF c.method = "GET" THEN Plain(req)
                    ELSE IF c.method = "POST" THEN [req EXCEPT !.pc = "body"]
                    ELSE Answer(req, 405))
    BY DEF Arrive
  <1> DEFINE req == [Fresh EXCEPT !.call = {c}, !.state = {leaf}]
             matches == {p \in DOMAIN api.persisted : /\ api.persisted[p].method = c.method
                                                      /\ api.persisted[p].path = c.path}
  <1>2. \/ \E code : reqs'[r] = Answer(req, code)
        \/ reqs'[r] = Handshake(req)
        \/ matches # {} /\ reqs'[r] = Persisted(req, Min(matches))
        \/ reqs'[r] = Plain(req)
        \/ reqs'[r] = [req EXCEPT !.pc = "body"]
    <2> HIDE DEF req, matches
    <2>1. reqs'[r] = IF c.method = "GET" /\ c.path \in api.playground THEN Answer(req, 200)
                    ELSE IF c.method = "GET" /\ c.offers # None THEN Handshake(req)
                    ELSE IF matches # {} THEN Persisted(req, Min(matches))
                    ELSE IF c.method = "GET" THEN Plain(req)
                    ELSE IF c.method = "POST" THEN [req EXCEPT !.pc = "body"]
                    ELSE Answer(req, 405)
      BY <1>1 DEF Set, req, matches
    <2> QED BY <2>1, Zenon
  <1>3. /\ DOMAIN req = Fields /\ req.call = {c} /\ req.state = {leaf} /\ req.doc = {}
        /\ req.key = {} /\ req.out = {} /\ req.ops = {} /\ req.pc = "idle" /\ req.vars = NoVars
    BY DEF Fresh, Fields
  <1> HIDE DEF req
  <1>4. Work(api, req) /\ Started(api, req)
    BY <1>3, NoVarsLined DEF Work, Started, Served
  <1>5. \A pc : [req EXCEPT !.pc = pc].pc = pc /\ [req EXCEPT !.pc = pc].out = {}
                 /\ SameWork(req, [req EXCEPT !.pc = pc])
    BY <1>3 DEF SameWork, Fields
  <1>6. ASSUME NEW pc, pc # "streaming" PROVE Held(api, [req EXCEPT !.pc = pc])
    <2> DEFINE y == [req EXCEPT !.pc = pc]
    <2>1. y.pc = pc /\ y.out = {} /\ SameWork(req, y)
      BY <1>5
    <2> HIDE DEF y
    <2>2. Answers(y)
      BY <1>6, <2>1 DEF Answers
    <2> QED BY <1>4, <2>1, <2>2, SameWorkKeeps DEF Held, y
  <1>7. CASE \E code : reqs'[r] = Answer(req, code)
    BY <1>4, <1>7, AnswerHeld
  <1>8. CASE reqs'[r] = Handshake(req)
    BY <1>4, <1>6, <1>8, AnswerHeld DEF Handshake
  <1>9. CASE matches # {} /\ reqs'[r] = Persisted(req, Min(matches))
    <2>1. matches \in SUBSET Nat
      BY ApisAssumption DEF Served
    <2>2. Min(matches) \in matches
      BY <1>9, <2>1, LeastNatural
    <2>3. Min(matches) \in DOMAIN api.persisted
      BY <2>2
    <2> HIDE DEF matches
    <2> QED BY <1>3, <1>4, <1>9, <2>3, PersistedHeld
  <1>10. CASE reqs'[r] = Plain(req)
    BY <1>3, <1>4, <1>10, PlainHeld
  <1>11. CASE reqs'[r] = [req EXCEPT !.pc = "body"]
    BY <1>6, <1>11
  <1> QED BY <1>2, <1>7, <1>8, <1>9, <1>10, <1>11

\* Two texts joined by a newline fall apart in one way only, if the number of
\* lines of the second is known.
LEMMA JoinedLines ==
  ASSUME NEW s, NEW t, NEW v, NEW w, Lined(s), Lined(t), Lined(v), Lined(w),
         s \o v = t \o w, Len(v) = Len(w)
  PROVE  s = t /\ v = w
  <1> DEFINE S == (Range(s) \cup Range(t)) \cup (Range(v) \cup Range(w))
  <1>1. /\ Range(s) \subseteq S /\ Range(t) \subseteq S
        /\ Range(v) \subseteq S /\ Range(w) \subseteq S
    OBVIOUS
  <1>2. /\ s \in Seq(Range(s)) /\ t \in Seq(Range(t))
        /\ v \in Seq(Range(v)) /\ w \in Seq(Range(w))
    BY DEF Lined
  <1> HIDE DEF S
  <1>3. s \in Seq(S) /\ t \in Seq(S) /\ v \in Seq(S) /\ w \in Seq(S)
    BY <1>1, <1>2
  <1>4. Len(s) = Len(t)
    BY <1>3
  <1>5. ASSUME NEW i \in 1..Len(s) PROVE s[i] = t[i]
    <2>1. (s \o v)[i] = s[i] /\ (t \o w)[i] = t[i]
      BY <1>3, <1>4
    <2> QED BY <2>1
  <1>6. ASSUME NEW i \in 1..Len(v) PROVE v[i] = w[i]
    <2>0. /\ Len(s) \in Nat /\ Len(v) \in Nat /\ Len(t) = Len(s) /\ Len(w) = Len(v)
          /\ i \in Int /\ 1 <= i /\ i <= Len(v)
      BY <1>3, <1>4
    <2>1. PICK j : j = i + Len(s)
      OBVIOUS
    <2>2. j \in 1..(Len(s) + Len(v)) /\ ~(j <= Len(s)) /\ j - Len(s) = i
      BY <2>0, <2>1
    <2>3. (s \o v)[j] = v[j - Len(s)]
      BY <1>3, <2>2, ConcatProperties, Zenon
    <2>5. j \in 1..(Len(t) + Len(w)) /\ ~(j <= Len(t))
      BY <2>0, <2>2
    <2>4. (t \o w)[j] = w[j - Len(t)]
      BY <1>3, <2>5, ConcatProperties, Zenon
    <2> QED BY <2>0, <2>2, <2>3, <2>4
  <1>7. s = t
    BY <1>3, <1>4, <1>5, SeqEqual, Zenon
  <1>8. v = w
    BY <1>3, <1>6, SeqEqual, Zenon
  <1> QED BY <1>7, <1>8

\* Equal keys name one schema and one operation name; equal documents and
\* variables too when the variables have as many lines.
LEMMA HitHonest ==
  ASSUME Served, NEW x, Work(api, x), NEW e, Entry(api, e), e.key \in x.key
  PROVE  Hit(x, e.answer)
  <1>0. PICK d \in Documents(api) : \E op, sdl, variables :
          /\ e.key = GraphqlKey(sdl, op, d.text, variables) /\ Lined(variables)
          /\ e.answer.under = sdl /\ e.answer.text = d.text /\ e.answer.vars = variables
          /\ e.answer.op = SelectedOp(d, op) /\ OpKind(d, op) = {"query"}
          /\ ~e.answer.errors
    BY Zenon DEF Entry
  <1>1. PICK op, sdl, variables :
          /\ e.key = GraphqlKey(sdl, op, d.text, variables) /\ Lined(variables)
          /\ e.answer.under = sdl /\ e.answer.text = d.text /\ e.answer.vars = variables
          /\ e.answer.op = SelectedOp(d, op) /\ OpKind(d, op) = {"query"}
          /\ ~e.answer.errors
    BY <1>0, Zenon
  <1>2. /\ e.key = KeyOf(x) /\ DocOf(x) \in Documents(api)
        /\ OpKind(DocOf(x), x.op) = {"query"}
    BY DEF Work, Checked
  <1>3. /\ sdl = StateOf(x).schema.sdl /\ op = x.op
        /\ d.text \o variables = DocOf(x).text \o CanonicalVariables(x.vars)
    <2>1. PICK j, k : /\ j = d.text \o variables
                      /\ k = DocOf(x).text \o CanonicalVariables(x.vars)
      OBVIOUS
    <2>2. <<sdl, op, j>> = <<StateOf(x).schema.sdl, x.op, k>>
      BY <1>1, <1>2, <2>1, Zenon DEF KeyOf, GraphqlKey
    <2>3. sdl = StateOf(x).schema.sdl /\ op = x.op /\ j = k
      BY <2>2
    <2> QED BY <2>1, <2>3
  <1>4. ASSUME Len(variables) = Len(CanonicalVariables(x.vars))
        PROVE  d = DocOf(x) /\ variables = CanonicalVariables(x.vars)
    <2>0. Lined(variables)
      BY <1>1
    <2>1. Lined(d.text) /\ Lined(DocOf(x).text) /\ Lined(CanonicalVariables(x.vars))
      BY <1>2, ApisAssumption DEF Served, Work
    <2>3. PICK s, t, w : s = d.text /\ t = DocOf(x).text /\ w = CanonicalVariables(x.vars)
      OBVIOUS
    <2>4. /\ Lined(s) /\ Lined(t) /\ Lined(variables) /\ Lined(w)
          /\ s \o variables = t \o w /\ Len(variables) = Len(w)
      BY <1>3, <1>4, <2>0, <2>1, <2>3, Zenon
    <2>5. s = t /\ variables = w
      BY <2>4, JoinedLines, ZenonT(120)
    <2>2. d.text = DocOf(x).text /\ variables = CanonicalVariables(x.vars)
      BY <2>3, <2>5
    <2> QED BY <1>2, <2>2, ApisAssumption DEF Served
  <1>5. Len(e.answer.vars) = Len(CanonicalVariables(x.vars)) => AnswersOwn(x, e.answer)
    BY <1>1, <1>3, <1>4 DEF AnswersOwn
  <1> QED BY <1>1, <1>2, <1>3, <1>5, Zenon DEF Hit

\* A request that only moves on, or ends.
LEMMA MovedHeld ==
  ASSUME NEW a, NEW x, Held(a, x), x.pc # "idle", NEW y, SameWork(x, y), y.out = x.out,
         y.pc \notin {"streaming", "body"}
  PROVE  Held(a, y)
  <1>1. Work(a, y) /\ Started(a, y) /\ DocOf(y) = DocOf(x) /\ y.op = x.op
        /\ \A answer : (Honest(x, answer) => Honest(y, answer)) /\ (Hit(x, answer) => Hit(y, answer))
    BY SameWorkKeeps DEF Held, SameWork
  <1>2. Answers(y)
    BY <1>1, Zenon DEF Answers, Held
  <1> QED BY <1>1, <1>2 DEF Held

\* A request that starts to stream an answer to its own operation.
LEMMA RespondHeld ==
  ASSUME NEW a, NEW x, Held(a, x), x.pc # "idle", NEW by \in Executed, NEW code,
         NEW errors, NEW failed, NEW cells
  PROVE  Held(a, Respond(x, by, code, Yield(x, errors, failed, cells)))
  <1> DEFINE answer == Yield(x, errors, failed, cells)
             o == [by |-> by, status |-> code, answer |-> answer]
             y == [x EXCEPT !.pc = "streaming", !.out = {o}]
  <1>1. Respond(x, by, code, answer) = y
    BY DEF Respond
  <1>2. Honest(x, answer)
    BY DEF Honest, AnswersOwn, Yield
  <1> HIDE DEF answer
  <1>3. o.by = by /\ o.answer = answer
    OBVIOUS
  <1> HIDE DEF o
  <1>4. SameWork(x, y) /\ y.pc = "streaming" /\ y.out = {o}
    BY DEF SameWork, Held, Work, Fields
  <1> HIDE DEF y
  <1>5. Work(a, y) /\ Started(a, y) /\ Honest(y, answer)
    BY <1>2, <1>4, SameWorkKeeps DEF Held
  <1>6. Answers(y)
    BY <1>3, <1>4, <1>5 DEF Answers, Executed
  <1> QED BY <1>1, <1>5, <1>6 DEF Held, answer

\* The steps between the cache and the stream.
LEMMA RunHeld ==
  ASSUME Served, NEW r \in Requests, r \in DOMAIN reqs, Held(api, reqs[r]), \A e \in cache : Entry(api, e),
         Lookup(r) \/ Forward(r) \/ Record(r) \/ FetchField(r) \/ Stitch(r)
  PROVE  Held(api, reqs'[r])
  <1> DEFINE x == reqs[r]
  <1>0. DOMAIN x = Fields
    BY DEF Held, Work
  <1>1. CASE Lookup(r)
    <2>0. x.pc = "lookup"
      BY <1>1 DEF Lookup
    <2>1. CASE reqs'[r] = [x EXCEPT !.pc = "run"]
      <3>1. SameWork(x, reqs'[r]) /\ reqs'[r].out = x.out /\ reqs'[r].pc = "run"
        BY <1>0, <2>1 DEF SameWork, Fields
      <3> QED BY <2>0, <3>1, MovedHeld
    <2>2. ASSUME NEW e \in cache, e.key \in x.key,
                 reqs'[r] = [x EXCEPT !.pc = "done",
                               !.out = {[by |-> "cache", status |-> 200, answer |-> e.answer]}]
          PROVE  Held(api, reqs'[r])
      <3> DEFINE o == [by |-> "cache", status |-> 200, answer |-> e.answer]
                 y == [x EXCEPT !.pc = "done", !.out = {o}]
      <3>1. Hit(x, e.answer)
        BY <2>2, HitHonest DEF Held
      <3>2. o.by = "cache" /\ o.answer = e.answer
        OBVIOUS
      <3> HIDE DEF o
      <3>3. SameWork(x, y) /\ y.pc = "done" /\ y.out = {o} /\ y.op = x.op
        BY <1>0 DEF SameWork, Fields
      <3>4. reqs'[r] = y
        BY <2>2 DEF o
      <3> HIDE DEF y
      <3>5. Work(api, y) /\ Started(api, y) /\ Hit(y, e.answer)
        BY <2>0, <3>1, <3>3, SameWorkKeeps DEF Held
      <3>6. Answers(y)
        BY <3>1, <3>2, <3>3, <3>5 DEF Answers, Executed
      <3> QED BY <3>4, <3>5, <3>6 DEF Held
    <2> QED BY <1>1, <2>1, <2>2 DEF Lookup, Set
  <1>2. CASE Forward(r)
    <2>1. PICK errors \in BOOLEAN, code \in {200, 502} :
            reqs'[r] = Respond(x, "upstream", code, Yield(x, errors, code = 502, {}))
      BY <1>2 DEF Forward, Set
    <2>2. x.pc # "idle"
      BY <1>2 DEF Forward
    <2> HIDE DEF x
    <2> QED BY <2>1, <2>2, RespondHeld DEF x, Executed
  <1>3. CASE Record(r)
    <2>1. x.pc = "run"
      BY <1>3 DEF Record
    <2>2. \/ reqs'[r] = Answer(x, 400)
          \/ \E todo : reqs'[r] = [x EXCEPT !.pc = "fields", !.todo = todo]
      BY <1>3, Zenon DEF Record, Set
    <2>3. CASE reqs'[r] = Answer(x, 400)
      BY <2>1, <2>3, AnswerHeld DEF Held
    <2>4. CASE \E todo : reqs'[r] = [x EXCEPT !.pc = "fields", !.todo = todo]
      <3>1. SameWork(x, reqs'[r]) /\ reqs'[r].out = x.out /\ reqs'[r].pc = "fields"
        BY <1>0, <2>4 DEF SameWork, Fields
      <3> QED BY <2>1, <3>1, MovedHeld
    <2> QED BY <2>2, <2>3, <2>4
  <1>4. CASE FetchField(r)
    <2>1. x.pc = "fields"
      BY <1>4 DEF FetchField
    <2>2. PICK todo, got : reqs'[r] = [x EXCEPT !.todo = todo, !.got = got]
      BY <1>4, Zenon DEF FetchField, Set
    <2>3. SameWork(x, reqs'[r]) /\ reqs'[r].out = x.out /\ reqs'[r].pc = "fields"
      BY <1>0, <2>1, <2>2 DEF SameWork, Fields
    <2> QED BY <2>1, <2>3, MovedHeld
  <1>5. CASE Stitch(r)
    <2>1. x.pc = "fields"
      BY <1>5 DEF Stitch
    <2> DEFINE errors == \E o \in x.got : o.errors
               failed == \E o \in x.got : o.failed
               cells == UNION {o.cells : o \in x.got}
    <2>2. reqs'[r] = Respond(x, "sources", 200, Yield(x, errors, failed, cells))
      BY <1>5 DEF Stitch, Set
    <2> HIDE DEF x, errors, failed, cells
    <2> QED BY <2>1, <2>2, RespondHeld DEF x, Executed
  <1> QED BY <1>1, <1>2, <1>3, <1>4, <1>5

\* The end of the stream, and the tunnel.
LEMMA EndHeld ==
  ASSUME Served, NEW r \in Requests, r \in DOMAIN reqs, Held(api, reqs[r]),
         \/ ReadBody(r) \/ StreamEnd(r) \/ StreamUnrecorded(r)
         \/ Switch(r) \/ ClientMessage(r) \/ TunnelEnds(r)
  PROVE  Held(api, reqs'[r])
  <1> DEFINE x == reqs[r]
  <1>0. DOMAIN x = Fields
    BY DEF Held, Work
  <1>1. CASE ReadBody(r)
    <2>1. x.pc = "body" /\ reqs'[r] = Plain(x)
      BY <1>1 DEF ReadBody, Set
    <2> QED BY <2>1, PlainHeld DEF Held, Answers
  <1>2. CASE StreamEnd(r) \/ StreamUnrecorded(r) \/ TunnelEnds(r)
    <2>1. reqs'[r] = [x EXCEPT !.pc = "done"] /\ x.pc \in {"streaming", "tunnel"}
      BY <1>2 DEF StreamEnd, StreamUnrecorded, TunnelEnds, Set
    <2>2. SameWork(x, reqs'[r]) /\ reqs'[r].out = x.out /\ reqs'[r].pc = "done"
      BY <1>0, <2>1 DEF SameWork, Fields
    <2> QED BY <2>1, <2>2, MovedHeld
  <1>3. CASE Switch(r)
    <2>1. x.pc = "handshake"
      BY <1>3 DEF Switch
    <2>2. \/ reqs'[r] = Answer(x, 502)
          \/ \E vocab : reqs'[r] = [x EXCEPT !.pc = "tunnel", !.vocab = vocab]
      <3>1. \A new : Set(r, new) => reqs'[r] = new
        BY DEF Set
      <3>2. \/ Set(r, Answer(x, 502))
            \/ \E vocab : Set(r, [x EXCEPT !.pc = "tunnel", !.vocab = vocab])
        BY <1>3, ZenonT(60) DEF Switch
      <3> QED BY <3>1, <3>2, ZenonT(60)
    <2>3. CASE reqs'[r] = Answer(x, 502)
      BY <2>1, <2>3, AnswerHeld DEF Held
    <2>4. CASE \E vocab : reqs'[r] = [x EXCEPT !.pc = "tunnel", !.vocab = vocab]
      <3>1. SameWork(x, reqs'[r]) /\ reqs'[r].out = x.out /\ reqs'[r].pc = "tunnel"
        BY <1>0, <2>4 DEF SameWork, Fields
      <3> QED BY <2>1, <3>1, MovedHeld
    <2> QED BY <2>2, <2>3, <2>4
  <1>4. CASE ClientMessage(r)
    <2>1. x.pc = "tunnel"
      BY <1>4 DEF ClientMessage
    <2>2. PICK m \in api.messages :
            reqs'[r] = CASE Policed(x, m) = "close" -> [x EXCEPT !.pc = "done"]
                         [] Policed(x, m) = "operation" ->
                              [x EXCEPT !.ops = @ \cup {[doc |-> d, schema |-> leaf.schema] : d \in m.doc}]
                         [] OTHER -> x
      BY <1>4 DEF ClientMessage, Set
    <2>3. CASE reqs'[r] = [x EXCEPT !.pc = "done"]
      <3>1. SameWork(x, reqs'[r]) /\ reqs'[r].out = x.out /\ reqs'[r].pc = "done"
        BY <1>0, <2>3 DEF SameWork, Fields
      <3> QED BY <2>1, <3>1, MovedHeld
    <2>4. CASE reqs'[r] = x
      BY <2>4
    <2>5. CASE /\ Policed(x, m) = "operation"
               /\ reqs'[r] = [x EXCEPT !.ops = @ \cup {[doc |-> d, schema |-> leaf.schema] : d \in m.doc}]
      <3> DEFINE new == {[doc |-> d, schema |-> leaf.schema] : d \in m.doc}
                 y == [x EXCEPT !.ops = @ \cup new]
      <3>1. \A d \in m.doc : /\ ValidAgainst(leaf.schema, d)
                             /\ CheckDocument(api, CallOf(x).grants, d) = "none"
        BY <2>5, Zenon DEF Policed
      <3>2. \A d \in m.doc : d \in Documents(api)
        BY Zenon DEF Documents
      <3>3. \A d \in m.doc : Checked(api, x, d, leaf.schema)
        BY <3>1, <3>2 DEF Checked
      <3>4. \A o \in new : Checked(api, x, o.doc, o.schema)
        BY <3>3
      <3> HIDE DEF new
      <3>5. /\ DOMAIN y = Fields /\ y.call = x.call /\ y.state = x.state /\ y.doc = x.doc
            /\ y.op = x.op /\ y.vars = x.vars /\ y.key = x.key /\ y.ops = x.ops \cup new
            /\ y.out = x.out /\ y.pc = x.pc
        BY <1>0 DEF Fields
      <3>6. reqs'[r] = y
        BY <2>5 DEF new
      <3> HIDE DEF y
      <3>7. CallOf(y) = CallOf(x) /\ StateOf(y) = StateOf(x) /\ DocOf(y) = DocOf(x) /\ KeyOf(y) = KeyOf(x)
        BY <3>5 DEF CallOf, StateOf, DocOf, KeyOf
      <3>8. \A d, s : Checked(api, x, d, s) => Checked(api, y, d, s)
        BY <3>7 DEF Checked
      <3>9. Work(api, y)
        <4>1. \A o \in y.ops : Checked(api, y, o.doc, o.schema)
          BY <3>4, <3>5, <3>8 DEF Held, Work
        <4>2. y.doc # {} => (\E d : y.doc = {d}) /\ Checked(api, y, DocOf(y), StateOf(y).schema)
          BY <3>5, <3>7, <3>8 DEF Held, Work
        <4>3. y.key # {} => y.doc # {} /\ y.key = {KeyOf(y)} /\ OpKind(DocOf(y), y.op) = {"query"}
          BY <3>5, <3>7 DEF Held, Work
        <4>4. Lined(CanonicalVariables(y.vars)) /\ \A s \in y.state : Sound(api, s)
          BY <3>5 DEF Held, Work
        <4> QED BY <3>5, <4>1, <4>2, <4>3, <4>4 DEF Work
      <3>10. Started(api, y)
        BY <2>1, <3>5 DEF Held, Started
      <3>11. \A answer : (Honest(x, answer) => Honest(y, answer)) /\ (Hit(x, answer) => Hit(y, answer))
        BY <3>5, <3>7, Zenon DEF Honest, Hit, AnswersOwn
      <3>12. Answers(y)
        BY <2>1, <3>5, <3>7, <3>11, Zenon DEF Held, Answers
      <3> QED BY <3>6, <3>9, <3>10, <3>12 DEF Held
    <2> QED BY <2>2, <2>3, <2>4, <2>5
  <1> QED BY <1>1, <1>2, <1>3, <1>4

\* What the end of a stream records is an entry under the request's own key.
LEMMA RecordedEntry ==
  ASSUME NEW r \in Requests, Held(api, reqs[r]), StreamEnd(r), \A w \in writes : Entry(api, w)
  PROVE  \A w \in writes' : Entry(api, w)
  <1> DEFINE x == reqs[r]
             out == OutOf(x)
  <1>1. x.pc = "streaming"
    BY DEF StreamEnd
  <1>2. out \in x.out /\ out.by \in Executed
    BY <1>1 DEF Held, Answers, OutOf
  <1>3. Honest(x, out.answer)
    BY <1>2 DEF Held, Answers
  <1>4. CASE writes' = writes
    BY <1>4
  <1>5. CASE /\ Allowed(out.answer)
             /\ writes' = writes \cup {[key |-> k, answer |-> out.answer] : k \in x.key}
    <2>1. ASSUME NEW k \in x.key PROVE Entry(api, [key |-> k, answer |-> out.answer])
      <3> DEFINE e == [key |-> k, answer |-> out.answer]
                 d == DocOf(x)
      <3>1. e.key = KeyOf(x) /\ e.answer = out.answer
        BY <2>1 DEF Held, Work
      <3>2. d \in Documents(api) /\ OpKind(d, x.op) = {"query"}
        BY <2>1 DEF Held, Work, Checked
      <3>3. ~out.answer.errors
        BY <1>5 DEF Allowed
      <3>4. Lined(CanonicalVariables(x.vars))
        BY DEF Held, Work
      <3> HIDE DEF e, out
      <3> QED BY <1>3, <3>1, <3>2, <3>3, <3>4, Zenon DEF Entry, Honest, AnswersOwn, KeyOf, e
    <2> QED BY <1>5, <2>1
  <1> QED BY <1>4, <1>5 DEF StreamEnd

-----------------------------------------------------------------------------
(* The invariant of all requests and of the cache.                           *)

Holding ==
  /\ DOMAIN reqs = Requests
  /\ \A r \in Requests : Held(api, reqs[r])
  /\ \A e \in cache \cup writes : Entry(api, e)

\* A step of one request leaves the others' records alone.
LEMMA StepHolds ==
  ASSUME Served, Holding, NEW r \in Requests, Step(r)
  PROVE  Holding'
  <1>0. api' = api
    BY RequestsKeep
  <1>1. \E new : reqs' = [reqs EXCEPT ![r] = new]
    <2>1. CASE Arrive(r) \/ ReadBody(r) \/ Lookup(r)
      <3>1. \E new : Set(r, new)
        BY <2>1, Zenon DEF Arrive, ReadBody, Lookup
      <3> QED BY <3>1, Zenon DEF Set
    <2>2. CASE Forward(r) \/ FetchField(r) \/ Stitch(r)
      <3>1. CASE Forward(r)
        <4>1. PICK errors \in BOOLEAN, code \in {200, 502} :
                Set(r, Respond(reqs[r], "upstream", code, Yield(reqs[r], errors, code = 502, {})))
          BY <3>1 DEF Forward
        <4> DEFINE new == Respond(reqs[r], "upstream", code, Yield(reqs[r], errors, code = 502, {}))
        <4>2. reqs' = [reqs EXCEPT ![r] = new]
          BY <4>1 DEF Set
        <4> HIDE DEF new
        <4> QED BY <4>2
      <3>2. CASE FetchField(r)
        BY <3>2, Zenon DEF FetchField, Set
      <3>3. CASE Stitch(r)
        BY <3>3, Zenon DEF Stitch, Set
      <3> QED BY <2>2, <3>1, <3>2, <3>3
    <2>3. CASE Record(r) \/ StreamEnd(r)
      <3>1. \E new : Set(r, new)
        BY <2>3, Zenon DEF Record, StreamEnd
      <3> QED BY <3>1, Zenon DEF Set
    <2>4. CASE StreamUnrecorded(r) \/ Switch(r) \/ ClientMessage(r) \/ TunnelEnds(r)
      <3>1. \E new : Set(r, new)
        BY <2>4, Zenon DEF StreamUnrecorded, Switch, ClientMessage, TunnelEnds
      <3> QED BY <3>1, Zenon DEF Set
    <2> QED BY <2>1, <2>2, <2>3, <2>4 DEF Step
  <1>2. Held(api, reqs'[r])
    <2>0. r \in DOMAIN reqs /\ Held(api, reqs[r]) /\ \A e \in cache : Entry(api, e)
      BY DEF Holding
    <2>1. CASE Arrive(r)
      BY <2>0, <2>1, ArriveHeld
    <2>2. CASE Lookup(r) \/ Forward(r) \/ Record(r) \/ FetchField(r) \/ Stitch(r)
      BY <2>0, <2>2, RunHeld
    <2>3. CASE \/ ReadBody(r) \/ StreamEnd(r) \/ StreamUnrecorded(r)
               \/ Switch(r) \/ ClientMessage(r) \/ TunnelEnds(r)
      BY <2>0, <2>3, EndHeld
    <2> QED BY <2>1, <2>2, <2>3 DEF Step
  <1>3. cache' = cache /\ \A w \in writes' : Entry(api, w)
    <2>1. CASE StreamEnd(r)
      BY <2>1, RecordedEntry DEF Holding, StreamEnd
    <2>2. CASE ~StreamEnd(r)
      <3>1. UNCHANGED <<cache, writes>>
        BY <2>2, Zenon DEF Step, Arrive, ReadBody, Lookup, Forward, Record, FetchField, Stitch,
           StreamUnrecorded, Switch, ClientMessage, TunnelEnds
      <3> QED BY <3>1 DEF Holding
    <2> QED BY <2>1, <2>2
  <1>4. DOMAIN reqs' = Requests /\ \A q \in Requests : q # r => reqs'[q] = reqs[q]
    BY <1>1 DEF Holding
  <1> QED BY <1>0, <1>2, <1>3, <1>4 DEF Holding

\* What requests hold was checked, and the cache is what its keys say.
LEMMA AlwaysHolding == Spec => []Holding
  <1>1. Init => Holding
    <2> SUFFICES ASSUME Init, NEW r \in Requests PROVE DOMAIN reqs = Requests /\ Held(api, reqs[r])
      BY DEF Init, Holding
    <2>1. reqs[r] = Fresh /\ DOMAIN reqs = Requests
      BY DEF Init
    <2>2. DOMAIN Fresh = Fields /\ Fresh.pc = "idle" /\ Fresh.state = {} /\ Fresh.doc = {}
          /\ Fresh.ops = {} /\ Fresh.key = {} /\ Fresh.out = {} /\ Fresh.vars = NoVars
      BY DEF Fresh, Fields
    <2>3. Lined(CanonicalVariables(NoVars))
      BY NoVarsLined
    <2> QED BY <2>1, <2>2, <2>3 DEF Held, Work, Answers
  <1>2. Served /\ Holding /\ [Next]_vars => Holding'
    <2> SUFFICES ASSUME Served, Holding, [Next]_vars PROVE Holding'
      OBVIOUS
    <2>1. CASE SyncNext /\ UNCHANGED requestVars
      BY <2>1, SyncKeeps DEF requestVars, Holding
    <2>2. CASE \E r \in Requests : Step(r)
      BY <2>2, StepHolds
    <2>3. CASE \E w \in writes : WriteCache(w)
      <3>1. PICK w \in writes : WriteCache(w)
        BY <2>3
      <3>2. reqs' = reqs /\ api' = api
        BY <3>1, RequestsKeep DEF WriteCache
      <3>3. cache' \cup writes' \subseteq cache \cup writes
        BY <3>1 DEF WriteCache
      <3> QED BY <3>2, <3>3 DEF Holding
    <2>4. CASE UNCHANGED vars
      BY <2>4 DEF vars, syncVars, requestVars, Holding
    <2> QED BY <2>1, <2>2, <2>3, <2>4 DEF Next
  <1> QED BY <1>1, <1>2, AlwaysServed, PTL DEF Spec

\* Whatever the upstream's introspection gives, every schema state, the served
\* one and those requests in flight still hold, compiles and suits all the
\* persisted documents (apply_introspection).
THEOREM PersistedQueriesStayValid == Spec => []PersistedStayValid
  <1>1. Served /\ Holding => PersistedStayValid
    <2> SUFFICES ASSUME Served, Holding,
                        NEW s \in {leaf} \cup UNION {reqs[r].state : r \in Requests}
                 PROVE  s.schema.compiles /\ \A p \in DOMAIN s.docs : ValidAgainst(s.schema, s.docs[p])
      BY DEF PersistedStayValid
    <2>1. Sound(api, s)
      BY DEF Served, Holding, Held, Work
    <2> QED BY <2>1 DEF Sound
  <1> QED BY <1>1, AlwaysServed, AlwaysHolding, PTL

\* A response from the cache is one to a query, without errors, under the
\* schema the request was validated against; and to the request's own document,
\* operation and variables whenever the variables of the two have as many
\* lines, as all JSON has (GraphQlCache::key, canonical_variables).
THEOREM GraphqlHitsAreSound == Spec => []GraphqlHitSound
  <1>1. Holding => GraphqlHitSound
    BY Zenon DEF Holding, Held, Answers, Hit, GraphqlHitSound
  <1> QED BY <1>1, AlwaysHolding, PTL

-----------------------------------------------------------------------------
(* The walks of check_document.  Numbers first: greatest elements, and        *)
(* recursion from a document's last node to its first.                        *)

\* A nonempty set of naturals with an upper bound has a greatest element,
\* which Max is.
LEMMA GreatestNatural ==
  ASSUME NEW T \in SUBSET Nat, T # {}, NEW b \in Nat, \A t \in T : t <= b
  PROVE  Max(T) \in T /\ \A t \in T : t <= Max(T)
  <1> DEFINE U == {u \in Nat : \A t \in T : t <= u}
             m == Min(U)
  <1>1. m \in U /\ \A u \in U : m <= u
    <2>1. U \in SUBSET Nat /\ U # {}
      OBVIOUS
    <2> HIDE DEF U
    <2> QED BY <2>1, LeastNatural
  <1> HIDE DEF m
  <1>2. m \in T
    <2> SUFFICES ASSUME m \notin T PROVE FALSE
      OBVIOUS
    <2>1. \A t \in T : t < m
      BY <1>1
    <2>2. m \in Nat /\ m - 1 \in Nat
      <3>1. PICK t \in T : t \in Nat
        OBVIOUS
      <3>2. t < m /\ m \in Nat
        BY <1>1, <2>1
      <3> QED BY <3>1, <3>2
    <2>3. \A t \in T : t <= m - 1
      BY <2>1, <2>2
    <2>4. m - 1 \in U
      BY <2>2, <2>3
    <2> HIDE DEF U
    <2> QED BY <1>1, <2>2, <2>4
  <1>3. \E x \in T : \A y \in T : x >= y
    BY <1>1, <1>2
  <1>4. Max(T) \in T /\ \A y \in T : Max(T) >= y
    BY <1>3, Zenon DEF Max
  <1> QED BY <1>4

\* Finitely many naturals have an upper bound.
LEMMA BoundedImage ==
  ASSUME NEW n \in Nat, NEW f \in [1..n -> Nat]
  PROVE  \E b \in Nat : \A k \in 1..n : f[k] <= b
  <1> DEFINE Good(m) == \E b \in Nat : \A k \in 1..m : f[k] <= b
             Bad == {m \in 0..n : ~ Good(m)}
  <1>1. CASE Bad = {}
    <2> HIDE DEF Good
    <2>1. Good(n)
      BY <1>1
    <2> QED BY <2>1 DEF Good
  <1>2. CASE Bad # {}
    <2> DEFINE m == Min(Bad)
    <2>1. Bad \in SUBSET Nat
      OBVIOUS
    <2>2. m \in Bad /\ \A y \in Bad : m <= y
      <3> HIDE DEF Bad
      <3> QED BY <1>2, <2>1, LeastNatural
    <2> HIDE DEF m
    <2>3. m # 0
      <3>1. \A k \in 1..0 : f[k] <= 0
        OBVIOUS
      <3> QED BY <2>2, <3>1
    <2>4. m - 1 \in 0..n /\ Good(m - 1)
      <3> HIDE DEF Good
      <3> QED BY <2>2, <2>3
    <2>5. PICK b \in Nat : \A k \in 1..(m - 1) : f[k] <= b
      BY <2>4
    <2>6. f[m] \in Nat /\ m \in 1..n
      BY <2>2, <2>3
    <2>7. b + f[m] \in Nat /\ \A k \in 1..m : f[k] <= b + f[m]
      <3>1. ASSUME NEW k \in 1..m PROVE f[k] <= b + f[m]
        <4>1. CASE k = m
          BY <2>6, <4>1
        <4>2. CASE k # m
          <5>1. f[k] <= b /\ f[k] \in Nat
            BY <2>5, <2>6, <4>2
          <5> QED BY <2>6, <5>1
        <4> QED BY <4>1, <4>2
      <3> QED BY <2>6, <3>1
    <2> QED BY <2>2, <2>7
  <1> QED BY <1>1, <1>2

\* B says what a function is at each number from what it is at later ones.
Causal(n, V, B) ==
  /\ B \in [[1..n -> V] -> [1..n -> V]]
  /\ \A f, g \in [1..n -> V], i \in 1..n :
       (\A k \in (i + 1)..n : f[k] = g[k]) => B[f][i] = B[g][i]

\* Such a function exists.
LEMMA WalkExists ==
  ASSUME NEW n \in Nat, NEW V, NEW v \in V, NEW B, Causal(n, V, B)
  PROVE  \E f \in [1..n -> V] : f = B[f]
  <1> USE DEF Causal
  <1> DEFINE Good(j) == \E f \in [1..n -> V] : \A i \in (n - j + 1)..n : f[i] = B[f][i]
             Bad == {j \in 0..n : ~ Good(j)}
  <1>1. CASE Bad # {}
    <2> DEFINE j == Min(Bad)
    <2>1. Bad \in SUBSET Nat
      OBVIOUS
    <2>2. j \in Bad /\ \A y \in Bad : j <= y
      <3> HIDE DEF Bad
      <3> QED BY <1>1, <2>1, LeastNatural
    <2> HIDE DEF j
    <2>3. j # 0
      <3>1. [i \in 1..n |-> v] \in [1..n -> V]
        OBVIOUS
      <3>2. (n - 0 + 1)..n = {}
        OBVIOUS
      <3>3. Good(0)
        BY <3>1, <3>2
      <3> HIDE DEF Good
      <3> QED BY <2>2, <3>3
    <2>4. j - 1 \in 0..n /\ Good(j - 1)
      <3> HIDE DEF Good
      <3> QED BY <2>2, <2>3
    <2> DEFINE m == n - j + 1
    <2>5. m \in 1..n /\ n - (j - 1) + 1 = m + 1
      BY <2>2, <2>3
    <2>6. PICK f \in [1..n -> V] : \A i \in (m + 1)..n : f[i] = B[f][i]
      BY <2>4, <2>5
    <2> HIDE DEF m
    <2> DEFINE g == [f EXCEPT ![m] = B[f][m]]
    <2>7. B[f] \in [1..n -> V]
      OBVIOUS
    <2>8. g \in [1..n -> V] /\ g[m] = B[f][m] /\ \A k \in 1..n : k # m => g[k] = f[k]
      BY <2>5, <2>7
    <2> HIDE DEF g
    <2>9. ASSUME NEW i \in m..n PROVE g[i] = B[g][i]
      <3>1. i \in 1..n
        BY <2>5
      <3>2. \A k \in (i + 1)..n : g[k] = f[k]
        BY <2>5, <2>8
      <3>3. B[g][i] = B[f][i]
        BY <2>8, <3>1, <3>2
      <3>4. CASE i = m
        BY <2>8, <3>3, <3>4
      <3>5. CASE i # m
        <4>1. i \in (m + 1)..n
          BY <2>5, <3>5
        <4> QED BY <2>6, <2>8, <3>1, <3>3, <3>5, <4>1
      <3> QED BY <3>4, <3>5
    <2>10. Good(j)
      BY <2>8, <2>9 DEF m
    <2> QED BY <2>2, <2>10
  <1>2. CASE Bad = {}
    <2>1. Good(n)
      <3> HIDE DEF Good
      <3> QED BY <1>2
    <2>2. PICK f \in [1..n -> V] : \A i \in 1..n : f[i] = B[f][i]
      BY <2>1
    <2>3. B[f] \in [1..n -> V]
      OBVIOUS
    <2>4. f = B[f]
      BY <2>2, <2>3
    <2> QED BY <2>4
  <1> QED BY <1>1, <1>2

-----------------------------------------------------------------------------
(* What the walks give, node by node.                                         *)

\* The selections at or under a node.
LEMMA ReachEquation ==
  ASSUME NEW doc, WellFormed(doc)
  PROVE  /\ DOMAIN Reach(doc) = DOMAIN doc.nodes
         /\ \A i \in DOMAIN doc.nodes :
              Reach(doc)[i] = {i} \cup UNION {Reach(doc)[k] : k \in Range(Kids(doc, i))}
  <1> DEFINE n == Len(doc.nodes)
             D == 1..n
             next(i) == Range(Kids(doc, i))
             Body(f, i) == {i} \cup UNION {f[k] : k \in next(i)}
             P(f) == f = [i \in D |-> Body(f, i)]
             V == SUBSET D
             B == [f \in [D -> V] |-> [i \in D |-> Body(f, i)]]
  <1>1. n \in Nat /\ DOMAIN doc.nodes = D /\ \A i \in D : next(i) \subseteq (i + 1)..n
    BY DEF WellFormed
  <1> HIDE DEF n, next
  <1>2. \A i \in D : next(i) \subseteq D
    BY <1>1
  <1>3. \E f : P(f)
    <2>1. \A f \in [D -> V], i \in D : Body(f, i) \in V
      BY <1>2
    <2>2. \A f, g \in [D -> V], i \in D :
            (\A k \in (i + 1)..n : f[k] = g[k]) => Body(f, i) = Body(g, i)
      <3> SUFFICES ASSUME NEW f \in [D -> V], NEW g \in [D -> V], NEW i \in D,
                          \A k \in (i + 1)..n : f[k] = g[k]
                   PROVE  {f[k] : k \in next(i)} = {g[k] : k \in next(i)}
        OBVIOUS
      <3>1. \A k \in next(i) : f[k] = g[k]
        BY <1>1
      <3> QED BY <3>1
    <2> HIDE DEF Body
    <2>3. \A f \in [D -> V], i \in D : B[f][i] = Body(f, i) /\ B[f] = [j \in D |-> Body(f, j)]
      OBVIOUS
    <2>4. B \in [[D -> V] -> [D -> V]] /\ {} \in V
      BY <2>1
    <2>5. \A f, g \in [D -> V], i \in D :
            (\A k \in (i + 1)..n : f[k] = g[k]) => B[f][i] = B[g][i]
      BY <2>2, <2>3
    <2> HIDE DEF B, V
    <2>6. Causal(n, V, B)
      BY <2>4, <2>5 DEF Causal
    <2>7. PICK f \in [D -> V] : f = B[f]
      BY <1>1, <2>4, <2>6, WalkExists
    <2>8. P(f)
      BY <2>7 DEF B
    <2> QED BY <2>8
  <1>4. Reach(doc) = CHOOSE f : P(f)
    BY <1>1 DEF Reach, next
  <1>5. P(Reach(doc))
    <2> HIDE DEF P
    <2> QED BY <1>3, <1>4, Zenon
  <1> QED BY <1>1, <1>5 DEF next

\* The greatest of finitely many naturals, and zero.
LEMMA MaxOfImage ==
  ASSUME NEW n \in Nat, NEW f \in [1..n -> Nat], NEW K \in SUBSET (1..n)
  PROVE  /\ Max({0} \cup {f[k] : k \in K}) \in Nat
         /\ \A k \in K : f[k] <= Max({0} \cup {f[k2] : k2 \in K})
  <1> DEFINE T == {0} \cup {f[k] : k \in K}
  <1>1. PICK b \in Nat : \A k \in 1..n : f[k] <= b
    BY BoundedImage
  <1>2. T \in SUBSET Nat /\ T # {} /\ (\A t \in T : t <= b) /\ \A k \in K : f[k] \in T
    BY <1>1
  <1> HIDE DEF T
  <1>3. Max(T) \in T /\ \A t \in T : t <= Max(T)
    BY <1>2, GreatestNatural
  <1>4. Max(T) \in Nat /\ \A k \in K : f[k] <= Max(T)
    BY <1>2, <1>3
  <1> QED BY <1>4 DEF T

\* The fields a node stands for.
LEMMA FirstFieldsEquation ==
  ASSUME NEW doc, WellFormed(doc)
  PROVE  /\ DOMAIN FirstFields(doc) = DOMAIN doc.nodes
         /\ \A i \in DOMAIN doc.nodes :
              FirstFields(doc)[i] = IF IsField(doc, i) THEN {i}
                                ELSE UNION {FirstFields(doc)[k] : k \in Range(Kids(doc, i))}
  <1> DEFINE n == Len(doc.nodes)
             D == 1..n
             next(i) == Range(Kids(doc, i))
             Body(f, i) == IF IsField(doc, i) THEN {i} ELSE UNION {f[k] : k \in next(i)}
             P(f) == f = [i \in D |-> Body(f, i)]
             V == SUBSET D
             B == [f \in [D -> V] |-> [i \in D |-> Body(f, i)]]
  <1>1. n \in Nat /\ DOMAIN doc.nodes = D /\ \A i \in D : next(i) \subseteq (i + 1)..n
    BY DEF WellFormed
  <1> HIDE DEF n, next
  <1>2. \A i \in D : next(i) \subseteq D
    BY <1>1
  <1>3. \E f : P(f)
    <2>1. \A f \in [D -> V], i \in D : Body(f, i) \in V
      BY <1>2
    <2>2. \A f, g \in [D -> V], i \in D :
            (\A k \in (i + 1)..n : f[k] = g[k]) => Body(f, i) = Body(g, i)
      <3> SUFFICES ASSUME NEW f \in [D -> V], NEW g \in [D -> V], NEW i \in D,
                          \A k \in (i + 1)..n : f[k] = g[k]
                   PROVE  {f[k] : k \in next(i)} = {g[k] : k \in next(i)}
        OBVIOUS
      <3>1. \A k \in next(i) : f[k] = g[k]
        BY <1>1
      <3> QED BY <3>1
    <2> HIDE DEF Body
    <2>3. \A f \in [D -> V], i \in D : B[f][i] = Body(f, i) /\ B[f] = [j \in D |-> Body(f, j)]
      OBVIOUS
    <2>4. B \in [[D -> V] -> [D -> V]] /\ {} \in V
      BY <2>1
    <2>5. \A f, g \in [D -> V], i \in D :
            (\A k \in (i + 1)..n : f[k] = g[k]) => B[f][i] = B[g][i]
      BY <2>2, <2>3
    <2> HIDE DEF B, V
    <2>6. Causal(n, V, B)
      BY <2>4, <2>5 DEF Causal
    <2>7. PICK f \in [D -> V] : f = B[f]
      BY <1>1, <2>4, <2>6, WalkExists
    <2>8. P(f)
      BY <2>7 DEF B
    <2> QED BY <2>8
  <1>4. FirstFields(doc) = CHOOSE f : P(f)
    BY <1>1 DEF FirstFields, next
  <1>5. P(FirstFields(doc))
    <2> HIDE DEF P
    <2> QED BY <1>3, <1>4, Zenon
  <1> QED BY <1>1, <1>5 DEF next

\* The nested fields of the deepest path through a node.
LEMMA DepthsEquation ==
  ASSUME NEW doc, WellFormed(doc)
  PROVE  /\ Depths(doc) \in [DOMAIN doc.nodes -> Nat]
         /\ \A i \in DOMAIN doc.nodes :
              Depths(doc)[i] = (IF IsField(doc, i) THEN 1 ELSE 0)
                                 + Max({0} \cup {Depths(doc)[k] : k \in Range(Kids(doc, i))})
  <1> DEFINE n == Len(doc.nodes)
             D == 1..n
             next(i) == Range(Kids(doc, i))
             Body(f, i) == (IF IsField(doc, i) THEN 1 ELSE 0) + Max({0} \cup {f[k] : k \in next(i)})
             P(f) == f = [i \in D |-> Body(f, i)]
             V == Nat
             B == [f \in [D -> V] |-> [i \in D |-> Body(f, i)]]
  <1>1. n \in Nat /\ DOMAIN doc.nodes = D /\ \A i \in D : next(i) \subseteq (i + 1)..n
    BY DEF WellFormed
  <1> HIDE DEF n, next
  <1>2. \A i \in D : next(i) \subseteq D
    BY <1>1
  <1>3. \E f : P(f)
    <2>1. \A f \in [D -> V], i \in D : Body(f, i) \in V
      <3> SUFFICES ASSUME NEW f \in [D -> V], NEW i \in D PROVE Body(f, i) \in V
        OBVIOUS
      <3>1. Max({0} \cup {f[k] : k \in next(i)}) \in Nat
        BY <1>1, <1>2, MaxOfImage
      <3> QED BY <3>1
    <2>2. \A f, g \in [D -> V], i \in D :
            (\A k \in (i + 1)..n : f[k] = g[k]) => Body(f, i) = Body(g, i)
      <3> SUFFICES ASSUME NEW f \in [D -> V], NEW g \in [D -> V], NEW i \in D,
                          \A k \in (i + 1)..n : f[k] = g[k]
                   PROVE  {f[k] : k \in next(i)} = {g[k] : k \in next(i)}
        BY Zenon
      <3>1. \A k \in next(i) : f[k] = g[k]
        BY <1>1
      <3> QED BY <3>1
    <2> HIDE DEF Body
    <2>3. \A f \in [D -> V], i \in D : B[f][i] = Body(f, i) /\ B[f] = [j \in D |-> Body(f, j)]
      OBVIOUS
    <2>4. B \in [[D -> V] -> [D -> V]] /\ 0 \in V
      BY <2>1
    <2>5. \A f, g \in [D -> V], i \in D :
            (\A k \in (i + 1)..n : f[k] = g[k]) => B[f][i] = B[g][i]
      BY <2>2, <2>3
    <2> HIDE DEF B, V
    <2>6. Causal(n, V, B)
      BY <2>4, <2>5 DEF Causal
    <2>7. PICK f \in [D -> V] : f = B[f]
      BY <1>1, <2>4, <2>6, WalkExists
    <2>8. P(f)
      BY <2>7 DEF B
    <2> QED BY <2>8
  <1>4. Depths(doc) = CHOOSE f : P(f)
    BY <1>1 DEF Depths, next
  <1>5. P(Depths(doc))
    <2> HIDE DEF P
    <2> QED BY <1>3, <1>4, Zenon
  <1>6. \A i \in D : Depths(doc)[i] \in Nat
    <2> DEFINE f == Depths(doc)
               Bad == {i \in D : f[i] \notin Nat}
               i == Max(Bad)
    <2> SUFFICES ASSUME Bad # {} PROVE FALSE
      OBVIOUS
    <2>1. Bad \in SUBSET Nat /\ \A k \in Bad : k <= n
      BY <1>1
    <2>2. i \in Bad /\ \A k \in Bad : k <= i
      <3> HIDE DEF Bad
      <3> QED BY <1>1, <2>1, GreatestNatural
    <2> HIDE DEF i
    <2>3. f[i] = Body(f, i)
      <3> HIDE DEF Body, f
      <3> QED BY <1>5, <2>2 DEF f
    <2> HIDE DEF f
    <2>4. \A k \in next(i) : k \in D /\ f[k] \in Nat
      BY <1>1, <1>2, <2>2
    <2> DEFINE g == [k \in D |-> IF k \in next(i) THEN f[k] ELSE 0]
    <2>5. g \in [D -> Nat] /\ \A k \in next(i) : g[k] = f[k]
      BY <2>4
    <2>6. {f[k] : k \in next(i)} = {g[k] : k \in next(i)}
      BY <2>5
    <2> HIDE DEF g
    <2>7. Max({0} \cup {g[k] : k \in next(i)}) \in Nat
      BY <1>1, <1>2, <2>2, <2>5, MaxOfImage
    <2>8. Max({0} \cup {f[k] : k \in next(i)}) \in Nat
      BY <2>6, <2>7
    <2>9. f[i] \in Nat
      BY <2>3, <2>8
    <2> QED BY <2>2, <2>9
  <1>7. Depths(doc) \in [D -> Nat]
    <2> HIDE DEF Body
    <2> QED BY <1>5, <1>6
  <1> QED BY <1>1, <1>5, <1>7 DEF next

-----------------------------------------------------------------------------
(* Chains against walks.                                                      *)

\* The part of a chain from a node on, and its fields.
From(C, i) == {k \in C : k >= i}
After(C, i) == Min({k \in C : k > i})
FieldsOf(doc, C) == {k \in C : IsField(doc, k)}

\* A chain is its first node and the rest.
LEMMA ChainSplits ==
  ASSUME NEW n \in Nat, NEW C \in SUBSET (1..n), C # {}, NEW i \in C
  PROVE  /\ Max(C) \in C /\ Min(C) \in C /\ C = From(C, Min(C))
         /\ i = Max(C) => From(C, i) = {i}
         /\ i # Max(C) => /\ After(C, i) \in C /\ After(C, i) > i
                          /\ From(C, i) = {i} \cup From(C, After(C, i))
  <1>1. C \in SUBSET Nat /\ \A k \in C : k <= n
    OBVIOUS
  <1>2. Max(C) \in C /\ \A k \in C : k <= Max(C)
    BY <1>1, GreatestNatural
  <1>3. Min(C) \in C /\ \A k \in C : Min(C) <= k
    BY <1>1, LeastNatural
  <1>4. C = From(C, Min(C))
    BY <1>1, <1>3 DEF From
  <1>5. CASE i = Max(C)
    <2>1. \A k \in C : k >= i => k = i
      BY <1>1, <1>2, <1>5
    <2>2. i >= i
      BY <1>1
    <2>3. From(C, i) = {i}
      BY <2>1, <2>2 DEF From
    <2> QED BY <1>2, <1>3, <1>4, <1>5, <2>3
  <1>6. CASE i # Max(C)
    <2> DEFINE L == {k \in C : k > i}
               m == Min(L)
    <2>0. Max(C) > i
      <3>1. i <= Max(C) /\ i \in Nat /\ Max(C) \in Nat
        BY <1>1, <1>2
      <3> QED BY <1>6, <3>1
    <2>1. L \in SUBSET Nat /\ L # {}
      BY <1>1, <1>2, <2>0
    <2>2. m \in L /\ \A k \in L : m <= k
      <3> HIDE DEF L
      <3> QED BY <2>1, LeastNatural
    <2>3. m = After(C, i)
      BY DEF After
    <2> HIDE DEF m
    <2>4. From(C, i) = {i} \cup From(C, m)
      <3>1. m \in C /\ m > i /\ m \in Nat /\ i \in Nat
        BY <1>1, <2>2
      <3>2. \A k \in C : k >= i <=> (k = i \/ k >= m)
        <4> SUFFICES ASSUME NEW k \in C PROVE k >= i <=> (k = i \/ k >= m)
          OBVIOUS
        <4>1. k \in Nat /\ (k > i => m <= k)
          BY <1>1, <2>2
        <4> QED BY <3>1, <4>1
      <3> QED BY <3>2 DEF From
    <2> QED BY <1>2, <1>3, <1>4, <1>6, <2>2, <2>3, <2>4
  <1> QED BY <1>5, <1>6

\* Induction along a chain, from its last node up.
LEMMA ChainInduction ==
  ASSUME NEW n \in Nat, NEW C \in SUBSET (1..n), C # {}, NEW S, Max(C) \in S,
         \A i \in C : i # Max(C) /\ After(C, i) \in S => i \in S
  PROVE  C \subseteq S
  <1> DEFINE Bad == C \ S
             i == Max(Bad)
  <1> SUFFICES ASSUME Bad # {} PROVE FALSE
    OBVIOUS
  <1>0. \A k \in C : k \in Nat /\ k <= n
    OBVIOUS
  <1>1. Bad \in SUBSET Nat /\ \A k \in Bad : k <= n
    BY <1>0, Zenon
  <1>2. i \in Bad /\ \A k \in Bad : k <= i
    <2> HIDE DEF Bad
    <2> QED BY <1>1, GreatestNatural
  <1> HIDE DEF i
  <1>3. i # Max(C) /\ i \in C /\ i \notin S
    BY <1>2
  <1>4. After(C, i) \in C /\ After(C, i) > i
    BY <1>3, ChainSplits
  <1>5. After(C, i) \notin Bad
    BY <1>1, <1>2, <1>3, <1>4
  <1> QED BY <1>3, <1>4, <1>5

\* Along a chain, the walks see every node, its first field, and at least as
\* many nested fields as it has.
LEMMA ChainWalked ==
  ASSUME NEW doc, WellFormed(doc), NEW C \in Chains(doc)
  PROVE  /\ Min(C) \in RootKids(doc) /\ Min(C) \in DOMAIN doc.nodes
         /\ C \subseteq Reach(doc)[Min(C)]
         /\ FieldsOf(doc, C) # {} => Min(FieldsOf(doc, C)) \in FirstFields(doc)[Min(C)]
         /\ Cardinality(FieldsOf(doc, C)) <= Depths(doc)[Min(C)]
         /\ Cardinality(FieldsOf(doc, C)) \in Nat
  <1> DEFINE n == Len(doc.nodes)
             D == 1..n
             next(i) == Range(Kids(doc, i))
             R == Reach(doc)
             F == FirstFields(doc)
             H == Depths(doc)
             fields(T) == FieldsOf(doc, T)
  <1>1. n \in Nat /\ DOMAIN doc.nodes = D /\ \A i \in D : next(i) \subseteq D
    BY DEF WellFormed
  <1>2. /\ C \in SUBSET D /\ C # {} /\ Min(C) \in RootKids(doc)
        /\ \A i \in C : i = Max(C) \/ After(C, i) \in next(i)
    BY <1>1 DEF Chains, IsChain, After
  <1>3. \A i \in D : R[i] = {i} \cup UNION {R[k] : k \in next(i)}
    BY <1>1, ReachEquation
  <1>4. \A i \in D : F[i] = IF IsField(doc, i) THEN {i} ELSE UNION {F[k] : k \in next(i)}
    BY <1>1, FirstFieldsEquation
  <1>5. \A i \in D : /\ H[i] \in Nat
                     /\ H[i] >= (IF IsField(doc, i) THEN 1 ELSE 0)
                     /\ \A k \in next(i) : H[i] >= (IF IsField(doc, i) THEN 1 ELSE 0) + H[k]
    <2> SUFFICES ASSUME NEW i \in D
                 PROVE  /\ H[i] \in Nat /\ H[i] >= (IF IsField(doc, i) THEN 1 ELSE 0)
                        /\ \A k \in next(i) : H[i] >= (IF IsField(doc, i) THEN 1 ELSE 0) + H[k]
      OBVIOUS
    <2> DEFINE m == Max({0} \cup {H[k] : k \in next(i)})
    <2>2. H \in [D -> Nat]
      BY <1>1, DepthsEquation
    <2>1. \A k \in D : H[k] \in Nat
      BY <2>2
    <2>3. H[i] = (IF IsField(doc, i) THEN 1 ELSE 0) + m
      BY <1>1, DepthsEquation
    <2>4. m \in Nat /\ \A k \in next(i) : H[k] <= m
      <3> HIDE DEF H, next
      <3> QED BY <1>1, <2>2, MaxOfImage
    <2> HIDE DEF m, H, next
    <2>5. \A k \in next(i) : H[k] \in Nat
      BY <1>1, <2>1
    <2> QED BY <2>1, <2>3, <2>4, <2>5
  <1> HIDE DEF R, F, H, next, n
  <1>6. \A T \in SUBSET C : IsFiniteSet(fields(T)) /\ Cardinality(fields(T)) \in Nat
    <2>1. IsFiniteSet(D)
      BY <1>1, FS_Interval
    <2>2. \A T \in SUBSET C : fields(T) \subseteq D
      BY <1>2 DEF FieldsOf
    <2> QED BY <2>1, <2>2, FS_Subset, FS_CardinalityType
  <1> DEFINE S1 == {i \in C : From(C, i) \subseteq R[i]}
             S2 == {i \in C : fields(From(C, i)) # {} => Min(fields(From(C, i))) \in F[i]}
             S3 == {i \in C : Cardinality(fields(From(C, i))) <= H[i]}
  <1>7. C \subseteq S1
    <2>1. Max(C) \in S1
      <3>1. Max(C) \in C /\ From(C, Max(C)) = {Max(C)}
        BY <1>1, <1>2, ChainSplits
      <3>2. Max(C) \in R[Max(C)]
        BY <1>2, <1>3, <3>1
      <3> QED BY <3>1, <3>2
    <2>2. ASSUME NEW i \in C, i # Max(C), After(C, i) \in S1 PROVE i \in S1
      <3>1. From(C, i) = {i} \cup From(C, After(C, i)) /\ After(C, i) \in next(i)
        BY <1>1, <1>2, <2>2, ChainSplits
      <3>2. R[After(C, i)] \subseteq R[i] /\ i \in R[i]
        BY <1>2, <1>3, <3>1
      <3> QED BY <2>2, <3>1, <3>2
    <2> HIDE DEF S1
    <2> QED BY <1>1, <1>2, <2>1, <2>2, ChainInduction
  <1>8. C \subseteq S2
    <2>0. ASSUME NEW i \in C, IsField(doc, i) PROVE i \in S2
      <3> DEFINE G == fields(From(C, i))
      <3>1. i \in G /\ G \in SUBSET Nat /\ \A k \in G : i <= k
        <4>1. \A k \in C : k \in Nat /\ (k >= i => i <= k) /\ i >= i
          BY <1>1, <1>2
        <4> QED BY <2>0, <4>1 DEF FieldsOf, From
      <3>2. Min(G) \in G /\ \A k \in G : Min(G) <= k
        <4> HIDE DEF G
        <4> QED BY <3>1, LeastNatural
      <3>3. Min(G) = i
        <4> HIDE DEF G
        <4>1. Min(G) <= i /\ i <= Min(G) /\ i \in Nat /\ Min(G) \in Nat
          BY <3>1, <3>2
        <4> QED BY <4>1
      <3>4. i \in F[i]
        BY <1>2, <1>4, <2>0
      <3> QED BY <3>3, <3>4
    <2>1. Max(C) \in S2
      <3>1. Max(C) \in C /\ From(C, Max(C)) = {Max(C)}
        BY <1>1, <1>2, ChainSplits
      <3>2. CASE ~IsField(doc, Max(C))
        <4>1. fields(From(C, Max(C))) = {}
          BY <3>1, <3>2 DEF FieldsOf
        <4> QED BY <3>1, <4>1
      <3> HIDE DEF S2
      <3> QED BY <2>0, <3>1, <3>2
    <2>2. ASSUME NEW i \in C, i # Max(C), After(C, i) \in S2 PROVE i \in S2
      <3>1. From(C, i) = {i} \cup From(C, After(C, i)) /\ After(C, i) \in next(i)
        BY <1>1, <1>2, <2>2, ChainSplits
      <3>2. CASE ~IsField(doc, i)
        <4>1. fields(From(C, i)) = fields(From(C, After(C, i)))
          BY <3>1, <3>2 DEF FieldsOf
        <4>2. F[After(C, i)] \subseteq F[i]
          BY <1>2, <1>4, <3>1, <3>2
        <4> QED BY <2>2, <4>1, <4>2
      <3> HIDE DEF S2
      <3> QED BY <2>0, <3>2
    <2> HIDE DEF S2
    <2> QED BY <1>1, <1>2, <2>1, <2>2, ChainInduction
  <1>9. C \subseteq S3
    <2> DEFINE w(i) == IF IsField(doc, i) THEN 1 ELSE 0
    <2>1. Max(C) \in S3
      <3>1. Max(C) \in C /\ From(C, Max(C)) = {Max(C)}
        BY <1>1, <1>2, ChainSplits
      <3>2. Cardinality(fields({Max(C)})) <= w(Max(C))
        <4>1. CASE IsField(doc, Max(C))
          <5>1. fields({Max(C)}) = {Max(C)}
            BY <4>1 DEF FieldsOf
          <5> QED BY <4>1, <5>1, FS_Singleton
        <4>2. CASE ~IsField(doc, Max(C))
          <5>1. fields({Max(C)}) = {}
            BY <4>2 DEF FieldsOf
          <5> QED BY <4>2, <5>1, FS_EmptySet
        <4> QED BY <4>1, <4>2
      <3>3. Cardinality(fields({Max(C)})) \in Nat
        BY <1>6, <3>1
      <3>4. H[Max(C)] \in Nat /\ H[Max(C)] >= w(Max(C))
        BY <1>2, <1>5, <3>1
      <3> QED BY <3>1, <3>2, <3>3, <3>4
    <2>2. ASSUME NEW i \in C, i # Max(C), After(C, i) \in S3 PROVE i \in S3
      <3> DEFINE j == After(C, i)
                 G == fields(From(C, j))
      <3>1. From(C, i) = {i} \cup From(C, j) /\ j \in next(i) /\ j \in C /\ j > i
        BY <1>1, <1>2, <2>2, ChainSplits
      <3>2. IsFiniteSet(G) /\ Cardinality(G) \in Nat /\ Cardinality(G) <= H[j]
        BY <1>6, <2>2 DEF From
      <3>3. H[j] \in Nat /\ H[i] \in Nat /\ H[i] >= w(i) + H[j]
        BY <1>2, <1>5, <3>1
      <3>4. Cardinality(fields(From(C, i))) <= w(i) + Cardinality(G)
        <4>1. CASE IsField(doc, i)
          <5>1. fields(From(C, i)) = G \cup {i}
            BY <3>1, <4>1 DEF FieldsOf
          <5>2. i \notin G
            BY <1>1, <1>2, <3>1 DEF FieldsOf, From
          <5> HIDE DEF G
          <5>3. Cardinality(G \cup {i}) = Cardinality(G) + 1
            BY <3>2, <5>2, FS_AddElement
          <5> HIDE DEF fields
          <5> QED BY <3>2, <4>1, <5>1, <5>3
        <4>2. CASE ~IsField(doc, i)
          <5>1. fields(From(C, i)) = G
            BY <3>1, <4>2 DEF FieldsOf
          <5> HIDE DEF G
          <5> QED BY <3>2, <4>2, <5>1
        <4> QED BY <4>1, <4>2
      <3>5. Cardinality(fields(From(C, i))) \in Nat
        BY <1>6 DEF From
      <3> HIDE DEF G, j
      <3>6. w(i) \in Nat
        OBVIOUS
      <3> HIDE DEF w
      <3>7. Cardinality(fields(From(C, i))) <= H[i]
        BY <3>2, <3>3, <3>4, <3>5, <3>6
      <3> QED BY <3>7
    <2> HIDE DEF S3
    <2> QED BY <1>1, <1>2, <2>1, <2>2, ChainInduction
  <1>10. Min(C) \in C /\ From(C, Min(C)) = C
    BY <1>1, <1>2, ChainSplits
  <1>11. /\ C \subseteq R[Min(C)]
         /\ fields(C) # {} => Min(fields(C)) \in F[Min(C)]
         /\ Cardinality(fields(C)) <= H[Min(C)]
    BY <1>7, <1>8, <1>9, <1>10
  <1> QED BY <1>1, <1>2, <1>6, <1>10, <1>11 DEF R, F, H

\* A chain has no more nested fields than the document is deep.
LEMMA ChainDepth ==
  ASSUME NEW doc, WellFormed(doc), NEW C \in Chains(doc)
  PROVE  /\ DocumentDepth(doc) \in Nat
         /\ Cardinality(FieldsOf(doc, C)) \in Nat
         /\ Cardinality(FieldsOf(doc, C)) <= DocumentDepth(doc)
  <1> DEFINE n == Len(doc.nodes)
             H == Depths(doc)
             K == RootKids(doc)
             m == Max({0} \cup {H[i] : i \in K})
  <1>1. n \in Nat /\ H \in [1..n -> Nat] /\ K \in SUBSET (1..n)
    BY DepthsEquation DEF WellFormed
  <1>2. /\ Min(C) \in K /\ Cardinality(FieldsOf(doc, C)) <= H[Min(C)]
        /\ Cardinality(FieldsOf(doc, C)) \in Nat
    BY ChainWalked
  <1>3. m = DocumentDepth(doc)
    BY DEF DocumentDepth
  <1> HIDE DEF n, H, K
  <1>4. m \in Nat /\ \A i \in K : H[i] <= m
    BY <1>1, MaxOfImage
  <1> HIDE DEF m
  <1>5. H[Min(C)] \in Nat /\ H[Min(C)] <= m
    BY <1>1, <1>2, <1>4
  <1> QED BY <1>2, <1>3, <1>4, <1>5

\* What check_document's walks let pass is permitted, chain by chain.
LEMMA CheckedPermitted ==
  ASSUME api \in Apis, NEW doc \in Documents(api), NEW schema, NEW grants,
         \A g \in grants : g.max_query_depth \subseteq Int,
         ValidAgainst(schema, doc), CheckDocument(api, grants, doc) = "none"
  PROVE  Permitted(grants, doc, schema)
  <1> DEFINE fields(chain) == {i \in chain : IsField(doc, i)}
             used == UNION {fields(chain) : chain \in Chains(doc)}
             allowed == api.introspection_enabled /\ \A g \in grants : ~g.disable_introspection
             limits == UNION {g.max_query_depth : g \in grants}
             limit == IF limits = {} THEN api.max_query_depth ELSE limits
  <1>1. WellFormed(doc) /\ api.max_query_depth \subseteq Int
    BY ApisAssumption
  <1>2. ASSUME NEW chain \in Chains(doc) PROVE fields(chain) = FieldsOf(doc, chain)
    BY DEF FieldsOf
  <1>3. /\ ~allowed => ~SelectsIntrospection(doc)
        /\ ~IsPureIntrospection(doc) =>
             /\ \A n \in EffectiveDepthLimit(api, grants) : ~(DocumentDepth(doc) > n)
             /\ \A g \in grants : ForbiddenFields(doc, g) = {}
    <2>1. CheckDocument(api, grants, doc) =
            IF ~allowed /\ SelectsIntrospection(doc) THEN "introspection"
            ELSE IF IsPureIntrospection(doc) THEN "none"
            ELSE IF \E n \in EffectiveDepthLimit(api, grants) : DocumentDepth(doc) > n THEN "depth"
            ELSE IF \E g \in grants : ForbiddenFields(doc, g) # {} THEN "field" ELSE "none"
      BY DEF CheckDocument
    <2> HIDE DEF allowed
    <2> QED BY <2>1
  <1>4. \A i \in used : i \in Selected(doc, RootKids(doc)) /\ IsField(doc, i)
    <2> SUFFICES ASSUME NEW chain \in Chains(doc), NEW i \in fields(chain)
                 PROVE  i \in Selected(doc, RootKids(doc)) /\ IsField(doc, i)
      OBVIOUS
    <2>1. Min(chain) \in RootKids(doc) /\ chain \subseteq Reach(doc)[Min(chain)]
      BY <1>1, ChainWalked
    <2> QED BY <2>1 DEF Selected
  <1>5. (\E i \in used : doc.nodes[i].name \in {"__schema", "__type"}) => allowed
    <2> HIDE DEF allowed, used
    <2> QED BY <1>3, <1>4 DEF SelectsIntrospection
  <1>6. ASSUME IsPureIntrospection(doc), NEW chain \in Chains(doc), fields(chain) # {}
        PROVE  IsMeta(doc.nodes[Min(fields(chain))].name)
    <2>1. /\ Min(chain) \in RootKids(doc)
          /\ Min(fields(chain)) \in FirstFields(doc)[Min(chain)]
      BY <1>1, <1>2, <1>6, ChainWalked
    <2> HIDE DEF fields
    <2> QED BY <1>6, <2>1 DEF IsPureIntrospection
  <1>7. ASSUME ~IsPureIntrospection(doc), NEW n \in limit, NEW chain \in Chains(doc), n > 0
        PROVE  Cardinality(fields(chain)) <= n
    <2>1. n \in Int
      BY <1>1
    <2>2. n \in EffectiveDepthLimit(api, grants)
      BY <1>7 DEF EffectiveDepthLimit
    <2>3. ~(DocumentDepth(doc) > n)
      BY <1>3, <1>7, <2>2
    <2>4. /\ DocumentDepth(doc) \in Nat /\ Cardinality(fields(chain)) \in Nat
          /\ Cardinality(fields(chain)) <= DocumentDepth(doc)
      BY <1>1, <1>2, ChainDepth
    <2> HIDE DEF fields
    <2> QED BY <2>1, <2>3, <2>4
  <1>8. ASSUME ~IsPureIntrospection(doc), NEW g \in grants, NEW i \in used
        PROVE  \/ IsMeta(doc.nodes[i].name)
               \/ FieldAllowed(doc.nodes[i].ty, doc.nodes[i].name, g)
    <2>1. ForbiddenFields(doc, g) = {}
      BY <1>3, <1>8
    <2>2. i \in Selected(doc, RootKids(doc)) /\ IsField(doc, i)
      BY <1>4
    <2> HIDE DEF used
    <2> QED BY <2>1, <2>2 DEF ForbiddenFields
  <1> DEFINE introspects == {i \in used : doc.nodes[i].name \in {"__schema", "__type"}} # {}
             onlyMeta == \A chain \in Chains(doc) :
                            fields(chain) # {} => IsMeta(doc.nodes[Min(fields(chain))].name)
             shallow == \A n \in limit, chain \in Chains(doc) : n > 0 => Cardinality(fields(chain)) <= n
             granted == \A g \in grants, i \in used :
                           \/ IsMeta(doc.nodes[i].name)
                           \/ FieldAllowed(doc.nodes[i].ty, doc.nodes[i].name, g)
  <1>9. introspects => allowed
    <2> HIDE DEF allowed, used
    <2> QED BY <1>5
  <1>10. onlyMeta \/ (shallow /\ granted)
    <2> HIDE DEF fields, used, limit
    <2>1. CASE IsPureIntrospection(doc)
      BY <1>6, <2>1
    <2>2. CASE ~IsPureIntrospection(doc)
      BY <1>7, <1>8, <2>2
    <2> QED BY <2>1, <2>2
  <1>11. Permitted(grants, doc, schema) <=>
           /\ ValidAgainst(schema, doc) /\ (introspects => allowed) /\ (onlyMeta \/ (shallow /\ granted))
    BY Zenon DEF Permitted
  <1> HIDE DEF introspects, allowed, onlyMeta, shallow, granted
  <1> QED BY <1>9, <1>10, <1>11

\* Nothing runs, is answered from the cache or passes a tunnel unless the
\* settings and grants permit every field chain of it under the schema it was
\* checked against, whenever a sync swaps the schema (check_document behind
\* plain queries, persisted endpoints and subscriptions).
THEOREM OnlyPermittedOperationsRun == Spec => []OnlyPermittedRuns
  <1>1. Served /\ Holding => OnlyPermittedRuns
    <2> SUFFICES ASSUME Served, Holding, NEW r \in Requests
                 PROVE  /\ reqs[r].doc # {} =>
                             Permitted(CallOf(reqs[r]).grants, DocOf(reqs[r]), StateOf(reqs[r]).schema)
                        /\ \A o \in reqs[r].ops : Permitted(CallOf(reqs[r]).grants, o.doc, o.schema)
      BY Zenon DEF OnlyPermittedRuns
    <2> DEFINE x == reqs[r]
    <2>1. Held(api, x) /\ api \in Apis
      BY DEF Holding, Served
    <2> HIDE DEF x
    <2>2. ASSUME x.doc # {} \/ x.ops # {} PROVE \A g \in CallOf(x).grants : g.max_query_depth \subseteq Int
      <3>1. CallOf(x) \in api.calls
        BY <2>1, <2>2 DEF Held, Started, CallOf
      <3> QED BY <2>1, <3>1, ApisAssumption
    <2>3. ASSUME NEW doc, NEW schema, Checked(api, x, doc, schema), x.doc # {} \/ x.ops # {}
          PROVE  Permitted(CallOf(x).grants, doc, schema)
      BY <2>1, <2>2, <2>3, CheckedPermitted DEF Checked
    <2>4. /\ x.doc # {} => Checked(api, x, DocOf(x), StateOf(x).schema)
          /\ \A o \in x.ops : Checked(api, x, o.doc, o.schema)
      BY <2>1 DEF Held, Work
    <2> QED BY <2>3, <2>4 DEF x
  <1> QED BY <1>1, AlwaysServed, AlwaysHolding, PTL
=============================================================================
