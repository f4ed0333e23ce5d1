----------------------------- MODULE MC_Graphql -----------------------------
(* GraphQL APIs small enough for TLC: each one gives some hard case its room. *)
EXTENDS Supergraph

MCMethods == {"GET", "POST", "DELETE"}

\* Documents.
F(name, ty)           == [sel |-> "field", name |-> name, key |-> name, ty |-> ty, on |-> "",
                          vars |-> {}, kids |-> <<>>]
Obj(name, ty, on, kids) == [F(name, ty) EXCEPT !.on = on, !.kids = kids]
Inline(ty, on, kids)  == [Obj("", ty, on, kids) EXCEPT !.sel = "inline"]
Spread(name, ty, on)  == [F(name, ty) EXCEPT !.sel = "spread", !.on = on]
Op(kind, kids)        == [kind |-> kind, kids |-> kids, vars |-> {"v"}]
One(kind, kids)       == [op \in {""} |-> Op(kind, kids)]
Line(s) == <<<<"text", s>>>>
Doc(text, nodes, frags, ops) == [text |-> Line(text), nodes |-> nodes, frags |-> frags, ops |-> ops]
FragA(kids) == [f \in {"A"} |-> kids]

QHello  == Doc("hello", <<F("hello", "Query")>>, <<>>, One("query", <<1>>))
QGone   == Doc("gone", <<F("gone", "Query")>>, <<>>, One("query", <<1>>))
QDeep   == Doc("deep", <<Obj("me", "Query", "User", <<2>>), Spread("A", "User", "User"),
                          Obj("friend", "User", "User", <<4>>), F("name", "User")>>,
               FragA(<<3>>), One("query", <<1>>))
QShallow == Doc("shallow", <<Obj("me", "Query", "User", <<2>>), F("name", "User")>>, <<>>,
                One("query", <<1>>))
QMeta   == Doc("meta", <<Obj("__schema", "Query", "__Schema", <<2>>), F("__typename", "__Schema")>>,
               <<>>, One("query", <<1>>))
QTwo    == Doc("two", <<F("hello", "Query"), F("me", "Query")>>, <<>>,
               [op \in {"A", "B"} |-> IF op = "A" THEN Op("query", <<1>>) ELSE Op("query", <<2>>)])
QMutate == Doc("mutate", <<F("one", "Mutation"), F("two", "Mutation")>>, <<>>,
               One("mutation", <<1, 2>>))
QWatch  == Doc("watch", <<F("tick", "Subscription")>>, <<>>, One("subscription", <<1>>))

\* Schemas.
UserFields == {<<"Query", "me">>, <<"User", "name">>, <<"User", "friend">>}
Schema(name, fields, roots) ==
  [sdl |-> <<"config", name>>, compiles |-> TRUE, entities |-> FALSE, fields |-> fields, roots |-> roots]
Hello   == Schema("hello", {<<"Query", "hello">>}, {"query"})
HelloGone == Schema("hello_gone", {<<"Query", "hello">>, <<"Query", "gone">>}, {"query"})
NoHello == Schema("no_hello", {<<"Query", "gone">>}, {"query"})
Broken  == [HelloGone EXCEPT !.sdl = <<"config", "broken">>, !.compiles = FALSE]
Users   == Schema("users", UserFields \cup {<<"Query", "hello">>, <<"Subscription", "tick">>},
                  {"query", "subscription"})
Sources == Schema("sources", {<<"Query", "hello">>, <<"Query", "me">>, <<"User", "name">>,
                              <<"User", "friend">>, <<"Mutation", "one">>, <<"Mutation", "two">>},
                  {"query", "mutation"})
Everything == Schema("everything", Users.fields \cup Sources.fields, Users.roots \cup Sources.roots)
Blanked == Schema("", {}, {})

\* Calls.
Call == [method |-> "POST", path |-> "/", body |-> "query", doc |-> QHello, op |-> None,
         vars |-> NoVars, grants |-> None, headers |-> <<>>, params |-> <<>>, offers |-> None]
Ask(doc) == [Call EXCEPT !.doc = doc]
Vars(value) == [form |-> "object", content |-> value]
Verbatim(lines) == [form |-> "text", content |-> lines]
V(value) == [v \in {"v"} |-> value]
Grant == [allowed_types |-> {}, restricted_types |-> {}, max_query_depth |-> {},
          disable_introspection |-> FALSE]
Granted(doc, grant) == [Ask(doc) EXCEPT !.grants = {grant}]

Base ==
  [enabled |-> TRUE, mode |-> "proxy", schema |-> Hello, max_query_depth |-> {},
   introspection_enabled |-> TRUE, cache |-> {}, supergraph |-> {}, data_sources |-> <<>>,
   schema_sync |-> {}, subscriptions |-> {}, playground |-> {}, persisted |-> <<>>,
   upstream |-> Hello, schemas |-> {}, calls |-> {Call}, messages |-> {}, db |-> <<>>]
ACache == {[ttl_secs |-> 1, max_body_bytes |-> 1]}
ASync  == {[interval_ms |-> 1, timeout_ms |-> 1, url |-> {}, headers |-> <<>>]}

PHello == [method |-> "GET", path |-> "/p", params |-> {"id"}, doc |-> QHello, op |-> None,
           vars |-> [v \in {"v", "w"} |-> IF v = "v" THEN <<"path", "id">> ELSE <<"header", "h">>]]
AtP(id) == [Call EXCEPT !.method = "GET", !.path = "/p", !.params = [p \in {"id"} |-> id]]

\* A schema that moves under a persisted endpoint and cached queries.
Synced == [Base EXCEPT !.cache = ACache, !.schema_sync = ASync, !.persisted = <<PHello>>,
             !.schemas = {HelloGone}, !.calls = {AtP("1"), Ask(QGone)}]
Breaking == [Synced EXCEPT !.schemas = {Hello, HelloGone, NoHello, Broken}, !.calls = {}]

\* Two operations in one document, variables in all their forms, a cache.
Cached == [Base EXCEPT !.cache = ACache,
             !.schema = Everything, !.upstream = Everything,
             !.persisted = <<[PHello EXCEPT !.vars = [v \in {"v", "w"} |->
                                IF v = "v" THEN <<"path", "id">> ELSE <<"const", "c">>]]>>,
             !.calls = {[Ask(QTwo) EXCEPT !.op = {"A"}], [Ask(QTwo) EXCEPT !.op = {"B"}],
                        Ask(QTwo), [Ask(QTwo) EXCEPT !.op = {"C"}],
                        AtP("1"), AtP("2"), [AtP("1") EXCEPT !.headers = [h \in {"h"} |-> "x"]],
                        [Call EXCEPT !.vars = Vars(V("1"))], [Call EXCEPT !.vars = Vars(<<>>)],
                        [Call EXCEPT !.method = "GET", !.vars = Verbatim(Line("x"))],
                        Ask(QMutate)}]

\* The end of one document's text is the beginning of another's variables.
QNoted == [QHello EXCEPT !.text = @ \o Line("#c")]
Joined == [Base EXCEPT !.cache = ACache,
             !.calls = {[Ask(QNoted) EXCEPT !.vars = Vars(V("1"))],
                        [Call EXCEPT !.method = "GET",
                                     !.vars = Verbatim(Line("#c") \o <<<<"json", V("1")>>>>)]}]

\* Policing: depth through a fragment, introspection, field grants, tunnels.
Guarded == [Base EXCEPT !.schema = Users, !.upstream = Users, !.max_query_depth = {2},
              !.subscriptions = {[enabled |-> TRUE, max_bytes |-> {}]}, !.playground = {"/play"},
              !.calls = {Ask(QDeep), Ask(QShallow), Ask(QMeta), Ask(QWatch),
                         Granted(QDeep, [Grant EXCEPT !.max_query_depth = {0 - 1}]),
                         Granted(QShallow, [Grant EXCEPT !.max_query_depth = {1}]),
                         Granted(QShallow, [Grant EXCEPT !.restricted_types =
                                               {[name |-> "User", fields |-> {"*"}]}]),
                         Granted(QShallow, [Grant EXCEPT !.allowed_types =
                                               {[name |-> "Query", fields |-> {"me"}]}]),
                         Granted(QMeta, [Grant EXCEPT !.disable_introspection = TRUE]),
                         [Call EXCEPT !.method = "GET", !.path = "/play"],
                         [Call EXCEPT !.method = "DELETE"], [Call EXCEPT !.body = "too_large"],
                         [Call EXCEPT !.body = "missing"]}]

Message(kind, doc) == [kind |-> kind, id |-> TRUE, doc |-> doc]
Tunnelled == [Guarded EXCEPT !.schema_sync = ASync, !.schemas = {[Users EXCEPT
                 !.sdl = <<"config", "quiet">>, !.fields = @ \ {<<"Subscription", "tick">>}]},
              !.calls = {[Call EXCEPT !.method = "GET", !.offers = {{"graphql-ws", "other"}},
                                      !.grants = {[Grant EXCEPT !.max_query_depth = {1}]}]},
              !.messages = {Message("connection_init", {}), Message("binary", {}),
                            Message("subscribe", {QWatch}), Message("start", {QShallow}),
                            Message("subscribe", {}),
                            [Message("start", {QWatch}) EXCEPT !.id = FALSE]}]
Offer(protocols) == [Call EXCEPT !.method = "GET", !.offers = {protocols}]
Deaf == [Base EXCEPT !.calls = {Offer({"graphql-ws"})}]
Foreign == [Guarded EXCEPT !.calls = {Offer({"other"}), Offer({"graphql-transport-ws"})}]

\* A universal data graph: one field over REST, the others over GraphQL, with
\* a variable that only a fragment's body uses.
QVars == Doc("vars", <<Obj("me", "Query", "User", <<3>>), F("hello", "Query"), Spread("A", "User", "User"),
                       [F("name", "User") EXCEPT !.vars = {"v"}]>>, FragA(<<4>>), One("query", <<1, 2>>))
Source(kind) == [kind |-> kind, method |-> "GET", url |-> "url", body |-> {}, headers |-> <<>>,
                 timeout_ms |-> {}, max_bytes |-> {}, reads_g2 |-> FALSE]
DataGraph == [Base EXCEPT !.mode = "udg", !.schema = Sources, !.cache = ACache,
                !.data_sources = [at \in {f \in Sources.fields : f[1] \in RootTypes} |->
                                    Source(IF at[2] = "hello" THEN "rest" ELSE "graphql")],
                !.calls = {[Ask(QVars) EXCEPT !.vars = Vars(V("1"))], Ask(QMutate), Ask(QTwo),
                           [Call EXCEPT !.method = "GET", !.vars = Verbatim(Line("x"))]}]
\* Not accepted: a root field without a source.
Unmapped == [DataGraph EXCEPT !.data_sources =
               [at \in DOMAIN DataGraph.data_sources \ {<<"Query", "hello">>} |-> Source("graphql")]]

\* A subgraph served on its own.
QService == Doc("service", <<F("_service", "Query"), F("hello", "Query")>>, <<>>, One("query", <<1, 2>>))
Served == [Base EXCEPT !.mode = "subgraph", !.schema = [Hello EXCEPT !.entities = TRUE],
             !.upstream = AugmentedSchema(Hello),
             !.calls = {Ask(QService), [Ask(QHello) EXCEPT !.method = "GET"]}]

\* A supergraph: accounts own users and robots, reviews hang off users by a
\* nullable e-mail, ratings rate reviews.
Field(sig) == [sig |-> sig, external |-> FALSE, banned |-> FALSE]
Ext(sig)   == [Field(sig) EXCEPT !.external = TRUE]
Type(kind, key, fields) ==
  [kind |-> kind, text |-> "", external |-> FALSE, fields |-> fields,
   keys |-> IF key = {} THEN {} ELSE {[fields |-> key, resolvable |-> TRUE]}]
Root(fields) == Type("object", {}, [f \in fields |-> Field(f)])
Subgraph(name, types) ==
  [name |-> name, valid |-> TRUE, query |-> {"Query"}, mutation |-> {"Mutation"} \cap DOMAIN types,
   subscription |-> FALSE, types |-> types, directives |-> {},
   url |-> "url", headers |-> <<>>, timeout_ms |-> {}, max_bytes |-> {}]
Accounts == Subgraph("accounts",
  ("Query" :> Root({"me", "people"})) @@ ("Mutation" :> Root({"login"}))
  @@ ("Person" :> Type("interface", {}, ("nick" :> Field("S"))))
  @@ ("Robot" :> Type("object", {}, ("nick" :> Field("S"))))
  @@ ("User" :> Type("object", {"mail"}, ("mail" :> Field("S")) @@ ("nick" :> Field("S")))))
Reviews == Subgraph("reviews",
  ("Query" :> Root({}))
  @@ ("User" :> Type("object", {"mail"}, ("mail" :> Ext("S")) @@ ("reviews" :> Field("[R]"))))
  @@ ("Review" :> Type("object", {"id"}, ("id" :> Field("S")) @@ ("body" :> Field("S")))))
Ratings(key) == Subgraph("ratings",
  ("Query" :> Root({"top"}))
  @@ ("Review" :> Type("object", {key}, (key :> Field("S")) @@ ("stars" :> Field("S")))))
Leaf(v) == [k |-> "leaf", v |-> v]
Ref(o)  == [k |-> "ref", v |-> o]
List(s) == [k |-> "list", v |-> s]
User(mail, reviews) ==
  [type |-> "User", is |-> {"User", "Person"},
   fields |-> ("mail" :> mail) @@ ("nick" :> Leaf("n")) @@ ("reviews" :> reviews)]
Review(id) == [type |-> "Review", is |-> {"Review"},
               fields |-> ("id" :> Leaf(id)) @@ ("code" :> Leaf(id)) @@ ("body" :> Leaf("b")) @@ ("stars" :> Leaf("s"))]
Database ==
  ("Query" :> [type |-> "Query", is |-> {"Query"},
               fields |-> ("me" :> Ref("u1")) @@ ("top" :> Ref("w1"))
                  @@ ("people" :> List(<<Ref("bot"), Ref("u2"), Null, Ref("u1"), Ref("u3")>>))])
  @@ ("Mutation" :> [type |-> "Mutation", is |-> {"Mutation"}, fields |-> ("login" :> Ref("u3"))])
  @@ ("bot" :> [type |-> "Robot", is |-> {"Robot", "Person"}, fields |-> ("nick" :> Leaf("n"))])
  @@ ("u1" :> User(Leaf("1"), List(<<Ref("w1"), Ref("w2")>>)))
  @@ ("u2" :> User(Null, Null))
  @@ ("u3" :> User(Leaf("3"), List(<<>>)))
  @@ ("w1" :> Review("w1")) @@ ("w2" :> Review("w2"))

QMe == Doc("me", <<Obj("me", "Query", "User", <<2, 3>>), F("nick", "User"),
                   Obj("reviews", "User", "Review", <<4, 5>>), F("body", "Review"), F("stars", "Review")>>,
           <<>>, One("query", <<1>>))
QPeople == Doc("people", <<Obj("people", "Query", "Person", <<2, 3>>), F("nick", "Person"),
                           Inline("Person", "User", <<4, 5>>), F("mail", "User"),
                           Obj("reviews", "User", "Review", <<6, 7>>), F("body", "Review"), F("stars", "Review"),
                           Obj("top", "Query", "Review", <<9>>), F("body", "Review")>>,
               <<>>, One("query", <<1, 8>>))
QLogin == Doc("login", <<Obj("login", "Mutation", "User", <<2>>), Obj("reviews", "User", "Review", <<3>>),
                         F("body", "Review")>>, <<>>, One("mutation", <<1>>))
QSplit == Doc("split", <<Obj("me", "Query", "User", <<2, 3>>), Spread("A", "User", "User"),
                         Obj("reviews", "User", "Review", <<5>>), Obj("reviews", "User", "Review", <<6>>),
                         F("body", "Review"), F("stars", "Review")>>,
              FragA(<<4>>), One("query", <<1>>))
QWiden == Doc("widen", <<Obj("me", "Query", "User", <<2>>), Spread("A", "User", "Person"),
                         F("nick", "Person"), Inline("Person", "User", <<5>>),
                         Obj("reviews", "User", "Review", <<6>>), F("body", "Review")>>,
              FragA(<<3, 4>>), One("query", <<1>>))

Super == [Base EXCEPT !.mode = "supergraph", !.schema = Blanked, !.db = Database, !.cache = ACache,
            !.supergraph = {<<Accounts, Reviews, Ratings("id")>>},
            !.calls = {Ask(QMe), Ask(QPeople), Ask(QLogin)}]
\* Accepted only if nobody checks that reviews can name the key of ratings.
Unlinked == [Super EXCEPT !.supergraph = {<<Accounts, Reviews, Ratings("code")>>}, !.calls = {Ask(QMe)}]
\* One object's reviews are asked for by a fragment and by the set around it.
Split == [Super EXCEPT !.calls = {Ask(QSplit)}]
\* They are asked for under a fragment on an interface that the object has.
Widened == [Super EXCEPT !.calls = {Ask(QWiden)}]

MCApis ==
  {Synced, Breaking, Cached, Joined, Guarded, Tunnelled, Deaf, Foreign, DataGraph, Unmapped, Served, Super, Unlinked, Split,
   Widened}
MCSplit == {Super, Split}
MCWidened == {Super, Widened}
MCJoined == {Joined, Cached}
MCHopByHop == {"connection"}
MCPluginMemory == 1..2
=============================================================================
