----------------------------- MODULE SchemaSync -----------------------------
(***************************************************************************)
(* The schema leaf of one GraphQL API and the task that keeps it up to date  *)
(* from the upstream's introspection (g2-middleware graphql_sync.rs, g2-proxy*)
(* graphql_sync.rs).                                                        *)
(*                                                                         *)
(*   api       the GraphQL configuration, chosen once                        *)
(*   upstream  the schema the upstream serves now (external)                 *)
(*   leaf      `GraphQlShared::state`, swapped as a whole                    *)
(*   refresher [pc, reply]: "new", "fetching", "applying" a reply, "waiting",*)
(*             "gone"                                                        *)
(*   permit    the one permit `Notify::notify_one` stores                    *)
(*   routed    the route table still holds this layer and its target         *)
(*   changes   how often the upstream moved (for the bound)                   *)
(* The times and errors of the last sync, which the admin API reports, decide *)
(* nothing and are left out.                                                 *)
(***************************************************************************)
EXTENDS GraphqlDocuments

CONSTANTS Apis,             \* configurations: see Graphql
          MaxChanges        \* bound on the upstream's schema changes

VARIABLES api, upstream, leaf, refresher, permit, routed, changes

syncVars == <<api, upstream, leaf, refresher, permit, routed, changes>>

\* `introspection_to_sdl`: the SDL rendered from an introspection result.  It
\* never is the text a definition was configured with, even of one schema.
Rendered(schema) == [schema EXCEPT !.sdl = <<"rendered", @>>]

\* `GraphQlSchemaState::new`: the hash of the SDL is what cache keys carry.
SchemaState(schema, persisted) ==
  [schema |-> schema, docs |-> [p \in DOMAIN persisted |-> persisted[p].doc]]

SyncInit(schema) ==
  /\ leaf = SchemaState(schema, api.persisted)
  /\ upstream = api.upstream
  /\ refresher = [pc |-> IF api.schema_sync # {} THEN "new" ELSE "gone", reply |-> {}]
  /\ permit = FALSE
  /\ routed = TRUE /\ changes = 0

\* The upstream is deployed with another schema.
UpstreamMoves ==
  /\ changes < MaxChanges
  /\ upstream' \in api.schemas \ {upstream}
  /\ changes' = changes + 1
  /\ UNCHANGED <<api, leaf, refresher, permit, routed>>

\* `trigger` (POST .../graphql/sync): a permit for the refresher.
Nudge ==
  /\ routed /\ api.schema_sync # {}
  /\ permit' = TRUE
  /\ UNCHANGED <<api, upstream, leaf, refresher, routed, changes>>

\* A reload drops the route; the refresher holds only weak references.
Unroute ==
  /\ routed /\ routed' = FALSE
  /\ UNCHANGED <<api, upstream, leaf, refresher, permit, changes>>

\* `sync_once` up to the request: the upgrades fail once the route is dropped.
SyncOnce == refresher' = [pc |-> IF routed THEN "fetching" ELSE "gone", reply |-> {}]

\* At the start, and whenever `wait_interval` is over.
IntervalEnds ==
  /\ refresher.pc \in {"new", "waiting"} /\ SyncOnce
  /\ UNCHANGED <<api, upstream, leaf, permit, routed, changes>>

\* `wait_interval` cut short by a permit.
TakePermit ==
  /\ refresher.pc = "waiting" /\ permit /\ permit' = FALSE
  /\ SyncOnce
  /\ UNCHANGED <<api, upstream, leaf, routed, changes>>

\* The upstream answers with the schema it serves at that moment.
Introspected ==
  /\ refresher.pc = "fetching"
  /\ refresher' = [pc |-> "applying", reply |-> {upstream}]
  /\ UNCHANGED <<api, upstream, leaf, permit, routed, changes>>

\* Mutant: the task ends with the first failure.
FetchFailsForGood ==
  /\ refresher.pc = "fetching"
  /\ refresher' = [refresher EXCEPT !.pc = "gone"]
  /\ UNCHANGED <<api, upstream, leaf, permit, routed, changes>>

\* It times out before the head, fails, or answers something else.
FetchFails ==
  /\ refresher.pc = "fetching"
  /\ refresher' = [refresher EXCEPT !.pc = "waiting"]
  /\ UNCHANGED <<api, upstream, leaf, permit, routed, changes>>

\* Mutant: the schema is swapped without validating the persisted queries.
ApplicableAnyway(schema) == schema.compiles

Applicable(schema) ==
  /\ schema.compiles
  /\ \A p \in DOMAIN api.persisted : ValidAgainst(schema, api.persisted[p].doc)

\* `apply_introspection`: unchanged, refused with the old state kept, or swapped.
ApplyIntrospection ==
  /\ refresher.pc = "applying"
  /\ refresher' = [pc |-> "waiting", reply |-> {}]
  /\ \E schema \in {Rendered(s) : s \in refresher.reply} :
        leaf' = IF leaf.schema.sdl # schema.sdl /\ Applicable(schema)
                THEN SchemaState(schema, api.persisted) ELSE leaf
  /\ UNCHANGED <<api, upstream, permit, routed, changes>>

SyncNext ==
  \/ UpstreamMoves \/ Nudge \/ Unroute
  \/ IntervalEnds \/ TakePermit
  \/ Introspected \/ FetchFails \/ ApplyIntrospection

\* A reply comes within the interval count the model looks at: the runtime
\* schedules the task, timers fire, and the upstream, asked again and again,
\* does answer.
SyncFairness ==
  /\ WF_syncVars(IntervalEnds \/ ApplyIntrospection)
  /\ WF_syncVars(Introspected \/ FetchFails) /\ SF_syncVars(Introspected)
=============================================================================
