---------------------------- MODULE Composition -----------------------------
(***************************************************************************)
(* Composing a supergraph from its subgraphs (g2-core federation.rs).  A     *)
(* subgraph is [name, valid, query, mutation, subscription, types,           *)
(* directives]: `valid` says that its SDL parses and validates, query and    *)
(* mutation are the names of its roots (sets of at most one), directives are *)
(* those it defines and uses on its types, types maps a type name to         *)
(*   [kind, text, keys, external, fields]: keys the @key directive, if any,  *)
(*   as [fields, resolvable]; fields a map to [sig, external, banned],       *)
(*   `banned` standing for @requires and @override; text what the type       *)
(*   prints as with its federation directives stripped.                      *)
(***************************************************************************)
EXTENDS Naturals, Sequences, FiniteSets, FiniteSetsExt, SequencesExt

ReservedTypes == {"_Any", "_FieldSet", "_Service", "_Entity", "link__Import", "link__Purpose"}
RootTypes == {"Query", "Mutation"}

\* The subgraphs that define type `ty`.
Defining(subs, ty) == {i \in DOMAIN subs : ty \in DOMAIN subs[i].types}

\* A subgraph on its own: `parse_subgraph_schema` and the checks on its roots.
SubgraphOk(sub) ==
  /\ sub.valid
  /\ sub.query = {"Query"} /\ sub.mutation \subseteq {"Mutation"}
  /\ ~sub.subscription

RootFields(sub, root) ==
  IF root \in DOMAIN sub.types
  THEN DOMAIN sub.types[root].fields \ {"_entities", "_service"} ELSE {}

ComposedTypes(subs) ==
  UNION {DOMAIN subs[i].types : i \in DOMAIN subs} \ (ReservedTypes \cup RootTypes)

IsEntity(subs, ty) ==
  \E i \in Defining(subs, ty) : subs[i].types[ty].kind = "object" /\ subs[i].types[ty].keys # {}

\* `entity_keys`: per subgraph, the fields of its resolvable @key, if any.
EntityKeys(subs, ty) ==
  [i \in DOMAIN subs |->
     IF i \in Defining(subs, ty)
     THEN {k.fields : k \in {k \in subs[i].types[ty].keys : k.resolvable}} ELSE {}]

\* `field_owners`: the subgraphs that resolve a field, those where it is not
\* external; the first in configuration order is asked.
FieldOwners(subs, ty, field) ==
  IF ty \in RootTypes THEN {i \in DOMAIN subs : field \in RootFields(subs[i], ty)}
  ELSE {i \in Defining(subs, ty) :
          LET t == subs[i].types[ty]
          IN field \in DOMAIN t.fields /\ ~t.external /\ ~t.fields[field].external}

EntityFields(subs, ty) ==
  UNION {DOMAIN subs[i].types[ty].fields : i \in Defining(subs, ty)}

\* `parse_key_fields`: a flat, non-empty list of fields of the type.
KeyOk(t) ==
  \A k \in t.keys :
     k.resolvable => k.fields # {} /\ k.fields \subseteq DOMAIN t.fields

\* `compose_entity`.
EntityOk(subs, ty) ==
  LET type(i) == subs[i].types[ty]
      fields == EntityFields(subs, ty)
      owners == UNION {FieldOwners(subs, ty, f) : f \in fields}
  IN /\ \A i \in Defining(subs, ty) :
           KeyOk(type(i)) /\ \A f \in DOMAIN type(i).fields : ~type(i).fields[f].banned
     /\ \A f \in fields :
           /\ Cardinality({type(i).fields[f].sig :
                             i \in {i \in Defining(subs, ty) : f \in DOMAIN type(i).fields}}) = 1
           /\ FieldOwners(subs, ty, f) # {}
     /\ \A i \in Defining(subs, ty), s \in owners :
           i # s => \E key \in EntityKeys(subs, ty)[s] : key \subseteq DOMAIN type(i).fields

\* Types without a key are the same everywhere.
SharedTypeOk(subs, ty) ==
  Cardinality({subs[i].types[ty].text : i \in Defining(subs, ty)}) = 1

\* `compose` succeeds.
Composes(subs) ==
  /\ subs # <<>>
  /\ \A i, j \in DOMAIN subs : subs[i].name = subs[j].name => i = j
  /\ \A i \in DOMAIN subs : SubgraphOk(subs[i])
  /\ \A root \in RootTypes : \A i, j \in DOMAIN subs :
        i # j => RootFields(subs[i], root) \cap RootFields(subs[j], root) = {}
  /\ \E i \in DOMAIN subs : RootFields(subs[i], "Query") # {}
  /\ \A ty \in ComposedTypes(subs) :
        /\ Cardinality({subs[i].types[ty].kind : i \in Defining(subs, ty)}) = 1
        /\ \A i \in Defining(subs, ty) :
              subs[i].types[ty].kind = "interface" => subs[i].types[ty].keys = {}
        /\ IF IsEntity(subs, ty) THEN EntityOk(subs, ty) ELSE SharedTypeOk(subs, ty)
  \* The final gate, a valid schema: only types are merged, so a directive that
  \* a subgraph defined for itself is unknown there.
  /\ \A i \in DOMAIN subs : subs[i].directives = {}

\* The schema of the composed supergraph: a merged entity declares all fields.
ComposedSchema(subs) ==
  [sdl |-> <<"composed", {subs[i].name : i \in DOMAIN subs}>>, compiles |-> TRUE, entities |-> FALSE,
   roots |-> {"query"} \cup {"mutation" : i \in {i \in DOMAIN subs : subs[i].mutation # {}}},
   fields |-> UNION {{<<root, f>> : f \in RootFields(subs[i], root)} :
                       i \in DOMAIN subs, root \in RootTypes}
              \cup UNION {{<<ty, f>> : f \in EntityFields(subs, ty)} : ty \in ComposedTypes(subs)}]

\* `augment_subgraph_sdl`: a subgraph served on its own gains the reserved
\* fields of its query root, `_entities` only when it has an entity.
AugmentedSchema(schema) ==
  [schema EXCEPT
     !.sdl = <<"augmented", @>>,
     !.fields = @ \cup {<<"Query", "_service">>}
                  \cup (IF schema.entities THEN {<<"Query", "_entities">>} ELSE {})]
=============================================================================
