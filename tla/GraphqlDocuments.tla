-------------------------- MODULE GraphqlDocuments --------------------------
(***************************************************************************)
(* GraphQL documents and the protection pipeline over them (g2-middleware   *)
(* graphql.rs).  A parsed document is a forest of selection nodes:           *)
(*   nodes  a sequence of [sel, name, key, ty, on, vars, kids], sel one of   *)
(*          "field", "inline", "spread"; ty is the type of the selection set *)
(*          the node stands in, on the type of the one under it (of a        *)
(*          fragment, its type condition); key the response key; vars the    *)
(*          variables its arguments and directives use; kids the selections  *)
(*          under it, in order;                                              *)
(*   frags  fragment name -> the selections of its body;                     *)
(*   ops    operation name ("" when anonymous) -> [kind, kids, vars].        *)
(* Validation rejects fragment cycles, so that the nodes can be numbered     *)
(* with every selection under a node, through spreads too, after it.         *)
(* Optional values are sets of at most one element.                          *)
(***************************************************************************)
EXTENDS Naturals, Integers, Sequences, FiniteSets, FiniteSetsExt, SequencesExt

IsMeta(name) == name \in {"__schema", "__type", "__typename"}

Kids(doc, i) ==
  IF doc.nodes[i].sel = "spread" THEN doc.frags[doc.nodes[i].name] ELSE doc.nodes[i].kids

IsField(doc, i) == doc.nodes[i].sel = "field"

\* `doc.operations.get`: the operation the request selects, if that is clear.
SelectedOp(doc, name) ==
  IF name = {} THEN IF Cardinality(DOMAIN doc.ops) = 1 THEN DOMAIN doc.ops ELSE {}
  ELSE name \cap (DOMAIN doc.ops \ {""})

RootKids(doc) == UNION {Range(doc.ops[op].kids) : op \in DOMAIN doc.ops}

\* The numbering: a node's selections come after it, and all of them exist.
WellFormed(doc) ==
  /\ Len(doc.nodes) \in Nat /\ DOMAIN doc.nodes = 1..Len(doc.nodes)
  /\ \A i \in DOMAIN doc.nodes : Range(Kids(doc, i)) \subseteq (i + 1)..Len(doc.nodes)
  /\ RootKids(doc) \subseteq DOMAIN doc.nodes

\* Per node, the selections at or under it, through fragments.
Reach(doc) ==
  LET under[i \in DOMAIN doc.nodes] == {i} \cup UNION {under[k] : k \in Range(Kids(doc, i))}
  IN under

Selected(doc, roots) == UNION {Reach(doc)[i] : i \in roots}

\* Per node, the fields it stands for in its own selection set.
FirstFields(doc) ==
  LET fields[i \in DOMAIN doc.nodes] ==
        IF IsField(doc, i) THEN {i} ELSE UNION {fields[k] : k \in Range(Kids(doc, i))}
  IN fields

\* A schema has its SDL text, whether it compiles, the fields its types have
\* and its root types; `parse_and_validate` of a document looks only at these.
ValidAgainst(schema, doc) ==
  /\ \A i \in DOMAIN doc.nodes :
        IsField(doc, i) /\ ~IsMeta(doc.nodes[i].name)
          => <<doc.nodes[i].ty, doc.nodes[i].name>> \in schema.fields
  /\ \A op \in DOMAIN doc.ops : doc.ops[op].kind \in schema.roots

SelectsIntrospection(doc) ==
  \E i \in Selected(doc, RootKids(doc)) :
     IsField(doc, i) /\ doc.nodes[i].name \in {"__schema", "__type"}

\* The root fields, resolved through fragments, are all meta fields.
IsPureIntrospection(doc) ==
  \A i \in UNION {FirstFields(doc)[k] : k \in RootKids(doc)} : IsMeta(doc.nodes[i].name)

\* Mutant: a fragment spread adds nothing to the depth.
DepthIgnoringSpreads(doc) ==
  LET depth[i \in DOMAIN doc.nodes] ==
        IF doc.nodes[i].sel = "spread" THEN 0
        ELSE (IF IsField(doc, i) THEN 1 ELSE 0)
               + Max({0} \cup {depth[k] : k \in Range(Kids(doc, i))})
  IN Max({0} \cup {depth[i] : i \in RootKids(doc)})

\* Per node, the nested fields of the deepest path through it.
Depths(doc) ==
  LET depth[i \in DOMAIN doc.nodes] ==
        (IF IsField(doc, i) THEN 1 ELSE 0)
          + Max({0} \cup {depth[k] : k \in Range(Kids(doc, i))})
  IN depth

\* `document_depth`: nested fields of the deepest operation.
DocumentDepth(doc) == Max({0} \cup {Depths(doc)[i] : i \in RootKids(doc)})

\* `field_allowed`: a non-empty allow list is exhaustive and wins.
FieldAllowed(ty, field, grant) ==
  LET listed(list) == \E t \in list : t.name = ty /\ ({"*", field} \cap t.fields # {})
  IN IF grant.allowed_types = {} THEN ~listed(grant.restricted_types)
     ELSE listed(grant.allowed_types)

ForbiddenFields(doc, grant) ==
  {i \in Selected(doc, RootKids(doc)) :
     /\ IsField(doc, i) /\ ~IsMeta(doc.nodes[i].name)
     /\ ~FieldAllowed(doc.nodes[i].ty, doc.nodes[i].name, grant)}

\* A key's positive override replaces the API's limit, any other one lifts it.
EffectiveDepthLimit(api, grants) ==
  LET overrides == UNION {g.max_query_depth : g \in grants}
  IN IF overrides = {} THEN api.max_query_depth ELSE {n \in overrides : n > 0}

\* `check_document`: the first violation, or "none".
CheckDocument(api, grants, doc) ==
  LET allowed == api.introspection_enabled /\ \A g \in grants : ~g.disable_introspection
  IN IF ~allowed /\ SelectsIntrospection(doc) THEN "introspection"
     ELSE IF IsPureIntrospection(doc) THEN "none"
     ELSE IF \E limit \in EffectiveDepthLimit(api, grants) : DocumentDepth(doc) > limit
          THEN "depth"
     ELSE IF \E g \in grants : ForbiddenFields(doc, g) # {} THEN "field" ELSE "none"

\* `enforce`: the status of the refusal.
Enforce(api, grants, doc) ==
  CASE CheckDocument(api, grants, doc) = "none"  -> {}
    [] CheckDocument(api, grants, doc) = "field" -> {400}
    [] OTHER -> {403}

\* The nodes the record pass resolves as one root field: all with its key.
RootFieldNodes(doc, op) ==
  {i \in UNION {FirstFields(doc)[k] : k \in Range(doc.ops[op].kids)} : ~IsMeta(doc.nodes[i].name)}

-----------------------------------------------------------------------------
(* Variables.  A raw `variables` member is [form, content]: absent, null, an *)
(* object, some other JSON value, or text that is not JSON, as its lines.    *)
(* A line is <<"text", characters>> or, when it is a JSON value printed on    *)
(* one line, <<"json", value>>.                                              *)
NoVars == [form |-> "absent", content |-> <<>>]

\* `canonical_variables`, as lines: absent, null and {} are all empty, other
\* JSON is printed on one line, and what is not JSON is kept verbatim.
CanonicalVariables(raw) ==
  CASE raw.form = "text" -> raw.content
    [] raw.form \in {"absent", "null"} \/ raw = [form |-> "object", content |-> <<>>] ->
         <<<<"text", "">>>>
    [] OTHER -> <<<<"json", raw.content>>>>

\* `parse_raw_variables`: the map to execute with, or no value for a 400.
ParseRawVariables(raw) ==
  CASE raw.form \in {"absent", "null"} -> {<<>>}
    [] raw.form = "object" -> {raw.content}
    [] OTHER -> {}

\* `collect_field` and the walks under it: the variables `roots` use.
UsedVariables(doc, roots) == UNION {doc.nodes[i].vars : i \in Selected(doc, roots)}

UsedFragments(doc, roots) ==
  {doc.nodes[i].name : i \in {k \in Selected(doc, roots) : doc.nodes[k].sel = "spread"}}

\* `build_subquery`, `print_operation`: the fields asked of one source, with
\* the definitions and the values of the variables they use and no others.
Subquery(doc, op, roots, raw) ==
  LET used == UsedVariables(doc, roots)
  IN [fields |-> roots, frags |-> UsedFragments(doc, roots),
      defs |-> doc.ops[op].vars \cap used,
      variables |-> [v \in DOMAIN raw \cap used |-> raw[v]]]
=============================================================================
