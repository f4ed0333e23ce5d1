----------------------------- MODULE Federation -----------------------------
(***************************************************************************)
(* Executing an operation over a supergraph (g2-middleware                  *)
(* graphql_federation.rs): planning the fetches, and stitching the answers.  *)
(*                                                                         *)
(* An answer is a set of <<path, cell>>: path a sequence of <<"key", k>>,    *)
(* <<"g2", k>> (the key fields the planner asks for under an alias of its    *)
(* own) and <<"item", i>>; a cell is [k, v] with k one of "obj" (v its       *)
(* type), "list", "leaf" (v the value) and "null".                           *)
(*                                                                         *)
(* The subgraphs themselves are external: they are one database of objects,  *)
(* id -> [type, is, fields], `is` the types and interfaces the object has,   *)
(* of which each answers for the selections it is asked.                     *)
(***************************************************************************)
EXTENDS GraphqlDocuments, Composition

Key(k)  == <<"key", k>>
Items   == <<"0", "1", "2", "3", "4">>       \* list positions; lists are no longer
Null    == [k |-> "null", v |-> ""]
Under(prefix, answer) == {<<prefix \o x[1], x[2]>> : x \in answer}
Cells(answer, path) == {x[2] : x \in {y \in answer : y[1] = path}}
HasObject(answer, path) == \E c \in Cells(answer, path) : c.k = "obj"

\* A subgraph refuses a sub-query with a field it does not define.
Accepts(sub, doc, plan) ==
  LET defines(ty, field) == ty \in DOMAIN sub.types /\ field \in DOMAIN sub.types[ty].fields
  IN /\ \A i \in plan.printed : IsField(doc, i) /\ ~IsMeta(doc.nodes[i].name)
                                   => defines(doc.nodes[i].ty, doc.nodes[i].name)
     /\ \A f \in plan.inject : defines(doc.nodes[f[1]].on, f[2])

\* What a source answers for the selections `roots` on object `o`, of which it
\* was sent the `printed` ones, with the key fields `inject` adds.
Answered(doc, db, printed, inject, typenames, roots, o) ==
  LET cellOf(v) == IF v.k = "ref" THEN [k |-> "obj", v |-> db[v.v].type]
                   ELSE IF v.k = "list" THEN [k |-> "list", v |-> ""] ELSE v
      under[i \in DOMAIN doc.nodes, x \in DOMAIN db] ==
        LET n == doc.nodes[i]
            extra(y) == (IF typenames THEN {<< <<Key("__typename")>>, [k |-> "leaf", v |-> db[y].type]>>}
                         ELSE {})
                        \cup {<< << <<"g2", f[2]>> >>, db[y].fields[f[2]]>> : f \in {f \in inject : f[1] = i}}
            object(y) == extra(y) \cup UNION {under[k, y] : k \in Range(Kids(doc, i))}
            v == IF n.name = "__typename" THEN [k |-> "leaf", v |-> db[x].type]
                 ELSE db[x].fields[n.name]
        IN IF i \notin printed THEN {}
           ELSE IF n.sel # "field" THEN IF n.on \in db[x].is THEN object(x) ELSE {}
           ELSE {<< <<Key(n.key)>>, cellOf(v)>>}
                \cup (IF v.k = "ref" THEN Under(<<Key(n.key)>>, object(v.v)) ELSE {})
                \cup (IF v.k = "list"
                      THEN UNION {LET at == <<Key(n.key), <<"item", Items[j]>> >>
                                  IN {<<at, cellOf(v.v[j])>>}
                                     \cup IF v.v[j].k = "ref" THEN Under(at, object(v.v[j].v)) ELSE {}
                                  : j \in DOMAIN v.v}
                      ELSE {})
  IN UNION {under[i, o] : i \in roots}

-----------------------------------------------------------------------------
(* The planner.  A plan is [ok, printed, inject, children]: what goes into   *)
(* the sub-query, the key fields added to it, and the fetches that depend on *)
(* its answer: [path, type, subgraph, key, fields, plan].                    *)

\* `pick_target`: the first owner with a key to look the entity up by.
TargetOf(subs, ty, field) ==
  Min({s \in FieldOwners(subs, ty, field) : EntityKeys(subs, ty)[s] # {}} \cup {Len(subs) + 1})

IsLocal(subs, n, sg) ==
  LET owners == FieldOwners(subs, n.ty, n.name)
  IN \/ n.sel # "field" \/ IsMeta(n.name) \/ ~IsEntity(subs, n.ty)
     \/ owners = {} \/ sg \in owners

NoPlan == [ok |-> TRUE, printed |-> {}, inject |-> {}, children |-> <<>>]

Both(p, q) == [ok |-> p.ok /\ q.ok, printed |-> p.printed \cup q.printed,
               inject |-> p.inject \cup q.inject, children |-> p.children \o q.children]

\* `print_set`: the plan of what stays under node i, and the fetches it needs.
SetPlan(i, inner, fetches) ==
  [ok |-> inner.ok /\ \A f \in Range(fetches) : f.plan.ok,
   printed |-> inner.printed \cup {i},
   inject |-> inner.inject \cup {<<i, k>> : k \in UNION {f.key : f \in Range(fetches)}},
   children |-> inner.children \o fetches]

Prefixed(plan, seg) ==
  [plan EXCEPT !.children = [c \in DOMAIN @ |-> [@[c] EXCEPT !.path = seg \o @]]]

\* The segment a node adds to the paths of the fetches under it.
Segment(n) ==
  CASE n.sel = "field" -> <<Key(n.key)>>
    [] n.sel # "field" /\ n.on # n.ty -> << <<"on", n.on>> >>
    [] OTHER -> <<>>

Distinct(s) == FoldLeft(LAMBDA out, x : IF x \in Range(out) THEN out ELSE Append(out, x), <<>>, s)

\* `print_field`, `print_set`: node i printed into the fetch of subgraph sg.
PlanOf(subs, doc) ==
  LET print[sg \in DOMAIN subs, i \in DOMAIN doc.nodes] ==
    LET n == doc.nodes[i]
        combine(s, nodes) == FoldLeft(LAMBDA p, k : Both(p, print[s, k]), NoPlan, nodes)
        to(k) == TargetOf(subs, n.on, doc.nodes[k].name)
        fetch(t, fields) ==
          IF t \notin DOMAIN subs
          THEN [path |-> <<>>, type |-> n.on, subgraph |-> t, key |-> {}, fields |-> {},
                plan |-> [NoPlan EXCEPT !.ok = FALSE]]
          ELSE [path |-> <<>>, type |-> n.on, subgraph |-> t,
                key |-> CHOOSE key \in EntityKeys(subs, n.on)[t] : TRUE,
                fields |-> Range(fields), plan |-> combine(t, fields)]
        fetches(order, foreign) ==
          [j \in DOMAIN order |-> fetch(order[j], SelectSeq(foreign, LAMBDA k : to(k) = order[j]))]
        split(local, foreign) ==
          SetPlan(i, combine(sg, local),
                  fetches(Distinct([j \in DOMAIN foreign |-> to(foreign[j])]), foreign))
    IN Prefixed(split(SelectSeq(Kids(doc, i), LAMBDA k : IsLocal(subs, doc.nodes[k], sg)),
                      SelectSeq(Kids(doc, i), LAMBDA k : ~IsLocal(subs, doc.nodes[k], sg))),
                Segment(n))
  IN print

-----------------------------------------------------------------------------
(* Execution.                                                              *)

Expand(answer, paths) ==
  FlattenSeq([j \in DOMAIN paths |->
    IF \E c \in Cells(answer, paths[j]) : c.k = "list"
    THEN SelectSeq([m \in DOMAIN Items |-> Append(paths[j], <<"item", Items[m]>>)],
                   LAMBDA p : Cells(answer, p) # {})
    ELSE <<paths[j]>>])

\* `collect_maps`: the objects at the end of a plan path, in answer order.
CollectMaps(answer, path) ==
  LET objects(ps) == SelectSeq(Expand(answer, ps), LAMBDA p : HasObject(answer, p))
      step(ps, seg) ==
        IF seg[1] = "on"
        THEN SelectSeq(ps, LAMBDA p : [k |-> "leaf", v |-> seg[2]] \in Cells(answer, Append(p, Key("__typename"))))
        ELSE objects([j \in DOMAIN ps |-> Append(ps[j], seg)])
  IN FoldLeft(step, objects(<< <<>> >>), path)

\* `representation`: the entity a map stands for, unless it is of another
\* type or lacks a key field.
Representation(answer, at, child) ==
  LET typename == Cells(answer, Append(at, Key("__typename")))
      value(f) == LET own == Cells(answer, Append(at, <<"g2", f>>))
                  IN IF own # {} THEN own ELSE Cells(answer, Append(at, Key(f)))
  IN IF \/ \E c \in typename : c.v # child.type
        \/ \E f \in child.key : value(f) \ {Null} = {}
     THEN {} ELSE {[type |-> child.type, key |-> [f \in child.key |-> CHOOSE c \in value(f) : TRUE]]}

\* The subgraph's `_entities`: one answer per representation, in order.
Entities(doc, db, child, reps) ==
  LET known(rep) == {o \in DOMAIN db : \E r \in rep : /\ db[o].type = r.type
                                                     /\ \A f \in DOMAIN r.key : db[o].fields[f] = r.key[f]}
  IN {<< <<>>, [k |-> "list", v |-> ""]>>}
     \cup UNION {LET at == << <<"item", Items[j]>> >>
                 IN IF known(reps[j]) = {} THEN {<<at, Null>>}
                    ELSE LET o == CHOOSE o \in known(reps[j]) : TRUE
                         IN {<<at, [k |-> "obj", v |-> db[o].type]>>}
                            \cup Under(at, Answered(doc, db, child.plan.printed, child.plan.inject,
                                                    TRUE, child.fields, o))
                 : j \in DOMAIN reps}

\* Insert the fields of the entity at `from` into the map at `into`.
Insert(answer, into, entities, from) ==
  LET below == {x \in entities : Len(x[1]) > Len(from) /\ SubSeq(x[1], 1, Len(from)) = from}
      rest(x) == SubSeq(x[1], Len(from) + 1, Len(x[1]))
      keys == {Head(rest(x)) : x \in below}
      replaced(x) == /\ Len(x[1]) > Len(into) /\ SubSeq(x[1], 1, Len(into)) = into
                     /\ x[1][Len(into) + 1] \in keys
  IN {x \in answer : ~replaced(x)} \cup {<<into \o rest(x), x[2]>> : x \in below}

\* Mutant: entities are matched with the maps as if no map had been left out.
MergeUnmasked(answer, maps, reps, entities) ==
  FoldLeft(LAMBDA a, j : Insert(a, maps[j], entities, << <<"item", Items[j]>> >>),
           answer, [j \in DOMAIN maps |-> j])

\* The merge of one child's entities into the maps they were collected from;
\* a map without a representation has no entity.
Merge(answer, maps, reps, entities) ==
  LET rank(j) == Cardinality({m \in 1..j : reps[m] # {}})
  IN FoldLeft(LAMBDA a, j : IF reps[j] = {} THEN a
                            ELSE Insert(a, maps[j], entities, << <<"item", Items[rank(j)]>> >>),
              answer, [j \in DOMAIN maps |-> j])

MergeChild(acc, maps, reps, got) ==
  IF got.answer = {} THEN acc
  ELSE IF Len(maps) # Len(reps) THEN [acc EXCEPT !.errors = TRUE]
  ELSE [acc EXCEPT !.answer = Merge(@, maps, reps, got.answer)]

MergeAll(answer, children, collected, fetched) ==
  FoldLeft(LAMBDA acc, j : MergeChild(acc, CollectMaps(acc.answer, children[j].path), collected[j], fetched[j]),
           [answer |-> answer, errors |-> \E j \in DOMAIN fetched : fetched[j].errors],
           [j \in DOMAIN children |-> j])

\* `resolve_children`: every child is fetched from the answer as it came, then
\* all are merged in order.  `down` are the subgraphs that fail (unreachable,
\* a status that is no success, a body that is not JSON, or errors and no data).
RECURSIVE ResolveChildren(_, _, _, _, _, _)
ResolveChildren(subs, doc, db, answer, children, down) ==
  LET representations(c, maps) == [j \in DOMAIN maps |-> Representation(answer, maps[j], c)]
      collected == [j \in DOMAIN children |->
                      representations(children[j], CollectMaps(answer, children[j].path))]
      fetch(c, reps) ==
        IF reps = <<>> THEN [answer |-> {}, errors |-> FALSE]
        ELSE IF c.subgraph \in down \/ ~Accepts(subs[c.subgraph], doc, c.plan)
        THEN [answer |-> {}, errors |-> TRUE]
        ELSE ResolveChildren(subs, doc, db, Entities(doc, db, c, reps), c.plan.children, down)
  IN MergeAll(answer, children, collected,
              [j \in DOMAIN children |->
                 fetch(children[j], SelectSeq(collected[j], LAMBDA reps : reps # {}))])

RunPlan(subs, doc, db, rootType, nodes, owner, plan, down) ==
  IF ~plan.ok \/ owner \in down \/ ~Accepts(subs[owner], doc, plan)
  THEN [answer |-> {}, errors |-> TRUE]
  ELSE ResolveChildren(subs, doc, db,
                       {<< <<>>, [k |-> "obj", v |-> rootType]>>}
                         \cup Answered(doc, db, plan.printed, plan.inject, TRUE, nodes, rootType),
                       plan.children, down)

\* `plan_root`: one plan for all the nodes of a root field.
PlanRoot(subs, doc, owner, nodes) ==
  FoldLeft(LAMBDA p, i : Both(p, PlanOf(subs, doc)[owner, i]), NoPlan, SetToSortSeq(nodes, <))

\* `run_root`: plan, fetch the owner, resolve what depends on its answer.
RunRoot(subs, doc, db, rootType, nodes, owner, down) ==
  RunPlan(subs, doc, db, rootType, nodes, owner, PlanRoot(subs, doc, owner, nodes), down)

RootOwner(subs, doc, rootType, nodes) ==
  Min(FieldOwners(subs, rootType, doc.nodes[CHOOSE i \in nodes : TRUE].name))

\* What the operation asks for, were all its data in one place.
Wanted(doc, db, rootType, nodes) ==
  Answered(doc, db, DOMAIN doc.nodes, {}, FALSE, nodes, rootType)
=============================================================================
