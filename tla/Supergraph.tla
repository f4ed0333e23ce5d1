---------------------------- MODULE Supergraph ------------------------------
(***************************************************************************)
(* The GraphQL layer over a supergraph: Graphql with the root fields         *)
(* fetched by the planner and the executor of Federation, and what the       *)
(* clients of a gateway-executed API are promised.                           *)
(***************************************************************************)
EXTENDS Graphql, Federation

\* One root field of a supergraph, with any of its subgraphs failing.
FederatedOutcomes(config, req, key) ==
  LET outcome(run, failed) ==
        [key |-> key, errors |-> run.errors, failed |-> failed, cells |-> run.answer]
      owner == RootOwner(Subgraphs(config), DocOf(req), RootOf(req), NodesOf(req, key))
  IN {outcome(RunRoot(Subgraphs(config), DocOf(req), config.db, RootOf(req), NodesOf(req, key), owner, down),
              down # {}) : down \in SUBSET DOMAIN Subgraphs(config)}

-----------------------------------------------------------------------------
(* Properties.                                                             *)

\* What the data of a finished supergraph response lacks; a value that is not
\* there reads as null.
Missing(req) ==
  {x \in Wanted(DocOf(req), api.db, RootOf(req), RootFieldNodes(DocOf(req), TheOp(req))) : x[2] # Null}
    \ OutOf(req).answer.cells

GatewayAnswered(r) == reqs[r].pc \in {"streaming", "done"} /\ \E o \in reqs[r].out : o.by = "sources"

\* The lists of sibling fetches of a plan, at every level.
RECURSIVE Levels(_)
Levels(children) == {children} \cup UNION {Levels(c.plan.children) : c \in Range(children)}

\* Those of all root fields of a request.
PlannedLevels(req) ==
  LET plan(nodes) == PlanRoot(Subgraphs(api), DocOf(req),
                              RootOwner(Subgraphs(api), DocOf(req), RootOf(req), nodes), nodes)
  IN UNION {Levels(plan(NodesOf(req, DocOf(req).nodes[i].key)).children) :
              i \in RootFieldNodes(DocOf(req), TheOp(req))}

\* Two fetches of one object ask one subgraph: the selection set of a fragment
\* and the one around it each plan their own.
Splits(req) ==
  \E level \in PlannedLevels(req) : \E i, j \in DOMAIN level :
     i < j /\ level[i].path = level[j].path /\ level[i].subgraph = level[j].subgraph

\* A fetch lies under a fragment on an interface or a union, whose name no
\* object has as its __typename.
Widens(req) ==
  LET concrete(ty) == \E i \in Defining(Subgraphs(api), ty) :
                         Subgraphs(api)[i].types[ty].kind = "object"
  IN \E level \in PlannedLevels(req) : \E c \in Range(level) :
        \E seg \in Range(c.path) : seg[1] = "on" /\ ~concrete(seg[2])

\* An operation the gateway executes over its data sources or subgraphs has
\* errors only if a source failed, and its data lacks something only if it has
\* errors (`execute`, the planner and the composition it relies on); shown for
\* documents that fetch no object twice and nothing under a fragment on an
\* abstract type (the two cases SpecCorrectAnswers is violated by).
GatewayAnswersWhole ==
  \A r \in Requests :
    GatewayAnswered(r) =>
      LET req == reqs[r]
          a == OutOf(req).answer
      IN /\ a.errors => a.failed
         /\ api.mode = "supergraph" /\ Missing(req) # {} => a.errors \/ Splits(req) \/ Widens(req)

\* ADR-0011 calls the per-root, per-level plan spec-correct: data lacks
\* something only together with an error.
SpecCorrectAnswers ==
  \A r \in Requests :
    GatewayAnswered(r) /\ api.mode = "supergraph" /\ Missing(reqs[r]) # {}
      => OutOf(reqs[r]).answer.errors
=============================================================================
