------------------------------ MODULE HotReload ------------------------------
(***************************************************************************)
(* Configuration from the admin API to the route tables of the pods:       *)
(* CRUD on stored API definitions (g2-admin, resources.rs), the reload     *)
(* nudge (g2-admin, lib.rs), its best-effort delivery (g2-storage,         *)
(* memory.rs and redis.rs), and each pod's start-up and reload task        *)
(* (g2way, main.rs and reload.rs) with the key-by-key load of the          *)
(* definitions (g2-storage, defs.rs), the merge with the file source       *)
(* (g2-core, loader.rs) and the table build (g2-proxy, router.rs).         *)
(*                                                                         *)
(* A load scans the keys and then reads them one at a time, so it may see  *)
(* a mixture of configurations that no one ever stored together.           *)
(***************************************************************************)
EXTENDS Integers

CONSTANTS
    Pods,       \* gateway processes
    Apis,       \* api_ids that may have a stored definition
    Defs,       \* definitions: [path, kind]; path is the normalised listen_path
    None,       \* no record under the key
    FileDefs,   \* the file source: a function from api_ids to Defs
    Slots,      \* admin requests in flight together
    QueueCap,   \* capacity of a subscription's queue (32 in the code)
    MaxWrites,  \* bound on successful writes to the store
    MaxFaults   \* bound on storage errors, lost connections and crashes

ASSUME ReloadAssumption ==
    /\ \A d \in Defs : d.kind \in {"active", "inactive", "broken"}
    /\ None \notin Defs
    /\ \A a \in DOMAIN FileDefs : FileDefs[a] \in Defs
    /\ QueueCap \in Nat \ {0}
    /\ {MaxWrites, MaxFaults} \subseteq Nat

VARIABLES
    store,      \* the stored definition of each api_id
    op,         \* admin slots: [pc, api, def], between their get and their set
    pc,         \* per pod: "down", "boot", "gap", "idle" or "load"
    unseen,     \* per pod: keys the scan has still to visit
    found,      \* per pod: keys scanned and not read yet
    got,        \* per pod: records read by the load under way
    table,      \* per pod: the routes it serves, api_id -> definition or None
    linked,     \* per pod: the subscription's transport is up
    nudges,     \* per pod: reload nudges queued
    covered,    \* history: no write since a load or a queued nudge of the pod
    writes, faults

podVars == <<pc, unseen, found, got, table>>
vars == <<store, op, podVars, linked, nudges, covered, writes, faults>>

Ids == Apis \cup DOMAIN FileDefs
Records == Defs \cup {None}
Nothing == [a \in Apis |-> None]
NoOp == [pc |-> "idle", api |-> None, def |-> None]

TypeOK ==
    /\ store \in [Apis -> Records]
    /\ op \in [Slots -> {NoOp} \cup [pc : {"create", "put"}, api : Apis, def : Defs]]
    /\ pc \in [Pods -> {"down", "boot", "gap", "idle", "load"}]
    /\ unseen \in [Pods -> SUBSET Apis]
    /\ found \in [Pods -> SUBSET Apis]
    /\ got \in [Pods -> [Apis -> Records]]
    /\ table \in [Pods -> [Ids -> Records]]
    /\ linked \in [Pods -> BOOLEAN]
    /\ nudges \in [Pods -> 0 .. QueueCap]
    /\ covered \in [Pods -> BOOLEAN]
    /\ writes \in 0 .. MaxWrites
    /\ faults \in 0 .. MaxFaults

Init ==
    /\ store = Nothing
    /\ op = [s \in Slots |-> NoOp]
    /\ pc = [p \in Pods |-> "down"]
    /\ unseen = [p \in Pods |-> {}]
    /\ found = [p \in Pods |-> {}]
    /\ got = [p \in Pods |-> Nothing]
    /\ table = [p \in Pods |-> [a \in Ids |-> None]]
    /\ linked = [p \in Pods |-> FALSE]
    /\ nudges = [p \in Pods |-> 0]
    /\ covered = [p \in Pods |-> FALSE]
    /\ writes = 0
    /\ faults = 0

-----------------------------------------------------------------------------
(* What a set of records amounts to. *)

\* Both sources in one: the stored definition, else the file's.
Merged(recs) ==
    [a \in Ids |-> IF a \in Apis /\ recs[a] # None THEN recs[a]
                   ELSE IF a \in DOMAIN FileDefs THEN FileDefs[a] ELSE None]

\* Mutant: a stored definition shadows the file's.
NoDuplicateId(recs) == FALSE

\* merge_sources: an api_id defined by both sources ...
DuplicateId(recs) == \E a \in Apis \cap DOMAIN FileDefs : recs[a] # None

\* Mutant: only the stored definitions are compared with each other.
DuplicateStoredPath(recs) ==
    \E a, b \in Apis : a # b /\ recs[a] # None /\ recs[b] # None /\ recs[a].path = recs[b].path

\* ... or a listen_path that two definitions share.
DuplicatePath(recs) ==
    \E a, b \in Ids : /\ a # b
                      /\ Merged(recs)[a] # None /\ Merged(recs)[b] # None
                      /\ Merged(recs)[a].path = Merged(recs)[b].path

\* The merge succeeds and every definition, active or not, builds.
Loadable(recs) ==
    /\ ~DuplicateId(recs)
    /\ ~DuplicatePath(recs)
    /\ \A a \in Ids : Merged(recs)[a] # None => Merged(recs)[a].kind # "broken"

\* RouteTable::build: inactive definitions are skipped.
Routes(recs) ==
    [a \in Ids |-> IF Merged(recs)[a] # None /\ Merged(recs)[a].kind = "active"
                   THEN Merged(recs)[a] ELSE None]

-----------------------------------------------------------------------------
(* The admin API.  A request refused with 400, 404 or 409, or whose first   *)
(* storage call fails (503), changes nothing and is a stuttering step.      *)

Written(a, rec) ==
    /\ writes < MaxWrites
    /\ writes' = writes + 1
    /\ store' = [store EXCEPT ![a] = rec]
    /\ covered' = [p \in Pods |-> FALSE]

\* POST: the existence check; the id is free.
CreateGet(s, a, d) ==
    /\ op[s].pc = "idle"
    /\ store[a] = None
    /\ op' = [op EXCEPT ![s] = [pc |-> "create", api |-> a, def |-> d]]
    /\ UNCHANGED <<store, podVars, linked, nudges, covered, writes, faults>>

\* PUT: the read that only decides between "added" and "modified".
PutGet(s, a, d) ==
    /\ op[s].pc = "idle"
    /\ op' = [op EXCEPT ![s] = [pc |-> "put", api |-> a, def |-> d]]
    /\ UNCHANGED <<store, podVars, linked, nudges, covered, writes, faults>>

\* The unconditional set of POST and PUT.
Set(s) ==
    /\ op[s].pc # "idle"
    /\ Written(op[s].api, op[s].def)
    /\ op' = [op EXCEPT ![s] = NoOp]
    /\ UNCHANGED <<podVars, linked, nudges, faults>>

\* The set fails before it reaches the store (503).
SetFails(s) ==
    /\ op[s].pc # "idle"
    /\ faults < MaxFaults
    /\ faults' = faults + 1
    /\ op' = [op EXCEPT ![s] = NoOp]
    /\ UNCHANGED <<store, podVars, linked, nudges, covered, writes>>

Delete(a) ==
    /\ store[a] # None
    /\ Written(a, None)
    /\ UNCHANGED <<op, podVars, linked, nudges, faults>>

\* POST /g2/reload: the nudge joins the queue of every linked pod; a full
\* queue drops one nudge and still holds QueueCap of them.
Reload ==
    /\ nudges' = [p \in Pods |-> IF linked[p] /\ nudges[p] < QueueCap
                                 THEN nudges[p] + 1 ELSE nudges[p]]
    /\ covered' = [p \in Pods |-> linked[p] \/ covered[p]]
    /\ UNCHANGED <<store, op, podVars, linked, writes, faults>>

-----------------------------------------------------------------------------
(* A pod. *)

\* build_table begins: nothing scanned, nothing read.
BeginLoad(p, label) ==
    /\ pc' = [pc EXCEPT ![p] = label]
    /\ unseen' = [unseen EXCEPT ![p] = Apis]
    /\ found' = [found EXCEPT ![p] = {}]
    /\ got' = [got EXCEPT ![p] = Nothing]
    /\ UNCHANGED table

\* The locals of build_table go out of scope.
EndLoad(p, label) ==
    /\ pc' = [pc EXCEPT ![p] = label]
    /\ unseen' = [unseen EXCEPT ![p] = {}]
    /\ found' = [found EXCEPT ![p] = {}]
    /\ got' = [got EXCEPT ![p] = Nothing]

Loading(p) == pc[p] \in {"boot", "load"}

\* The process starts: the first table is built before anything listens.
Boot(p) ==
    /\ pc[p] = "down"
    /\ BeginLoad(p, "boot")
    /\ covered' = [covered EXCEPT ![p] = TRUE]
    /\ UNCHANGED <<store, op, linked, nudges, writes, faults>>

\* rx.recv(): one nudge is taken before the load it causes.
Nudged(p) ==
    /\ pc[p] = "idle"
    /\ nudges[p] > 0
    /\ nudges' = [nudges EXCEPT ![p] = @ - 1]
    /\ BeginLoad(p, "load")
    /\ UNCHANGED <<store, op, linked, covered, writes, faults>>

\* scan_prefix visits the keys in an arbitrary order, not atomically.
ScanKey(p, a) ==
    /\ Loading(p)
    /\ a \in unseen[p]
    /\ unseen' = [unseen EXCEPT ![p] = @ \ {a}]
    /\ found' = [found EXCEPT ![p] = IF store[a] # None THEN @ \cup {a} ELSE @]
    /\ UNCHANGED <<store, op, pc, got, table, linked, nudges, covered, writes, faults>>

\* One get after the scan; a key that has vanished is skipped.
ReadKey(p, a) ==
    /\ Loading(p)
    /\ unseen[p] = {}
    /\ a \in found[p]
    /\ found' = [found EXCEPT ![p] = @ \ {a}]
    /\ got' = [got EXCEPT ![p][a] = store[a]]
    /\ UNCHANGED <<store, op, pc, unseen, table, linked, nudges, covered, writes, faults>>

\* Mutant: nudges that came during the load are taken as handled by it.
BuildTableCoalescing(p) ==
    /\ Loading(p)
    /\ unseen[p] = {}
    /\ found[p] = {}
    /\ \/ /\ Loadable(got[p])
          /\ table' = [table EXCEPT ![p] = Routes(got[p])]
          /\ EndLoad(p, IF pc[p] = "boot" THEN "gap" ELSE "idle")
       \/ /\ ~Loadable(got[p])
          /\ UNCHANGED table
          /\ EndLoad(p, IF pc[p] = "boot" THEN "down" ELSE "idle")
    /\ nudges' = [nudges EXCEPT ![p] = 0]
    /\ UNCHANGED <<store, op, linked, covered, writes, faults>>

\* Merge and build: on success the new table is swapped in, on error a running
\* pod keeps its table and a starting one exits.
BuildTable(p) ==
    /\ Loading(p)
    /\ unseen[p] = {}
    /\ found[p] = {}
    /\ \/ /\ Loadable(got[p])
          /\ table' = [table EXCEPT ![p] = Routes(got[p])]
          /\ EndLoad(p, IF pc[p] = "boot" THEN "gap" ELSE "idle")
       \/ /\ ~Loadable(got[p])
          /\ UNCHANGED table
          /\ EndLoad(p, IF pc[p] = "boot" THEN "down" ELSE "idle")
    /\ UNCHANGED <<store, op, linked, nudges, covered, writes, faults>>

\* A scan or a get fails: the load ends as a failed build does.
LoadFails(p) ==
    /\ Loading(p)
    /\ unseen[p] \cup found[p] # {}
    /\ faults < MaxFaults
    /\ faults' = faults + 1
    /\ EndLoad(p, IF pc[p] = "boot" THEN "down" ELSE "idle")
    /\ covered' = [covered EXCEPT ![p] = @ /\ nudges[p] > 0]
    /\ UNCHANGED <<store, op, table, linked, nudges, writes>>

\* The spawned listen task gets to run.
Listen(p) ==
    /\ pc[p] = "gap"
    /\ pc' = [pc EXCEPT ![p] = "idle"]
    /\ UNCHANGED <<store, op, unseen, found, got, table, linked, nudges, covered, writes, faults>>

\* subscribe, or the forwarding task's re-dial, is in effect.
Link(p) ==
    /\ pc[p] \in {"idle", "load"}
    /\ ~linked[p]
    /\ linked' = [linked EXCEPT ![p] = TRUE]
    /\ UNCHANGED <<store, op, podVars, nudges, covered, writes, faults>>

\* The pub/sub connection breaks; nudges still in it may be lost.
Unlink(p) ==
    /\ linked[p]
    /\ faults < MaxFaults
    /\ faults' = faults + 1
    /\ linked' = [linked EXCEPT ![p] = FALSE]
    /\ \E n \in 0 .. nudges[p] :
          /\ nudges' = [nudges EXCEPT ![p] = n]
          /\ covered' = [covered EXCEPT ![p] = @ /\ (n > 0 \/ nudges[p] = 0)]
    /\ UNCHANGED <<store, op, podVars, writes>>

Crash(p) ==
    /\ pc[p] # "down"
    /\ faults < MaxFaults
    /\ faults' = faults + 1
    /\ EndLoad(p, "down")
    /\ table' = [table EXCEPT ![p] = [a \in Ids |-> None]]
    /\ linked' = [linked EXCEPT ![p] = FALSE]
    /\ nudges' = [nudges EXCEPT ![p] = 0]
    /\ covered' = [covered EXCEPT ![p] = FALSE]
    /\ UNCHANGED <<store, op, writes>>

-----------------------------------------------------------------------------
Admin ==
    \/ \E s \in Slots : \/ \E a \in Apis, d \in Defs : CreateGet(s, a, d) \/ PutGet(s, a, d)
                        \/ Set(s) \/ SetFails(s)
    \/ \E a \in Apis : Delete(a)
    \/ Reload

Load(p) == (\E a \in Apis : ScanKey(p, a) \/ ReadKey(p, a)) \/ BuildTable(p)

Pod(p) == Nudged(p) \/ Load(p) \/ Listen(p)

Fault(p) == LoadFails(p) \/ Unlink(p) \/ Crash(p)

Next == Admin \/ \E p \in Pods : Boot(p) \/ Pod(p) \/ Link(p) \/ Fault(p)

Spec == Init /\ [][Next]_vars

\* A pod's tasks keep running.  Nothing is assumed of the operator, of the
\* orchestrator that restarts a pod, or of the network.
FairSpec == Spec /\ \A p \in Pods : WF_vars(Pod(p))

-----------------------------------------------------------------------------
\* A pod that has handled its nudges serves what is stored: if nothing was
\* written since a nudge reached it (or it began to boot), its queue is empty
\* and its last load met no storage error, then its table is the table of the
\* store, however the loads before were torn by concurrent writes, and
\* however many nudges a full queue dropped.  The exception is a store that
\* does not load.
FreshAfterNudge ==
    \A p \in Pods :
        pc[p] \in {"gap", "idle"} /\ nudges[p] = 0 /\ covered[p] /\ Loadable(store)
            => table[p] = Routes(store)

\* No torn read ever makes two routes share a listen path or serves an API from
\* a definition that does not build: merge_sources runs on what was read.
TableCoherent ==
    \A p \in Pods : \A a, b \in Ids :
        /\ table[p][a] # None => table[p][a].kind = "active"
        /\ table[p][a] # None /\ table[p][b] # None /\ a # b =>
              table[p][a].path # table[p][b].path

\* A running pod is never left without a file-sourced route by a bad reload:
\* whatever the store holds, start-up aside, the active file definitions stay.
FilesStayRouted ==
    \A p \in Pods : pc[p] \in {"gap", "idle", "load"} =>
        \A a \in DOMAIN FileDefs : FileDefs[a].kind = "active" => table[p][a] = FileDefs[a]

\* Reloads land: a pod reached by a nudge after the last write ends up serving
\* the store for good.
ReloadsLand ==
    \A p \in Pods :
        <>[](covered[p] /\ pc[p] # "down" /\ Loadable(store)) => <>[](table[p] = Routes(store))
=============================================================================
