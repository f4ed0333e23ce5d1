--------------------------- MODULE HotReloadProofs ---------------------------
(***************************************************************************)
(* Safety of configuration reloads for any number of pods, admin requests, *)
(* definitions and nudges, any queue capacity, and any number of writes    *)
(* and faults.                                                             *)
(*                                                                         *)
(* FreshAfterNudge speaks of pods at rest and is not inductive.            *)
(* LoadFaithful adds what is true in the middle of a load: as long as no   *)
(* write has come after the nudge that caused it, what was scanned and     *)
(* read is what is stored.                                                 *)
(***************************************************************************)
EXTENDS HotReload, TLAPS

\* What was scanned and read by the load of pod p is what is stored; keys still
\* to be scanned have not been read.
Faithful(p) ==
    \A a \in Apis :
        /\ a \in unseen[p] => got[p][a] = None
        /\ a \notin unseen[p] \cup found[p] => got[p][a] = store[a]

\* A load that no write has overtaken, and that no queued nudge will repeat, is
\* faithful.
LoadFaithful ==
    \A p \in Pods : Loading(p) /\ nudges[p] = 0 /\ covered[p] => Faithful(p)

IInv == TypeOK /\ LoadFaithful /\ FreshAfterNudge

-----------------------------------------------------------------------------
(* What a table built from records contains. *)

\* Every value of the merge is a definition or nothing.
LEMMA MergedType ==
    ASSUME NEW recs \in [Apis -> Records]
    PROVE  Merged(recs) \in [Ids -> Records]
  BY ReloadAssumption DEF Merged, Ids, Records

\* RouteTable::build yields a definition or nothing for every api_id.
LEMMA RoutesType ==
    ASSUME NEW recs \in [Apis -> Records]
    PROVE  Routes(recs) \in [Ids -> Records]
  BY MergedType DEF Routes, Records

\* A table that was built routes only active definitions, on distinct paths.
LEMMA RoutesCoherent ==
    ASSUME NEW recs \in [Apis -> Records], Loadable(recs), NEW a \in Ids, NEW b \in Ids
    PROVE  /\ Routes(recs)[a] # None => Routes(recs)[a].kind = "active"
           /\ Routes(recs)[a] # None /\ Routes(recs)[b] # None /\ a # b =>
                 Routes(recs)[a].path # Routes(recs)[b].path
  <1>1. \A c \in Ids : Routes(recs)[c] # None =>
            Routes(recs)[c] = Merged(recs)[c] /\ Merged(recs)[c].kind = "active"
    BY DEF Routes
  <1>2. \A c, d \in Ids : c # d /\ Merged(recs)[c] # None /\ Merged(recs)[d] # None =>
            Merged(recs)[c].path # Merged(recs)[d].path
    BY DEF Loadable, DuplicatePath
  <1> QED BY <1>1, <1>2

\* A table that was built routes every active definition of the files.
LEMMA RoutesKeepFiles ==
    ASSUME NEW recs \in [Apis -> Records], Loadable(recs),
           NEW a \in DOMAIN FileDefs, FileDefs[a].kind = "active"
    PROVE  Routes(recs)[a] = FileDefs[a]
  <1>1. a \in Ids /\ FileDefs[a] # None
    BY ReloadAssumption DEF Ids
  <1>2. a \in Apis => recs[a] = None
    BY DEF Loadable, DuplicateId
  <1>3. Merged(recs)[a] = FileDefs[a]
    BY <1>1, <1>2 DEF Merged
  <1> QED BY <1>1, <1>3 DEF Routes

-----------------------------------------------------------------------------
(* Types. *)

\* A slot past its first storage call holds an id and a definition.
LEMMA OpHolds ==
    ASSUME TypeOK, NEW s \in Slots, op[s].pc # "idle"
    PROVE  op[s].api \in Apis /\ op[s].def \in Defs
  BY DEF TypeOK, NoOp

\* The state is well typed at the start.
LEMMA InitTypeOK == Init => TypeOK
  BY ReloadAssumption DEF Init, TypeOK, Nothing, Records, Ids

\* A write keeps the types.
LEMMA WrittenType ==
    ASSUME TypeOK, NEW a \in Apis, NEW rec \in Records, Written(a, rec)
    PROVE  /\ store' \in [Apis -> Records]
           /\ covered' \in [Pods -> BOOLEAN]
           /\ writes' \in 0 .. MaxWrites
  BY ReloadAssumption DEF TypeOK, Written

\* So do the beginning and the end of a load.
LEMMA LoadTypes ==
    ASSUME TypeOK, NEW p \in Pods, NEW label \in {"down", "boot", "gap", "idle", "load"},
           BeginLoad(p, label) \/ EndLoad(p, label)
    PROVE  /\ pc' \in [Pods -> {"down", "boot", "gap", "idle", "load"}]
           /\ unseen' \in [Pods -> SUBSET Apis]
           /\ found' \in [Pods -> SUBSET Apis]
           /\ got' \in [Pods -> [Apis -> Records]]
  <1>1. Nothing \in [Apis -> Records]
    BY DEF Nothing, Records
  <1>2. CASE BeginLoad(p, label)
    BY <1>1, <1>2 DEF TypeOK, BeginLoad
  <1>3. CASE EndLoad(p, label)
    BY <1>1, <1>3 DEF TypeOK, EndLoad
  <1> QED BY <1>2, <1>3

\* Every step preserves the types.
LEMMA NextTypeOK == TypeOK /\ [Next]_vars => TypeOK'
  <1> SUFFICES ASSUME TypeOK, [Next]_vars PROVE TypeOK'
    OBVIOUS
  <1> USE ReloadAssumption
  <1>1. ASSUME NEW s \in Slots, NEW a \in Apis, NEW d \in Defs,
               CreateGet(s, a, d) \/ PutGet(s, a, d)
        PROVE  TypeOK'
    <2>1. \E label \in {"create", "put"} :
              op' = [op EXCEPT ![s] = [pc |-> label, api |-> a, def |-> d]]
      BY <1>1 DEF CreateGet, PutGet
    <2>2. op' \in [Slots -> {NoOp} \cup [pc : {"create", "put"}, api : Apis, def : Defs]]
      BY <2>1 DEF TypeOK
    <2> QED BY <1>1, <2>2 DEF CreateGet, PutGet, TypeOK, podVars
  <1>2. ASSUME NEW s \in Slots, Set(s) PROVE TypeOK'
    <2>1. op[s].api \in Apis /\ op[s].def \in Records
      BY <1>2, OpHolds DEF Set, Records
    <2>2. op' \in [Slots -> {NoOp} \cup [pc : {"create", "put"}, api : Apis, def : Defs]]
      BY <1>2 DEF Set, TypeOK
    <2> QED BY <1>2, <2>1, <2>2, WrittenType DEF Set, TypeOK, podVars
  <1>3. ASSUME NEW s \in Slots, SetFails(s) PROVE TypeOK'
    BY <1>3 DEF SetFails, TypeOK, podVars
  <1>4. ASSUME NEW a \in Apis, Delete(a) PROVE TypeOK'
    <2>1. None \in Records
      BY DEF Records
    <2> QED BY <1>4, <2>1, WrittenType DEF Delete, TypeOK, podVars
  <1>5. CASE Reload
    BY <1>5 DEF Reload, TypeOK, podVars
  <1>6. ASSUME NEW p \in Pods, Boot(p) PROVE TypeOK'
    BY <1>6, LoadTypes DEF Boot, BeginLoad, TypeOK
  <1>7. ASSUME NEW p \in Pods, Nudged(p) PROVE TypeOK'
    <2>1. nudges' \in [Pods -> 0 .. QueueCap]
      BY <1>7 DEF Nudged, TypeOK
    <2> QED BY <1>7, <2>1, LoadTypes DEF Nudged, BeginLoad, TypeOK
  <1>8. ASSUME NEW p \in Pods, NEW a \in Apis, ScanKey(p, a) PROVE TypeOK'
    BY <1>8 DEF ScanKey, TypeOK
  <1>9. ASSUME NEW p \in Pods, NEW a \in Apis, ReadKey(p, a) PROVE TypeOK'
    BY <1>9 DEF ReadKey, TypeOK
  <1>10. ASSUME NEW p \in Pods, BuildTable(p) PROVE TypeOK'
    <2>1. table' \in [Pods -> [Ids -> Records]]
      BY <1>10, RoutesType DEF BuildTable, TypeOK
    <2> QED BY <1>10, <2>1, LoadTypes DEF BuildTable, TypeOK
  <1>11. ASSUME NEW p \in Pods, LoadFails(p) PROVE TypeOK'
    <2>1. covered' \in [Pods -> BOOLEAN]
      BY <1>11 DEF LoadFails, TypeOK
    <2>2. faults' \in 0 .. MaxFaults
      BY <1>11 DEF LoadFails, TypeOK
    <2> QED BY <1>11, <2>1, <2>2, LoadTypes DEF LoadFails, TypeOK
  <1>12. ASSUME NEW p \in Pods, Listen(p) \/ Link(p) PROVE TypeOK'
    BY <1>12 DEF Listen, Link, TypeOK, podVars
  <1>13. ASSUME NEW p \in Pods, Unlink(p) PROVE TypeOK'
    <2>1. PICK n \in 0 .. nudges[p] :
              /\ nudges' = [nudges EXCEPT ![p] = n]
              /\ covered' = [covered EXCEPT ![p] = @ /\ (n > 0 \/ nudges[p] = 0)]
      BY <1>13 DEF Unlink
    <2>2. nudges' \in [Pods -> 0 .. QueueCap]
      BY <2>1 DEF TypeOK
    <2>3. covered' \in [Pods -> BOOLEAN]
      BY <2>1 DEF TypeOK
    <2> QED BY <1>13, <2>2, <2>3 DEF Unlink, TypeOK, podVars
  <1>14. ASSUME NEW p \in Pods, Crash(p) PROVE TypeOK'
    <2>1. table' \in [Pods -> [Ids -> Records]]
      BY <1>14 DEF Crash, TypeOK, Records
    <2> QED BY <1>14, <2>1, LoadTypes DEF Crash, TypeOK
  <1>15. CASE UNCHANGED vars
    BY <1>15 DEF vars, podVars, TypeOK
  <1> QED
    BY <1>1, <1>2, <1>3, <1>4, <1>5, <1>6, <1>7, <1>8, <1>9, <1>10, <1>11, <1>12,
       <1>13, <1>14, <1>15
    DEF Next, Admin, Pod, Load, Fault

\* Type correctness of the store, the admin requests and the pods.
THEOREM TypeCorrect == Spec => []TypeOK
  BY InitTypeOK, NextTypeOK, PTL DEF Spec

-----------------------------------------------------------------------------
(* Tables. *)

\* What any step may do to the tables: nothing, clear one in a crash, or swap in
\* one that was built from a load that succeeded.
LEMMA TableStep ==
    ASSUME TypeOK, [Next]_vars, NEW p \in Pods
    PROVE  \/ table'[p] = table[p]
           \/ pc'[p] = "down" /\ table'[p] = [a \in Ids |-> None]
           \/ \E recs \in [Apis -> Records] : Loadable(recs) /\ table'[p] = Routes(recs)
  <1>1. CASE UNCHANGED table
    BY <1>1
  <1>2. ASSUME NEW q \in Pods, BuildTable(q) PROVE
           \/ table'[p] = table[p]
           \/ \E recs \in [Apis -> Records] : Loadable(recs) /\ table'[p] = Routes(recs)
    <2>1. got[q] \in [Apis -> Records]
      BY DEF TypeOK
    <2> QED BY <1>2, <2>1 DEF BuildTable, TypeOK
  <1>3. ASSUME NEW q \in Pods, Crash(q) PROVE
           \/ table'[p] = table[p]
           \/ pc'[p] = "down" /\ table'[p] = [a \in Ids |-> None]
    BY <1>3 DEF Crash, EndLoad, TypeOK
  <1> QED
    BY <1>1, <1>2, <1>3
    DEF Next, Admin, Pod, Load, Fault, CreateGet, PutGet, Set, SetFails, Delete, Reload, Boot,
        Nudged, ScanKey, ReadKey, LoadFails, Listen, Link, Unlink, BeginLoad, podVars, vars

\* merge_sources judges what was read, not what is stored: a torn load never
\* gives a table with two routes on one path or a route that does not build.
THEOREM TablesCoherent == Spec => []TableCoherent
  <1>1. Init => TableCoherent
    BY DEF Init, TableCoherent
  <1>2. TypeOK /\ TableCoherent /\ [Next]_vars => TableCoherent'
    <2> SUFFICES ASSUME TypeOK, TableCoherent, [Next]_vars,
                        NEW p \in Pods, NEW a \in Ids, NEW b \in Ids
                 PROVE  /\ table'[p][a] # None => table'[p][a].kind = "active"
                        /\ table'[p][a] # None /\ table'[p][b] # None /\ a # b =>
                              table'[p][a].path # table'[p][b].path
      BY DEF TableCoherent
    <2>1. CASE table'[p] = table[p]
      BY <2>1 DEF TableCoherent
    <2>2. CASE table'[p] = [c \in Ids |-> None]
      BY <2>2
    <2>3. ASSUME NEW recs \in [Apis -> Records], Loadable(recs), table'[p] = Routes(recs)
          PROVE  /\ table'[p][a] # None => table'[p][a].kind = "active"
                 /\ table'[p][a] # None /\ table'[p][b] # None /\ a # b =>
                       table'[p][a].path # table'[p][b].path
      BY <2>3, RoutesCoherent
    <2> QED BY <2>1, <2>2, <2>3, TableStep
  <1> QED BY <1>1, <1>2, TypeCorrect, PTL DEF Spec

\* A pod that runs after a step ran before it with the same table, or has just
\* swapped in one that was built.
LEMMA RunningStep ==
    ASSUME TypeOK, [Next]_vars, NEW p \in Pods, pc'[p] \in {"gap", "idle", "load"}
    PROVE  \/ pc[p] \in {"gap", "idle", "load"} /\ table'[p] = table[p]
           \/ \E recs \in [Apis -> Records] : Loadable(recs) /\ table'[p] = Routes(recs)
  <1> DEFINE Goal == \/ pc[p] \in {"gap", "idle", "load"} /\ table'[p] = table[p]
                     \/ \E recs \in [Apis -> Records] : Loadable(recs) /\ table'[p] = Routes(recs)
  <1>1. CASE UNCHANGED <<pc, table>>
    BY <1>1
  <1>2. ASSUME NEW q \in Pods, Boot(q) \/ Nudged(q) \/ Listen(q) \/ LoadFails(q) PROVE Goal
    BY <1>2 DEF Boot, Nudged, Listen, LoadFails, BeginLoad, EndLoad, Loading, TypeOK
  <1>3. ASSUME NEW q \in Pods, BuildTable(q) PROVE Goal
    <2>1. got[q] \in [Apis -> Records]
      BY DEF TypeOK
    <2>2. CASE Loadable(got[q])
      <3>1. CASE p = q
        BY <1>3, <2>1, <2>2, <3>1 DEF BuildTable, TypeOK
      <3>2. CASE p # q
        BY <1>3, <2>2, <3>2 DEF BuildTable, EndLoad, TypeOK
      <3> QED BY <3>1, <3>2
    <2>3. CASE ~Loadable(got[q])
      BY <1>3, <2>3 DEF BuildTable, EndLoad, Loading, TypeOK
    <2> QED BY <2>2, <2>3
  <1>4. ASSUME NEW q \in Pods, Crash(q) PROVE Goal
    BY <1>4 DEF Crash, EndLoad, TypeOK
  <1> QED
    BY <1>1, <1>2, <1>3, <1>4
    DEF Next, Admin, Pod, Load, Fault, CreateGet, PutGet, Set, SetFails, Delete, Reload,
        ScanKey, ReadKey, Link, Unlink, podVars, vars

\* A reload that fails, for whatever the store holds, leaves a running pod with
\* the routes of its files (merge_sources, reload).
THEOREM FilesAlwaysRouted == Spec => []FilesStayRouted
  <1>1. Init => FilesStayRouted
    BY DEF Init, FilesStayRouted
  <1>2. TypeOK /\ FilesStayRouted /\ [Next]_vars => FilesStayRouted'
    <2> SUFFICES ASSUME TypeOK, FilesStayRouted, [Next]_vars,
                        NEW p \in Pods, pc'[p] \in {"gap", "idle", "load"},
                        NEW a \in DOMAIN FileDefs, FileDefs[a].kind = "active"
                 PROVE  table'[p][a] = FileDefs[a]
      BY DEF FilesStayRouted
    <2>1. CASE pc[p] \in {"gap", "idle", "load"} /\ table'[p] = table[p]
      BY <2>1 DEF FilesStayRouted
    <2>2. ASSUME NEW recs \in [Apis -> Records], Loadable(recs), table'[p] = Routes(recs)
          PROVE  table'[p][a] = FileDefs[a]
      BY <2>2, RoutesKeepFiles
    <2> QED BY <2>1, <2>2, RunningStep
  <1> QED BY <1>1, <1>2, TypeCorrect, PTL DEF Spec

-----------------------------------------------------------------------------
(* Freshness. *)

\* What a pod at rest serves, and both invariants for one pod.
Fresh(p) == Loadable(store) => table[p] = Routes(store)

PodInv(p) ==
    nudges[p] = 0 /\ covered[p] =>
        /\ Loading(p) => Faithful(p)
        /\ pc[p] \in {"gap", "idle"} => Fresh(p)

\* The two invariants, pod by pod.
LEMMA PodInvs == LoadFaithful /\ FreshAfterNudge <=> \A p \in Pods : PodInv(p)
  BY DEF LoadFaithful, FreshAfterNudge, PodInv, Fresh

\* A step that leaves the store and all of pod p alone keeps what is known of p.
LEMMA Elsewhere ==
    ASSUME NEW p \in Pods, PodInv(p), store' = store,
           pc'[p] = pc[p], unseen'[p] = unseen[p], found'[p] = found[p], got'[p] = got[p],
           table'[p] = table[p], nudges'[p] = nudges[p], covered'[p] => covered[p]
    PROVE  PodInv(p)'
  BY DEF PodInv, Faithful, Fresh, Loading

\* The admin API: a write uncovers every pod, a nudge covers those it reaches.
LEMMA AdminFresh ==
    ASSUME TypeOK, Admin, NEW p \in Pods, PodInv(p)
    PROVE  PodInv(p)'
  <1>1. ASSUME NEW a, NEW rec, Written(a, rec) PROVE PodInv(p)'
    BY <1>1 DEF Written, PodInv
  <1>2. CASE Reload
    <2>1. CASE linked[p]
      <3>1. nudges'[p] > 0
        BY <1>2, <2>1, ReloadAssumption DEF Reload, TypeOK
      <3> QED BY <3>1 DEF PodInv
    <2>2. CASE ~linked[p]
      BY <1>2, <2>2, Elsewhere DEF Reload, TypeOK, podVars
    <2> QED BY <2>1, <2>2
  <1>3. ASSUME NEW s \in Slots, NEW a \in Apis, NEW d \in Defs,
               CreateGet(s, a, d) \/ PutGet(s, a, d)
        PROVE  PodInv(p)'
    BY <1>3, Elsewhere DEF CreateGet, PutGet, podVars
  <1>4. ASSUME NEW s \in Slots, SetFails(s) PROVE PodInv(p)'
    BY <1>4, Elsewhere DEF SetFails, podVars
  <1> QED BY <1>1, <1>2, <1>3, <1>4 DEF Admin, Set, Delete

\* The load of a pod: it begins with nothing read, each key is scanned and read
\* as it is stored, and what was read becomes the table.
LEMMA LoadFresh ==
    ASSUME TypeOK, NEW p \in Pods, PodInv(p),
           Boot(p) \/ Nudged(p) \/ Load(p) \/ LoadFails(p)
    PROVE  PodInv(p)'
  <1>1. CASE Boot(p) \/ Nudged(p)
    <2>1. /\ store' = store
          /\ pc'[p] \in {"boot", "load"} /\ unseen'[p] = Apis /\ found'[p] = {} /\ got'[p] = Nothing
      BY <1>1 DEF Boot, Nudged, BeginLoad, TypeOK
    <2>2. Faithful(p)'
      BY <2>1 DEF Faithful, Nothing
    <2> QED BY <2>1, <2>2 DEF PodInv
  <1>2. ASSUME NEW a \in Apis, ScanKey(p, a) PROVE PodInv(p)'
    <2>1. /\ UNCHANGED <<store, pc, got, nudges, covered>>
          /\ Loading(p) /\ a \in unseen[p]
          /\ unseen'[p] = unseen[p] \ {a}
          /\ found'[p] = IF store[a] # None THEN found[p] \cup {a} ELSE found[p]
      BY <1>2 DEF ScanKey, TypeOK
    <2>2. Faithful(p) => Faithful(p)'
      BY <2>1 DEF Faithful
    <2> QED BY <2>1, <2>2 DEF PodInv, Loading
  <1>3. ASSUME NEW a \in Apis, ReadKey(p, a) PROVE PodInv(p)'
    <2>1. /\ UNCHANGED <<store, pc, nudges, covered>>
          /\ Loading(p) /\ unseen[p] = {} /\ unseen'[p] = {}
          /\ found'[p] = found[p] \ {a}
          /\ got'[p] = [got[p] EXCEPT ![a] = store[a]]
      BY <1>3 DEF ReadKey, TypeOK
    <2>2. Faithful(p) => Faithful(p)'
      BY <2>1 DEF Faithful, TypeOK
    <2> QED BY <2>1, <2>2 DEF PodInv, Loading
  <1>4. CASE BuildTable(p)
    <2>1. /\ UNCHANGED <<store, nudges, covered>>
          /\ Loading(p) /\ unseen[p] = {} /\ found[p] = {}
          /\ pc'[p] \in {"gap", "idle", "down"}
      BY <1>4 DEF BuildTable, EndLoad, TypeOK
    <2>2. Faithful(p) => got[p] = store
      BY <2>1 DEF Faithful, TypeOK
    <2>3. Faithful(p) => Fresh(p)'
      <3>1. Loadable(got[p]) => table'[p] = Routes(got[p])
        BY <1>4 DEF BuildTable, TypeOK
      <3>2. (Loadable(store) <=> Loadable(store)') /\ Routes(store)' = Routes(store)
        BY <2>1
      <3> QED BY <2>2, <3>1, <3>2 DEF Fresh
    <2> QED BY <2>1, <2>3 DEF PodInv, Loading
  <1>5. CASE LoadFails(p)
    <2>1. pc'[p] \in {"down", "idle"} /\ nudges' = nudges /\ (covered'[p] => nudges[p] > 0)
      BY <1>5 DEF LoadFails, EndLoad, TypeOK
    <2> QED BY <2>1 DEF PodInv, TypeOK
  <1> QED BY <1>1, <1>2, <1>3, <1>4, <1>5 DEF Load

\* The rest of a pod's life: it starts to listen, its connection comes and goes.
LEMMA LinkFresh ==
    ASSUME TypeOK, NEW p \in Pods, PodInv(p),
           Listen(p) \/ Link(p) \/ Unlink(p) \/ Crash(p)
    PROVE  PodInv(p)'
  <1>1. CASE Listen(p)
    BY <1>1 DEF Listen, PodInv, Loading, Fresh, TypeOK
  <1>2. CASE Link(p)
    BY <1>2, Elsewhere DEF Link, podVars
  <1>3. CASE Unlink(p)
    <2>1. PICK n \in 0 .. nudges[p] :
              /\ nudges' = [nudges EXCEPT ![p] = n]
              /\ covered' = [covered EXCEPT ![p] = @ /\ (n > 0 \/ nudges[p] = 0)]
      BY <1>3 DEF Unlink
    <2>2. UNCHANGED <<store, podVars>>
      BY <1>3 DEF Unlink
    <2>3. nudges'[p] = n /\ (covered'[p] <=> covered[p] /\ (n > 0 \/ nudges[p] = 0))
      BY <2>1 DEF TypeOK
    <2>4. CASE n > 0
      BY <2>3, <2>4 DEF PodInv
    <2>5. CASE n = 0 /\ nudges[p] # 0
      BY <2>3, <2>5 DEF PodInv
    <2>6. CASE n = 0 /\ nudges[p] = 0
      BY <2>2, <2>3, <2>6, Elsewhere DEF podVars
    <2> QED BY <2>4, <2>5, <2>6
  <1>4. CASE Crash(p)
    BY <1>4 DEF Crash, PodInv, TypeOK
  <1> QED BY <1>1, <1>2, <1>3, <1>4

\* A step of one pod leaves the others alone.
LEMMA OtherPod ==
    ASSUME TypeOK, NEW p \in Pods, NEW q \in Pods, p # q, PodInv(p),
           Boot(q) \/ Pod(q) \/ Link(q) \/ Fault(q)
    PROVE  PodInv(p)'
  <1>1. store' = store
    BY DEF Boot, Pod, Load, Link, Fault, Nudged, ScanKey, ReadKey, BuildTable, LoadFails,
           Listen, Unlink, Crash
  <1>2. /\ pc'[p] = pc[p] /\ unseen'[p] = unseen[p] /\ found'[p] = found[p] /\ got'[p] = got[p]
        /\ table'[p] = table[p]
    BY DEF Boot, Pod, Load, Link, Fault, Nudged, ScanKey, ReadKey, BuildTable, LoadFails,
           Listen, Unlink, Crash, BeginLoad, EndLoad, podVars, TypeOK
  <1>3. nudges'[p] = nudges[p] /\ (covered'[p] => covered[p])
    BY DEF Boot, Pod, Load, Link, Fault, Nudged, ScanKey, ReadKey, BuildTable, LoadFails,
           Listen, Unlink, Crash, TypeOK
  <1> QED BY <1>1, <1>2, <1>3, Elsewhere

\* The inductive invariant.
LEMMA SpecIInv == Spec => []IInv
  <1>1. Init => IInv
    BY InitTypeOK DEF Init, IInv, LoadFaithful, FreshAfterNudge, Loading
  <1>2. IInv /\ [Next]_vars => IInv'
    <2> SUFFICES ASSUME IInv, [Next]_vars, NEW p \in Pods PROVE PodInv(p)'
      BY NextTypeOK, PodInvs DEF IInv, LoadFaithful, FreshAfterNudge, PodInv, Fresh
    <2>1. TypeOK /\ PodInv(p)
      BY PodInvs DEF IInv
    <2>2. CASE Admin
      BY <2>1, <2>2, AdminFresh
    <2>3. ASSUME NEW q \in Pods, Boot(q) \/ Pod(q) \/ Link(q) \/ Fault(q) PROVE PodInv(p)'
      <3>1. CASE p = q
        BY <2>1, <2>3, <3>1, LoadFresh, LinkFresh DEF Pod, Fault
      <3>2. CASE p # q
        BY <2>1, <2>3, <3>2, OtherPod
      <3> QED BY <3>1, <3>2
    <2>4. CASE UNCHANGED vars
      BY <2>1, <2>4, Elsewhere DEF vars, podVars
    <2> QED BY <2>2, <2>3, <2>4 DEF Next
  <1> QED BY <1>1, <1>2, PTL DEF Spec

\* Once a nudge has reached a pod after the last write and its load met no
\* error, the pod serves the table of the store, however earlier loads were torn
\* and however many nudges a full queue dropped (listen, build_table).
THEOREM FreshAfterEveryNudge == Spec => []FreshAfterNudge
  BY SpecIInv, PTL DEF IInv
=============================================================================
