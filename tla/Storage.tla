------------------------------ MODULE Storage -------------------------------
(***************************************************************************)
(* The storage layer of a gateway (g2-storage): one backend, chosen by the *)
(* configuration, answers the rate and quota checks of one key of each     *)
(* kind.  A Redis server runs the two scripts one at a time on its own     *)
(* clock; the in-memory backend serves calls that wait on its locks.       *)
(***************************************************************************)
EXTENDS RedisRate, RedisQuota, MemoryLimits

VARIABLE backend    \* the backend the configuration names

rateLocal  == <<zset, expiry, answer, admitted>>
quotaLocal == <<count, ends, verdict>>
memLocal   == <<log, quota, pc, now, allowed, granted, renewed>>

storageVars == <<backend, clock, rateLocal, quotaLocal, memLocal>>

StorageInit ==
    /\ backend \in {"redis", "memory"}
    /\ RateInit /\ QuotaInit /\ MemInit

\* A script, or a key that expires or loses its expiry on the server.
Redis ==
    /\ backend = "redis"
    /\ \/ (AllowRate \/ DenyRate \/ ExpireWindow) /\ UNCHANGED quotaLocal
       \/ (QuotaScript \/ ExpireCounter \/ LoseExpiry) /\ UNCHANGED rateLocal
    /\ UNCHANGED <<backend, memLocal>>

\* A step of a call in the in-memory backend.
Memory ==
    /\ backend = "memory"
    /\ \E c \in Calls : \/ Call(c, "rate") \/ Call(c, "quota")
                        \/ CheckRate(c) \/ CheckQuota(c)
    /\ UNCHANGED <<backend, rateLocal, quotaLocal>>

StorageTick == RateTick /\ QuotaTick /\ MemTick /\ UNCHANGED backend

StorageNext == Redis \/ Memory \/ StorageTick

StorageSpec == StorageInit /\ [][StorageNext]_storageVars
=============================================================================
