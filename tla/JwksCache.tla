----------------------------- MODULE JwksCache ------------------------------
(***************************************************************************)
(* The signing keys of one API, fetched from its identity provider           *)
(* (g2-middleware jwks.rs, HttpJwksFetch of g2-proxy forward.rs).            *)
(*                                                                         *)
(*   provider   the key set the provider publishes now: a set of [kid, usable],*)
(*              usable being an RSA key for RS256 (external)                 *)
(*   keys       the kids of the cached set, swapped as a whole               *)
(*   resolved   the JWKS URL is known (at once, without OIDC discovery)      *)
(*   last, now  the last attempt and the clock, in seconds                   *)
(*   fetches    per actor its refresh under way: [pc, reply], pc one of      *)
(*              "none", "discover", "fetch", "reply"                         *)
(*   refresher  the periodic task: "sleep", "refresh", "gone"                *)
(*   wins       the elections to refetch after a miss: a set of [by, at]     *)
(*   routed     the route that owns the cache is in the table                *)
(***************************************************************************)
EXTENDS Integers, Sequences, FiniteSets

CONSTANTS Requests,        \* requests (a model value each)
          Refresher,       \* the periodic task, as an actor
          KeySets,         \* what the provider may publish
          Cooldown,        \* MISS_REFETCH_COOLDOWN_SECS
          MaxTime,         \* bound on the clock
          MaxRotations     \* bound on the provider's rotations

\* A number of seconds.
ASSUME CooldownAssumption == Cooldown \in Nat

VARIABLES provider, keys, resolved, last, now, fetches, refresher, wins, routed, rotations

jwksVars == <<provider, keys, resolved, last, now, fetches, refresher, wins, routed, rotations>>

NoFetch == [pc |-> "none", reply |-> {}]

\* Keys with a kid, of the right kind; the others are skipped.
Usable(set) == {k.kid : k \in {k \in set : k.usable}}

JwksInit(uses, discovers, published) ==
  /\ provider = published /\ keys = {}
  /\ resolved = ~discovers
  /\ last = 0 /\ now = Cooldown        \* long after the epoch
  /\ fetches = [a \in Requests \cup {Refresher} |-> NoFetch]
  /\ refresher = IF uses THEN "sleep" ELSE "gone"
  /\ wins = {} /\ routed = TRUE /\ rotations = 0

Rotate ==
  /\ refresher # "gone" /\ rotations < MaxRotations
  /\ provider' \in KeySets \ {provider} /\ rotations' = rotations + 1
  /\ UNCHANGED <<keys, resolved, last, now, fetches, refresher, wins, routed>>

Tick ==
  /\ now < MaxTime /\ refresher # "gone" /\ now' = now + 1
  /\ UNCHANGED <<provider, keys, resolved, last, fetches, refresher, wins, routed, rotations>>

\* A reload replaces the route and, with it, the cache.
Unroute ==
  /\ routed /\ routed' = FALSE
  /\ UNCHANGED <<provider, keys, resolved, last, now, fetches, refresher, wins, rotations>>

\* `refresh` up to its first await.
Refresh(a) ==
  /\ last' = now
  /\ fetches' = [fetches EXCEPT ![a].pc = IF resolved THEN "fetch" ELSE "discover"]

\* Mutant: only an empty cache is refreshed.
RefreshOnceEmpty ==
  /\ refresher = "sleep" /\ keys = {}
  /\ Refresh(Refresher) /\ refresher' = "refresh"
  /\ UNCHANGED <<provider, keys, resolved, now, wins, routed, rotations>>

\* `refresh_once`: at once, then at every interval, while the route lives.
RefreshOnce ==
  /\ refresher = "sleep"
  /\ IF routed THEN Refresh(Refresher) /\ refresher' = "refresh"
     ELSE refresher' = "gone" /\ UNCHANGED <<last, fetches>>
  /\ UNCHANGED <<provider, keys, resolved, now, wins, routed, rotations>>

\* A refresh of actor `a` is over, with whatever it gave.
Over(a) ==
  /\ fetches' = [fetches EXCEPT ![a] = NoFetch]
  /\ refresher' = IF a = Refresher THEN "sleep" ELSE refresher

\* `jwks_url`: the discovery document names the issuer and the URL, pinned.
Discover(a) ==
  /\ fetches[a].pc = "discover"
  /\ fetches' = [fetches EXCEPT ![a].pc = "fetch"] /\ resolved' = TRUE
  /\ UNCHANGED <<provider, keys, last, now, refresher, wins, routed, rotations>>

\* The provider answers with the keys it publishes at that moment...
ProviderAnswers(a) ==
  /\ fetches[a].pc = "fetch"
  /\ fetches' = [fetches EXCEPT ![a] = [pc |-> "reply", reply |-> provider]]
  /\ UNCHANGED <<provider, keys, resolved, last, now, refresher, wins, routed, rotations>>

\* ...and its answer, read to the end, replaces the cached set.
StoreKeys(a) ==
  /\ fetches[a].pc = "reply"
  /\ keys' = Usable(fetches[a].reply) /\ Over(a)
  /\ UNCHANGED <<provider, resolved, last, now, wins, routed, rotations>>

\* Mutant: a failed refresh leaves no keys behind.
RefreshFailsEmpty(a) ==
  /\ fetches[a].pc # "none"
  /\ keys' = {} /\ Over(a)
  /\ UNCHANGED <<provider, resolved, last, now, wins, routed, rotations>>

\* A timeout, a status, a broken body, a document of another issuer: the
\* previous set stays.
RefreshFails(a) ==
  /\ fetches[a].pc # "none"
  /\ Over(a)
  /\ UNCHANGED <<provider, keys, resolved, last, now, wins, routed, rotations>>

JwksStep(a) == Discover(a) \/ ProviderAnswers(a) \/ StoreKeys(a) \/ RefreshFails(a)

\* Mutant: the election is not exclusive.
ElectedTogether(seen) == now - seen >= Cooldown

\* `key_for`: the cooldown is over and no one else moved the attempt time
\* since it was read (the compare-exchange).
Elected(seen) == now - seen >= Cooldown /\ last = seen
=============================================================================
