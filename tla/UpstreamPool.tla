---------------------------- MODULE UpstreamPool ----------------------------
(***************************************************************************)
(* One forwarding target of a route (g2-proxy): the generations of its     *)
(* address set (forward.rs, TargetSet), the shared round-robin cursor, the *)
(* requests that pick addresses and retry (run_attempts, forward), the     *)
(* health checker task (health.rs) and the service-discovery refresher     *)
(* task (discovery.rs).  Both tasks hold the target weakly and end when    *)
(* a reload has dropped the route and the last strong reference is gone.   *)
(* What the requests carry is RequestPath's; the breaker is CircuitBreaker; *)
(* DiscoveryStatus, only shown by the admin API, is left out.              *)
(***************************************************************************)
EXTENDS Integers, Sequences

CONSTANTS
    Requests,           \* requests in flight together
    Addrs,              \* upstream addresses
    Seeds,              \* target_list: the first generation's addresses
    Polls,              \* address lists a discovery body may carry; << >>: none
    Retries,            \* upstream_retries
    UnhealthyThreshold, \* HealthCheckConfig.unhealthy_threshold
    HealthyThreshold,   \* HealthCheckConfig.healthy_threshold
    CursorMod,          \* bound: the cursor is kept modulo a common multiple
                        \* of all set sizes, so that cursor % size is exact
    MaxSets,            \* bound on generations
    MaxFlips            \* bound on how often an address goes up or down

ASSUME PoolAssumption ==
    /\ Seeds \in Seq(Addrs) /\ Len(Seeds) > 0
    /\ \A p \in Polls : p \in Seq(Addrs)
    /\ {Retries, MaxFlips} \subseteq Nat
    /\ {UnhealthyThreshold, HealthyThreshold, CursorMod, MaxSets} \subseteq Nat \ {0}
    /\ \A p \in Polls \cup {Seeds} : Len(p) > 0 => CursorMod % Len(p) = 0

VARIABLES
    sets,       \* generations: [addrs, healthy, evidence], evidence is history
    mounted,    \* the generation the target serves
    cursor,     \* the rotation cursor
    routed,     \* the route table still holds the target
    req,        \* per request: [pc, gen, idx, tries, attempt, max, sent, steady];
                \* steady is history: the positions healthy ever since the set was
                \* loaded, while nobody else drew from the cursor
    checker,    \* health task: [pc, gen, ok, failures, successes]
    refresher,  \* discovery task: "due", "fetching", "body", "sleeping", "gone"
    up,         \* environment: addresses that answer
    flips       \* environment: changes of `up' so far

vars == <<sets, mounted, cursor, routed, req, checker, refresher, up, flips>>
reqVars == <<cursor, req>>
taskVars == <<checker, refresher>>
envVars == <<up, flips>>

\* TargetSet::new: a fresh generation is all healthy.
NewSet(addrs) ==
    [ addrs    |-> addrs,
      healthy  |-> [i \in DOMAIN addrs |-> TRUE],
      evidence |-> [i \in DOMAIN addrs |-> 0] ]

Size(g) == Len(sets[g].addrs)

Idle == [ pc |-> "idle", gen |-> 1, idx |-> 1, tries |-> 0,
          attempt |-> 0, max |-> 0, sent |-> 0, steady |-> {} ]

NoStreak(g) == [i \in 1 .. Len(sets[g].addrs) |-> 0]

Init ==
    /\ sets = << NewSet(Seeds) >>
    /\ mounted = 1
    /\ cursor = 0
    /\ routed = TRUE
    /\ req = [r \in Requests |-> Idle]
    /\ checker = [pc |-> "sleeping", gen |-> 0, ok |-> << >>,
                  failures |-> << >>, successes |-> << >>]
    /\ refresher = "due"
    /\ up = Addrs
    /\ flips = 0

TypeOK ==
    /\ mounted \in 1 .. Len(sets) /\ Len(sets) <= MaxSets
    /\ \A g \in 1 .. Len(sets) :
          /\ sets[g].addrs \in Seq(Addrs)
          /\ sets[g].healthy \in [1 .. Size(g) -> BOOLEAN]
    /\ cursor \in 0 .. CursorMod - 1
    /\ routed \in BOOLEAN
    /\ \A r \in Requests :
          /\ req[r].pc \in {"idle", "load", "pick", "look", "fallback", "send"}
          /\ req[r].gen \in 1 .. Len(sets)
          /\ req[r].pc # "idle" => req[r].idx \in 1 .. Size(req[r].gen)
    /\ checker.pc \in {"sleeping", "probing", "judging", "gone"}
    /\ refresher \in {"due", "fetching", "body", "sleeping", "gone"}
    /\ up \subseteq Addrs

-----------------------------------------------------------------------------
\* Strong references: the route table, requests, and a poll under way.
Alive ==
    \/ routed
    \/ \E r \in Requests : req[r].pc # "idle"
    \/ refresher \in {"fetching", "body"}

\* A request reaches forward(); only an idempotent method with an empty body
\* is replayable and gets more than one attempt.
Start(r, replayable) ==
    /\ routed
    /\ req[r].pc = "idle"
    /\ req' = [req EXCEPT ![r] = [Idle EXCEPT
                  !.pc = "load", !.gen = mounted, !.attempt = 1,
                  !.max = IF replayable THEN Retries + 1 ELSE 1]]
    /\ UNCHANGED <<sets, mounted, cursor, routed, taskVars, envVars>>

\* The URI is assembled: the set guard and the picking loop's locals are gone.
Chosen(q) ==
    [Idle EXCEPT !.pc = "send", !.attempt = q.attempt, !.max = q.max, !.sent = q.sent]

\* An attempt loads the mounted generation; a single address needs no cursor.
LoadSet(r) ==
    /\ req[r].pc = "load"
    /\ req' = [req EXCEPT ![r] =
          IF Size(mounted) = 1 THEN Chosen(@)
          ELSE [@ EXCEPT !.pc = "pick", !.gen = mounted,
                         !.steady = {i \in 1 .. Size(mounted) : sets[mounted].healthy[i]}]]
    /\ UNCHANGED <<sets, mounted, cursor, routed, taskVars, envVars>>

\* r draws from the cursor and becomes q; every other request is disturbed.
Drawn(r, q) ==
    [s \in Requests |-> IF s = r THEN q ELSE [req[s] EXCEPT !.steady = {}]]

\* One try: index = cursor.fetch_add(1) % count.
Pick(r) ==
    /\ req[r].pc = "pick"
    /\ cursor' = (cursor + 1) % CursorMod
    /\ req' = Drawn(r, [req[r] EXCEPT !.idx = (cursor % Size(req[r].gen)) + 1,
                                      !.tries = @ + 1,
                                      !.pc = "look"])
    /\ UNCHANGED <<sets, mounted, routed, taskVars, envVars>>

\* Mutant: one look too few.
LookOnceLess(r) ==
    /\ req[r].pc = "look"
    /\ req' = [req EXCEPT ![r] =
          IF sets[@.gen].healthy[@.idx] THEN Chosen(@)
          ELSE [@ EXCEPT !.pc = IF req[r].tries + 1 < Size(req[r].gen)
                                THEN "pick" ELSE "fallback"]]
    /\ UNCHANGED <<sets, mounted, cursor, routed, taskVars, envVars>>

\* is_healthy(index): take it, try the next, or fall back to plain rotation
\* after one look at every position.
Look(r) ==
    /\ req[r].pc = "look"
    /\ req' = [req EXCEPT ![r] =
          IF sets[@.gen].healthy[@.idx] THEN Chosen(@)
          ELSE [@ EXCEPT !.pc = IF req[r].tries < Size(req[r].gen)
                                THEN "pick" ELSE "fallback"]]
    /\ UNCHANGED <<sets, mounted, cursor, routed, taskVars, envVars>>

\* Plain rotation: any address, evicted or not.
Fallback(r) ==
    /\ req[r].pc = "fallback"
    /\ cursor' = (cursor + 1) % CursorMod
    /\ req' = Drawn(r, Chosen(req[r]))
    /\ UNCHANGED <<sets, mounted, routed, taskVars, envVars>>

\* next_addr of some request outside Requests: any number of them share the
\* cursor, and what they draw is all the others ever see of them.
OtherDraws ==
    /\ routed
    /\ cursor' = (cursor + 1) % CursorMod
    /\ req' = [r \in Requests |-> [req[r] EXCEPT !.steady = {}]]
    /\ UNCHANGED <<sets, mounted, routed, taskVars, envVars>>

\* Mutant: max_attempts is compared with <=.
TransportErrorOnceMore(r) ==
    /\ req[r].pc = "send"
    /\ req' = [req EXCEPT ![r] =
          IF req[r].attempt <= req[r].max
          THEN [req[r] EXCEPT !.pc = "load", !.attempt = @ + 1, !.sent = @ + 1]
          ELSE Idle]
    /\ UNCHANGED <<sets, mounted, cursor, routed, taskVars, envVars>>

\* The attempt fails in transport: retried when attempts are left.
TransportError(r) ==
    /\ req[r].pc = "send"
    /\ req' = [req EXCEPT ![r] =
          IF req[r].attempt < req[r].max
          THEN [req[r] EXCEPT !.pc = "load", !.attempt = @ + 1, !.sent = @ + 1]
          ELSE Idle]
    /\ UNCHANGED <<sets, mounted, cursor, routed, taskVars, envVars>>

\* A response, whatever its status, the timeout over all attempts, an oversized
\* body or a vanished client ends the sequence.
Finish(r) ==
    /\ req[r].pc = "send"
    /\ req' = [req EXCEPT ![r] = Idle]
    /\ UNCHANGED <<sets, mounted, cursor, routed, taskVars, envVars>>

RequestStep(r) ==
    LoadSet(r) \/ Pick(r) \/ Look(r) \/ Fallback(r) \/ TransportError(r) \/ Finish(r)

-----------------------------------------------------------------------------
\* Mutant: streaks survive a swap when the new set is as long as the old one.
CheckerWakeSameStreaks ==
    /\ checker.pc = "sleeping"
    /\ checker' = IF ~Alive THEN [checker EXCEPT !.pc = "gone"]
                  ELSE IF Len(checker.failures) = Size(mounted)
                  THEN [checker EXCEPT !.pc = "probing", !.gen = mounted]
                  ELSE [pc |-> "probing", gen |-> mounted, ok |-> << >>,
                        failures |-> NoStreak(mounted), successes |-> NoStreak(mounted)]
    /\ UNCHANGED <<sets, mounted, routed, reqVars, refresher, envVars>>

\* Mutant: the task holds its target strongly.
CheckerWakeStrong ==
    /\ checker.pc = "sleeping"
    /\ checker' = IF checker.gen = mounted THEN [checker EXCEPT !.pc = "probing"]
                  ELSE [pc |-> "probing", gen |-> mounted, ok |-> << >>,
                        failures |-> NoStreak(mounted), successes |-> NoStreak(mounted)]
    /\ UNCHANGED <<sets, mounted, routed, reqVars, refresher, envVars>>

\* The checker wakes: it ends with the target, otherwise it takes the mounted
\* set, with fresh streaks when it is not the one probed last.
CheckerWake ==
    /\ checker.pc = "sleeping"
    /\ checker' = IF ~Alive THEN [checker EXCEPT !.pc = "gone"]
                  ELSE IF checker.gen = mounted THEN [checker EXCEPT !.pc = "probing"]
                  ELSE [pc |-> "probing", gen |-> mounted, ok |-> << >>,
                        failures |-> NoStreak(mounted), successes |-> NoStreak(mounted)]
    /\ UNCHANGED <<sets, mounted, routed, reqVars, refresher, envVars>>

\* Streaks are u32 and saturate; beyond its threshold a streak's length is
\* never looked at, so the model stops counting there.
Longer(n, threshold) == IF n < threshold THEN n + 1 ELSE n

\* Mutant: an evicted address is never reinstated.
NewFlagOneWay(flag, ok, f, s) == flag /\ ~(f >= UnhealthyThreshold)

\* The flag of address i after a probe with outcome ok and the streaks f, s.
NewFlag(flag, ok, f, s) ==
    IF ok THEN flag \/ s >= HealthyThreshold
          ELSE flag /\ ~(f >= UnhealthyThreshold)

\* join_all(probe): every address of the set answers or fails in time.
Probe ==
    /\ checker.pc = "probing"
    /\ checker' = [checker EXCEPT !.pc = "judging",
                      !.ok = [i \in 1 .. Size(checker.gen) |-> sets[checker.gen].addrs[i] \in up]]
    /\ UNCHANGED <<sets, mounted, routed, reqVars, refresher, envVars>>

\* The loop over the results, which may be out of date by now and belong to a
\* generation that is no longer mounted.
ApplyResults ==
    /\ checker.pc = "judging"
    /\ LET g == checker.gen
           ok == checker.ok
           f == [i \in 1 .. Size(g) |->
                    IF ok[i] THEN 0 ELSE Longer(checker.failures[i], UnhealthyThreshold)]
           s == [i \in 1 .. Size(g) |->
                    IF ok[i] THEN Longer(checker.successes[i], HealthyThreshold) ELSE 0]
           flags == [i \in 1 .. Size(g) |-> NewFlag(sets[g].healthy[i], ok[i], f[i], s[i])]
       IN  /\ sets' = [sets EXCEPT ![g].healthy = flags,
                                   ![g].evidence = [i \in 1 .. Size(g) |->
                                      IF ok[i] THEN 0 ELSE Longer(@[i], UnhealthyThreshold)]]
           /\ checker' = [checker EXCEPT !.pc = "sleeping", !.ok = << >>,
                                         !.failures = f, !.successes = s]
           /\ req' = [r \in Requests |->
                         IF req[r].gen = g
                         THEN [req[r] EXCEPT !.steady = {i \in @ : flags[i]}]
                         ELSE req[r]]
    /\ UNCHANGED <<mounted, cursor, routed, refresher, envVars>>

-----------------------------------------------------------------------------
\* refresh_once upgrades the weak reference and holds it across the poll.
BeginPoll ==
    /\ refresher = "due"
    /\ refresher' = IF Alive THEN "fetching" ELSE "gone"
    /\ UNCHANGED <<sets, mounted, routed, reqVars, checker, envVars>>

\* tokio::time::timeout covers the exchange up to the response head.
HeadFails ==
    /\ refresher = "fetching"
    /\ refresher' = "sleeping"
    /\ UNCHANGED <<sets, mounted, routed, reqVars, checker, envVars>>

HeadArrives ==
    /\ refresher = "fetching"
    /\ refresher' = "body"
    /\ UNCHANGED <<sets, mounted, routed, reqVars, checker, envVars>>

\* The body is read without a timeout.  Unreadable, invalid or empty: keep the
\* set; equal to the mounted addresses: keep it with its flags; otherwise mount
\* a fresh generation (apply_addrs).
BodyFails ==
    /\ refresher = "body"
    /\ refresher' = "sleeping"
    /\ UNCHANGED <<sets, mounted, routed, reqVars, checker, envVars>>

BodyArrives(addrs) ==
    /\ refresher = "body"
    /\ refresher' = "sleeping"
    /\ \/ /\ addrs = << >>
          /\ UNCHANGED <<sets, mounted>>
       \/ /\ addrs # << >>
          /\ addrs = sets[mounted].addrs
          /\ UNCHANGED <<sets, mounted>>
       \/ /\ addrs # << >>
          /\ addrs # sets[mounted].addrs
          /\ Len(sets) < MaxSets
          /\ sets' = Append(sets, NewSet(addrs))
          /\ mounted' = Len(sets) + 1
    /\ UNCHANGED <<routed, reqVars, checker, envVars>>

RefresherWake ==
    /\ refresher = "sleeping"
    /\ refresher' = "due"
    /\ UNCHANGED <<sets, mounted, routed, reqVars, checker, envVars>>

-----------------------------------------------------------------------------
\* A reload swaps the route table: the table's reference goes.
Unroute ==
    /\ routed
    /\ routed' = FALSE
    /\ UNCHANGED <<sets, mounted, reqVars, taskVars, envVars>>

\* The environment: an address starts or stops answering.
Flip(a) ==
    /\ flips < MaxFlips
    /\ flips' = flips + 1
    /\ up' = IF a \in up THEN up \ {a} ELSE up \cup {a}
    /\ UNCHANGED <<sets, mounted, routed, reqVars, taskVars>>

BodyEnds == BodyFails \/ \E p \in Polls : BodyArrives(p)

Next ==
    \/ \E r \in Requests : \/ \E b \in BOOLEAN : Start(r, b)
                           \/ RequestStep(r)
    \/ CheckerWake \/ Probe \/ ApplyResults
    \/ BeginPoll \/ HeadFails \/ HeadArrives \/ BodyEnds \/ RefresherWake
    \/ OtherDraws \/ Unroute
    \/ \E a \in Addrs : Flip(a)

Spec == Init /\ [][Next]_vars

\* What the gateway's own scheduling and timers guarantee: requests end (their
\* timeout), probes end (theirs), sleeps end, the poll's head comes or times
\* out.  Nothing guarantees that the poll's body ends.
GatewayFairness ==
    /\ \A r \in Requests : WF_vars(RequestStep(r)) /\ SF_vars(Finish(r))
    /\ WF_vars(CheckerWake) /\ WF_vars(Probe) /\ WF_vars(ApplyResults)
    /\ WF_vars(BeginPoll) /\ WF_vars(HeadFails \/ HeadArrives) /\ WF_vars(RefresherWake)

GatewaySpec == Spec /\ GatewayFairness

\* With a discovery endpoint that finishes the bodies it begins.
FairSpec == GatewaySpec /\ WF_vars(BodyEnds)

-----------------------------------------------------------------------------
\* Retrying never repeats what must not be repeated (forward, run_attempts): a
\* request that is not replayable has reached no upstream before its current
\* attempt, a replayable one at most Retries times.
NoDuplicateDelivery ==
    \A r \in Requests : req[r].pc # "idle" => req[r].sent < req[r].max

\* Evictions are earned (run_checker): an address leaves the rotation of a
\* generation only after UnhealthyThreshold probes in a row of that very
\* address failed since that generation was mounted, whatever swaps raced
\* the probe rounds.
EvictionEarned ==
    [][\A g \in 1 .. Len(sets) : \A i \in 1 .. Size(g) :
          sets[g].healthy[i] /\ ~sets'[g].healthy[i] =>
              sets'[g].evidence[i] >= UnhealthyThreshold]_vars

\* Eviction is honoured (next_addr): a request falls back to the plain rotation
\* only when no address stayed healthy while it looked, or when another request
\* drew from the shared cursor in between and made it see a position twice.
FallbackOnlyWhenAllEvicted ==
    \A r \in Requests : req[r].pc = "fallback" => req[r].steady = {}

\* Once addresses stop changing, the mounted set has something to pick from and
\* its flags agree with the addresses' real state (run_checker, apply_addrs),
\* whatever polls swapped it, or the target is gone.
HealthConverges ==
    <>[](\/ checker.pc = "gone"
         \/ /\ Size(mounted) > 0
            /\ \A i \in 1 .. Size(mounted) :
                  sets[mounted].healthy[i] = (sets[mounted].addrs[i] \in up))

\* A dropped target takes its tasks with it: after a reload both background
\* tasks end.
TasksEnd == ~routed ~> checker.pc = "gone" /\ refresher = "gone"

\* discovery.rs:18-20: "a config reload that drops the old route table lets the
\* old refresher exit on its next poll".  (Violated under GatewaySpec: the body
\* of a poll is read without a timeout, holding the target meanwhile.)
RefresherExits == ~routed ~> refresher = "gone"
=============================================================================
