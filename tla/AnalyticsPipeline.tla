-------------------------- MODULE AnalyticsPipeline -------------------------
(***************************************************************************)
(* Analytics records, from the layer that produces one per response          *)
(* (g2-middleware analytics.rs) through a bounded channel to the worker that  *)
(* hands them to a sink in batches (g2-telemetry analytics.rs).  A record is *)
(* the request it is of.                                                     *)
(*                                                                         *)
(*   queue      the channel                                                  *)
(*   dropped    the records `record` dropped and counted                     *)
(*   worker     [pc, then]: "recv", "emit" (awaiting the sink, then on with  *)
(*              `then`), "drain", "gone"                                     *)
(*   buf        the batch being filled                                       *)
(*   delivered, refused  what the sink took, and the batches it did not      *)
(*   stop       the stop signal has been sent                                *)
(***************************************************************************)
EXTENDS Naturals, Sequences, Functions

CONSTANTS Capacity,      \* ANALYTICS_CHANNEL_CAPACITY
          BatchSize      \* BATCH_SIZE

VARIABLES queue, dropped, worker, buf, delivered, refused, stop

analyticsVars == <<queue, dropped, worker, buf, delivered, refused, stop>>

AnalyticsInit(sink) ==
  /\ queue = <<>> /\ dropped = {} /\ buf = <<>>
  /\ worker = [pc |-> IF sink THEN "recv" ELSE "gone", then |-> ""]
  /\ delivered = {} /\ refused = {} /\ stop = FALSE

\* `AnalyticsHandle::record`: never waits; a full or closed channel drops.
Record(r) ==
  /\ IF worker.pc = "gone" \/ Len(queue) >= Capacity
     THEN dropped' = dropped \cup {r} /\ UNCHANGED queue
     ELSE queue' = Append(queue, r) /\ UNCHANGED dropped
  /\ UNCHANGED <<worker, buf, delivered, refused, stop>>

\* Take one record; a full batch goes to the sink, then the loop goes on.
Take(loop) ==
  /\ queue # <<>>
  /\ queue' = Tail(queue) /\ buf' = Append(buf, Head(queue))
  /\ worker' = IF Len(buf) + 1 >= BatchSize THEN [pc |-> "emit", then |-> loop] ELSE worker
  /\ UNCHANGED <<dropped, delivered, refused, stop>>

Receive == worker.pc = "recv" /\ Take("recv")

FlushTick ==
  /\ worker.pc = "recv" /\ buf # <<>>
  /\ worker' = [pc |-> "emit", then |-> "recv"]
  /\ UNCHANGED <<queue, dropped, buf, delivered, refused, stop>>

\* Mutant: the worker stops with the batch it has.
StopSeenAtOnce ==
  /\ worker.pc = "recv" /\ stop
  /\ worker' = [pc |-> IF buf = <<>> THEN "gone" ELSE "emit", then |-> "gone"]
  /\ UNCHANGED <<queue, dropped, buf, delivered, refused, stop>>

StopSeen ==
  /\ worker.pc = "recv" /\ stop
  /\ worker' = [pc |-> "drain", then |-> ""]
  /\ UNCHANGED <<queue, dropped, buf, delivered, refused, stop>>

Drain == worker.pc = "drain" /\ Take("drain")

\* Nothing is queued any more: flush once, shut the sink down, close the channel.
LastFlush ==
  /\ worker.pc = "drain" /\ queue = <<>>
  /\ worker' = [pc |-> IF buf = <<>> THEN "gone" ELSE "emit", then |-> "gone"]
  /\ UNCHANGED <<queue, dropped, buf, delivered, refused, stop>>

\* The sink takes the batch or fails; it is let go either way.
Emitted ==
  /\ worker.pc = "emit"
  /\ \/ delivered' = delivered \cup Range(buf) /\ UNCHANGED refused
     \/ refused' = refused \cup Range(buf) /\ UNCHANGED delivered
  /\ buf' = <<>> /\ worker' = [pc |-> worker.then, then |-> ""]
  /\ UNCHANGED <<queue, dropped, stop>>

WorkerStep == Receive \/ FlushTick \/ StopSeen \/ Drain \/ LastFlush \/ Emitted

\* The record is accounted for: out, refused by the sink, or counted dropped.
Accounted(r) == r \in delivered \cup refused \cup dropped
=============================================================================
