------------------------------- MODULE Producer -------------------------------
(***************************************************************************)
(* The bot fleet's telemetry producer (bot-fleet/telemetry/producer.go):   *)
(* bots enqueue events without ever blocking, one goroutine batches them   *)
(* and hands the batches to an asynchronous Kafka writer.  All events of a *)
(* contestant have one key and so go to one partition, topic.              *)
(***************************************************************************)
EXTENDS Naturals, Sequences

CONSTANTS
  Capacity,    \* of batchCh (10000)
  BatchSize,   \* events that force a flush (1000)
  MaxEvents,   \* bound: events emitted when the module is run alone
  MaxFaults    \* bound: batches the broker never gets

ASSUME ProducerAssumption ==
  /\ Capacity \in Nat \ {0} /\ BatchSize \in Nat \ {0}
  /\ MaxEvents \in Nat /\ MaxFaults \in Nat

VARIABLES
  channel,   \* batchCh
  batch,     \* the loop's batch
  topic,     \* the partition of bot-telemetry
  accepted,  \* events Emit enqueued
  dropped,   \* events Emit refused
  lost,      \* events handed to the writer that never reached the topic
  faults,    \* batches lost to a failing broker
  loop,      \* is the loop running?
  done,      \* has Close closed done?
  writer     \* is the Kafka writer open?

vars == <<channel, batch, topic, accepted, dropped, lost, faults, loop, done, writer>>

Init ==
  /\ channel = <<>> /\ batch = <<>> /\ topic = <<>>
  /\ accepted = 0 /\ dropped = 0 /\ lost = 0 /\ faults = 0
  /\ loop = TRUE /\ done = FALSE /\ writer = TRUE

-----------------------------------------------------------------------------

\* WriteMessages.  It is asynchronous: an error, after the writer's own
\* retries, is never seen.  A closed writer takes nothing.
WriteMessages(events) ==
  \/ /\ writer
     /\ topic' = topic \o events /\ UNCHANGED <<lost, faults>>
  \/ /\ ~writer
     /\ lost' = lost + Len(events) /\ UNCHANGED <<topic, faults>>
  \/ /\ writer /\ faults < MaxFaults
     /\ lost' = lost + Len(events) /\ faults' = faults + 1 /\ UNCHANGED topic

\* Mutated form of flush: the batch is not emptied.
flushAgain(events) ==
  \/ events = <<>> /\ UNCHANGED <<topic, lost, faults, batch>>
  \/ events # <<>> /\ WriteMessages(events) /\ batch' = events

\* An empty batch is not written.
flush(events) ==
  \/ events = <<>> /\ batch' = <<>> /\ UNCHANGED <<topic, lost, faults>>
  \/ events # <<>> /\ WriteMessages(events) /\ batch' = <<>>

\* A full channel refuses the event.
Emit(e) ==
  /\ \/ /\ Len(channel) < Capacity
        /\ channel' = Append(channel, e)
        /\ accepted' = accepted + 1 /\ UNCHANGED dropped
     \/ /\ Len(channel) = Capacity
        /\ dropped' = dropped + 1 /\ UNCHANGED <<channel, accepted>>
  /\ UNCHANGED <<batch, topic, lost, faults, loop, done, writer>>

\* case e := <-p.batchCh
Collect ==
  /\ loop /\ channel # <<>>
  /\ channel' = Tail(channel)
  /\ LET next == Append(batch, Head(channel)) IN
       IF Len(next) >= BatchSize THEN flush(next)
       ELSE batch' = next /\ UNCHANGED <<topic, lost, faults>>
  /\ UNCHANGED <<accepted, dropped, loop, done, writer>>

\* case <-ticker.C: mutated form, which never comes.
NoTick == FALSE

\* case <-ticker.C
Tick ==
  /\ loop /\ batch # <<>>
  /\ flush(batch)
  /\ UNCHANGED <<channel, accepted, dropped, loop, done, writer>>

\* case <-p.done: one of the ready cases is chosen at random, so the channel
\* may still hold events.
Finish ==
  /\ loop /\ done
  /\ flush(batch)
  /\ loop' = FALSE
  /\ UNCHANGED <<channel, accepted, dropped, done, writer>>

\* Close: close(p.done), then writer.Close() without waiting for the loop.
CloseDone ==
  /\ ~done /\ done' = TRUE
  /\ UNCHANGED <<channel, batch, topic, accepted, dropped, lost, faults, loop, writer>>

CloseWriter ==
  /\ done /\ writer /\ writer' = FALSE
  /\ UNCHANGED <<channel, batch, topic, accepted, dropped, lost, faults, loop, done>>

Next ==
  \/ accepted + dropped < MaxEvents /\ Emit(accepted + dropped + 1)
  \/ Collect \/ Tick \/ Finish
  \/ CloseDone \/ CloseWriter

\* The loop is one goroutine that is never blocked: Emit needs no fairness.
Spec == Init /\ [][Next]_vars /\ WF_vars(Collect) /\ WF_vars(Tick) /\ WF_vars(Finish)

-----------------------------------------------------------------------------
(* Properties *)

TypeOK ==
  /\ channel \in Seq(Nat) /\ Len(channel) <= Capacity
  /\ batch \in Seq(Nat) /\ Len(batch) < BatchSize
  /\ topic \in Seq(Nat)
  /\ accepted \in Nat /\ dropped \in Nat /\ lost \in Nat /\ faults \in 0 .. MaxFaults
  /\ loop \in BOOLEAN /\ done \in BOOLEAN /\ writer \in BOOLEAN

\* Every event that Emit accepted is in exactly one place - the channel, the
\* batch, the topic - or was lost by the writer (producer.go:45-83).
NothingVanishes == accepted = Len(channel) + Len(batch) + Len(topic) + lost

\* The way an event takes keeps the order of the Emit calls, also across the
\* flushes forced by size and by the ticker (producer.go:57-81).
OrderIsKept ==
  LET way == topic \o batch \o channel IN
  \A i, k \in DOMAIN way : i < k => way[i] < way[k]

\* As long as nothing is closed or fails, an accepted event reaches the
\* topic: the ticker sends what the size limit does not (producer.go:79-80).
AcceptedIsSent ==
  \A e \in 1 .. MaxEvents :
    (\E i \in DOMAIN channel : channel[i] = e)
      ~> (done \/ faults > 0 \/ \E i \in DOMAIN topic : topic[i] = e)
=============================================================================
