---------------------------- MODULE MCPerception ----------------------------
(* Fan-out and zone engine, one at a time: the engine is one of the         *)
(* consumers, and takes its batches in any order.                          *)
EXTENDS Fanout, Zones, TLC

CONSTANTS b1, b2, z, e, p1, p2, dr

VARIABLE part       \* the part under way

MCBatch == {b1, b2}
MCKeyless == {b2}
MCWants == (z :> {b1, b2}) @@ (e :> {b1})
MCConsumer == {z, e}

perceptionVars == <<fanVars, zoneVars, part>>

PerceptionInit == FanInit /\ ZoneInit /\ part \in {"fanout", "zones"}

PerceptionNext ==
  /\ \/ part = "fanout" /\ FanNext /\ UNCHANGED zoneVars
     \/ part = "zones" /\ ZoneNext /\ UNCHANGED fanVars
  /\ UNCHANGED part

(* What was fanned and what was announced is complete: a batch marked fanned
   has had every interested consumer claimed for it, so the drainer may never
   look at it again, and a track's enter, dwell and exit come one to a stay,
   whatever was suppressed, evicted or lost with a process (fanout.rs:
   drain; zones.rs: process). *)
EventsComplete == FannedComplete /\ StaysWellFormed

PerceptionSpec == PerceptionInit /\ [][PerceptionNext]_perceptionVars /\ FanFairness
=============================================================================
