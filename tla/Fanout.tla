------------------------------- MODULE Fanout -------------------------------
(* Detection ingest and the durable fan-out to consumers
   (services/perception_ingest.rs, services/consumer.rs, services/fanout.rs).
   A batch is committed to the outbox, then every interested consumer is
   claimed and driven, first by the request that brought the batch and, if
   that did not complete, by the drainer. *)
EXTENDS Naturals, FiniteSets

CONSTANTS Batch,        \* (camera_id, frame_id) keys, and batches without one
          Keyless,      \* the batches without a frame_id
          Consumer,     \* registered consumers
          Wants,        \* Wants[c]: the batches whose task_type c is interested in
          Post,         \* POST /ai/events requests
          Drainer,      \* the drainer task
          DRAIN_BATCH,  \* rows a drain replays at most
          MaxFailures,  \* bound: statements that fail
          MaxMishaps,   \* bound: environment events
          FanFaults     \* the environment events of this instance

NoBatch == "none"

ASSUME FanAssumption ==
  /\ IsFiniteSet(Batch) /\ NoBatch \notin Batch
  /\ Keyless \subseteq Batch
  /\ Wants \in [Consumer -> SUBSET Batch]
  /\ Drainer \notin Post
  /\ DRAIN_BATCH \in Nat \ {0}
  /\ MaxFailures \in Nat /\ MaxMishaps \in Nat
  /\ FanFaults \subseteq
       { "crash",     \* the process restarts
         "hangup",    \* a client disconnects and its ingest is dropped at an await
         "outage",    \* the retention TTL passes before a drain does
         "resend" }   \* a worker sends a frame again after its TTL

VARIABLES
  outbox,    \* outbox[b]: the batch's row
  earlier,   \* <<x, y>>: the row of x was committed before that of y
  claims,    \* rows of consumer_fanout
  driven,    \* driven[c][b]: how often consumer c was driven with b
  logged,    \* batches whose event was logged
  actor,     \* actor[a]: a fan-out in progress, an ingest's or the drainer's
  replay,    \* the drainer's rows still to do
  failures, mishaps

fanVars == <<outbox, earlier, claims, driven, logged, actor, replay, failures, mishaps>>

Actor   == Post \cup {Drainer}
NoFan   == [pc |-> "idle", b |-> NoBatch, todo |-> {}, at |-> {}, ok |-> TRUE]

FanTypeOK ==
  /\ outbox \in [Batch -> {"none", "young", "old", "fanned", "pruned"}]
  /\ earlier \subseteq Batch \X Batch
  /\ claims \subseteq Consumer \X (Batch \ Keyless)
  /\ driven \in [Consumer -> [Batch -> Nat]]
  /\ logged \subseteq Batch
  /\ actor \in [Actor -> [pc : {"idle", "fan", "event"}, b : Batch \cup {NoBatch},
                          todo : SUBSET Consumer, at : SUBSET Consumer, ok : BOOLEAN]]
  /\ replay \subseteq Batch
  /\ failures \in 0 .. MaxFailures /\ mishaps \in 0 .. MaxMishaps

FanInit ==
  /\ outbox = [b \in Batch |-> "none"]
  /\ earlier = {}
  /\ claims = {}
  /\ driven = [c \in Consumer |-> [b \in Batch |-> 0]]
  /\ logged = {}
  /\ actor = [a \in Actor |-> NoFan]
  /\ replay = {}
  /\ failures = 0 /\ mishaps = 0

InterestedIn(b) == {c \in Consumer : b \in Wants[c]}
Unfanned(b)     == outbox[b] \in {"young", "old"}

(* The loop over the consumers; todo are those it has not visited.  The
   registry's order is left open. *)
StartFan(a, b) == actor' = [actor EXCEPT ![a] =
  [pc |-> "fan", b |-> b, todo |-> InterestedIn(b), at |-> {}, ok |-> TRUE]]

Fanning(a) == actor[a].pc = "fan" /\ actor[a].at = {}
-----------------------------------------------------------------------------
(* The row gets the highest seq there is. *)
CommitLast(b) ==
  earlier' = {p \in earlier : b \notin {p[1], p[2]}}
               \cup ({y \in Batch \ {b} : outbox[y] # "none"} \X {b})

(* Mutant: a redelivery is not recognised by its outbox row. *)
Ingest_NoDedup(r, b) ==
  /\ actor[r].pc = "idle"
  /\ outbox' = [outbox EXCEPT ![b] = "young"]
  /\ CommitLast(b)
  /\ StartFan(r, b)
  /\ claims' = IF outbox[b] = "none" THEN claims ELSE claims \ (Consumer \X {b})
  /\ UNCHANGED <<driven, logged, replay, failures, mishaps>>

(* ingest_batch up to its commit.  A key that is already in the outbox is a
   redelivery: nothing is written and nothing is fanned out. *)
Ingest(r, b) ==
  /\ actor[r].pc = "idle"
  /\ outbox[b] = "none" \/ (outbox[b] = "pruned" /\ "resend" \in FanFaults)
  /\ outbox' = [outbox EXCEPT ![b] = "young"]
  /\ CommitLast(b)
  /\ StartFan(r, b)
  /\ UNCHANGED <<claims, driven, logged, replay, failures, mishaps>>

(* fan_out, one consumer: claim it for this frame, or skip it because it is
   claimed.  Without a frame_id it is driven with no claim. *)
ClaimConsumer(a, c) ==
  LET b == actor[a].b IN
  /\ Fanning(a)
  /\ c \in actor[a].todo
  /\ IF <<c, b>> \in claims
     THEN /\ actor' = [actor EXCEPT ![a].todo = @ \ {c}]
          /\ UNCHANGED claims
     ELSE /\ actor' = [actor EXCEPT ![a].at = {c}]
          /\ claims' = IF b \in Keyless THEN claims ELSE claims \cup {<<c, b>>}
  /\ UNCHANGED <<outbox, earlier, driven, logged, replay, failures, mishaps>>

(* Mutant: a claim that could not be written does not leave the batch open. *)
ClaimFails_Complete(a, c) ==
  /\ Fanning(a)
  /\ c \in actor[a].todo
  /\ actor[a].b \notin Keyless
  /\ failures < MaxFailures
  /\ failures' = failures + 1
  /\ actor' = [actor EXCEPT ![a].todo = @ \ {c}]
  /\ UNCHANGED <<outbox, earlier, claims, driven, logged, replay, mishaps>>

ClaimFails(a, c) ==
  /\ Fanning(a)
  /\ c \in actor[a].todo
  /\ actor[a].b \notin Keyless
  /\ failures < MaxFailures
  /\ failures' = failures + 1
  /\ actor' = [actor EXCEPT ![a].todo = @ \ {c}, ![a].ok = FALSE]
  /\ UNCHANGED <<outbox, earlier, claims, driven, logged, replay, mishaps>>

(* consumer.consume(batch).await *)
Consume(a) ==
  /\ actor[a].at # {}
  /\ \E c \in actor[a].at :
       /\ driven' = [driven EXCEPT ![c][actor[a].b] = @ + 1]
       /\ actor' = [actor EXCEPT ![a].todo = @ \ {c}, ![a].at = {}]
  /\ UNCHANGED <<outbox, earlier, claims, logged, replay, failures, mishaps>>

(* The loop ends: a complete batch is marked, and a mark that fails is
   ignored.  An ingest goes on to its event, the drainer to its next row. *)
MarkFanned(a) ==
  LET b == actor[a].b IN
  /\ Fanning(a)
  /\ actor[a].todo = {}
  /\ \/ /\ actor[a].ok /\ b \notin Keyless
        /\ outbox' = [outbox EXCEPT ![b] = "fanned"]
        /\ UNCHANGED failures
     \/ /\ ~(actor[a].ok /\ b \notin Keyless)
        /\ UNCHANGED <<outbox, failures>>
     \/ /\ actor[a].ok /\ b \notin Keyless
        /\ failures < MaxFailures
        /\ failures' = failures + 1
        /\ UNCHANGED outbox
  /\ actor' = [actor EXCEPT ![a] = IF a = Drainer THEN NoFan ELSE [NoFan EXCEPT !.pc = "event", !.b = b]]
  /\ replay' = IF a = Drainer THEN replay \ {b} ELSE replay
  /\ UNCHANGED <<earlier, claims, driven, logged, mishaps>>

(* The batch's own event is written last; the request fails with it. *)
LogBatchEvent(r) ==
  /\ actor[r].pc = "event"
  /\ \/ logged' = logged \cup {actor[r].b} /\ UNCHANGED failures
     \/ failures < MaxFailures /\ failures' = failures + 1 /\ UNCHANGED logged
  /\ actor' = [actor EXCEPT ![r] = NoFan]
  /\ UNCHANGED <<outbox, earlier, claims, driven, replay, mishaps>>
-----------------------------------------------------------------------------
(* A committed row passes REPLAY_GRACE_SECS, which a slow ingest may too. *)
AgeRow(b) ==
  /\ outbox[b] = "young"
  /\ outbox' = [outbox EXCEPT ![b] = "old"]
  /\ UNCHANGED <<earlier, claims, driven, logged, actor, replay, failures, mishaps>>

(* SELECT .. ORDER BY seq LIMIT: the first DRAIN_BATCH of the rows. *)
OldestOf(rows) == {B \in SUBSET rows :
  /\ Cardinality(B) <= DRAIN_BATCH
  /\ B = rows \/ Cardinality(B) = DRAIN_BATCH
  /\ \A x \in B, y \in rows \ B : <<x, y>> \in earlier}

(* Mutant: the drainer takes the newest rows. *)
DrainStart_NoGrace ==
  /\ actor[Drainer].pc = "idle" /\ replay = {}
  /\ replay' \in OldestOf({b \in Batch \ Keyless : outbox[b] = "young"}) \ {{}}
  /\ UNCHANGED <<outbox, earlier, claims, driven, logged, actor, failures, mishaps>>

(* drain: the un-fanned rows past the grace, oldest first. *)
DrainStart ==
  /\ actor[Drainer].pc = "idle" /\ replay = {}
  /\ replay' \in OldestOf({b \in Batch \ Keyless : outbox[b] = "old"}) \ {{}}
  /\ UNCHANGED <<outbox, earlier, claims, driven, logged, actor, failures, mishaps>>

(* The next row of the round is rebuilt from its detections and fanned out; it
   may have been fanned meanwhile.  A failed query ends the round. *)
DrainRow ==
  /\ actor[Drainer].pc = "idle"
  /\ \E b \in replay :
       /\ \A x \in replay \ {b} : <<b, x>> \in earlier
       /\ \/ StartFan(Drainer, b) /\ UNCHANGED <<replay, failures>>
          \/ /\ failures < MaxFailures
             /\ failures' = failures + 1
             /\ replay' = {}
             /\ UNCHANGED actor
  /\ UNCHANGED <<outbox, earlier, claims, driven, logged, mishaps>>
-----------------------------------------------------------------------------
(* enforce_once deletes the rows past detection_retention_hours, first from the
   outbox and then from consumer_fanout.  Short of an outage the drainer has
   been at them long before. *)
PruneRow(b) ==
  /\ \/ outbox[b] = "fanned"
     \/ Unfanned(b) /\ b \in Keyless
     \/ outbox[b] = "old" /\ "outage" \in FanFaults
  /\ \A a \in Actor : actor[a].b # b
  /\ b \notin replay
  /\ outbox[b] = "old" /\ b \notin Keyless => mishaps < MaxMishaps
  /\ mishaps' = IF outbox[b] = "old" /\ b \notin Keyless THEN mishaps + 1 ELSE mishaps
  /\ outbox' = [outbox EXCEPT ![b] = "pruned"]
  /\ claims' = claims \ (Consumer \X {b})
  /\ UNCHANGED <<earlier, driven, logged, actor, replay, failures>>

FanCrash ==
  /\ "crash" \in FanFaults /\ mishaps < MaxMishaps
  /\ mishaps' = mishaps + 1
  /\ actor' = [a \in Actor |-> NoFan]
  /\ replay' = {}
  /\ UNCHANGED <<outbox, earlier, claims, driven, logged, failures>>

FanHangup(r) ==
  /\ "hangup" \in FanFaults /\ mishaps < MaxMishaps
  /\ actor[r].pc # "idle"
  /\ mishaps' = mishaps + 1
  /\ actor' = [actor EXCEPT ![r] = NoFan]
  /\ UNCHANGED <<outbox, earlier, claims, driven, logged, replay, failures>>

FanStep(a) == \/ \E c \in Consumer : ClaimConsumer(a, c) \/ ClaimFails(a, c)
              \/ Consume(a) \/ MarkFanned(a)

FanNext ==
  \/ \E r \in Post, b \in Batch : Ingest(r, b)
  \/ \E a \in Actor : FanStep(a)
  \/ \E r \in Post : LogBatchEvent(r) \/ FanHangup(r)
  \/ \E b \in Batch : AgeRow(b) \/ PruneRow(b)
  \/ DrainStart \/ DrainRow \/ FanCrash

(* The drainer ticks every 15 s and a request in progress goes on; a client
   need not post anything, and nothing has to be pruned. *)
FanFairness ==
  /\ \A a \in Actor : WF_fanVars(FanStep(a))
  /\ \A b \in Batch : WF_fanVars(AgeRow(b))
  /\ WF_fanVars(DrainStart) /\ WF_fanVars(DrainRow)

FanSpec == FanInit /\ [][FanNext]_fanVars /\ FanFairness
-----------------------------------------------------------------------------
(* Nobody is going to drive c with b any more, though it never was. *)
Lost(c, b) ==
  LET inHand == \E a \in Actor : actor[a].b = b /\ c \in actor[a].at IN
  IF b \in Keyless
  THEN ~inHand /\ \A a \in Actor : ~(actor[a].b = b /\ c \in actor[a].todo)
  ELSE outbox[b] = "pruned" \/ (<<c, b>> \in claims /\ ~inHand)

Due(c, b) ==
  IF outbox[b] = "none" \/ b \notin Wants[c] THEN "none"
  ELSE IF driven[c][b] > 0 THEN "driven"
  ELSE IF Lost(c, b) THEN "lost" ELSE "owed"

D == INSTANCE Delivery WITH due <- [c \in Consumer |-> [b \in Batch |-> Due(c, b)]]

(* The fan-out implements Delivery: an inline fan-out, the drainer and a
   redelivery that overlap drive a consumer at most once with a batch, and only
   a restart, a dropped request or the TTL loses one that is owed. *)
ImplementsDelivery == D!DeliverySafe

(* What a failed claim, a failed mark or an interrupted fan-out left open, the
   drainer comes back to. *)
NothingOwedForEver == D!DeliverySettles

(* A batch is marked fanned only when every interested consumer was claimed
   for it; the drainer never looks at it again. *)
FannedComplete == \A b \in Batch, c \in Consumer :
                    outbox[b] = "fanned" /\ b \in Wants[c] => <<c, b>> \in claims
=============================================================================
