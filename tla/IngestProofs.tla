---------------------------- MODULE IngestProofs ----------------------------
(***************************************************************************)
(* What comes in is done once.  A batch of detections: the fan-out         *)
(* implements Delivery, and the zone engine announces whole stays and      *)
(* keeps its occupancy, for every set of batches, consumers, requests,     *)
(* tracks and points.  A keyed request: one handler and a genuine replay,  *)
(* for any number of requests.                                             *)
(***************************************************************************)
EXTENDS MCPerception, Idempotency, FiniteSetTheorems, TLAPS

(* perception_ingest.rs recognises a redelivery by the outbox row, which
   retention deletes: a frame that comes again later is a new batch. *)
Once == "resend" \notin FanFaults

Live(b) == outbox[b] \notin {"none", "pruned"}

(* A fan-out in progress works on a committed row, for consumers that want it,
   one at a time. *)
WorkTrue == \A a \in Actor :
  /\ actor[a].pc = "idle" => actor[a].b = NoBatch
  /\ actor[a].pc # "fan" => actor[a].todo = {} /\ actor[a].at = {}
  /\ actor[a].pc # "idle" =>
       /\ actor[a].b \in Batch /\ Live(actor[a].b)
       /\ actor[a].at \subseteq actor[a].todo
       /\ actor[a].todo \subseteq InterestedIn(actor[a].b)
       /\ \A c, d \in actor[a].at : c = d

(* The drainer works on a row of its round, and a round holds rows with a key. *)
RoundTrue ==
  /\ actor[Drainer].pc # "event"
  /\ actor[Drainer].pc # "idle" => actor[Drainer].b \in replay
  /\ \A b \in replay : b \in Batch \ Keyless /\ Live(b)

(* Nobody was claimed for or driven with a batch before it was committed. *)
NothingEarly == \A b \in Batch : outbox[b] = "none" =>
  \A c \in Consumer : driven[c][b] = 0 /\ <<c, b>> \notin claims

(* The claim of a batch with a key precedes the drive, until retention. *)
ClaimedFirst == \A b \in Batch \ Keyless, c \in Consumer :
  driven[c][b] > 0 => <<c, b>> \in claims \/ outbox[b] = "pruned"

(* A consumer about to be driven was not, and nobody else is about to. *)
InHandOnce == \A a \in Actor : \A c \in actor[a].at :
  /\ driven[c][actor[a].b] = 0
  /\ actor[a].b \notin Keyless => <<c, actor[a].b>> \in claims
  /\ \A o \in Actor : actor[o].b = actor[a].b /\ c \in actor[o].at => o = a

(* A batch without a key is one request's, which goes to each consumer once. *)
KeylessOnce == \A a \in Actor : actor[a].b \in Keyless =>
  /\ \A o \in Actor : actor[o].b = actor[a].b => o = a
  /\ \A c \in actor[a].todo : driven[c][actor[a].b] = 0

(* A pass without a failure claimed every consumer it is done with. *)
PassTrue == \A a \in Actor :
  actor[a].pc = "fan" /\ actor[a].ok /\ actor[a].b \notin Keyless =>
    \A c \in InterestedIn(actor[a].b) \ actor[a].todo : <<c, actor[a].b>> \in claims

FanInv == /\ FanTypeOK /\ WorkTrue /\ RoundTrue /\ NothingEarly /\ ClaimedFirst
          /\ InHandOnce /\ KeylessOnce /\ PassTrue /\ FannedComplete
-----------------------------------------------------------------------------
WorkType == [pc : {"idle", "fan", "event"}, b : Batch \cup {NoBatch},
             todo : SUBSET Consumer, at : SUBSET Consumer, ok : BOOLEAN]

LEMMA IngestKeeps ==
  ASSUME FanInv, Once, NEW r \in Post, NEW b \in Batch, Ingest(r, b)
  PROVE  FanInv'
<1> USE FanAssumption DEF FanInv, Once, Ingest, StartFan, Actor, NoFan, FanTypeOK
<1>1. outbox[b] = "none" /\ \A o \in Actor : actor[o].b # b
  BY DEF WorkTrue, Live
<1>2. FanTypeOK'
  BY DEF InterestedIn, CommitLast
<1>3. WorkTrue' /\ RoundTrue'
  BY DEF WorkTrue, RoundTrue, Live, InterestedIn
<1>4. NothingEarly' /\ ClaimedFirst' /\ FannedComplete'
  BY DEF NothingEarly, ClaimedFirst, FannedComplete
<1>5. InHandOnce'
  BY <1>1 DEF InHandOnce
<1>6. KeylessOnce'
  BY <1>1 DEF KeylessOnce, NothingEarly, InterestedIn
<1>7. PassTrue'
  BY DEF PassTrue, InterestedIn
<1> QED  BY <1>2, <1>3, <1>4, <1>5, <1>6, <1>7

LEMMA ClaimKeeps ==
  ASSUME FanInv, Once, NEW a \in Actor, NEW c \in Consumer, ClaimConsumer(a, c)
  PROVE  FanInv'
<1> USE FanAssumption DEF FanInv, Once, ClaimConsumer, Fanning, Actor, FanTypeOK
<1> DEFINE b == actor[a].b
<1>1. b \in Batch /\ b # NoBatch /\ actor[a].pc = "fan" /\ actor[a].at = {} /\ c \in actor[a].todo
  BY DEF WorkTrue
<1>2. ASSUME <<c, b>> \in claims
      PROVE  FanInv'
  <2>1. claims' = claims /\ actor' = [actor EXCEPT ![a].todo = actor[a].todo \ {c}]
    BY <1>2
  <2>2. FanTypeOK'
    BY <2>1
  <2>3. WorkTrue' /\ RoundTrue'
    BY <2>1, <1>1 DEF WorkTrue, RoundTrue, Live, InterestedIn
  <2>4. NothingEarly' /\ ClaimedFirst' /\ FannedComplete'
    BY <2>1 DEF NothingEarly, ClaimedFirst, FannedComplete
  <2>5. InHandOnce' /\ KeylessOnce'
    BY <2>1 DEF InHandOnce, KeylessOnce
  <2>6. /\ \A o \in Actor \ {a} : actor'[o] = actor[o]
        /\ actor'[a].todo = actor[a].todo \ {c}
        /\ actor'[a].b = b /\ actor'[a].pc = actor[a].pc /\ actor'[a].ok = actor[a].ok
    BY <2>1
  <2>7. PassTrue'
    BY <2>1, <2>6, <1>2 DEF PassTrue, InterestedIn
  <2> QED  BY <2>2, <2>3, <2>4, <2>5, <2>7
<1>3. ASSUME <<c, b>> \notin claims
      PROVE  FanInv'
  <2>1. /\ claims' = IF b \in Keyless THEN claims ELSE claims \cup {<<c, b>>}
        /\ actor' = [actor EXCEPT ![a].at = {c}]
    BY <1>3
  <2>2. FanTypeOK'
    BY <2>1, <1>1, SMTT(60)
  <2>3. WorkTrue' /\ RoundTrue'
    BY <2>1, <1>1 DEF WorkTrue, RoundTrue, Live, InterestedIn
  <2>4. NothingEarly' /\ ClaimedFirst' /\ FannedComplete'
    BY <2>1, <1>1 DEF NothingEarly, ClaimedFirst, FannedComplete, WorkTrue, Live
  <2>5. driven[c][b] = 0
    BY <1>1, <1>3 DEF ClaimedFirst, KeylessOnce, WorkTrue, Live
  <2>6. \A o \in Actor : actor[o].b = b /\ c \in actor[o].at => o = a
    BY <1>1, <1>3 DEF InHandOnce, KeylessOnce
  <2>7. InHandOnce'
    BY <2>1, <2>5, <2>6, <1>1 DEF InHandOnce
  <2>8. KeylessOnce'
    BY <2>1 DEF KeylessOnce
  <2>9. PassTrue'
    BY <2>1 DEF PassTrue, InterestedIn
  <2> QED  BY <2>2, <2>3, <2>4, <2>7, <2>8, <2>9
<1> QED  BY <1>2, <1>3

LEMMA ClaimFailKeeps ==
  ASSUME FanInv, Once, NEW a \in Actor, NEW c \in Consumer, ClaimFails(a, c)
  PROVE  FanInv'
<1> USE FanAssumption DEF FanInv, Once, ClaimFails, Fanning, Actor, FanTypeOK
<1>1. actor' = [actor EXCEPT ![a] = [actor[a] EXCEPT !.todo = @ \ {c}, !.ok = FALSE]]
  BY ONLY ClaimFails(a, c) DEF ClaimFails
<1>2. FanTypeOK'
  <2> DEFINE w == [actor[a] EXCEPT !.todo = @ \ {c}, !.ok = FALSE]
  <2>1. w \in WorkType
    BY ZenonT(60) DEF WorkType
  <2>2. actor' \in [Actor -> WorkType]
    BY ONLY <1>1, <2>1, FanTypeOK DEF FanTypeOK, WorkType
  <2>3. /\ UNCHANGED <<outbox, earlier, claims, driven, logged, replay, mishaps>>
        /\ failures' \in 0 .. MaxFailures
    OBVIOUS
  <2> QED  BY ONLY <2>2, <2>3, FanTypeOK DEF FanTypeOK, WorkType
<1>3. WorkTrue' /\ RoundTrue'
  BY <1>1 DEF WorkTrue, RoundTrue, Live, InterestedIn
<1>4. NothingEarly' /\ ClaimedFirst' /\ FannedComplete'
  BY DEF NothingEarly, ClaimedFirst, FannedComplete
<1>5. InHandOnce' /\ KeylessOnce' /\ PassTrue'
  BY <1>1, SMTT(60) DEF InHandOnce, KeylessOnce, PassTrue
<1> QED  BY <1>2, <1>3, <1>4, <1>5

LEMMA ConsumeKeeps ==
  ASSUME FanInv, Once, NEW a \in Actor, Consume(a)
  PROVE  FanInv'
<1> USE FanAssumption DEF FanInv, Once, Consume, Actor, FanTypeOK
<1>1. FanTypeOK'
  BY SMTT(60) DEF WorkTrue
<1>2. WorkTrue' /\ RoundTrue'
  BY DEF WorkTrue, RoundTrue, Live, InterestedIn
<1>3. NothingEarly' /\ FannedComplete'
  BY DEF NothingEarly, FannedComplete, WorkTrue, Live
<1>4. ClaimedFirst'
  BY DEF ClaimedFirst, InHandOnce, WorkTrue
<1>5. InHandOnce'
  BY DEF InHandOnce, WorkTrue
<1>6. KeylessOnce'
  BY DEF KeylessOnce, WorkTrue
<1>7. PassTrue'
  BY DEF PassTrue, InHandOnce, WorkTrue, InterestedIn
<1> QED  BY <1>1, <1>2, <1>3, <1>4, <1>5, <1>6, <1>7

LEMMA MarkKeeps ==
  ASSUME FanInv, Once, NEW a \in Actor, MarkFanned(a)
  PROVE  FanInv'
<1> USE FanAssumption DEF FanInv, Once, Fanning, Actor
<1> DEFINE b == actor[a].b
<1>1. /\ b \in Batch /\ Live(b) /\ actor[a].todo = {}
      /\ \/ /\ outbox' = [outbox EXCEPT ![b] = "fanned"]
            /\ actor[a].ok /\ b \notin Keyless
         \/ outbox' = outbox
      /\ replay' = IF a = Drainer THEN replay \ {b} ELSE replay
      /\ UNCHANGED <<earlier, claims, driven, logged, mishaps>>
  BY DEF MarkFanned, WorkTrue
<1>2. failures' \in 0 .. MaxFailures
  BY DEF MarkFanned, FanTypeOK
<1>3. /\ actor' \in [Actor -> WorkType]
      /\ \A o \in Actor \ {a} : actor'[o] = actor[o]
      /\ actor'[a].todo = {} /\ actor'[a].at = {}
      /\ a = Drainer => actor'[a].pc = "idle" /\ actor'[a].b = NoBatch
      /\ a # Drainer => actor'[a].pc = "event" /\ actor'[a].b = b
  <2>1. /\ NoFan \in WorkType /\ NoFan.pc = "idle" /\ NoFan.b = NoBatch
        /\ NoFan.todo = {} /\ NoFan.at = {}
    BY DEF NoFan, WorkType
  <2> DEFINE logs == [NoFan EXCEPT !.pc = "event", !.b = b]
  <2>2. logs \in WorkType /\ logs.pc = "event" /\ logs.b = b /\ logs.todo = {} /\ logs.at = {}
    BY <1>1 DEF NoFan, WorkType
  <2>3. actor' = [actor EXCEPT ![a] = IF a = Drainer THEN NoFan ELSE logs]
    BY DEF MarkFanned
  <2>4. actor \in [Actor -> WorkType]
    BY DEF FanTypeOK, WorkType
  <2> HIDE DEF logs
  <2> QED  BY <2>1, <2>2, <2>3, <2>4
<1>4. FanTypeOK'
  BY <1>1, <1>2, <1>3 DEF FanTypeOK, WorkType
<1>5. WorkTrue' /\ RoundTrue'
  BY <1>1, <1>3 DEF WorkTrue, RoundTrue, Live, InterestedIn, FanTypeOK
<1>6. NothingEarly' /\ ClaimedFirst'
  BY <1>1 DEF NothingEarly, ClaimedFirst, FanTypeOK, Live
<1>7. \A c \in Consumer : actor[a].ok /\ b \notin Keyless /\ b \in Wants[c] => <<c, b>> \in claims
  BY <1>1 DEF PassTrue, InterestedIn, MarkFanned
<1>8. FannedComplete'
  BY <1>1, <1>7 DEF FannedComplete, FanTypeOK
<1>9. InHandOnce' /\ KeylessOnce' /\ PassTrue'
  BY <1>1, <1>3, SMTT(60) DEF InHandOnce, KeylessOnce, PassTrue, FanTypeOK
<1> QED  BY <1>4, <1>5, <1>6, <1>8, <1>9

LEMMA LogKeeps ==
  ASSUME FanInv, Once, NEW r \in Post, LogBatchEvent(r)
  PROVE  FanInv'
<1> USE FanAssumption DEF FanInv, Once, LogBatchEvent, Actor, NoFan
<1>1. FanTypeOK'  BY SMTT(20) DEF FanTypeOK, WorkTrue, InterestedIn, RoundTrue, Live, CommitLast
<1>2. WorkTrue'  BY SMTT(20) DEF FanTypeOK, WorkTrue, RoundTrue, Live, InterestedIn, NoFan
<1>3. RoundTrue'  BY SMTT(20) DEF FanTypeOK, WorkTrue, RoundTrue, Live, InterestedIn, NoFan
<1>4. NothingEarly'  BY SMTT(20) DEF FanTypeOK, WorkTrue, RoundTrue, Live, InterestedIn, NothingEarly
<1>5. ClaimedFirst'  BY SMTT(20) DEF FanTypeOK, WorkTrue, RoundTrue, Live, InterestedIn, ClaimedFirst
<1>6. InHandOnce'  BY SMTT(20) DEF FanTypeOK, WorkTrue, RoundTrue, Live, InterestedIn, InHandOnce
<1>7. KeylessOnce'  BY SMTT(20) DEF FanTypeOK, WorkTrue, RoundTrue, Live, InterestedIn, KeylessOnce
<1>8. PassTrue'  BY SMTT(20) DEF FanTypeOK, WorkTrue, RoundTrue, Live, InterestedIn, PassTrue
<1>9. FannedComplete'  BY SMTT(20) DEF FanTypeOK, WorkTrue, RoundTrue, Live, InterestedIn, FannedComplete
<1> QED  BY <1>1, <1>2, <1>3, <1>4, <1>5, <1>6, <1>7, <1>8, <1>9

LEMMA AgeKeeps ==
  ASSUME FanInv, Once, NEW b \in Batch, AgeRow(b)
  PROVE  FanInv'
<1> USE FanAssumption DEF FanInv, Once, AgeRow, Actor, NoFan
<1>1. FanTypeOK'  BY SMTT(20) DEF FanTypeOK, WorkTrue, InterestedIn, RoundTrue, Live, CommitLast
<1>2. WorkTrue'  BY SMTT(20) DEF FanTypeOK, WorkTrue, RoundTrue, Live, InterestedIn, NoFan
<1>3. RoundTrue'  BY SMTT(20) DEF FanTypeOK, WorkTrue, RoundTrue, Live, InterestedIn, NoFan
<1>4. NothingEarly'  BY SMTT(20) DEF FanTypeOK, WorkTrue, RoundTrue, Live, InterestedIn, NothingEarly
<1>5. ClaimedFirst'  BY SMTT(20) DEF FanTypeOK, WorkTrue, RoundTrue, Live, InterestedIn, ClaimedFirst
<1>6. InHandOnce'  BY SMTT(20) DEF FanTypeOK, WorkTrue, RoundTrue, Live, InterestedIn, InHandOnce
<1>7. KeylessOnce'  BY SMTT(20) DEF FanTypeOK, WorkTrue, RoundTrue, Live, InterestedIn, KeylessOnce
<1>8. PassTrue'  BY SMTT(20) DEF FanTypeOK, WorkTrue, RoundTrue, Live, InterestedIn, PassTrue
<1>9. FannedComplete'  BY SMTT(20) DEF FanTypeOK, WorkTrue, RoundTrue, Live, InterestedIn, FannedComplete
<1> QED  BY <1>1, <1>2, <1>3, <1>4, <1>5, <1>6, <1>7, <1>8, <1>9

LEMMA StartKeeps ==
  ASSUME FanInv, Once, DrainStart
  PROVE  FanInv'
<1> USE FanAssumption DEF FanInv, Once, DrainStart, OldestOf, Actor, NoFan
<1>1. FanTypeOK'  BY SMTT(20) DEF FanTypeOK, WorkTrue, InterestedIn, RoundTrue, Live, CommitLast
<1>2. WorkTrue'  BY SMTT(20) DEF FanTypeOK, WorkTrue, RoundTrue, Live, InterestedIn, NoFan
<1>3. RoundTrue'  BY SMTT(20) DEF FanTypeOK, WorkTrue, RoundTrue, Live, InterestedIn, NoFan
<1>4. NothingEarly'  BY SMTT(20) DEF FanTypeOK, WorkTrue, RoundTrue, Live, InterestedIn, NothingEarly
<1>5. ClaimedFirst'  BY SMTT(20) DEF FanTypeOK, WorkTrue, RoundTrue, Live, InterestedIn, ClaimedFirst
<1>6. InHandOnce'  BY SMTT(20) DEF FanTypeOK, WorkTrue, RoundTrue, Live, InterestedIn, InHandOnce
<1>7. KeylessOnce'  BY SMTT(20) DEF FanTypeOK, WorkTrue, RoundTrue, Live, InterestedIn, KeylessOnce
<1>8. PassTrue'  BY SMTT(20) DEF FanTypeOK, WorkTrue, RoundTrue, Live, InterestedIn, PassTrue
<1>9. FannedComplete'  BY SMTT(20) DEF FanTypeOK, WorkTrue, RoundTrue, Live, InterestedIn, FannedComplete
<1> QED  BY <1>1, <1>2, <1>3, <1>4, <1>5, <1>6, <1>7, <1>8, <1>9

LEMMA RowKeeps ==
  ASSUME FanInv, Once, DrainRow
  PROVE  FanInv'
<1> USE FanAssumption DEF FanInv, Once, Actor
<1>1. ASSUME NEW b \in replay, StartFan(Drainer, b), actor[Drainer].pc = "idle",
             UNCHANGED <<outbox, earlier, claims, driven, logged, replay, failures, mishaps>>
      PROVE  FanInv'
  <2> USE <1>1 DEF StartFan, FanTypeOK
  <2>1. FanTypeOK'
    BY DEF InterestedIn
  <2>2. WorkTrue' /\ RoundTrue'
    BY DEF WorkTrue, RoundTrue, Live, InterestedIn
  <2>3. NothingEarly' /\ ClaimedFirst' /\ FannedComplete'
    BY DEF NothingEarly, ClaimedFirst, FannedComplete
  <2>4. InHandOnce' /\ KeylessOnce' /\ PassTrue'
    BY DEF InHandOnce, KeylessOnce, PassTrue, RoundTrue
  <2> QED  BY <2>1, <2>2, <2>3, <2>4
<1>2. ASSUME replay' = {}, failures < MaxFailures, failures' = failures + 1,
             actor[Drainer].pc = "idle",
             UNCHANGED <<outbox, earlier, claims, driven, logged, actor, mishaps>>
      PROVE  FanInv'
  BY <1>2 DEF FanTypeOK, WorkTrue, RoundTrue, Live, NothingEarly, ClaimedFirst,
              InHandOnce, KeylessOnce, PassTrue, FannedComplete
<1> QED  BY <1>1, <1>2 DEF DrainRow

LEMMA PruneKeeps ==
  ASSUME FanInv, Once, NEW b \in Batch, PruneRow(b)
  PROVE  FanInv'
<1> USE FanAssumption DEF FanInv, Once, PruneRow, Unfanned, Actor, NoFan
<1>1. FanTypeOK'  BY SMTT(20) DEF FanTypeOK, WorkTrue, InterestedIn, RoundTrue, Live, CommitLast
<1>2. WorkTrue'  BY SMTT(20) DEF FanTypeOK, WorkTrue, RoundTrue, Live, InterestedIn, NoFan
<1>3. RoundTrue'  BY SMTT(20) DEF FanTypeOK, WorkTrue, RoundTrue, Live, InterestedIn, NoFan
<1>4. NothingEarly'  BY SMTT(20) DEF FanTypeOK, WorkTrue, RoundTrue, Live, InterestedIn, NothingEarly
<1>5. ClaimedFirst'  BY SMTT(20) DEF FanTypeOK, WorkTrue, RoundTrue, Live, InterestedIn, ClaimedFirst
<1>6. InHandOnce'  BY SMTT(20) DEF FanTypeOK, WorkTrue, RoundTrue, Live, InterestedIn, InHandOnce
<1>7. KeylessOnce'  BY SMTT(20) DEF FanTypeOK, WorkTrue, RoundTrue, Live, InterestedIn, KeylessOnce
<1>8. PassTrue'  BY SMTT(20) DEF FanTypeOK, WorkTrue, RoundTrue, Live, InterestedIn, PassTrue
<1>9. FannedComplete'  BY SMTT(20) DEF FanTypeOK, WorkTrue, RoundTrue, Live, InterestedIn, FannedComplete
<1> QED  BY <1>1, <1>2, <1>3, <1>4, <1>5, <1>6, <1>7, <1>8, <1>9

LEMMA CrashKeeps ==
  ASSUME FanInv, Once, FanCrash
  PROVE  FanInv'
<1> USE FanAssumption DEF FanInv, Once, FanCrash, Actor, NoFan
<1>1. FanTypeOK'  BY SMTT(20) DEF FanTypeOK, WorkTrue, InterestedIn, RoundTrue, Live, CommitLast
<1>2. WorkTrue'  BY SMTT(20) DEF FanTypeOK, WorkTrue, RoundTrue, Live, InterestedIn, NoFan
<1>3. RoundTrue'  BY SMTT(20) DEF FanTypeOK, WorkTrue, RoundTrue, Live, InterestedIn, NoFan
<1>4. NothingEarly'  BY SMTT(20) DEF FanTypeOK, WorkTrue, RoundTrue, Live, InterestedIn, NothingEarly
<1>5. ClaimedFirst'  BY SMTT(20) DEF FanTypeOK, WorkTrue, RoundTrue, Live, InterestedIn, ClaimedFirst
<1>6. InHandOnce'  BY SMTT(20) DEF FanTypeOK, WorkTrue, RoundTrue, Live, InterestedIn, InHandOnce
<1>7. KeylessOnce'  BY SMTT(20) DEF FanTypeOK, WorkTrue, RoundTrue, Live, InterestedIn, KeylessOnce
<1>8. PassTrue'  BY SMTT(20) DEF FanTypeOK, WorkTrue, RoundTrue, Live, InterestedIn, PassTrue
<1>9. FannedComplete'  BY SMTT(20) DEF FanTypeOK, WorkTrue, RoundTrue, Live, InterestedIn, FannedComplete
<1> QED  BY <1>1, <1>2, <1>3, <1>4, <1>5, <1>6, <1>7, <1>8, <1>9

LEMMA HangupKeeps ==
  ASSUME FanInv, Once, NEW r \in Post, FanHangup(r)
  PROVE  FanInv'
<1> USE FanAssumption DEF FanInv, Once, FanHangup, Actor, NoFan
<1>1. FanTypeOK'  BY SMTT(20) DEF FanTypeOK, WorkTrue, InterestedIn, RoundTrue, Live, CommitLast
<1>2. WorkTrue'  BY SMTT(20) DEF FanTypeOK, WorkTrue, RoundTrue, Live, InterestedIn, NoFan
<1>3. RoundTrue'  BY SMTT(20) DEF FanTypeOK, WorkTrue, RoundTrue, Live, InterestedIn, NoFan
<1>4. NothingEarly'  BY SMTT(20) DEF FanTypeOK, WorkTrue, RoundTrue, Live, InterestedIn, NothingEarly
<1>5. ClaimedFirst'  BY SMTT(20) DEF FanTypeOK, WorkTrue, RoundTrue, Live, InterestedIn, ClaimedFirst
<1>6. InHandOnce'  BY SMTT(20) DEF FanTypeOK, WorkTrue, RoundTrue, Live, InterestedIn, InHandOnce
<1>7. KeylessOnce'  BY SMTT(20) DEF FanTypeOK, WorkTrue, RoundTrue, Live, InterestedIn, KeylessOnce
<1>8. PassTrue'  BY SMTT(20) DEF FanTypeOK, WorkTrue, RoundTrue, Live, InterestedIn, PassTrue
<1>9. FannedComplete'  BY SMTT(20) DEF FanTypeOK, WorkTrue, RoundTrue, Live, InterestedIn, FannedComplete
<1> QED  BY <1>1, <1>2, <1>3, <1>4, <1>5, <1>6, <1>7, <1>8, <1>9

LEMMA FanInvHolds ==
  ASSUME Once
  PROVE  FanSpec => []FanInv
<1>1. FanInit => FanInv
  BY FanAssumption DEF FanInit, FanInv, FanTypeOK, WorkTrue, RoundTrue, Live, NothingEarly, ClaimedFirst,
     InHandOnce, KeylessOnce, PassTrue, FannedComplete, Actor, NoFan
<1>2. FanInv /\ [FanNext]_fanVars => FanInv'
  <2> SUFFICES ASSUME FanInv, [FanNext]_fanVars PROVE FanInv'
    OBVIOUS
  <2>1. CASE UNCHANGED fanVars
    BY <2>1 DEF fanVars, FanInv, FanTypeOK, WorkTrue, RoundTrue, Live, NothingEarly, ClaimedFirst,
       InHandOnce, KeylessOnce, PassTrue, FannedComplete
  <2>2. CASE FanNext
    BY <2>2, IngestKeeps, ClaimKeeps, ClaimFailKeeps, ConsumeKeeps, MarkKeeps, LogKeeps, AgeKeeps,
       StartKeeps, RowKeeps, PruneKeeps, CrashKeeps, HangupKeeps DEF FanNext, FanStep
  <2> QED  BY <2>1, <2>2
<1> QED  BY <1>1, <1>2, PTL DEF FanSpec

(* A batch the drainer will not look at again went to every consumer that
   wants it, as far as claims go. *)
THEOREM FannedIsComplete ==
  ASSUME Once
  PROVE  FanSpec => []FannedComplete
BY FanInvHolds, PTL DEF FanInv
-----------------------------------------------------------------------------
(* The refinement, step by step. *)
DueAll == [c \in Consumer |-> [b \in Batch |-> Due(c, b)]]

SameDue == \A c \in Consumer, b \in Batch : Due(c, b)' = Due(c, b)

LEMMA Stutter ==
  ASSUME SameDue, mishaps' = mishaps
  PROVE  UNCHANGED <<DueAll, mishaps>>
BY DEF SameDue, DueAll

LEMMA IngestMaps ==
  ASSUME FanInv, Once, NEW r \in Post, NEW b \in Batch, Ingest(r, b)
  PROVE  D!Owe(b, InterestedIn(b))
<1> USE FanAssumption DEF FanInv, Once, Ingest, StartFan, Actor, NoFan, FanTypeOK
<1>1. outbox[b] = "none" /\ \A o \in Actor : actor[o].b # b
  BY DEF WorkTrue, Live
<1>2. \A c \in Consumer : Due(c, b) = "none"
  BY <1>1 DEF Due
<1>3. \A c \in Consumer : Due(c, b)' = IF c \in InterestedIn(b) THEN "owed" ELSE "none"
  BY <1>1 DEF Due, Lost, NothingEarly, InterestedIn
<1>4. \A c \in Consumer, x \in Batch \ {b} : Due(c, x)' = Due(c, x)
  BY <1>1 DEF Due, Lost, WorkTrue
<1>5. mishaps' = mishaps
  OBVIOUS
<1> QED  BY ONLY <1>2, <1>3, <1>4, <1>5 DEF D!Owe

LEMMA ClaimMaps ==
  ASSUME FanInv, Once, NEW a \in Actor, NEW c \in Consumer, ClaimConsumer(a, c)
  PROVE  SameDue /\ mishaps' = mishaps
<1> USE FanAssumption DEF FanInv, Once, ClaimConsumer, Fanning, Actor, FanTypeOK
<1> DEFINE b == actor[a].b
<1>1. b \in Batch /\ Live(b) /\ actor[a].at = {} /\ c \in actor[a].todo
  BY DEF WorkTrue
<1>2. ASSUME <<c, b>> \in claims
      PROVE  SameDue
  <2>1. claims' = claims /\ actor' = [actor EXCEPT ![a].todo = actor[a].todo \ {c}]
    BY <1>2
  <2> QED  BY <2>1, <1>1, <1>2 DEF SameDue, Due, Lost
<1>3. ASSUME <<c, b>> \notin claims
      PROVE  SameDue
  <2>1. /\ claims' = IF b \in Keyless THEN claims ELSE claims \cup {<<c, b>>}
        /\ actor' = [actor EXCEPT ![a].at = {c}]
    BY <1>3
  <2>2. \A d \in Consumer, x \in Batch : ~(d = c /\ x = b) => Due(d, x)' = Due(d, x)
    BY <2>1, <1>1 DEF Due, Lost
  <2>3. Due(c, b)' = Due(c, b)
    <3>1. CASE b \in Keyless
      BY <3>1, <2>1, <1>1 DEF Due, Lost
    <3>2. CASE b \notin Keyless
      <4>1. /\ driven[c][b] = 0 /\ <<c, b>> \in claims' /\ outbox[b] # "pruned"
            /\ actor'[a].b = b /\ c \in actor'[a].at
        BY <3>2, <2>1, <1>1, <1>3 DEF ClaimedFirst, Live
      <4> QED  BY <4>1, <1>3 DEF Due, Lost
    <3> QED  BY <3>1, <3>2
  <2> QED  BY <2>2, <2>3, SMTT(60) DEF SameDue
<1> QED  BY <1>2, <1>3

LEMMA ClaimFailMaps ==
  ASSUME FanInv, Once, NEW a \in Actor, NEW c \in Consumer, ClaimFails(a, c)
  PROVE  SameDue /\ mishaps' = mishaps
<1> USE FanAssumption DEF FanInv, Once, ClaimFails, Fanning, Actor, FanTypeOK
<1>1. actor' = [actor EXCEPT ![a] = [actor[a] EXCEPT !.todo = @ \ {c}, !.ok = FALSE]]
  BY ONLY ClaimFails(a, c) DEF ClaimFails
<1>2. \A o \in Actor : /\ actor'[o].b = actor[o].b /\ actor'[o].at = actor[o].at
                        /\ actor[o].b \in Keyless => actor'[o].todo = actor[o].todo
  BY <1>1
<1>3. UNCHANGED <<outbox, claims, driven, mishaps>>
  OBVIOUS
<1>4. ASSUME NEW d \in Consumer, NEW b \in Batch
      PROVE  Due(d, b)' = Due(d, b)
  <2>1. (\E o \in Actor : actor'[o].b = b /\ d \in actor'[o].at)
          <=> (\E o \in Actor : actor[o].b = b /\ d \in actor[o].at)
    BY <1>2
  <2>2. b \in Keyless =>
          ((\A o \in Actor : ~(actor'[o].b = b /\ d \in actor'[o].todo))
             <=> (\A o \in Actor : ~(actor[o].b = b /\ d \in actor[o].todo)))
    BY <1>2
  <2> QED  BY ONLY <1>3, <2>1, <2>2 DEF Due, Lost
<1> QED  BY ONLY <1>3, <1>4 DEF SameDue

LEMMA ConsumeMaps ==
  ASSUME FanInv, Once, NEW a \in Actor, Consume(a)
  PROVE  \E c \in Consumer, b \in Batch : D!Drive(c, b)
<1> USE FanAssumption DEF FanInv, Once, Consume, Actor, FanTypeOK
<1> DEFINE b == actor[a].b
<1>1. PICK c \in actor[a].at :
        /\ driven' = [driven EXCEPT ![c][b] = @ + 1]
        /\ actor' = [actor EXCEPT ![a].todo = @ \ {c}, ![a].at = {}]
  OBVIOUS
<1>2. c \in Consumer /\ b \in Batch /\ b \in Wants[c] /\ actor[a].at = {c} /\ Live(b)
  BY DEF WorkTrue, InterestedIn
<1>3. Due(c, b) = "owed"
  BY <1>2, SMTT(60) DEF Due, Lost, InHandOnce, Live
<1>4. Due(c, b)' = "driven"
  BY <1>1, <1>2 DEF Due, Lost, Live
<1>5. \A d \in Consumer, x \in Batch : ~(d = c /\ x = b) => Due(d, x)' = Due(d, x)
  BY <1>1, <1>2 DEF Due, Lost
<1>6. mishaps' = mishaps
  OBVIOUS
<1>7. D!Drive(c, b)
  <2> DEFINE due == [d \in Consumer |-> [x \in Batch |-> Due(d, x)]]
  <2>1. \A d \in Consumer, x \in Batch :
          Due(d, x)' = IF d = c /\ x = b THEN "driven" ELSE Due(d, x)
    BY <1>4, <1>5
  <2>2. due' = [due EXCEPT ![c][b] = "driven"]
    BY ONLY <2>1, <1>2, ZenonT(60)
  <2> QED  BY ONLY <2>2, <1>2, <1>3, <1>6 DEF D!Drive
<1> QED  BY <1>2, <1>7

LEMMA MarkMaps ==
  ASSUME FanInv, Once, NEW a \in Actor, MarkFanned(a)
  PROVE  SameDue /\ mishaps' = mishaps
BY DEF FanInv, Actor, FanTypeOK, MarkFanned, SameDue, Due, Lost, WorkTrue, Live, NoFan, Fanning

LEMMA LogMaps ==
  ASSUME FanInv, Once, NEW r \in Post, LogBatchEvent(r)
  PROVE  SameDue /\ mishaps' = mishaps
BY DEF FanInv, Actor, FanTypeOK, LogBatchEvent, SameDue, Due, Lost, WorkTrue, NoFan

LEMMA DrainMaps ==
  ASSUME FanInv, Once, DrainStart \/ DrainRow \/ \E b \in Batch : AgeRow(b)
  PROVE  SameDue /\ mishaps' = mishaps
BY DEF FanInv, Actor, FanTypeOK, DrainStart, DrainRow, AgeRow, StartFan, SameDue, Due, Lost, WorkTrue, RoundTrue

(* A mishap loses what nobody has in hand any more. *)
Losing == \E S \in SUBSET (Consumer \X Batch) : D!Lose(S)

LEMMA LoseSome ==
  ASSUME \A c \in Consumer, b \in Batch :
           Due(c, b)' = Due(c, b) \/ (Due(c, b) = "owed" /\ Due(c, b)' = "lost"),
         mishaps' = mishaps + 1
  PROVE  Losing
<1> DEFINE S == {s \in Consumer \X Batch : Due(s[1], s[2])' # Due(s[1], s[2])}
<1>1. PICK L \in SUBSET (Consumer \X Batch) :
        \A c \in Consumer, b \in Batch : <<c, b>> \in L <=> Due(c, b)' # Due(c, b)
  <2>1. S \in SUBSET (Consumer \X Batch)
    OBVIOUS
  <2> QED  BY <2>1
<1>2. D!Lose(L)
  BY <1>1 DEF D!Lose
<1> QED  BY <1>2 DEF Losing

LEMMA PruneMaps ==
  ASSUME FanInv, Once, NEW b \in Batch, PruneRow(b)
  PROVE  (SameDue /\ mishaps' = mishaps) \/ Losing
<1> USE FanAssumption DEF FanInv, Once, PruneRow, Unfanned, Actor, FanTypeOK
<1>1. \A c \in Consumer, x \in Batch \ {b} : Due(c, x)' = Due(c, x)
  BY DEF Due, Lost
<1>2. CASE outbox[b] = "old" /\ b \notin Keyless
  <2>1. \A c \in Consumer : Due(c, b)' = Due(c, b) \/ (Due(c, b) = "owed" /\ Due(c, b)' = "lost")
    BY <1>2 DEF Due, Lost
  <2> QED  BY <1>1, <1>2, <2>1, LoseSome
<1>3. CASE ~(outbox[b] = "old" /\ b \notin Keyless)
  <2>1. \A c \in Consumer : Due(c, b)' = Due(c, b)
    BY <1>3 DEF Due, Lost, FannedComplete
  <2> QED  BY <1>1, <1>3, <2>1 DEF SameDue
<1> QED  BY <1>2, <1>3

LEMMA CrashMaps ==
  ASSUME FanInv, Once, FanCrash
  PROVE  Losing
<1>1. \A c \in Consumer, b \in Batch :
        Due(c, b)' = Due(c, b) \/ (Due(c, b) = "owed" /\ Due(c, b)' = "lost")
  BY FanAssumption DEF FanCrash, NoFan, Actor, Due, Lost
<1>2. mishaps' = mishaps + 1
  BY DEF FanCrash
<1> QED  BY <1>1, <1>2, LoseSome

LEMMA HangupMaps ==
  ASSUME FanInv, Once, NEW r \in Post, FanHangup(r)
  PROVE  Losing
<1>1. /\ \A o \in Actor \ {r} : actor'[o] = actor[o]
      /\ actor'[r].b = NoBatch /\ actor'[r].todo = {} /\ actor'[r].at = {}
      /\ UNCHANGED <<outbox, claims, driven>>
  BY DEF FanInv, FanHangup, NoFan, Actor, FanTypeOK
<1>2. \A c \in Consumer, b \in Batch :
        Due(c, b)' = Due(c, b) \/ (Due(c, b) = "owed" /\ Due(c, b)' = "lost")
  BY <1>1, FanAssumption DEF Due, Lost, Actor
<1>3. mishaps' = mishaps + 1
  BY DEF FanHangup
<1> QED  BY <1>2, <1>3, LoseSome

(* No overlap of an inline fan-out, the drainer, a redelivery, a restart and a
   dropped request drives a consumer twice with a batch, and only the last two
   and retention take one from it (fanout.rs: fan_out, drain;
   perception_ingest.rs: ingest_batch). *)
THEOREM FanoutImplementsDelivery ==
  ASSUME Once
  PROVE  FanSpec => ImplementsDelivery
<1>1. FanInit => D!DeliveryInit
  BY DEF FanInit, D!DeliveryInit, Due
<1>2. FanInv /\ [FanNext]_fanVars => [D!DeliveryNext]_<<DueAll, mishaps>>
  <2> SUFFICES ASSUME FanInv, [FanNext]_fanVars
               PROVE  [D!DeliveryNext]_<<DueAll, mishaps>>
    OBVIOUS
  <2>1. CASE UNCHANGED fanVars
    BY <2>1 DEF fanVars, DueAll, Due, Lost
  <2>2. ASSUME NEW r \in Post, NEW b \in Batch, Ingest(r, b)
        PROVE  [D!DeliveryNext]_<<DueAll, mishaps>>
    <3>1. InterestedIn(b) \in SUBSET Consumer
      BY DEF InterestedIn
    <3> QED  BY <2>2, <3>1, IngestMaps DEF D!DeliveryNext
  <2>3. ASSUME NEW a \in Actor, FanStep(a)
        PROVE  [D!DeliveryNext]_<<DueAll, mishaps>>
    BY <2>3, ClaimMaps, ClaimFailMaps, ConsumeMaps, MarkMaps, Stutter DEF FanStep, D!DeliveryNext
  <2>4. ASSUME NEW r \in Post, LogBatchEvent(r) \/ FanHangup(r)
        PROVE  [D!DeliveryNext]_<<DueAll, mishaps>>
    BY <2>4, LogMaps, HangupMaps, Stutter DEF D!DeliveryNext, Losing
  <2>5. ASSUME NEW b \in Batch, AgeRow(b) \/ PruneRow(b)
        PROVE  [D!DeliveryNext]_<<DueAll, mishaps>>
    BY <2>5, DrainMaps, PruneMaps, Stutter DEF D!DeliveryNext, Losing
  <2>6. CASE DrainStart \/ DrainRow \/ FanCrash
    BY <2>6, DrainMaps, CrashMaps, Stutter DEF D!DeliveryNext, Losing
  <2> QED  BY <2>1, <2>2, <2>3, <2>4, <2>5, <2>6 DEF FanNext
<1> QED  BY <1>1, <1>2, FanInvHolds, PTL DEF FanSpec, ImplementsDelivery, D!DeliverySafe, DueAll
-----------------------------------------------------------------------------
(* The zone engine. *)

(* A track that is inside and not suppressed was announced, and it was not
   reported as dwelling unless its entry says so. *)
StaysTrue == \A t \in Track :
  /\ stay[t] # "broken"
  /\ state[t].inside /\ ~state[t].suppressed =>
       /\ stay[t] \in {"open", "dwelt"}
       /\ ~state[t].dwelt => stay[t] = "open"

(* The cache holds what the table does, unless a restart or a failed statement
   parted them. *)
CacheTrue == ~stale => cache = table

ZoneInv == ZoneTypeOK /\ StaysTrue /\ CacheTrue

(* Whether a track's row would open, close or report a stay in its place. *)
Announced(g, s) ==
  /\ s # "broken"
  /\ g.inside /\ ~g.suppressed => s \in {"open", "dwelt"} /\ (~g.dwelt => s = "open")

LEMMA AbsNat ==
  ASSUME NEW n \in Int
  PROVE  Abs(n) \in Nat
BY DEF Abs

LEMMA EntryTrue ==
  ASSUME ZoneInv, NEW t \in Track, NEW x \in Point, NEW o \in Point \cup {0}
  PROVE  Entry(t, x, o) \in EntryType /\ Announced(Entry(t, x, o), stay[t])
<1>1. CASE state[t].known
  BY <1>1 DEF ZoneInv, ZoneTypeOK, StaysTrue, Entry, Announced
<1>2. CASE ~state[t].known
  <2> DEFINE n == Siblings(x) # {}
  <2>1. n \in BOOLEAN
    OBVIOUS
  <2>2. Entry(t, x, o) = [NoState EXCEPT !.known = TRUE, !.origin = o, !.suppressed = n, !.evented = n]
    BY <1>2 DEF Entry
  <2> HIDE DEF n
  <2>3. NoState \in EntryType /\ ~NoState.inside
    BY ZoneAssumption DEF NoState, EntryType
  <2>4. Entry(t, x, o) \in EntryType /\ ~Entry(t, x, o).inside
    BY <2>1, <2>2, <2>3 DEF EntryType
  <2>5. stay[t] # "broken"
    BY DEF ZoneInv, StaysTrue
  <2> QED  BY ONLY <2>4, <2>5 DEF Announced
<1> QED  BY <1>1, <1>2

LEMMA StaticTrue ==
  ASSUME NEW g \in EntryType, NEW x \in Point, NEW lived \in BOOLEAN
  PROVE  LET h == UpdateStatic(g, x, lived) IN
         /\ h \in EntryType
         /\ h.inside = g.inside /\ h.count = g.count /\ h.dwelt = g.dwelt
         /\ h.origin = g.origin /\ h.at = g.at /\ h.known = g.known
BY ZenonT(60) DEF UpdateStatic, EntryType

LEMMA MemberTrue ==
  ASSUME NEW g \in EntryType, NEW x \in Point
  PROVE  LET h == Member(g, x) IN
         /\ h \in EntryType /\ h.suppressed = g.suppressed
         /\ h.inside = IF Flips(g, x) THEN ~g.inside ELSE g.inside
         /\ h.dwelt = (g.dwelt /\ ~(Flips(g, x) /\ ~g.inside /\ ~g.suppressed))
<1> DEFINE h == Member(g, x)
           entered == ~g.inside /\ ~g.suppressed
<1> USE DEF EntryType
<1>1. CASE (x \in Interior) = g.inside
  BY <1>1, ZoneAssumption DEF Member, Flips
<1>2. CASE (x \in Interior) # g.inside /\ ~Flips(g, x)
  <2>1. h = [g EXCEPT !.count = @ + 1]
    BY <1>2 DEF Member
  <2>2. g.count + 1 \in 0 .. CONFIRM - 1
    BY <1>2, ZoneAssumption DEF Flips
  <2> QED  BY <1>2, <2>1, <2>2
<1>3. CASE Flips(g, x)
  <2>1. h = [g EXCEPT !.inside = ~@, !.count = 0, !.dwelt = @ /\ ~entered]
    BY <1>3 DEF Member, Flips
  <2>2. 0 \in 0 .. CONFIRM - 1
    BY ZoneAssumption
  <2> QED  BY <1>3, <2>1, <2>2
<1> QED  BY <1>1, <1>2, <1>3 DEF Flips

LEMMA EvaluateTrue ==
  ASSUME ZoneInv, NEW t \in Track, NEW x \in Point, NEW o \in Point \cup {0},
         NEW lived \in BOOLEAN, NEW stayed \in BOOLEAN
  PROVE  LET r == Evaluate(t, x, o, lived, stayed) IN
         r[1] \in EntryType /\ Announced(r[1], AfterAll(stay[t], r[2]))
<1> DEFINE e0 == Entry(t, x, o)
           e1 == UpdateStatic(e0, x, lived)
           again == BecameActive(e0, e1) /\ e1.inside
           e2 == [e1 EXCEPT !.dwelt = @ /\ ~again]
           e3 == Member(e2, x)
           flips == Flips(e2, x) /\ ~e2.suppressed
           flip == IF ~flips THEN "nothing" ELSE IF e3.inside THEN "enter" ELSE "exit"
           late == Dwells(e3, stayed) /\ ~again /\ ~flips
           s1 == After(stay[t], Announce(e0, e1))
<1>1. e0 \in EntryType /\ Announced(e0, stay[t])
  BY EntryTrue
<1>2. /\ e1 \in EntryType /\ e1.inside = e0.inside /\ e1.dwelt = e0.dwelt
  BY <1>1, StaticTrue
<1>3. Announced(e2, s1) /\ e2 \in EntryType
  BY <1>1, <1>2 DEF Announced, EntryType, Announce, After, BecameActive, BecameStatic
<1>4. /\ e3 \in EntryType /\ e3.suppressed = e2.suppressed
      /\ e3.inside = IF Flips(e2, x) THEN ~e2.inside ELSE e2.inside
      /\ e3.dwelt = (e2.dwelt /\ ~(Flips(e2, x) /\ ~e2.inside /\ ~e2.suppressed))
  BY <1>3, MemberTrue
<1>5. flips = (Flips(e2, x) /\ ~e2.suppressed)
  OBVIOUS
<1>6. Announced(e3, After(s1, flip))
  <2> HIDE DEF e2, s1, e3
  <2> QED  BY <1>3, <1>4 DEF Announced, EntryType, After
<1>7. LET n == [e3 EXCEPT !.dwelt = @ \/ late]
      IN  n \in EntryType /\ Announced(n, After(After(s1, flip), IF late THEN "dwell" ELSE "nothing"))
  <2> DEFINE s2 == After(s1, flip)
             l == late
             n == [e3 EXCEPT !.dwelt = @ \/ l]
  <2>1. l \in BOOLEAN /\ (l => e3.inside /\ ~e3.suppressed /\ ~e3.dwelt)
    BY <1>4 DEF Dwells, EntryType
  <2>3. Announced(e3, s2)
    BY <1>6
  <2> HIDE DEF e3, s2, l
  <2>2. n \in EntryType /\ Announced(n, After(s2, IF l THEN "dwell" ELSE "nothing"))
    <3>1. /\ n \in EntryType /\ n.inside = e3.inside /\ n.suppressed = e3.suppressed
          /\ n.dwelt = (e3.dwelt \/ l)
      BY <1>4, <2>1 DEF EntryType
    <3> HIDE DEF n
    <3>2. CASE l
      <4>1. s2 = "open"
        BY <2>3, <2>1, <3>2 DEF Announced
      <4>2. Announced(n, "dwelt")
        BY <3>1, <3>2 DEF Announced
      <4> QED  BY <3>1, <3>2, <4>1, <4>2 DEF After
    <3>3. CASE ~l
      <4>1. Announced(n, s2)
        BY <1>4, <2>3, <3>1, <3>3 DEF Announced, EntryType
      <4> QED  BY <3>1, <3>3, <4>1 DEF After
    <3> QED  BY <3>1, <3>2, <3>3
  <2> QED  BY <2>2 DEF s2, l
<1>8. CASE kind = "line"
  <2> DEFINE n == [e1 EXCEPT !.at = x]
             c == Crossing(e1, x)
  <2>1. Evaluate(t, x, o, lived, stayed) = <<n, <<Announce(e0, e1), c, "nothing">>>>
    BY <1>8 DEF Evaluate
  <2>2. c \notin {"enter", "exit", "dwell"}
    BY DEF Crossing
  <2>3. n \in EntryType /\ Announced(n, s1)
    BY <1>1, <1>2 DEF Announced, EntryType, Announce, After, BecameActive, BecameStatic
  <2>4. After(After(s1, c), "nothing") = s1
    BY <2>2 DEF After
  <2> QED  BY <2>1, <2>3, <2>4 DEF AfterAll
<1>9. CASE kind # "line"
  <2>1. Evaluate(t, x, o, lived, stayed)
          = <<[e3 EXCEPT !.dwelt = @ \/ late],
              <<Announce(e0, e1), flip, IF late THEN "dwell" ELSE "nothing">>>>
    BY <1>9 DEF Evaluate
  <2> QED  BY <2>1, <1>7 DEF AfterAll
<1> QED  BY <1>8, <1>9

LEMMA OccupantsCount == Cardinality(Occupants) \in Nat
<1>1. Occupants \in SUBSET Track
  BY DEF Occupants
<1> QED  BY <1>1, ZoneAssumption, FS_Subset, FS_CardinalityType

LEMMA ObserveKeeps ==
  ASSUME ZoneInv, NEW p \in Batcher, NEW t \in Track, NEW x \in Point, Observe(p, t, x)
  PROVE  ZoneInv'
<1>1. PICK o \in IF Siblings(x) = {} THEN {x} ELSE {state[s].origin : s \in Siblings(x)},
           lived \in BOOLEAN, stayed \in BOOLEAN,
           gone \in SUBSET {u \in Track \ {t} : state[u].known} :
        Observed(t, Evaluate(t, x, o, lived, stayed), gone)
  BY DEF Observe
<1>2. o \in Point \cup {0}
  BY DEF Siblings, ZoneInv, ZoneTypeOK, EntryType
<1> DEFINE r == Evaluate(t, x, o, lived, stayed)
<1>3. r[1] \in EntryType /\ Announced(r[1], AfterAll(stay[t], r[2]))
  BY <1>2, EvaluateTrue
<1>4. ASSUME NEW g \in StayState, NEW a
      PROVE  After(g, a) \in StayState
  BY DEF After, StayState
<1>5. r[1] = Evaluate(t, x, o, lived, stayed)[1]
  OBVIOUS
<1> HIDE DEF r
<1>6. ASSUME NEW u \in Track
      PROVE  /\ state'[u] \in EntryType /\ stay'[u] \in StayState
             /\ Announced(state'[u], stay'[u])
  <2>1. state[u] \in EntryType /\ stay[u] \in StayState /\ Announced(state[u], stay[u])
    BY DEF ZoneInv, ZoneTypeOK, StaysTrue, Announced
  <2>2. NoState \in EntryType /\ ~NoState.inside
    BY ZoneAssumption DEF NoState, EntryType
  <2>3. CASE u = t
    <3>1. state'[u] = r[1] /\ stay'[u] = AfterAll(stay[t], r[2])
      BY <1>1, <2>3 DEF Observed, r
    <3>2. AfterAll(stay[t], r[2]) \in StayState
      BY <1>4, <2>1, <2>3 DEF AfterAll
    <3> QED  BY <3>1, <3>2, <1>3
  <2>4. CASE u # t /\ u \in StillInside(gone)
    <3>1. state'[u] = NoState /\ stay'[u] = After(stay[u], "exit")
      BY <1>1, <2>4 DEF Observed, StillInside
    <3> QED  BY <3>1, <2>1, <2>2, <2>4 DEF StillInside, Announced, After, StayState
  <2>5. CASE u # t /\ u \notin StillInside(gone)
    <3>1. state'[u] \in {NoState, state[u]} /\ stay'[u] = stay[u]
      BY <1>1, <2>5 DEF Observed
    <3> QED  BY <3>1, <2>1, <2>2 DEF Announced
  <2> QED  BY <2>3, <2>4, <2>5
<1>7. /\ UNCHANGED <<kind, cache, table, stale>>
      /\ state' \in [Track -> EntryType] /\ stay' \in [Track -> StayState]
      /\ batcher' \in [Batcher -> [pc : {"idle", "count", "write"}, counts : Nat]]
  <2>1. state' \in [Track -> EntryType] /\ stay' \in [Track -> StayState]
    BY <1>1, <1>6 DEF Observed
  <2> QED  BY <2>1 DEF Observe, Idle, ZoneInv, ZoneTypeOK
<1> QED  BY <1>6, <1>7 DEF ZoneInv, ZoneTypeOK, StaysTrue, CacheTrue, Announced

LEMMA FlushKeeps ==
  ASSUME ZoneInv, NEW p \in Batcher, Count(p) \/ WriteOccupancy(p)
  PROVE  ZoneInv'
<1> USE DEF ZoneInv, ZoneTypeOK
<1>1. StaysTrue'
  BY DEF StaysTrue, Count, WriteOccupancy
<1>2. batcher' \in [Batcher -> [pc : {"idle", "count", "write"}, counts : Nat]]
  <2>1. CASE Count(p)
    BY <2>1, OccupantsCount DEF Count
  <2>2. CASE WriteOccupancy(p)
    BY <2>2 DEF WriteOccupancy, Idle
  <2> QED  BY <2>1, <2>2
<1>3. /\ cache' \in Nat /\ table' \in Nat /\ stale' \in BOOLEAN
      /\ UNCHANGED <<kind, state, stay>> /\ CacheTrue'
  BY ZenonT(60) DEF Count, WriteOccupancy, CacheTrue
<1> QED  BY <1>1, <1>2, <1>3

LEMMA RestartKeeps ==
  ASSUME ZoneInv, ZoneRestart
  PROVE  ZoneInv'
<1>1. NoState \in EntryType /\ ~NoState.inside
  BY ZoneAssumption DEF NoState, EntryType
<1> QED  BY <1>1 DEF ZoneInv, ZoneTypeOK, StaysTrue, CacheTrue, ZoneRestart, Idle

LEMMA ZoneInvHolds == ZoneSpec => []ZoneInv
<1>1. ZoneInit => ZoneInv
  <2>1. NoState \in EntryType /\ ~NoState.inside
    BY ZoneAssumption DEF NoState, EntryType
  <2>2. ZoneInit => ZoneTypeOK
    <3>1. Idle \in [pc : {"idle", "count", "write"}, counts : Nat]
      BY DEF Idle
    <3> SUFFICES ASSUME ZoneInit PROVE ZoneTypeOK
      OBVIOUS
    <3>2. state \in [Track -> EntryType]
      BY ONLY <2>1, ZoneInit DEF ZoneInit
    <3>3. batcher \in [Batcher -> [pc : {"idle", "count", "write"}, counts : Nat]]
      BY ONLY <3>1, ZoneInit DEF ZoneInit
    <3>4. stay \in [Track -> StayState]
      BY DEF ZoneInit, StayState
    <3>5. kind \in {"region", "line"} /\ cache \in Nat /\ table \in Nat /\ stale \in BOOLEAN
      BY DEF ZoneInit
    <3> QED  BY ONLY <3>2, <3>3, <3>4, <3>5 DEF ZoneTypeOK
  <2>3. ZoneInit => StaysTrue /\ CacheTrue
    BY <2>1 DEF ZoneInit, StaysTrue, CacheTrue
  <2> QED  BY <2>2, <2>3 DEF ZoneInv
<1>2. ZoneInv /\ [ZoneNext]_zoneVars => ZoneInv'
  <2>1. ZoneInv /\ UNCHANGED zoneVars => ZoneInv'
    BY DEF zoneVars, ZoneInv, ZoneTypeOK, StaysTrue, CacheTrue
  <2> QED  BY <2>1, ObserveKeeps, FlushKeeps, RestartKeeps DEF ZoneNext
<1> QED  BY <1>1, <1>2, PTL DEF ZoneSpec

(* The model's state is well typed. *)
THEOREM ZoneTypes == ZoneSpec => []ZoneTypeOK
BY ZoneInvHolds, PTL DEF ZoneInv

(* No sequence of silent flips, rebirths beside a suppressed track and
   expiries emits an exit or a dwell that nothing opened (zones.rs: process). *)
THEOREM StaysAreWhole == ZoneSpec => []StaysWellFormed
<1>1. ZoneInv => StaysWellFormed
  BY DEF ZoneInv, StaysTrue, StaysWellFormed
<1> QED  BY <1>1, ZoneInvHolds, PTL

(* However flushes overlap, one whose counts are still true leaves them in
   zone_occupancy, but for a restart or a failed statement
   (zones.rs: flush_occupancy). *)
THEOREM FlushesAreExact == ZoneSpec => FlushExact
<1> DEFINE Good == \A p \in Batcher :
             batcher[p].pc = "write" /\ batcher'[p].pc = "idle" /\ state' = state
               /\ batcher[p].counts = Cardinality(Occupants)
             => table' = Cardinality(Occupants) \/ stale'
<1>1. ZoneInv /\ ZoneNext => Good
  <2> SUFFICES ASSUME ZoneInv, ZoneNext, NEW p \in Batcher,
                      batcher[p].pc = "write", batcher'[p].pc = "idle", state' = state,
                      batcher[p].counts = Cardinality(Occupants)
               PROVE  table' = Cardinality(Occupants) \/ stale'
    OBVIOUS
  <2>1. ASSUME NEW q \in Batcher, NEW t \in Track, NEW x \in Point, Observe(q, t, x)
        PROVE  FALSE
    BY <2>1 DEF Observe, Idle, ZoneInv, ZoneTypeOK
  <2>2. ASSUME NEW q \in Batcher, Count(q)
        PROVE  FALSE
    BY <2>2 DEF Count, ZoneInv, ZoneTypeOK
  <2>3. ASSUME NEW q \in Batcher, WriteOccupancy(q)
        PROVE  table' = Cardinality(Occupants) \/ stale'
    <3>1. q = p
      BY <2>3 DEF WriteOccupancy, ZoneInv, ZoneTypeOK
    <3> QED  BY <2>3, <3>1 DEF WriteOccupancy, ZoneInv, CacheTrue
  <2>4. ASSUME ZoneRestart
        PROVE  table' = Cardinality(Occupants) \/ stale'
    <3>1. Occupants = {}
      BY <2>4 DEF ZoneRestart, Occupants, NoState
    <3> QED  BY <2>4, <3>1, FS_EmptySet DEF ZoneRestart
  <2> QED  BY <2>1, <2>2, <2>3, <2>4 DEF ZoneNext
<1>2. ZoneInv /\ [ZoneNext]_zoneVars => [Good]_zoneVars
  BY <1>1
<1>3. ZoneSpec => [][Good]_zoneVars
  BY <1>2, ZoneInvHolds, PTL DEF ZoneSpec
<1> QED  BY <1>3 DEF FlushExact
-----------------------------------------------------------------------------
(* Both, in the composition that is model-checked. *)
LEMMA PartsKeepTheirSpecs == PerceptionSpec => FanSpec /\ ZoneSpec
<1>1. PerceptionInit => FanInit /\ ZoneInit
  BY DEF PerceptionInit
<1>2. [PerceptionNext]_perceptionVars => [FanNext]_fanVars /\ [ZoneNext]_zoneVars
  BY DEF PerceptionNext, perceptionVars
<1> QED  BY <1>1, <1>2, PTL DEF PerceptionSpec, FanSpec, ZoneSpec

(* What was marked fanned and what was announced is complete
   (fanout.rs: drain; zones.rs: process). *)
THEOREM EventsAreComplete ==
  ASSUME Once
  PROVE  PerceptionSpec => []EventsComplete
BY PartsKeepTheirSpecs, FannedIsComplete, StaysAreWhole, PTL DEF EventsComplete

-----------------------------------------------------------------------------
(* Idempotency: keyed requests, any number of them.                        *)

(* Every step keeps the row and the requests in their types. *)
LEMMA TypeStep == TypeOK /\ [Next]_vars => TypeOK'
<1> SUFFICES ASSUME TypeOK, [Next]_vars PROVE TypeOK'
  OBVIOUS
<1> USE IdempotencyAssumption DEF TypeOK
<1> DEFINE RR == [pc : ReqPc, body : Body, reply : Request \cup {None}]
<1>1. ASSUME NEW r \in Request, NEW pc \in ReqPc, Goto(r, pc)
      PROVE  req' \in [Request -> RR]
  BY <1>1 DEF Goto
<1>2. ASSUME NEW r \in Request, NEW q \in Request \cup {None}, Reply(r, q)
      PROVE  req' \in [Request -> RR]
  <2>1. "done" \in ReqPc
    BY DEF ReqPc
  <2> QED BY <1>2, <2>1, ZenonT(60) DEF Reply
<1>3. ASSUME NEW r \in Request, Serve(r) \/ HandlerDies(r) PROVE TypeOK'
  <2>1. req' \in [Request -> RR]
    BY <1>1, <1>2, <1>3 DEF Serve, Arrive, Claim, ReadPrior, HandlerSucceeds, HandlerFails,
       HandlerDies, Store, ReleaseKey, ReqPc
  <2>2. row' \in [by : Request \cup {None}, answer : Request \cup {None}, age : AgeClass]
    BY <1>3 DEF Serve, Arrive, Claim, ReadPrior, HandlerSucceeds, HandlerFails,
       HandlerDies, Store, ReleaseKey, NoRow, AgeClass
  <2>3. effects' \subseteq Request
    BY <1>3 DEF Serve, Arrive, Claim, ReadPrior, HandlerSucceeds, HandlerFails,
       HandlerDies, Store, ReleaseKey
  <2> QED BY <2>1, <2>2, <2>3
<1>4. CASE BecomeStuck \/ Expire \/ Prune
  BY <1>4 DEF BecomeStuck, Expire, Prune, NoRow, AgeClass
<1>5. CASE UNCHANGED vars
  BY <1>5 DEF vars
<1> QED BY <1>3, <1>4, <1>5 DEF Next

-----------------------------------------------------------------------------
(* A request in flight holds the row, its claim is fresh, and a stored
   answer is the claimant's own. *)
ClaimInv ==
  /\ \A r \in Request : InFlight(r) => row.by = r /\ row.answer = None /\ row.age = "fresh"
  /\ \A r \in Request : req[r].pc = "store" => r \in effects
  /\ Answered => row.answer = row.by /\ row.by \in effects

IInv == TypeOK /\ ClaimInv /\ ReplayGenuine

(* It holds initially ... *)
LEMMA IInvInit == Init => IInv
BY IdempotencyAssumption DEF Init, IInv, TypeOK, ClaimInv, ReplayGenuine, NoRow, AgeClass,
   ReqPc, InFlight, Answered

(* ... and no step breaks it, as long as no handler outlives its claim. *)
LEMMA IInvStep ==
  ASSUME "slow" \notin Faults, IInv, [Next]_vars
  PROVE  IInv'
<1> USE IdempotencyAssumption
<1>0. TypeOK /\ TypeOK'
  BY TypeStep DEF IInv
<1>1. ASSUME NEW r \in Request, NEW pc, Goto(r, pc)
      PROVE  /\ \A q \in Request : /\ req'[q].body = req[q].body
                                   /\ req'[q].reply = req[q].reply
             /\ req'[r].pc = pc
             /\ \A q \in Request \ {r} : req'[q] = req[q]
  BY <1>0, <1>1 DEF Goto, TypeOK
<1>2. ASSUME NEW r \in Request, NEW a, Reply(r, a)
      PROVE  /\ \A q \in Request : req'[q].body = req[q].body
             /\ req'[r].pc = "done" /\ req'[r].reply = a
             /\ \A q \in Request \ {r} : req'[q] = req[q]
  BY <1>0, <1>2 DEF Reply, TypeOK
<1>3. ASSUME NEW r \in Request, Serve(r) \/ HandlerDies(r) PROVE ClaimInv'
  <2>1. CASE Arrive(r)
    BY <1>1, <2>1 DEF Arrive, IInv, ClaimInv, InFlight, Answered
  <2>2. CASE Claim(r)
    <3>1. CASE Absent /\ row' = [by |-> r, answer |-> None, age |-> "fresh"] /\ Goto(r, "running")
      BY <1>0, <1>1, <2>2, <3>1 DEF Claim, IInv, ClaimInv, InFlight, Answered, Absent
    <3>2. CASE Goto(r, "refused") /\ UNCHANGED row
      BY <1>1, <2>2, <3>2 DEF Claim, IInv, ClaimInv, InFlight, Answered
    <3> QED BY <2>2, <3>1, <3>2 DEF Claim
  <2>3. CASE ReadPrior(r)
    BY <1>2, <2>3 DEF ReadPrior, IInv, ClaimInv, InFlight, Answered
  <2>4. CASE HandlerSucceeds(r) \/ HandlerFails(r)
    BY <1>1, <2>4 DEF HandlerSucceeds, HandlerFails, IInv, ClaimInv, InFlight, Answered
  <2>5. CASE Store(r)
    <3>1. row.by = r /\ row.answer = None /\ r \in effects /\ row.age = "fresh"
      BY <2>5 DEF Store, IInv, ClaimInv, InFlight
    <3>2. \A q \in Request : req'[q].pc # "store" /\ ~InFlight(q)'
      BY <1>2, <2>5, <3>1 DEF Store, IInv, ClaimInv, InFlight
    <3>3. row' = [row EXCEPT !.answer = r] \/ row' = row
      BY <2>5, <3>1 DEF Store, Absent
    <3>4. row'.by = r /\ row'.answer \in {r, None}
      BY <1>0, <3>1, <3>3 DEF TypeOK
    <3> QED BY <2>5, <3>1, <3>2, <3>4 DEF Store, ClaimInv, Answered
  <2>6. CASE ReleaseKey(r)
    <3>1. row.by = r /\ row.answer = None
      BY <2>6 DEF ReleaseKey, IInv, ClaimInv, InFlight
    <3>2. \A q \in Request : req'[q].pc # "store" /\ ~InFlight(q)'
      BY <1>2, <2>6, <3>1 DEF ReleaseKey, IInv, ClaimInv, InFlight
    <3>3. row'.answer = None
      BY <2>6, <3>1 DEF ReleaseKey, NoRow
    <3> QED BY <3>2, <3>3 DEF ClaimInv, Answered
  <2>7. CASE HandlerDies(r)
    BY <1>1, <2>7 DEF HandlerDies, IInv, ClaimInv, InFlight, Answered
  <2> QED BY <1>3, <2>1, <2>2, <2>3, <2>4, <2>5, <2>6, <2>7 DEF Serve
<1>4. ASSUME NEW r \in Request, Serve(r) \/ HandlerDies(r) PROVE ReplayGenuine'
  <2>1. effects \subseteq effects'
    BY <1>4 DEF Serve, Arrive, Claim, ReadPrior, HandlerSucceeds, HandlerFails, Store,
       ReleaseKey, HandlerDies
  <2>2. ASSUME NEW pc, Goto(r, pc) PROVE ReplayGenuine'
    BY <1>0, <1>1, <2>1, <2>2 DEF IInv, ReplayGenuine, TypeOK
  <2>3. ASSUME NEW a \in Request \cup {None}, Reply(r, a),
               a \in Request \ {r} => a \in effects /\ req[a].body = req[r].body
        PROVE  ReplayGenuine'
    <3>1. req'[r].reply = a /\ \A q \in Request : req'[q].body = req[q].body
      BY <1>2, <2>3
    <3>2. \A q \in Request \ {r} : req'[q].reply = req[q].reply
      BY <1>2, <2>3
    <3>3. \A q \in Request : req[q].reply \in Request \cup {None}
      BY <1>0 DEF TypeOK
    <3> QED BY <2>1, <2>3, <3>1, <3>2, <3>3 DEF IInv, ReplayGenuine
  <2>4. CASE ReadPrior(r)
    <3>1. PICK a \in Request \cup {None} :
             Reply(r, a) /\ (a = None \/ (Answered /\ req[row.by].body = req[r].body /\ a = row.answer))
      BY <1>0, <2>4 DEF ReadPrior, TypeOK, Answered
    <3> QED BY <2>3, <3>1 DEF IInv, ClaimInv
  <2>5. CASE Store(r) \/ ReleaseKey(r)
    BY <2>3, <2>5 DEF Store, ReleaseKey
  <2> QED BY <1>4, <2>2, <2>4, <2>5 DEF Serve, Arrive, Claim, HandlerSucceeds, HandlerFails,
          HandlerDies
<1>5. CASE BecomeStuck \/ Expire \/ Prune
  <2>1. ReplayGenuine'
    BY <1>5 DEF BecomeStuck, Expire, Prune, IInv, ReplayGenuine
  <2>2. CASE BecomeStuck
    <3>1. \A r \in Request : ~InFlight(r)
      BY <2>2 DEF BecomeStuck, IInv, ClaimInv
    <3>2. row'.by = row.by /\ row'.answer = row.answer
      BY <1>0, <2>2 DEF BecomeStuck, TypeOK
    <3> QED BY <2>1, <2>2, <3>1, <3>2, <1>0 DEF BecomeStuck, IInv, ClaimInv, InFlight, Answered
  <2>3. CASE Expire
    <3>1. \A r \in Request : ~InFlight(r)
      BY <2>3 DEF Expire, IInv, ClaimInv, Answered
    <3>2. row'.by = row.by /\ row'.answer = row.answer
      BY <1>0, <2>3 DEF Expire, TypeOK
    <3> QED BY <2>1, <2>3, <3>1, <3>2, <1>0 DEF Expire, IInv, ClaimInv, InFlight, Answered
  <2>4. CASE Prune
    <3>1. \A r \in Request : ~InFlight(r)
      BY <2>4 DEF Prune, IInv, ClaimInv
    <3> QED BY <2>1, <2>4, <3>1, <1>0 DEF Prune, IInv, ClaimInv, InFlight, Answered, NoRow
  <2> QED BY <1>5, <2>2, <2>3, <2>4
<1>6. CASE UNCHANGED vars
  BY <1>0, <1>6 DEF vars, IInv, ClaimInv, ReplayGenuine, InFlight, Answered
<1> QED BY <1>0, <1>3, <1>4, <1>5, <1>6 DEF Next, IInv

-----------------------------------------------------------------------------
(* The key works as documented for any number of concurrent duplicates, also
   when handlers die and the writes of the key fail, provided no handler
   runs for longer than STUCK_CLAIM_MINUTES: at most one handler runs and
   none while an answer is stored. *)
THEOREM OneHandler ==
  ASSUME "slow" \notin Faults
  PROVE  Spec => []HandlerExclusive
<1>1. IInv => HandlerExclusive
  BY DEF IInv, ClaimInv, HandlerExclusive, InFlight, Answered
<1> QED BY <1>1, IInvInit, IInvStep, PTL DEF Spec

(* Under the same condition a replay answers the same question. *)
THEOREM GenuineReplay ==
  ASSUME "slow" \notin Faults
  PROVE  Spec => []ReplayGenuine
<1>1. IInv => ReplayGenuine
  BY DEF IInv
<1> QED BY <1>1, IInvInit, IInvStep, PTL DEF Spec

(* And release_key drops no claim but the caller's. *)
THEOREM OwnRelease ==
  ASSUME "slow" \notin Faults
  PROVE  Spec => ReleasesOwnClaim
<1>1. IInv /\ [Next]_vars =>
        [\A r \in Request : req[r].pc = "release" /\ req'[r].pc = "done" =>
            row' = row \/ row.by = r]_vars
  BY DEF IInv, ClaimInv, InFlight
<1> QED BY <1>1, IInvInit, IInvStep, PTL DEF Spec, ReleasesOwnClaim
=============================================================================
