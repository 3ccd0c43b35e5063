------------------------------- MODULE Webhooks -------------------------------
(***************************************************************************)
(* Webhook delivery (webhooks.rs) to one subscription: the events table    *)
(* and its writers, the persisted cursor, the delivery ledger, the engine's *)
(* cycle and the receiving endpoint.  The subscriptions of a box share     *)
(* nothing but the engine's turn, so one stands for each of them.          *)
(***************************************************************************)
EXTENDS Naturals, FiniteSets, TLAPS

CONSTANTS Event,        \* events that can be logged
          Loud,         \* those at or above min_severity
          Match,        \* those the event-type filter selects
          None,         \* no cursor yet, no result yet
          BATCH,        \* events fetched at a time
          MAX_ATTEMPTS, \* failures after which an event is given up on
          MaxMishaps,   \* bound: cycles cut short and ledger statements that fail
          Faults        \* the environment events of this instance

FaultKinds ==
  { "late_insert",   \* an event is inserted after one with a later created_at
    "tie" }          \* two events have the same created_at

ASSUME WebhookAssumption ==
  /\ Loud \subseteq Event /\ Match \subseteq Event
  /\ None \notin Nat
  /\ BATCH \in Nat \ {0} /\ MAX_ATTEMPTS \in Nat \ {0} /\ MaxMishaps \in Nat
  /\ Faults \subseteq FaultKinds

VARIABLES
  clock,   \* the last created_at handed out
  ev,      \* ev[e]: the event's row, or the writer that is about to insert it
  sub,     \* the subscription: its switch, its key, its cursor, where it began
  eng,     \* the engine: its cycle's copy of the cursor, the batch in hand
  fails,   \* fails[e]: 'failed' rows of the ledger
  got,     \* events the endpoint has received
  mishaps

vars == <<clock, ev, sub, eng, fails, got, mishaps>>

Time == Nat \cup {None}
Idle == [pc |-> "idle", cur |-> 0, todo |-> {}, full |-> FALSE, adv |-> FALSE,
         attempt |-> 0, ok |-> FALSE]

TypeOK ==
  /\ clock \in Nat /\ mishaps \in Nat
  /\ ev \in [Event -> [pc : {"none", "stamped", "stored"}, at : Nat]]
  /\ sub \in [enabled : BOOLEAN, usable : BOOLEAN, cursor : Time, since : Time]
  /\ eng \in [pc : {"idle", "fetch", "batch", "sent"}, cur : Nat, todo : SUBSET Event,
              full : BOOLEAN, adv : BOOLEAN, attempt : Nat, ok : BOOLEAN]
  /\ fails \in [Event -> Nat]
  /\ got \subseteq Event

Init ==
  /\ clock = 0
  /\ ev = [e \in Event |-> [pc |-> "none", at |-> 0]]
  /\ \E c \in {0, None} : sub = [enabled |-> TRUE, usable |-> TRUE, cursor |-> c, since |-> c]
  /\ eng = Idle
  /\ fails = [e \in Event |-> 0]
  /\ got = {}
  /\ mishaps = 0

Stored  == {e \in Event : ev[e].pc = "stored"}
Stamped == {e \in Event : ev[e].pc = "stamped"}

-----------------------------------------------------------------------------
(* log_event reads the clock and then inserts the row. *)
Stamp(e) ==
  /\ ev[e].pc = "none"
  /\ \E t \in {clock, clock + 1} :
       /\ t = clock => "tie" \in Faults
       /\ clock' = t
       /\ ev' = [ev EXCEPT ![e] = [pc |-> "stamped", at |-> t]]
  /\ UNCHANGED <<sub, eng, fails, got, mishaps>>

InOrderInsert(e) == \A f \in Stamped : ev[e].at <= ev[f].at

Insert(e) ==
  /\ ev[e].pc = "stamped"
  /\ "late_insert" \in Faults \/ InOrderInsert(e)
  /\ ev' = [ev EXCEPT ![e].pc = "stored"]
  /\ UNCHANGED <<clock, sub, eng, fails, got, mishaps>>

(* The operator switches the subscription on or off, or the secret key under
   it is lost or fixed.  The engine works on the copy it loaded. *)
Update ==
  /\ \E f \in {"enabled", "usable"} : sub' = [sub EXCEPT ![f] = ~@]
  /\ UNCHANGED <<clock, ev, eng, fails, got, mishaps>>

-----------------------------------------------------------------------------
(* A cycle begins with an enabled subscription.  Without a cursor it starts
   at the present; with a key that will not unseal it halts, which leaves
   this state as it is (the ledger row has no event id, and the critical
   event it raises is one more event). *)
FirstCursor ==
  /\ eng.pc = "idle" /\ sub.enabled /\ sub.cursor = None
  /\ sub' = [sub EXCEPT !.cursor = clock, !.since = clock]
  /\ UNCHANGED <<clock, ev, eng, fails, got, mishaps>>

CycleStart ==
  /\ eng.pc = "idle" /\ sub.enabled /\ sub.usable /\ sub.cursor # None
  /\ eng' = [Idle EXCEPT !.pc = "fetch", !.cur = sub.cursor]
  /\ UNCHANGED <<clock, ev, sub, fails, got, mishaps>>

(* The lowest BATCH of the rows above the cursor, in any order of ties. *)
IsBatch(B, rows) ==
  /\ B \subseteq rows
  /\ Cardinality(B) <= BATCH
  /\ B = rows \/ Cardinality(B) = BATCH
  /\ \A e \in B, f \in rows \ B : ev[e].at <= ev[f].at

(* Mutant of Fetch: the rows come in no particular order. *)
Fetch_Unordered ==
  LET rows == {e \in Stored \cap Loud : ev[e].at > eng.cur} IN
  /\ eng.pc = "fetch" /\ rows # {}
  /\ \E B \in SUBSET rows :
       /\ B # {} /\ Cardinality(B) <= BATCH
       /\ eng' = [eng EXCEPT !.pc = "batch", !.todo = B, !.full = Cardinality(B) = BATCH, !.adv = FALSE]
  /\ UNCHANGED <<clock, ev, sub, fails, got, mishaps>>

Fetch ==
  LET rows == {e \in Stored \cap Loud : ev[e].at > eng.cur} IN
  /\ eng.pc = "fetch" /\ rows # {}
  /\ \E B \in SUBSET rows :
       /\ IsBatch(B, rows)
       /\ eng' = [eng EXCEPT !.pc = "batch", !.todo = B, !.full = Cardinality(B) = BATCH, !.adv = FALSE]
  /\ UNCHANGED <<clock, ev, sub, fails, got, mishaps>>

FetchEmpty ==
  /\ eng.pc = "fetch" /\ \A e \in Stored \cap Loud : ev[e].at <= eng.cur
  /\ eng' = Idle
  /\ UNCHANGED <<clock, ev, sub, fails, got, mishaps>>

Head(e) == e \in eng.todo /\ \A f \in eng.todo : ev[e].at <= ev[f].at

(* Past an event: the cycle's cursor moves, nothing is persisted yet. *)
Past(e) == [eng EXCEPT !.pc = "batch", !.cur = ev[e].at, !.todo = @ \ {e}, !.adv = TRUE]

Skip(e) ==
  /\ eng.pc = "batch" /\ Head(e) /\ e \notin Match
  /\ eng' = Past(e)
  /\ UNCHANGED <<clock, ev, sub, fails, got, mishaps>>

(* try_deliver: count the failures on record, POST.  The endpoint may get
   the event and the answer still be lost or an error. *)
Send(e) ==
  /\ eng.pc = "batch" /\ Head(e) /\ e \in Match
  /\ \E prior \in {fails[e], 0}, ok \in BOOLEAN, reached \in BOOLEAN :
       /\ ok => reached
       /\ prior # fails[e] => mishaps < MaxMishaps
       /\ mishaps' = IF prior = fails[e] THEN mishaps ELSE mishaps + 1
       /\ got' = IF reached THEN got \cup {e} ELSE got
       /\ eng' = [eng EXCEPT !.pc = "sent", !.attempt = prior + 1, !.ok = ok]
  /\ UNCHANGED <<clock, ev, sub, fails>>

(* The attempt is recorded, best effort, and the cursor moves past the event
   or the cycle ends on it with what came before persisted. *)
Record(e, written) ==
  /\ eng.pc = "sent" /\ Head(e)
  /\ written \/ mishaps < MaxMishaps
  /\ mishaps' = IF written THEN mishaps ELSE mishaps + 1
  /\ fails' = IF written /\ ~eng.ok THEN [fails EXCEPT ![e] = @ + 1] ELSE fails
  /\ UNCHANGED <<clock, ev, got>>

Advance(e, written) ==
  /\ Record(e, written)
  /\ eng.ok \/ eng.attempt >= MAX_ATTEMPTS
  /\ eng' = Past(e)
  /\ UNCHANGED sub

(* Mutant of Retry: the cursor is saved past the event it stopped at. *)
Retry_SavesHead(e, written) ==
  /\ Record(e, written)
  /\ ~eng.ok /\ eng.attempt < MAX_ATTEMPTS
  /\ eng' = Idle
  /\ sub' = IF eng.adv THEN [sub EXCEPT !.cursor = ev[e].at] ELSE sub

Retry(e, written) ==
  /\ Record(e, written)
  /\ ~eng.ok /\ eng.attempt < MAX_ATTEMPTS
  /\ eng' = Idle
  /\ sub' = IF eng.adv THEN [sub EXCEPT !.cursor = eng.cur] ELSE sub

(* Mutant of BatchEnd: the last, short batch is not persisted. *)
BatchEnd_FullOnly ==
  /\ eng.pc = "batch" /\ eng.todo = {}
  /\ sub' = IF eng.full THEN [sub EXCEPT !.cursor = eng.cur] ELSE sub
  /\ eng' = IF eng.full THEN [eng EXCEPT !.pc = "fetch"] ELSE Idle
  /\ UNCHANGED <<clock, ev, fails, got, mishaps>>

BatchEnd ==
  /\ eng.pc = "batch" /\ eng.todo = {}
  /\ sub' = IF eng.adv THEN [sub EXCEPT !.cursor = eng.cur] ELSE sub
  /\ eng' = IF eng.full THEN [eng EXCEPT !.pc = "fetch"] ELSE Idle
  /\ UNCHANGED <<clock, ev, fails, got, mishaps>>

(* A statement of the cycle fails, or the process restarts in the middle of
   it: what is not persisted is forgotten. *)
CycleAborts ==
  /\ eng.pc # "idle" /\ mishaps < MaxMishaps
  /\ mishaps' = mishaps + 1
  /\ eng' = Idle
  /\ UNCHANGED <<clock, ev, sub, fails, got>>

Cycle == \/ FirstCursor \/ CycleStart \/ Fetch \/ FetchEmpty \/ BatchEnd
         \/ \E e \in Event : \/ Skip(e) \/ Send(e)
                             \/ \E written \in BOOLEAN : Advance(e, written) \/ Retry(e, written)

Next == \/ Cycle \/ CycleAborts \/ Update
        \/ \E e \in Event : Stamp(e) \/ Insert(e)

Spec == Init /\ [][Next]_vars

(* The engine's loop never returns, and a writer that read the clock inserts
   its row. *)
FairSpec == Spec /\ WF_vars(Cycle) /\ WF_vars(\E e \in Event : Insert(e))

-----------------------------------------------------------------------------
Wanted == {e \in Stored \cap Loud \cap Match : sub.since # None /\ ev[e].at > sub.since}

Passed(e) == sub.cursor # None /\ ev[e].at <= sub.cursor

(* Received, or given up on; the last failure may not be on record. *)
Settled(e) == e \in got \/ fails[e] >= MAX_ATTEMPTS - 1

(* The persisted cursor never passes an event that was neither received nor
   tried to the limit: every subscription is an at-least-once deliverer
   (webhooks.rs deliver_subscription and fetch_events). *)
NothingSkipped == \A e \in Wanted : Passed(e) => Settled(e)

(* An event is sent only when every earlier one has been settled, also after
   retries, restarts and filter mismatches (webhooks.rs try_deliver). *)
InOrder ==
  [][\A e \in got' \ got : \A f \in Wanted : ev[f].at < ev[e].at => Settled(f)]_vars

(* One bad endpoint cannot wedge the queue: with the subscription enabled and
   its key usable from some time on, the cursor passes every event, whatever
   the endpoint answers (webhooks.rs run, MAX_ATTEMPTS). *)
NeverWedged ==
  <>[](sub.enabled /\ sub.usable) =>
     \A e \in Event : e \in Wanted ~> Passed(e)

-----------------------------------------------------------------------------
(* Proofs: nothing is skipped and the order is kept, for any number of     *)
(* events, any batch size, any attempt limit and any number of mishaps.    *)

(* The writers stamp different times and insert in their order: the faults
   that break this, "tie" and "late_insert", do lose events. *)
Orderly == Faults = {}

Known(e) == ev[e].pc # "none"

(* Times are handed out once, and rows appear in their order. *)
Times ==
  /\ \A e \in Event : Known(e) => ev[e].at <= clock
  /\ \A e, f \in Event : Known(e) /\ Known(f) /\ ev[e].at = ev[f].at => e = f
  /\ \A e \in Stored, f \in Stamped : ev[e].at < ev[f].at

(* Nothing the subscription wants is left behind a cursor at x: no row is
   still to appear there, and every wanted one is settled. *)
Behind(x) ==
  \A e \in Event :
    Known(e) /\ ev[e].at > sub.since /\ ev[e].at <= x =>
      e \in Stored /\ (e \in Loud \cap Match => Settled(e))

Cursors ==
  /\ sub.cursor = None <=> sub.since = None
  /\ sub.cursor # None => sub.cursor <= clock /\ Behind(sub.cursor)
  /\ eng.pc # "idle" => sub.cursor # None /\ eng.cur <= clock /\ Behind(eng.cur)

(* The batch in hand holds every row between the cycle's cursor and any of
   its events. *)
BatchFull ==
  eng.pc \in {"batch", "sent"} =>
    \A e \in eng.todo :
      /\ e \in Stored /\ ev[e].at > eng.cur
      /\ \A f \in Stored \cap Loud : ev[f].at > eng.cur /\ ev[f].at <= ev[e].at => f \in eng.todo

(* The outcome of an attempt is what the endpoint and the ledger know. *)
Outcome ==
  eng.pc = "sent" =>
    \A e \in Event : Head(e) => /\ eng.ok => e \in got
                                /\ eng.attempt <= fails[e] + 1

IInv == TypeOK /\ Times /\ Cursors /\ BatchFull /\ Outcome
EventType == [pc : {"none", "stamped", "stored"}, at : Nat]
SubType   == [enabled : BOOLEAN, usable : BOOLEAN, cursor : Time, since : Time]
EngType   == [pc : {"idle", "fetch", "batch", "sent"}, cur : Nat, todo : SUBSET Event,
              full : BOOLEAN, adv : BOOLEAN, attempt : Nat, ok : BOOLEAN]

-----------------------------------------------------------------------------
(* The next cycle step, by action. *)
CycleCases == \/ FirstCursor \/ CycleStart \/ Fetch \/ FetchEmpty \/ BatchEnd
              \/ \E e \in Event : Skip(e)
              \/ \E e \in Event : Send(e)
              \/ \E e \in Event, w \in BOOLEAN : Advance(e, w)
              \/ \E e \in Event, w \in BOOLEAN : Retry(e, w)

LEMMA ByAction == Next => \/ CycleCases \/ CycleAborts \/ Update
                          \/ \E e \in Event : Stamp(e)
                          \/ \E e \in Event : Insert(e)
BY DEF Next, Cycle, CycleCases

(* The cycle with a batch in hand. *)
Fetched(B, full) == [eng EXCEPT !.pc = "batch", !.todo = B, !.full = full, !.adv = FALSE]

(* What a fetch takes: the lowest rows above the cycle's cursor. *)
LEMMA FetchStep ==
  ASSUME Fetch
  PROVE  /\ \E B \in SUBSET Event, full \in BOOLEAN :
              /\ eng' = Fetched(B, full)
              /\ \A e \in B : e \in Stored \cap Loud /\ ev[e].at > eng.cur
              /\ \A e \in B, f \in (Stored \cap Loud) \ B :
                   ev[f].at > eng.cur => ev[e].at <= ev[f].at
         /\ eng.pc = "fetch"
         /\ UNCHANGED <<clock, ev, sub, fails, got, mishaps>>
<1> DEFINE rows == {e \in Stored \cap Loud : ev[e].at > eng.cur}
<1>1. PICK B \in SUBSET rows : IsBatch(B, rows) /\ eng' = Fetched(B, Cardinality(B) = BATCH)
  BY DEF Fetch, Fetched
<1>2. B \in SUBSET Event
  BY DEF Stored
<1>3. \A e \in B, f \in rows \ B : ev[e].at <= ev[f].at
  BY <1>1 DEF IsBatch
<1>4. (Cardinality(B) = BATCH) \in BOOLEAN
  OBVIOUS
<1>5. eng.pc = "fetch" /\ UNCHANGED <<clock, ev, sub, fails, got, mishaps>>
  BY DEF Fetch
<1>6. \E full \in BOOLEAN : eng' = Fetched(B, full)
  BY <1>1, <1>4, Zenon
<1> QED BY <1>2, <1>3, <1>5, <1>6

(* Every step keeps the variables in their types. *)
LEMMA TypeStep == TypeOK /\ [Next]_vars => TypeOK'
<1> SUFFICES ASSUME TypeOK, [Next]_vars PROVE TypeOK'
  OBVIOUS
<1> USE WebhookAssumption DEF TypeOK
<1>0. /\ ev \in [Event -> EventType] /\ sub \in SubType /\ eng \in EngType
      /\ Idle \in EngType
  BY DEF EventType, SubType, EngType, Idle
<1>1. ASSUME NEW e \in Event, Stamp(e) PROVE TypeOK'
  <2>1. ev' \in [Event -> EventType]
    BY <1>0, <1>1 DEF Stamp, EventType
  <2>2. clock' \in Nat
    BY <1>1 DEF Stamp
  <2> QED BY <1>1, <2>1, <2>2 DEF Stamp, EventType
<1>2. ASSUME NEW e \in Event, Insert(e) PROVE TypeOK'
  <2>1. ev' \in [Event -> EventType]
    BY <1>0, <1>2 DEF Insert, EventType
  <2> QED BY <1>2, <2>1 DEF Insert, EventType
<1>3. CASE Update \/ FirstCursor
  <2>1. sub' \in SubType
    BY <1>0, <1>3 DEF Update, FirstCursor, SubType, Time
  <2> QED BY <1>3, <2>1 DEF Update, FirstCursor, SubType
<1>4. CASE CycleStart
  <2>1. eng' \in EngType
    BY <1>0, <1>4 DEF CycleStart, EngType, SubType, Time
  <2> QED BY <1>4, <2>1 DEF CycleStart, EngType
<1>5. CASE FetchEmpty \/ CycleAborts
  <2>1. eng' \in EngType
    BY <1>0, <1>5 DEF FetchEmpty, CycleAborts
  <2>2. mishaps' \in Nat
    BY <1>5 DEF FetchEmpty, CycleAborts
  <2> QED BY <1>5, <2>1, <2>2 DEF FetchEmpty, CycleAborts, EngType
<1>11. CASE Fetch
  <2>1. PICK B \in SUBSET Event, full \in BOOLEAN : eng' = Fetched(B, full)
    BY <1>11, FetchStep
  <2>2. eng' \in EngType
    BY <1>0, <2>1 DEF Fetched, EngType
  <2>3. UNCHANGED <<clock, ev, sub, fails, got, mishaps>>
    BY <1>11, FetchStep
  <2> QED BY <2>2, <2>3 DEF EngType
<1>6. CASE BatchEnd
  <2>1. eng' \in EngType /\ sub' \in SubType
    BY <1>0, <1>6 DEF BatchEnd, EngType, SubType, Time
  <2> QED BY <1>6, <2>1 DEF BatchEnd, EngType, SubType
<1>7. ASSUME NEW e \in Event, Skip(e) PROVE TypeOK'
  <2>1. eng' \in EngType
    BY <1>0, <1>7 DEF Skip, Past, EngType, EventType
  <2> QED BY <1>7, <2>1 DEF Skip, EngType
<1>8. ASSUME NEW e \in Event, Send(e) PROVE TypeOK'
  <2>1. eng' \in EngType
    <3>1. PICK prior \in {fails[e], 0}, ok \in BOOLEAN :
            eng' = [eng EXCEPT !.pc = "sent", !.attempt = prior + 1, !.ok = ok]
      BY <1>8 DEF Send
    <3>2. prior + 1 \in Nat
      OBVIOUS
    <3> QED BY <1>0, <3>1, <3>2 DEF EngType
  <2>2. got' \subseteq Event /\ mishaps' \in Nat
    BY <1>8 DEF Send
  <2> QED BY <1>8, <2>1, <2>2 DEF Send, EngType
<1>9. ASSUME NEW e \in Event, NEW w \in BOOLEAN, Advance(e, w) \/ Retry(e, w) PROVE TypeOK'
  <2>0. Past(e) \in EngType
    BY <1>0 DEF Past, EngType, EventType
  <2>1. eng' \in EngType
    BY <1>0, <1>9, <2>0 DEF Advance, Retry
  <2>2. sub' \in SubType
    BY <1>0, <1>9 DEF Advance, Retry, EngType, SubType, Time
  <2>3. fails' \in [Event -> Nat] /\ mishaps' \in Nat
    BY <1>9 DEF Advance, Retry, Record
  <2> QED BY <1>9, <2>1, <2>2, <2>3 DEF Advance, Retry, Record, EngType, SubType
<1>10. CASE UNCHANGED vars
  BY <1>10 DEF vars
<1> QED BY <1>1, <1>2, <1>3, <1>4, <1>5, <1>6, <1>7, <1>8, <1>9, <1>10, <1>11, ByAction
        DEF CycleCases

-----------------------------------------------------------------------------
(* What is settled stays settled, and no step but a writer's touches a row. *)
LEMMA SettledStays ==
  ASSUME TypeOK, [Next]_vars, NEW e \in Event, Settled(e)
  PROVE  Settled(e)'
<1> USE WebhookAssumption DEF TypeOK, Settled
<1>1. ASSUME NEW f \in Event, NEW w \in BOOLEAN, Advance(f, w) \/ Retry(f, w) PROVE Settled(e)'
  BY <1>1 DEF Advance, Retry, Record
<1>2. ASSUME NEW f \in Event, Send(f) PROVE Settled(e)'
  BY <1>2 DEF Send
<1>3. CASE UNCHANGED <<fails, got>>
  BY <1>3
<1> QED BY <1>1, <1>2, <1>3, ByAction DEF CycleCases, FirstCursor, CycleStart, Fetch, FetchEmpty,
        BatchEnd, Skip, CycleAborts, Update, Stamp, Insert, vars

LEMMA TimesStep ==
  ASSUME Orderly, TypeOK, Times, [Next]_vars
  PROVE  Times'
<1> USE DEF TypeOK, Times, Known, Stored, Stamped
<1>1. ASSUME NEW e \in Event, Stamp(e) PROVE Times'
  <2>1. clock' = clock + 1 /\ ev' = [ev EXCEPT ![e] = [pc |-> "stamped", at |-> clock + 1]]
    BY <1>1 DEF Stamp, Orderly
  <2> QED BY <1>1, <2>1 DEF Stamp
<1>2. ASSUME NEW e \in Event, Insert(e) PROVE Times'
  <2>1. \A f \in Event : ev'[f].at = ev[f].at /\ (Known(f)' <=> Known(f))
    BY <1>2 DEF Insert
  <2>2. ASSUME NEW f \in Stored', NEW g \in Stamped' PROVE ev[f].at < ev[g].at
    <3>1. g \in Stamped /\ g # e
      BY <1>2, <2>2 DEF Insert
    <3>2. CASE f = e
      <4>1. e \in Stamped /\ ev[e].at <= ev[g].at
        BY <1>2, <3>1 DEF Insert, InOrderInsert, Orderly
      <4>2. ev[e].at # ev[g].at
        BY <3>1, <4>1
      <4> QED BY <3>2, <4>1, <4>2
    <3>3. CASE f # e
      BY <1>2, <2>2, <3>1, <3>3 DEF Insert
    <3> QED BY <3>2, <3>3
  <2> QED BY <1>2, <2>1, <2>2 DEF Insert
<1>3. CASE UNCHANGED <<clock, ev>>
  BY <1>3
<1> QED BY <1>1, <1>2, <1>3, ByAction DEF CycleCases, FirstCursor, CycleStart, Fetch, FetchEmpty,
        BatchEnd, Skip, Send, Advance, Retry, Record, CycleAborts, Update, vars

-----------------------------------------------------------------------------
(* Rows change only by a writer, and what is behind a cursor stays behind it. *)
LEMMA BehindStays ==
  ASSUME Orderly, TypeOK, Times, [Next]_vars, UNCHANGED sub.since, sub.since \in Nat,
         NEW x \in Nat, x <= clock, Behind(x)
  PROVE  Behind(x)' /\ x <= clock'
<1> USE DEF TypeOK
<1>1. ASSUME NEW e \in Event, Known(e)', ev'[e].at > sub.since, ev'[e].at <= x
      PROVE  Known(e) /\ ev'[e].at = ev[e].at
  <2>1. ASSUME NEW f \in Event, Stamp(f) PROVE Known(e) /\ ev'[e].at = ev[e].at
    <3>1. ev' = [ev EXCEPT ![f] = [pc |-> "stamped", at |-> clock + 1]]
      BY <2>1 DEF Stamp, Orderly
    <3>2. e # f
      BY <1>1, <3>1
    <3> QED BY <1>1, <3>1, <3>2 DEF Known
  <2>2. ASSUME NEW f \in Event, Insert(f) PROVE Known(e) /\ ev'[e].at = ev[e].at
    BY <1>1, <2>2 DEF Insert, Known
  <2>3. CASE UNCHANGED ev
    BY <1>1, <2>3 DEF Known
  <2> QED BY <2>1, <2>2, <2>3, ByAction DEF CycleCases, FirstCursor, CycleStart, Fetch,
          FetchEmpty, BatchEnd, Skip, Send, Advance, Retry, Record, CycleAborts, Update, vars
<1>2. ASSUME NEW e \in Stored PROVE e \in Stored'
  BY <1>2, ByAction DEF Stored, CycleCases, FirstCursor, CycleStart, Fetch, FetchEmpty, BatchEnd,
     Skip, Send, Advance, Retry, Record, CycleAborts, Update, Stamp, Insert, vars
<1>3. clock <= clock'
  <2>1. ASSUME NEW f \in Event, Stamp(f) PROVE clock <= clock'
    BY <2>1 DEF Stamp
  <2>2. clock' = clock => clock <= clock'
    OBVIOUS
  <2> QED BY <2>1, <2>2, FetchStep, ByAction DEF CycleCases, FirstCursor, CycleStart, FetchEmpty,
          BatchEnd, Skip, Send, Advance, Retry, Record, CycleAborts, Update, Insert, vars
<1>4. Behind(x)'
  <2> SUFFICES ASSUME NEW e \in Event, Known(e)', ev'[e].at > sub.since, ev'[e].at <= x
               PROVE  e \in Stored' /\ (e \in Loud \cap Match => Settled(e)')
    BY DEF Behind
  <2>1. e \in Stored /\ (e \in Loud \cap Match => Settled(e))
    BY <1>1 DEF Behind
  <2> QED BY <1>2, <2>1, SettledStays
<1>5. clock \in Nat /\ clock' \in Nat
  BY TypeStep
<1> QED BY <1>3, <1>4, <1>5

(* Moving past a settled or unwanted head of the batch leaves nothing behind. *)
LEMMA PastHead ==
  ASSUME IInv, eng.pc \in {"batch", "sent"}, NEW e \in Event, Head(e), e \in Match => Settled(e)
  PROVE  Behind(ev[e].at) /\ ev[e].at <= clock /\ ev[e].at \in Nat
<1> USE DEF IInv, TypeOK
<1>1. /\ e \in Stored /\ ev[e].at > eng.cur
      /\ \A f \in Stored \cap Loud : ev[f].at > eng.cur /\ ev[f].at <= ev[e].at => f \in eng.todo
  BY DEF BatchFull, Head
<1>2. ASSUME NEW f \in Event, Known(f), ev[f].at > sub.since, ev[f].at <= ev[e].at
      PROVE  f \in Stored /\ (f \in Loud \cap Match => Settled(f))
  <2>1. f \in Stored
    BY <1>1, <1>2 DEF Times, Known, Stored, Stamped
  <2>2. CASE ev[f].at <= eng.cur
    BY <1>2, <2>2 DEF Cursors, Behind
  <2>3. ASSUME ev[f].at > eng.cur, f \in Loud \cap Match PROVE Settled(f)
    <3>1. f \in eng.todo
      BY <1>1, <1>2, <2>1, <2>3
    <3>2. ev[f].at = ev[e].at
      BY <1>2, <3>1 DEF Head
    <3>3. f = e
      BY <1>1, <1>2, <3>2 DEF Times, Known, Stored
    <3> QED BY <2>3, <3>3
  <2> QED BY <2>1, <2>2, <2>3
<1> QED BY <1>1, <1>2 DEF Behind, Times, Known, Stored

(* The head that was sent and is moved past was received or tried to the limit. *)
LEMMA AdvanceSettled ==
  ASSUME IInv, NEW e \in Event, Head(e), eng.pc = "sent", eng.ok \/ eng.attempt >= MAX_ATTEMPTS
  PROVE  Settled(e)
BY WebhookAssumption DEF IInv, TypeOK, Outcome, Settled

LEMMA CursorsStep ==
  ASSUME Orderly, IInv, [Next]_vars
  PROVE  Cursors'
<1> USE DEF IInv
<1> /\ sub \in SubType /\ eng \in EngType /\ clock \in Nat /\ None \notin Nat
  BY WebhookAssumption DEF TypeOK, SubType, EngType
<1>1. CASE FirstCursor
  <2>1. /\ sub'.cursor = clock /\ sub'.since = clock /\ clock' = clock /\ eng'.pc = "idle"
        /\ ev' = ev
    BY <1>1 DEF FirstCursor, SubType
  <2>2. Behind(clock)'
    BY <2>1 DEF Behind, Known, TypeOK
  <2> QED BY <2>1, <2>2 DEF Cursors
<1>2. CASE sub.cursor = None /\ ~FirstCursor
  <2>1. eng.pc = "idle"
    BY <1>2 DEF Cursors
  <2>2. eng'.pc = "idle" /\ UNCHANGED <<sub.cursor, sub.since>>
    BY <1>2, <2>1, ByAction DEF CycleCases, CycleStart, Fetch, FetchEmpty, BatchEnd, Skip, Send,
       Advance, Retry, Record, CycleAborts, Update, Stamp, Insert, vars, SubType
  <2> QED BY <1>2, <2>2 DEF Cursors
<1>3. CASE sub.cursor # None
  <2>0. sub.cursor \in Nat /\ sub.since \in Nat /\ eng.cur \in Nat
    BY <1>3 DEF Cursors, SubType, EngType, Time
  <2>1. UNCHANGED sub.since
    BY <1>3, ByAction DEF CycleCases, FirstCursor, CycleStart, Fetch, FetchEmpty, BatchEnd, Skip, Send,
       Advance, Retry, Record, CycleAborts, Update, Stamp, Insert, vars, SubType
  <2>3. \A x \in Nat : Behind(x) /\ x <= clock => Behind(x)' /\ x <= clock'
    BY <2>0, <2>1, BehindStays
  <2>4. \/ sub'.cursor = sub.cursor
        \/ sub'.cursor = eng.cur /\ eng.pc # "idle"
    <3>1. ASSUME NEW e \in Event, NEW w \in BOOLEAN, Retry(e, w) \/ Advance(e, w)
          PROVE  \/ sub'.cursor = sub.cursor
                 \/ sub'.cursor = eng.cur /\ eng.pc # "idle"
      BY <3>1 DEF Retry, Advance, Record, SubType
    <3>2. CASE BatchEnd \/ Update \/ FirstCursor
      BY <1>3, <3>2 DEF BatchEnd, Update, FirstCursor, SubType
    <3>3. CASE UNCHANGED sub
      BY <3>3
    <3> QED BY <3>1, <3>2, <3>3, FetchStep, ByAction DEF CycleCases, CycleStart, FetchEmpty, Skip,
            Send, CycleAborts, Stamp, Insert, vars
  <2>5. sub'.cursor \in Nat /\ Behind(sub.cursor)' /\ sub'.cursor <= clock'
    <3>1. PICK x \in Nat : x = sub'.cursor
      BY <2>0, <2>4
    <3>2. Behind(x) /\ x <= clock
      BY <1>3, <2>4, <3>1 DEF Cursors
    <3>3. Behind(x)' /\ x <= clock'
      BY <2>3, <3>2
    <3> QED BY <3>1, <3>3 DEF Behind
  <2>6. ASSUME eng'.pc # "idle"
        PROVE  eng'.cur \in Nat /\ Behind(eng.cur)' /\ eng'.cur <= clock'
    <3>0. ASSUME NEW x \in Nat, Behind(x), x <= clock, eng'.cur = x
          PROVE  eng'.cur \in Nat /\ Behind(eng.cur)' /\ eng'.cur <= clock'
      <4>1. Behind(x)' /\ x <= clock'
        BY <2>3, <3>0
      <4> QED BY <3>0, <4>1 DEF Behind
    <3>1. CASE eng.pc # "idle" /\ eng'.cur = eng.cur
      BY <2>0, <3>0, <3>1 DEF Cursors
    <3>2. CASE CycleStart
      BY <1>3, <2>0, <3>0, <3>2 DEF Cursors, CycleStart, Idle
    <3>3. ASSUME NEW e \in Event, Skip(e) \/ \E w \in BOOLEAN : Advance(e, w)
          PROVE  eng'.cur \in Nat /\ Behind(eng.cur)' /\ eng'.cur <= clock'
      <4>1. Head(e) /\ eng.pc \in {"batch", "sent"} /\ eng' = Past(e)
        BY <3>3 DEF Skip, Advance, Record
      <4>2. e \in Match => Settled(e)
        BY <3>3, AdvanceSettled DEF Skip, Advance, Record
      <4>3. eng'.cur = ev[e].at
        BY <4>1 DEF Past, EngType
      <4> QED BY <3>0, <4>1, <4>2, <4>3, PastHead
    <3>4. \/ eng.pc # "idle" /\ eng'.cur = eng.cur
          \/ CycleStart
          \/ \E e \in Event : Skip(e) \/ \E w \in BOOLEAN : Advance(e, w)
      <4>1. ASSUME Fetch PROVE eng.pc # "idle" /\ eng'.cur = eng.cur
        BY <4>1, FetchStep DEF Fetched, EngType
      <4>2. ASSUME \/ CycleAborts \/ FetchEmpty \/ FirstCursor
                   \/ \E e \in Event, w \in BOOLEAN : Retry(e, w)
            PROVE  FALSE
        BY <2>6, <4>2 DEF CycleAborts, FetchEmpty, FirstCursor, Retry, Idle
      <4>3. ASSUME BatchEnd PROVE eng.pc # "idle" /\ eng'.cur = eng.cur
        BY <2>6, <4>3 DEF BatchEnd, Idle, EngType
      <4>5. ASSUME NEW e \in Event, Send(e) PROVE eng.pc # "idle" /\ eng'.cur = eng.cur
        <5>1. \E n, ok : eng' = [eng EXCEPT !.pc = "sent", !.attempt = n, !.ok = ok]
          BY <4>5 DEF Send
        <5> QED BY <4>5, <5>1 DEF Send, EngType
      <4>4. ASSUME UNCHANGED eng PROVE eng.pc # "idle" /\ eng'.cur = eng.cur
        BY <2>6, <4>4
      <4> QED BY <4>1, <4>2, <4>3, <4>4, <4>5, ByAction DEF CycleCases, Update, Stamp, Insert, vars
    <3> QED BY <3>1, <3>2, <3>3, <3>4
  <2> QED BY <1>3, <2>0, <2>1, <2>5, <2>6 DEF Cursors
<1> QED BY <1>1, <1>2, <1>3

(* A cycle that begins, and one whose batch is done. *)
LEMMA BeginEnd ==
  ASSUME eng \in EngType, BatchEnd \/ CycleStart
  PROVE  eng'.pc \in {"idle", "fetch"}
<1>1. Idle \in EngType /\ Idle.pc = "idle"
  BY DEF Idle, EngType
<1>2. CASE BatchEnd
  BY <1>1, <1>2 DEF BatchEnd, EngType
<1>3. CASE CycleStart
  BY <1>1, <1>3 DEF CycleStart, EngType
<1> QED BY <1>2, <1>3

(* A batch is complete when it is fetched, and rows that appear later lie
   above everything in it. *)
LEMMA BatchFullStep ==
  ASSUME Orderly, IInv, [Next]_vars
  PROVE  BatchFull'
<1> USE DEF IInv
<1> TypeOK /\ eng \in EngType
  BY DEF TypeOK, EngType
<1>1. ASSUME NEW g \in Event, Stamp(g) PROVE BatchFull'
  <2>1. /\ \A f \in Event : f \in Stored' <=> f \in Stored
        /\ \A f \in Stored : ev'[f].at = ev[f].at
    BY <1>1 DEF Stamp, Stored, TypeOK
  <2> QED BY <1>1, <2>1 DEF Stamp, BatchFull, Stored
<1>2. ASSUME NEW g \in Event, Insert(g) PROVE BatchFull'
  <2>1. /\ \A f \in Event : f \in Stored' <=> f \in Stored \/ f = g
        /\ \A f \in Event : ev'[f].at = ev[f].at
        /\ \A f \in Stored : ev[f].at < ev[g].at
        /\ eng' = eng
    BY <1>2 DEF Insert, Stored, Stamped, Times, TypeOK
  <2>2. ev[g].at \in Nat /\ \A f \in Event : ev[f].at \in Nat
    BY DEF TypeOK
  <2> QED BY <2>1, <2>2 DEF BatchFull, Stored
<1>3. CASE Fetch
  <2>1. PICK B \in SUBSET Event, full \in BOOLEAN :
          /\ eng' = Fetched(B, full)
          /\ \A e \in B : e \in Stored \cap Loud /\ ev[e].at > eng.cur
          /\ \A e \in B, f \in (Stored \cap Loud) \ B : ev[f].at > eng.cur => ev[e].at <= ev[f].at
    BY <1>3, FetchStep
  <2>2. eng'.todo = B /\ eng'.cur = eng.cur /\ ev' = ev
    BY <1>3, <2>1, FetchStep DEF Fetched, EngType
  <2>3. ASSUME NEW e \in B, NEW f \in Stored \cap Loud, ev[f].at > eng.cur, ev[f].at <= ev[e].at
        PROVE  f \in B
    <3>1. SUFFICES ASSUME f \notin B PROVE ev[f].at = ev[e].at
      BY <2>1, <2>3 DEF Times, Known, Stored
    <3>2. ev[e].at <= ev[f].at
      BY <2>1, <2>3, <3>1
    <3>3. ev[e].at \in Nat /\ ev[f].at \in Nat
      BY DEF TypeOK, Stored
    <3> QED BY <2>3, <3>2, <3>3
  <2> QED BY <2>1, <2>2, <2>3 DEF BatchFull, Stored
<1>4. ASSUME NEW e \in Event, Skip(e) \/ \E w \in BOOLEAN : Advance(e, w) PROVE BatchFull'
  <2>1. Head(e) /\ eng.pc \in {"batch", "sent"} /\ eng' = Past(e) /\ ev' = ev
    BY <1>4 DEF Skip, Advance, Record
  <2>2. eng'.cur = ev[e].at /\ eng'.todo = eng.todo \ {e}
    BY <2>1 DEF Past, EngType
  <2>3. e \in Stored /\ ev[e].at > eng.cur
    BY <2>1 DEF BatchFull, Head
  <2>4. ASSUME NEW d \in eng.todo \ {e}
        PROVE  /\ d \in Stored /\ ev[d].at > ev[e].at
               /\ \A f \in Stored \cap Loud :
                    ev[f].at > ev[e].at /\ ev[f].at <= ev[d].at => f \in eng.todo \ {e}
    <3>1. d \in Stored /\ ev[d].at >= ev[e].at /\ ev[d].at # ev[e].at
      BY <2>1, <2>3 DEF BatchFull, Head, Times, Known, Stored, TypeOK
    <3>2. \A f \in Stored \cup {d, e} : ev[f].at \in Nat
      BY <2>1, <2>3, <3>1 DEF TypeOK, Stored
    <3>3. ASSUME NEW f \in Stored \cap Loud, ev[f].at > ev[e].at, ev[f].at <= ev[d].at
          PROVE  f \in eng.todo \ {e}
      <4>1. ev[f].at > eng.cur
        BY <2>3, <3>2, <3>3 DEF TypeOK, EngType
      <4>2. f \in eng.todo
        BY <2>1, <3>3, <4>1 DEF BatchFull
      <4>3. f # e
        BY <3>2, <3>3
      <4> QED BY <4>2, <4>3
    <3> QED BY <3>1, <3>2, <3>3
  <2> QED BY <2>1, <2>2, <2>4 DEF BatchFull, Stored
<1>5. ASSUME NEW e \in Event, Send(e) PROVE BatchFull'
  <2>1. \E n, ok : eng' = [eng EXCEPT !.pc = "sent", !.attempt = n, !.ok = ok]
    BY <1>5 DEF Send
  <2>2. eng'.todo = eng.todo /\ eng'.cur = eng.cur /\ ev' = ev /\ eng.pc = "batch"
    BY <1>5, <2>1 DEF Send, EngType
  <2> QED BY <2>2 DEF BatchFull, Stored
<1>6. CASE eng'.pc \in {"idle", "fetch"}
  BY <1>6 DEF BatchFull
<1>7. CASE UNCHANGED <<eng, ev>>
  BY <1>7 DEF BatchFull, Stored
<1>8. ASSUME BatchEnd \/ CycleStart PROVE eng'.pc \in {"idle", "fetch"}
  BY <1>8, BeginEnd
<1> QED BY <1>1, <1>2, <1>3, <1>4, <1>5, <1>6, <1>7, <1>8, ByAction
        DEF CycleCases, FirstCursor, FetchEmpty, Retry, CycleAborts, Idle, Update, vars

(* The attempt in flight is one of the head of the batch, and there is one head. *)
LEMMA OutcomeStep ==
  ASSUME Orderly, IInv, [Next]_vars
  PROVE  Outcome'
<1> USE DEF IInv
<1> TypeOK /\ eng \in EngType
  BY DEF TypeOK, EngType
<1>1. ASSUME NEW e \in Event, Send(e) PROVE Outcome'
  <2>1. PICK prior \in {fails[e], 0}, ok \in BOOLEAN, reached \in BOOLEAN :
          /\ ok => reached
          /\ got' = IF reached THEN got \cup {e} ELSE got
          /\ eng' = [eng EXCEPT !.pc = "sent", !.attempt = prior + 1, !.ok = ok]
    BY <1>1 DEF Send
  <2>2. eng'.todo = eng.todo /\ eng'.attempt = prior + 1 /\ eng'.ok = ok /\ ev' = ev
        /\ fails' = fails
    BY <1>1, <2>1 DEF Send, EngType
  <2>3. ASSUME NEW f \in Event, Head(f)' PROVE f = e
    <3>1. Head(e) /\ Head(f) /\ eng.pc = "batch"
      BY <1>1, <2>2, <2>3 DEF Send, Head
    <3>2. ev[e].at = ev[f].at /\ e \in Stored /\ f \in Stored
      <4>1. ev[e].at <= ev[f].at /\ ev[f].at <= ev[e].at /\ ev[e].at \in Nat /\ ev[f].at \in Nat
        BY <3>1 DEF Head, TypeOK
      <4> QED BY <3>1, <4>1 DEF Head, BatchFull
    <3> QED BY <3>2 DEF Times, Known, Stored
  <2> QED BY <2>1, <2>2, <2>3 DEF Outcome, TypeOK
<1>2. CASE UNCHANGED <<eng, fails, got>> /\ eng.pc = "sent"
  <2>1. ASSUME NEW e \in Event, Head(e)' PROVE Head(e)
    <3>1. \A f \in eng.todo : f \in Stored
      BY <1>2 DEF BatchFull
    <3>2. \A f \in Stored : ev'[f].at = ev[f].at
      <4>1. ASSUME NEW f \in Event, Stamp(f) \/ Insert(f) PROVE \A d \in Stored : ev'[d].at = ev[d].at
        BY <4>1 DEF Stamp, Insert, Stored, TypeOK
      <4> QED BY <4>1, FetchStep, ByAction DEF CycleCases, FirstCursor, CycleStart, FetchEmpty,
              BatchEnd, Skip, Send, Advance, Retry, Record, CycleAborts, Update, vars
    <3> QED BY <1>2, <2>1, <3>1, <3>2 DEF Head
  <2> QED BY <1>2, <2>1 DEF Outcome
<1>3. CASE eng'.pc # "sent"
  BY <1>3 DEF Outcome
<1>4. ASSUME Fetch PROVE eng'.pc # "sent"
  BY <1>4, FetchStep DEF Fetched, EngType
<1>5. ASSUME BatchEnd \/ CycleStart PROVE eng'.pc # "sent"
  BY <1>5, BeginEnd
<1>6. ASSUME NEW e \in Event, Skip(e) \/ \E w \in BOOLEAN : Advance(e, w) \/ Retry(e, w)
      PROVE  eng'.pc # "sent"
  <2>1. Past(e).pc = "batch" /\ Idle.pc = "idle"
    BY DEF Past, EngType, Idle
  <2> QED BY <1>6, <2>1 DEF Skip, Advance, Retry
<1> QED BY <1>1, <1>2, <1>3, <1>4, <1>5, <1>6, ByAction
        DEF CycleCases, FirstCursor, FetchEmpty, CycleAborts, Idle, Update, Stamp, Insert, vars

-----------------------------------------------------------------------------
LEMMA IInvInit == Init => IInv
<1> SUFFICES ASSUME Init PROVE IInv
  OBVIOUS
<1> USE WebhookAssumption DEF Init
<1>1. TypeOK
  <2>1. sub \in SubType
    <3>1. PICK c \in Time : sub = [enabled |-> TRUE, usable |-> TRUE, cursor |-> c, since |-> c]
      BY DEF Time
    <3> QED BY <3>1 DEF SubType
  <2>2. Idle \in EngType
    BY DEF Idle, EngType
  <2>3. ev \in [Event -> EventType]
    BY DEF EventType
  <2> QED BY <2>1, <2>2, <2>3 DEF TypeOK, SubType, EngType, EventType
<1>2. Times
  BY DEF Times, Known, Stored, Stamped
<1>3. Cursors
  <2>1. \A x : Behind(x)
    BY DEF Behind, Known
  <2>2. eng.pc = "idle"
    BY DEF Idle
  <2>3. sub.cursor = sub.since /\ sub.cursor \in {0, None} /\ clock = 0
    BY DEF Time
  <2>4. sub.cursor # None => sub.cursor <= clock
    BY <2>3
  <2> QED BY ONLY <2>1, <2>2, <2>3, <2>4 DEF Cursors
<1>4. BatchFull /\ Outcome
  BY DEF BatchFull, Outcome, Idle
<1> QED BY <1>1, <1>2, <1>3, <1>4 DEF IInv

LEMMA IInvAlways == ASSUME Orderly PROVE Spec => []IInv
<1>1. IInv /\ [Next]_vars => IInv'
  BY TypeStep, TimesStep, CursorsStep, BatchFullStep, OutcomeStep DEF IInv
<1> QED BY <1>1, IInvInit, PTL DEF Spec

(* As long as rows appear in the order of their times, no wanted event is
   ever behind the persisted cursor without having been received or tried to
   the limit (webhooks.rs deliver_subscription). *)
THEOREM NothingIsSkipped == ASSUME Orderly PROVE Spec => []NothingSkipped
<1>1. IInv => NothingSkipped
  BY WebhookAssumption DEF IInv, TypeOK, Cursors, Behind, NothingSkipped, Wanted, Passed, Stored, Known, Time
<1> QED BY <1>1, IInvAlways, PTL

(* Under the same assumption the endpoint gets no event before every earlier
   wanted one is settled (webhooks.rs try_deliver). *)
THEOREM SentInOrder == ASSUME Orderly PROVE Spec => InOrder
<1>1. ASSUME IInv, [Next]_vars
      PROVE  \A e \in got' \ got : \A f \in Wanted : ev[f].at < ev[e].at => Settled(f)
  <2> SUFFICES ASSUME NEW e \in got' \ got, NEW f \in Wanted, ev[f].at < ev[e].at
               PROVE  Settled(f)
    OBVIOUS
  <2>1. Send(e) /\ e \in Event
    BY <1>1, FetchStep, ByAction DEF CycleCases, FirstCursor, CycleStart, FetchEmpty, BatchEnd, Skip,
       Send, Advance, Retry, Record, CycleAborts, Update, Stamp, Insert, vars
  <2>2. Head(e) /\ eng.pc = "batch" /\ sub.cursor # None
    BY <1>1, <2>1 DEF Send, IInv, Cursors
  <2>3. f \in Stored \cap Loud /\ f \in Match /\ f \in Event /\ ev[f].at > sub.since
    BY DEF Wanted, Stored
  <2>4. ev[f].at \in Nat /\ ev[e].at \in Nat /\ eng.cur \in Nat
    BY <1>1, <2>1, <2>3 DEF IInv, TypeOK
  <2>5. CASE ev[f].at <= eng.cur
    BY <1>1, <2>2, <2>3, <2>5 DEF IInv, Cursors, Behind, Known, Stored
  <2>6. CASE ev[f].at > eng.cur
    <3>1. f \in eng.todo
      BY <1>1, <2>2, <2>3, <2>4, <2>6 DEF IInv, BatchFull, Head
    <3> QED BY <2>2, <2>4, <3>1 DEF Head
  <2> QED BY <2>4, <2>5, <2>6
<1>2. IInv /\ [Next]_vars =>
        [\A e \in got' \ got : \A f \in Wanted : ev[f].at < ev[e].at => Settled(f)]_vars
  BY <1>1
<1> QED BY <1>2, IInvAlways, PTL DEF Spec, InOrder
=============================================================================
