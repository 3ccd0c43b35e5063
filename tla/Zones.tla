------------------------------- MODULE Zones --------------------------------
(* The zone engine (services/zones.rs): tracked detections of one camera
   against one of its zones.  Ground points lie on a line of integers, which
   keeps what the engine asks of geometry: inside or not, how far from the
   origin, which side of a line.  Which of its deadlines have passed when a
   track is observed is the environment's choice. *)
EXTENDS Integers, FiniteSets

CONSTANTS Track,         \* track ids the detector hands out
          Point,         \* ground points
          Interior,      \* the points inside the polygon; a line lies at its edge
          EPSILON,       \* displacement from which a track counts as moved
          CONFIRM,       \* confirm_frames
          Batcher,       \* callers of process: ingest requests, the drainer
          ZoneFaults     \* the environment events of this instance

ASSUME ZoneAssumption ==
  /\ IsFiniteSet(Track)
  /\ Point \subseteq Int /\ Interior \subseteq Point
  /\ EPSILON \in Nat \ {0} /\ CONFIRM \in Nat \ {0}
  /\ ZoneFaults \subseteq
       { "restart",    \* the process restarts
         "dbfail" }    \* a statement of flush_occupancy fails

VARIABLES
  kind,      \* "region" or "line"
  state,     \* state[t]: TrackZoneState of a track
  batcher,   \* batcher[p]: a call of process
  cache,     \* the cached occupancy
  table,     \* zone_occupancy
  stay,      \* history: where the events of a track stand
  stale      \* history: a restart or a failed statement has parted cache and table

zoneVars == <<kind, state, batcher, cache, table, stay, stale>>

NoState == [known |-> FALSE, inside |-> FALSE, count |-> 0, origin |-> 0, moved |-> FALSE,
            suppressed |-> FALSE, evented |-> FALSE, dwelt |-> FALSE,
            at |-> 0]   \* last_point, which only a line looks at

EntryType == [known : BOOLEAN, inside : BOOLEAN, count : 0 .. CONFIRM - 1, origin : Point \cup {0},
              moved : BOOLEAN, suppressed : BOOLEAN, evented : BOOLEAN, dwelt : BOOLEAN,
              at : Point \cup {0}]

StayState == {"closed", "open", "dwelt", "broken"}
Idle      == [pc |-> "idle", counts |-> 0]

ZoneTypeOK ==
  /\ kind \in {"region", "line"}
  /\ state \in [Track -> EntryType]
  /\ batcher \in [Batcher -> [pc : {"idle", "count", "write"}, counts : Nat]]
  /\ cache \in Nat /\ table \in Nat
  /\ stay \in [Track -> StayState] /\ stale \in BOOLEAN

ZoneInit ==
  /\ kind \in {"region", "line"}
  /\ state = [t \in Track |-> NoState]
  /\ batcher = [p \in Batcher |-> Idle]
  /\ cache = 0 /\ table = 0
  /\ stay = [t \in Track |-> "closed"] /\ stale = FALSE

Abs(n) == IF n < 0 THEN -n ELSE n

-----------------------------------------------------------------------------
(* find_suppressed_sibling: a suppressed track of the zone within EPSILON. *)
Siblings(x) == {t \in Track : state[t].known /\ state[t].suppressed /\ Abs(x - state[t].origin) < EPSILON}

(* The track's entry before this observation; a track reborn next to a
   suppressed one is that object and inherits its origin. *)
Entry(t, x, o) ==
  IF state[t].known THEN state[t]
  ELSE [NoState EXCEPT !.known = TRUE, !.origin = o,
                       !.suppressed = Siblings(x) # {}, !.evented = Siblings(x) # {}]

(* update_static: the watermark only grows, and the notice is given once, when
   the track has lived for static_after seconds. *)
UpdateStatic(e, x, lived) ==
  LET moved == e.moved \/ Abs(x - e.origin) >= EPSILON
      quiet == ~e.suppressed /\ ~e.evented /\ ~moved /\ lived IN
  [e EXCEPT !.moved = moved,
            !.suppressed = (@ /\ ~moved) \/ quiet,
            !.evented = @ \/ quiet]

BecameStatic(e, f) == ~e.suppressed /\ f.suppressed
BecameActive(e, f) == e.suppressed /\ ~f.suppressed

(* What the transition of the static state emits. *)
Announce(e, f) ==
  IF BecameStatic(e, f) THEN "static_suppressed"
  ELSE IF BecameActive(e, f) /\ f.inside THEN "enter"
  ELSE "nothing"

(* A line zone: the directional crossing of the segment since the last point. *)
Crossing(e, x) ==
  IF e.at = 0 \/ e.suppressed \/ (e.at \in Interior <=> x \in Interior) THEN "nothing"
  ELSE IF e.at \in Interior THEN "cross_ab" ELSE "cross_ba"

(* Membership flips after CONFIRM observations in a row on the other side, and
   silently while the track is suppressed. *)
Flips(e, x) == (x \in Interior) # e.inside /\ e.count + 1 >= CONFIRM

Member(e, x) ==
  IF (x \in Interior) = e.inside THEN [e EXCEPT !.count = 0]
  ELSE IF ~Flips(e, x) THEN [e EXCEPT !.count = @ + 1]
  ELSE LET entered == ~e.inside /\ ~e.suppressed IN
       [e EXCEPT !.inside = ~@, !.count = 0, !.dwelt = @ /\ ~entered]

Dwells(e, stayed) == e.inside /\ ~e.suppressed /\ ~e.dwelt /\ stayed

(* One track of the batch: <<its new entry, the up to three events it emits, in
   their order>>.  A stay begins again when it is announced, so it has not
   lasted dwell_seconds. *)
Evaluate(t, x, o, lived, stayed) ==
  LET e0 == Entry(t, x, o)
      e1 == UpdateStatic(e0, x, lived)
      again == BecameActive(e0, e1) /\ e1.inside
      e2 == [e1 EXCEPT !.dwelt = @ /\ ~again]
      e3 == Member(e2, x)
      flips == Flips(e2, x) /\ ~e2.suppressed
      flip == IF ~flips THEN "nothing" ELSE IF e3.inside THEN "enter" ELSE "exit"
      late == Dwells(e3, stayed) /\ ~again /\ ~flips IN
  IF kind = "line"
  THEN <<[e1 EXCEPT !.at = x], <<Announce(e0, e1), Crossing(e1, x), "nothing">>>>
  ELSE <<[e3 EXCEPT !.dwelt = @ \/ late],
         <<Announce(e0, e1), flip, IF late THEN "dwell" ELSE "nothing">>>>

(* Of the tracks whose state expires, those that get an exit. *)
StillInside(gone) == {t \in gone : state[t].inside /\ ~state[t].suppressed}

(* emit: a row of zone_events, an event and a recording trigger for every
   decision but the notice, best effort, after the lock was released.  The
   history follows a track's rows: what closes or reports a stay must follow
   what opened it. *)
After(from, type) ==
  CASE type = "enter" -> "open"
    [] type = "exit"  -> IF from \in {"open", "dwelt"} THEN "closed" ELSE "broken"
    [] type = "dwell" -> IF from = "open" THEN "dwelt" ELSE "broken"
    [] OTHER          -> from

AfterAll(from, ev) == After(After(After(from, ev[1]), ev[2]), ev[3])

(* The batch's track gets its new entry and emits, then the tracks in gone are
   pruned. *)
Observed(t, r, gone) ==
  /\ state' = [u \in Track |-> IF u \in gone THEN NoState ELSE IF u = t THEN r[1] ELSE state[u]]
  /\ stay' = [u \in Track |-> IF u = t THEN AfterAll(stay[u], r[2])
                              ELSE IF u \in StillInside(gone) THEN After(stay[u], "exit") ELSE stay[u]]

(* process, under the state lock, for an enabled zone: evaluate the batch's track, then prune the
   tracks not seen for STATE_TTL_SECS. *)
Observe(p, t, x) ==
  /\ batcher[p].pc = "idle"
  /\ batcher' = [batcher EXCEPT ![p] = [Idle EXCEPT !.pc = "count"]]
  /\ \E o \in IF Siblings(x) = {} THEN {x} ELSE {state[s].origin : s \in Siblings(x)} :
       \E lived, stayed \in BOOLEAN, gone \in SUBSET {u \in Track \ {t} : state[u].known} :
         Observed(t, Evaluate(t, x, o, lived, stayed), gone)
  /\ UNCHANGED <<kind, cache, table, stale>>

Occupants == {t \in Track : state[t].known /\ state[t].inside /\ ~state[t].suppressed}

(* flush_occupancy counts under the state lock ... *)
Count(p) ==
  /\ batcher[p].pc = "count"
  /\ batcher' = [batcher EXCEPT ![p] = [@ EXCEPT !.pc = "write", !.counts = Cardinality(Occupants)]]
  /\ UNCHANGED <<kind, state, cache, table, stay, stale>>

(* Mutant: a zone whose last track left is not in the counts and is not written. *)
WriteOccupancy_NoZero(p) ==
  LET n == batcher[p].counts IN
  /\ batcher[p].pc = "write"
  /\ cache' = IF n = 0 THEN cache ELSE n
  /\ \/ table' = (IF n = 0 THEN table ELSE n) /\ stale' = (n = 0 /\ stale)
     \/ table' = table /\ stale' = TRUE /\ "dbfail" \in ZoneFaults
  /\ batcher' = [batcher EXCEPT ![p] = Idle]
  /\ UNCHANGED <<kind, state, stay>>

(* ... and writes what differs from the cache under the cache's, whether or
   not the statement succeeds. *)
WriteOccupancy(p) ==
  LET n == batcher[p].counts IN
  /\ batcher[p].pc = "write"
  /\ cache' = n
  /\ \/ cache = n /\ UNCHANGED <<table, stale>>
     \/ cache # n /\ table' = n /\ stale' = FALSE
     \/ cache # n /\ table' = table /\ stale' = TRUE /\ "dbfail" \in ZoneFaults
  /\ batcher' = [batcher EXCEPT ![p] = Idle]
  /\ UNCHANGED <<kind, state, stay>>
-----------------------------------------------------------------------------
ZoneRestart ==
  /\ "restart" \in ZoneFaults
  /\ state' = [t \in Track |-> NoState]
  /\ batcher' = [p \in Batcher |-> Idle]
  /\ cache' = 0
  /\ stale' = (table # 0)
  /\ UNCHANGED <<kind, table, stay>>

ZoneNext ==
  \/ \E p \in Batcher, t \in Track, x \in Point : Observe(p, t, x)
  \/ \E p \in Batcher : Count(p) \/ WriteOccupancy(p)
  \/ ZoneRestart

ZoneSpec == ZoneInit /\ [][ZoneNext]_zoneVars
-----------------------------------------------------------------------------
(* A track's exit, decided by an observation or made up when its state
   expires, closes an enter: no sequence of silent flips while suppressed,
   rebirths under a sibling's suppression and expiries leaves an exit, or a
   dwell, that nothing opened, and a stay is reported once. *)
StaysWellFormed == \A t \in Track : stay[t] # "broken"

(* A flush whose counts are still true leaves them in zone_occupancy, whatever
   older flush ran in between: the cache never hides a difference, but the one
   that a restart or a failed statement made (flush_occupancy). *)
FlushExact ==
  [][\A p \in Batcher : batcher[p].pc = "write" /\ batcher'[p].pc = "idle" /\ state' = state
                          /\ batcher[p].counts = Cardinality(Occupants)
       => table' = Cardinality(Occupants) \/ stale']_zoneVars
=============================================================================
