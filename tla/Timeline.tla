------------------------------ MODULE Timeline ------------------------------
(***************************************************************************)
(* A camera's recorded time: the indexer turns closed files into rows and  *)
(* records the gaps between them (indexer.rs), edge re-fill fetches gaps   *)
(* back from the camera (anr.rs), and the health monitor judges from the   *)
(* last row whether the recorder still works (health.rs).  One camera; a   *)
(* file is named by the instant it starts at and is what it holds; rows    *)
(* and gaps are known by their start.  Footage is not pruned here: that is *)
(* SegmentStore.                                                           *)
(* An operator asks for the ranges and the holes (routes/recordings.rs).   *)
(***************************************************************************)
EXTENDS Integers, FiniteSets, Sequences, SequencesExt

CONSTANTS End,              \* the last instant (bound)
          MinGap,           \* a longer hole is a gap (3 s)
          GAP_TOLERANCE,    \* holes of at most this are not told (2 s)
          threshold,        \* health: three segments
          anr_max_attempts,
          anr_max_gap,      \* older gaps are not fetched
          MaxProbeErrors    \* failing probes, replays and restarts (bound)

VARIABLES clock,
          disk,     \* files: [start, end, live]
          segs,     \* rows: [start, end]
          gaps,     \* recording_gaps: [start, end, state, tries]
          listing,  \* the indexer's directory listing: the files it has still to look at
          queue,    \* the gaps a sweep has still to visit
          filling,  \* the gap being fetched: [gap, pc], or Nothing
          status,   \* camera_status: [state, last_segment_at, last_started_at]
          alarmed,  \* the health monitor's last verdict: [at, fresh], fresh: the true end of footage then
          lost,     \* instants of gaps whose rows are gone
          order,    \* [first, back]: the first row indexed; last_segment_at was once set back
          tlErrs

tlVars == <<clock, disk, segs, gaps, listing, queue, filling, status, alarmed, lost, order, tlErrs>>

Never == -99
Nothing == [gap |-> Never, pc |-> "idle"]
TlFails == tlErrs < MaxProbeErrors /\ tlErrs' = tlErrs + 1

TlInit ==
    /\ clock = 0 /\ disk = {} /\ segs = {} /\ gaps = {} /\ listing = {} /\ queue = {} /\ filling = Nothing
    /\ status = [state |-> "recording", last_segment_at |-> Never, last_started_at |-> 0]
    /\ alarmed = [at |-> Never, fresh |-> Never] /\ lost = {} /\ tlErrs = 0
    /\ order = [first |-> Never, back |-> FALSE]

MaxOf(S) == IF S = {} THEN Never ELSE Max(S)
Live == {f \in disk : f.live}

-----------------------------------------------------------------------------
(* The recorder.                                                           *)

\* A file of one or two instants is closed.  Names have a second's resolution: it can start a little
\* before the one before it ends.
CloseFile ==
    \E len \in 1 .. 2, early \in 0 .. 1 :
        /\ clock + len <= End /\ len > early /\ \A f \in Live : f.start < clock
        /\ disk' = disk \cup {[start |-> clock, end |-> clock + len, live |-> TRUE]}
        /\ clock' = clock + len - early
        /\ UNCHANGED <<segs, gaps, listing, queue, filling, status, alarmed, lost, order, tlErrs>>

\* Nothing is recorded.
Tick ==
    /\ clock < End /\ clock' = clock + 1
    /\ UNCHANGED <<disk, segs, gaps, listing, queue, filling, status, alarmed, lost, order, tlErrs>>

\* The recorder's process ends and starts again (bump_reconnect, set_running).
Reconnect ==
    /\ status' = IF status.state = "offline"
                 THEN [status EXCEPT !.state = "recording", !.last_started_at = clock]
                 ELSE [status EXCEPT !.state = "offline"]
    /\ IF status.state = "offline" THEN UNCHANGED tlErrs ELSE TlFails
    /\ UNCHANGED <<clock, disk, segs, gaps, listing, queue, filling, alarmed, lost, order>>

-----------------------------------------------------------------------------
(* The indexer.                                                            *)

Unindexed == {f \in disk : \A r \in segs : r.start # f.start}

\* A pass lists the directory, and takes the files in the order of their names.
scan_once ==
    /\ listing = {} /\ Unindexed # {} /\ listing' = Unindexed
    /\ UNCHANGED <<clock, disk, segs, gaps, queue, filling, status, alarmed, lost, order, tlErrs>>

\* The row before this one is looked up once this one is in.
prev_end_After(f) == MaxOf({r.end : r \in segs} \cup {f.end})

\* The end of what is indexed so far.
prev_end(f) == MaxOf({r.end : r \in segs})

\* Rows that overlap the start of a new one are cut back to it.
Clamped(start) == {IF r.end > start /\ r.start < start THEN [r EXCEPT !.end = start] ELSE r : r \in segs}

\* A gap is known by its start: one already recorded stays as it is.
upsert_recording_gap(from, to) ==
    IF \E g \in gaps : g.start = from THEN gaps
    ELSE gaps \cup {[start |-> from, end |-> to, state |-> "pending", tries |-> 0]}

record_segment_indexed(f) == [status EXCEPT !.state = "recording", !.last_segment_at = f.end]

\* The next file becomes a row, or cannot be probed yet and is left for another pass.
index_camera_dir ==
    /\ listing # {}
    /\ LET f == CHOOSE g \in listing : \A h \in listing : g.start <= h.start
           pe == prev_end(f)
       IN /\ listing' = listing \ {f}
          /\ \/ /\ segs' = (IF pe > f.start THEN Clamped(f.start) ELSE segs) \cup {[start |-> f.start, end |-> f.end]}
                /\ gaps' = IF pe # Never /\ f.start - pe > MinGap THEN upsert_recording_gap(pe, f.start) ELSE gaps
                /\ status' = record_segment_indexed(f)
                /\ order' = [first |-> IF segs = {} THEN f.start ELSE order.first,
                             back |-> order.back \/ f.end < status.last_segment_at]
                /\ UNCHANGED tlErrs
             \/ TlFails /\ UNCHANGED <<segs, gaps, status, order>>
    /\ UNCHANGED <<clock, disk, queue, filling, alarmed, lost>>

-----------------------------------------------------------------------------
(* Edge re-fill.                                                           *)

Put(g, h) == gaps' = (gaps \ {g}) \cup {h}
Gap(s) == CHOOSE g \in gaps : g.start = s
Exists(s) == \E g \in gaps : g.start = s

\* A sweep lists the pending gaps that are not too old.
sweep ==
    /\ queue = {} /\ filling = Nothing
    /\ queue' = {g.start : g \in {h \in gaps : h.state = "pending" /\ h.tries < anr_max_attempts
                                                /\ h.start >= clock - anr_max_gap}}
    /\ queue' # {}
    /\ UNCHANGED <<clock, disk, segs, gaps, listing, filling, status, alarmed, lost, order, tlErrs>>

bump_attempt(g) ==
    [g EXCEPT !.tries = @ + 1, !.state = IF g.tries + 1 >= anr_max_attempts THEN "failed" ELSE "pending"]

\* A file of the gap's name settles it.  Otherwise the replay is captured beside the recordings and
\* put in place whole; it may hold less than the gap.  A failure counts as an attempt.
fill_gap ==
    /\ queue # {} /\ filling = Nothing
    /\ LET s == Max(queue)
       IN /\ queue' = queue \ {s}
          /\ \/ ~ Exists(s) /\ UNCHANGED <<disk, gaps, filling, tlErrs>>
             \/ /\ Exists(s) /\ \E f \in disk : f.start = s
                /\ filling' = [gap |-> s, pc |-> "mark"] /\ UNCHANGED <<disk, gaps, tlErrs>>
             \/ /\ Exists(s) /\ \A f \in disk : f.start # s
                /\ \E e \in (s + 1) .. Gap(s).end : disk' = disk \cup {[start |-> s, end |-> e, live |-> FALSE]}
                /\ filling' = [gap |-> s, pc |-> "mark"] /\ UNCHANGED <<gaps, tlErrs>>
             \/ /\ Exists(s) /\ (\A f \in disk : f.start # s)
                /\ Put(Gap(s), bump_attempt(Gap(s))) /\ TlFails /\ UNCHANGED <<disk, filling>>
    /\ UNCHANGED <<clock, segs, listing, status, alarmed, lost, order>>

mark_filled ==
    /\ filling.pc = "mark" /\ filling' = Nothing
    /\ IF Exists(filling.gap)
       THEN Put(Gap(filling.gap), [Gap(filling.gap) EXCEPT !.state = "filled", !.tries = @ + 1])
       ELSE UNCHANGED gaps
    /\ UNCHANGED <<clock, disk, segs, listing, queue, status, alarmed, lost, order, tlErrs>>

\* An operator asks for a gap to be tried again.
retry_gap ==
    /\ \E g \in gaps : g.state \in {"filled", "failed"} /\ TlFails /\ Put(g, [g EXCEPT !.state = "pending", !.tries = 0])
    /\ UNCHANGED <<clock, disk, segs, listing, queue, filling, status, alarmed, lost, order>>

\* Retention forgets gaps that are settled.
prune_gaps ==
    /\ \E g \in gaps : g.state \in {"filled", "failed"} /\ gaps' = gaps \ {g} /\ lost' = lost \cup (g.start .. (g.end - 1))
    /\ UNCHANGED <<clock, disk, segs, listing, queue, filling, status, alarmed, order, tlErrs>>

\* The process dies: the listings and a fill that was not marked are forgotten.
Crash ==
    /\ (listing # {} \/ queue # {} \/ filling # Nothing) /\ TlFails
    /\ listing' = {} /\ queue' = {} /\ filling' = Nothing
    /\ UNCHANGED <<clock, disk, segs, gaps, status, alarmed, lost, order>>

-----------------------------------------------------------------------------
(* The health monitor.                                                     *)

Stale == clock - status.last_segment_at > threshold /\ clock - status.last_started_at > threshold

\* A camera that claims to record is in error if it has neither a row nor a start to show for the
\* last while.
check_once ==
    /\ status.state = "recording" /\ Stale
    /\ status' = [status EXCEPT !.state = "error"]
    /\ alarmed' = [at |-> clock, fresh |-> MaxOf({r.end : r \in segs} \cup {status.last_started_at})]
    /\ UNCHANGED <<clock, disk, segs, gaps, listing, queue, filling, lost, order, tlErrs>>

-----------------------------------------------------------------------------
(* What is told of a window (routes/recordings.rs).  Either bound may be   *)
(* Never: not given.                                                       *)

\* The rows that touch the window, oldest first, page after page.
fetch_segments_in_range(from, to) ==
    SetToSortSeq({r \in segs : (to = Never \/ r.start < to) /\ (from = Never \/ r.end > from)},
                 LAMBDA r, q : r.start < q.start)

\* A row that begins soon enough after a range ends belongs to it; one inside it does not shorten it.
coalesce_Last(rows) ==
    FoldLeft(LAMBDA ranges, r :
                 IF ranges # <<>> /\ r.start - Last(ranges).end <= GAP_TOLERANCE
                 THEN [ranges EXCEPT ![Len(ranges)].end = r.end]
                 ELSE Append(ranges, r),
             <<>>, rows)
coalesce(rows) ==
    FoldLeft(LAMBDA ranges, r :
                 IF ranges # <<>> /\ r.start - Last(ranges).end <= GAP_TOLERANCE
                 THEN [ranges EXCEPT ![Len(ranges)].end = Max({@, r.end})]
                 ELSE Append(ranges, r),
             <<>>, rows)

timeline(from, to) == coalesce(fetch_segments_in_range(from, to))

mk(start, end) == IF end - start > GAP_TOLERANCE THEN {[start |-> start, end |-> end]} ELSE {}

\* Before the first range, between two, and after the last.
list_gaps(from, to, ranges) ==
    LET n == Len(ranges) IN
    (IF from = Never \/ (n = 0 /\ to = Never) THEN {} ELSE mk(from, IF n = 0 THEN to ELSE ranges[1].start))
        \cup UNION {mk(ranges[i].end, ranges[i + 1].start) : i \in 1 .. n - 1}
        \cup (IF to = Never \/ n = 0 THEN {} ELSE mk(ranges[n].end, to))

TlNext ==
    \/ CloseFile \/ Tick \/ Reconnect \/ scan_once \/ index_camera_dir
    \/ sweep \/ fill_gap \/ mark_filled \/ retry_gap \/ prune_gaps \/ Crash \/ check_once

-----------------------------------------------------------------------------
(* What must hold.                                                         *)

\* The instants a row covers.
Covers(r) == r.start .. (r.end - 1)
Covered == UNION {Covers(r) : r \in segs}

\* indexer.rs:231: every hole in what is indexed, longer than the tolerance, lies in a recorded gap,
\* in whatever order the files came to be indexed and whatever was re-fetched: except after a row
\* older than the first one indexed, for which no earlier end is known.
HolesKnown ==
    LET last == MaxOf({r.end : r \in segs})
        known == lost \cup UNION {g.start .. (g.end - 1) : g \in gaps}
    IN \A r \in segs : \A n \in 1 .. (last - r.end) :
          (r.start >= order.first /\ n > MinGap /\ (r.end .. (r.end + n - 1)) \cap Covered = {})
              => (r.end .. (r.end + n - 1)) \subseteq known

\* anr.rs: a gap is called filled only when a file of its name holds footage, whatever replay and
\* whichever restart came in between.
FilledHasFootage == \A g \in gaps : g.state = "filled" => \E f \in disk : f.start = g.start

\* health.rs:1, "cameras that claim to be recording but have stopped producing segments": the verdict
\* is never passed on a camera whose newest row, or whose start, is recent, unless an older file
\* indexed late (a re-fetched one, or one that could not be probed) had set last_segment_at back.
AlarmTrue == ~ order.back /\ alarmed.at # Never => alarmed.at - alarmed.fresh > threshold

\* routes/recordings.rs (timeline, gaps): of a window that began before what is indexed ends, the ranges
\* cover all footage, a hole that is told holds none, and every hole longer than the tolerance is told,
\* however rows overlap, lie inside one another or stick out of the window.
HolesTold ==
    \A w \in {<<Never, Never>>, <<2, End - 1>>} :
       \E ranges \in {timeline(w[1], w[2])} :
          LET from == IF w[1] = Never /\ ranges # <<>> THEN ranges[1].start ELSE w[1]
              to == IF w[2] = Never /\ ranges # <<>> THEN Last(ranges).end ELSE w[2]
              told == UNION {Covers(g) : g \in list_gaps(w[1], w[2], ranges)}
              bare == (from .. (to - 1)) \ Covered
          IN /\ (from .. (to - 1)) \cap Covered \subseteq UNION {Covers(ranges[i]) : i \in DOMAIN ranges}
             /\ told \subseteq bare
             /\ \A i \in bare : (i .. (i + GAP_TOLERANCE)) \subseteq bare => (i .. (i + GAP_TOLERANCE)) \subseteq told

\* indexer.rs:219, "so segments never overlap in time (A.end <= B.start)".
SegmentsDisjoint == \A r, q \in segs : r.start < q.start => r.end <= q.start

\* health.rs:1 and :66, "no segments for >{threshold}s while recording".
AlarmAlwaysTrue == alarmed.at # Never => alarmed.at - alarmed.fresh > threshold

=============================================================================
