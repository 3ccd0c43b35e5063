------------------------------ MODULE Movement ------------------------------
(***************************************************************************)
(* The movement engines (heldar-movement reid.rs and breach.rs).  One pairs *)
(* sightings of a plate on two linked cameras into candidates for review,   *)
(* the other turns entries into a red zone into breach alerts and names    *)
(* their subject by the track's plate.  Each runs once per interval (one   *)
(* unit of time), reads and writes in separate statements, and looks back  *)
(* over a window; operators review at any time, and old rows are pruned.   *)
(***************************************************************************)
EXTENDS Integers, FiniteSets, FiniteSetsExt

CONSTANTS WantedWindow,    \* HELDAR_MOVEMENT_SCAN_WINDOW_S
          Day,             \* a day
          retention_days,
          Transit,         \* transit_seconds of the link between the two cameras
          MinScore,        \* min_candidate_score, in hundredths
          MaxTime,         \* bound on time
          MaxSweepErrors   \* bound: sweeps that fail

VARIABLES mnow,
          seen,       \* sightings of the plate: [cam, at]
          likeness,   \* how colour and type compare: -1 apart, 0 unknown, 1 alike
          crossed,    \* entries into the red zone: [at], the track is the second camera's
          candidates, \* [pair, status, born]
          alerts,     \* [entry, status, named, born]
          judged,     \* pairs an operator has reviewed
          mread,      \* engine -> {} or {what it has read}
          ran,        \* the engines that have run in this interval
          sweepErrors

movVars == <<mnow, seen, likeness, crossed, candidates, alerts, judged, mread, ran, sweepErrors>>

Engine == {"reid", "breach"}

\* At least two intervals, so that consecutive sweeps overlap, and at most a day.
scan_window_s == Min({Max({WantedWindow, 2}), Day})

\* retention_days is at least one.
Retention == Max({retention_days, 1}) * Day

MovInit ==
    /\ mnow = 0 /\ seen = {} /\ crossed = {} /\ candidates = {} /\ alerts = {} /\ judged = {}
    /\ likeness \in {[colour |-> 1, kind |-> 0], [colour |-> -1, kind |-> -1]}
    /\ mread = [e \in Engine |-> {}] /\ ran = {} /\ sweepErrors = 0

-----------------------------------------------------------------------------
(* What other components record.                                           *)

\* An entry event of the plate, on the first camera and then on the second.
Sight ==
    /\ \E cam \in {1, 2} :
          /\ \A s \in seen : s.cam # cam
          /\ seen' = seen \cup {[cam |-> cam, at |-> mnow]}
    /\ UNCHANGED <<mnow, likeness, crossed, candidates, alerts, judged, mread, ran, sweepErrors>>

\* The zone engine records that the track entered the zone; its plate may be committed later.
Cross ==
    /\ crossed = {} /\ crossed' = {[at |-> mnow]}
    /\ UNCHANGED <<mnow, seen, likeness, candidates, alerts, judged, mread, ran, sweepErrors>>

-----------------------------------------------------------------------------
(* The candidate engine.                                                   *)

Signal(x, alike, apart) == CASE x = 1 -> alike [] x = -1 -> -apart [] x = 0 -> 0

\* Hundredths.
score_pair(gap, transit) ==
    LET timing == CASE transit > 0 /\ gap <= transit -> 10
                    [] transit > 0 /\ gap > transit /\ gap <= 2 * transit -> 5
                    [] OTHER -> 0 IN
    Min({100, Max({0, 80 + timing + Signal(likeness.colour, 5, 10) + Signal(likeness.kind, 5, 10)})})

\* Pairs of sightings in the order of the link, the later one within the window.
Pairs ==
    {p \in seen \X seen :
        /\ p[1].cam = 1 /\ p[2].cam = 2 /\ p[2].at + scan_window_s >= mnow
        /\ p[2].at >= p[1].at + 1 /\ p[2].at - p[1].at <= 4 * Transit
        /\ score_pair(p[2].at - p[1].at, Transit) >= MinScore}

Reading(e, what) == mread' = [mread EXCEPT ![e] = what] /\ ran' = ran \cup {e}
Done(e) == mread' = [mread EXCEPT ![e] = {}]

propose_vehicle_candidates ==
    /\ mread["reid"] = {} /\ "reid" \notin ran
    /\ Reading("reid", {Pairs})
    /\ UNCHANGED <<mnow, seen, likeness, crossed, candidates, alerts, judged, sweepErrors>>

\* A pair that is there already is left as it is.
Proposed(pairs) ==
    {[pair |-> p, status |-> "pending", born |-> mnow] : p \in {p \in pairs : \A c \in candidates : c.pair # p}}

Aged(r) == r.born + Retention < mnow

\* The candidates are inserted, then what is past the retention window is pruned: alerts too, worked
\* or not.
Propose ==
    \E pairs \in mread["reid"] :
        /\ candidates' = {c \in candidates \cup Proposed(pairs) : ~ Aged(c)}
        /\ alerts' = {a \in alerts : ~ Aged(a)}
        /\ Done("reid")
        /\ UNCHANGED <<mnow, seen, likeness, crossed, judged, ran, sweepErrors>>

-----------------------------------------------------------------------------
(* The breach engine.                                                      *)

\* The plate committed for the track within five minutes of the entry, here any time.
correlate == \E s \in seen : s.cam = 2

sweep ==
    /\ mread["breach"] = {} /\ "breach" \notin ran
    /\ Reading("breach", {[entries |-> {z \in crossed : z.at + scan_window_s >= mnow}, named |-> correlate]})
    /\ UNCHANGED <<mnow, seen, likeness, crossed, candidates, alerts, judged, sweepErrors>>

\* A subject is filled in while there is none; nothing else of an alert is touched.
Backfilled(a, named) == IF a.named THEN a ELSE [a EXCEPT !.named = named]

Raised(r) ==
    {IF a.entry \in r.entries THEN Backfilled(a, r.named) ELSE a : a \in alerts}
      \cup {[entry |-> z, status |-> "open", named |-> r.named, born |-> mnow] :
               z \in {z \in r.entries : \A a \in alerts : a.entry # z}}

\* The statement fails and the sweep is tried again at the next interval.
RaiseBreaches ==
    \E r \in mread["breach"] :
        /\ \/ alerts' = Raised(r) /\ UNCHANGED sweepErrors
           \/ /\ sweepErrors < MaxSweepErrors /\ sweepErrors' = sweepErrors + 1
              /\ UNCHANGED alerts
        /\ Done("breach")
        /\ UNCHANGED <<mnow, seen, likeness, crossed, candidates, judged, ran>>

-----------------------------------------------------------------------------
(* Operators and time.                                                     *)

resolve_candidate(status) ==
    \E c \in candidates :
        /\ candidates' = (candidates \ {c}) \cup {[c EXCEPT !.status = status]}
        /\ judged' = judged \cup {c.pair}
        /\ UNCHANGED <<mnow, seen, likeness, crossed, alerts, mread, ran, sweepErrors>>

set_breach_status(status) ==
    \E a \in alerts :
        /\ alerts' = (alerts \ {a}) \cup {[a EXCEPT !.status = status]}
        /\ UNCHANGED <<mnow, seen, likeness, crossed, candidates, judged, mread, ran, sweepErrors>>

\* trigger_run: the engines run again at once.
trigger_run ==
    /\ ran = Engine /\ mread = [e \in Engine |-> {}] /\ ran' = {}
    /\ UNCHANGED <<mnow, seen, likeness, crossed, candidates, alerts, judged, mread, sweepErrors>>

\* The interval ends: both engines have had their turn.
NextInterval ==
    /\ mnow < MaxTime /\ ran = Engine /\ mread = [e \in Engine |-> {}]
    /\ mnow' = mnow + 1 /\ ran' = {}
    /\ UNCHANGED <<seen, likeness, crossed, candidates, alerts, judged, mread, sweepErrors>>

MovNext ==
    \/ Sight \/ Cross
    \/ propose_vehicle_candidates \/ Propose \/ sweep \/ RaiseBreaches
    \/ \E status \in {"confirmed", "rejected"} : resolve_candidate(status)
    \/ \E status \in {"acknowledged", "resolved"} : set_breach_status(status)
    \/ trigger_run \/ NextInterval

-----------------------------------------------------------------------------
(* Properties.                                                             *)

\* What an operator has decided about a pair is never put before them again: neither a sweep that
\* read the pair before the review, nor one after the candidate was pruned, makes it pending
\* (propose_vehicle_candidates, prune, MovementConfig::from_env).
ReviewFinal == \A c \in candidates : c.pair \in judged => c.status # "pending"

\* No engine step changes the status of an alert, or takes its subject away.
EngineKeepsStatus ==
    \A a \in alerts, b \in alerts' :
        a.entry = b.entry /\ a.born = b.born =>
            /\ a.named => b.named
            /\ a.status # b.status => b.status \in {"acknowledged", "resolved"}

\* An entry into the red zone has its alert, with its subject once the plate is committed, within
\* two intervals of the later of the two, one more for each sweep that failed, as long as the entry
\* was still in the window then (sweep).
BreachNamed ==
    \A z \in crossed, s \in seen :
        LET due == Max({z.at, s.at}) + 2 + sweepErrors IN
        s.cam = 2 /\ mnow >= due /\ due - 1 <= z.at + scan_window_s /\ mnow <= z.at + Retention =>
            \E a \in alerts : a.entry = z /\ a.named

=============================================================================
