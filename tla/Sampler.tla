------------------------------- MODULE Sampler -------------------------------
(***************************************************************************)
(* The AI frame sampler (sampler.rs): one decoder for every camera that    *)
(* has an enabled AI task, all of them stopped and started again, with a   *)
(* newly divided frame budget, after every change of a camera or a task.   *)
(* One stream profile per camera; the cameras are 1..Cams in the order of  *)
(* their priority.  Rates are in units of MIN_FPS / 144 and widths in      *)
(* units of 40 pixels, so that every cost of the ladder is a whole number. *)
(* The status table behind GET /ai/samplers is left out.                   *)
(***************************************************************************)
EXTENDS Integers, FiniteSets, Sequences, FiniteSetsExt

CONSTANTS Cams,        \* number of cameras
          Wanted,      \* the <<fps, width>> an AI task can ask for
          ai_budget,   \* ai_max_total_fps
          SamEditor,   \* requests that change a camera or a task
          MaxSamEdits, \* changes made (bound)
          MaxSamErrors \* failing statements and failing decoders (bound)

VARIABLES want,   \* camera -> <<fps, width>> its enabled task asks for, or None
          edited, \* number of changes made
          editor, \* request -> its pass through rebalance: the cameras done, the one awaited, the rows, the change read
          guard,  \* who holds rebalance_lock, or "none"
          tasks,  \* camera -> the number of the supervisor the table names, or 0
          sups,   \* supervisors alive: [cam, id, grant, asked, stop, pc]
          settled,\* the change the last whole pass had read, or -1 (it failed, or was cut short)
          hung,   \* a request was dropped while it waited for a decoder to end
          samErrs

samVars == <<want, edited, editor, guard, tasks, sups, settled, hung, samErrs>>

None == <<0, 0>>
Camera == 1 .. Cams
Boot == "boot"
Stop == "shutdown"
Actor == SamEditor \cup {Boot, Stop}
Idle == [pc |-> "rest", ids |-> {}, on |-> <<0, 0>>, rows |-> <<>>, read |-> -1]

-----------------------------------------------------------------------------
(* The division of the budget.                                             *)

MIN_FPS == 144
LADDER_STEPS == <<4, 3, 2>>  \* quarters of the requested width
MIN_LADDER_WIDTH == 8

frame_cost(fps, width, width_req) ==
    LET w == IF width < width_req THEN width ELSE width_req
    IN (fps * w * w) \div (width_req * width_req)

ladder_floor_cost == (MIN_FPS * 2 * 2) \div (4 * 4)

\* What a grant takes from the budget.
Charged(grant, req) == IF grant = None THEN 0 ELSE frame_cost(grant[1], grant[2], req[2])

\* The rungs a camera can be put on: the floor rate, at a width never below the minimum.
Rungs(req) ==
    [s \in 1 .. Len(LADDER_STEPS) |->
        LET w == (req[2] * LADDER_STEPS[s]) \div 4
        IN <<MIN_FPS, IF w < MIN_LADDER_WIDTH THEN MIN_LADDER_WIDTH ELSE w>>]

\* Full width if a full-width floor is left for everyone behind; otherwise the first rung that fits
\* when only the ladder's own floor is left to them; otherwise nothing.
Granted(req, remaining, after) ==
    LET headroom_full == remaining - MIN_FPS * after
        headroom == remaining - ladder_floor_cost * after
        fits == SelectSeq(Rungs(req), LAMBDA g : frame_cost(g[1], g[2], req[2]) <= IF headroom > 0 THEN headroom ELSE 0)
    IN IF headroom_full >= MIN_FPS
       THEN <<IF req[1] < MIN_FPS THEN MIN_FPS ELSE IF req[1] < headroom_full THEN req[1] ELSE headroom_full, req[2]>>
       ELSE IF fits = <<>> THEN None ELSE fits[1]

\* rows: the requests, the highest priority first.  Those beyond the admission count get nothing.
allocate(rows) ==
    LET admissible == ai_budget \div ladder_floor_cost
        run == IF Len(rows) < admissible THEN Len(rows) ELSE admissible
        remaining[i \in 0 .. run] ==
            IF i = 0 THEN ai_budget
            ELSE remaining[i - 1] - Charged(Granted(rows[i], remaining[i - 1], run - i), rows[i])
    IN [i \in 1 .. Len(rows) |-> IF i <= run THEN Granted(rows[i], remaining[i - 1], run - i) ELSE None]

\* The cameras with an enabled task, the highest priority first.
Listed(w) == SelectSeq([c \in Camera |-> c], LAMBDA c : w[c] # None)
Share(w, c) ==
    LET out == allocate([i \in 1 .. Len(Listed(w)) |-> w[Listed(w)[i]]])
    IN IF w[c] = None THEN None ELSE out[CHOOSE i \in DOMAIN Listed(w) : Listed(w)[i] = c]

SamInit ==
    /\ want \in [Camera -> Wanted \cup {None}]
    /\ edited = 0 /\ guard = "none"
    /\ editor = [e \in Actor |-> [Idle EXCEPT !.pc = CASE e = Boot -> "lock" [] e = Stop -> "run" [] OTHER -> "rest"]]
    /\ tasks = [c \in Camera |-> 0] /\ sups = {} /\ settled = -1 /\ hung = FALSE /\ samErrs = 0

Step(e, pc) == editor' = [editor EXCEPT ![e].pc = pc]
SamFails == samErrs < MaxSamErrors /\ samErrs' = samErrs + 1

-----------------------------------------------------------------------------
(* A change, and the pass that follows it.                                 *)

\* A camera or a task is changed, and the handler calls reconcile.
Change(e) ==
    /\ editor[e].pc = "rest" /\ edited < MaxSamEdits
    /\ \E c \in Camera, w \in Wanted \cup {None} : w # want[c] /\ want' = [want EXCEPT ![c] = w]
    /\ edited' = edited + 1
    /\ Step(e, "lock")
    /\ UNCHANGED <<guard, tasks, sups, settled, hung, samErrs>>

\* Passes are serialised; each begins with the tasks in the table.
rebalance(e) ==
    /\ editor[e].pc = "lock" /\ guard = "none"
    /\ guard' = e /\ settled' = -1
    /\ editor' = [editor EXCEPT ![e].pc = "stop", ![e].ids = {c \in Camera : tasks[c] # 0}]
    /\ UNCHANGED <<want, edited, tasks, sups, hung, samErrs>>

\* stop takes a task out of the table and tells it to end.
stop(e) ==
    /\ editor[e].pc = "stop"
    /\ \E c \in editor[e].ids :
          /\ tasks' = [tasks EXCEPT ![c] = 0]
          /\ sups' = {[s EXCEPT !.stop = s.stop \/ (s.cam = c /\ s.id = tasks[c])] : s \in sups}
          /\ editor' = [editor EXCEPT ![e].pc = "await", ![e].ids = @ \ {c}, ![e].on = <<c, tasks[c]>>]
    /\ UNCHANGED <<want, edited, guard, settled, hung, samErrs>>

\* It waits for the task, which ends by itself or, after 8 s, is aborted (its process with it).
Await(e) ==
    /\ editor[e].pc = "await" /\ \A s \in sups : <<s.cam, s.id>> # editor[e].on
    /\ Step(e, "stop")
    /\ UNCHANGED <<want, edited, guard, tasks, sups, settled, hung, samErrs>>

\* Everything is stopped: the rows are read.  A statement that fails reads as no row at all.
ReadRows(e) ==
    /\ editor[e].pc = "stop" /\ editor[e].ids = {} /\ e # Stop
    /\ \/ editor' = [editor EXCEPT ![e].pc = "spawn", ![e].rows = want, ![e].read = edited] /\ UNCHANGED samErrs
       \/ SamFails /\ editor' = [editor EXCEPT ![e].pc = "spawn", ![e].rows = [c \in Camera |-> None]]
    /\ UNCHANGED <<want, edited, guard, tasks, sups, settled, hung>>

\* The cameras of a pass that have a share and no task yet.
Unserved(e) == {c \in Camera : Share(editor[e].rows, c) # None /\ c \notin editor[e].ids}
Fresh(c) == CHOOSE n \in 1 .. (Cardinality(sups) + 1) : \A s \in sups : <<s.cam, s.id>> # <<c, n>>

\* The one of the highest priority gets a task; one already in the table is aborted.
spawn(e) ==
    /\ editor[e].pc = "spawn"
    /\ \E c \in Unserved(e) :
          /\ \A d \in Unserved(e) : c <= d
          /\ tasks' = [tasks EXCEPT ![c] = Fresh(c)]
          /\ sups' = {s \in sups : s.cam # c \/ s.id # tasks[c]} \cup
                     {[cam |-> c, id |-> Fresh(c), grant |-> Share(editor[e].rows, c), asked |-> editor[e].rows[c][2],
                       stop |-> FALSE, pc |-> "look"]}
          /\ editor' = [editor EXCEPT ![e].ids = @ \cup {c}]
    /\ UNCHANGED <<want, edited, guard, settled, hung, samErrs>>

\* The pass is over.
Done(e) ==
    /\ editor[e].pc = "spawn" /\ Unserved(e) = {}
    /\ guard' = IF guard = e THEN "none" ELSE guard
    /\ settled' = editor[e].read /\ editor' = [editor EXCEPT ![e] = Idle]
    /\ UNCHANGED <<want, edited, tasks, sups, hung, samErrs>>

\* The process is told to end while it still takes requests: one more pass, which starts nothing.
shutdown ==
    /\ \/ editor[Stop].pc = "run" /\ Step(Stop, "lock") /\ UNCHANGED guard
       \/ editor[Stop].pc = "stop" /\ editor[Stop].ids = {} /\ Step(Stop, "done") /\ guard' = "none"
    /\ UNCHANGED <<want, edited, tasks, sups, settled, hung, samErrs>>

\* The client goes away: the handler is dropped wherever it is, and with it the rest of its pass.
HangUp(e) ==
    /\ editor[e].pc # "rest"
    /\ guard' = IF guard = e THEN "none" ELSE guard
    /\ editor' = [editor EXCEPT ![e] = Idle]
    /\ hung' = (hung \/ editor[e].pc = "await")
    /\ UNCHANGED <<want, edited, tasks, sups, settled, samErrs>>

-----------------------------------------------------------------------------
(* A supervisor.                                                           *)

Becomes(s, pc) == sups' = (sups \ {s}) \cup {[s EXCEPT !.pc = pc]}

\* Its camera or its task is gone: it takes itself out of the table, by its key.
cleanup_self(s) == sups' = sups \ {s} /\ tasks' = [tasks EXCEPT ![s.cam] = 0]

\* It looks at its camera and starts the decoder; a failure sends it to sleep.
supervise(s) ==
    /\ s.pc = "look" /\ ~ s.stop
    /\ \/ want[s.cam] = None /\ cleanup_self(s) /\ UNCHANGED samErrs
       \/ want[s.cam] # None /\ Becomes(s, "run") /\ UNCHANGED <<tasks, samErrs>>
       \/ SamFails /\ Becomes(s, "sleep") /\ UNCHANGED tasks
    /\ UNCHANGED <<want, edited, editor, guard, settled, hung>>

\* The decoder ends by itself.
Offline(s) ==
    /\ s.pc = "run" /\ SamFails /\ Becomes(s, "sleep")
    /\ UNCHANGED <<want, edited, editor, guard, tasks, settled, hung>>

sleep_or_stop(s) ==
    /\ s.pc = "sleep" /\ ~ s.stop /\ Becomes(s, "look")
    /\ UNCHANGED <<want, edited, editor, guard, tasks, settled, hung, samErrs>>

\* Told to end, it kills its decoder and is gone.
Ends(s) ==
    /\ s.stop /\ sups' = sups \ {s}
    /\ UNCHANGED <<want, edited, editor, guard, tasks, settled, hung, samErrs>>

SamNext ==
    \/ \E e \in SamEditor : Change(e) \/ HangUp(e)
    \/ \E e \in Actor : rebalance(e) \/ stop(e) \/ Await(e) \/ ReadRows(e) \/ spawn(e) \/ Done(e)
    \/ shutdown
    \/ \E s \in sups : supervise(s) \/ Offline(s) \/ sleep_or_stop(s) \/ Ends(s)

-----------------------------------------------------------------------------
(* What must hold.                                                         *)

\* The decoders no one has told to end.
Kept == {s \in sups : ~ s.stop}

\* sampler.rs:124, "total cost cannot exceed the budget even at the ladder floor": whatever passes,
\* changes and failures meet, the decoders meant to run cost no more than the budget, a frame
\* costing the square of the scale it was reduced to.
WithinBudget ==
    MapThenSumSet(LAMBDA s : IF s.grant[2] < s.asked
                             THEN (s.grant[1] * s.grant[2] * s.grant[2]) \div (s.asked * s.asked)
                             ELSE s.grant[1], Kept) <= ai_budget

\* sampler.rs:93, "so concurrent AI-task edits cannot race into overlapping ffmpegs": a camera never
\* has two decoders, unless a request was dropped while it waited for one to end.
OneDecoder == ~ hung => \A c \in Camera : Cardinality({s \in sups : s.cam = c /\ s.pc = "run"}) <= 1

\* Once a whole pass has read the last change, the decoders are those the division of the budget
\* gives to the cameras as they are, whichever passes it had to wait for.
Settled ==
    (settled = edited /\ guard = "none")
        => \A c \in Camera : {s.grant : s \in {t \in Kept : t.cam = c}} = {Share(want, c)} \ {None}

\* sampler.rs:126-129, "steps lower-priority cameras down ... before any camera is shed", and :142,
\* "lowest-priority cameras will not be sampled": no camera goes without while one of a lower
\* priority is sampled.
ShedFromBottom ==
    (settled = edited /\ guard = "none")
        => \A c, d \in Camera : c < d /\ want[c] # None /\ (\E s \in Kept : s.cam = d) => \E s \in Kept : s.cam = c

=============================================================================
