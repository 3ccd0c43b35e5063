---------------------------- MODULE EventRecorder ----------------------------
(***************************************************************************)
(* The timing of an event-triggered recording: triggers put the end of a   *)
(* window forward, the supervisor records while the window or a schedule   *)
(* window is open and stops on time (services/recorder.rs,                 *)
(* run_event_supervise, trigger).  One camera and one task; Recorder has   *)
(* the map of tasks, stop and the modes.  A query takes no time, though    *)
(* triggers fall between two of them; what waits, waits to the second, and *)
(* a window's end lies within its second.                                  *)
(***************************************************************************)
EXTENDS Integers, FiniteSetsExt

CONSTANTS Posts,        \* post_roll_seconds the camera is given, from 1: a window of none is over at once
          CHECK_INTERVAL, \* schedule_check_interval_s
          GRACE,        \* seconds FFmpeg has to finish (FINALIZE_GRACE)
          Healthy, BackoffMax, \* the run that resets the backoff, and its cap
          SpawnRetry,   \* seconds after an FFmpeg that could not start
          MaxEvTime, MaxEvErrs \* (bounds)

VARIABLES post,    \* camera: post_roll_seconds
          open,    \* a schedule window is open
          window,  \* the end of the trigger window, 0: none
          changed, \* the supervisor has not yet seen the last change of the window
          sup,     \* [pc, want, wake, since, backoff]
          owed,    \* the latest second a trigger was promised
          closed,  \* when a schedule window last closed, 0: never
          evNow, evErrs

evVars == <<post, open, window, changed, sup, owed, closed, evNow, evErrs>>

EvInit ==
    /\ post \in Posts /\ open \in BOOLEAN /\ window = 0 /\ changed = FALSE
    /\ sup = [pc |-> "top", want |-> FALSE, wake |-> 0, since |-> 0, backoff |-> 1]
    /\ owed = 0 /\ closed = 0 /\ evNow = 1 /\ evErrs = 0
EvFails == evErrs < MaxEvErrs /\ evErrs' = evErrs + 1
EvFine == UNCHANGED evErrs
World == <<post, open, window, owed, closed, evNow>>

-----------------------------------------------------------------------------
\* A trigger puts the end forward and never back.
extend_trigger_window(current, new_end) == IF current > new_end THEN current ELSE new_end

\* The next check is a tick away.
event_recheck_secs_Tick(end) == CHECK_INTERVAL

\* The next check is a tick away, or just after the window's end.
event_recheck_secs(end) == IF end >= evNow THEN Min({CHECK_INTERVAL, end - evNow + 1}) ELSE CHECK_INTERVAL

next_backoff(prev, ran) == IF ran > Healthy THEN 1 ELSE Min({prev * 2, BackoffMax})

\* A detection, an on-camera event or an operator asks for footage.
trigger ==
    LET end == evNow + post
    IN /\ sup.pc # "gone"
       /\ window' = extend_trigger_window(window, end) /\ changed' = TRUE
       /\ owed' = Max({owed, end})
       /\ UNCHANGED <<post, open, closed, sup, evNow>> /\ EvFine

TriggerActive == window # 0 /\ evNow <= window

-----------------------------------------------------------------------------
(* The supervisor.                                                         *)

\* The window is looked at, then the schedule is closed for; the row could not be read: ten seconds.
Look ==
    /\ sup.pc = "top"
    /\ \/ sup' = [sup EXCEPT !.pc = "eval", !.want = TriggerActive] /\ EvFine
       \/ sup' = [sup EXCEPT !.pc = "sleep", !.wake = evNow + SpawnRetry] /\ EvFails
    /\ UNCHANGED <<World, changed>>

\* Neither: wait for a trigger or the tick.
Arm ==
    /\ sup.pc = "eval" /\ ~ (sup.want \/ open)
    /\ sup' = [sup EXCEPT !.pc = "armed", !.wake = evNow + CHECK_INTERVAL]
    /\ UNCHANGED <<World, changed>> /\ EvFine

\* FFmpeg starts, or there is no address or no process.
Start ==
    /\ sup.pc = "eval" /\ (sup.want \/ open)
    /\ \/ sup' = [sup EXCEPT !.pc = "run", !.since = evNow, !.wake = evNow + event_recheck_secs(window)] /\ EvFine
       \/ sup' = [sup EXCEPT !.pc = "sleep", !.wake = evNow + SpawnRetry] /\ EvFails
    /\ UNCHANGED <<World, changed>>

\* The wait ends with a change of the window, one not yet seen when the wait began included.
Woken == changed \/ sup.wake <= evNow
Wake ==
    /\ sup.pc = "armed" /\ Woken
    /\ sup' = [sup EXCEPT !.pc = "top"] /\ changed' = FALSE /\ UNCHANGED World /\ EvFine

\* The window has changed: the deadline is computed again.
Extended ==
    /\ sup.pc = "run" /\ changed /\ changed' = FALSE
    /\ sup' = [sup EXCEPT !.wake = evNow + event_recheck_secs(window)] /\ UNCHANGED World /\ EvFine

\* The deadline: the window is looked at, then the schedule.
Recheck ==
    /\ \/ sup.pc = "run" /\ sup.wake <= evNow /\ sup' = [sup EXCEPT !.pc = "check", !.want = TriggerActive]
       \/ sup.pc = "check" /\ (sup.want \/ open) /\ sup' = [sup EXCEPT !.pc = "run", !.wake = evNow + event_recheck_secs(window)]
       \/ sup.pc = "check" /\ ~ (sup.want \/ open) /\ sup' = [sup EXCEPT !.pc = "closing", !.wake = evNow + GRACE]
    /\ UNCHANGED <<World, changed>> /\ EvFine

\* FFmpeg finishes its segment, or is killed after the grace; then all over again.
finish_and_stop ==
    /\ sup.pc = "closing" /\ sup' = [sup EXCEPT !.pc = "top", !.backoff = 1]
    /\ UNCHANGED <<World, changed>> /\ EvFine

\* FFmpeg exits by itself: back off and connect again.
Exited ==
    /\ sup.pc = "run" /\ EvFails
    /\ LET b == next_backoff(sup.backoff, evNow - sup.since)
       IN sup' = [sup EXCEPT !.pc = "sleep", !.backoff = b, !.wake = evNow + b]
    /\ UNCHANGED <<World, changed>>

Slept ==
    /\ sup.pc = "sleep" /\ sup.wake <= evNow
    /\ sup' = [sup EXCEPT !.pc = "top"] /\ UNCHANGED <<World, changed>> /\ EvFine

\* A reconcile puts a task with no window in this one's place.
reconcile ==
    /\ EvFails /\ sup' = [pc |-> "top", want |-> FALSE, wake |-> 0, since |-> 0, backoff |-> 1]
    /\ window' = 0 /\ changed' = FALSE /\ owed' = 0 /\ UNCHANGED <<post, open, closed, evNow>>

-----------------------------------------------------------------------------
\* The camera is edited, or a schedule window opens or closes.
Edit ==
    /\ \/ \E p \in Posts \ {post} : post' = p /\ UNCHANGED <<open, closed>>
       \/ open' = ~ open /\ closed' = (IF open THEN evNow ELSE closed) /\ UNCHANGED post
    /\ EvFails /\ UNCHANGED <<window, changed, sup, owed, evNow>>

\* Time passes while everything waits; the finishing of a segment takes as long as it takes.
Waits ==
    \/ sup.pc = "armed" /\ ~ Woken
    \/ sup.pc = "run" /\ ~ changed /\ sup.wake > evNow
    \/ sup.pc \in {"sleep", "closing"} /\ sup.wake > evNow
EvTick ==
    /\ Waits /\ evNow < MaxEvTime /\ evNow' = evNow + 1
    /\ UNCHANGED <<post, open, window, changed, sup, owed, closed, evErrs>>

EvNext ==
    \/ trigger \/ Look \/ Arm \/ Start \/ Wake \/ Extended \/ Recheck \/ finish_and_stop \/ Exited \/ Slept
    \/ reconcile \/ Edit \/ EvTick

-----------------------------------------------------------------------------
(* Properties.                                                             *)

\* FFmpeg runs until the last second any trigger was promised: when time passes before it, the
\* supervisor records, or is on its way back from an exit, or finishes a segment whose window was
\* over when the trigger came (recorder.rs 437-439, 771-773).
PostRollKept == evNow' # evNow /\ evNow <= owed => sup.pc # "armed"

\* A recording ends on time: none runs on a second past the windows' end, but one whose schedule has
\* closed since the last tick (recorder.rs 573, 785-786).
StopsOnTime ==
    evNow' # evNow /\ sup.pc = "run" /\ ~ open => evNow <= owed \/ (closed # 0 /\ evNow < closed + CHECK_INTERVAL)
=============================================================================
