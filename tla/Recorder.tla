------------------------------- MODULE Recorder -------------------------------
(***************************************************************************)
(* The recorder of one camera (recorder.rs): the map of supervised tasks,  *)
(* the supervisor tasks with their FFmpeg, and the calls that reconcile,   *)
(* stop, trigger and watch the schedule.  Cameras share only the map's     *)
(* lock.  camera_status and the event log are written and never read here, *)
(* and times (backoff, post-roll, ticks) are steps that may come at any    *)
(* moment.                                                                 *)
(***************************************************************************)
EXTENDS Naturals, FiniteSets, TLAPS

CONSTANTS User,        \* concurrent API calls on this camera
          Watcher,     \* the schedule watcher
          Task,        \* task identities; a finished one is used again
          None,        \* no task
          MaxChanges,  \* bound: changes of the row and the schedule, failed queries
          Faults       \* the environment events of this instance

FaultKinds ==
  { "delete_race" }  \* a camera is deleted while another call is on it

ASSUME RecorderAssumption ==
  /\ Watcher \notin User /\ None \notin Task
  /\ MaxChanges \in Nat /\ Faults \subseteq FaultKinds

VARIABLES
  cam,      \* the camera row: exists, on (should_record), record_mode
  open,     \* a recording window is open
  reg,      \* the map's entry for this camera
  task,     \* task[g]: a supervisor task
  call,     \* call[c]: a reconcile, a delete or the watcher's round
  lost,     \* history: a call or a query came to nothing since the last stop
  changes

vars == <<cam, open, reg, task, call, lost, changes>>

Caller == User \cup {Watcher}
Mode   == {"continuous", "scheduled", "event", "scheduled_event"}
EventCapable(m) == m \in {"event", "scheduled_event"}

Gone == [pc |-> "gone", kind |-> "plain", stop |-> FALSE, aborted |-> FALSE,
         trig |-> FALSE, ff |-> FALSE]
Rest == [pc |-> "rest", op |-> "reconcile", old |-> None, seen |-> FALSE]

TaskType == [pc : {"gone", "start", "top", "decide", "armed", "connect", "run",
                   "closing", "finish", "sleep", "exit"},
             kind : {"plain", "event"}, stop : BOOLEAN, aborted : BOOLEAN,
             trig : BOOLEAN, ff : BOOLEAN]
CallType == [pc : {"rest", "stop", "wait", "load", "eval", "spawn", "delete", "look"},
             op : {"reconcile", "delete"}, old : Task \cup {None}, seen : BOOLEAN]

TypeOK ==
  /\ cam \in [exists : BOOLEAN, on : BOOLEAN, mode : Mode]
  /\ open \in BOOLEAN
  /\ reg \in Task \cup {None}
  /\ task \in [Task -> TaskType]
  /\ call \in [Caller -> CallType]
  /\ lost \in BOOLEAN
  /\ changes \in Nat

(* eval_schedule: whether the record mode and the schedule ask for recording. *)
EvalSchedule == \/ cam.mode = "continuous"
                \/ cam.mode \in {"scheduled", "scheduled_event"} /\ open

(* What it answers when a query of it fails: a mode it cannot read counts as
   continuous, schedules it cannot read as none. *)
EvalFailing == IF cam.mode \in {"scheduled", "scheduled_event"} THEN BOOLEAN ELSE {TRUE}

(* The state start_all leaves: a task for the camera if it should record now
   or is armed for events. *)
Wanted == cam.exists /\ cam.on /\ (EventCapable(cam.mode) \/ EvalSchedule)

Init ==
  /\ cam \in [exists : {TRUE}, on : BOOLEAN, mode : Mode]
  /\ open \in BOOLEAN
  /\ reg \in IF Wanted THEN Task ELSE {None}
  /\ task = [g \in Task |-> IF g = reg THEN [Gone EXCEPT !.pc = "start"] ELSE Gone]
  /\ call = [c \in Caller |-> Rest]
  /\ lost = FALSE
  /\ changes = 0

-----------------------------------------------------------------------------
(* A PATCH of the camera or of its schedule commits, then reconciles. *)
Update(c) ==
  /\ call[c].pc = "rest" /\ changes < MaxChanges /\ cam.exists
  /\ changes' = changes + 1
  /\ \/ /\ \E on \in BOOLEAN, m \in Mode : cam' = [cam EXCEPT !.on = on, !.mode = m]
        /\ UNCHANGED open
     \/ /\ open' \in BOOLEAN /\ UNCHANGED cam
  /\ call' = [call EXCEPT ![c] = [Rest EXCEPT !.pc = "stop"]]
  /\ UNCHANGED <<reg, task, lost>>

(* A window opens or closes as time passes. *)
WindowFlips ==
  /\ changes < MaxChanges
  /\ changes' = changes + 1
  /\ open' = ~open
  /\ UNCHANGED <<cam, reg, task, call, lost>>

DeleteBegin(c) ==
  /\ call[c].pc = "rest" /\ cam.exists /\ changes < MaxChanges
  /\ changes' = changes + 1
  /\ call' = [call EXCEPT ![c] = [Rest EXCEPT !.pc = "stop", !.op = "delete"]]
  /\ UNCHANGED <<cam, open, reg, task, lost>>

(* stop takes the task out of the map and signals it. *)
Stop(c) ==
  /\ call[c].pc = "stop"
  /\ reg' = None
  /\ task' = IF reg = None THEN task ELSE [task EXCEPT ![reg].stop = TRUE]
  /\ call' = [call EXCEPT ![c].pc = "wait", ![c].old = reg]
  /\ lost' = FALSE
  /\ UNCHANGED <<cam, open, changes>>

(* It waits for the task to end, and aborts it when that takes too long. *)
Wait(c) ==
  /\ call[c].pc = "wait"
  /\ task' = IF call[c].old = None THEN task ELSE [task EXCEPT ![call[c].old] = Gone]
  /\ call' = [call EXCEPT ![c].pc = IF call[c].op = "delete" THEN "delete" ELSE "load", ![c].old = None]
  /\ UNCHANGED <<cam, open, reg, lost, changes>>

(* The row is read again. *)
Load(c) ==
  /\ call[c].pc = "load"
  /\ call' = [call EXCEPT ![c].pc = IF ~(cam.exists /\ cam.on) THEN "rest"
                                    ELSE IF EventCapable(cam.mode) THEN "spawn" ELSE "eval"]
  /\ UNCHANGED <<cam, open, reg, task, lost, changes>>

Eval(c) ==
  /\ call[c].pc = "eval"
  /\ call' = [call EXCEPT ![c].pc = IF EvalSchedule THEN "spawn" ELSE "rest"]
  /\ UNCHANGED <<cam, open, reg, task, lost, changes>>

(* A query of a call fails.  A reconcile that cannot read the row ends. *)
QueryFails(c) ==
  /\ changes < MaxChanges
  /\ changes' = changes + 1
  /\ \/ /\ call[c].pc = "load" /\ lost' = TRUE
        /\ call' = [call EXCEPT ![c].pc = "rest"]
     \/ /\ call[c].pc = "eval" /\ lost' = TRUE
        /\ \E want \in EvalFailing : call' = [call EXCEPT ![c].pc = IF want THEN "spawn" ELSE "rest"]
     \/ /\ call[c].pc = "look" /\ UNCHANGED lost
        /\ \E want \in EvalFailing :
             call' = [call EXCEPT ![c].pc = IF want # call[c].seen THEN "stop" ELSE "rest"]
  /\ UNCHANGED <<cam, open, reg, task>>

Free(g) == task[g].pc = "gone" /\ \A c \in Caller : call[c].old # g

(* spawn registers the new task; one it displaces is signalled and aborted. *)
Spawn(c, g) ==
  /\ call[c].pc = "spawn" /\ Free(g)
  /\ reg' = g
  /\ task' = [h \in Task |->
       IF h = g THEN [Gone EXCEPT !.pc = "start"]
       ELSE IF h = reg THEN [task[h] EXCEPT !.stop = TRUE, !.aborted = TRUE]
       ELSE task[h]]
  /\ call' = [call EXCEPT ![c].pc = "rest"]
  /\ UNCHANGED <<cam, open, lost, changes>>

(* The camera row goes, a while after its recorder was stopped. *)
DeleteRow(c) ==
  /\ call[c].pc = "delete"
  /\ "delete_race" \in Faults \/ (reg = None /\ \A d \in Caller \ {c} : call[d].pc \in {"rest", "delete"})
  /\ cam' = [cam EXCEPT !.exists = FALSE]
  /\ call' = [call EXCEPT ![c] = Rest]
  /\ UNCHANGED <<open, reg, task, lost, changes>>

(* The API client disconnects: its handler is dropped where it stands. *)
Hangup(c) ==
  /\ c # Watcher /\ call[c].pc # "rest"
  /\ call' = [call EXCEPT ![c] = Rest]
  /\ lost' = TRUE
  /\ UNCHANGED <<cam, open, reg, task, changes>>

(* reconcile_schedules: the cameras and the running set are read first, the
   schedule after. *)
WatchLook ==
  /\ call[Watcher].pc = "rest"
  /\ cam.exists /\ cam.on /\ cam.mode = "scheduled"
  /\ call' = [call EXCEPT ![Watcher] = [Rest EXCEPT !.pc = "look", !.seen = reg # None]]
  /\ UNCHANGED <<cam, open, reg, task, lost, changes>>

(* Mutant of WatchDecide: windows are only ever opened. *)
WatchDecide_OpensOnly ==
  /\ call[Watcher].pc = "look"
  /\ call' = [call EXCEPT ![Watcher].pc =
                IF EvalSchedule /\ ~call[Watcher].seen THEN "stop" ELSE "rest"]
  /\ UNCHANGED <<cam, open, reg, task, lost, changes>>

WatchDecide ==
  /\ call[Watcher].pc = "look"
  /\ call' = [call EXCEPT ![Watcher].pc =
                IF EvalSchedule # call[Watcher].seen THEN "stop" ELSE "rest"]
  /\ UNCHANGED <<cam, open, reg, task, lost, changes>>

(* A zone event, a camera event or an operator asks for a recording; a plain
   supervisor never looks at it. *)
Trigger ==
  /\ cam.exists /\ cam.on /\ EventCapable(cam.mode)
  /\ reg # None /\ (task[reg].pc = "start" \/ task[reg].kind = "event")
  /\ task' = [task EXCEPT ![reg].trig = TRUE]
  /\ UNCHANGED <<cam, open, reg, call, lost, changes>>

-----------------------------------------------------------------------------
(* supervise: the supervisor is chosen by the mode at the start. *)
Begin(g) ==
  /\ task[g].pc = "start"
  /\ task' = [task EXCEPT ![g].pc = "top",
                          ![g].kind = IF EventCapable(cam.mode) THEN "event" ELSE "plain"]
  /\ UNCHANGED <<cam, open, reg, call, lost, changes>>

(* The head of both supervisors' loops. *)
Leave(g) == \/ task[g].stop
            \/ ~(cam.exists /\ cam.on)
            \/ task[g].kind = "event" /\ ~EventCapable(cam.mode)

Top(g) ==
  /\ task[g].pc = "top"
  /\ task' = [task EXCEPT ![g].pc =
       IF Leave(g) THEN "exit" ELSE IF task[g].kind = "event" THEN "decide" ELSE "connect"]
  /\ UNCHANGED <<cam, open, reg, call, lost, changes>>

WantsEvent(g) == task[g].trig \/ EvalSchedule

Decide(g) ==
  /\ task[g].pc = "decide"
  /\ task' = [task EXCEPT ![g].pc = IF WantsEvent(g) THEN "connect" ELSE "armed"]
  /\ UNCHANGED <<cam, open, reg, call, lost, changes>>

(* A query of a supervisor fails. *)
TaskQueryFails(g) ==
  /\ changes < MaxChanges
  /\ changes' = changes + 1
  /\ \/ /\ task[g].pc = "start" /\ lost' = TRUE
        /\ task' = [task EXCEPT ![g].pc = "top", ![g].kind = "plain"]
     \/ /\ task[g].pc = "top" /\ ~task[g].stop /\ UNCHANGED lost
        /\ task' = [task EXCEPT ![g].pc = "sleep"]
     \/ /\ task[g].pc = "decide" /\ UNCHANGED lost
        /\ \E want \in EvalFailing :
             task' = [task EXCEPT ![g].pc = IF task[g].trig \/ want THEN "connect" ELSE "armed"]
     \/ /\ task[g].pc = "run" /\ task[g].kind = "event" /\ ~task[g].trig /\ UNCHANGED lost
        /\ FALSE \in EvalFailing
        /\ task' = [task EXCEPT ![g].pc = "closing"]
  /\ UNCHANGED <<cam, open, reg, call>>

(* A stop, a trigger or the tick. *)
Wake(g) ==
  /\ task[g].pc \in {"armed", "sleep"}
  /\ task' = [task EXCEPT ![g].pc = IF task[g].stop THEN "exit" ELSE "top"]
  /\ UNCHANGED <<cam, open, reg, call, lost, changes>>

(* FFmpeg starts, or cannot (no URL, no process). *)
Connect(g) ==
  /\ task[g].pc = "connect"
  /\ \/ task' = [task EXCEPT ![g].pc = "run", ![g].ff = TRUE]
     \/ task' = [task EXCEPT ![g].pc = "sleep"]
  /\ UNCHANGED <<cam, open, reg, call, lost, changes>>

(* FFmpeg exits: back off and reconnect. *)
StreamEnds(g) ==
  /\ task[g].pc = "run"
  /\ task' = [task EXCEPT ![g].pc = "sleep", ![g].ff = FALSE]
  /\ UNCHANGED <<cam, open, reg, call, lost, changes>>

SeesStop(g) ==
  /\ task[g].pc = "run" /\ task[g].stop
  /\ task' = [task EXCEPT ![g].pc = "finish"]
  /\ UNCHANGED <<cam, open, reg, call, lost, changes>>

WindowCloses(g) ==
  /\ task[g].pc = "run" /\ task[g].kind = "event" /\ ~WantsEvent(g)
  /\ task' = [task EXCEPT ![g].pc = "closing"]
  /\ UNCHANGED <<cam, open, reg, call, lost, changes>>

(* finish_and_stop: SIGTERM, a grace period, SIGKILL. *)
Finish(g) ==
  /\ task[g].pc \in {"finish", "closing"}
  /\ task' = [task EXCEPT ![g].pc = IF @ = "finish" THEN "exit" ELSE "top", ![g].ff = FALSE]
  /\ UNCHANGED <<cam, open, reg, call, lost, changes>>

(* Mutant of Exit: the entry is removed whoever it belongs to. *)
Exit_Any(g) ==
  /\ task[g].pc = "exit"
  /\ reg' = None
  /\ task' = [task EXCEPT ![g] = Gone]
  /\ UNCHANGED <<cam, open, call, lost, changes>>

(* A task that ends removes its own entry and no other. *)
Exit(g) ==
  /\ task[g].pc = "exit"
  /\ reg' = IF reg = g THEN None ELSE reg
  /\ task' = [task EXCEPT ![g] = Gone]
  /\ UNCHANGED <<cam, open, call, lost, changes>>

(* An abort takes effect; dropping the task kills its FFmpeg. *)
Aborted(g) ==
  /\ task[g].aborted
  /\ task' = [task EXCEPT ![g] = Gone]
  /\ UNCHANGED <<cam, open, reg, call, lost, changes>>

(* The post-roll of the last trigger is over. *)
TriggerLapses(g) ==
  /\ task[g].trig
  /\ task' = [task EXCEPT ![g].trig = FALSE]
  /\ UNCHANGED <<cam, open, reg, call, lost, changes>>

Supervise(g) == \/ Begin(g) \/ Top(g) \/ Decide(g) \/ Wake(g) \/ Connect(g) \/ SeesStop(g)
                \/ WindowCloses(g) \/ Finish(g) \/ Exit(g) \/ Aborted(g)
Progress(c)  == \/ Stop(c) \/ Wait(c) \/ Load(c) \/ Eval(c) \/ DeleteRow(c)
                \/ \E g \in Task : Spawn(c, g)
Watch        == WatchLook \/ WatchDecide

Next == \/ \E u \in User : Update(u) \/ DeleteBegin(u) \/ Hangup(u)
        \/ \E c \in Caller : Progress(c) \/ QueryFails(c)
        \/ Watch \/ WindowFlips \/ Trigger
        \/ \E g \in Task : Supervise(g) \/ StreamEnds(g) \/ TriggerLapses(g) \/ TaskQueryFails(g)

Spec == Init /\ [][Next]_vars

(* Tasks and calls are polled, the watcher ticks; the world owes nothing. *)
FairSpec == /\ Spec
            /\ \A g \in Task : WF_vars(Supervise(g))
            /\ \A c \in Caller : WF_vars(Progress(c))
            /\ WF_vars(Watch)

-----------------------------------------------------------------------------
Alive(g) == task[g].pc # "gone"
Recording == {g \in Task : task[g].ff}

(* The map names exactly the supervisor that is running and has not been told
   to stop: none is left behind, and no entry outlives its task, however
   reconciles, deletes, spawns and exits interleave (recorder.rs spawn, stop
   and the clean-up of supervise). *)
MapExact == {g \in Task : Alive(g) /\ ~task[g].stop} = {reg} \ {None}

(* FFmpeg processes of one camera never overlap (recorder.rs spawn). *)
OneFfmpeg == Cardinality(Recording) <= 1

(* When the camera, its schedule and the calls have settled, the camera has a
   supervisor of its mode's kind exactly if it should be supervised, and no
   FFmpeg but that supervisor's is left.  A call dropped half-way or a failed
   query may leave a camera wrong only if the schedule watcher does not look
   after it (recorder.rs reconcile and reconcile_schedules). *)
Right == /\ Wanted <=> reg # None
         /\ reg # None => \/ task[reg].pc = "start"
                          \/ task[reg].kind = "event" <=> EventCapable(cam.mode)
Watched == cam.exists /\ cam.on /\ cam.mode = "scheduled"

Converges == <>[](/\ ~lost => Right
                  /\ Watched => (Wanted <=> reg # None)
                  /\ Recording \subseteq {reg})

-----------------------------------------------------------------------------
(* Proofs: the task map is exact for every number of callers and tasks.    *)

(* MapExact, task by task. *)
Exact == \A g \in Task : (task[g].pc # "gone" /\ ~task[g].stop) <=> g = reg

(* A task that is aborted was told to stop, and one that a stop waits for is
   not the registered one. *)
Parted == /\ \A g \in Task : task[g].aborted => task[g].stop
          /\ \A c \in Caller : call[c].old # None => call[c].old # reg

IInv == TypeOK /\ Exact /\ Parted

-----------------------------------------------------------------------------
(* The values that calls and tasks are reset to have their types. *)
LEMMA ResetTypes ==
  /\ Rest \in CallType
  /\ [Rest EXCEPT !.pc = "stop"] \in CallType
  /\ [Rest EXCEPT !.pc = "stop", !.op = "delete"] \in CallType
  /\ \A b \in BOOLEAN : [Rest EXCEPT !.pc = "look", !.seen = b] \in CallType
  /\ Gone \in TaskType
  /\ [Gone EXCEPT !.pc = "start"] \in TaskType
  BY DEF Rest, CallType, Gone, TaskType

(* Every step keeps the recorder's state in its type. *)
LEMMA TypeStep == TypeOK /\ [Next]_vars => TypeOK'
<1> SUFFICES ASSUME TypeOK, [Next]_vars PROVE TypeOK'
  OBVIOUS
<1> USE DEF TypeOK
<1>1. ASSUME NEW u \in User, Update(u) PROVE TypeOK'
  <2>1. cam' \in [exists : BOOLEAN, on : BOOLEAN, mode : Mode]
    BY <1>1 DEF Update
  <2>2. call' \in [Caller -> CallType]
    BY <1>1, ResetTypes DEF Update, Caller
  <2>3. changes' = changes + 1 /\ open' \in BOOLEAN /\ UNCHANGED <<reg, task, lost>>
    BY <1>1 DEF Update
  <2> QED
    BY <2>1, <2>2, <2>3
<1>2. ASSUME NEW u \in User, DeleteBegin(u) PROVE TypeOK'
  <2>1. call' \in [Caller -> CallType]
    BY <1>2, ResetTypes DEF DeleteBegin, Caller
  <2>2. changes' = changes + 1 /\ UNCHANGED <<cam, open, reg, task, lost>>
    BY <1>2 DEF DeleteBegin
  <2> QED
    BY <2>1, <2>2
<1>3. ASSUME NEW u \in User, Hangup(u) PROVE TypeOK'
  BY <1>3, ResetTypes DEF Hangup, Caller
<1>4. ASSUME NEW c \in Caller, Stop(c) PROVE TypeOK'
  <2>1. reg # None => [task[reg] EXCEPT !.stop = TRUE] \in TaskType
    BY DEF TaskType
  <2>2. [call[c] EXCEPT !.pc = "wait", !.old = reg] \in CallType
    BY DEF CallType
  <2>3. task' \in [Task -> TaskType]
    BY <1>4, <2>1 DEF Stop
  <2>4. call' \in [Caller -> CallType]
    BY <1>4, <2>2 DEF Stop
  <2> QED
    BY <1>4, <2>3, <2>4 DEF Stop
<1>5. ASSUME NEW c \in Caller, Wait(c) PROVE TypeOK'
  <2>1. \A p \in {"delete", "load"} : [call[c] EXCEPT !.pc = p, !.old = None] \in CallType
    BY DEF CallType
  <2>2. call[c].old # None => call[c].old \in Task
    BY DEF CallType
  <2>3. task' \in [Task -> TaskType]
    BY <1>5, <2>2, ResetTypes DEF Wait
  <2>4. call' \in [Caller -> CallType]
    BY <1>5, <2>1 DEF Wait
  <2> QED
    BY <1>5, <2>3, <2>4 DEF Wait
<1>6. ASSUME NEW c \in Caller, Load(c) \/ Eval(c) PROVE TypeOK'
  BY <1>6 DEF Load, Eval, CallType
<1>7. ASSUME NEW c \in Caller, DeleteRow(c) PROVE TypeOK'
  BY <1>7, ResetTypes DEF DeleteRow
<1>8. ASSUME NEW c \in Caller, QueryFails(c) PROVE TypeOK'
  <2>1. call' \in [Caller -> CallType]
    BY <1>8 DEF QueryFails, CallType
  <2>2. changes' = changes + 1 /\ UNCHANGED <<cam, open, reg, task>>
    BY <1>8 DEF QueryFails
  <2>3. lost' \in BOOLEAN
    BY <1>8 DEF QueryFails
  <2> QED
    BY <2>1, <2>2, <2>3
<1>9. ASSUME NEW c \in Caller, NEW g \in Task, Spawn(c, g) PROVE TypeOK'
  <2>1. \A h \in Task : [task[h] EXCEPT !.stop = TRUE, !.aborted = TRUE] \in TaskType
    BY DEF TaskType
  <2>2. task' \in [Task -> TaskType]
    BY <1>9, <2>1, ResetTypes DEF Spawn
  <2>3. call' \in [Caller -> CallType]
    BY <1>9 DEF Spawn, CallType
  <2> QED
    BY <1>9, <2>2, <2>3 DEF Spawn
<1>10. CASE WatchLook
  BY <1>10, ResetTypes DEF WatchLook, Caller
<1>11. CASE WatchDecide
  BY <1>11 DEF WatchDecide, CallType, Caller
<1>12. CASE WindowFlips
  BY <1>12 DEF WindowFlips
<1>13. CASE Trigger
  BY <1>13 DEF Trigger, TaskType
<1>14. ASSUME NEW g \in Task, Begin(g) PROVE TypeOK'
  <2>1. \A k \in {"event", "plain"} : [task[g] EXCEPT !.pc = "top", !.kind = k] \in TaskType
    BY DEF TaskType
  <2>2. task' \in [Task -> TaskType]
    BY <1>14, <2>1 DEF Begin
  <2> QED
    BY <1>14, <2>2 DEF Begin
<1>15. ASSUME NEW g \in Task, Top(g) \/ Decide(g) \/ Wake(g) \/ SeesStop(g) \/ WindowCloses(g)
       PROVE TypeOK'
  BY <1>15 DEF Top, Decide, Wake, SeesStop, WindowCloses, TaskType
<1>16. ASSUME NEW g \in Task, Connect(g) \/ StreamEnds(g) \/ Finish(g) PROVE TypeOK'
  <2>1. \A b \in BOOLEAN : \A p \in {"run", "sleep", "exit", "top"} :
           [task[g] EXCEPT !.pc = p, !.ff = b] \in TaskType /\ [task[g] EXCEPT !.pc = p] \in TaskType
    BY DEF TaskType
  <2>2. task' \in [Task -> TaskType]
    BY <1>16, <2>1 DEF Connect, StreamEnds, Finish
  <2> QED
    BY <1>16, <2>2 DEF Connect, StreamEnds, Finish
<1>17. ASSUME NEW g \in Task, TriggerLapses(g) PROVE TypeOK'
  BY <1>17 DEF TriggerLapses, TaskType
<1>18. ASSUME NEW g \in Task, Exit(g) \/ Aborted(g) PROVE TypeOK'
  BY <1>18, ResetTypes DEF Exit, Aborted
<1>19. ASSUME NEW g \in Task, TaskQueryFails(g) PROVE TypeOK'
  <2>1. [task[g] EXCEPT !.pc = "top", !.kind = "plain"] \in TaskType
    BY DEF TaskType
  <2>2. \A p \in {"sleep", "connect", "armed", "closing"} : [task[g] EXCEPT !.pc = p] \in TaskType
    BY DEF TaskType
  <2>3. task' \in [Task -> TaskType]
    BY <1>19, <2>1, <2>2 DEF TaskQueryFails
  <2>4. changes' = changes + 1 /\ UNCHANGED <<cam, open, reg, call>>
    BY <1>19 DEF TaskQueryFails
  <2>5. lost' \in BOOLEAN
    BY <1>19 DEF TaskQueryFails
  <2> QED
    BY <2>3, <2>4, <2>5
<1>20. CASE UNCHANGED vars
  BY <1>20 DEF vars
<1> QED
  BY <1>1, <1>2, <1>3, <1>4, <1>5, <1>6, <1>7, <1>8, <1>9, <1>10, <1>11, <1>12, <1>13, <1>14,
     <1>15, <1>16, <1>17, <1>18, <1>19, <1>20
     DEF Next, Progress, Supervise, Watch

-----------------------------------------------------------------------------
(* A step of the calls alone that waits for no further task. *)
LEMMA CallStep ==
  ASSUME IInv, UNCHANGED <<reg, task>>,
         \A c \in Caller : call'[c].old = call[c].old \/ call'[c].old = None
  PROVE  Exact' /\ Parted'
  BY DEF IInv, Exact, Parted

(* A step of one running task that neither ends it nor tells it anything. *)
LEMMA TaskStep ==
  ASSUME IInv, NEW g \in Task, UNCHANGED <<reg, call>>,
         task[g].pc # "gone", task'[g].pc # "gone",
         task'[g].stop = task[g].stop, task'[g].aborted = task[g].aborted,
         \A h \in Task : h # g => task'[h] = task[h]
  PROVE  Exact' /\ Parted'
<1>1. \A h \in Task : (task'[h].pc # "gone" /\ ~task'[h].stop) <=> (task[h].pc # "gone" /\ ~task[h].stop)
  OBVIOUS
<1>2. \A h \in Task : task'[h].aborted => task'[h].stop
  BY DEF IInv, Parted
<1> QED
  BY <1>1, <1>2 DEF IInv, Exact, Parted

(* Every step keeps the registered task the only one that is running and not
   told to stop. *)
LEMMA ExactStep == IInv /\ [Next]_vars => Exact' /\ Parted'
<1> SUFFICES ASSUME IInv, [Next]_vars PROVE Exact' /\ Parted'
  OBVIOUS
<1> USE RecorderAssumption
<1>t. task \in [Task -> TaskType] /\ call \in [Caller -> CallType] /\ reg \in Task \cup {None}
  BY DEF IInv, TypeOK
<1>1. ASSUME NEW u \in User, Update(u) \/ DeleteBegin(u) \/ Hangup(u) PROVE Exact' /\ Parted'
  <2>1. UNCHANGED <<reg, task>>
    BY <1>1 DEF Update, DeleteBegin, Hangup
  <2>2. \A d \in Caller : call'[d].old = call[d].old \/ call'[d].old = None
    <3>1. /\ Rest.old = None /\ [Rest EXCEPT !.pc = "stop"].old = None
          /\ [Rest EXCEPT !.pc = "stop", !.op = "delete"].old = None
      BY DEF Rest
    <3>2. \E r \in {Rest, [Rest EXCEPT !.pc = "stop"], [Rest EXCEPT !.pc = "stop", !.op = "delete"]} :
             call' = [call EXCEPT ![u] = r]
      BY <1>1 DEF Update, DeleteBegin, Hangup
    <3> QED
      BY <3>1, <3>2, <1>t DEF Caller
  <2> QED
    BY <2>1, <2>2, CallStep
<1>2. ASSUME NEW c \in Caller, Stop(c) PROVE Exact' /\ Parted'
  <2>1. reg' = None
    BY <1>2 DEF Stop
  <2>2. \A g \in Task : /\ task'[g].pc = task[g].pc /\ task'[g].aborted = task[g].aborted
                        /\ g # reg => task'[g].stop = task[g].stop
                        /\ g = reg => task'[g].stop
    BY <1>2, <1>t DEF Stop, TaskType
  <2>3. Exact'
    BY <2>1, <2>2 DEF IInv, Exact
  <2>4. Parted'
    BY <2>1, <2>2 DEF IInv, Parted
  <2> QED
    BY <2>3, <2>4
<1>3. ASSUME NEW c \in Caller, Wait(c) PROVE Exact' /\ Parted'
  <2>1. \A g \in Task : IF g = call[c].old THEN task'[g] = Gone ELSE task'[g] = task[g]
    BY <1>3, <1>t DEF Wait, CallType
  <2>2. reg' = reg /\ \A d \in Caller : call'[d].old = call[d].old \/ call'[d].old = None
    BY <1>3, <1>t DEF Wait, CallType
  <2>3. call[c].old # None => call[c].old # reg
    BY DEF IInv, Parted
  <2>4. Gone.pc = "gone" /\ ~Gone.aborted
    BY DEF Gone
  <2>5. Exact'
    BY <2>1, <2>2, <2>3, <2>4 DEF IInv, Exact
  <2>6. Parted'
    BY <2>1, <2>2, <2>4 DEF IInv, Parted
  <2> QED
    BY <2>5, <2>6
<1>4. ASSUME NEW c \in Caller, Load(c) \/ Eval(c) \/ DeleteRow(c) PROVE Exact' /\ Parted'
  BY <1>4, <1>t, CallStep DEF Load, Eval, DeleteRow, Rest, CallType
<1>5. ASSUME NEW c \in Caller, QueryFails(c) PROVE Exact' /\ Parted'
  BY <1>5, <1>t, CallStep DEF QueryFails, CallType
<1>6. ASSUME NEW c \in Caller, NEW g \in Task, Spawn(c, g) PROVE Exact' /\ Parted'
  <2>1. reg' = g
    BY <1>6 DEF Spawn
  <2>2. task'[g].pc = "start" /\ ~task'[g].stop /\ ~task'[g].aborted
    BY <1>6, <1>t DEF Spawn, Gone
  <2>3. \A h \in Task : h # g => \/ h = reg /\ task'[h].stop
                                 \/ h # reg /\ task'[h] = task[h]
    BY <1>6, <1>t DEF Spawn, TaskType
  <2>4. \A d \in Caller : call'[d].old = call[d].old /\ call[d].old # g
    BY <1>6, <1>t DEF Spawn, Free, CallType
  <2>5. Exact'
    BY <2>1, <2>2, <2>3 DEF IInv, Exact
  <2>6. Parted'
    BY <2>1, <2>2, <2>3, <2>4 DEF IInv, Parted
  <2> QED
    BY <2>5, <2>6
<1>7. CASE WatchLook \/ WatchDecide
  <2>1. UNCHANGED <<reg, task>>
    BY <1>7 DEF WatchLook, WatchDecide
  <2>2. \A d \in Caller : call'[d].old = call[d].old \/ call'[d].old = None
    <3>1. \A b \in BOOLEAN : [Rest EXCEPT !.pc = "look", !.seen = b].old = None
      BY DEF Rest
    <3>2. CASE WatchLook
      BY <3>1, <3>2, <1>t DEF WatchLook, Caller
    <3>3. CASE WatchDecide
      BY <3>3, <1>t DEF WatchDecide, Caller, CallType
    <3> QED
      BY <1>7, <3>2, <3>3
  <2> QED
    BY <2>1, <2>2, CallStep
<1>8. CASE WindowFlips
  BY <1>8, CallStep DEF WindowFlips
<1>9. CASE Trigger
  <2>1. reg \in Task /\ task[reg].pc # "gone"
    BY <1>9, <1>t DEF Trigger, IInv, Exact
  <2> QED
    BY <1>9, <1>t, <2>1, TaskStep DEF Trigger, TaskType
<1>10. ASSUME NEW g \in Task, Begin(g) \/ Top(g) \/ Decide(g) \/ Wake(g) \/ SeesStop(g) \/ WindowCloses(g)
       PROVE Exact' /\ Parted'
  BY <1>10, <1>t, TaskStep DEF Begin, Top, Decide, Wake, SeesStop, WindowCloses, TaskType
<1>11. ASSUME NEW g \in Task, Connect(g) \/ StreamEnds(g) \/ Finish(g) PROVE Exact' /\ Parted'
  BY <1>11, <1>t, TaskStep DEF Connect, StreamEnds, Finish, TaskType
<1>12. ASSUME NEW g \in Task, TriggerLapses(g) PROVE Exact' /\ Parted'
  <2>1. /\ task'[g].pc = task[g].pc /\ task'[g].stop = task[g].stop
        /\ task'[g].aborted = task[g].aborted
        /\ \A h \in Task : h # g => task'[h] = task[h]
    BY <1>12, <1>t DEF TriggerLapses, TaskType
  <2>2. \A h \in Task : (task'[h].pc # "gone" /\ ~task'[h].stop) <=> (task[h].pc # "gone" /\ ~task[h].stop)
    BY <2>1
  <2>3. \A h \in Task : task'[h].aborted => task'[h].stop
    BY <2>1 DEF IInv, Parted
  <2> QED
    BY <1>12, <2>2, <2>3 DEF TriggerLapses, IInv, Exact, Parted
<1>13. ASSUME NEW g \in Task, Exit(g) \/ Aborted(g) PROVE Exact' /\ Parted'
  <2>1. \A h \in Task : IF h = g THEN task'[h] = Gone ELSE task'[h] = task[h]
    BY <1>13, <1>t DEF Exit, Aborted
  <2>2. Gone.pc = "gone" /\ ~Gone.aborted
    BY DEF Gone
  <2>3. reg' # g /\ (reg # g => reg' = reg) /\ (reg = g => reg' = None) /\ call' = call
    BY <1>13 DEF Exit, Aborted, IInv, Exact, Parted
  <2>4. Exact'
    BY <2>1, <2>2, <2>3 DEF IInv, Exact
  <2>5. Parted'
    BY <2>1, <2>2, <2>3 DEF IInv, Parted
  <2> QED
    BY <2>4, <2>5
<1>14. ASSUME NEW g \in Task, TaskQueryFails(g) PROVE Exact' /\ Parted'
  <2>1. UNCHANGED <<reg, call>> /\ task[g].pc # "gone"
    BY <1>14 DEF TaskQueryFails
  <2>2. \/ task' = [task EXCEPT ![g].pc = "top", ![g].kind = "plain"]
        \/ \E p \in {"sleep", "connect", "armed", "closing"} : task' = [task EXCEPT ![g].pc = p]
    BY <1>14 DEF TaskQueryFails
  <2>3. /\ task'[g].pc # "gone"
        /\ task'[g].stop = task[g].stop /\ task'[g].aborted = task[g].aborted
        /\ \A h \in Task : h # g => task'[h] = task[h]
    BY <2>2, <1>t DEF TaskType
  <2> QED
    BY <2>1, <2>3, TaskStep
<1>15. CASE UNCHANGED vars
  BY <1>15, CallStep DEF vars
<1> QED
  BY <1>1, <1>2, <1>3, <1>4, <1>5, <1>6, <1>7, <1>8, <1>9, <1>10, <1>11, <1>12, <1>13, <1>14, <1>15
     DEF Next, Progress, Supervise, Watch

(* The map always names exactly the supervisor that is running and has not
   been told to stop (recorder.rs spawn, stop, supervise). *)
THEOREM MapIsExact == Spec => []MapExact
<1>1. Init => IInv
  <2> SUFFICES ASSUME Init PROVE IInv
    OBVIOUS
  <2>1. reg \in Task \cup {None} /\ open \in BOOLEAN /\ lost \in BOOLEAN /\ changes \in Nat
        /\ cam \in [exists : BOOLEAN, on : BOOLEAN, mode : Mode]
    BY DEF Init
  <2>2. task \in [Task -> TaskType] /\ call \in [Caller -> CallType]
    BY ResetTypes DEF Init
  <2>3. Exact
    BY RecorderAssumption, <2>1 DEF Init, Exact, Gone
  <2>4. Parted
    BY DEF Init, Parted, Gone, Rest
  <2> QED
    BY <2>1, <2>2, <2>3, <2>4 DEF IInv, TypeOK
<1>2. IInv /\ [Next]_vars => IInv'
  BY TypeStep, ExactStep DEF IInv
<1>3. IInv => MapExact
  BY RecorderAssumption DEF IInv, TypeOK, Exact, MapExact, Alive
<1> QED
  BY <1>1, <1>2, <1>3, PTL DEF Spec
=============================================================================
