-------------------------------- MODULE Live --------------------------------
(***************************************************************************)
(* Withdrawing live video (routes/media_auth.rs, services/live_token.rs,   *)
(* services/live_reaper.rs).  The media gateway asks the kernel once when  *)
(* a session opens, and an HLS session again for every segment; the answer *)
(* is recorded with the credential it was given for.  When a credential is *)
(* withdrawn, a task kicks its sessions at once, and a periodic sweep      *)
(* kicks whatever is left.  Databases and gateways may fail to answer.     *)
(***************************************************************************)
EXTENDS Integers, FiniteSets

CONSTANTS Viewer,      \* sessions of one credential on one camera
          Hls,         \* those of them that come back for every segment
          TokenLife,   \* live_token_ttl_secs
          StaleAge,    \* after which a row is pruned
          LiveEnd,     \* end of time (bound)
          MaxLiveErrors

VARIABLES stands,   \* the credential is good for the camera
          session,  \* Viewer -> "none", "vetted", "open" or "over"
          row,      \* Viewer -> last_seen_at of its row in live_sessions, or NoRow
          token,    \* Viewer -> when its token was minted
          reaper,   \* the sweep
          prompt,   \* the task withdraw_now spawned: sessions it has still to judge
          noted,    \* Viewer -> when the callback recorded it, or NoRow
          now, liveErrors

liveVars == <<stands, session, row, token, reaper, prompt, noted, now, liveErrors>>

NoRow == -9
Waiting == [pc |-> "waiting", todo |-> {}, due |-> {}, at |-> 0, failed |-> FALSE]

LiveInit ==
    /\ stands = TRUE /\ session = [v \in Viewer |-> "none"]
    /\ row = [v \in Viewer |-> NoRow] /\ token = row /\ noted = row
    /\ reaper = Waiting /\ prompt = {} /\ now = 0 /\ liveErrors = 0

Errs == liveErrors < MaxLiveErrors /\ liveErrors' = liveErrors + 1 /\ reaper' = [reaper EXCEPT !.failed = TRUE]
Fine == UNCHANGED <<liveErrors, reaper>>

-----------------------------------------------------------------------------
(* Opening a session.                                                      *)

\* The answer the database gives, and yes when it gives none.
subject_still_stands(yes) == (yes = stands /\ Fine) \/ (yes /\ Errs)

\* A client gets a token for the camera, if its credential stands (ensure_live).
mint(v) ==
    /\ session[v] = "none" /\ token[v] = NoRow /\ stands
    /\ token' = [token EXCEPT ![v] = now]
    /\ UNCHANGED <<stands, session, row, reaper, prompt, noted, now, liveErrors>>

verify(v) == token[v] # NoRow /\ now < token[v] + TokenLife

\* The callback for a read: the token, then its subject.
authorize(v) ==
    /\ session[v] \in {"none", "open"} /\ token[v] # NoRow
    /\ session[v] = "open" => v \in Hls
    /\ \E yes \in BOOLEAN :
          /\ IF verify(v) THEN subject_still_stands(yes) ELSE ~ yes /\ Fine
          /\ session' = [session EXCEPT ![v] = IF yes THEN "vetted" ELSE "over"]
    /\ UNCHANGED <<stands, row, token, prompt, noted, now>>

\* The session is recorded; a failure does not refuse it.
record_live_session(v) ==
    /\ session[v] = "vetted"
    /\ session' = [session EXCEPT ![v] = "open"]
    /\ \/ row' = [row EXCEPT ![v] = now] /\ noted' = [noted EXCEPT ![v] = now] /\ Fine
       \/ Errs /\ UNCHANGED <<row, noted>>
    /\ UNCHANGED <<stands, token, prompt, now>>

Leave(v) ==
    /\ session[v] = "open" /\ session' = [session EXCEPT ![v] = "over"]
    /\ UNCHANGED <<stands, row, token, reaper, prompt, noted, now, liveErrors>>

-----------------------------------------------------------------------------
(* Withdrawing it.                                                         *)

\* The row goes with the attempt.
Kick_Forget(v) ==
    /\ row' = [row EXCEPT ![v] = NoRow]
    /\ \/ session' = [session EXCEPT ![v] = IF @ = "open" THEN "over" ELSE @] /\ UNCHANGED liveErrors
       \/ liveErrors < MaxLiveErrors /\ liveErrors' = liveErrors + 1 /\ UNCHANGED session

\* The gateway ends the session, or has none, and the row goes; or it does not answer.
Kick(v) ==
    \/ /\ session' = [session EXCEPT ![v] = IF @ = "open" THEN "over" ELSE @]
       /\ row' = [row EXCEPT ![v] = NoRow] /\ UNCHANGED liveErrors
    \/ liveErrors < MaxLiveErrors /\ liveErrors' = liveErrors + 1 /\ UNCHANGED <<session, row>>

\* What a sweep that starts now has to end: sessions that were recorded, not long ago, for a
\* credential that is gone.
Due == {v \in Viewer : session[v] = "open" /\ v \notin Hls /\ ~ stands /\ noted[v] # NoRow /\ now - noted[v] <= StaleAge}

\* list_sessions: the gateway's sessions, when it answers.
list_sessions ==
    /\ reaper.pc = "waiting"
    /\ \/ reaper' = [Waiting EXCEPT !.pc = "sweep", !.todo = {v \in Viewer \ Hls : session[v] = "open"}, !.due = Due, !.at = now]
          /\ UNCHANGED liveErrors
       \/ /\ liveErrors < MaxLiveErrors /\ liveErrors' = liveErrors + 1
          /\ reaper' = [Waiting EXCEPT !.pc = "sweep", !.failed = TRUE]
    /\ UNCHANGED <<stands, session, row, token, prompt, noted, now>>

\* One session: its row, the question, and the kick.  One without a row is left alone, and an error
\* is a reason to spare it.
sweep(v) ==
    /\ reaper.pc = "sweep" /\ v \in reaper.todo
    /\ \/ /\ row[v] = NoRow \/ stands
          /\ reaper' = [reaper EXCEPT !.todo = @ \ {v}] /\ UNCHANGED <<session, row, liveErrors>>
       \/ /\ row[v] # NoRow /\ ~ stands
          /\ Kick(v)
          /\ reaper' = [reaper EXCEPT !.todo = @ \ {v}, !.failed = @ \/ liveErrors' # liveErrors]
       \/ /\ liveErrors < MaxLiveErrors /\ liveErrors' = liveErrors + 1
          /\ reaper' = [reaper EXCEPT !.todo = @ \ {v}, !.failed = TRUE] /\ UNCHANGED <<session, row>>
    /\ UNCHANGED <<stands, token, prompt, noted, now>>

\* The sweep ends with the rows nobody has asked about for long.
prune_stale ==
    /\ reaper.pc = "sweep" /\ reaper.todo = {}
    /\ row' = [v \in Viewer |-> IF row[v] # NoRow /\ row[v] < now - StaleAge THEN NoRow ELSE row[v]]
    /\ reaper' = [reaper EXCEPT !.pc = "swept"]
    /\ UNCHANGED <<stands, session, token, prompt, noted, now, liveErrors>>

NextSweep ==
    /\ reaper.pc = "swept" /\ reaper' = Waiting
    /\ UNCHANGED <<stands, session, row, token, prompt, noted, now, liveErrors>>

\* A credential ends without anyone's request (it expires), or is given back.
Change ==
    /\ reaper.pc # "swept"
    /\ stands' = ~ stands
    /\ reaper' = [reaper EXCEPT !.due = {}]
    /\ UNCHANGED <<session, row, token, prompt, noted, now, liveErrors>>

\* The rows of the credential, at the moment the spawned task reads them.
withdraw_now ==
    /\ stands /\ stands' = FALSE
    /\ prompt' = {v \in Viewer : row[v] # NoRow}
    /\ UNCHANGED <<session, row, token, reaper, noted, now, liveErrors>>

\* An HLS session has nothing to kick, and keeps its row.
WithdrawOne(v) ==
    /\ v \in prompt /\ prompt' = prompt \ {v}
    /\ IF stands \/ v \in Hls THEN UNCHANGED <<session, row, liveErrors>> ELSE Kick(v)
    /\ reaper' = [reaper EXCEPT !.failed = @ \/ liveErrors' # liveErrors]
    /\ UNCHANGED <<stands, token, noted, now>>

\* No request takes a tick.
Tick ==
    /\ now < LiveEnd /\ \A v \in Viewer : session[v] # "vetted"
    /\ reaper.pc = "waiting"
    /\ now' = now + 1
    /\ UNCHANGED <<stands, session, row, token, reaper, prompt, noted, liveErrors>>

LiveNext ==
    \/ \E v \in Viewer : mint(v) \/ authorize(v) \/ record_live_session(v) \/ Leave(v) \/ sweep(v) \/ WithdrawOne(v)
    \/ list_sessions \/ prune_stale \/ NextSweep \/ Change \/ withdraw_now \/ Tick

-----------------------------------------------------------------------------
(* Properties.                                                             *)

\* A sweep whose calls were all answered ends every session the callback recorded for a credential
\* that no longer stands, though the withdrawal may have come between the callback's question and its
\* record, the prompt task may have found no row or no gateway, and a kick may have failed before
\* (live_reaper::sweep).  A session older than the age of a stale row is the exception.
WithdrawnEnds ==
    reaper.pc = "swept" /\ ~ reaper.failed => \A v \in reaper.due : session[v] # "open"

\* What record_live_session's comment promises of a session that could not be recorded, or was
\* forgotten: it cannot be withdrawn early, but it still expires with its token.
ExpiresWithToken ==
    \A v \in Viewer \ Hls : session[v] = "open" /\ ~ stands /\ row[v] = NoRow => verify(v)

-----------------------------------------------------------------------------
(***************************************************************************)
(* The publisher that feeds a camera's live view (live_publisher.rs, and   *)
(* ensure_live of mediamtx.rs).  Requests that change the camera, viewers  *)
(* and the periodic reconcile each take the camera's lock, read its row    *)
(* and start, restart or stop the one publisher task; a request may be     *)
(* dropped before it gets there.  One camera, whose publisher's command is *)
(* its configuration; a failing statement reads as no row.                 *)
(***************************************************************************)

CONSTANTS Watcher,     \* viewers' requests
          Editor,      \* requests that change the camera
          MaxEdits,    \* changes of the row (bound)
          MaxReads     \* failing statements (bound)

VARIABLES cam,      \* the row: [there, enabled, warm, config]
          lock,     \* who holds the camera's lock, or "none"
          act,      \* actor -> [pc, cam]: where it is, and the row it read
          pub,      \* the task: [on, config, idle], idle: no demand for live_idle_close_secs
          viewers,  \* readers of the path
          path,     \* the gateway has the path
          down,     \* shutting_down
          edits,    \* [made, settled]: changes of the row, and the last one a hook that has ended had read
          fails

pubVars == <<cam, lock, act, pub, viewers, path, down, edits, fails>>

Loop == "loop"
Shutdown == "shutdown"
Actor == Watcher \cup Editor \cup {Loop, Shutdown}

NoCam == [there |-> FALSE, enabled |-> FALSE, warm |-> FALSE, config |-> 0]
NoPub == [on |-> FALSE, config |-> 0, idle |-> FALSE]
AtRest == [pc |-> "rest", cam |-> NoCam, at |-> 0]

PubInit ==
    /\ cam = [there |-> TRUE, enabled |-> TRUE, warm |-> FALSE, config |-> 0]
    /\ lock = "none" /\ act = [a \in Actor |-> AtRest] /\ pub = NoPub
    /\ viewers = {} /\ path = FALSE /\ down = FALSE /\ edits = [made |-> 0, settled |-> 0] /\ fails = 0

Go(a, pc) == act' = [act EXCEPT ![a].pc = pc]
Rest(a) == act' = [act EXCEPT ![a] = AtRest]

\* The row as a statement sees it: an error reads as no camera.
Reads(r) == (r = cam /\ UNCHANGED fails) \/ (fails < MaxReads /\ fails' = fails + 1 /\ r = NoCam)

\* The lock is held to the end of the function.
Acquire(a) == lock = "none" /\ lock' = a
Release(a) ==
    /\ Rest(a) /\ lock' = "none"
    /\ edits' = IF a \in Editor THEN [edits EXCEPT !.settled = act[a].at] ELSE edits
Keep == UNCHANGED <<lock, edits>>

-----------------------------------------------------------------------------
(* Starting and stopping the task.                                         *)

\* The command a row asks for: its source, its audio and the transcoding engine.
desired_args(r) == r.config

\* A running task with the same command is kept, and a viewer renews its demand; otherwise it is
\* stopped, and another spawned afterwards.
ensure_running_inner(a, touch) ==
    IF down THEN Release(a) /\ UNCHANGED pub
    ELSE IF pub.on /\ pub.config = desired_args(act[a].cam)
    THEN pub' = [pub EXCEPT !.idle = IF touch THEN FALSE ELSE @] /\ Release(a)
    ELSE Go(a, "spawn") /\ pub' = NoPub /\ Keep

\* spawn asks once more whether the process is going down, and then waits for the task table.
spawn(a) ==
    /\ act[a].pc = "spawn"
    /\ IF down THEN Release(a) ELSE Go(a, "insert") /\ Keep
    /\ UNCHANGED <<cam, pub, viewers, path, down, fails>>

\* The task is in the table; the first thing it does is to add the path (supervise).
Insert(a) ==
    /\ act[a].pc = "insert"
    /\ pub' = [on |-> TRUE, config |-> desired_args(act[a].cam), idle |-> FALSE]
    /\ path' = TRUE
    /\ Release(a)
    /\ UNCHANGED <<cam, viewers, down, fails>>

\* The task's process ends and starts again, adding the path if the gateway lost it (supervise).
supervise ==
    /\ pub.on /\ ~ path /\ path' = TRUE
    /\ UNCHANGED <<cam, lock, act, pub, viewers, down, fails, edits>>

-----------------------------------------------------------------------------
(* A viewer.                                                               *)

\* ensure_live refuses a camera that is not there or not enabled, before it takes any lock.
ensure_live(w) ==
    /\ act[w].pc = "rest"
    /\ cam.enabled
    /\ path' = TRUE
    /\ Go(w, "demand")
    /\ UNCHANGED <<cam, lock, pub, viewers, down, fails, edits>>

\* The row the request was let in with is the row it acts on.
demand_Stale(w) ==
    /\ act[w].pc = "demand" /\ Acquire(w)
    /\ act' = [act EXCEPT ![w] = [pc |-> "ensure", cam |-> [NoCam EXCEPT !.there = TRUE, !.enabled = TRUE], at |-> 0]]
    /\ UNCHANGED <<cam, pub, viewers, path, down, fails, edits>>

\* Under the lock the row is read again.
demand(w) ==
    /\ act[w].pc = "demand" /\ Acquire(w)
    /\ \E r \in {cam, NoCam} :
          Reads(r) /\ act' = [act EXCEPT ![w] = [pc |-> IF r.enabled THEN "ensure" ELSE "give", cam |-> r, at |-> 0]]
    /\ UNCHANGED <<cam, pub, viewers, path, down, edits>>

\* The viewer follows the URL it was given, and leaves.
Watch(w) ==
    /\ \/ w \notin viewers /\ pub.on /\ act[w].pc = "rest" /\ ~ pub.idle /\ viewers' = viewers \cup {w}
       \/ w \in viewers /\ viewers' = viewers \ {w}
    /\ UNCHANGED <<cam, lock, act, pub, path, down, fails, edits>>

-----------------------------------------------------------------------------
(* A change of the camera, and its hook.                                   *)

\* PATCH or DELETE: the row first.
Edit(e) ==
    /\ act[e].pc = "rest" /\ cam.there
    /\ \/ cam' = [cam EXCEPT !.enabled = ~ @]
       \/ cam' = [cam EXCEPT !.warm = ~ @]
       \/ cam' = [cam EXCEPT !.config = @ + 1]
       \/ cam' = NoCam
    /\ Go(e, "hook")
    /\ edits.made < MaxEdits /\ edits' = [edits EXCEPT !.made = @ + 1]
    /\ UNCHANGED <<lock, pub, viewers, path, down, fails>>

\* reconcile: under the lock, the row again.
reconcile(e) ==
    /\ act[e].pc = "hook" /\ Acquire(e)
    /\ \E r \in {cam, NoCam} : Reads(r) /\ act' = [act EXCEPT ![e] = [pc |-> "decide", cam |-> r, at |-> edits.made]]
    /\ UNCHANGED <<cam, pub, viewers, path, down, edits>>

should_warm(r) == r.enabled /\ r.warm

\* A camera that is gone or disabled is stopped and its path deleted; a warm one runs; any other is
\* kept up to date if it runs.
reconcile_locked(a) ==
    \/ /\ ~ act[a].cam.enabled
       /\ pub' = NoPub /\ path' \in {FALSE, path} /\ Release(a)
    \/ /\ act[a].cam.enabled /\ (should_warm(act[a].cam) \/ pub.on)
       /\ ensure_running_inner(a, FALSE) /\ UNCHANGED path
    \/ /\ act[a].cam.enabled /\ ~ should_warm(act[a].cam) /\ ~ pub.on
       /\ Release(a) /\ UNCHANGED <<pub, path>>

\* The client hangs up before the hook, or while it waits for the lock.
Drop(e) ==
    /\ act[e].pc \in {"hook", "demand"} /\ Rest(e)
    /\ UNCHANGED <<cam, lock, pub, viewers, path, down, fails, edits>>

-----------------------------------------------------------------------------
(* The periodic reconcile.                                                 *)

\* It goes to the cameras that are warm and those that run.
reconcile_all ==
    /\ act[Loop].pc = "rest" /\ ~ down
    /\ should_warm(cam) \/ pub.on
    /\ Go(Loop, "visit")
    /\ UNCHANGED <<cam, lock, pub, viewers, path, down, fails, edits>>

\* A row that cannot be read leaves everything as it is.
Visit ==
    /\ act[Loop].pc = "visit" /\ Acquire(Loop)
    /\ act' = [act EXCEPT ![Loop] = [pc |-> "look", cam |-> cam, at |-> 0]] \/ Go(Loop, "give")
    /\ UNCHANGED <<cam, pub, viewers, path, down, fails, edits>>

\* What the gateway says of the readers, when it answers.
path_readers == viewers

\* On demand: the gateway is asked for the readers, who are demand; when it says there are none the
\* publisher is stopped if it is idle, and kept up to date if not.
Look ==
    /\ act[Loop].pc = "look"
    /\ LET r == act[Loop].cam IN
       IF ~ r.enabled \/ should_warm(r) \/ ~ pub.on THEN reconcile_locked(Loop)
       ELSE \/ Go(Loop, IF path_readers # {} THEN "seen" ELSE "unseen") /\ Keep /\ UNCHANGED <<pub, path>>
            \/ Release(Loop) /\ UNCHANGED <<pub, path>>
    /\ UNCHANGED <<cam, viewers, down, fails>>

Seen ==
    /\ act[Loop].pc = "seen"
    /\ Go(Loop, "ensure") /\ pub' = [pub EXCEPT !.idle = FALSE]
    /\ UNCHANGED <<cam, lock, viewers, path, down, fails, edits>>

stop_if_idle ==
    /\ act[Loop].pc = "unseen"
    /\ IF pub.idle THEN pub' = NoPub /\ Release(Loop) ELSE Go(Loop, "ensure") /\ Keep /\ UNCHANGED pub
    /\ UNCHANGED <<cam, viewers, path, down, fails>>

\* live_idle_close_secs pass without a demand.
Idle ==
    /\ pub.on /\ ~ pub.idle /\ pub' = [pub EXCEPT !.idle = TRUE]
    /\ UNCHANGED <<cam, lock, act, viewers, path, down, fails, edits>>

-----------------------------------------------------------------------------
(* The end of the process.                                                 *)

\* shutdown takes no camera's lock.
shutdown ==
    /\ \/ act[Shutdown].pc = "rest" /\ ~ down /\ down' = TRUE /\ Go(Shutdown, "stop") /\ UNCHANGED pub
       \/ act[Shutdown].pc = "stop" /\ pub' = NoPub /\ Go(Shutdown, "gone") /\ UNCHANGED down
    /\ UNCHANGED <<cam, lock, viewers, path, fails, edits>>

\* The last steps under the lock.
Ensure(a) ==
    /\ act[a].pc = "ensure" /\ ensure_running_inner(a, a \in Watcher)
    /\ UNCHANGED <<cam, viewers, path, down, fails>>

GiveUp(a) ==
    /\ act[a].pc = "give" /\ Release(a)
    /\ UNCHANGED <<cam, pub, viewers, path, down, fails>>

PubNext ==
    \/ \E w \in Watcher : ensure_live(w) \/ demand(w) \/ Watch(w)
    \/ \E e \in Editor : \/ Edit(e) \/ reconcile(e)
                         \/ act[e].pc = "decide" /\ reconcile_locked(e) /\ UNCHANGED <<cam, viewers, down, fails>>
    \/ \E a \in Actor : Ensure(a) \/ GiveUp(a) \/ spawn(a) \/ Insert(a) \/ Drop(a)
    \/ reconcile_all \/ Visit \/ Look \/ Seen \/ stop_if_idle \/ Idle \/ supervise \/ shutdown

-----------------------------------------------------------------------------
(* Properties.                                                             *)

\* Once the hook of the last change has ended, the publisher runs only for an enabled camera and with
\* its configuration, whatever viewers and rounds of the loop began before the change, and though
\* other changes' hooks were dropped (demand, reconcile and reconcile_all read the row under the
\* camera's lock: "a hook can never race the loop into resurrecting a disabled/deleted camera").
NoResurrection ==
    edits.settled = edits.made /\ pub.on => cam.enabled /\ (pub.config = cam.config \/ down)

\* A publisher someone asked for within the idle time is never stopped, restarted or reaped, if all
\* changes of its camera have been settled, no row was unreadable and the process is not going down
\* (stop_if_idle and ensure_running_inner decide under the lock: "a viewer who arrives mid-tick is
\* never cut").
NotCut ==
    pub.on /\ ~ pub.idle /\ ~ pub'.on => edits.settled # edits.made \/ down \/ fails > 0
=============================================================================
