------------------------------- MODULE Server -------------------------------
(***************************************************************************)
(* The life of the process (heldar-server/src/lib.rs): the stages of the   *)
(* boot, the supervised loops, serving, the orderly stop, a crash, and the *)
(* next start over the same database.  Of the loops one is followed, any.  *)
(***************************************************************************)
EXTENDS Sequences, FiniteSets, Integers

CONSTANTS Proc,    \* the starts of the program, in the order of their numbers
          Overlap, \* a start does not wait for the end of the one before
          LfSegment, \* segments an export reads
          MaxLfErrs \* (bound)

VARIABLES features, \* the options that are on
          looked,   \* the loop that is followed
          proc,     \* start -> [pc, seen]: its stage; seen: the users it has counted
          users,    \* the administrators there are
          locks,    \* segment read-locks in the database: [proc, seg]
          jobs,     \* the exports running: [proc, seg]
          ffmpegs,  \* start -> the managers whose FFmpegs run
          late,     \* start -> the managers a request has started again during the stop
          loop,     \* start -> "none", "up", "down": the followed loop
          churn,    \* starts whose followed loop returned while they served
          cut,      \* starts that ended with an FFmpeg nobody had stopped
          port,     \* the start that listens, 0: none
          lfErrs

lfVars == <<features, looked, proc, users, locks, jobs, ffmpegs, late, loop, churn, cut, port, lfErrs>>

Feature == {"recorder", "anr", "backup", "reaper", "snapshots", "mirror"}
\* The loops that are spawned only with their option, and those that end at once without it.
Guard == [live_reaper |-> "reaper", snapshot_scheduler |-> "snapshots", anr |-> "anr",
          schedule_watcher |-> "recorder", backup_scheduler |-> "backup"]
Returning == [anr |-> "anr", backup_scheduler |-> "backup"]
Loop == {"indexer", "health", "retention", "live_publisher", "native_anpr", "camera_events", "fanout_drain",
         "playback_session_cleanup", "webhooks", "module_health", "registry_refresh", "fleet_register",
         "webrtc_rendezvous", "webrtc_ice", "webrtc_relay"} \cup DOMAIN Guard
Managers == {"recorder", "live", "sampler"} \cup (features \cap {"mirror"})

Off == [pc |-> "off", seen |-> 0]
LfInit ==
    /\ \E w \in Loop : looked = w /\ features \in {f \in SUBSET Feature : Cardinality(Feature \ f) <= 2}
    /\ proc = [p \in Proc |-> Off] /\ users = 0 /\ locks = {} /\ jobs = {}
    /\ ffmpegs = [p \in Proc |-> {}] /\ late = [p \in Proc |-> {}] /\ loop = [p \in Proc |-> "none"]
    /\ churn = {} /\ cut = {} /\ port = 0 /\ lfErrs = 0

LfFails == lfErrs < MaxLfErrs /\ lfErrs' = lfErrs + 1
LfFine == UNCHANGED lfErrs
Rest == <<features, looked>>
Work == <<locks, jobs, ffmpegs, late, loop, churn, cut>>

\* The process is gone: its tasks with it, their children killed, the port free.
Ends(p, finished) ==
    /\ proc' = [proc EXCEPT ![p] = [@ EXCEPT !.pc = "gone"]]
    /\ jobs' = {j \in jobs : j.proc # p} /\ loop' = [loop EXCEPT ![p] = "none"]
    /\ cut' = IF finished /\ ffmpegs[p] # {} THEN cut \cup {p} ELSE cut
    /\ ffmpegs' = [ffmpegs EXCEPT ![p] = {}] /\ port' = IF port = p THEN 0 ELSE port
    /\ UNCHANGED <<Rest, users, locks, late, churn>>

-----------------------------------------------------------------------------
(* The boot.                                                               *)

Goes(p, from, to) == proc[p].pc = from /\ proc' = [proc EXCEPT ![p].pc = to]

\* The program is started.
Start(p) ==
    /\ \A q \in Proc : q < p => proc[q].pc \in IF Overlap THEN {"gone", "serving"} ELSE {"gone"}
    /\ Goes(p, "off", "config") /\ UNCHANGED <<Rest, Work, users, port>> /\ LfFine

\* Secrets, guardrails, posture, media tools, directories, migrations and sealing.
Prepare(p) == Goes(p, "config", "prepared") /\ UNCHANGED <<Rest, Work, users, port>> /\ LfFine

\* Whatever was being read by a process before this one is read no more.
Cleared == {}
clear_segment_read_locks(p) ==
    /\ Goes(p, "prepared", "cleared") /\ locks' = Cleared
    /\ UNCHANGED <<Rest, users, jobs, ffmpegs, late, loop, churn, cut, port>> /\ LfFine

\* The first administrator, with authentication on: none is made where there is a user.
CountUsers(p) ==
    /\ proc[p].pc = "cleared" /\ proc' = [proc EXCEPT ![p] = [pc |-> "counted", seen |-> users]]
    /\ UNCHANGED <<Rest, Work, users, port>> /\ LfFine
ensure_bootstrap(p) ==
    /\ Goes(p, "counted", "composed") /\ (proc[p].seen = 0 => users = 0)
    /\ users' = IF proc[p].seen = 0 THEN 1 ELSE users
    /\ UNCHANGED <<Rest, Work, port>> /\ LfFine

\* The recorders, the mirrors and the samplers start.
start_all(p) ==
    /\ Goes(p, "composed", "started") /\ ffmpegs' = [ffmpegs EXCEPT ![p] = Managers]
    /\ UNCHANGED <<Rest, users, locks, jobs, late, loop, churn, cut, port>> /\ LfFine

\* A loop that would end at once is not spawned.
Spawned(w) == w \in DOMAIN Guard => Guard[w] \in features
spawn_loops(p) ==
    /\ Goes(p, "started", "spawned") /\ loop' = [loop EXCEPT ![p] = IF Spawned(looked) THEN "up" ELSE "none"]
    /\ UNCHANGED <<Rest, users, locks, jobs, ffmpegs, late, churn, cut, port>> /\ LfFine

\* The port is bound last; if it is taken, or anything before it failed, the process ends.
Bind(p) ==
    /\ port = 0 /\ Goes(p, "spawned", "serving") /\ port' = p
    /\ UNCHANGED <<Rest, Work, users>> /\ LfFine
BootFails(p) ==
    \/ proc[p].pc = "spawned" /\ port # 0 /\ Ends(p, FALSE) /\ LfFine
    \/ proc[p].pc = "counted" /\ proc[p].seen = 0 /\ users # 0 /\ Ends(p, FALSE) /\ LfFine
    \/ proc[p].pc \in {"config", "prepared", "cleared", "counted", "composed"} /\ Ends(p, FALSE) /\ LfFails

-----------------------------------------------------------------------------
(* Serving.                                                                *)

Up(p) == proc[p].pc \in {"spawned", "serving"} \cup Managers \cup {"drain"}

\* A loop that panics or returns runs again five seconds later.
spawn_supervised(p) ==
    /\ Up(p)
    /\ \/ loop[p] = "up" /\ LfFails /\ loop' = [loop EXCEPT ![p] = "down"] /\ UNCHANGED churn
       \/ loop[p] = "up" /\ LfFine /\ loop' = [loop EXCEPT ![p] = "down"] /\ churn' = churn \cup {p}
          /\ looked \in DOMAIN Returning /\ Returning[looked] \notin features
       \/ loop[p] = "down" /\ LfFine /\ loop' = [loop EXCEPT ![p] = "up"] /\ UNCHANGED churn
    /\ UNCHANGED <<Rest, proc, users, locks, jobs, ffmpegs, late, cut, port>>

\* An export takes its read-lock and gives it back.
Export(p) ==
    /\ Up(p) /\ port = p
    /\ \E s \in LfSegment :
         LET j == [proc |-> p, seg |-> s]
         IN \/ j \notin jobs /\ proc[p].pc # "drain" /\ jobs' = jobs \cup {j} /\ locks' = locks \cup {j}
            \/ j \in jobs /\ jobs' = jobs \ {j} /\ locks' = locks \ {j}
    /\ UNCHANGED <<Rest, proc, users, ffmpegs, late, loop, churn, cut, port>> /\ LfFine

\* A request served while the managers are being stopped starts one again.
Request(p) ==
    /\ port = p /\ proc[p].pc \in Managers
    /\ \E m \in Managers \ ffmpegs[p] : m # "live" /\ ffmpegs' = [ffmpegs EXCEPT ![p] = @ \cup {m}]
                                        /\ late' = [late EXCEPT ![p] = @ \cup {m}]
    /\ UNCHANGED <<Rest, proc, users, locks, jobs, loop, churn, cut, port>> /\ LfFine

-----------------------------------------------------------------------------
(* The end.                                                                *)

\* The managers are stopped in this order, and requests are served until the last has been.
Stops == IF "mirror" \in features THEN <<"recorder", "live", "mirror", "sampler">> ELSE <<"recorder", "live", "sampler">>
NextStop(m) == LET i == CHOOSE i \in DOMAIN Stops : Stops[i] = m IN IF i = Len(Stops) THEN "drain" ELSE Stops[i + 1]
shutdown_signal(p) ==
    /\ UNCHANGED <<Rest, users, locks, jobs, late, loop, churn, cut, port>> /\ LfFine
    /\ \/ Goes(p, "serving", Stops[1]) /\ UNCHANGED ffmpegs
       \/ \E i \in DOMAIN Stops : Goes(p, Stops[i], NextStop(Stops[i])) /\ ffmpegs' = [ffmpegs EXCEPT ![p] = @ \ {Stops[i]}]

\* The requests under way have been answered: the process ends.
Exit(p) == proc[p].pc = "drain" /\ ~ (\E j \in jobs : j.proc = p) /\ Ends(p, TRUE) /\ LfFine

\* The process is killed, or the machine goes down.
Crash(p) == proc[p].pc \notin {"off", "gone"} /\ Ends(p, FALSE) /\ LfFails

LfNext == \E p \in Proc :
    \/ Start(p) \/ Prepare(p) \/ clear_segment_read_locks(p) \/ CountUsers(p) \/ ensure_bootstrap(p)
    \/ start_all(p) \/ spawn_loops(p) \/ Bind(p) \/ BootFails(p)
    \/ spawn_supervised(p) \/ Export(p) \/ Request(p) \/ shutdown_signal(p) \/ Exit(p) \/ Crash(p)

-----------------------------------------------------------------------------
(* Properties.                                                             *)

\* While a process serves, every read-lock in the database is an export's that runs: none is left that
\* would keep its segment from the retention for ever (db.rs 181-185).
LocksLive == \A p \in Proc : port = p => locks \subseteq jobs

\* A loop is respawned after a panic only: none is spawned that returns as soon as it has begun, to be
\* respawned for ever (lib.rs 405-407, 427-428).
NoChurn == churn = {}

\* After an orderly stop every FFmpeg has finished its file, unless a request started its manager again
\* behind the stop (lib.rs 849-880).
NothingCut == \A p \in cut : late[p] # {}

-----------------------------------------------------------------------------
(***************************************************************************)
(* Credentials at rest: the key a process is started with, the sealing of  *)
(* what is still in the clear before it serves (secrets.rs and the start   *)
(* of lib.rs), and the rotation to another key by a command of its own     *)
(* (admin.rs).  One camera password, one webhook secret and one backup     *)
(* credential; a stored value is the sequence of the keys it is sealed     *)
(* under, <<>> in the clear.  The operator starts the server with the key  *)
(* last put in force, and a rotation puts its new key in force.            *)
(***************************************************************************)

CONSTANTS Key,          \* the keys the operator has
          NoKey,        \* HELDAR_SECRET_KEY is not set
          MaxSecErrors  \* crashes and statements that fail (bound)

VARIABLES seals, \* item -> its seals
          inforce, \* the key the operator starts the server with
          server, \* [pc, key]: the process
          patch,  \* [item, text]: a request that has read a row to write it back whole
          rekey,  \* [pc, old, new, base, copy]: the rotation; base: what its transaction saw
          overlap,\* a server ran on the old key while a rotation was committed
          secErrs

secVars == <<seals, inforce, server, patch, rekey, overlap, secErrs>>

Item == {"camera", "webhook", "destination"}
Order == <<"camera", "webhook", "destination">>
NoPatch == [item |-> "", text |-> <<>>]
Resting == [pc |-> "rest", old |-> NoKey, new |-> NoKey, at |-> 1, base |-> <<>>, copy |-> <<>>]
SecFails == secErrs < MaxSecErrors /\ secErrs' = secErrs + 1

SecInit ==
    /\ seals \in [Item -> {<<>>}] /\ inforce = NoKey /\ server = [pc |-> "down", key |-> NoKey, at |-> 1]
    /\ patch = NoPatch /\ rekey = Resting /\ overlap = FALSE /\ secErrs = 0

is_encrypted(text) == text # <<>>
encrypt(k, text) == IF k = NoKey THEN text ELSE Append(text, k)
\* A value in the clear opens under any key.
Opens(k, text) == text = <<>> \/ (k # NoKey /\ text = <<k>>)

\* While a rotation has written, no one else writes.
Locked == rekey.pc = "writing"

-----------------------------------------------------------------------------
(* The server.                                                             *)

\* The operator sets a first key, with the server down.
SetKey ==
    /\ server.pc = "down" /\ inforce = NoKey /\ inforce' \in Key
    /\ UNCHANGED <<seals, server, patch, rekey, overlap, secErrs>>

init_key ==
    /\ server.pc = "down" /\ server' = [pc |-> "seal", key |-> inforce, at |-> 1]
    /\ UNCHANGED <<seals, inforce, patch, rekey, overlap, secErrs>>

Unsealed(text) == ~ is_encrypted(text)

\* Before it serves, the process seals what is still in the clear, row by row: camera passwords
\* first, then webhook secrets, then the credentials of backup destinations.
reencrypt ==
    /\ server.pc = "seal" /\ ~ Locked
    /\ LET i == Order[server.at]
       IN seals' = [seals EXCEPT ![i] = IF server.key # NoKey /\ Unsealed(@) THEN encrypt(server.key, @) ELSE @]
    /\ server' = IF server.at = Len(Order) THEN [server EXCEPT !.pc = "serve"] ELSE [server EXCEPT !.at = @ + 1]
    /\ UNCHANGED <<inforce, patch, rekey, overlap, secErrs>>

\* A new value is stored.
Save ==
    /\ server.pc = "serve" /\ ~ Locked
    /\ \E i \in Item : seals' = [seals EXCEPT ![i] = encrypt(server.key, <<>>)]
    /\ UNCHANGED <<inforce, server, patch, rekey, overlap, secErrs>>

\* A row is read, changed elsewhere, and written back with the credential as it was read.
WriteBack ==
    /\ server.pc = "serve"
    /\ IF patch = NoPatch
       THEN (\E i \in Item : patch' = [item |-> i, text |-> seals[i]]) /\ UNCHANGED seals
       ELSE ~ Locked /\ seals' = [seals EXCEPT ![patch.item] = patch.text] /\ patch' = NoPatch
    /\ UNCHANGED <<inforce, server, rekey, overlap, secErrs>>

\* The process stops or dies; a boot that cannot seal a row refuses to go on.
ServerEnds ==
    /\ server.pc # "down" /\ server' = [server EXCEPT !.pc = "down"] /\ patch' = NoPatch
    /\ IF server.pc = "seal" THEN SecFails ELSE UNCHANGED secErrs
    /\ UNCHANGED <<seals, inforce, rekey, overlap>>

-----------------------------------------------------------------------------
(* The rotation.                                                           *)

\* rekey-secrets, from the key in force to another one, in one transaction.
rekey_all ==
    /\ rekey.pc = "rest" /\ inforce # NoKey
    /\ \E k \in Key \ {inforce} :
          rekey' = [pc |-> "reading", old |-> inforce, new |-> k, at |-> 1, base |-> seals, copy |-> seals]
    /\ UNCHANGED <<seals, inforce, server, patch, overlap, secErrs>>

\* What a row becomes: itself if the new key opens it, or its plain text under the new key.
Rotated(text) == IF is_encrypted(text) /\ Opens(rekey.new, text) THEN text ELSE encrypt(rekey.new, <<>>)
Stuck(text) == ~ Opens(rekey.new, text) /\ ~ Opens(rekey.old, text)

\* The next row, in the transaction.  It cannot write over what it has not seen: if anyone wrote
\* since it began, its first write fails.
rekey_row ==
    /\ rekey.pc \in {"reading", "writing"} /\ rekey.at <= Len(Order)
    /\ LET i == Order[rekey.at]
       IN /\ ~ Stuck(rekey.copy[i])
          /\ rekey.pc = "writing" \/ rekey.base = seals
          /\ rekey' = [rekey EXCEPT !.pc = "writing", !.at = @ + 1, !.copy[i] = Rotated(@)]
    /\ UNCHANGED <<seals, inforce, server, patch, overlap, secErrs>>

\* The transaction commits, and the operator puts the new key in force.
rekey_commit ==
    /\ rekey.pc = "writing" /\ rekey.at > Len(Order)
    /\ seals' = rekey.copy /\ inforce' = rekey.new /\ rekey' = Resting
    /\ overlap' = (overlap \/ server.pc # "down")
    /\ UNCHANGED <<server, patch, secErrs>>

\* A row that opens under neither key, a row seen too late, or a crash: nothing was written.
rekey_fails ==
    /\ rekey.pc # "rest" /\ rekey' = Resting
    /\ \/ SecFails
       \/ /\ rekey.at <= Len(Order) /\ UNCHANGED secErrs
          /\ Stuck(rekey.copy[Order[rekey.at]]) \/ (rekey.pc = "reading" /\ rekey.base # seals)
    /\ UNCHANGED <<seals, inforce, server, patch, overlap>>

SecNext ==
    \/ SetKey \/ init_key \/ reencrypt \/ Save \/ WriteBack \/ ServerEnds
    \/ rekey_all \/ rekey_row \/ rekey_commit \/ rekey_fails

-----------------------------------------------------------------------------
(* What must hold.                                                         *)

\* admin.rs:94-106, "either every secret is under the new key, or the database is exactly as it was":
\* the key in force opens every secret, whatever crashed, unless a server was left running on the old
\* key while the new one was put in force.
OneKeyOpens == ~ overlap => \A i \in Item : Opens(inforce, seals[i])

\* secrets.rs:165-171 and :218: a process that serves with a key has nothing left in the clear.
SealedWhenServing == server.pc = "serve" /\ server.key # NoKey => \A i \in Item : is_encrypted(seals[i])
=============================================================================
