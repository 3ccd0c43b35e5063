------------------------------- MODULE Watch -------------------------------
(***************************************************************************)
(* What the box tells about itself and its devices, and the ceiling on the *)
(* work it does for viewers: the e-mail notifier (email.rs), the health of *)
(* the drives (health.rs), the probe of what a camera can do               *)
(* (camera_control.rs), and the permits of the media jobs (media_jobs.rs)  *)
(* with the snapshots and playback sessions that need one.                 *)
(***************************************************************************)
EXTENDS Integers, FiniteSets, Sequences, SequencesExt

CONSTANTS BATCH,             \* events per e-mail query
          MaxEvents,         \* bound on the events written
          SMART_INTERVAL, ALERT_WINDOW, \* smart_check_interval_s; three of them in system_info
          Mdstat,            \* what /proc/mdstat may hold: sequences of lines
          MediaJob,          \* requests for media
          MEDIA_LIMIT,       \* max_media_jobs
          MaxShown,          \* bound on the sessions when another is asked for, and on leaked
          MaxProbes,         \* bound on the probes under way
          MaxWatchTime, MaxWatchErrs \* bounds

VARIABLES watchPart, \* what the behaviour is about: "mail", "drives", "arrays", "probe" or "jobs"
          emitting,  \* the events stamped and not written yet: [at, high]
          events,    \* the events table: [id, at, high, late]; late: a row as young was there before it
          mailer,    \* [cursor, boot, batch]: the notifier; batch: the events fetched and not sent yet
          mails,     \* the ids sent, or tried, in this order
          drive,     \* [bad, smartctl]: what smartctl -H would say, and whether it can be run
          mdstat,    \* the content of /proc/mdstat
          since,     \* when the drive went bad or was last replaced
          checked,   \* last_disk_check, 0: none
          alarms,    \* the alerts in the events table: [what, at]
          lostAlert, \* whether an alert could not be written
          address,   \* the device a camera's row names, a number
          caps,      \* its column capabilities: [control, other]
          other,     \* what was last written to the column's other keys
          probes,    \* the probes under way: [id, pc, saw, base]
          overlapped, \* whether a probe began beside another, or the row changed under one
          job,       \* media job -> [kind, pc, locked]
          permits,   \* the semaphore's free permits
          kept,      \* whether the segment is indexed, and its file there
          locked,    \* its count of read-locks
          shown,     \* the playback sessions that hold a lock
          leaked,    \* the locks nobody gives back
          wNow, wErrs

mailVars == <<emitting, events, mailer, mails>>
driveVars == <<drive, mdstat, since, checked, alarms, lostAlert>>
probeVars == <<address, caps, other, probes, overlapped>>
jobVars == <<job, permits, kept, locked, shown, leaked>>
watchVars == <<watchPart, mailVars, driveVars, probeVars, jobVars, wNow, wErrs>>

NoCaps == [control |-> 0, other |-> 0]
NoJob == [kind |-> "none", pc |-> "idle", locked |-> FALSE]

\* A limit of zero would stop every job: it counts as one.
Ceiling == IF MEDIA_LIMIT > 1 THEN MEDIA_LIMIT ELSE 1

WatchInit ==
    /\ watchPart \in {"mail", "drives", "arrays", "probe", "jobs"}
    /\ emitting = {} /\ events = {} /\ mailer = [cursor |-> 1, boot |-> 1, batch |-> {}] /\ mails = <<>>
    /\ drive \in [bad : {FALSE}, smartctl : IF watchPart = "drives" THEN BOOLEAN ELSE {TRUE}]
    /\ mdstat \in (IF watchPart = "arrays" THEN Mdstat ELSE {<<>>})
    /\ since = 0 /\ checked = 0 /\ alarms = {} /\ lostAlert = FALSE
    /\ address = 1 /\ caps = NoCaps /\ other = 0 /\ probes = {} /\ overlapped = FALSE
    /\ job = [j \in MediaJob |-> NoJob] /\ permits = Ceiling /\ kept = TRUE /\ locked = 0 /\ shown = 0 /\ leaked = 0
    /\ wNow = 1 /\ wErrs = 0

WatchFails == wErrs < MaxWatchErrs /\ wErrs' = wErrs + 1
WatchFine == UNCHANGED wErrs

-----------------------------------------------------------------------------
(* The e-mail notifier.                                                    *)

\* log_event takes its time before it writes ...
stamp(high) ==
    /\ Cardinality(events) + Cardinality(emitting) < MaxEvents
    /\ emitting' = emitting \cup {[at |-> wNow, high |-> high]} /\ UNCHANGED <<events, mailer, mails>>

\* ... and the row may come after a younger one.
log_event(e) ==
    /\ emitting' = emitting \ {e}
    /\ events' = events \cup {[id |-> Cardinality(events) + 1, at |-> e.at, high |-> e.high,
                               late |-> \E r \in events : r.high /\ r.at >= e.at]}
    /\ UNCHANGED <<mailer, mails>>

\* The rows after the cursor and at the severity asked for.
Due_Inclusive == {r \in events : r.high /\ r.at >= mailer.cursor}
Due == {r \in events : r.high /\ r.at > mailer.cursor}

\* The oldest BATCH of them, in the order of their times and of nothing else.
fetch_events ==
    /\ mailer.batch = {}
    /\ \E B \in (SUBSET Due) \ {{}} :
          /\ Cardinality(B) = (IF Cardinality(Due) < BATCH THEN Cardinality(Due) ELSE BATCH)
          /\ \A r \in B, o \in Due \ B : r.at <= o.at
          /\ mailer' = [mailer EXCEPT !.batch = B]
    /\ UNCHANGED <<emitting, events, mails>>

\* A message that cannot be built or sent is passed like one that was.
send ==
    /\ \E r \in mailer.batch :
          /\ \A o \in mailer.batch : r.at <= o.at
          /\ mails' = Append(mails, r.id)
          /\ mailer' = [mailer EXCEPT !.cursor = r.at, !.batch = @ \ {r}]
    /\ UNCHANGED <<emitting, events>>

\* The cursor is not kept: the notifier starts with what is written from now on.
RestartMail ==
    /\ mailer' = [cursor |-> wNow, boot |-> wNow, batch |-> {}] /\ emitting' = {}
    /\ UNCHANGED <<events, mails>>

MailStep ==
    \/ WatchFine /\ ((\E high \in BOOLEAN : stamp(high)) \/ (\E e \in emitting : log_event(e)) \/ fetch_events \/ send)
    \/ WatchFails /\ RestartMail

-----------------------------------------------------------------------------
(* The drives.  A line of /proc/mdstat is [head, marks]: the array it      *)
(* opens, or "", and its bracketed words as sets of characters.            *)

line_has_down_member_Any(line) == \E m \in line.marks : "_" \in m
line_has_down_member(line) == \E m \in line.marks : m \subseteq {"U", "_"} /\ "_" \in m

\* One verdict per array.
mdstat_degraded(lines) ==
    FoldLeft(LAMBDA acc, line :
                 IF line.head # "" THEN [acc EXCEPT !.current = line.head]
                 ELSE IF acc.current # "" /\ line_has_down_member(line)
                      THEN [current |-> "", names |-> Append(acc.names, acc.current)]
                      ELSE acc,
             [current |-> "", names |-> <<>>], lines).names

Found ==
    {a \in {"drive"} : drive.smartctl /\ drive.bad} \cup {mdstat_degraded(mdstat)[i] : i \in DOMAIN mdstat_degraded(mdstat)}

Overdue == checked = 0 \/ wNow - checked >= SMART_INTERVAL

\* A pass of the loop, when one is due.  Nobody looks whether an alert was written.
check_disk_health ==
    /\ Overdue /\ checked' = wNow
    /\ \/ alarms' = alarms \cup {[what |-> a, at |-> wNow] : a \in Found} /\ UNCHANGED lostAlert /\ WatchFine
       \/ Found # {} /\ lostAlert' = TRUE /\ UNCHANGED alarms /\ WatchFails
    /\ UNCHANGED <<drive, mdstat, since>>

\* The drive fails, or is replaced.
Wear ==
    /\ drive' = [drive EXCEPT !.bad = ~ @]
    /\ since' = wNow
    /\ UNCHANGED <<mdstat, checked, alarms, lostAlert>>

RestartDrives == checked' = 0 /\ UNCHANGED <<drive, mdstat, since, alarms, lostAlert>>

\* What system_info says of the drives.
disk_health_ok == ~ \E a \in alarms : a.at >= wNow - ALERT_WINDOW

DriveStep ==
    \/ check_disk_health
    \/ watchPart = "drives" /\ Wear /\ WatchFine
    \/ WatchFails /\ RestartDrives

-----------------------------------------------------------------------------
(* What a camera can do.                                                   *)

\* An update of the row, of its other keys too or not; a probe of the device it names now starts in
\* the background.
spawn_probe ==
    /\ Cardinality(probes) < MaxProbes /\ address < MaxWatchTime
    /\ address' \in {address, address + 1} /\ other' \in {other, address'}
    /\ caps' = [caps EXCEPT !.other = other']
    /\ \E i \in 1..MaxProbes :
          /\ \A p \in probes : p.id # i
          /\ probes' = probes \cup {[id |-> i, pc |-> "new", saw |-> 0, base |-> NoCaps]}
    /\ overlapped' = (probes # {})

\* The row is read and the device answers, surface by surface; one that does not counts as absent.
probe_surfaces(p) ==
    /\ p.pc = "new" /\ probes' = (probes \ {p}) \cup {[p EXCEPT !.pc = "probed", !.saw = address]}
    /\ UNCHANGED <<address, caps, other, overlapped>>

\* The row is read again, for the column's other keys ...
load_camera(p) ==
    /\ p.pc = "probed" /\ probes' = (probes \ {p}) \cup {[p EXCEPT !.pc = "loaded", !.base = caps]}
    /\ UNCHANGED <<address, caps, other, overlapped>>

\* ... and the whole column is written.
persist_device_control_Fresh(p) ==
    /\ p.pc = "loaded" /\ caps' = [control |-> p.saw, other |-> 0]
    /\ probes' = probes \ {p} /\ UNCHANGED <<address, other, overlapped>>
persist_device_control(p) ==
    /\ p.pc = "loaded" /\ caps' = [p.base EXCEPT !.control = p.saw]
    /\ probes' = probes \ {p} /\ UNCHANGED <<address, other, overlapped>>

ProbeStep ==
    /\ \/ spawn_probe
       \/ \E p \in probes : probe_surfaces(p) \/ load_camera(p) \/ persist_device_control(p)
    /\ WatchFine

-----------------------------------------------------------------------------
(* Media jobs: "frame" reads footage, "live" a camera, "session" builds a  *)
(* playback session.                                                       *)

At(j, pc) == job[j].pc = pc
Goes(j, pc) == job' = [job EXCEPT ![j].pc = pc]
Ends(j) == job' = [job EXCEPT ![j] = NoJob]
Holding == {j \in MediaJob : job[j].pc \in {"permitted", "work"}}

\* snapshot_at and create_session look for footage first; a session locks what it found before it
\* waits for a permit, a snapshot after.
begin(j, kind) ==
    /\ At(j, "idle") /\ (kind # "live" => kept) /\ (kind = "session" => shown < MaxShown)
    /\ job' = [job EXCEPT ![j] = [kind |-> kind, pc |-> IF kind = "session" THEN "found" ELSE "wait", locked |-> FALSE]]
    /\ UNCHANGED <<permits, kept, locked, shown, leaked>>

\* A lock on a row that is gone does nothing.
lock(j, next) ==
    /\ job' = [job EXCEPT ![j] = [@ EXCEPT !.pc = next, !.locked = kept]]
    /\ locked' = IF kept THEN locked + 1 ELSE locked
    /\ UNCHANGED <<permits, kept, shown, leaked>>
Unlocks(j) == locked' = IF job[j].locked /\ kept THEN locked - 1 ELSE locked

acquire(j) ==
    /\ At(j, "wait") /\ permits > 0 /\ permits' = permits - 1
    /\ Goes(j, IF job[j].kind = "frame" THEN "permitted" ELSE "work")
    /\ UNCHANGED <<kept, locked, shown, leaked>>

\* Nobody waits longer than ACQUIRE_TIMEOUT for a permit that is not free; a rejected session gives
\* back what it locked.
acquire_within(j) ==
    /\ At(j, "wait") /\ permits = 0 /\ Ends(j) /\ Unlocks(j)
    /\ UNCHANGED <<permits, kept, shown, leaked>>

\* FFmpeg ends, fails or runs out of time: the guards are dropped, and only a session that was built
\* and recorded keeps its locks.
finish(j, built) ==
    /\ At(j, "work") /\ Ends(j) /\ permits' = permits + 1
    /\ IF built /\ job[j].kind = "session" /\ job[j].locked
       THEN shown' = shown + 1 /\ UNCHANGED locked
       ELSE Unlocks(j) /\ UNCHANGED shown
    /\ UNCHANGED <<kept, leaked>>

\* The client goes away: what has a guard is given back, a session's locks are not.
cancel(j) ==
    /\ ~ At(j, "idle") /\ Ends(j)
    /\ permits' = IF j \in Holding THEN permits + 1 ELSE permits
    /\ IF job[j].kind = "session" /\ job[j].locked
       THEN leaked < MaxShown /\ leaked' = leaked + 1 /\ UNCHANGED locked
       ELSE Unlocks(j) /\ UNCHANGED leaked
    /\ UNCHANGED <<kept, shown>>

\* delete_session, or the sweep of old directories.
delete_session ==
    /\ shown > 0 /\ shown' = shown - 1 /\ locked' = IF locked > 0 THEN locked - 1 ELSE 0
    /\ UNCHANGED <<job, permits, kept, leaked>>

\* Retention takes what nobody has locked.
prune == kept /\ locked = 0 /\ kept' = FALSE /\ UNCHANGED <<job, permits, locked, shown, leaked>>

JobStep ==
    /\ \/ \E j \in MediaJob :
            \/ \E kind \in {"frame", "live", "session"} : begin(j, kind)
            \/ At(j, "found") /\ lock(j, "wait")
            \/ At(j, "permitted") /\ lock(j, "work")
            \/ acquire(j) \/ acquire_within(j) \/ cancel(j)
            \/ \E built \in BOOLEAN : finish(j, built)
       \/ delete_session \/ prune
    /\ WatchFine

-----------------------------------------------------------------------------
\* The health loop comes round often enough for a pass to begin when it is due.
WatchTick ==
    /\ watchPart \in {"mail", "drives"} /\ wNow < MaxWatchTime /\ wNow' = wNow + 1
    /\ watchPart = "drives" => ~ Overdue
    /\ UNCHANGED <<mailVars, driveVars, probeVars, jobVars, wErrs>>

WatchNext ==
    /\ UNCHANGED watchPart
    /\ \/ watchPart = "mail" /\ MailStep /\ UNCHANGED <<driveVars, probeVars, jobVars, wNow>>
       \/ watchPart \in {"drives", "arrays"} /\ DriveStep /\ UNCHANGED <<mailVars, probeVars, jobVars, wNow>>
       \/ watchPart = "probe" /\ ProbeStep /\ UNCHANGED <<mailVars, driveVars, jobVars, wNow>>
       \/ watchPart = "jobs" /\ JobStep /\ UNCHANGED <<mailVars, driveVars, probeVars, wNow>>
       \/ WatchTick

-----------------------------------------------------------------------------
(* Properties.                                                             *)

Sent == {mails[i] : i \in DOMAIN mails}
Of(id) == CHOOSE r \in events : r.id = id

\* An event is mailed once at most, across restarts, and in the order of the events' times
\* (email.rs 6-8: "delivery is at-most-once").
MailedOnce ==
    /\ Cardinality(Sent) = Len(mails)
    /\ \A i, k \in DOMAIN mails : i < k => Of(mails[i]).at <= Of(mails[k]).at

\* The cursor passes an event of the severity asked for only if it was sent, if it was written after
\* one as young, or if another has its time; one from before the boot is not owed (email.rs: run,
\* fetch_events).
MailOwed ==
    \A r \in events :
        r.high /\ r.at > mailer.boot /\ r.at <= mailer.cursor =>
            \/ r.id \in Sent \/ r \in mailer.batch \/ r.late
            \/ \E o \in events : o.id # r.id /\ o.at = r.at /\ o.high

\* Everything after the boot is mailed.  No run asks for this: an event stamped before another and
\* written after it is passed.
MailComplete ==
    \A r \in events : r.high /\ r.at > mailer.boot /\ r.at <= mailer.cursor => r.id \in Sent

\* What a pass finds is shown as long as it lasts, unless an alert could not be written or smartctl
\* is missing, and no longer than a window after it ended (health.rs: check_disk_health;
\* routes/system.rs: system_info).
DrivesTold ==
    /\ drive.bad /\ drive.smartctl /\ checked > since /\ ~ lostAlert => ~ disk_health_ok
    /\ watchPart = "drives" /\ ~ drive.bad /\ wNow - since > ALERT_WINDOW => disk_health_ok

\* An array is reported exactly when one of its lines, before the next array's, shows a member down,
\* and once (health.rs: mdstat_degraded).
ArraysExact ==
    LET names == mdstat_degraded(mdstat)
        Down(i) == \E k \in i + 1..Len(mdstat) :
                      /\ "_" \in UNION {m \in mdstat[k].marks : m \subseteq {"U", "_"}}
                      /\ \A n \in i + 1..k : mdstat[n].head = ""
    IN /\ {names[i] : i \in DOMAIN names} = {mdstat[i].head : i \in {i \in DOMAIN mdstat : mdstat[i].head # "" /\ Down(i)}}
       /\ Len(names) <= Cardinality({i \in DOMAIN mdstat : mdstat[i].head # ""})

\* When no probe ran beside another and none is under way, the map shows the device the row names, and
\* no probe has cost the column its other keys (camera_control.rs: persist_device_control).
ProbeFresh ==
    ~ overlapped => /\ probes = {} /\ address > 1 => caps.control = address
                    /\ caps.other = other

\* The same whatever overlaps.  No run asks for this: an old probe may be the last to write.
ProbeCurrent == probes = {} /\ caps.control # 0 => caps.control = address

\* Whatever ends, fails, waits too long or is cancelled, every permit is free or held by a job at work,
\* no more than the ceiling work at a time, and the lock count is that of the jobs and sessions that
\* hold one (media_jobs.rs 58-63; snapshot.rs; playback_session.rs: create_session).
PermitsExact ==
    /\ permits + Cardinality(Holding) = Ceiling /\ Ceiling >= 1
    /\ kept => locked = shown + leaked + Cardinality({j \in MediaJob : job[j].locked})

\* The footage a frame is taken from is there until FFmpeg is done with it, once it was locked.
ReadInPlace == \A j \in MediaJob : At(j, "work") /\ job[j].locked => kept
=============================================================================
