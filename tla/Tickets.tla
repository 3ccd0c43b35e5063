------------------------------ MODULE Tickets ------------------------------
(***************************************************************************)
(* What the kernel takes from the AI workers.  Discovery divides the tasks *)
(* among the workers of one credential (worker_shard.rs, list_all_tasks).  *)
(* A frame pulled under a live lease comes with a ticket; a batch posted   *)
(* with the ticket gets its camera and its frame id from it                *)
(* (frame_ticket.rs, latest_frame, resolve_binding).  The table of leases  *)
(* is read as it is: the cache in front of it is AiLeases'.                *)
(***************************************************************************)
EXTENDS Integers, FiniteSets

CONSTANTS TkWorker,    \* worker ids, numbers in the order of the ids
          TkTask,      \* tasks, numbers in the order of their ids
          TkKey, KeyOf, \* credentials; worker -> the one it presents
          Sees, CamOf, \* credential -> the tasks on its cameras; task -> camera
          Pulled,      \* the tasks whose frames are pulled (bound)
          LIVENESS_TTL, LEASE_TTL, TICKET_TTL, WarnEvery, QUIET_PERIOD, WINDOW, \* seconds
          MaxTkTime, MaxNoteTime, MaxTkErrs, MaxTickets \* (bounds; a fault, a restart and a disabled task count as one each)

VARIABLES tkPart,   \* what the behaviour is about: "shards", or the tier: "enforce", "warn" or "off"
          workers,  \* ai_workers: worker -> last_seen, 0: no row
          told,     \* worker -> [tasks, rows]: its last answer; rows: its credential's rows then
          frame,    \* camera -> when latest.jpg was captured, which names its bytes; 0: no file
          leases,   \* task -> [key, until]
          enabled,  \* the enabled tasks
          pull,     \* credential -> [pc, task, bytes]: a frame request
          tickets,  \* the tickets handed out
          post,     \* credential -> [pc, ticket, camera]: an ingest request
          outbox,   \* the batches accepted: [task, at, camera, bytes, key]
          refused,  \* [task, bytes] of the batches answered as duplicates
          noted,    \* credential -> when its ticketless batches were last reported, 0: never
          reports, bare, \* [key, at]: ingest_unleased events; the ticketless batches
          boot, tkNow, tkErrs

shardVars == <<workers, told>>
pullVars == <<frame, leases, enabled, pull, tickets>>
postVars == <<post, outbox, refused>>
noteVars == <<noted, reports, bare>>
tkVars == <<tkPart, shardVars, pullVars, postVars, noteVars, boot, tkNow, tkErrs>>

Camera == {CamOf[t] : t \in Pulled}
Nobody == [key |-> "none", until |-> 0]
NoTicket == [key |-> "none", task |-> 0, camera |-> "none", at |-> 0, exp |-> 0, bytes |-> 0, boot |-> 0]
NoPull == [pc |-> "idle", task |-> 0, bytes |-> 0]
NoPost == [pc |-> "idle", ticket |-> NoTicket, camera |-> "none"]
TkInit ==
    /\ tkPart \in {"shards", "enforce", "warn", "off"}
    /\ workers = [w \in TkWorker |-> 0] /\ told = [w \in TkWorker |-> [tasks |-> {}, rows |-> {}]]
    /\ frame = [c \in Camera |-> 0] /\ leases = [t \in TkTask |-> Nobody] /\ enabled = TkTask
    /\ pull = [k \in TkKey |-> NoPull] /\ tickets = {} /\ post = [k \in TkKey |-> NoPost] /\ outbox = {} /\ refused = {}
    /\ noted = [k \in TkKey |-> 0] /\ reports = {} /\ bare = {} /\ boot = 1 /\ tkNow = 1 /\ tkErrs = 0
TkFails == tkErrs < MaxTkErrs /\ tkErrs' = tkErrs + 1
TkFine == UNCHANGED tkErrs

-----------------------------------------------------------------------------
(* Discovery.                                                              *)

\* The place of x in the order of S.
Place(x, S) == Cardinality({y \in S : y < x})

\* Task i of the list goes to worker i modulo their number; one that is not among them gets all.
assign(tasks, live, me) ==
    IF me \notin live THEN tasks
    ELSE {t \in tasks : Place(t, tasks) % Cardinality(live) = Place(me, live)}

\* The workers that divide the same list: those of one credential.
Peers(rows, w) == {v \in rows : KeyOf[v] = KeyOf[w]}

\* A worker heartbeats, the stale rows go, and it is told its share.  A heartbeat that fails is not
\* noticed: the worker counts itself in; and a list that cannot be read is that worker alone.
list_all_tasks(w) ==
    /\ \/ workers' = [v \in TkWorker |-> IF v = w THEN tkNow ELSE IF workers[v] < tkNow - LIVENESS_TTL THEN 0 ELSE workers[v]] /\ TkFine
       \/ TkFails /\ UNCHANGED workers
    /\ LET rows == {v \in TkWorker : workers'[v] # 0}
       IN told' = [told EXCEPT ![w] = [tasks |-> assign(Sees[KeyOf[w]], Peers(rows, w) \cup {w}, w),
                                       rows |-> {v \in rows : KeyOf[v] = KeyOf[w]}]]

Shards == \E w \in TkWorker : list_all_tasks(w)

-----------------------------------------------------------------------------
(* Frames and tickets.                                                     *)

\* The sampler replaces the file.
Sample(c) == frame[c] # tkNow /\ frame' = [frame EXCEPT ![c] = tkNow] /\ UNCHANGED <<leases, enabled, pull, tickets>>

Held(t, k) == leases[t].key = k /\ leases[t].until > tkNow

\* A task nobody holds is taken, one's own is renewed or given back.
Lease(k, t) ==
    /\ \/ leases[t].until <= tkNow \/ leases[t].key = k
    /\ \/ t \in Sees[k] /\ leases' = [leases EXCEPT ![t] = [key |-> k, until |-> tkNow + LEASE_TTL]]
       \/ Held(t, k) /\ leases' = [leases EXCEPT ![t] = Nobody]
    /\ UNCHANGED <<frame, enabled, pull, tickets>>

\* The file is read ...
latest_frame(k, t) ==
    /\ pull[k].pc = "idle" /\ t \in Sees[k] /\ frame[CamOf[t]] # 0
    /\ pull' = [pull EXCEPT ![k] = [pc |-> "read", task |-> t, bytes |-> frame[CamOf[t]]]]
    /\ UNCHANGED <<frame, leases, enabled, tickets>>

\* ... its time is asked of the file system, and a lease holder gets a ticket with the frame.
mint(k) ==
    LET p == pull[k] c == CamOf[p.task]
    IN /\ p.pc = "read" /\ (Held(p.task, k) => Cardinality(tickets) < MaxTickets) /\ pull' = [pull EXCEPT ![k] = NoPull]
       /\ tickets' = IF ~ Held(p.task, k) THEN tickets
                     ELSE tickets \cup {[key |-> k, task |-> p.task, camera |-> c, at |-> frame[c],
                                         exp |-> tkNow + TICKET_TTL, bytes |-> p.bytes, boot |-> boot]}
       /\ UNCHANGED <<frame, leases, enabled>>

\* An administrator disables the task or its camera.
Disable(t) == t \in enabled /\ enabled' = enabled \ {t} /\ UNCHANGED <<frame, leases, pull, tickets>>

-----------------------------------------------------------------------------
(* Ingest.                                                                 *)

\* The credential is not under the signature.
mac_for_NoKey(ticket, k, c) == ticket.camera = c /\ ticket.boot = boot

\* The signature covers the caller, the camera and the task, under the key of this boot.
mac_for(ticket, k, c) == ticket.key = k /\ ticket.camera = c /\ ticket.boot = boot
verify(ticket, k, c) == tkNow < ticket.exp /\ mac_for(ticket, k, c)

\* A batch comes with a ticket, one the worker was given or one that came to it by mistake.  The caller
\* must hold the task it names, or it is sent away; the lease says which camera the signature is over.
claim(k) ==
    /\ post[k].pc = "idle"
    /\ \E x \in tickets : Held(x.task, k) /\ post' = [post EXCEPT ![k] = [pc |-> "held", ticket |-> x, camera |-> CamOf[x.task]]]
    /\ UNCHANGED <<outbox, refused>>

\* Signature and expiry, whether the task and its camera still stand, the credential's scope.  The
\* request also ends if its body names another camera or kind of task, or if a read fails.
resolve_binding(k) ==
    LET p == post[k]
    IN /\ p.pc = "held"
       /\ \/ /\ verify(p.ticket, k, p.camera) /\ p.ticket.task \in enabled /\ p.ticket.task \in Sees[k]
             /\ post' = [post EXCEPT ![k].pc = "bound"]
          \/ post' = [post EXCEPT ![k] = NoPost]
       /\ UNCHANGED <<outbox, refused>>

\* The outbox refuses a second batch with the frame id task:captured.
ingest(k) ==
    LET x == post[k].ticket
    IN /\ post[k].pc = "bound" /\ post' = [post EXCEPT ![k] = NoPost]
       /\ IF \E b \in outbox : b.task = x.task /\ b.at = x.at
          THEN refused' = refused \cup {[task |-> x.task, bytes |-> x.bytes]} /\ UNCHANGED outbox
          ELSE outbox' = outbox \cup {[task |-> x.task, at |-> x.at, camera |-> post[k].camera, bytes |-> x.bytes, key |-> k, by |-> x.key]}
               /\ UNCHANGED refused

\* One report an hour for a credential.
Recent(k) == noted[k] # 0 /\ tkNow - noted[k] < WarnEvery

\* Under "warn" the credential is reported; the hour begins before the report is written, and nobody
\* looks whether it was.
note_unleased_ingest(k) ==
    IF tkPart # "warn" \/ Recent(k) THEN UNCHANGED <<noted, reports>> /\ TkFine
    ELSE /\ noted' = [noted EXCEPT ![k] = tkNow]
         /\ \/ reports' = reports \cup {[key |-> k, at |-> tkNow, written |-> TRUE]} /\ TkFine
            \/ reports' = reports \cup {[key |-> k, at |-> tkNow, written |-> FALSE]} /\ TkFails

\* A batch without a ticket, about a camera of the credential's: refused under "enforce"; otherwise it
\* is reported and taken as it comes, with the frame id the client gives it.
Ticketless(k) ==
    /\ tkPart # "enforce" /\ \E t \in TkTask : t \in Sees[k]
    /\ note_unleased_ingest(k) /\ bare' = bare \cup {[key |-> k, at |-> tkNow]}

-----------------------------------------------------------------------------
(* Whether the tier "enforce" would refuse anybody (routes/system.rs).     *)

readiness_verdict_Loudest(tier, ages) ==
    CASE tier = "enforce" -> "already_enforced"
      [] tier = "off" -> "unknown"
      [] OTHER -> IF ages # {} /\ \A q \in ages : q < QUIET_PERIOD THEN "not_ready" ELSE "likely_ready"

\* From the tier and the ages of the reports: the youngest of them decides.
readiness_verdict(tier, ages) ==
    CASE tier = "enforce" -> "already_enforced"
      [] tier = "off" -> "unknown"
      [] OTHER -> IF \E q \in ages : q < QUIET_PERIOD THEN "not_ready" ELSE "likely_ready"

\* The reports in the table, a day back.
Listed == {r \in reports : r.written /\ r.at >= tkNow - WINDOW}

get_provenance_readiness == readiness_verdict(tkPart, {tkNow - r.at : r \in Listed})

-----------------------------------------------------------------------------
\* The process starts again: requests end, the key of the tickets and the reports' hours are gone.
Restart ==
    /\ TkFails /\ boot' = boot + 1
    /\ pull' = [k \in TkKey |-> NoPull] /\ post' = [k \in TkKey |-> NoPost] /\ noted' = [k \in TkKey |-> 0]
    /\ UNCHANGED <<shardVars, frame, leases, enabled, tickets, outbox, refused, reports, bare>>

TkTick == tkNow < (IF tkPart \in {"warn", "off"} THEN MaxNoteTime ELSE MaxTkTime) /\ tkNow' = tkNow + 1 /\ UNCHANGED <<shardVars, pullVars, postVars, noteVars, boot, tkErrs>>

Frames ==
    \/ (\E t \in Pulled : Disable(t)) /\ TkFails
    \/ /\ TkFine
       /\ \/ \E c \in Camera : Sample(c)
          \/ \E k \in TkKey, t \in Pulled : Lease(k, t) \/ latest_frame(k, t)
          \/ \E k \in TkKey : mint(k)
Posts == \E k \in TkKey : claim(k) \/ resolve_binding(k) \/ ingest(k)

TkNext ==
    /\ UNCHANGED tkPart
    /\ \/ tkPart = "shards" /\ Shards /\ UNCHANGED <<pullVars, postVars, noteVars, boot, tkNow>>
       \/ tkPart = "enforce" /\ Frames /\ UNCHANGED <<shardVars, postVars, noteVars, boot, tkNow>>
       \/ tkPart = "enforce" /\ Posts /\ UNCHANGED <<shardVars, pullVars, noteVars, boot, tkNow, tkErrs>>
       \/ tkPart \in {"warn", "off"} /\ (\E k \in TkKey : Ticketless(k)) /\ UNCHANGED <<shardVars, pullVars, postVars, boot, tkNow>>
       \/ tkPart # "shards" /\ Restart /\ UNCHANGED tkNow
       \/ TkTick

-----------------------------------------------------------------------------
(* Properties.                                                             *)

\* When all the live workers of a credential have asked since the last of them came or went, every task
\* they see is one worker's and only one's (worker_shard.rs 40-49; routes/ai.rs 461-466).
ShardCovers ==
    tkErrs = 0 =>
    \A k \in TkKey :
        LET mine == {w \in TkWorker : KeyOf[w] = k /\ workers[w] # 0}
        IN mine # {} /\ (\A w \in mine : told[w].rows = mine) =>
               \A t \in Sees[k] : Cardinality({w \in mine : t \in told[w].tasks}) = 1

\* A ticketed batch stands for a frame of its camera that the credential posting it had been handed
\* itself, whoever has held the task since (frame_ticket.rs 9-21).
TicketBound ==
    \A b \in outbox : \E x \in tickets : x.key = b.key /\ x.task = b.task /\ x.bytes = b.bytes /\ x.camera = b.camera

\* Under "warn" whoever posts without tickets is reported within the hour before each batch, unless the report could
\* not be written (routes/ai.rs 1019-1070).
UnleasedReported == tkPart = "warn" =>
    \A p \in bare : \E r \in reports : r.key = p.key /\ r.at <= p.at /\ p.at - r.at < WarnEvery

\* The readiness report does not flatter: "off" tells nothing; "not_ready" means a ticketless batch
\* within the hour; and under "likely_ready" any of the day fell in the hour that began with a report
\* shown and over, so whoever "enforce" would refuse is listed, unless a report could not be written
\* (routes/system.rs 87-241).
ReadinessHonest ==
    LET verdict == get_provenance_readiness
    IN /\ tkPart = "off" => verdict = "unknown"
       /\ verdict = "not_ready" => \E p \in bare : tkNow - p.at < QUIET_PERIOD
       /\ verdict = "likely_ready" /\ (\A r \in reports : r.written) =>
              \A p \in bare : \/ tkNow - p.at > WINDOW - WarnEvery
                             \/ \E r \in Listed : /\ r.key = p.key /\ r.at <= p.at /\ p.at - r.at < WarnEvery
                                                  /\ tkNow - r.at >= QUIET_PERIOD

\* "No ticketless ingest for over an hour" (routes/system.rs 125): no run asks for this, since a batch
\* in the hour after a report adds none, and the report is over an hour old before the batch is.
QuietMeansQuiet == tkPart = "warn" /\ get_provenance_readiness = "likely_ready" /\ Listed # {} =>
    \A p \in bare : tkNow - p.at >= QUIET_PERIOD \/ \E r \in reports : ~ r.written

\* A batch answered as a duplicate tells of bytes a batch has told of (perception_ingest.rs 66).
DuplicateIsRedelivery == \A d \in refused : \E b \in outbox : b.task = d.task /\ b.bytes = d.bytes
=============================================================================
