--------------------------- MODULE MCApps -----------------------------------
(* What runs beside the perception pipeline, one part at a time: the        *)
(* applications, the frames the workers pull, the camera's own             *)
(* configuration and recognition, the way out to the rendezvous and the    *)
(* catalogue.  The parts share no state; Anpr has three.                   *)
EXTENDS Integers, FiniteSets, TLC

CONSTANTS SrchCamera, SrchSource, MaxFacts, Hours, fetch_cap, max_results, CAMERA_PRED_MAX, Searcher,
          Cred, MAX_QUEUE_DEPTH, TrackKey, Plate, Junk, Guard, anpr_min_votes, MaxUid, MaxBatches,
          MaxDbErrors, WantedWindow, Day, retention_days, Transit, MinScore, MaxTime, MaxSweepErrors,
          TkWorker, TkTask, TkKey, KeyOf, Sees, CamOf, Pulled, LIVENESS_TTL, LEASE_TTL, TICKET_TTL,
          WarnEvery, QUIET_PERIOD, WINDOW, MaxTkTime, MaxNoteTime, MaxTkErrs, MaxTickets, Writer, Pct, MaxAsks, MaxDevFaults, PlateRead,
          Alert, Rearm, Idle, MaxCamTime, MaxCamErrs, RelaySlot, Rdv, Paths, MAX_RELAY_BODY,
          STALE_AFTER_S, BackoffCap, RespawnDelay, LongPoll, MaxRelayTime, MaxJobs, MaxRelayErrs,
          Urls, Refresher, TrustedKey, allow_unverified, MaxIssues, MaxCatTime, MaxCatErrs,
          VecCam, VecFrame, VecCaller, MaxStored, MaxVec, MaxAngle, VecModel, SCAN_CAP, MAX_K,
          APPEARANCE_MIN_VECTORS, APPEARANCE_MAX_VECTORS, MaxVecErrs,
          PlugFile, PlugId, Reserved, PlugCall, max_events, max_failures, MaxEmits, MaxCalls, MaxPlugErrs,
          BATCH, MaxEvents, SMART_INTERVAL, ALERT_WINDOW, Mdstat, MediaJob, MEDIA_LIMIT, MaxShown,
          MaxProbes, MaxWatchTime, MaxWatchErrs

ASSUME AppsAssumption == anpr_min_votes \in Nat
ASSUME MovementAssumption == WantedWindow \in Int /\ Day \in Nat /\ retention_days \in Int
ASSUME WatchAssumption ==
    /\ {BATCH, SMART_INTERVAL, ALERT_WINDOW} \subseteq Nat \ {0} /\ MEDIA_LIMIT \in Nat
ASSUME SearchAssumption ==
    /\ "nobody" \notin Cred /\ Hours \in Nat \ {0} /\ {fetch_cap, max_results, CAMERA_PRED_MAX} \subseteq Nat
    /\ IsFiniteSet(SrchCamera)
ASSUME VectorsAssumption == {MaxVec, MaxAngle, SCAN_CAP, MAX_K, APPEARANCE_MIN_VECTORS} \subseteq Nat
ASSUME TicketsAssumption ==
    /\ IsFiniteSet(TkWorker) /\ TkWorker \subseteq Int /\ IsFiniteSet(TkTask) /\ TkTask \subseteq Int
    /\ KeyOf \in [TkWorker -> TkKey] /\ Sees \in [TkKey -> SUBSET TkTask] /\ Pulled \subseteq TkTask
    /\ {LIVENESS_TTL, QUIET_PERIOD, WINDOW} \subseteq Nat /\ WarnEvery \in Nat \ {0}

VARIABLES facts, plan, fetched, began, answer, queue, asks, got, offers, work, tracks, next_uid,
          batches, dbErrors, jobs, entries, unrecorded, class, watch, passes, gate, openings, relay,
          latched, opened, mnow, seen, likeness, crossed, candidates, alerts, judged, mread, ran,
          sweepErrors, tkPart, workers, told, frame, leases, enabled, pull, tickets, post, outbox,
          refused, noted, reports, bare, boot, tkNow, tkErrs, family, challenge, docs, users, w,
          last, asked, devFaults, camPart, device, cursor, poll, ingested, failed, backlog, begun,
          on, reader, burst, camNow, camErrs, cameras, loop, wire, answers, last_ok, up, ice,
          relayNow, relayed, relayErrs, served, made, slot, refr, reg, catNow, catErrs,
          vecPart, rows, crops, owners, calls, pruner, zone, query, found, pair, vecErrs,
          guests, unread, loaded, failures, disabled, runs, returned, stored, notices, started,
          plugBoot, plugErrs,
          watchPart, emitting, events, mailer, mails, drive, mdstat, since, checked, alarms,
          lostAlert, address, caps, other, probes, overlapped, job, permits, kept, locked, shown,
          leaked, wNow, wErrs

VARIABLE part       \* the part under way

Srch == INSTANCE Search WITH Source <- SrchSource
Anpr == INSTANCE Anpr
Mov == INSTANCE Movement
Tick == INSTANCE Tickets
Hik == INSTANCE Hikvision
Rel == INSTANCE Relay WITH Slot <- RelaySlot
Cat == INSTANCE Catalog
Vec == INSTANCE Vectors
Plug == INSTANCE Plugins
Wch == INSTANCE Watch

srchVars == <<facts, plan, fetched, began, answer>>
embVars == <<queue, asks, got, offers, work>>
anprVars == <<tracks, next_uid, batches, dbErrors, jobs, entries, unrecorded, class, watch, passes,
              gate, openings, relay, latched, opened>>
movVars == <<mnow, seen, likeness, crossed, candidates, alerts, judged, mread, ran, sweepErrors>>
tkVars == <<tkPart, workers, told, frame, leases, enabled, pull, tickets, post, outbox, refused,
            noted, reports, bare, boot, tkNow, tkErrs>>
devVars == <<family, challenge, docs, users, w, last, asked, devFaults>>
camVars == <<camPart, device, cursor, poll, ingested, failed, backlog, begun, on, reader, burst,
             camNow, camErrs>>
relayVars == <<cameras, loop, wire, answers, last_ok, up, ice, relayNow, relayed, relayErrs>>
catVars == <<served, made, slot, refr, reg, catNow, catErrs>>
vecVars == <<vecPart, rows, crops, owners, calls, pruner, zone, query, found, pair, vecErrs>>
plugVars == <<guests, unread, loaded, failures, disabled, runs, returned, stored, notices,
              started, plugBoot, plugErrs>>
wchVars == <<watchPart, emitting, events, mailer, mails, drive, mdstat, since, checked, alarms,
            lostAlert, address, caps, other, probes, overlapped, job, permits, kept, locked,
            shown, leaked, wNow, wErrs>>

\* A part that is not under way has no state.
NotRun == 0
SrchOff == facts = NotRun /\ plan = NotRun /\ fetched = NotRun /\ began = NotRun /\ answer = NotRun
EmbOff == queue = NotRun /\ asks = NotRun /\ got = NotRun /\ offers = NotRun /\ work = NotRun
AnprOff == tracks = NotRun /\ next_uid = NotRun /\ batches = NotRun /\ dbErrors = NotRun /\
          jobs = NotRun /\ entries = NotRun /\ unrecorded = NotRun /\ class = NotRun /\
          watch = NotRun /\ passes = NotRun /\ gate = NotRun /\ openings = NotRun /\ relay = NotRun /\
          latched = NotRun /\ opened = NotRun
MovOff == mnow = NotRun /\ seen = NotRun /\ likeness = NotRun /\ crossed = NotRun /\
          candidates = NotRun /\ alerts = NotRun /\ judged = NotRun /\ mread = NotRun /\
          ran = NotRun /\ sweepErrors = NotRun
TkOff == tkPart = NotRun /\ workers = NotRun /\ told = NotRun /\ frame = NotRun /\ leases = NotRun /\
          enabled = NotRun /\ pull = NotRun /\ tickets = NotRun /\ post = NotRun /\ outbox = NotRun /\
          refused = NotRun /\ noted = NotRun /\ reports = NotRun /\ bare = NotRun /\ boot = NotRun /\
          tkNow = NotRun /\ tkErrs = NotRun
DevOff == family = NotRun /\ challenge = NotRun /\ docs = NotRun /\ users = NotRun /\ w = NotRun /\
          last = NotRun /\ asked = NotRun /\ devFaults = NotRun
CamOff == camPart = NotRun /\ device = NotRun /\ cursor = NotRun /\ poll = NotRun /\
          ingested = NotRun /\ failed = NotRun /\ backlog = NotRun /\ begun = NotRun /\ on = NotRun /\
          reader = NotRun /\ burst = NotRun /\ camNow = NotRun /\ camErrs = NotRun
RelayOff == cameras = NotRun /\ loop = NotRun /\ wire = NotRun /\ answers = NotRun /\ last_ok = NotRun /\
          up = NotRun /\ ice = NotRun /\ relayNow = NotRun /\ relayed = NotRun /\ relayErrs = NotRun
CatOff == served = NotRun /\ made = NotRun /\ slot = NotRun /\ refr = NotRun /\ reg = NotRun /\
          catNow = NotRun /\ catErrs = NotRun
VecOff == vecPart = NotRun /\ rows = NotRun /\ crops = NotRun /\ owners = NotRun /\ calls = NotRun /\
          pruner = NotRun /\ zone = NotRun /\ query = NotRun /\ found = NotRun /\ pair = NotRun /\
          vecErrs = NotRun
PlugOff == guests = NotRun /\ unread = NotRun /\ loaded = NotRun /\ failures = NotRun /\
          disabled = NotRun /\ runs = NotRun /\ returned = NotRun /\ stored = NotRun /\
          notices = NotRun /\ started = NotRun /\ plugBoot = NotRun /\ plugErrs = NotRun
WchOff == watchPart = NotRun /\ emitting = NotRun /\ events = NotRun /\ mailer = NotRun /\
          mails = NotRun /\ drive = NotRun /\ mdstat = NotRun /\ since = NotRun /\
          checked = NotRun /\ alarms = NotRun /\ lostAlert = NotRun /\ address = NotRun /\
          caps = NotRun /\ other = NotRun /\ probes = NotRun /\ overlapped = NotRun /\
          job = NotRun /\ permits = NotRun /\ kept = NotRun /\ locked = NotRun /\
          shown = NotRun /\ leaked = NotRun /\ wNow = NotRun /\ wErrs = NotRun

AppsInit ==
    \/ /\ part = "search" /\ Srch!SrchInit
       /\ EmbOff /\ AnprOff /\ MovOff /\ TkOff /\ DevOff /\ CamOff /\ RelayOff /\ CatOff /\ VecOff /\ PlugOff /\ WchOff
    \/ /\ part = "queue" /\ Srch!EmbInit
       /\ SrchOff /\ AnprOff /\ MovOff /\ TkOff /\ DevOff /\ CamOff /\ RelayOff /\ CatOff /\ VecOff /\ PlugOff /\ WchOff
    \/ /\ \/ part = "plates" /\ Anpr!AnprInit(Anpr!Classes, 1, 2)
          \/ part = "reuse" /\ Anpr!AnprInit({"stranger"}, 1, 0)
          \/ part = "gate" /\ Anpr!AnprInit({"vehicle"}, 0, 3)
       /\ SrchOff /\ EmbOff /\ MovOff /\ TkOff /\ DevOff /\ CamOff /\ RelayOff /\ CatOff /\ VecOff /\ PlugOff /\ WchOff
    \/ /\ part = "movement" /\ Mov!MovInit
       /\ SrchOff /\ EmbOff /\ AnprOff /\ TkOff /\ DevOff /\ CamOff /\ RelayOff /\ CatOff /\ VecOff /\ PlugOff /\ WchOff
    \/ /\ part = "tickets" /\ Tick!TkInit
       /\ SrchOff /\ EmbOff /\ AnprOff /\ MovOff /\ DevOff /\ CamOff /\ RelayOff /\ CatOff /\ VecOff /\ PlugOff /\ WchOff
    \/ /\ part = "config" /\ Hik!DevInit
       /\ SrchOff /\ EmbOff /\ AnprOff /\ MovOff /\ TkOff /\ CamOff /\ RelayOff /\ CatOff /\ VecOff /\ PlugOff /\ WchOff
    \/ /\ part = "camera" /\ Hik!CamInit
       /\ SrchOff /\ EmbOff /\ AnprOff /\ MovOff /\ TkOff /\ DevOff /\ RelayOff /\ CatOff /\ VecOff /\ PlugOff /\ WchOff
    \/ /\ part = "relay" /\ Rel!RInit
       /\ SrchOff /\ EmbOff /\ AnprOff /\ MovOff /\ TkOff /\ DevOff /\ CamOff /\ CatOff /\ VecOff /\ PlugOff /\ WchOff
    \/ /\ part = "catalogue" /\ Cat!CatInit
       /\ SrchOff /\ EmbOff /\ AnprOff /\ MovOff /\ TkOff /\ DevOff /\ CamOff /\ RelayOff /\ VecOff /\ PlugOff /\ WchOff
    \/ /\ part = "vectors" /\ Vec!VecInit
       /\ SrchOff /\ EmbOff /\ AnprOff /\ MovOff /\ TkOff /\ DevOff /\ CamOff /\ RelayOff /\ CatOff /\ PlugOff /\ WchOff
    \/ /\ part = "plugins" /\ Plug!PlugInit
       /\ SrchOff /\ EmbOff /\ AnprOff /\ MovOff /\ TkOff /\ DevOff /\ CamOff /\ RelayOff /\ CatOff /\ VecOff /\ WchOff
    \/ /\ part = "watch" /\ Wch!WatchInit
       /\ SrchOff /\ EmbOff /\ AnprOff /\ MovOff /\ TkOff /\ DevOff /\ CamOff /\ RelayOff /\ CatOff /\ VecOff /\ PlugOff

\* The other parts stay as they are.
Others ==
    /\ IF part \in {"search"} THEN TRUE ELSE UNCHANGED srchVars
    /\ IF part \in {"queue"} THEN TRUE ELSE UNCHANGED embVars
    /\ IF part \in {"plates", "reuse", "gate"} THEN TRUE ELSE UNCHANGED anprVars
    /\ IF part \in {"movement"} THEN TRUE ELSE UNCHANGED movVars
    /\ IF part \in {"tickets"} THEN TRUE ELSE UNCHANGED tkVars
    /\ IF part \in {"config"} THEN TRUE ELSE UNCHANGED devVars
    /\ IF part \in {"camera"} THEN TRUE ELSE UNCHANGED camVars
    /\ IF part \in {"relay"} THEN TRUE ELSE UNCHANGED relayVars
    /\ IF part \in {"catalogue"} THEN TRUE ELSE UNCHANGED catVars
    /\ IF part \in {"vectors"} THEN TRUE ELSE UNCHANGED vecVars
    /\ IF part \in {"plugins"} THEN TRUE ELSE UNCHANGED plugVars
    /\ IF part \in {"watch"} THEN TRUE ELSE UNCHANGED wchVars

AppsNext ==
    /\ \/ part = "search" /\ (Srch!RecordFact \/ Srch!SearchStep)
       \/ part = "queue" /\ Srch!EmbNext
       \/ part \in {"plates", "reuse", "gate"} /\ Anpr!PlateStep
       \/ part = "gate" /\ Anpr!GuardStep
       \/ part = "movement" /\ Mov!MovNext
       \/ part = "tickets" /\ Tick!TkNext
       \/ part = "config" /\ Hik!DevNext
       \/ part = "camera" /\ Hik!CamNext
       \/ part = "relay" /\ Rel!RNext
       \/ part = "catalogue" /\ Cat!CatNext
       \/ part = "vectors" /\ Vec!VecNext
       \/ part = "plugins" /\ Plug!PlugNext
       \/ part = "watch" /\ Wch!WatchNext
    /\ Others /\ UNCHANGED part

appsVars == <<part, srchVars, embVars, anprVars, movVars, tkVars, devVars, camVars, relayVars, catVars,
             vecVars, plugVars, wchVars>>

AppsSpec == AppsInit /\ [][AppsNext]_appsVars
-----------------------------------------------------------------------------
(* Properties.                                                             *)

MCKeyOf == [k \in 1..3 |-> IF k = 2 THEN "kb" ELSE "ka"]
MCSees == [k \in {"ka", "kb"} |-> IF k = "ka" THEN {1, 2} ELSE {2}]
MCCamOf == [t \in {1, 2} |-> IF t = 1 THEN "c1" ELSE "c2"]
MCLines == {[head |-> "md0", marks |-> {{"0"}}], [head |-> "md1", marks |-> {{"0"}}],
            [head |-> "", marks |-> {{"U"}, {"2", "/"}}], [head |-> "", marks |-> {{"U", "_"}, {"2", "/"}}],
            [head |-> "", marks |-> {{"x", "_"}}]}
MCMdstat == UNION {[1..n -> MCLines] : n \in 0..3}
MCPaths == {<<"api", "cameras">>, <<"api", "%2e%2e", "metrics">>, <<"api", "cameras", "%2e%2e", "relay">>,
            <<"api", "..", "media">>}
MCUrls == <<"s1", "s2">>

\* A structured search answers with all that was asked for and nothing else, and calls itself cut
\* short for its own cameras' sake only; what a semantic search goes on with was computed by the
\* worker its row was last given to, and no row outlives its search; its ranking has the best of what
\* fits, crops are shown for their own camera only, and no likeness rests on one crop (query.rs,
\* semantic.rs, embeddings.rs).
AnswersTrue ==
    /\ part = "search" => Srch!AnswersAll /\ Srch!OwnCapOnly
    /\ part = "queue" => Srch!AnswerIsClaimants /\ Srch!RowsWanted
    /\ part = "vectors" => Vec!BestRanked /\ Vec!CropsScoped /\ Vec!NotOneCrop

\* What the cameras saw is on record once: a track has at most one entry event and, unless its insert
\* failed, does not go without; a plate read or a burst of alerts of the device becomes one event; an
\* entry into a red zone gets its alert and its subject, and what an operator decided about a pair
\* stays decided (anpr.rs, native_anpr.rs, camera_events.rs, breach.rs, reid.rs).
SightingsTrue ==
    /\ part \in {"plates", "reuse", "gate"} => Anpr!OneEventPerTrack /\ Anpr!ReadsRecorded
    /\ part = "camera" => Hik!ReadOnce /\ Hik!BurstOnce
    /\ part = "movement" => Mov!ReviewFinal /\ Mov!BreachNamed

\* The barrier opens by itself only for a matched plate with the votes that was not blocked, no
\* opening passes the kill switch, and the output does not stay high (gate.rs, anpr.rs).
GateSafe ==
    part \in {"plates", "reuse", "gate"} => Anpr!OpeningEarned /\ Anpr!KillHalts /\ Anpr!RelayReleased

\* Every enabled task is somebody's once the workers have polled, a batch with a ticket is about the
\* camera, task, credential and bytes the ticket was made out for, no credential goes on without
\* tickets unreported, and the readiness report lists whoever enforcing would refuse (worker_shard.rs,
\* frame_ticket.rs, routes/ai.rs, routes/system.rs).
FramesAccounted ==
    part = "tickets" => Tick!ShardCovers /\ Tick!TicketBound /\ Tick!UnleasedReported /\ Tick!ReadinessHonest

\* Whatever the other side answers or fails to: a device reads back as it was told to be, and success
\* means all of it was taken; the relay asks the local API for what a remote user may and comes back
\* by itself; the catalogue shows what a trusted key has signed; a plugin that keeps failing is disabled
\* and told of once, and only the emits of calls that returned are logged; a notice is mailed once, a
\* failing drive shown as long as it fails, a camera's map is of the device it names, and no media job
\* keeps a permit or a lock (hikvision.rs, webrtc_rendezvous.rs, registry.rs, heldar-wasm lib.rs,
\* email.rs, health.rs, camera_control.rs, media_jobs.rs).
OutsideTrue ==
    /\ part = "config" => Hik!ReadBack /\ Hik!OkMeansAll
    /\ part = "relay" => Rel!OnSurface /\ Rel!SelfHeals /\ Rel!NoBridgeOff
    /\ part = "catalogue" => Cat!ShownAsSigned /\ Cat!RegisteredShown
    /\ part = "watch" => /\ Wch!MailedOnce /\ Wch!MailOwed /\ Wch!DrivesTold /\ Wch!ArraysExact
                         /\ Wch!ProbeFresh /\ Wch!PermitsExact /\ Wch!ReadInPlace
    /\ part = "plugins" => Plug!LoadedOnce /\ Plug!TrippedOnce /\ Plug!EmitsOfReturned

\* What a step may not do: an engine change the status of an alert, a claim take a row from a worker
\* whose lease stands, a write to the device touch what it does not name, a failing refresh empty the
\* catalogue (breach.rs, embeddings.rs, hikvision.rs, registry.rs).
OthersRespected ==
    [][/\ part = "movement" => Mov!EngineKeepsStatus
       /\ part = "queue" => Srch!ClaimsRespected
       /\ part = "config" => Hik!OthersKept
       /\ part = "catalogue" => Cat!LastGoodKept]_appsVars

\* A batch is refused as a duplicate only if its frame has been ingested (perception_ingest.rs 66:
\* "True when the batch's (camera_id, frame_id) was already ingested (no-op redelivery)").
DuplicateIsRedelivery == part = "tickets" => Tick!DuplicateIsRedelivery
=============================================================================
