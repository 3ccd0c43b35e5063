--------------------------- MODULE MCFootage --------------------------------
(* What records, keeps, shows and gives away the footage, one part at a    *)
(* time: the parts meet in SegmentStore and Recorder, not here.  Evidence  *)
(* and BackupJobs have two parts each.                                     *)
EXTENDS Integers, FiniteSets, TLC

CONSTANTS TlEnd, MinGap, threshold, anr_max_attempts, anr_max_gap, MaxProbeErrors, Posts,
          CHECK_INTERVAL, GRACE, Healthy, BackoffMax, SpawnRetry, MaxEvTime, MaxEvErrs, MirEditor,
          MaxMirEdits, MaxMirErrors, Cams, Wanted, ai_budget, SamEditor, MaxSamEdits, MaxSamErrors,
          Viewer, Hls, TokenLife, StaleAge, LiveEnd, MaxLiveErrors, Watcher, Editor, MaxEdits,
          MaxReads, Cam, MaxSeg, max_bytes, Disk, floor, BATCH, MaxStirs, Row, QueryPages, TTL,
          PRUNE_BATCH, VACUUM_PAGES, max_db, MaxDet, MaxUpNow, MaxUpErrors, Asker, Horizon,
          GAP_TOLERANCE, evidence_max, evidence_dir_max, MaxIndexErrors, Job, max_concurrent_jobs,
          RECHECK, FileTime, archive_dir_max, MaxNow, MaxDbFailures, Proc, Overlap, LfSegment,
          MaxLfErrs, Key, NoKey, MaxSecErrors

\* Durations and counts are numbers, and the starts of the process are numbered from 1; a viewer's
\* request, a change of a camera or a mirror, the periodic reconcile, the boot and the shutdown are
\* different actors; having no key is not a key.  A key's file is told apart from who wrote it, jobs
\* and cameras are finitely many, and there is a permit.
ASSUME FootageAssumption ==
    /\ Posts \subseteq Nat
    /\ {CHECK_INTERVAL, GRACE, BackoffMax, SpawnRetry, StaleAge, RECHECK, FileTime} \subseteq Nat
    /\ Cams \in Nat /\ Proc \subseteq Nat \ {0}
    /\ Watcher \cap Editor = {} /\ {"loop", "shutdown", "none"} \cap (Watcher \cup Editor) = {}
    /\ {"boot", "quit"} \cap MirEditor = {} /\ {"boot", "shutdown", "none"} \cap SamEditor = {}
    /\ NoKey \notin Key
    /\ {Horizon, GAP_TOLERANCE, archive_dir_max} \subseteq Nat /\ Horizon >= 4
    /\ max_concurrent_jobs \in Nat \ {0} /\ IsFiniteSet(Job) /\ IsFiniteSet(Cam)
    /\ {"none", "empty"} \cap Asker = {} /\ "a1" \in Asker

VARIABLES clock, disk, segs, gaps, listing, queue, filling, status, alarmed, lost, order, tlErrs,
          post, open, window, changed, sup, owed, closed, evNow, evErrs, mirRow, mirReq, entry,
          mirrors, nextGen, mirErrs, mirCut, want, edited, editor, guard, tasks, sups, settled, hung,
          samErrs, stands, session, row, token, reaper, prompt, noted, now, liveErrors, cam, lock,
          act, pub, viewers, path, down, edits, fails, owner, stored, held, reading, quota, other,
          sw, wrong, stirs, upNow, emb, thumbs, queries, dets, free, incremental, snaps, pics,
          outbox, claims, camera_shot, claimed, sweeper, slips, arrives, upErrs, recorded, exports,
          dir, stages, attributed, indexed, keyFile, indexErrors, jobStatus, task, footage,
          withdrawn, policy, zips, shipped, bkNow, dbFailures, features, looked, proc, users, locks,
          jobs, ffmpegs, late, loop, churn, cut, port, lfErrs, seals, inforce, server, patch, rekey,
          overlap, secErrs

VARIABLE part       \* the part under way

Line == INSTANCE Timeline WITH End <- TlEnd
Evr == INSTANCE EventRecorder
Mir == INSTANCE Mirror
Sam == INSTANCE Sampler
Liv == INSTANCE Live
Ret == INSTANCE Retention
Evi == INSTANCE Evidence
Bk == INSTANCE BackupJobs
Srv == INSTANCE Server

tlVars == <<clock, disk, segs, gaps, listing, queue, filling, status, alarmed, lost, order, tlErrs>>
recVars == <<post, open, window, changed, sup, owed, closed, evNow, evErrs>>
mirVars == <<mirRow, mirReq, entry, mirrors, nextGen, mirErrs, mirCut>>
samVars == <<want, edited, editor, guard, tasks, sups, settled, hung, samErrs>>
liveVars == <<stands, session, row, token, reaper, prompt, noted, now, liveErrors>>
pubVars == <<cam, lock, act, pub, viewers, path, down, edits, fails>>
tierVars == <<owner, stored, held, reading, quota, other, sw, wrong, stirs>>
upVars == <<upNow, emb, thumbs, queries, dets, free, incremental, snaps, pics, outbox, claims,
            camera_shot, claimed, sweeper, slips, arrives, upErrs>>
evVars == <<recorded, exports, dir, stages, attributed, indexed, keyFile, indexErrors>>
bkVars == <<jobStatus, task, footage, withdrawn, policy, zips, shipped, bkNow, dbFailures>>
lfVars == <<features, looked, proc, users, locks, jobs, ffmpegs, late, loop, churn, cut, port,
            lfErrs>>
secVars == <<seals, inforce, server, patch, rekey, overlap, secErrs>>

\* A part that is not under way has no state.
NotRun == 0
TlOff == clock = NotRun /\ disk = NotRun /\ segs = NotRun /\ gaps = NotRun /\ listing = NotRun /\
          queue = NotRun /\ filling = NotRun /\ status = NotRun /\ alarmed = NotRun /\ lost = NotRun /\
          order = NotRun /\ tlErrs = NotRun
RecOff == post = NotRun /\ open = NotRun /\ window = NotRun /\ changed = NotRun /\ sup = NotRun /\
          owed = NotRun /\ closed = NotRun /\ evNow = NotRun /\ evErrs = NotRun
MirOff == mirRow = NotRun /\ mirReq = NotRun /\ entry = NotRun /\ mirrors = NotRun /\
          nextGen = NotRun /\ mirErrs = NotRun /\ mirCut = NotRun
SamOff == want = NotRun /\ edited = NotRun /\ editor = NotRun /\ guard = NotRun /\ tasks = NotRun /\
          sups = NotRun /\ settled = NotRun /\ hung = NotRun /\ samErrs = NotRun
LiveOff == stands = NotRun /\ session = NotRun /\ row = NotRun /\ token = NotRun /\ reaper = NotRun /\
          prompt = NotRun /\ noted = NotRun /\ now = NotRun /\ liveErrors = NotRun
PubOff == cam = NotRun /\ lock = NotRun /\ act = NotRun /\ pub = NotRun /\ viewers = NotRun /\
          path = NotRun /\ down = NotRun /\ edits = NotRun /\ fails = NotRun
TierOff == owner = NotRun /\ stored = NotRun /\ held = NotRun /\ reading = NotRun /\ quota = NotRun /\
          other = NotRun /\ sw = NotRun /\ wrong = NotRun /\ stirs = NotRun
UpOff == upNow = NotRun /\ emb = NotRun /\ thumbs = NotRun /\ queries = NotRun /\ dets = NotRun /\
          free = NotRun /\ incremental = NotRun /\ snaps = NotRun /\ pics = NotRun /\
          outbox = NotRun /\ claims = NotRun /\ camera_shot = NotRun /\ claimed = NotRun /\
          sweeper = NotRun /\ slips = NotRun /\ arrives = NotRun /\ upErrs = NotRun
EvOff == recorded = NotRun /\ exports = NotRun /\ dir = NotRun /\ stages = NotRun /\
          attributed = NotRun /\ indexed = NotRun /\ keyFile = NotRun /\ indexErrors = NotRun
BkOff == jobStatus = NotRun /\ task = NotRun /\ footage = NotRun /\ withdrawn = NotRun /\
          policy = NotRun /\ zips = NotRun /\ shipped = NotRun /\ bkNow = NotRun /\
          dbFailures = NotRun
LfOff == features = NotRun /\ looked = NotRun /\ proc = NotRun /\ users = NotRun /\ locks = NotRun /\
          jobs = NotRun /\ ffmpegs = NotRun /\ late = NotRun /\ loop = NotRun /\ churn = NotRun /\
          cut = NotRun /\ port = NotRun /\ lfErrs = NotRun
SecOff == seals = NotRun /\ inforce = NotRun /\ server = NotRun /\ patch = NotRun /\ rekey = NotRun /\
          overlap = NotRun /\ secErrs = NotRun

MCWanted == {<<144, 8>>, <<288, 16>>}

\* One to three segments, of which no two begin together.
Footage ==
    {S \in SUBSET Evi!Intervals : Cardinality(S) \in 1..3 /\ \A s, t \in S : s # t => s[1] # t[1]}

FootageInit ==
    \/ /\ part = "timeline" /\ Line!TlInit
       /\ RecOff /\ MirOff /\ SamOff /\ LiveOff /\ PubOff /\ TierOff /\ UpOff /\ EvOff /\ BkOff /\
          LfOff /\ SecOff
    \/ /\ part = "events" /\ Evr!EvInit
       /\ TlOff /\ MirOff /\ SamOff /\ LiveOff /\ PubOff /\ TierOff /\ UpOff /\ EvOff /\ BkOff /\
          LfOff /\ SecOff
    \/ /\ part = "mirror" /\ Mir!MirInit
       /\ TlOff /\ RecOff /\ SamOff /\ LiveOff /\ PubOff /\ TierOff /\ UpOff /\ EvOff /\ BkOff /\
          LfOff /\ SecOff
    \/ /\ part = "sampler" /\ Sam!SamInit
       /\ TlOff /\ RecOff /\ MirOff /\ LiveOff /\ PubOff /\ TierOff /\ UpOff /\ EvOff /\ BkOff /\
          LfOff /\ SecOff
    \/ /\ part = "live" /\ Liv!LiveInit
       /\ TlOff /\ RecOff /\ MirOff /\ SamOff /\ PubOff /\ TierOff /\ UpOff /\ EvOff /\ BkOff /\
          LfOff /\ SecOff
    \/ /\ part = "publisher" /\ Liv!PubInit
       /\ TlOff /\ RecOff /\ MirOff /\ SamOff /\ LiveOff /\ TierOff /\ UpOff /\ EvOff /\ BkOff /\
          LfOff /\ SecOff
    \/ /\ part = "tiers" /\ Ret!TierInit
       /\ TlOff /\ RecOff /\ MirOff /\ SamOff /\ LiveOff /\ PubOff /\ UpOff /\ EvOff /\ BkOff /\
          LfOff /\ SecOff
    \/ /\ part = "upkeep" /\ Ret!UpInit
       /\ TlOff /\ RecOff /\ MirOff /\ SamOff /\ LiveOff /\ PubOff /\ TierOff /\ EvOff /\ BkOff /\
          LfOff /\ SecOff
    \/ /\ Evi!EvInit
       /\ \/ part = "bundle" /\ recorded \in Footage
          \/ part = "key" /\ recorded = {<<0, 2>>, <<2, 4>>}
       /\ TlOff /\ RecOff /\ MirOff /\ SamOff /\ LiveOff /\ PubOff /\ TierOff /\ UpOff /\ BkOff /\
          LfOff /\ SecOff
    \/ /\ \/ part = "backup" /\ Bk!BkInit({"j1"})
          \/ part = "archive" /\ Bk!BkInit(Job) /\ policy = [cams |-> {}, due |-> FALSE] /\ Bk!Held = Cam
       /\ TlOff /\ RecOff /\ MirOff /\ SamOff /\ LiveOff /\ PubOff /\ TierOff /\ UpOff /\ EvOff /\
          LfOff /\ SecOff
    \/ /\ part = "process" /\ Srv!LfInit
       /\ TlOff /\ RecOff /\ MirOff /\ SamOff /\ LiveOff /\ PubOff /\ TierOff /\ UpOff /\ EvOff /\
          BkOff /\ SecOff
    \/ /\ part = "secrets" /\ Srv!SecInit
       /\ TlOff /\ RecOff /\ MirOff /\ SamOff /\ LiveOff /\ PubOff /\ TierOff /\ UpOff /\ EvOff /\
          BkOff /\ LfOff

\* The other parts stay as they are.
Others ==
    /\ IF part \in {"timeline"} THEN TRUE ELSE UNCHANGED tlVars
    /\ IF part \in {"events"} THEN TRUE ELSE UNCHANGED recVars
    /\ IF part \in {"mirror"} THEN TRUE ELSE UNCHANGED mirVars
    /\ IF part \in {"sampler"} THEN TRUE ELSE UNCHANGED samVars
    /\ IF part \in {"live"} THEN TRUE ELSE UNCHANGED liveVars
    /\ IF part \in {"publisher"} THEN TRUE ELSE UNCHANGED pubVars
    /\ IF part \in {"tiers"} THEN TRUE ELSE UNCHANGED tierVars
    /\ IF part \in {"upkeep"} THEN TRUE ELSE UNCHANGED upVars
    /\ IF part \in {"bundle", "key"} THEN TRUE ELSE UNCHANGED evVars
    /\ IF part \in {"backup", "archive"} THEN TRUE ELSE UNCHANGED bkVars
    /\ IF part \in {"process"} THEN TRUE ELSE UNCHANGED lfVars
    /\ IF part \in {"secrets"} THEN TRUE ELSE UNCHANGED secVars

FootageNext ==
    /\ \/ part = "timeline" /\ Line!TlNext
       \/ part = "events" /\ Evr!EvNext
       \/ part = "mirror" /\ Mir!MirNext
       \/ part = "sampler" /\ Sam!SamNext
       \/ part = "live" /\ Liv!LiveNext
       \/ part = "publisher" /\ Liv!PubNext
       \/ part = "tiers" /\ Ret!TierNext
       \/ part = "upkeep" /\ Ret!UpNext
       \/ part = "bundle" /\ (Evi!Prune \/ Evi!Exporting("a1") \/ \E s \in Evi!Intervals : Evi!gather("a1", s))
       \/ part = "key" /\ \E a \in Asker : Evi!gather(a, <<1, 4>>) \/ Evi!Exporting(a)
       \/ part = "backup" /\ Bk!PolicyStep
       \/ part = "archive" /\ Bk!ArchiveStep
       \/ part = "process" /\ Srv!LfNext
       \/ part = "secrets" /\ Srv!SecNext
    /\ Others /\ UNCHANGED part

footageVars == <<part, tlVars, recVars, mirVars, samVars, liveVars, pubVars, tierVars, upVars, evVars,
               bkVars, lfVars, secVars>>

FootageSpec == FootageInit /\ [][FootageNext]_footageVars
-----------------------------------------------------------------------------
(* Properties.                                                             *)

\* The footage that is missing is known: a hole is a gap or an alarm, a gap that is filled has its
\* footage, the camera is not called silent while its newest file is indexed in order, and the holes
\* an operator is told of are the bare stretches (indexer.rs, anr.rs, health.rs, routes/recordings.rs).
FootageKnown == part = "timeline" => Line!HolesKnown /\ Line!FilledHasFootage /\ Line!AlarmTrue /\ Line!HolesTold

\* What is limited stays within its limit, at no one else's cost: a sweep gives up what its limits
\* need and no more, from those over their share, rows and the files they own go together, the size
\* cap stops when it no longer helps, and the samplers cost no more than the frame budget
\* (retention.rs, db_maintenance.rs, snapshot_scheduler.rs, sampler.rs).
StoreBounded ==
    /\ part = "tiers" => Ret!NoOverPrune /\ Ret!WithinShareKept
    /\ part = "upkeep" => Ret!ThumbsAccounted /\ Ret!PicsAccounted /\ Ret!NoRunaway /\ Ret!ClaimOutlives
    /\ part = "sampler" => Sam!WithinBudget

\* A bundle says what it holds: its gaps and coverage are the footage's, the clip is all of it, and
\* bundles on the disk are signed by one key and listed; archives stay within their directory's cap
\* (evidence.rs, evidence_key.rs, backup.rs).
ExportsTrue ==
    /\ part \in {"bundle", "key"} => Evi!CoverageTrue /\ Evi!ClipComplete /\ Evi!BundleAccounted /\ Evi!OneKey
    /\ part \in {"backup", "archive"} => Bk!ArchiveBounded

\* A credential that is withdrawn loses its streams and its transfers within the time the code gives
\* itself, the database permitting (live_reaper.rs, media_auth.rs, backup.rs).
WithdrawalEnds ==
    /\ part = "live" => Liv!WithdrawnEnds
    /\ part \in {"backup", "archive"} => Bk!WithdrawalStops

\* What runs is what is meant to run, and once: a mirror, sampler or publisher that is alive is the
\* table's and, when the requests have settled, the row's; a start finds no lock of a dead process,
\* cuts no recording and keeps its loops; what is served is sealed, under the key in force
\* (mirror.rs, sampler.rs, live_publisher.rs, lib.rs, admin.rs).
ProcessesExact ==
    /\ part = "mirror" => Mir!MirrorTracked /\ Mir!MirrorSettled
    /\ part = "sampler" => Sam!OneDecoder /\ Sam!Settled
    /\ part = "publisher" => Liv!NoResurrection
    /\ part = "process" => Srv!LocksLive /\ Srv!NoChurn /\ Srv!NothingCut
    /\ part = "secrets" => Srv!OneKeyOpens /\ Srv!SealedWhenServing

\* No step ends too early or too late: an event recording lasts until the last second a trigger was
\* promised and not past it, and a publisher somebody asked for goes on (recorder.rs,
\* live_publisher.rs).
RunsAsOwed ==
    [][/\ part = "events" => Evr!PostRollKept /\ Evr!StopsOnTime
       /\ part = "publisher" => Liv!NotCut]_footageVars
=============================================================================
