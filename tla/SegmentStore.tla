----------------------------- MODULE SegmentStore -----------------------------
(***************************************************************************)
(* The life of one camera's recorded footage: the files the recorder       *)
(* writes, the rows of `segments` the indexer adds for them, the retention *)
(* sweeper and the orphan reclaimer that remove both, the evidence holds   *)
(* and the reference-counted read-locks that must stop them, the clip      *)
(* exports and playback sessions that take those read-locks, the deletion  *)
(* of the camera, and a restart of the process.                            *)
(*                                                                         *)
(* Every await of the code is a point where another task may run, so each  *)
(* handler is split into one action per database statement or file-system  *)
(* call.  A row id is <<path, gen>>: the indexer gives a file it finds     *)
(* without a row a fresh uuid, which is the next generation of its path.   *)
(***************************************************************************)
EXTENDS Integers, FiniteSets

CONSTANTS Path,      \* the segment files this camera may write
          Clip,      \* clip export requests
          Session,   \* playback sessions
          MaxGen,    \* bound: how often one file may be indexed
          Faults     \* the environment events of this instance

FaultKinds ==
  { "restart",       \* the process dies and starts again
    "long_outage",   \* ... and may stay down for longer than ORPHAN_MIN_AGE
    "lock_write",    \* the UPDATE that takes a read-lock fails (only logged)
    "unlock_write",  \* the UPDATE that releases one fails (only logged)
    "cancel",        \* the client disconnects and the handler is dropped
    "double_close",  \* DELETE of a session overlaps another close of it
    "rmdir",         \* removing a session directory fails
    "reindex",       \* the indexer inserts a row while its file awaits unlink
    "hold_race",     \* evidence is held while its camera is being deleted
    "count_error" }  \* the evidence COUNT of delete_camera fails (read as 0)

Job == Clip \cup Session
Id  == Path \X Nat

ASSUME StoreAssumption ==
  /\ MaxGen \in Nat
  /\ IsFiniteSet(Job)
  /\ Clip \cap Session = {}
  /\ Faults \subseteq FaultKinds

VARIABLES
  file,      \* file[p]: the segment file on disk
  row,       \* row[p]: the row of `segments` whose path is p
  probed,    \* the file the indexer has probed and is about to INSERT
  sweeper,   \* the retention task: prune loop, orphan walk, pending unlink
  job,       \* job[j]: a clip export or a playback session, and its segments
  closer,    \* closer[a][s]: the two tasks that close a playback session
  camera     \* the camera's row and the progress of delete_camera

vars == <<file, row, probed, sweeper, job, closer, camera>>

Closer == {"route", "ttl_sweep"}

(* The steps of delete_camera; the row exists in all but the last two. *)
CameraState  == {"present", "hold_checked", "recorder_stopped", "row_deleted", "purged"}
CameraExists == camera \in {"present", "hold_checked", "recorder_stopped"}

(* "old": untouched for ORPHAN_MIN_AGE (one hour). *)
FileState == {"unborn", "open", "closed", "old", "gone"}
OnDisk(p) == file[p] \in {"open", "closed", "old"}
Row       == [gen : Nat, live : BOOLEAN, locked : Nat, evidence : BOOLEAN]
ClipPc    == {"idle", "selected", "locked", "rows_ok", "reading", "dropped", "leaked", "done"}
SessionPc == {"idle", "selected", "locked", "live", "released", "leaked", "done"}
SweeperPc == {"idle", "pruning", "unlink", "orphans", "orphan_unlink"}

TypeOK ==
  /\ file \in [Path -> FileState]
  /\ row \in [Path -> Row]
  /\ probed \subseteq Path
  /\ sweeper \in [pc : SweeperPc, batch : SUBSET Id, known : SUBSET Path,
                  target : SUBSET Path]
  /\ job \in [Job -> [pc : ClipPc \cup SessionPc, segs : SUBSET Id]]
  /\ closer \in [Closer -> [Session -> {"idle", "read", "released"}]]
  /\ camera \in CameraState

IdOf(p)  == <<p, row[p].gen>>
LiveId   == {IdOf(p) : p \in {q \in Path : row[q].live}}
(* `WHERE locked = 0 AND evidence_locked = 0`, the guard of every prune. *)
Deletable(p) == row[p].live /\ row[p].locked = 0 /\ ~row[p].evidence
Held(p)      == row[p].live /\ row[p].evidence

SweeperIdle == [pc |-> "idle", batch |-> {}, known |-> {}, target |-> {}]

Init ==
  /\ file = [p \in Path |-> "unborn"]
  /\ row = [p \in Path |-> [gen |-> 0, live |-> FALSE, locked |-> 0, evidence |-> FALSE]]
  /\ probed = {}
  /\ sweeper = SweeperIdle
  /\ job = [j \in Job |-> [pc |-> "idle", segs |-> {}]]
  /\ closer = [a \in Closer |-> [s \in Session |-> "idle"]]
  /\ camera = "present"

-----------------------------------------------------------------------------
(* The recorder's segmenter: a new file closes the one before it. *)
RecordOpen(p) ==
  /\ file[p] = "unborn"
  /\ camera \in {"present", "hold_checked"}
  /\ file' = [q \in Path |-> IF q = p THEN "open"
                             ELSE IF file[q] = "open" THEN "closed" ELSE file[q]]
  /\ UNCHANGED <<row, probed, sweeper, job, closer, camera>>

(* The stream drops or the recorder stops: the last file gets no successor
   and is closed by having been quiet for a segment and a grace period. *)
RecordStop(p) ==
  /\ file[p] = "open"
  /\ file' = [file EXCEPT ![p] = "closed"]
  /\ UNCHANGED <<row, probed, sweeper, job, closer, camera>>

(* An hour passes.  The scan runs every few seconds, so a file only gets
   this old without ever having had a row while the process is down. *)
Age(p) ==
  /\ file[p] = "closed"
  /\ row[p].gen > 0
  /\ file' = [file EXCEPT ![p] = "old"]
  /\ UNCHANGED <<row, probed, sweeper, job, closer, camera>>

-----------------------------------------------------------------------------
(* index_camera_dir, first half: a closed file without a row is probed. *)
IndexProbe(p) ==
  /\ probed = {}
  /\ CameraExists
  /\ file[p] \in {"closed", "old"}
  /\ ~row[p].live
  /\ row[p].gen < MaxGen
  /\ probed' = {p}
  /\ UNCHANGED <<file, row, sweeper, job, closer, camera>>

InsertRow(p) ==
  row' = [row EXCEPT ![p] = [gen |-> @.gen + 1, live |-> TRUE,
                             locked |-> 0, evidence |-> FALSE]]

(* ... and second half: the INSERT, which the foreign key refuses once the
   camera is gone (the whole scan of the directory then fails). *)
IndexInsert(p) ==
  /\ p \in probed
  /\ "reindex" \in Faults \/ p \notin sweeper.target
  /\ IF CameraExists THEN InsertRow(p) ELSE UNCHANGED row
  /\ probed' = {}
  /\ UNCHANGED <<file, sweeper, job, closer, camera>>

-----------------------------------------------------------------------------
(* sweep: one of the prune tiers (age, camera quota, global cap, disk-free
   floor) selects deletable rows; which ones is left open. *)
SweepSelect(S) ==
  /\ sweeper.pc = "idle"
  /\ S # {}
  /\ \A id \in S : \E p \in Path : id = IdOf(p) /\ Deletable(p)
  /\ sweeper' = [sweeper EXCEPT !.pc = "pruning", !.batch = S]
  /\ UNCHANGED <<file, row, probed, job, closer, camera>>

(* DELETE ... WHERE id = ? AND locked = 0 AND evidence_locked = 0. *)
DeleteUnlocked(id) ==
  LET p == id[1] IN
  IF id = IdOf(p) /\ Deletable(p)
  THEN /\ row' = [row EXCEPT ![p].live = FALSE]
       /\ sweeper' = [sweeper EXCEPT !.pc = "unlink", !.batch = @ \ {id}, !.target = {p}]
  ELSE /\ sweeper' = [sweeper EXCEPT !.batch = @ \ {id}]
       /\ UNCHANGED row

SweepDelete(id) ==
  /\ sweeper.pc = "pruning"
  /\ id \in sweeper.batch
  /\ DeleteUnlocked(id)
  /\ UNCHANGED <<file, probed, job, closer, camera>>

(* unlink_segment; a failed unlink is logged and leaves an orphan. *)
Unlink(from, to) ==
  /\ sweeper.pc = from
  /\ \/ file' = [p \in Path |-> IF p \in sweeper.target THEN "gone" ELSE file[p]]
     \/ UNCHANGED file
  /\ sweeper' = [sweeper EXCEPT !.pc = to, !.target = {}]
  /\ UNCHANGED <<row, probed, job, closer, camera>>

SweepUnlink == Unlink("unlink", "pruning")

(* The batch is done, the budget is met or a query failed. *)
SweepEnd ==
  /\ sweeper.pc \in {"pruning", "orphans"}
  /\ sweeper' = SweeperIdle
  /\ UNCHANGED <<file, row, probed, job, closer, camera>>

(* reclaim_orphans: snapshot the known paths, walk the directory, re-check
   each old file that is not among them, unlink it. *)
OrphanScan ==
  /\ sweeper.pc = "idle"
  /\ CameraExists
  /\ sweeper' = [sweeper EXCEPT !.pc = "orphans", !.known = {p \in Path : row[p].live}]
  /\ UNCHANGED <<file, row, probed, job, closer, camera>>

(* Mutant: no minimum age. *)
OrphanCheck_NoAge(p) ==
  /\ sweeper.pc = "orphans"
  /\ OnDisk(p)
  /\ p \notin sweeper.known
  /\ ~row[p].live
  /\ sweeper' = [sweeper EXCEPT !.pc = "orphan_unlink", !.target = {p}]
  /\ UNCHANGED <<file, row, probed, job, closer, camera>>

OrphanCheck(p) ==
  /\ sweeper.pc = "orphans"
  /\ file[p] = "old"
  /\ p \notin sweeper.known
  /\ ~row[p].live
  /\ sweeper' = [sweeper EXCEPT !.pc = "orphan_unlink", !.target = {p}]
  /\ UNCHANGED <<file, row, probed, job, closer, camera>>

OrphanUnlink == Unlink("orphan_unlink", "orphans")

-----------------------------------------------------------------------------
(* lock_evidence and unlock_evidence: one UPDATE by row id. *)
EvidenceLock(p) ==
  /\ row[p].live
  /\ "hold_race" \in Faults \/ camera = "present"
  /\ row' = [row EXCEPT ![p].evidence = TRUE]
  /\ UNCHANGED <<file, probed, sweeper, job, closer, camera>>

EvidenceUnlock(p) ==
  /\ Held(p)
  /\ row' = [row EXCEPT ![p].evidence = FALSE]
  /\ UNCHANGED <<file, probed, sweeper, job, closer, camera>>

-----------------------------------------------------------------------------
(* set_segments_locked: one UPDATE over the ids that still have a row. *)
Dec(n) == IF n > 0 THEN n - 1 ELSE 0
LockRows(S)   == row' = [p \in Path |-> IF row[p].live /\ IdOf(p) \in S
                                        THEN [row[p] EXCEPT !.locked = @ + 1] ELSE row[p]]
(* Mutant: a flag instead of a count. *)
UnlockRows_Flag(S) == row' = [p \in Path |-> IF row[p].live /\ IdOf(p) \in S
                                             THEN [row[p] EXCEPT !.locked = 0] ELSE row[p]]
UnlockRows(S) == row' = [p \in Path |-> IF row[p].live /\ IdOf(p) \in S
                                        THEN [row[p] EXCEPT !.locked = Dec(@)] ELSE row[p]]

Goto(j, pc) == job' = [job EXCEPT ![j].pc = pc]

(* Both exporters start with the same query for the overlapping segments. *)
JobSelect(j, S) ==
  /\ job[j].pc = "idle"
  /\ S # {} /\ S \subseteq LiveId
  /\ CameraExists
  /\ job' = [job EXCEPT ![j] = [pc |-> "selected", segs |-> S]]
  /\ UNCHANGED <<file, row, probed, sweeper, closer, camera>>

(* ... and then take the read-lock, which may fail without the job failing. *)
JobLock(j) ==
  /\ job[j].pc = "selected"
  /\ \/ LockRows(job[j].segs)
     \/ "lock_write" \in Faults /\ UNCHANGED row
  /\ Goto(j, "locked")
  /\ UNCHANGED <<file, probed, sweeper, closer, camera>>

(* The request is dropped while it awaits the UPDATE: the statement has run
   but there is no guard, or no sidecar, that would ever undo it. *)
JobLockCancelled(j) ==
  /\ "cancel" \in Faults
  /\ job[j].pc = "selected"
  /\ LockRows(job[j].segs)
  /\ Goto(j, "leaked")
  /\ UNCHANGED <<file, probed, sweeper, closer, camera>>

(* Mutant of ClipCheckRows: no re-check after the lock. *)
ClipCheckRows_Skip(c) ==
  /\ job[c].pc = "locked"
  /\ Goto(c, "rows_ok")
  /\ UNCHANGED <<file, row, probed, sweeper, closer, camera>>

(* ensure_still_present: first every row, by one COUNT, then every file. *)
ClipCheckRows(c) ==
  /\ job[c].pc = "locked"
  /\ Goto(c, IF job[c].segs \subseteq LiveId THEN "rows_ok" ELSE "dropped")
  /\ UNCHANGED <<file, row, probed, sweeper, closer, camera>>

ClipCheckFiles(c) ==
  /\ job[c].pc = "rows_ok"
  /\ Goto(c, IF \A id \in job[c].segs : OnDisk(id[1])
             THEN "reading" ELSE "dropped")
  /\ UNCHANGED <<file, row, probed, sweeper, closer, camera>>

(* Done, failed, refused a media-job permit, timed out or cancelled: the
   guard is dropped, and its Drop spawns the release. *)
ClipDrop(c) ==
  /\ job[c].pc \in {"locked", "rows_ok", "reading"}
  /\ Goto(c, "dropped")
  /\ UNCHANGED <<file, row, probed, sweeper, closer, camera>>

Release(j) ==
  \/ UnlockRows(job[j].segs) /\ Goto(j, "done")
  \/ "unlock_write" \in Faults /\ Goto(j, "leaked") /\ UNCHANGED row

(* Mutant: the guard's Drop releases nothing. *)
ClipRelease_Nothing(c) ==
  /\ job[c].pc = "dropped"
  /\ Goto(c, "done")
  /\ UNCHANGED <<file, row, probed, sweeper, closer, camera>>

ClipRelease(c) ==
  /\ job[c].pc = "dropped"
  /\ Release(c)
  /\ UNCHANGED <<file, probed, sweeper, closer, camera>>

-----------------------------------------------------------------------------
(* create_session, after the lock: permit, HLS build and sidecar succeed ... *)
SessionReady(s) ==
  /\ job[s].pc = "locked"
  /\ Goto(s, "live")
  /\ UNCHANGED <<file, row, probed, sweeper, closer, camera>>

(* ... or one of them fails, which releases the locks and removes the dir. *)
SessionFail(s) ==
  /\ job[s].pc = "locked"
  /\ Release(s)
  /\ UNCHANGED <<file, probed, sweeper, closer, camera>>

(* The request is dropped before the sidecar is written: no one can tell
   which segments the directory holds. *)
SessionCancelled(s) ==
  /\ "cancel" \in Faults
  /\ job[s].pc = "locked"
  /\ Goto(s, "leaked")
  /\ UNCHANGED <<file, row, probed, sweeper, closer, camera>>

(* delete_session and the TTL sweep close a session in the same three
   steps: read the sidecar, release what it lists, remove the directory. *)
DirExists(s) == job[s].pc \in {"live", "released"}

CloseRead(a, s) ==
  /\ DirExists(s)
  /\ closer[a][s] = "idle"
  /\ "double_close" \in Faults \/ \A b \in Closer : closer[b][s] = "idle"
  /\ closer' = [closer EXCEPT ![a][s] = "read"]
  /\ UNCHANGED <<file, row, probed, sweeper, job, camera>>

CloseRelease(a, s) ==
  /\ closer[a][s] = "read"
  /\ \/ /\ UnlockRows(job[s].segs)
        /\ Goto(s, IF job[s].pc = "live" THEN "released" ELSE job[s].pc)
     \/ "unlock_write" \in Faults /\ UNCHANGED <<row, job>>
  /\ closer' = [closer EXCEPT ![a][s] = "released"]
  /\ UNCHANGED <<file, probed, sweeper, camera>>

(* A session whose release failed keeps its counts: it is leaked. *)
CloseRemove(a, s) ==
  /\ closer[a][s] = "released"
  /\ \/ Goto(s, IF job[s].pc \in {"live", "leaked"} THEN "leaked" ELSE "done")
     \/ "rmdir" \in Faults /\ UNCHANGED job
  /\ closer' = [closer EXCEPT ![a][s] = "idle"]
  /\ UNCHANGED <<file, row, probed, sweeper, camera>>

-----------------------------------------------------------------------------
(* Mutant of CameraCheckHolds: the holds are not counted. *)
CameraCheckHolds_Skip ==
  /\ camera = "present"
  /\ camera' = "hold_checked"
  /\ UNCHANGED <<file, row, probed, sweeper, job, closer>>

(* delete_camera: count the evidence holds, stop the recorder, delete the
   camera's row (its segments cascade), remove its directory. *)
CameraCheckHolds ==
  /\ camera = "present"
  /\ "count_error" \in Faults \/ \A p \in Path : ~Held(p)
  /\ camera' = "hold_checked"
  /\ UNCHANGED <<file, row, probed, sweeper, job, closer>>

CameraStopRecorder ==
  /\ camera = "hold_checked"
  /\ camera' = "recorder_stopped"
  /\ file' = [p \in Path |-> IF file[p] = "open" THEN "closed" ELSE file[p]]
  /\ UNCHANGED <<row, probed, sweeper, job, closer>>

CameraDeleteRow ==
  /\ camera = "recorder_stopped"
  /\ camera' = "row_deleted"
  /\ row' = [p \in Path |-> [row[p] EXCEPT !.live = FALSE]]
  /\ UNCHANGED <<file, probed, sweeper, job, closer>>

CameraPurge ==
  /\ camera = "row_deleted"
  /\ camera' = "purged"
  /\ file' = [p \in Path |-> IF file[p] = "unborn" THEN "unborn" ELSE "gone"]
  /\ UNCHANGED <<row, probed, sweeper, job, closer>>

-----------------------------------------------------------------------------
(* Mutant of Restart: the read-locks survive it. *)
Restart_KeepLocks ==
  /\ "restart" \in Faults
  /\ file' = [p \in Path |-> IF file[p] = "open" THEN "closed" ELSE file[p]]
  /\ probed' = {}
  /\ sweeper' = SweeperIdle
  /\ job' = [j \in Job |-> IF job[j].pc \in {"idle", "live", "released"}
                           THEN job[j] ELSE [job[j] EXCEPT !.pc = "done"]]
  /\ closer' = [a \in Closer |-> [s \in Session |-> "idle"]]
  /\ camera' = "present"
  /\ UNCHANGED row

(* The process dies and starts again: every task is gone, every read-lock
   is cleared, the session directories are still there. *)
Restart ==
  /\ "restart" \in Faults
  /\ \/ file' = [p \in Path |-> IF file[p] = "open" THEN "closed" ELSE file[p]]
     \/ /\ "long_outage" \in Faults
        /\ file' = [p \in Path |-> IF file[p] \in {"open", "closed"} THEN "old" ELSE file[p]]
  /\ row' = [p \in Path |-> [row[p] EXCEPT !.locked = 0]]
  /\ probed' = {}
  /\ sweeper' = SweeperIdle
  /\ job' = [j \in Job |-> IF job[j].pc \in {"idle", "live", "released"}
                           THEN job[j] ELSE [job[j] EXCEPT !.pc = "done"]]
  /\ closer' = [a \in Closer |-> [s \in Session |-> "idle"]]
  /\ camera' = CASE camera \in {"hold_checked", "recorder_stopped"} -> "present"
                 [] camera = "row_deleted" -> "purged"
                 [] OTHER -> camera

Files    == \E p \in Path : RecordOpen(p) \/ RecordStop(p) \/ Age(p)
Indexer  == \E p \in Path : IndexProbe(p) \/ IndexInsert(p)
Sweeper  == \/ \E S \in SUBSET LiveId : SweepSelect(S)
            \/ \E id \in sweeper.batch : SweepDelete(id)
            \/ SweepUnlink \/ SweepEnd \/ OrphanScan \/ OrphanUnlink
            \/ \E p \in Path : OrphanCheck(p)
Holds    == \E p \in Path : EvidenceLock(p) \/ EvidenceUnlock(p)
ClipStep(c) == \/ ClipCheckRows(c) \/ ClipCheckFiles(c)
               \/ ClipDrop(c) \/ ClipRelease(c)
SessionStep(s) == SessionReady(s) \/ SessionFail(s) \/ SessionCancelled(s)
CloseStep(a, s) == CloseRead(a, s) \/ CloseRelease(a, s) \/ CloseRemove(a, s)
Jobs     == \/ \E j \in Job : \/ \E S \in SUBSET LiveId : JobSelect(j, S)
                              \/ JobLock(j) \/ JobLockCancelled(j)
            \/ \E c \in Clip : ClipStep(c)
            \/ \E s \in Session : SessionStep(s)
            \/ \E a \in Closer, s \in Session : CloseStep(a, s)
DeleteCamera == CameraCheckHolds \/ CameraStopRecorder \/ CameraDeleteRow \/ CameraPurge

Next == Files \/ Indexer \/ Sweeper \/ Holds \/ Jobs \/ DeleteCamera \/ Restart

Spec == Init /\ [][Next]_vars

-----------------------------------------------------------------------------
(* The jobs whose `locked + 1` on a segment has not been undone. *)
HoldingPc(j) == IF j \in Clip THEN {"locked", "rows_ok", "reading", "dropped", "leaked"}
                              ELSE {"locked", "live", "leaked"}
HoldsLock(j) == job[j].pc \in HoldingPc(j)
Holders(id)  == {j \in Job : HoldsLock(j) /\ id \in job[j].segs}

(* A row's reference count never exceeds the jobs that still own a share of
   it, whatever fails and whenever the process restarts: once every export
   and session is over, nothing of the read-lock protocol keeps a segment
   from being pruned (repo.rs set_segments_locked, db.rs
   clear_segment_read_locks). *)
PinsHaveHolders ==
  \A p \in Path : row[p].live => row[p].locked <= Cardinality(Holders(IdOf(p)))

(* With no failed write, no overlapping close and no session left over from
   before a restart, the count is exact: no holder loses its share to
   another one's release (repo.rs set_segments_locked). *)
PinsExact ==
  \A p \in Path : row[p].live => row[p].locked = Cardinality(Holders(IdOf(p)))

(* While ffmpeg reads for a clip export, every row it selected and every
   file behind it is still there, unless the camera itself was deleted
   (clip.rs export_clip and ensure_still_present against retention.rs). *)
ExportPinned ==
  CameraExists =>
    \A c \in Clip : job[c].pc = "reading" =>
      \A id \in job[c].segs : id \in LiveId /\ OnDisk(id[1])

(* No step of any task takes away the row or the file of footage under an
   evidence hold; a hold only ends by being released (retention.rs,
   routes/incidents.rs, routes/cameras.rs delete_camera). *)
HoldDurable ==
  [][\A p \in Path : Held(p) =>
        /\ row'[p].live /\ row'[p].gen = row[p].gen
        /\ OnDisk(p) => OnDisk(p)']_vars

(* Footage no scan has reached yet is not mistaken for an orphan: a closed
   file that never had a row stays until its camera is deleted (retention.rs
   reclaim_orphans and its ORPHAN_MIN_AGE). *)
UnindexedFootageKept ==
  [][\A p \in Path : row[p].gen = 0 /\ OnDisk(p) => OnDisk(p)' \/ camera' = "purged"]_vars

(* The tasks that hold read-locks keep running: a clip is bounded by its
   ffmpeg timeout, a session build by its own, a finished session by the TTL
   sweep, and the spawned release runs. *)
Fairness ==
  /\ \A j \in Job : WF_vars(JobLock(j))
  /\ \A c \in Clip : WF_vars(ClipDrop(c)) /\ WF_vars(ClipRelease(c))
  /\ \A s \in Session :
       /\ WF_vars(SessionReady(s) \/ SessionFail(s))
       /\ WF_vars(CloseStep("route", s) /\ closer["route"][s] # "idle")
       /\ WF_vars(CloseStep("ttl_sweep", s))

FairSpec == Spec /\ Fairness

Pinned(p) == row[p].live /\ row[p].locked > 0

(* Every read-lock is eventually given back, also across restarts, so an
   export or a session never makes footage un-prunable for good (repo.rs
   SegReadLock, playback_session.rs sweep). *)
PinsLifted == \A p \in Path : Pinned(p) ~> ~Pinned(p)
=============================================================================
