----------------------------- MODULE BackupJobs -----------------------------
(***************************************************************************)
(* Backup jobs and on-demand archives (services/backup.rs).  A policy's    *)
(* job is a row and a detached task: the task waits for a permit, selects  *)
(* the segments, asks whether the credential that ordered the job still    *)
(* may, and copies file by file to the destination, asking again now and   *)
(* then.  An archive is built inside its request, under the same permits.  *)
(* Crashes and dropped requests leave rows that nothing resumes.           *)
(***************************************************************************)
EXTENDS Integers, FiniteSets, FiniteSetsExt

CONSTANTS Job,             \* rows of backup_jobs, of policy jobs and of archives (bound)
          Cam,             \* cameras, with one segment each, which has the camera's name
          max_concurrent_jobs,
          RECHECK,         \* CREATOR_RECHECK_INTERVAL
          FileTime,        \* how long one file may take (bound)
          archive_dir_max, \* in units of one segment
          MaxNow, MaxDbFailures

VARIABLES jobStatus,   \* Job -> of its row; "none" when there is none yet
          task,     \* Job -> its task or request, which keeps the row it read
          footage,  \* segments that exist
          withdrawn,     \* Cam -> since when the ordering key does not hold it, or Holds
          policy,   \* [cams, due]: the stored selection ({} is the fleet) and whether it is due
          zips,     \* Job -> segments in its archive
          shipped,  \* <<job, camera>>: files that went to a destination and should not have
          bkNow, dbFailures

bkVars == <<jobStatus, task, footage, withdrawn, policy, zips, shipped, bkNow, dbFailures>>

Holds == -1
Never == -9        \* long before the start

Off == [pc |-> "off", cams |-> {}, by |-> "scheduler", segs |-> {}, todo |-> {}, checked |-> 0, since |-> 0]

\* The jobs in use; the others were deleted before.
BkInit(used) ==
    /\ jobStatus = [j \in Job |-> IF j \in used THEN "none" ELSE "deleted"] /\ task = [j \in Job |-> Off]
    /\ footage = Cam
    /\ withdrawn \in [Cam -> {Holds, Never}] /\ \E c \in Cam : withdrawn[c] = Holds
    /\ policy \in [cams : {{}} \cup {{c} : c \in Cam}, due : BOOLEAN]
    /\ zips = [j \in Job |-> {}] /\ shipped = {} /\ bkNow = 0 /\ dbFailures = 0

Held == {c \in Cam : withdrawn[c] = Holds}
Free(j) == jobStatus[j] = "none" /\ task[j] = Off /\ zips[j] = {}
DbFails == dbFailures < MaxDbFailures /\ dbFailures' = dbFailures + 1

\* A statement on a row that was deleted changes nothing.
Report(j, s) == jobStatus' = [jobStatus EXCEPT ![j] = IF @ = "deleted" THEN @ ELSE s]
End(j) == task' = [task EXCEPT ![j] = Off]

Working == {j \in Job : task[j].pc \notin {"off", "queued", "asked"}}
TakePermit(j, pc) == Cardinality(Working) < max_concurrent_jobs /\ task' = [task EXCEPT ![j].pc = pc]

resolve_segments(cams) == {c \in footage : cams = {} \/ c \in cams}

-----------------------------------------------------------------------------
(* Policy jobs.                                                            *)

\* The insert, then the claim of the policy: when the claim fails the job is not spawned and the
\* policy stays due.
create_policy_job(j, cams, by) ==
    /\ Free(j)
    /\ jobStatus' = [jobStatus EXCEPT ![j] = "pending"]
    /\ \/ /\ policy' = [policy EXCEPT !.due = FALSE]
          /\ task' = [task EXCEPT ![j] = [Off EXCEPT !.pc = "queued", !.cams = cams, !.by = by]]
          /\ UNCHANGED dbFailures
       \/ DbFails /\ UNCHANGED <<policy, task>>
    /\ UNCHANGED <<footage, withdrawn, zips, shipped, bkNow>>

\* The scheduler takes the stored selection, in which empty is the fleet.
sweep(j) == policy.due /\ create_policy_job(j, policy.cams, "scheduler")

\* A key's request is confined to what it holds: a fleet-wide policy to its own cameras, and one that
\* names another is refused.
trigger_policy(j) ==
    /\ Held # {} /\ policy.cams \subseteq Held
    /\ create_policy_job(j, IF policy.cams = {} /\ Held # Cam THEN Held ELSE policy.cams, "key")

\* spawn_job: the detached task waits for a permit.
spawn_job(j) ==
    /\ task[j].pc = "queued" /\ TakePermit(j, "started")
    /\ UNCHANGED <<jobStatus, footage, withdrawn, policy, zips, shipped, bkNow, dbFailures>>

\* The key must hold every camera of the job, and the whole fleet for a job that names none; a job
\* without a creator may always.
Stands(j) ==
    task[j].by = "key" => IF task[j].cams = {} THEN Held = Cam ELSE task[j].cams \subseteq Held

\* creator_standing: the answers it can give; a read that fails is a yes.
creator_standing(j, yes) ==
    \/ yes = Stands(j) /\ UNCHANGED dbFailures
    \/ yes /\ task[j].by = "key" /\ DbFails

\* The first statements of a job end it when its row, its destination or its footage is gone.
execute_job(j) ==
    /\ task[j].pc = "started"
    /\ LET segs == resolve_segments(task[j].cams) IN
       \/ jobStatus[j] = "deleted" /\ End(j) /\ UNCHANGED jobStatus
       \/ jobStatus[j] # "deleted" /\ End(j) /\ Report(j, "error")
       \/ jobStatus[j] # "deleted" /\ segs = {} /\ End(j) /\ Report(j, "completed")
       \/ /\ jobStatus[j] # "deleted" /\ segs # {}
          /\ Report(j, "running")
          /\ task' = [task EXCEPT ![j] = [@ EXCEPT !.pc = "vet", !.segs = segs, !.todo = segs]]
    /\ UNCHANGED <<footage, withdrawn, policy, zips, shipped, bkNow, dbFailures>>

\* Before the first byte the creator is asked for, whatever the watch says.
Vet(j) ==
    /\ task[j].pc = "vet"
    /\ \E yes \in BOOLEAN :
          /\ creator_standing(j, yes)
          /\ IF yes THEN /\ task' = [task EXCEPT ![j] = [@ EXCEPT !.pc = "copy", !.checked = bkNow, !.since = bkNow]]
                         /\ UNCHANGED jobStatus
             ELSE End(j) /\ Report(j, "error")
    /\ UNCHANGED <<footage, withdrawn, policy, zips, shipped, bkNow>>

\* When the file left, the key had not held its camera for longer than a check and a file take, and
\* no read had failed.
Overdue(j, c) ==
    task[j].by = "key" /\ withdrawn[c] # Holds /\ dbFailures = 0 /\ bkNow - withdrawn[c] > RECHECK + FileTime

\* The next file goes out.  A source that has vanished is skipped (copy_local) or fails the job
\* (copy_rclone), as does any error of the destination.
CopyFile(j) ==
    /\ task[j].pc = "copy" /\ task[j].todo # {}
    /\ \/ \E c \in task[j].todo :
             /\ task' = [task EXCEPT ![j] = [@ EXCEPT !.pc = "check", !.todo = task[j].todo \ {c}, !.since = bkNow]]
             /\ shipped' = IF c \in footage /\ Overdue(j, c) THEN shipped \cup {<<j, c>>} ELSE shipped
             /\ UNCHANGED jobStatus
       \/ End(j) /\ Report(j, "error") /\ UNCHANGED shipped
    /\ UNCHANGED <<footage, withdrawn, policy, zips, bkNow, dbFailures>>

Due(j) == bkNow - task[j].checked >= RECHECK

\* CreatorWatch: after each file, when the interval is over, the creator is asked for again.
CheckCreator(j) ==
    /\ task[j].pc = "check"
    /\ IF ~ Due(j)
       THEN task' = [task EXCEPT ![j].pc = "copy"] /\ UNCHANGED <<jobStatus, dbFailures>>
       ELSE \E yes \in BOOLEAN :
              /\ creator_standing(j, yes)
              /\ IF yes THEN task' = [task EXCEPT ![j] = [@ EXCEPT !.pc = "copy", !.checked = bkNow]] /\ UNCHANGED jobStatus
                 ELSE End(j) /\ Report(j, "error")
    /\ UNCHANGED <<footage, withdrawn, policy, zips, shipped, bkNow>>

\* The whole job is under one timeout.
Finish(j) ==
    /\ \/ task[j].pc = "copy" /\ task[j].todo = {} /\ Report(j, "completed")
       \/ task[j].pc \in {"copy", "check"} /\ Report(j, "error")
    /\ End(j)
    /\ UNCHANGED <<footage, withdrawn, policy, zips, shipped, bkNow, dbFailures>>

-----------------------------------------------------------------------------
(* Archives.                                                               *)

ArchiveUsed == FoldSet(LAMBDA j, n : n + Cardinality(zips[j]), 0, Job)

\* create_archive selects the segments, and refuses an empty selection, before it waits for a permit.
create_archive(j, cams) ==
    /\ Free(j)
    /\ resolve_segments(cams) # {}
    /\ task' = [task EXCEPT ![j] = [Off EXCEPT !.pc = "asked", !.cams = cams, !.segs = resolve_segments(cams)]]
    /\ UNCHANGED <<jobStatus, footage, withdrawn, policy, zips, shipped, bkNow, dbFailures>>

ArchivePermit(j) ==
    /\ task[j].pc = "asked" /\ TakePermit(j, "measure")
    /\ UNCHANGED <<jobStatus, footage, withdrawn, policy, zips, shipped, bkNow, dbFailures>>

Fits(j) == ArchiveUsed + Cardinality(task[j].segs) <= archive_dir_max

\* Under the permit: the room in archive_dir, then the row.
MeasureArchive(j) ==
    /\ task[j].pc = "measure"
    /\ IF Fits(j) THEN /\ jobStatus' = [jobStatus EXCEPT ![j] = "running"]
                       /\ task' = [task EXCEPT ![j].pc = "zip"]
       ELSE End(j) /\ UNCHANGED jobStatus
    /\ UNCHANGED <<footage, withdrawn, policy, zips, shipped, bkNow, dbFailures>>

\* build_archive_zip: a segment that vanished is a dangling link, or its trim fails; the archive is
\* removed and the job in error, or it is attributed to the cameras in it and the job completed.
build_archive_zip(j) ==
    /\ task[j].pc = "zip"
    /\ \/ zips' = [zips EXCEPT ![j] = task[j].segs \cap footage] /\ Report(j, "completed")
       \/ Report(j, "error") /\ UNCHANGED zips
    /\ End(j)
    /\ UNCHANGED <<footage, withdrawn, policy, shipped, bkNow, dbFailures>>

\* The client hangs up: the future is dropped, and with it what would have cleaned up.
DropRequest(j) ==
    /\ task[j].pc \in {"asked", "measure", "zip"}
    /\ zips' = IF task[j].pc = "zip" THEN [zips EXCEPT ![j] = task[j].segs \cap footage] ELSE zips
    /\ End(j)
    /\ UNCHANGED <<jobStatus, footage, withdrawn, policy, shipped, bkNow, dbFailures>>

-----------------------------------------------------------------------------
(* What happens around them.                                               *)

\* The key is revoked, or its camera list narrowed.
Withdraw ==
    /\ \E cs \in SUBSET Held :
          cs # {} /\ withdrawn' = [c \in Cam |-> IF c \in cs THEN bkNow ELSE withdrawn[c]]
    /\ UNCHANGED <<jobStatus, task, footage, policy, zips, shipped, bkNow, dbFailures>>

\* delete_job: the archive, then the row.  A task that runs goes on.
delete_job(j) ==
    /\ jobStatus[j] \notin {"none", "deleted"}
    /\ zips' = [zips EXCEPT ![j] = IF jobStatus[j] = "completed" THEN {} ELSE @]
    /\ jobStatus' = [jobStatus EXCEPT ![j] = "deleted"]
    /\ UNCHANGED <<task, footage, withdrawn, policy, shipped, bkNow, dbFailures>>

\* A segment goes, by retention or with its camera; a running transfer holds a read lock on its own.
Vanish ==
    /\ \E c \in footage :
          /\ \A j \in Job : task[j].pc \in {"copy", "check", "zip"} => c \notin task[j].segs
          /\ footage' = footage \ {c}
    /\ UNCHANGED <<jobStatus, task, withdrawn, policy, zips, shipped, bkNow, dbFailures>>

PolicyDue ==
    /\ ~ policy.due /\ policy' = [policy EXCEPT !.due = TRUE]
    /\ UNCHANGED <<jobStatus, task, footage, withdrawn, zips, shipped, bkNow, dbFailures>>

\* No file takes longer than FileTime.
Tick ==
    /\ bkNow < MaxNow
    /\ \A j \in Job : task[j].pc = "copy" => bkNow < task[j].since + FileTime
    /\ \A j \in Job : task[j].pc # "check"
    /\ bkNow' = bkNow + 1
    /\ UNCHANGED <<jobStatus, task, footage, withdrawn, policy, zips, shipped, dbFailures>>

Crash ==
    /\ \E j \in Job : task[j] # Off
    /\ task' = [j \in Job |-> Off]
    /\ UNCHANGED <<jobStatus, footage, withdrawn, policy, zips, shipped, bkNow, dbFailures>>

PolicyStep ==
    \/ \E j \in Job : \/ sweep(j) \/ trigger_policy(j) \/ spawn_job(j) \/ execute_job(j) \/ Vet(j)
                      \/ CopyFile(j) \/ CheckCreator(j) \/ Finish(j) \/ delete_job(j)
    \/ Withdraw \/ Vanish \/ PolicyDue \/ Tick \/ Crash

ArchiveStep ==
    \/ \E j \in Job : \/ \E cams \in {{}} \cup {{c} : c \in Cam} : create_archive(j, cams)
                      \/ ArchivePermit(j) \/ MeasureArchive(j) \/ build_archive_zip(j)
                      \/ DropRequest(j) \/ delete_job(j)
    \/ Vanish

-----------------------------------------------------------------------------
(* Properties.                                                             *)

\* Once the ordering key is revoked or narrowed, its transfers stop moving the cameras it lost within
\* one re-check and one file, though the request was authorized long before, the job waited behind
\* others for its permit and the key it triggered a fleet-wide policy with never held them all
\* (creator_standing, trigger_policy).  A check that could not read is the exception.
WithdrawalStops == shipped = {}

\* However many exports wait for a permit, archive_dir exceeds its cap by what the other permits'
\* exports measured before it, and by no more (create_archive).
ArchiveBounded ==
    ArchiveUsed <= archive_dir_max + (max_concurrent_jobs - 1) * Cardinality(Cam)

=============================================================================
