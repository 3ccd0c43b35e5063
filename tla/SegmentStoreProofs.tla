------------------------- MODULE SegmentStoreProofs -------------------------
(* Machine-checked proofs about SegmentStore, for every set of files, clip
   exports and playback sessions. *)
EXTENDS SegmentStore, FiniteSetTheorems, TLAPS

(* What the two forms of set_segments_locked do to the rows. *)
LEMMA RowUpdates ==
  ASSUME TypeOK, NEW S
  PROVE  /\ LockRows(S) => row' \in [Path -> Row]
         /\ UnlockRows(S) => row' \in [Path -> Row]
<1>1. ASSUME NEW p \in Path
      PROVE  /\ [row[p] EXCEPT !.locked = @ + 1] \in Row
             /\ [row[p] EXCEPT !.locked = Dec(@)] \in Row
             /\ row[p] \in Row
  BY DEF TypeOK, Row, Dec
<1> QED BY <1>1 DEF LockRows, UnlockRows

(* What one UPDATE or DELETE by row id does to the rows. *)
LEMMA RowUpdate ==
  ASSUME TypeOK, NEW p \in Path
  PROVE  /\ InsertRow(p) => row' \in [Path -> Row]
         /\ row' = [row EXCEPT ![p].live = FALSE] => row' \in [Path -> Row]
         /\ \A e \in BOOLEAN : row' = [row EXCEPT ![p].evidence = e] => row' \in [Path -> Row]
<1> USE DEF TypeOK, Row
<1>1. InsertRow(p) => row' \in [Path -> Row]
  BY DEF InsertRow
<1>2. row' = [row EXCEPT ![p].live = FALSE] => row' \in [Path -> Row]
  OBVIOUS
<1>3. ASSUME NEW e \in BOOLEAN, row' = [row EXCEPT ![p].evidence = e]
      PROVE  row' \in [Path -> Row]
  BY <1>3
<1> QED BY <1>1, <1>2, <1>3

JobRecord == [pc : ClipPc \cup SessionPc, segs : SUBSET Id]

(* A job moves to another of its program points. *)
LEMMA GotoType ==
  ASSUME TypeOK, NEW j \in Job, NEW pc \in ClipPc \cup SessionPc, Goto(j, pc)
  PROVE  job' \in [Job -> JobRecord]
<1>1. job \in [Job -> JobRecord]
  BY DEF TypeOK, JobRecord
<1>2. [job[j] EXCEPT !.pc = pc] \in JobRecord
  BY <1>1 DEF JobRecord
<1> QED BY <1>1, <1>2 DEF Goto

(* Every action keeps the variables of the store in their types. *)
LEMMA TypeCorrectStep == TypeOK /\ [Next]_vars => TypeOK'
<1> SUFFICES ASSUME TypeOK, [Next]_vars PROVE TypeOK'
  OBVIOUS
<1> USE StoreAssumption DEF TypeOK
<1>1. CASE Files
  BY <1>1 DEF Files, RecordOpen, RecordStop, Age, FileState
<1>2. CASE Indexer
  <2>1. ASSUME NEW p \in Path, IndexProbe(p) PROVE TypeOK'
    BY <2>1 DEF IndexProbe
  <2>2. ASSUME NEW p \in Path, IndexInsert(p) PROVE TypeOK'
    <3>1. row' \in [Path -> Row]
      BY <2>2, RowUpdate DEF IndexInsert
    <3> QED BY <2>2, <3>1 DEF IndexInsert
  <2> QED BY <1>2, <2>1, <2>2 DEF Indexer
<1>3. CASE Sweeper
  <2> DEFINE SR == [pc : SweeperPc, batch : SUBSET Id, known : SUBSET Path,
                    target : SUBSET Path]
  <2>0. sweeper \in SR
    OBVIOUS
  <2>1. ASSUME NEW S \in SUBSET LiveId, SweepSelect(S) PROVE TypeOK'
    <3>1. S \subseteq Id
      BY DEF LiveId, IdOf, Id, Row
    <3>2. sweeper' \in SR
      BY ONLY <2>0, <2>1, <3>1 DEF SweepSelect, SweeperPc
    <3> QED BY <2>1, <3>2 DEF SweepSelect
  <2>2. ASSUME NEW id \in sweeper.batch, SweepDelete(id) PROVE TypeOK'
    <3>1. id[1] \in Path
      BY DEF Id
    <3>2. sweeper' \in SR
      <4>1. CASE id = IdOf(id[1]) /\ Deletable(id[1])
        <5>1. sweeper' = [sweeper EXCEPT !.pc = "unlink", !.batch = @ \ {id},
                                         !.target = {id[1]}]
          BY <2>2, <4>1 DEF SweepDelete, DeleteUnlocked
        <5> QED BY ONLY <5>1, <2>0, <3>1 DEF SweeperPc
      <4>2. CASE ~(id = IdOf(id[1]) /\ Deletable(id[1]))
        <5>1. sweeper' = [sweeper EXCEPT !.batch = @ \ {id}]
          BY <2>2, <4>2 DEF SweepDelete, DeleteUnlocked
        <5> QED BY ONLY <5>1, <2>0, <3>1
      <4> QED BY <4>1, <4>2
    <3>3. row' \in [Path -> Row]
      BY <2>2, <3>1, RowUpdate DEF SweepDelete, DeleteUnlocked
    <3> QED BY <2>2, <3>2, <3>3 DEF SweepDelete
  <2>3. ASSUME NEW from, NEW to \in SweeperPc, Unlink(from, to) PROVE TypeOK'
    <3>1. sweeper' \in SR
      BY ONLY <2>0, <2>3 DEF Unlink
    <3>2. file' \in [Path -> FileState]
      BY <2>3 DEF Unlink, FileState
    <3> QED BY <2>3, <3>1, <3>2 DEF Unlink
  <2>4. CASE SweepEnd
    BY <2>4 DEF SweepEnd, SweeperIdle, SweeperPc
  <2>5. CASE OrphanScan
    <3>1. sweeper' \in SR
      BY ONLY <2>0, <2>5 DEF OrphanScan, SweeperPc
    <3> QED BY <2>5, <3>1 DEF OrphanScan
  <2>6. ASSUME NEW p \in Path, OrphanCheck(p) PROVE TypeOK'
    <3>1. sweeper' \in SR
      BY ONLY <2>0, <2>6 DEF OrphanCheck, SweeperPc
    <3> QED BY <2>6, <3>1 DEF OrphanCheck
  <2>7. "pruning" \in SweeperPc /\ "orphans" \in SweeperPc
    BY DEF SweeperPc
  <2> QED BY <1>3, <2>1, <2>2, <2>3, <2>4, <2>5, <2>6, <2>7
          DEF Sweeper, SweepUnlink, OrphanUnlink
<1>4. CASE Holds
  <2>1. row' \in [Path -> Row]
    BY <1>4, RowUpdate DEF Holds, EvidenceLock, EvidenceUnlock
  <2> QED BY <1>4, <2>1 DEF Holds, EvidenceLock, EvidenceUnlock
<1>5. CASE Jobs
  <2> USE DEF JobRecord
  <2>0. Clip \subseteq Job /\ Session \subseteq Job
    BY DEF Job
  <2>1. ASSUME NEW j \in Job, NEW S \in SUBSET LiveId, JobSelect(j, S) PROVE TypeOK'
    <3>1. S \subseteq Id
      BY DEF LiveId, IdOf, Id, Row
    <3>2. job' \in [Job -> JobRecord]
      BY <2>1, <3>1 DEF JobSelect, ClipPc
    <3> QED BY <2>1, <3>2 DEF JobSelect
  <2>2. ASSUME NEW j \in Job, JobLock(j) \/ JobLockCancelled(j) PROVE TypeOK'
    <3>1. row' \in [Path -> Row]
      BY <2>2, RowUpdates DEF JobLock, JobLockCancelled
    <3>2. job' \in [Job -> JobRecord]
      BY <2>2, GotoType DEF JobLock, JobLockCancelled, ClipPc
    <3> QED BY <2>2, <3>1, <3>2 DEF JobLock, JobLockCancelled
  <2>3. ASSUME NEW c \in Clip, ClipStep(c) PROVE TypeOK'
    <3>1. row' \in [Path -> Row]
      BY <2>3, RowUpdates DEF ClipStep, ClipCheckRows, ClipCheckFiles, ClipDrop,
         ClipRelease, Release
    <3>2. job' \in [Job -> JobRecord]
      BY <2>3, <2>0, GotoType DEF ClipStep, ClipCheckRows, ClipCheckFiles, ClipDrop,
         ClipRelease, Release, ClipPc
    <3> QED BY <2>3, <3>1, <3>2 DEF ClipStep, ClipCheckRows, ClipCheckFiles, ClipDrop,
            ClipRelease
  <2>4. ASSUME NEW s \in Session, SessionStep(s) PROVE TypeOK'
    <3>1. row' \in [Path -> Row]
      BY <2>4, RowUpdates DEF SessionStep, SessionReady, SessionFail, SessionCancelled, Release
    <3>2. job' \in [Job -> JobRecord]
      BY <2>4, <2>0, GotoType DEF SessionStep, SessionReady, SessionFail, SessionCancelled,
         Release, SessionPc
    <3> QED BY <2>4, <3>1, <3>2 DEF SessionStep, SessionReady, SessionFail, SessionCancelled
  <2>5. ASSUME NEW a \in Closer, NEW s \in Session, CloseStep(a, s) PROVE TypeOK'
    <3>1. CASE CloseRead(a, s)
      BY <3>1 DEF CloseRead
    <3>2. CASE CloseRelease(a, s)
      <4>1. row' \in [Path -> Row]
        BY <3>2, RowUpdates DEF CloseRelease
      <4>2. job[s].pc \in ClipPc \cup SessionPc
        BY <2>0
      <4>3. job' \in [Job -> JobRecord]
        BY <3>2, <2>0, <4>2, GotoType DEF CloseRelease, SessionPc
      <4> QED BY <3>2, <4>1, <4>3 DEF CloseRelease
    <3>3. CASE CloseRemove(a, s)
      <4>1. job' \in [Job -> JobRecord]
        BY <3>3, <2>0, GotoType DEF CloseRemove, SessionPc
      <4> QED BY <3>3, <4>1 DEF CloseRemove
    <3> QED BY <2>5, <3>1, <3>2, <3>3 DEF CloseStep
  <2> QED BY <1>5, <2>1, <2>2, <2>3, <2>4, <2>5 DEF Jobs
<1>6. CASE DeleteCamera
  <2>1. CASE CameraCheckHolds \/ CameraStopRecorder
    BY <2>1 DEF CameraCheckHolds, CameraStopRecorder, CameraState, FileState
  <2>2. CASE CameraDeleteRow
    <3>1. row' \in [Path -> Row]
      BY <2>2, ZenonT(60) DEF CameraDeleteRow, Row
    <3> QED BY <2>2, <3>1 DEF CameraDeleteRow, CameraState
  <2>3. CASE CameraPurge
    BY <2>3 DEF CameraPurge, CameraState, FileState
  <2> QED BY <1>6, <2>1, <2>2, <2>3 DEF DeleteCamera
<1>7. CASE Restart
  <2>1. file' \in [Path -> FileState]
    BY <1>7 DEF Restart, FileState
  <2>2. row' \in [Path -> Row]
    BY <1>7, ZenonT(60) DEF Restart, Row
  <2>3. job' \in [Job -> [pc : ClipPc \cup SessionPc, segs : SUBSET Id]]
    BY <1>7, ZenonT(60) DEF Restart, ClipPc
  <2>4. camera' \in CameraState
    BY <1>7 DEF Restart, CameraState
  <2> QED BY <1>7, <2>1, <2>2, <2>3, <2>4 DEF Restart, SweeperIdle, SweeperPc
<1>8. CASE UNCHANGED vars
  BY <1>8 DEF vars
<1> QED BY <1>1, <1>2, <1>3, <1>4, <1>5, <1>6, <1>7, <1>8 DEF Next

(* The store's variables have their types in every reachable state, whatever
   fails. *)
THEOREM TypeCorrect == Spec => []TypeOK
<1>1. Init => TypeOK
  BY StoreAssumption DEF Init, TypeOK, FileState, Row, ClipPc, SweeperIdle, SweeperPc,
     CameraState, Closer
<1> QED BY <1>1, TypeCorrectStep, PTL DEF Spec

-----------------------------------------------------------------------------
(* A job only ever refers to rows that exist or have existed, and only a
   session whose sidecar was written is ever being closed. *)
SegsKnown   == \A j \in Job : \A id \in job[j].segs : id[2] <= row[id[1]].gen
CloserKnown == \A a \in Closer, s \in Session : closer[a][s] # "idle" =>
                 job[s].pc \in {"live", "released", "leaked", "done"}

(* Finitely many jobs own a share of a row. *)
LEMMA HoldersFinite ==
  ASSUME NEW id
  PROVE  IsFiniteSet(Holders(id)) /\ Cardinality(Holders(id)) \in Nat
<1>1. Holders(id) \in SUBSET Job
  BY DEF Holders
<1>2. IsFiniteSet(Job)
  BY StoreAssumption
<1>3. IsFiniteSet(Holders(id))
  BY <1>1, <1>2, FS_Subset
<1> QED BY <1>3, FS_CardinalityType

(* How one job's step changes who holds a segment. *)
LEMMA HoldersStep ==
  ASSUME TypeOK, NEW j \in Job, NEW pc, Goto(j, pc), NEW id
  PROVE  /\ (HoldsLock(j) <=> pc \in HoldingPc(j)) => Holders(id)' = Holders(id)
         /\ pc \in HoldingPc(j) /\ id \in job[j].segs => Holders(id)' = Holders(id) \cup {j}
         /\ id \notin job[j].segs => Holders(id)' = Holders(id)
         /\ pc \notin HoldingPc(j) => Holders(id)' = Holders(id) \ {j}
<1>1. /\ job'[j].pc = pc /\ job'[j].segs = job[j].segs
      /\ \A k \in Job \ {j} : job'[k] = job[k]
  BY DEF TypeOK, Goto
<1> QED BY <1>1 DEF Holders, HoldsLock, HoldingPc

(* The number of jobs that own a share of the row of p. *)
Shares(p) == Cardinality(Holders(IdOf(p)))

(* The number of owners is a number after a step as well. *)
LEMMA NatShares ==
  ASSUME NEW p
  PROVE  Shares(p)' \in Nat
<1>1. Holders(IdOf(p))' \in SUBSET Job
  BY DEF Holders
<1>2. IsFiniteSet(Holders(IdOf(p))')
  BY <1>1, StoreAssumption, FS_Subset
<1>3. Cardinality(Holders(IdOf(p))') \in Nat
  BY <1>2, FS_CardinalityType
<1> QED BY <1>3 DEF Shares

SameShares(p) == row'[p].locked = row[p].locked /\ Shares(p)' = Shares(p)

(* What a step can do to the count of a row and to the jobs that own it. *)
LockEffect(p) ==
  \/ row'[p].locked = 0 /\ Shares(p)' = 0
  \/ /\ row[p].live /\ row'[p].gen = row[p].gen
     /\ \/ SameShares(p)
        \/ row'[p].locked = row[p].locked + 1 /\ Shares(p)' = Shares(p) + 1
        \/ "lock_write" \in Faults /\ row'[p].locked = row[p].locked /\ Shares(p)' = Shares(p) + 1
        \/ row'[p].locked = Dec(row[p].locked) /\ Shares(p) > 0 /\ Shares(p)' = Shares(p) - 1
        \/ /\ row'[p].locked = Dec(row[p].locked) /\ Shares(p)' = Shares(p)
           /\ \E a \in Closer, s \in Session : CloseRelease(a, s) /\ job[s].pc # "live"
        \/ Restart /\ row'[p].locked = 0

(* A step that moves no job leaves the owners of a row alone. *)
LEMMA JobsUnchanged ==
  ASSUME UNCHANGED job, NEW p \in Path, row'[p].gen = row[p].gen
  PROVE  Shares(p)' = Shares(p)
<1>1. IdOf(p)' = IdOf(p)
  BY DEF IdOf
<1> QED BY <1>1 DEF Shares, Holders, HoldsLock

(* A job that moves between points that both hold or both do not hold the
   lock, or whose segments are others, changes no count. *)
LEMMA JobKeeps ==
  ASSUME TypeOK, NEW j \in Job, NEW pc, Goto(j, pc), NEW p \in Path,
         row'[p].gen = row[p].gen,
         (HoldsLock(j) <=> pc \in HoldingPc(j)) \/ IdOf(p) \notin job[j].segs
  PROVE  Shares(p)' = Shares(p)
<1>1. IdOf(p)' = IdOf(p)
  BY DEF IdOf
<1>2. Holders(IdOf(p))' = Holders(IdOf(p))
  BY <1>1, HoldersStep
<1> QED BY <1>1, <1>2 DEF Shares

(* Taking the read-lock adds one owner. *)
LEMMA JobGains ==
  ASSUME TypeOK, NEW j \in Job, NEW pc \in HoldingPc(j), Goto(j, pc), NEW p \in Path,
         row'[p].gen = row[p].gen, ~HoldsLock(j), IdOf(p) \in job[j].segs
  PROVE  Shares(p)' = Shares(p) + 1
<1>1. IdOf(p)' = IdOf(p)
  BY DEF IdOf
<1>2. Holders(IdOf(p))' = Holders(IdOf(p)) \cup {j}
  BY <1>1, HoldersStep
<1>3. j \notin Holders(IdOf(p))
  BY DEF Holders
<1> QED BY <1>2, <1>3, HoldersFinite, FS_AddElement DEF Shares

(* Giving it back takes one owner away. *)
LEMMA JobLoses ==
  ASSUME TypeOK, NEW j \in Job, NEW pc, pc \notin HoldingPc(j), Goto(j, pc), NEW p \in Path,
         row'[p].gen = row[p].gen, HoldsLock(j), IdOf(p) \in job[j].segs
  PROVE  Shares(p) > 0 /\ Shares(p)' = Shares(p) - 1
<1>1. IdOf(p)' = IdOf(p)
  BY DEF IdOf
<1>2. Holders(IdOf(p))' = Holders(IdOf(p)) \ {j}
  BY <1>1, HoldersStep
<1>3. j \in Holders(IdOf(p))
  BY DEF Holders
<1>4. Shares(p) # 0
  BY <1>3, HoldersFinite, FS_EmptySet DEF Shares
<1>5. Shares(p) \in Nat
  BY HoldersFinite DEF Shares
<1>6. Cardinality(Holders(IdOf(p)) \ {j}) = Shares(p) - 1
  BY <1>3, HoldersFinite, FS_RemoveElement DEF Shares
<1>7. Shares(p)' = Shares(p) - 1
  BY <1>2, <1>6 DEF Shares
<1> QED BY <1>4, <1>5, <1>7

(* The row of p under set_segments_locked. *)
LEMMA LockOne ==
  ASSUME TypeOK, NEW S, NEW p \in Path
  PROVE  /\ LockRows(S) =>
              /\ row'[p].gen = row[p].gen /\ row'[p].live = row[p].live
              /\ row'[p].locked = IF row[p].live /\ IdOf(p) \in S
                                  THEN row[p].locked + 1 ELSE row[p].locked
         /\ UnlockRows(S) =>
              /\ row'[p].gen = row[p].gen /\ row'[p].live = row[p].live
              /\ row'[p].locked = IF row[p].live /\ IdOf(p) \in S
                                  THEN Dec(row[p].locked) ELSE row[p].locked
<1>1. row[p] \in Row
  BY DEF TypeOK
<1> QED BY <1>1 DEF LockRows, UnlockRows, Row

(* A job that takes the read-lock, or is cancelled while it does. *)
LEMMA JobLockEffect ==
  ASSUME TypeOK, NEW j \in Job, NEW p \in Path, row'[p].live,
         JobLock(j) \/ JobLockCancelled(j)
  PROVE  LockEffect(p)
<1>1. ~HoldsLock(j)
  BY DEF JobLock, JobLockCancelled, HoldsLock, HoldingPc
<1>2. PICK pc \in {"locked", "leaked"} : Goto(j, pc)
  BY DEF JobLock, JobLockCancelled
<1>3. pc \in HoldingPc(j)
  BY <1>2 DEF HoldingPc
<1>4. row'[p].gen = row[p].gen /\ row[p].live
  BY LockOne DEF JobLock, JobLockCancelled
<1>5. CASE IdOf(p) \in job[j].segs
  <2>1. Shares(p)' = Shares(p) + 1
    BY <1>1, <1>2, <1>3, <1>4, <1>5, JobGains
  <2> QED BY <1>4, <1>5, <2>1, LockOne DEF LockEffect, JobLock, JobLockCancelled
<1>6. CASE IdOf(p) \notin job[j].segs
  <2>1. Shares(p)' = Shares(p)
    BY <1>2, <1>4, <1>6, JobKeeps
  <2>2. row'[p].locked = row[p].locked
    BY <1>6, LockOne DEF JobLock, JobLockCancelled
  <2> QED BY <1>4, <2>1, <2>2 DEF LockEffect, SameShares
<1> QED BY <1>5, <1>6

(* A job that gives the read-lock back. *)
LEMMA ReleaseEffect ==
  ASSUME TypeOK, NEW j \in Job, NEW p \in Path, row'[p].live, HoldsLock(j),
         NEW pc, pc \notin HoldingPc(j), Goto(j, pc), UnlockRows(job[j].segs)
  PROVE  LockEffect(p)
<1>1. row'[p].gen = row[p].gen /\ row[p].live
  BY LockOne
<1>2. CASE IdOf(p) \in job[j].segs
  <2>1. Shares(p) > 0 /\ Shares(p)' = Shares(p) - 1
    BY <1>1, <1>2, JobLoses
  <2>2. row'[p].locked = Dec(row[p].locked)
    BY <1>1, <1>2, LockOne
  <2> QED BY <1>1, <2>1, <2>2 DEF LockEffect
<1>3. CASE IdOf(p) \notin job[j].segs
  <2>1. SameShares(p)
    BY <1>1, <1>3, JobKeeps, LockOne DEF SameShares
  <2> QED BY <1>1, <2>1 DEF LockEffect
<1> QED BY <1>2, <1>3

(* A job that moves without touching the rows keeps its share. *)
LEMMA MoveEffect ==
  ASSUME TypeOK, NEW j \in Job, NEW p \in Path, row'[p].live, UNCHANGED row,
         NEW pc, Goto(j, pc), HoldsLock(j) <=> pc \in HoldingPc(j)
  PROVE  LockEffect(p)
<1>1. SameShares(p)
  BY JobKeeps DEF SameShares
<1> QED BY <1>1 DEF LockEffect

(* Steps that leave every job alone and change no count. *)
LEMMA StillEffect ==
  ASSUME UNCHANGED job, NEW p \in Path, row[p].live, row'[p].gen = row[p].gen,
         row'[p].locked = row[p].locked
  PROVE  LockEffect(p)
<1>1. SameShares(p)
  BY JobsUnchanged DEF SameShares
<1> QED BY <1>1 DEF LockEffect

(* A fresh row has a fresh id, which no job can have selected yet. *)
LEMMA InsertEffect ==
  ASSUME TypeOK, SegsKnown, NEW p \in Path, InsertRow(p), UNCHANGED job
  PROVE  row'[p].locked = 0 /\ Shares(p)' = 0
<1>1. row'[p].gen = row[p].gen + 1 /\ row'[p].locked = 0
  BY DEF TypeOK, Row, InsertRow
<1>2. ASSUME NEW j \in Job PROVE IdOf(p)' \notin job'[j].segs
  <2>1. job[j].segs \subseteq Id /\ row[p].gen \in Nat
    BY DEF TypeOK, Row
  <2> QED BY <1>1, <2>1 DEF SegsKnown, IdOf, Id
<1>3. Holders(IdOf(p))' = {}
  BY <1>2 DEF Holders
<1> QED BY <1>1, <1>3, FS_EmptySet DEF Shares

(* Every step of the store has one of the effects LockEffect lists on a row
   that exists after it. *)
LEMMA LockEffects ==
  ASSUME TypeOK, SegsKnown, CloserKnown, [Next]_vars, NEW p \in Path, row'[p].live
  PROVE  LockEffect(p)
<1>1. CASE Files
  BY <1>1, StillEffect DEF Files, RecordOpen, RecordStop, Age
<1>2. CASE Indexer
  <2>1. ASSUME NEW q \in Path, IndexProbe(q) PROVE LockEffect(p)
    BY <2>1, StillEffect DEF IndexProbe
  <2>2. ASSUME NEW q \in Path, IndexInsert(q) PROVE LockEffect(p)
    <3>1. CASE InsertRow(q) /\ p = q
      BY <3>1, <2>2, InsertEffect DEF IndexInsert, LockEffect
    <3>2. CASE InsertRow(q) /\ p # q
      <4>1. row'[p] = row[p]
        BY <3>2 DEF InsertRow, TypeOK
      <4> QED BY <4>1, <2>2, StillEffect DEF IndexInsert
    <3>3. CASE UNCHANGED row
      BY <3>3, <2>2, StillEffect DEF IndexInsert
    <3> QED BY <2>2, <3>1, <3>2, <3>3 DEF IndexInsert
  <2> QED BY <1>2, <2>1, <2>2 DEF Indexer
<1>3. CASE Sweeper
  <2>1. ASSUME NEW id \in sweeper.batch, SweepDelete(id) PROVE LockEffect(p)
    <3>1. id[1] \in Path
      BY DEF TypeOK, Id
    <3>2. CASE row' = [row EXCEPT ![id[1]].live = FALSE]
      <4>1. row'[p] = row[p]
        BY <3>1, <3>2 DEF TypeOK, Row
      <4> QED BY <4>1, <2>1, StillEffect DEF SweepDelete
    <3>3. CASE UNCHANGED row
      BY <3>3, <2>1, StillEffect DEF SweepDelete
    <3> QED BY <2>1, <3>2, <3>3 DEF SweepDelete, DeleteUnlocked
  <2>2. CASE UNCHANGED <<row, job>>
    BY <2>2, StillEffect
  <2> QED BY <1>3, <2>1, <2>2 DEF Sweeper, SweepSelect, SweepUnlink, Unlink, SweepEnd,
             OrphanScan, OrphanUnlink, OrphanCheck
<1>4. CASE Holds
  <2>1. ASSUME NEW q \in Path, EvidenceLock(q) \/ EvidenceUnlock(q) PROVE LockEffect(p)
    <3>0. PICK e \in BOOLEAN : row' = [row EXCEPT ![q].evidence = e]
      BY <2>1 DEF EvidenceLock, EvidenceUnlock
    <3>1. /\ row'[p].live = row[p].live /\ row'[p].gen = row[p].gen
          /\ row'[p].locked = row[p].locked
      BY <3>0, ZenonT(60) DEF TypeOK, Row
    <3> QED BY <2>1, <3>1, StillEffect DEF EvidenceLock, EvidenceUnlock
  <2> QED BY <1>4, <2>1 DEF Holds
<1>5. CASE Jobs
  <2>0. Clip \subseteq Job /\ Session \subseteq Job /\ \A s \in Session : s \notin Clip
    BY StoreAssumption DEF Job
  <2>1. ASSUME NEW j \in Job, NEW S \in SUBSET LiveId, JobSelect(j, S) PROVE LockEffect(p)
    <3>1. /\ job[j].pc = "idle" /\ job'[j].pc = "selected" /\ UNCHANGED row
          /\ \A k \in Job \ {j} : job'[k] = job[k]
      BY <2>1 DEF JobSelect, TypeOK
    <3>2. IdOf(p)' = IdOf(p)
      BY <3>1 DEF IdOf
    <3>3. Holders(IdOf(p))' = Holders(IdOf(p))
      BY <3>1, <3>2 DEF Holders, HoldsLock, HoldingPc
    <3> QED BY <3>1, <3>2, <3>3 DEF LockEffect, SameShares, Shares
  <2>2. ASSUME NEW j \in Job, JobLock(j) \/ JobLockCancelled(j) PROVE LockEffect(p)
    BY <2>2, JobLockEffect
  <2>3. ASSUME NEW c \in Clip, ClipStep(c) PROVE LockEffect(p)
    <3>1. CASE ClipCheckRows(c) \/ ClipCheckFiles(c) \/ ClipDrop(c)
      <4>1. HoldsLock(c) /\ UNCHANGED row
        BY <3>1 DEF ClipCheckRows, ClipCheckFiles, ClipDrop, HoldsLock, HoldingPc
      <4>2. PICK pc \in {"rows_ok", "reading", "dropped"} : Goto(c, pc)
        BY <3>1 DEF ClipCheckRows, ClipCheckFiles, ClipDrop
      <4>3. pc \in HoldingPc(c)
        BY <4>2 DEF HoldingPc
      <4> QED BY <2>0, <4>1, <4>2, <4>3, MoveEffect
    <3>2. CASE ClipRelease(c)
      <4>1. HoldsLock(c) /\ "done" \notin HoldingPc(c) /\ "leaked" \in HoldingPc(c)
        BY <3>2 DEF ClipRelease, HoldsLock, HoldingPc
      <4> QED BY <2>0, <3>2, <4>1, MoveEffect, ReleaseEffect DEF ClipRelease, Release
    <3> QED BY <2>3, <3>1, <3>2 DEF ClipStep
  <2>4. ASSUME NEW s \in Session, SessionStep(s) PROVE LockEffect(p)
    <3>1. HoldsLock(s) /\ "done" \notin HoldingPc(s) /\ {"leaked", "live"} \subseteq HoldingPc(s)
      BY <2>0, <2>4 DEF SessionStep, SessionReady, SessionFail, SessionCancelled,
         HoldsLock, HoldingPc
    <3> QED BY <2>0, <2>4, <3>1, MoveEffect, ReleaseEffect
            DEF SessionStep, SessionReady, SessionFail, SessionCancelled, Release
  <2>5. ASSUME NEW a \in Closer, NEW s \in Session, CloseStep(a, s) PROVE LockEffect(p)
    <3>0. s \in Job /\ HoldingPc(s) = {"locked", "live", "leaked"}
      BY <2>0 DEF HoldingPc
    <3>1. CASE CloseRead(a, s)
      BY <3>1, StillEffect DEF CloseRead
    <3>2. CASE CloseRelease(a, s)
      <4>1. CASE UNCHANGED <<row, job>>
        BY <4>1, StillEffect
      <4>2. CASE UnlockRows(job[s].segs) /\ job[s].pc = "live" /\ Goto(s, "released")
        BY <3>0, <4>2, ReleaseEffect DEF HoldsLock
      <4>3. CASE UnlockRows(job[s].segs) /\ job[s].pc # "live" /\ Goto(s, job[s].pc)
        <5>1. row'[p].gen = row[p].gen /\ row[p].live
          BY <4>3, LockOne
        <5>2. Shares(p)' = Shares(p)
          BY <3>0, <4>3, <5>1, JobKeeps DEF HoldsLock
        <5>3. row'[p].locked = row[p].locked \/ row'[p].locked = Dec(row[p].locked)
          BY <4>3, LockOne
        <5> QED BY <3>2, <4>3, <5>1, <5>2, <5>3 DEF LockEffect, SameShares
      <4> QED BY <3>2, <4>1, <4>2, <4>3 DEF CloseRelease
    <3>3. CASE CloseRemove(a, s)
      <4>1. CASE UNCHANGED job
        BY <3>3, <4>1, StillEffect DEF CloseRemove
      <4>2. CASE job[s].pc \in {"live", "leaked"} /\ Goto(s, "leaked")
        BY <3>0, <3>3, <4>2, MoveEffect DEF CloseRemove, HoldsLock
      <4>3. CASE job[s].pc \notin {"live", "leaked"} /\ Goto(s, "done")
        <5>1. job[s].pc \in {"live", "released", "leaked", "done"}
          BY <3>3 DEF CloseRemove, CloserKnown
        <5> QED BY <3>0, <3>3, <4>3, <5>1, MoveEffect DEF CloseRemove, HoldsLock
      <4> QED BY <3>3, <4>1, <4>2, <4>3 DEF CloseRemove
    <3> QED BY <2>5, <3>1, <3>2, <3>3 DEF CloseStep
  <2> QED BY <1>5, <2>1, <2>2, <2>3, <2>4, <2>5 DEF Jobs
<1>6. CASE DeleteCamera
  <2>1. CASE CameraDeleteRow
    BY <2>1 DEF CameraDeleteRow, TypeOK, Row
  <2>2. CASE UNCHANGED <<row, job>>
    BY <2>2, StillEffect
  <2> QED BY <1>6, <2>1, <2>2 DEF DeleteCamera, CameraCheckHolds, CameraStopRecorder, CameraPurge
<1>7. CASE Restart
  <2>1. row'[p].locked = 0 /\ row'[p].gen = row[p].gen /\ row[p].live
    BY <1>7 DEF Restart, TypeOK, Row
  <2> QED BY <1>7, <2>1 DEF LockEffect
<1>8. CASE UNCHANGED vars
  BY <1>8, StillEffect DEF vars
<1> QED BY <1>1, <1>2, <1>3, <1>4, <1>5, <1>6, <1>7, <1>8 DEF Next

(* Rows are only ever renamed upwards. *)
LEMMA GenMonotone ==
  ASSUME TypeOK, [Next]_vars, NEW p \in Path
  PROVE  row[p].gen \in Nat /\ row'[p].gen \in Nat /\ row[p].gen <= row'[p].gen
<1>0. row[p].gen \in Nat
  BY DEF TypeOK, Row
<1>1. ASSUME NEW q \in Path, InsertRow(q)
      PROVE  row'[p].gen \in Nat /\ row[p].gen <= row'[p].gen
  BY <1>0, <1>1 DEF InsertRow, TypeOK, Row
<1>2. ASSUME NEW S, LockRows(S) \/ UnlockRows(S)
      PROVE  row'[p].gen = row[p].gen
  BY <1>2, LockOne
<1>3. ASSUME NEW id \in sweeper.batch, SweepDelete(id)
      PROVE  row'[p].gen = row[p].gen
  <2>1. id[1] \in Path
    BY DEF TypeOK, Id
  <2>2. row' = [row EXCEPT ![id[1]].live = FALSE] \/ UNCHANGED row
    BY <1>3 DEF SweepDelete, DeleteUnlocked
  <2> QED BY <2>1, <2>2 DEF TypeOK, Row
<1>4. ASSUME NEW q \in Path, EvidenceLock(q) \/ EvidenceUnlock(q)
      PROVE  row'[p].gen = row[p].gen
  <2>1. PICK e \in BOOLEAN : row' = [row EXCEPT ![q].evidence = e]
    BY <1>4 DEF EvidenceLock, EvidenceUnlock
  <2> QED BY <2>1 DEF TypeOK, Row
<1>5. CASE CameraDeleteRow \/ Restart
  BY <1>0, <1>5 DEF CameraDeleteRow, Restart, TypeOK, Row
<1>6. CASE UNCHANGED row
  BY <1>0, <1>6
<1>7. CASE Files \/ UNCHANGED vars
  BY <1>6, <1>7 DEF Files, RecordOpen, RecordStop, Age, vars
<1>8. CASE Indexer
  BY <1>1, <1>6, <1>0, <1>8 DEF Indexer, IndexProbe, IndexInsert
<1>9. CASE Sweeper
  <2>1. UNCHANGED row \/ \E id \in sweeper.batch : SweepDelete(id)
    BY <1>9 DEF Sweeper, SweepSelect, SweepUnlink, Unlink, SweepEnd, OrphanScan,
       OrphanUnlink, OrphanCheck
  <2> QED BY <1>0, <1>3, <1>6, <2>1
<1>10. CASE Holds
  BY <1>0, <1>4, <1>10 DEF Holds
<1>11. CASE Jobs
  <2>1. \/ UNCHANGED row
        \/ \E S \in {job[j].segs : j \in Job} : LockRows(S) \/ UnlockRows(S)
    BY <1>11 DEF Jobs, JobSelect, JobLock, JobLockCancelled, ClipStep, ClipCheckRows,
       ClipCheckFiles, ClipDrop, ClipRelease, SessionStep, SessionReady, SessionFail,
       SessionCancelled, CloseStep, CloseRead, CloseRelease, CloseRemove, Release, Job
  <2> QED BY <1>0, <1>2, <2>1
<1>12. CASE DeleteCamera
  BY <1>5, <1>6, <1>12 DEF DeleteCamera, CameraCheckHolds, CameraStopRecorder, CameraPurge
<1> QED BY <1>5, <1>7, <1>8, <1>9, <1>10, <1>11, <1>12 DEF Next

(* Goto moves one job and keeps every job's segments. *)
LEMMA GotoOne ==
  ASSUME TypeOK, NEW j \in Job, NEW pc, Goto(j, pc)
  PROVE  /\ job'[j].pc = pc
         /\ \A k \in Job : job'[k].segs = job[k].segs
         /\ \A k \in Job \ {j} : job'[k] = job[k]
BY DEF TypeOK, Goto

(* The segments of a job only change by selecting rows that exist. *)
LEMMA SegsStep ==
  ASSUME TypeOK, [Next]_vars, NEW j \in Job
  PROVE  job'[j].segs = job[j].segs \/ job'[j].segs \subseteq LiveId
<1>1. ASSUME NEW k \in Job, NEW S \in SUBSET LiveId, JobSelect(k, S)
      PROVE  job'[j].segs = job[j].segs \/ job'[j].segs \subseteq LiveId
  BY <1>1 DEF JobSelect, TypeOK
<1>2. CASE \E k \in Job, pc \in ClipPc \cup SessionPc : Goto(k, pc)
  BY <1>2, GotoOne
<1>3. CASE UNCHANGED job
  BY <1>3
<1>4. CASE Jobs
  <2>1. \A s \in Session : job[s].pc \in ClipPc \cup SessionPc
    BY DEF TypeOK, Job
  <2> QED
    BY <1>1, <1>2, <1>3, <1>4, <2>1 DEF Jobs, JobLock, JobLockCancelled, ClipStep, ClipCheckRows,
       ClipCheckFiles, ClipDrop, ClipRelease, SessionStep, SessionReady, SessionFail,
       SessionCancelled, CloseStep, CloseRead, CloseRelease, CloseRemove, Release, Job,
       ClipPc, SessionPc
<1>5. CASE Restart
  BY <1>5 DEF Restart, TypeOK
<1>6. CASE Files \/ Indexer \/ Sweeper \/ Holds \/ DeleteCamera \/ UNCHANGED vars
  BY <1>3, <1>6 DEF Files, RecordOpen, RecordStop, Age, Indexer, IndexProbe, IndexInsert,
     Sweeper, SweepSelect, SweepDelete, SweepUnlink, Unlink, SweepEnd, OrphanScan, OrphanUnlink,
     OrphanCheck, Holds, EvidenceLock, EvidenceUnlock, DeleteCamera, CameraCheckHolds,
     CameraStopRecorder, CameraDeleteRow, CameraPurge, vars
<1> QED BY <1>4, <1>5, <1>6 DEF Next
(* SegsKnown and CloserKnown are preserved by every step. *)
LEMMA SegsKnownStep ==
  ASSUME TypeOK, SegsKnown, [Next]_vars
  PROVE  SegsKnown'
<1> SUFFICES ASSUME NEW j \in Job, NEW id \in job'[j].segs
             PROVE  id[2] <= row'[id[1]].gen
  BY DEF SegsKnown
<1>1. CASE id \in job[j].segs
  <2>1. id[1] \in Path /\ id[2] \in Nat /\ id[2] <= row[id[1]].gen
    BY <1>1 DEF SegsKnown, TypeOK, Id
  <2> QED BY <2>1, GenMonotone
<1>2. CASE id \in LiveId
  <2>1. PICK p \in Path : id = <<p, row[p].gen>>
    BY <1>2 DEF LiveId, IdOf
  <2> QED BY <2>1, GenMonotone
<1> QED BY <1>1, <1>2, SegsStep

(* ... the second because a session that is being closed never returns to a
   point before its sidecar was written. *)
LEMMA CloserKnownStep ==
  ASSUME TypeOK, CloserKnown, [Next]_vars
  PROVE  CloserKnown'
<1> DEFINE Written == {"live", "released", "leaked", "done"}
<1> SUFFICES ASSUME NEW a \in Closer, NEW s \in Session, closer'[a][s] # "idle"
             PROVE  job'[s].pc \in Written
  BY DEF CloserKnown
<1>0. s \in Job /\ s \notin Clip
  BY StoreAssumption DEF Job
<1>1. ASSUME job[s].pc \in Written PROVE job'[s].pc \in Written
  <2>1. ASSUME NEW k \in Job, NEW pc, Goto(k, pc), k = s => pc \in Written
        PROVE  job'[s].pc \in Written
    BY <1>0, <1>1, <2>1, GotoOne
  <2>2. CASE UNCHANGED job
    BY <1>1, <2>2
  <2>3. CASE Jobs
    <3>1. ASSUME NEW j \in Job, NEW S \in SUBSET LiveId, JobSelect(j, S)
          PROVE  job'[s].pc \in Written
      BY <1>0, <1>1, <3>1 DEF JobSelect, TypeOK
    <3>2. ASSUME NEW j \in Job, JobLock(j) \/ JobLockCancelled(j)
          PROVE  job'[s].pc \in Written
      BY <1>1, <2>1, <3>2 DEF JobLock, JobLockCancelled
    <3>3. ASSUME NEW c \in Clip, ClipStep(c) PROVE job'[s].pc \in Written
      <4>1. c \in Job /\ c # s
        BY <1>0 DEF Job
      <4> QED BY <2>1, <3>3, <4>1 DEF ClipStep, ClipCheckRows, ClipCheckFiles, ClipDrop,
              ClipRelease, Release
    <3>4. ASSUME NEW t \in Session, SessionStep(t) PROVE job'[s].pc \in Written
      BY <2>1, <3>4 DEF SessionStep, SessionReady, SessionFail, SessionCancelled, Release, Job
    <3>5. ASSUME NEW b \in Closer, NEW t \in Session, CloseStep(b, t)
          PROVE  job'[s].pc \in Written
      <4>1. t \in Job
        BY DEF Job
      <4> QED BY <1>1, <2>1, <2>2, <3>5, <4>1 DEF CloseStep, CloseRead, CloseRelease, CloseRemove
    <3> QED BY <2>3, <3>1, <3>2, <3>3, <3>4, <3>5 DEF Jobs
  <2>4. CASE Restart
    BY <1>0, <1>1, <2>4 DEF Restart, TypeOK
  <2>5. CASE Files \/ Indexer \/ Sweeper \/ Holds \/ DeleteCamera \/ UNCHANGED vars
    <3>1. UNCHANGED job
      BY <2>5 DEF Files, RecordOpen, RecordStop, Age, Indexer, IndexProbe, IndexInsert,
         Sweeper, SweepSelect, SweepDelete, SweepUnlink, Unlink, SweepEnd, OrphanScan,
         OrphanUnlink, OrphanCheck, Holds, EvidenceLock, EvidenceUnlock, DeleteCamera,
         CameraCheckHolds, CameraStopRecorder, CameraDeleteRow, CameraPurge, vars
    <3> QED BY <2>2, <3>1
  <2> QED BY <2>3, <2>4, <2>5 DEF Next
<1>2. CASE closer[a][s] # "idle"
  BY <1>1, <1>2 DEF CloserKnown
<1>3. CASE closer[a][s] = "idle"
  <2>1. PICK b \in Closer, t \in Session : CloseStep(b, t)
    <3>1. closer' # closer
      BY <1>3
    <3>2. ~Restart
      BY DEF Restart
    <3> QED BY <3>1, <3>2 DEF Next, Files, RecordOpen, RecordStop, Age, Indexer, IndexProbe,
            IndexInsert, Sweeper, SweepSelect, SweepDelete, SweepUnlink, Unlink, SweepEnd,
            OrphanScan, OrphanUnlink, OrphanCheck, Holds, EvidenceLock, EvidenceUnlock,
            DeleteCamera, CameraCheckHolds, CameraStopRecorder, CameraDeleteRow, CameraPurge,
            Jobs, JobSelect, JobLock, JobLockCancelled, ClipStep, ClipCheckRows, ClipCheckFiles,
            ClipDrop, ClipRelease, SessionStep, SessionReady, SessionFail, SessionCancelled, vars
  <2>2. b = a /\ t = s
    BY <1>3, <2>1 DEF CloseStep, CloseRead, CloseRelease, CloseRemove, TypeOK
  <2>3. CloseRead(a, s)
    BY <1>3, <2>1, <2>2 DEF CloseStep, CloseRelease, CloseRemove
  <2> QED BY <2>3 DEF CloseRead, DirExists
<1> QED BY <1>2, <1>3

(* Everything the counting argument needs. *)
CountInv == TypeOK /\ SegsKnown /\ CloserKnown /\ PinsHaveHolders

(* The initial counts are zero. *)
LEMMA CountInit == Init => CountInv
<1> SUFFICES ASSUME Init PROVE CountInv
  OBVIOUS
<1>1. TypeOK
  BY StoreAssumption DEF Init, TypeOK, FileState, Row, ClipPc, SweeperIdle, SweeperPc,
     CameraState, Closer
<1>2. SegsKnown /\ CloserKnown
  BY DEF Init, SegsKnown, CloserKnown
<1>3. PinsHaveHolders
  BY HoldersFinite DEF Init, PinsHaveHolders
<1> QED BY <1>1, <1>2, <1>3 DEF CountInv

(* No failed write, cancelled request, overlapping close, failed removal or
   restart ever leaves a row with a higher count than the jobs that still
   own a share of it: the reference count of set_segments_locked cannot
   outlive its holders, in any number of files, exports and sessions. *)
THEOREM PinsAreOwned == Spec => []PinsHaveHolders
<1>1. Init => CountInv
  BY CountInit
<1>2. CountInv /\ [Next]_vars /\ TypeOK' => CountInv'
  <2> SUFFICES ASSUME TypeOK, SegsKnown, CloserKnown, PinsHaveHolders, [Next]_vars, TypeOK'
               PROVE  CountInv'
    BY DEF CountInv
  <2>1. ASSUME NEW p \in Path, row'[p].live PROVE row'[p].locked <= Shares(p)'
    <3>1. LockEffect(p)
      BY <2>1, LockEffects
    <3>2. row[p].locked \in Nat /\ Shares(p) \in Nat
      BY HoldersFinite DEF TypeOK, Row, Shares
    <3>4. Shares(p)' \in Nat
      BY NatShares
    <3>3. row[p].live => row[p].locked <= Shares(p)
      BY DEF PinsHaveHolders, Shares
    <3> QED BY <3>1, <3>2, <3>3, <3>4 DEF LockEffect, SameShares, Dec
  <2>2. PinsHaveHolders'
    BY <2>1 DEF PinsHaveHolders, Shares
  <2> QED BY <2>2, SegsKnownStep, CloserKnownStep DEF CountInv
<1>3. CountInv => PinsHaveHolders
  BY DEF CountInv
<1> QED BY <1>1, <1>2, <1>3, TypeCorrect, PTL DEF Spec

-----------------------------------------------------------------------------
(* Where a row comes from, where it goes, and what changes its hold. *)
LEMMA RowStep ==
  ASSUME TypeOK, [Next]_vars, NEW p \in Path
  PROVE  /\ row'[p].live =>
              \/ IndexInsert(p) /\ InsertRow(p) /\ CameraExists
              \/ /\ row[p].live /\ row'[p].gen = row[p].gen
                 /\ \/ row'[p].evidence = row[p].evidence
                    \/ EvidenceLock(p) \/ EvidenceUnlock(p)
         /\ row[p].live /\ ~row'[p].live => Deletable(p) \/ CameraDeleteRow
<1> DEFINE Kept == /\ row'[p].live = row[p].live /\ row'[p].gen = row[p].gen
                   /\ row'[p].evidence = row[p].evidence
<1>0. row[p] \in Row
  BY DEF TypeOK
<1>1. ASSUME NEW q \in Path, IndexInsert(q) PROVE Kept \/ (p = q /\ InsertRow(q) /\ CameraExists)
  BY <1>1 DEF IndexInsert, InsertRow, TypeOK
<1>2. ASSUME NEW S, LockRows(S) \/ UnlockRows(S) PROVE Kept
  BY <1>0, <1>2 DEF LockRows, UnlockRows, Row
<1>3. ASSUME NEW id \in sweeper.batch, SweepDelete(id) PROVE Kept \/ (Deletable(p) /\ ~row'[p].live)
  <2>1. id[1] \in Path
    BY DEF TypeOK, Id
  <2> QED BY <1>0, <1>3, <2>1 DEF SweepDelete, DeleteUnlocked, TypeOK, Row
<1>4. ASSUME NEW q \in Path, EvidenceLock(q) \/ EvidenceUnlock(q)
      PROVE  Kept \/ (p = q /\ row'[p].gen = row[p].gen /\ row'[p].live = row[p].live)
  <2>1. PICK e \in BOOLEAN : row' = [row EXCEPT ![q].evidence = e]
    BY <1>4 DEF EvidenceLock, EvidenceUnlock
  <2> QED BY <1>0, <2>1 DEF TypeOK, Row
<1>5. ASSUME Restart PROVE Kept
  BY <1>0, <1>5 DEF Restart, TypeOK, Row
<1>6. ASSUME CameraDeleteRow PROVE ~row'[p].live
  BY <1>0, <1>6 DEF CameraDeleteRow, Row
<1>7. ASSUME Jobs PROVE Kept
  <2>1. \/ UNCHANGED row
        \/ \E S \in {job[j].segs : j \in Job} : LockRows(S) \/ UnlockRows(S)
    BY <1>7 DEF Jobs, JobSelect, JobLock, JobLockCancelled, ClipStep, ClipCheckRows,
       ClipCheckFiles, ClipDrop, ClipRelease, SessionStep, SessionReady, SessionFail,
       SessionCancelled, CloseStep, CloseRead, CloseRelease, CloseRemove, Release, Job
  <2> QED BY <1>2, <2>1
<1>8. ASSUME Files \/ UNCHANGED vars PROVE Kept
  BY <1>8 DEF Files, RecordOpen, RecordStop, Age, vars
<1>9. ASSUME Sweeper PROVE Kept \/ (Deletable(p) /\ ~row'[p].live)
  <2>1. UNCHANGED row \/ \E id \in sweeper.batch : SweepDelete(id)
    BY <1>9 DEF Sweeper, SweepSelect, SweepUnlink, Unlink, SweepEnd, OrphanScan,
       OrphanUnlink, OrphanCheck
  <2> QED BY <1>3, <2>1
<1>10. ASSUME Indexer
       PROVE  Kept \/ (IndexInsert(p) /\ InsertRow(p) /\ CameraExists)
  BY <1>1, <1>10 DEF Indexer, IndexProbe
<1>11. ASSUME Holds
       PROVE  \/ Kept
              \/ /\ EvidenceLock(p) \/ EvidenceUnlock(p)
                 /\ row'[p].gen = row[p].gen /\ row'[p].live = row[p].live
  BY <1>4, <1>11 DEF Holds
<1>12. ASSUME DeleteCamera PROVE Kept \/ (CameraDeleteRow /\ ~row'[p].live)
  BY <1>6, <1>12 DEF DeleteCamera, CameraCheckHolds, CameraStopRecorder, CameraPurge
<1>13. ASSUME InsertRow(p) PROVE row'[p].live
  BY <1>13 DEF InsertRow, TypeOK
<1> HIDE DEF Kept
<1>14. Kept => /\ row'[p].live = row[p].live /\ row'[p].gen = row[p].gen
               /\ row'[p].evidence = row[p].evidence
  BY DEF Kept
<1> QED BY <1>5, <1>7, <1>8, <1>9, <1>10, <1>11, <1>12, <1>13, <1>14 DEF Next

(* What the sweeper comes to unlink had a row or is old, and has no row now. *)
LEMMA TargetStep ==
  ASSUME TypeOK, [Next]_vars, NEW p \in Path, p \in sweeper'.target, p \notin sweeper.target
  PROVE  ~row'[p].live /\ (row[p].live \/ file[p] = "old")
<1>0. sweeper \in [pc : SweeperPc, batch : SUBSET Id, known : SUBSET Path, target : SUBSET Path]
  BY DEF TypeOK
<1>1. Sweeper
  BY DEF Next, Files, RecordOpen, RecordStop, Age, Indexer, IndexProbe, IndexInsert, Holds,
     EvidenceLock, EvidenceUnlock, DeleteCamera, CameraCheckHolds, CameraStopRecorder,
     CameraDeleteRow, CameraPurge, Jobs, JobSelect, JobLock, JobLockCancelled, ClipStep,
     ClipCheckRows, ClipCheckFiles, ClipDrop, ClipRelease, SessionStep, SessionReady,
     SessionFail, SessionCancelled, CloseStep, CloseRead, CloseRelease, CloseRemove, Restart,
     SweeperIdle, vars
<1>2. ASSUME NEW id \in sweeper.batch, SweepDelete(id)
      PROVE  ~row'[p].live /\ row[p].live
  <2>1. id[1] \in Path
    BY DEF TypeOK, Id
  <2>2. CASE id = IdOf(id[1]) /\ Deletable(id[1])
    <3>1. /\ sweeper' = [sweeper EXCEPT !.pc = "unlink", !.batch = @ \ {id}, !.target = {id[1]}]
          /\ row' = [row EXCEPT ![id[1]].live = FALSE]
      BY <1>2, <2>2 DEF SweepDelete, DeleteUnlocked
    <3>2. sweeper'.target = {id[1]}
      BY ONLY <3>1, <1>0
    <3>3. p = id[1]
      BY <3>2
    <3> QED BY <2>2, <3>1, <3>3 DEF Deletable, TypeOK, Row
  <2>3. CASE ~(id = IdOf(id[1]) /\ Deletable(id[1]))
    <3>1. sweeper' = [sweeper EXCEPT !.batch = @ \ {id}]
      BY <1>2, <2>3 DEF SweepDelete, DeleteUnlocked
    <3>2. sweeper'.target = sweeper.target
      BY ONLY <3>1, <1>0
    <3> QED BY <3>2
  <2> QED BY <2>2, <2>3
<1>3. ASSUME NEW q \in Path, OrphanCheck(q) PROVE ~row'[p].live /\ file[p] = "old"
  <2>1. sweeper'.target = {q}
    BY ONLY <1>0, <1>3 DEF OrphanCheck
  <2> QED BY <1>3, <2>1 DEF OrphanCheck
<1>4. ASSUME SweepUnlink \/ OrphanUnlink \/ SweepEnd PROVE sweeper'.target = {}
  <2>1. ASSUME NEW from, NEW to, Unlink(from, to) PROVE sweeper'.target = {}
    BY ONLY <1>0, <2>1 DEF Unlink
  <2>2. ASSUME SweepEnd PROVE sweeper'.target = {}
    BY ONLY <2>2 DEF SweepEnd, SweeperIdle
  <2> QED BY <1>4, <2>1, <2>2 DEF SweepUnlink, OrphanUnlink
<1>5. ASSUME OrphanScan \/ \E S \in SUBSET LiveId : SweepSelect(S)
      PROVE  sweeper'.target = sweeper.target
  BY ONLY <1>0, <1>5 DEF OrphanScan, SweepSelect
<1> QED BY <1>1, <1>2, <1>3, <1>4, <1>5 DEF Sweeper

(* What takes a file away. *)
LEMMA FileStep ==
  ASSUME TypeOK, [Next]_vars, NEW p \in Path, OnDisk(p), ~OnDisk(p)'
  PROVE  p \in sweeper.target \/ CameraPurge
<1> USE DEF OnDisk, TypeOK, FileState
<1>1. CASE Files
  BY <1>1 DEF Files, RecordOpen, RecordStop, Age
<1>2. CASE Sweeper
  BY <1>2 DEF Sweeper, SweepSelect, SweepDelete, SweepUnlink, Unlink, SweepEnd, OrphanScan,
     OrphanUnlink, OrphanCheck
<1>3. CASE DeleteCamera
  BY <1>3 DEF DeleteCamera, CameraCheckHolds, CameraStopRecorder, CameraDeleteRow
<1>4. CASE Restart
  BY <1>4 DEF Restart
<1>5. CASE UNCHANGED file
  BY <1>5
<1> QED BY <1>1, <1>2, <1>3, <1>4, <1>5 DEF Next, Indexer, IndexProbe, IndexInsert, Holds,
        EvidenceLock, EvidenceUnlock, Jobs, JobSelect, JobLock, JobLockCancelled, ClipStep,
        ClipCheckRows, ClipCheckFiles, ClipDrop, ClipRelease, SessionStep, SessionReady,
        SessionFail, SessionCancelled, CloseStep, CloseRead, CloseRelease, CloseRemove, vars

(* A file grows old an hour after it was indexed. *)
LEMMA OldStep ==
  ASSUME "long_outage" \notin Faults, TypeOK, [Next]_vars, NEW p \in Path, file'[p] = "old"
  PROVE  file[p] = "old" \/ row[p].gen > 0
<1> USE DEF TypeOK, FileState
<1>1. CASE Files
  BY <1>1 DEF Files, RecordOpen, RecordStop, Age
<1>2. CASE Sweeper
  BY <1>2, ZenonT(60) DEF Sweeper, SweepSelect, SweepDelete, SweepUnlink, Unlink, SweepEnd, OrphanScan,
     OrphanUnlink, OrphanCheck
<1>3. CASE DeleteCamera
  BY <1>3 DEF DeleteCamera, CameraCheckHolds, CameraStopRecorder, CameraDeleteRow, CameraPurge
<1>4. CASE Restart
  BY <1>4 DEF Restart
<1>5. CASE UNCHANGED file
  BY <1>5
<1> QED BY <1>1, <1>2, <1>3, <1>4, <1>5 DEF Next, Indexer, IndexProbe, IndexInsert, Holds,
        EvidenceLock, EvidenceUnlock, Jobs, JobSelect, JobLock, JobLockCancelled, ClipStep,
        ClipCheckRows, ClipCheckFiles, ClipDrop, ClipRelease, SessionStep, SessionReady,
        SessionFail, SessionCancelled, CloseStep, CloseRead, CloseRelease, CloseRemove, vars

(* What moves the camera. *)
LEMMA CameraStep ==
  ASSUME [Next]_vars
  PROVE  UNCHANGED camera \/ DeleteCamera \/ Restart
BY DEF Next, Files, RecordOpen, RecordStop, Age, Sweeper, SweepSelect, SweepDelete, SweepUnlink,
   Unlink, SweepEnd, OrphanScan, OrphanUnlink, OrphanCheck, Indexer, IndexProbe, IndexInsert, Holds,
   EvidenceLock, EvidenceUnlock, Jobs, JobSelect, JobLock, JobLockCancelled, ClipStep,
   ClipCheckRows, ClipCheckFiles, ClipDrop, ClipRelease, SessionStep, SessionReady,
   SessionFail, SessionCancelled, CloseStep, CloseRead, CloseRelease, CloseRemove, vars

-----------------------------------------------------------------------------
(* What the sweeper is about to unlink and what the indexer is about to
   insert has no row, and a deleted camera has none at all. *)
TargetGone == \A p \in sweeper.target : ~row[p].live
ProbedGone == \A p \in probed : ~row[p].live
RowsGone   == ~CameraExists => \A p \in Path : ~row[p].live

(* Between the count of the holds and the deletion of the camera's row no
   hold appears. *)
HoldsCounted == camera \in {"hold_checked", "recorder_stopped"} => \A p \in Path : ~Held(p)

HoldInv == TypeOK /\ TargetGone /\ ProbedGone /\ RowsGone /\ HoldsCounted

(* A row has a generation; so has a file that grew old, and one the sweeper
   is about to unlink. *)
Indexed == \A p \in Path : row[p].live \/ file[p] = "old" \/ p \in sweeper.target => row[p].gen > 0

AgeInv == TypeOK /\ Indexed

(* A session is closed by one task at a time, its locks are released once,
   and one whose locks were released is gone when that task is done. *)
ClosedOnce ==
  \A s \in Session :
    /\ \A a, b \in Closer : closer[a][s] # "idle" /\ closer[b][s] # "idle" => a = b
    /\ \A a \in Closer : closer[a][s] = "read" => job[s].pc = "live"
    /\ job[s].pc = "released" => \E a \in Closer : closer[a][s] = "released"

ExactInv == CountInv /\ ClosedOnce /\ PinsExact

(* From the re-check of its rows on, a clip's rows stay, and from the
   re-check of its files on, its files do. *)
RowsPinned ==
  CameraExists =>
    \A c \in Clip : job[c].pc \in {"rows_ok", "reading"} =>
      \A id \in job[c].segs : id \in LiveId /\ (job[c].pc = "reading" => OnDisk(id[1]))

PinInv == ExactInv /\ TargetGone /\ ProbedGone /\ RowsGone /\ RowsPinned

-----------------------------------------------------------------------------
LEMMA CalmInit ==
  Init => TypeOK /\ TargetGone /\ ProbedGone /\ RowsGone /\ HoldsCounted /\ Indexed
<1> SUFFICES ASSUME Init
             PROVE  TypeOK /\ TargetGone /\ ProbedGone /\ RowsGone /\ HoldsCounted /\ Indexed
  OBVIOUS
<1>1. TypeOK
  BY CountInit DEF CountInv
<1> QED BY <1>1 DEF Init, TargetGone, ProbedGone, RowsGone, HoldsCounted, Indexed, SweeperIdle,
        CameraExists

(* As long as no row is inserted for a file that awaits its unlink, what is
   about to be unlinked or inserted has no row, and neither has anything of a
   deleted camera. *)
LEMMA GoneStep ==
  ASSUME "reindex" \notin Faults, TypeOK, TargetGone, ProbedGone, RowsGone, [Next]_vars
  PROVE  TargetGone' /\ ProbedGone' /\ RowsGone'
<1>1. TargetGone'
  <2> SUFFICES ASSUME NEW p \in sweeper'.target, row'[p].live PROVE FALSE
    BY DEF TargetGone
  <2>1. p \in Path
    BY TypeCorrectStep DEF TypeOK
  <2>2. CASE p \in sweeper.target
    <3>1. IndexInsert(p)
      BY <2>1, <2>2, RowStep DEF TargetGone
    <3> QED BY <2>2, <3>1 DEF IndexInsert
  <2>3. CASE p \notin sweeper.target
    BY <2>1, <2>3, TargetStep
  <2> QED BY <2>2, <2>3
<1>2. ProbedGone'
  <2> SUFFICES ASSUME NEW p \in probed', row'[p].live PROVE FALSE
    BY DEF ProbedGone
  <2>1. p \in Path
    BY TypeCorrectStep DEF TypeOK
  <2>2. CASE IndexInsert(p)
    BY <2>2 DEF IndexInsert
  <2>3. CASE row[p].live
    <3>1. p \notin probed
      BY <2>3 DEF ProbedGone
    <3>2. IndexProbe(p)
      BY <3>1 DEF Next, Files, RecordOpen, RecordStop, Age, Sweeper, SweepSelect, SweepDelete,
         SweepUnlink, Unlink, SweepEnd, OrphanScan, OrphanUnlink, OrphanCheck, Indexer, IndexProbe,
         IndexInsert, Holds, EvidenceLock, EvidenceUnlock, Jobs, JobSelect, JobLock,
         JobLockCancelled, ClipStep, ClipCheckRows, ClipCheckFiles, ClipDrop, ClipRelease,
         SessionStep, SessionReady, SessionFail, SessionCancelled, CloseStep, CloseRead,
         CloseRelease, CloseRemove, DeleteCamera, CameraCheckHolds, CameraStopRecorder,
         CameraDeleteRow, CameraPurge, Restart, vars
    <3> QED BY <2>3, <3>2 DEF IndexProbe
  <2> QED BY <2>1, <2>2, <2>3, RowStep
<1>3. RowsGone'
  <2> SUFFICES ASSUME ~CameraExists', NEW p \in Path, row'[p].live PROVE FALSE
    BY DEF RowsGone
  <2>1. CameraExists
    BY RowStep DEF RowsGone
  <2>2. CameraDeleteRow
    BY <2>1, CameraStep DEF CameraExists, DeleteCamera, CameraCheckHolds, CameraStopRecorder,
       CameraPurge, Restart, TypeOK, CameraState
  <2> QED BY <2>2 DEF CameraDeleteRow, TypeOK, Row
<1> QED BY <1>1, <1>2, <1>3

(* A hold taken after the count would have to race the deletion. *)
LEMMA HoldsCountedStep ==
  ASSUME "hold_race" \notin Faults, "count_error" \notin Faults, TypeOK, HoldsCounted, [Next]_vars
  PROVE  HoldsCounted'
<1> SUFFICES ASSUME camera' \in {"hold_checked", "recorder_stopped"}, NEW p \in Path, Held(p)'
             PROVE  FALSE
  BY DEF HoldsCounted
<1>1. CASE CameraCheckHolds
  BY <1>1 DEF CameraCheckHolds, Held
<1>2. CASE ~CameraCheckHolds
  <2>1. camera \in {"hold_checked", "recorder_stopped"}
    BY <1>2, CameraStep DEF DeleteCamera, CameraStopRecorder, CameraDeleteRow, CameraPurge, Restart
  <2>2. ~EvidenceLock(p) /\ ~EvidenceUnlock(p)
    BY <2>1 DEF EvidenceLock, EvidenceUnlock, HoldsCounted
  <2>3. ~InsertRow(p)
    BY DEF InsertRow, Held, TypeOK, Row
  <2> QED BY <2>1, <2>2, <2>3, RowStep DEF Held, HoldsCounted
<1> QED BY <1>1, <1>2

(* No task takes a held row or its file, on a box whose unlinks do not race
   its indexer and whose camera deletions count the holds that are there: a
   hold ends only by being released (retention.rs, routes/cameras.rs). *)
THEOREM HoldsEndure ==
  ASSUME {"reindex", "hold_race", "count_error"} \cap Faults = {}
  PROVE  Spec => HoldDurable
<1>1. HoldInv /\ [Next]_vars => HoldInv'
  BY TypeCorrectStep, GoneStep, HoldsCountedStep DEF HoldInv
<1>2. ASSUME HoldInv, [Next]_vars, NEW p \in Path, Held(p)
      PROVE  /\ row'[p].live /\ row'[p].gen = row[p].gen
             /\ OnDisk(p) => OnDisk(p)'
  <2>1. ~Deletable(p) /\ ~CameraDeleteRow /\ ~CameraPurge
    BY <1>2 DEF Held, Deletable, CameraDeleteRow, CameraPurge, HoldInv, HoldsCounted, RowsGone,
       CameraExists
  <2>2. row'[p].live
    BY <1>2, <2>1, RowStep DEF Held, HoldInv
  <2>3. ~IndexInsert(p)
    BY <1>2 DEF IndexInsert, HoldInv, ProbedGone, Held
  <2>4. p \notin sweeper.target
    BY <1>2 DEF HoldInv, TargetGone, Held
  <2> QED BY <1>2, <2>1, <2>2, <2>3, <2>4, RowStep, FileStep DEF HoldInv
<1>3. HoldInv /\ [Next]_vars =>
        [\A p \in Path : Held(p) =>
            /\ row'[p].live /\ row'[p].gen = row[p].gen
            /\ OnDisk(p) => OnDisk(p)']_vars
  BY <1>2
<1>4. Init => HoldInv
  BY CalmInit DEF HoldInv
<1> QED BY <1>1, <1>3, <1>4, PTL DEF Spec, HoldDurable

(* Only an outage longer than ORPHAN_MIN_AGE makes a file old that no scan
   has seen. *)
LEMMA IndexedStep ==
  ASSUME "long_outage" \notin Faults, TypeOK, Indexed, [Next]_vars
  PROVE  Indexed'
<1> SUFFICES ASSUME NEW p \in Path, row'[p].live \/ file'[p] = "old" \/ p \in sweeper'.target
             PROVE  row'[p].gen > 0
  BY DEF Indexed
<1>0. row[p].gen \in Nat /\ row'[p].gen \in Nat /\ row[p].gen <= row'[p].gen
  BY GenMonotone
<1>1. CASE row'[p].live
  BY <1>0, <1>1, RowStep DEF Indexed, InsertRow, TypeOK, Row
<1>2. CASE p \in sweeper'.target
  BY <1>0, <1>2, TargetStep DEF Indexed
<1>3. CASE file'[p] = "old"
  <2>1. file[p] = "old" \/ row[p].gen > 0
    BY <1>3, OldStep
  <2> QED BY <1>0, <2>1 DEF Indexed
<1> QED BY <1>1, <1>2, <1>3

(* Footage no scan has reached is never taken for an orphan, as long as the
   process is not down for longer than ORPHAN_MIN_AGE (retention.rs
   reclaim_orphans). *)
THEOREM UnindexedSafe ==
  ASSUME "long_outage" \notin Faults
  PROVE  Spec => UnindexedFootageKept
<1>1. AgeInv /\ [Next]_vars => AgeInv'
  BY TypeCorrectStep, IndexedStep DEF AgeInv
<1>2. ASSUME AgeInv, [Next]_vars, NEW p \in Path, row[p].gen = 0, OnDisk(p)
      PROVE  OnDisk(p)' \/ camera' = "purged"
  BY <1>2, FileStep DEF AgeInv, Indexed, CameraPurge
<1>3. AgeInv /\ [Next]_vars =>
        [\A p \in Path : row[p].gen = 0 /\ OnDisk(p) => OnDisk(p)' \/ camera' = "purged"]_vars
  BY <1>2
<1>4. Init => AgeInv
  BY CalmInit DEF AgeInv
<1> QED BY <1>1, <1>3, <1>4, PTL DEF Spec, UnindexedFootageKept

-----------------------------------------------------------------------------
(* A step that closes no session, on a process that does not restart, moves
   a session neither from "live" nor to "released". *)
LEMMA SessionStays ==
  ASSUME "restart" \notin Faults, TypeOK, [Next]_vars, NEW s \in Session,
         ~\E a \in Closer, t \in Session : CloseStep(a, t)
  PROVE  /\ UNCHANGED closer
         /\ job[s].pc = "live" => job'[s].pc = "live"
         /\ job'[s].pc = "released" => job[s].pc = "released"
<1> DEFINE Good == /\ UNCHANGED closer
                   /\ job[s].pc = "live" => job'[s].pc = "live"
                   /\ job'[s].pc = "released" => job[s].pc = "released"
<1>0. s \in Job /\ s \notin Clip /\ Clip \subseteq Job
  BY StoreAssumption DEF Job
<1>1. ASSUME NEW j \in Job, NEW S \in SUBSET LiveId, JobSelect(j, S) PROVE Good
  BY <1>0, <1>1 DEF JobSelect, TypeOK
<1>2. ASSUME NEW j \in Job, NEW pc, Goto(j, pc), pc # "released", job[j].pc # "live", UNCHANGED closer
      PROVE  Good
  BY <1>0, <1>2, GotoOne
<1>3. ASSUME Jobs PROVE Good
  <2>1. ASSUME NEW j \in Job, JobLock(j) \/ JobLockCancelled(j) PROVE Good
    BY <1>2, <2>1 DEF JobLock, JobLockCancelled
  <2>2. ASSUME NEW c \in Clip, ClipStep(c) PROVE Good
    <3>1. PICK pc : Goto(c, pc) /\ pc # "released" /\ job[c].pc # "live" /\ UNCHANGED closer
      BY <2>2 DEF ClipStep, ClipCheckRows, ClipCheckFiles, ClipDrop, ClipRelease, Release
    <3> QED BY <1>0, <1>2, <3>1
  <2>3. ASSUME NEW t \in Session, SessionStep(t) PROVE Good
    <3>1. PICK pc : Goto(t, pc) /\ pc # "released" /\ job[t].pc # "live" /\ UNCHANGED closer
      BY <2>3 DEF SessionStep, SessionReady, SessionFail, SessionCancelled, Release
    <3>2. t \in Job
      BY DEF Job
    <3> QED BY <1>2, <3>1, <3>2
  <2> HIDE DEF Good
  <2> QED BY <1>1, <1>3, <2>1, <2>2, <2>3 DEF Jobs
<1>4. ASSUME UNCHANGED <<job, closer>> PROVE Good
  BY <1>4
<1>5. ~Restart
  BY DEF Restart
<1> HIDE DEF Good
<1>6. Good
  BY <1>3, <1>4, <1>5 DEF Next, Files, RecordOpen, RecordStop, Age, Indexer, IndexProbe, IndexInsert,
     Sweeper, SweepSelect, SweepDelete, SweepUnlink, Unlink, SweepEnd, OrphanScan, OrphanUnlink,
     OrphanCheck, Holds, EvidenceLock, EvidenceUnlock, DeleteCamera, CameraCheckHolds,
     CameraStopRecorder, CameraDeleteRow, CameraPurge, vars
<1> QED BY <1>6 DEF Good

(* What one closing task does to the session it closes and to the others. *)
LEMMA ClosedOnceStep ==
  ASSUME {"restart", "double_close", "rmdir"} \cap Faults = {}, TypeOK, ClosedOnce, [Next]_vars
  PROVE  ClosedOnce'
<1>1. CASE ~\E a \in Closer, t \in Session : CloseStep(a, t)
  BY <1>1, SessionStays DEF ClosedOnce
<1>2. ASSUME NEW a \in Closer, NEW t \in Session, CloseStep(a, t) PROVE ClosedOnce'
  <2>1. /\ t \in Job
        /\ \A b \in Closer, s \in Session : b # a \/ s # t => closer'[b][s] = closer[b][s]
        /\ \A s \in Session : s # t => job'[s] = job[s]
    BY <1>2, GotoOne DEF CloseStep, CloseRead, CloseRelease, CloseRemove, TypeOK, Job
  <2>2. CASE CloseRead(a, t)
    <3>1. closer'[a][t] = "read" /\ job' = job /\ \A b \in Closer : closer[b][t] = "idle"
      BY <2>2 DEF CloseRead, TypeOK
    <3>2. job[t].pc = "live"
      BY <2>2, <3>1 DEF CloseRead, DirExists, ClosedOnce
    <3> QED BY <2>1, <3>1, <3>2 DEF ClosedOnce
  <2>3. CASE CloseRelease(a, t)
    <3>1. closer[a][t] = "read" /\ closer'[a][t] = "released" /\ job[t].pc = "live"
      BY <2>3 DEF CloseRelease, TypeOK, ClosedOnce
    <3>2. \A b \in Closer : b # a => closer[b][t] = "idle"
      BY <3>1 DEF ClosedOnce
    <3> QED BY <2>1, <3>1, <3>2 DEF ClosedOnce
  <2>4. CASE CloseRemove(a, t)
    <3>1. closer[a][t] = "released" /\ closer'[a][t] = "idle"
      BY <2>4 DEF CloseRemove, TypeOK
    <3>2. \A b \in Closer : b # a => closer[b][t] = "idle"
      BY <3>1 DEF ClosedOnce
    <3>3. job'[t].pc \in {"leaked", "done"}
      BY <2>1, <2>4, GotoOne DEF CloseRemove
    <3> QED BY <2>1, <3>1, <3>2, <3>3 DEF ClosedOnce
  <2> QED BY <1>2, <2>2, <2>3, <2>4 DEF CloseStep
<1> QED BY <1>1, <1>2

(* The faults that make a count differ from the jobs that own a share. *)
Exactly == {"restart", "lock_write", "double_close", "rmdir"} \cap Faults = {}

LEMMA ExactStep ==
  ASSUME Exactly, ExactInv, [Next]_vars
  PROVE  ExactInv'
<1> USE DEF Exactly, ExactInv, CountInv
<1>1. TypeOK' /\ SegsKnown' /\ CloserKnown' /\ ClosedOnce'
  BY TypeCorrectStep, SegsKnownStep, CloserKnownStep, ClosedOnceStep
<1>2. ASSUME NEW p \in Path, row'[p].live PROVE row'[p].locked = Shares(p)'
  <2>1. LockEffect(p)
    BY <1>2, LockEffects
  <2>2. row[p].locked \in Nat /\ Shares(p) \in Nat /\ Shares(p)' \in Nat
    BY HoldersFinite, NatShares DEF TypeOK, Row, Shares
  <2>3. row[p].live => row[p].locked = Shares(p)
    BY DEF PinsExact, Shares
  <2>4. ~Restart /\ ~\E a \in Closer, s \in Session : CloseRelease(a, s) /\ job[s].pc # "live"
    BY DEF Restart, CloseRelease, ClosedOnce
  <2> QED BY <2>1, <2>2, <2>3, <2>4 DEF LockEffect, SameShares, Dec
<1>3. PinsExact'
  BY <1>2 DEF PinsExact, Shares
<1>4. PinsHaveHolders'
  BY <1>2, NatShares DEF PinsHaveHolders, Shares
<1> QED BY <1>1, <1>3, <1>4

LEMMA ExactInit == Init => ExactInv
<1> SUFFICES ASSUME Init PROVE ExactInv
  OBVIOUS
<1>1. CountInv
  BY CountInit
<1>2. ClosedOnce
  BY DEF Init, ClosedOnce, Job
<1>3. PinsExact
  BY DEF Init, PinsExact
<1> QED BY <1>1, <1>2, <1>3 DEF ExactInv

(* The count of a row is the number of exports and sessions that own a share
   of it: no release takes another one's share, with no failed lock, no
   overlapping close, no directory left behind and no session from before a
   restart (repo.rs set_segments_locked). *)
THEOREM PinsAreExact == ASSUME Exactly PROVE Spec => []PinsExact
<1>1. ExactInv /\ [Next]_vars => ExactInv'
  BY ExactStep
<1>2. ExactInv => PinsExact
  BY DEF ExactInv
<1> QED BY <1>1, <1>2, ExactInit, PTL DEF Spec

(* How an export comes to the points where it relies on its pins. *)
LEMMA ClipMove ==
  ASSUME "restart" \notin Faults, TypeOK, [Next]_vars, NEW c \in Clip,
         job'[c].pc \in {"rows_ok", "reading"}
  PROVE  \/ ClipCheckRows(c) /\ job'[c].pc = "rows_ok"
         \/ ClipCheckFiles(c) /\ job'[c].pc = "reading"
         \/ job'[c] = job[c]
<1>0. c \in Job /\ c \notin Session /\ Session \subseteq Job
  BY StoreAssumption DEF Job
<1>1. ASSUME NEW j \in Job, NEW pc, Goto(j, pc), pc \notin {"rows_ok", "reading"}
      PROVE  job'[c] = job[c]
  BY <1>0, <1>1, GotoOne
<1>2. CASE Jobs
  <2>1. ASSUME NEW j \in Job, NEW S \in SUBSET LiveId, JobSelect(j, S) PROVE job'[c] = job[c]
    BY <1>0, <2>1 DEF JobSelect, TypeOK
  <2>2. ASSUME NEW j \in Job, JobLock(j) \/ JobLockCancelled(j) PROVE job'[c] = job[c]
    BY <1>1, <2>2 DEF JobLock, JobLockCancelled
  <2>3. ASSUME NEW d \in Clip, ClipDrop(d) \/ ClipRelease(d) PROVE job'[c] = job[c]
    BY <1>1, <2>3 DEF ClipDrop, ClipRelease, Release, Job
  <2>4. ASSUME NEW d \in Clip, ClipCheckRows(d) \/ ClipCheckFiles(d)
        PROVE  \/ ClipCheckRows(c) /\ job'[c].pc = "rows_ok"
               \/ ClipCheckFiles(c) /\ job'[c].pc = "reading"
               \/ job'[c] = job[c]
    <3>1. CASE d # c
      BY <1>0, <2>4, <3>1, GotoOne DEF ClipCheckRows, ClipCheckFiles, Job
    <3>2. CASE d = c
      BY <1>0, <2>4, <3>2, GotoOne DEF ClipCheckRows, ClipCheckFiles
    <3> QED BY <3>1, <3>2
  <2>5. ASSUME NEW t \in Session, SessionStep(t) PROVE job'[c] = job[c]
    BY <1>0, <1>1, <2>5 DEF SessionStep, SessionReady, SessionFail, SessionCancelled, Release
  <2>6. ASSUME NEW a \in Closer, NEW t \in Session, CloseStep(a, t) PROVE job'[c] = job[c]
    <3>1. t # c /\ t \in Job
      BY <1>0
    <3>2. ASSUME NEW pc, Goto(t, pc) PROVE job'[c] = job[c]
      BY <1>0, <3>1, <3>2, GotoOne
    <3> QED BY <2>6, <3>2 DEF CloseStep, CloseRead, CloseRelease, CloseRemove
  <2> QED BY <1>2, <2>1, <2>2, <2>3, <2>4, <2>5, <2>6 DEF Jobs, ClipStep
<1>3. UNCHANGED job => job'[c] = job[c]
  OBVIOUS
<1>4. ~Restart
  BY DEF Restart
<1>5. Jobs \/ UNCHANGED job
  BY <1>4 DEF Next, Files, RecordOpen, RecordStop, Age, Indexer, IndexProbe,
        IndexInsert, Sweeper, SweepSelect, SweepDelete, SweepUnlink, Unlink, SweepEnd, OrphanScan,
        OrphanUnlink, OrphanCheck, Holds, EvidenceLock, EvidenceUnlock, DeleteCamera,
        CameraCheckHolds, CameraStopRecorder, CameraDeleteRow, CameraPurge, vars
<1> QED BY <1>2, <1>3, <1>5

(* A row an export holds cannot be pruned: its count is not zero. *)
LEMMA HeldByClip ==
  ASSUME TypeOK, PinsExact, NEW c \in Clip, job[c].pc \in {"rows_ok", "reading"},
         NEW p \in Path, row[p].live, IdOf(p) \in job[c].segs
  PROVE  ~Deletable(p)
<1>1. c \in Holders(IdOf(p))
  BY DEF Holders, HoldsLock, HoldingPc, Job
<1>2. Cardinality(Holders(IdOf(p))) # 0
  BY <1>1, HoldersFinite, FS_EmptySet
<1> QED BY <1>2 DEF PinsExact, Deletable

LEMMA RowsPinnedStep ==
  ASSUME Exactly, PinInv, [Next]_vars
  PROVE  RowsPinned'
<1> USE DEF PinInv, ExactInv, CountInv
<1> SUFFICES ASSUME CameraExists', NEW c \in Clip, job'[c].pc \in {"rows_ok", "reading"},
                    NEW id \in job'[c].segs
             PROVE  id \in LiveId' /\ (job'[c].pc = "reading" => OnDisk(id[1])')
  BY DEF RowsPinned
<1>0. CameraExists /\ ~CameraDeleteRow /\ ~CameraPurge /\ ~Restart
  BY CameraStep DEF CameraExists, DeleteCamera, CameraCheckHolds, CameraStopRecorder,
     CameraDeleteRow, CameraPurge, Restart, Exactly, TypeOK, CameraState
<1>1. CASE ClipCheckRows(c) /\ job'[c].pc = "rows_ok"
  <2>1. job[c].segs \subseteq LiveId /\ job'[c].segs = job[c].segs /\ LiveId' = LiveId
    BY <1>1, GotoOne DEF ClipCheckRows, Job, LiveId, IdOf
  <2> QED BY <1>1, <2>1
<1>2. CASE ClipCheckFiles(c) /\ job'[c].pc = "reading"
  <2>1. /\ \A i \in job[c].segs : OnDisk(i[1])
        /\ job'[c].segs = job[c].segs /\ job[c].pc = "rows_ok"
        /\ LiveId' = LiveId /\ UNCHANGED file
    BY <1>2, GotoOne DEF ClipCheckFiles, Job, LiveId, IdOf
  <2> QED BY <1>0, <2>1 DEF RowsPinned, OnDisk
<1>3. CASE job'[c] = job[c]
  <2>1. id \in LiveId /\ (job[c].pc = "reading" => OnDisk(id[1]))
    BY <1>0, <1>3 DEF RowsPinned
  <2>2. PICK p \in Path : id = IdOf(p) /\ row[p].live
    BY <2>1 DEF LiveId
  <2>3. id[1] = p
    BY <2>2 DEF IdOf
  <2>4. ~Deletable(p)
    BY <1>3, <2>2, HeldByClip
  <2>5. ~IndexInsert(p) /\ p \notin sweeper.target
    BY <2>2 DEF IndexInsert, ProbedGone, TargetGone
  <2>6. row'[p].live /\ row'[p].gen = row[p].gen
    BY <1>0, <2>2, <2>4, <2>5, RowStep
  <2>7. id \in LiveId'
    BY <2>2, <2>6 DEF LiveId, IdOf
  <2>8. job[c].pc = "reading" => OnDisk(p)'
    BY <1>0, <2>1, <2>3, <2>5, FileStep
  <2> QED BY <1>3, <2>3, <2>7, <2>8 DEF OnDisk
<1>4. "restart" \notin Faults
  BY DEF Exactly
<1> QED BY <1>1, <1>2, <1>3, <1>4, ClipMove

(* While ffmpeg reads for an export, every row it selected and every file
   behind it stays, against pruning, orphan reclamation and other exports
   and sessions, unless the camera is deleted (clip.rs export_clip). *)
THEOREM ExportsStayPinned ==
  ASSUME Exactly, "reindex" \notin Faults
  PROVE  Spec => []ExportPinned
<1>1. PinInv /\ [Next]_vars => PinInv'
  BY ExactStep, GoneStep, RowsPinnedStep DEF PinInv, ExactInv, CountInv
<1>2. Init => PinInv
  <2>1. Init => RowsPinned
    BY DEF Init, RowsPinned, Job
  <2> QED BY <2>1, ExactInit, CalmInit DEF PinInv
<1>3. PinInv => ExportPinned
  BY DEF PinInv, RowsPinned, ExportPinned
<1> QED BY <1>1, <1>2, <1>3, PTL DEF Spec
=============================================================================
