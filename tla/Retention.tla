------------------------------ MODULE Retention -----------------------------
(***************************************************************************)
(* Which footage a retention sweep gives up (services/retention.rs): the   *)
(* per-camera quota, then the size cap, then the free-disk floor, the last *)
(* two taking from the camera furthest over its share.  Every statement    *)
(* and every delete is an await: in between, segments are recorded, put    *)
(* under and out of evidence hold, and read-locked by exports.             *)
(* A segment is one unit of bytes; the lower its number the older it is.   *)
(***************************************************************************)
EXTENDS Integers, FiniteSets, Sequences, SequencesExt

CONSTANTS Cam,
          MaxSeg,      \* segments (bound)
          max_bytes,   \* the size cap
          Disk, floor, \* size of the disk, and the free space to keep
          BATCH,       \* segments a statement selects
          MaxStirs     \* holds, releases and read-locks (bound)

VARIABLES owner,     \* Seg -> its camera
          stored, held, reading, \* segments with a row; under evidence hold; read-locked
          quota,     \* Cam -> storage_quota_bytes; 0 is none
          other,     \* bytes on the disk that are not recordings
          sw,        \* the sweep
          wrong,     \* deletions that broke one of the promises below
          stirs

tierVars == <<owner, stored, held, reading, quota, other, sw, wrong, stirs>>

Seg == 1 .. MaxSeg

NoSweep == [pc |-> "idle", tier |-> "none", scope |-> {}, todo |-> {}, budget |-> 0, remaining |-> 0,
            batch |-> <<>>, victim |-> {}, progressed |-> 0, free |-> 0, released |-> FALSE, stirred |-> FALSE]

Done == [NoSweep EXCEPT !.pc = "done"]

Size(s) == Cardinality(s)
Of(cams) == {s \in stored : owner[s] \in cams}
Protected(cams) == Of(cams) \cap held
Deletable(cams) == Of(cams) \ (held \cup reading)
Free == Disk - other - Size(stored)

\* The oldest n of a set.
Oldest(s, n) == LET q == SetToSortSeq(s, <) IN SubSeq(q, 1, IF Len(q) < n THEN Len(q) ELSE n)

TierInit ==
    /\ owner \in [Seg -> Cam]
    /\ stored = Seg \ {MaxSeg} /\ held \in SUBSET stored /\ reading = {}
    /\ quota \in [Cam -> {0, 2}] /\ other = 0
    /\ sw = NoSweep /\ wrong = {} /\ stirs = 0

-----------------------------------------------------------------------------
(* Whose footage goes.                                                     *)

\* A quota is a weight, and no quota is the weight of one byte.
Weight(c) == IF quota[c] > 0 THEN quota[c] ELSE 1
Holding == {c \in Cam : Of({c}) # {}}
TotalWeight == FoldLeft(LAMBDA n, c : n + Weight(c), 0, SetToSeq(Holding))

\* How far a camera is over its share of the cap, times the total weight.
Over(c) == (Size(Protected({c})) + Size(Deletable({c}))) * TotalWeight - max_bytes * Weight(c)

\* The worst camera that has something to delete, however the others stand.
most_over_share_Deletable ==
    LET over == {c \in Holding : Over(c) > 0 /\ Deletable({c}) # {}}
        worst == {c \in over : \A d \in over : Over(d) <= Over(c)}
    IN IF over = {} THEN {<<"balanced", "none">>} ELSE {<<"evict", c>> : c \in worst}

\* Evict(c), OverButProtected(c) or Balanced; which of two that are equally far over is up to the order
\* of the rows.
most_over_share ==
    LET over == {c \in Holding : Over(c) > 0}
        worst == {c \in over : \A d \in over : Over(d) <= Over(c)}
    IN IF over = {} THEN {<<"balanced", "none">>}
       ELSE {<<IF Deletable({c}) = {} THEN "protected" ELSE "evict", c>> : c \in worst}

-----------------------------------------------------------------------------
(* The sweep.                                                              *)

Set(fields) == sw' = fields @@ sw
NextTier == CASE sw.tier = "quota" -> [pc |-> "cameras"]
              [] sw.tier = "size" -> [pc |-> "floor", tier |-> "floor"]
              [] OTHER -> Done

StartSweep ==
    /\ sw.pc = "idle"
    /\ Set([pc |-> "cameras", tier |-> "quota", todo |-> {c \in Cam : quota[c] > 0}])
    /\ UNCHANGED <<owner, stored, held, reading, quota, other, wrong, stirs>>

\* The protected bytes are summed once; when they alone meet the limit nothing is deleted.
Measure(scope, limit, next) ==
    LET budget == limit - Size(Protected(scope)) IN
    Set(IF budget <= 0 THEN next ELSE [pc |-> "total", scope |-> scope, budget |-> budget] @@ next)

\* The next camera with a quota, or the size cap.
MeasureQuota ==
    /\ sw.pc = "cameras"
    /\ \/ \E c \in sw.todo : Measure({c}, quota[c], [todo |-> sw.todo \ {c}])
       \/ sw.todo = {} /\ Measure(Cam, max_bytes, [tier |-> "size", pc |-> "floor"])
    /\ UNCHANGED <<owner, stored, held, reading, quota, other, wrong, stirs>>

\* Each round sums the deletable bytes afresh.
Total ==
    /\ sw.pc = "total"
    /\ LET n == Size(Deletable(sw.scope)) IN
       Set(IF n <= sw.budget THEN NextTier ELSE [pc |-> "pick", remaining |-> n])
    /\ UNCHANGED <<owner, stored, held, reading, quota, other, wrong, stirs>>

\* The batch, oldest first, and the cameras it may be taken from.
Pick(verdict) ==
    LET from == CASE sw.tier = "quota" -> sw.scope
                  [] verdict[1] = "evict" -> {verdict[2]}
                  [] verdict[1] = "protected" -> {}
                  [] OTHER -> Cam
        batch == Oldest(Deletable(from), BATCH)
    IN Set(IF batch = <<>> THEN NextTier
           ELSE [pc |-> "delete", batch |-> batch, progressed |-> 0,
                 victim |-> {c \in from : sw.tier = "size" /\ Over(c) <= 0}])

PickBatch ==
    /\ sw.pc = "pick"
    /\ \E v \in most_over_share : Pick(v)
    /\ UNCHANGED <<owner, stored, held, reading, quota, other, wrong, stirs>>

\* What a deletion of s says of the promises: the footage of its scope, all of it counted, fitted
\* already; it was taken from a camera within its share.
Judge(s) ==
    (IF sw.tier = "quota" /\ ~ sw.released /\ Size(Of(sw.scope)) <= quota[owner[s]] THEN {"quota"} ELSE {})
    \cup (IF sw.tier = "size" /\ ~ sw.released /\ Size(stored) <= max_bytes THEN {"cap"} ELSE {})
    \cup (IF ~ sw.stirred /\ owner[s] \in sw.victim THEN {"share"} ELSE {})

\* delete_segment_if_unlocked: the row decides, not the selection.
Delete(s) == IF s \in stored \ (held \cup reading) THEN stored' = stored \ {s} ELSE UNCHANGED stored

\* The batch ends the moment the budget is met.
Enough == sw.batch = <<>> \/ sw.remaining <= sw.budget

DeleteNext ==
    /\ sw.pc = "delete" /\ ~ Enough
    /\ LET s == Head(sw.batch)
           done == s \in stored \ (held \cup reading) IN
       /\ Delete(s)
       /\ wrong' = IF done THEN wrong \cup Judge(s) ELSE wrong
       /\ Set([batch |-> Tail(sw.batch), remaining |-> IF done THEN sw.remaining - 1 ELSE sw.remaining,
               progressed |-> IF done THEN sw.progressed + 1 ELSE sw.progressed])
    /\ UNCHANGED <<owner, held, reading, quota, other, stirs>>

\* A round that deleted nothing ends the tier.
EndBatch ==
    /\ sw.pc = "delete" /\ Enough
    /\ Set(IF sw.progressed = 0 THEN NextTier ELSE [pc |-> "total"])
    /\ UNCHANGED <<owner, stored, held, reading, quota, other, wrong, stirs>>

-----------------------------------------------------------------------------
(* The free-disk floor.                                                    *)

\* The disk is measured once; a floor above the disk's size, or no measurement, ends the sweep.
MeasureFree ==
    /\ sw.pc = "floor"
    /\ Set(IF floor < Disk THEN [pc |-> "below", tier |-> "floor", free |-> Free] ELSE Done) \/ Set(Done)
    /\ UNCHANGED <<owner, stored, held, reading, quota, other, wrong, stirs>>

\* The same policy chooses; the whole batch goes.
PickForFloor ==
    /\ sw.pc = "below"
    /\ IF sw.free >= floor THEN Set(Done)
       ELSE \E v \in most_over_share :
              LET from == CASE v[1] = "evict" -> {v[2]} [] v[1] = "protected" -> {} [] OTHER -> Cam
                  batch == Oldest(Deletable(from), BATCH)
              IN Set(IF batch = <<>> THEN Done
                     ELSE [pc |-> "free", batch |-> batch,
                           victim |-> {c \in from : v[1] # "balanced" /\ Over(c) <= 0}])
    /\ UNCHANGED <<owner, stored, held, reading, quota, other, wrong, stirs>>

FreeNext ==
    /\ sw.pc = "free" /\ sw.batch # <<>>
    /\ Delete(Head(sw.batch))
    /\ wrong' = IF stored' # stored THEN wrong \cup Judge(Head(sw.batch)) ELSE wrong
    /\ Set([batch |-> Tail(sw.batch)])
    /\ UNCHANGED <<owner, held, reading, quota, other, stirs>>

\* A batch that did not bring the free space up is the last one.
Recheck ==
    /\ sw.pc = "free" /\ sw.batch = <<>>
    /\ Set(IF Free > sw.free THEN [pc |-> "below", free |-> Free] ELSE Done)
    /\ UNCHANGED <<owner, stored, held, reading, quota, other, wrong, stirs>>

-----------------------------------------------------------------------------
(* Meanwhile.  What happens before the sweep makes another initial state.  *)

Sweeping == sw.pc \notin {"idle", "done"}

Record ==
    /\ Sweeping /\ MaxSeg \notin stored /\ stirs < MaxStirs /\ stirs' = stirs + 1
    /\ stored' = stored \cup {MaxSeg}
    /\ UNCHANGED <<owner, held, reading, quota, other, sw, wrong>>

\* A hold is set or released, an export locks what it reads and unlocks it again.
Stir(s) ==
    /\ Sweeping /\ s \in stored /\ stirs < MaxStirs /\ stirs' = stirs + 1
    /\ \/ held' = held \cup {s} /\ UNCHANGED <<reading, sw>>
       \/ /\ s \in held /\ held' = held \ {s}
          /\ Set([released |-> TRUE, stirred |-> TRUE]) /\ UNCHANGED reading
       \/ /\ reading' = reading \cup {s} /\ Set([stirred |-> TRUE]) /\ UNCHANGED held
       \/ s \in reading /\ reading' = reading \ {s} /\ UNCHANGED <<held, sw>>
    /\ UNCHANGED <<owner, stored, quota, other, wrong>>

\* Something else fills the disk.
Fill ==
    /\ sw.tier = "floor" /\ other < floor /\ other' = other + 1
    /\ UNCHANGED <<owner, stored, held, reading, quota, sw, wrong, stirs>>

TierNext ==
    \/ StartSweep \/ MeasureQuota \/ Total \/ PickBatch \/ DeleteNext \/ EndBatch
    \/ MeasureFree \/ PickForFloor \/ FreeNext \/ Recheck
    \/ Record \/ Fill \/ \E s \in Seg : Stir(s)

-----------------------------------------------------------------------------
(* Properties.                                                             *)

\* Neither the quota nor the size cap ever deletes a segment when all the footage it limits, held and
\* read-locked footage included, already fits: not with a segment held, locked or recorded between the
\* sums, the selection and the delete (sweep: "never over-prune within a batch").  A hold released
\* during the sweep is the exception: its bytes are in the protected sum and in the deletable one.
NoOverPrune == wrong \cap {"quota", "cap"} = {}

\* A camera within its share of the cap loses nothing to the size cap, whatever the others hold, keep
\* under evidence hold or have as quota, nor to the floor while another is over its share
\* (most_over_share), when no hold was released and no export began during the sweep.
WithinShareKept == "share" \notin wrong

-----------------------------------------------------------------------------
(***************************************************************************)
(* The upkeep of the metadata database: rows that are pruned by age, with  *)
(* the files some of them own (the later steps of retention.rs), the cap   *)
(* on the size of the database and the conversion that lets it shrink      *)
(* (db_maintenance.rs), and the scheduled snapshots (snapshot_scheduler).  *)
(* A sweep runs its steps in order; a failing statement ends it, a failing *)
(* unlink does not.  Rows have their instants; a query takes QueryPages    *)
(* pages of the file and every other row one.  Tables that are pruned by   *)
(* age and own nothing are left out.                                       *)
(***************************************************************************)

CONSTANTS Row,           \* identities of embeddings, snapshots and frames
          QueryPages,    \* pages of a queued query
          TTL,           \* the age at which rows are pruned
          PRUNE_BATCH, VACUUM_PAGES,
          max_db,        \* the cap, in pages
          MaxDet,        \* detections at once (bound)
          MaxUpNow,      \* the clock (bound)
          MaxUpErrors    \* crashes, failing statements and failing unlinks (bound)

VARIABLES upNow,
          emb,     \* embeddings: id -> created_at, or Gone
          thumbs,  \* the crop files
          queries, \* number of queued queries
          dets,    \* number of detections
          free,    \* pages of the file that hold nothing
          incremental, \* auto_vacuum = INCREMENTAL
          snaps, pics, \* snapshot rows: id -> taken_at, or Gone; and snapshot files
          outbox, claims, \* frame -> created_at of its outbox row, fanned_at of its claim, or Gone
          camera_shot, \* the scheduler's shot: [id, pc]
          claimed, \* frames whose claim was taken while their outbox row has been there
          sweeper, \* [pc, cut, batch, size, shed]: the sweep, with the cutoff it read when it started
          slips,   \* <<kind, id>> of files whose unlink failed, or that a crash cut off from their row
          arrives, \* what arrives in this behaviour, "frames", "shots" or "rows" (bound): the three do not meet
          upErrs

upVars == <<upNow, emb, thumbs, queries, dets, free, incremental, snaps, pics, outbox, claims, claimed, camera_shot, sweeper, slips, arrives, upErrs>>

Gone == -1
Asleep == [pc |-> "rest", cut |-> 0, batch |-> {}, size |-> 0, shed |-> 0]
NoShot == [id |-> 0, pc |-> "rest"]
UpFails == upErrs < MaxUpErrors /\ upErrs' = upErrs + 1
Live(t) == {r \in Row : t[r] # Gone}
Before(t, cut) == {r \in Live(t) : t[r] < cut}
Old(t) == Before(t, sweeper.cut)

UpInit ==
    /\ upNow = 0 /\ arrives \in {"frames", "shots", "rows"} /\ emb = [r \in Row |-> Gone] /\ thumbs = {} /\ queries = 0 /\ dets = 0 /\ free = 0
    /\ incremental \in BOOLEAN
    /\ snaps = [r \in Row |-> Gone] /\ pics = {} /\ outbox = [r \in Row |-> Gone] /\ claims = [r \in Row |-> Gone]
    /\ claimed = {} /\ camera_shot = NoShot /\ sweeper = Asleep /\ slips = {} /\ upErrs = 0

Tables == <<emb, thumbs, queries, dets, free>>
Shots == <<snaps, pics>>
Frames == <<outbox, claims, claimed>>
Rest == UNCHANGED <<upNow, arrives, incremental, camera_shot>>

Used == queries * QueryPages + dets + Cardinality(Live(emb))
db_size_bytes == Used + free
\* New rows take free pages before the file grows.
Grow(n) == free' = IF free > n THEN free - n ELSE 0

-----------------------------------------------------------------------------
(* What the rest of the system adds.                                       *)

Insert ==
    /\ arrives = "rows"
    /\ \/ \E r \in Row \ (Live(emb) \cup thumbs) :
             /\ emb' = [emb EXCEPT ![r] = upNow] /\ thumbs' = thumbs \cup {r} /\ Grow(1) /\ UNCHANGED <<queries, dets>>
       \/ queries = 0 /\ queries' = 1 /\ Grow(QueryPages) /\ UNCHANGED <<emb, thumbs, dets>>
       \/ dets < MaxDet /\ dets' = dets + 1 /\ Grow(1) /\ UNCHANGED <<emb, thumbs, queries>>
    /\ UNCHANGED <<upNow, arrives, incremental, Shots, Frames, camera_shot, sweeper, slips, upErrs>>

\* A batch is put in the outbox, and its consumer claims it once.
Ingest ==
    /\ arrives = "frames"
    /\ \E r \in Row :
          \/ /\ outbox[r] = Gone /\ claims[r] = Gone
             /\ outbox' = [outbox EXCEPT ![r] = upNow] /\ UNCHANGED <<claims, claimed>>
          \/ /\ outbox[r] # Gone /\ claims[r] = Gone
             /\ claims' = [claims EXCEPT ![r] = upNow] /\ claimed' = claimed \cup {r} /\ UNCHANGED outbox
    /\ UNCHANGED <<upNow, arrives, incremental, Tables, Shots, camera_shot, sweeper, slips, upErrs>>

Tick ==
    /\ upNow < MaxUpNow /\ upNow' = upNow + 1
    /\ UNCHANGED <<arrives, incremental, Tables, Shots, Frames, camera_shot, sweeper, slips, upErrs>>

\* A schedule is due: the shot is written to a file, and then gets its row.
fire ==
    /\ arrives = "shots"
    /\ \/ /\ camera_shot.pc = "rest"
          /\ \E r \in Row \ (Live(snaps) \cup pics) : camera_shot' = [id |-> r, pc |-> "row"] /\ pics' = pics \cup {r}
          /\ UNCHANGED <<snaps, slips, upErrs>>
       \/ /\ camera_shot.pc = "row" /\ camera_shot' = NoShot
          /\ \/ snaps' = [snaps EXCEPT ![camera_shot.id] = upNow] /\ UNCHANGED <<slips, upErrs>>
             \/ UpFails /\ slips' = slips \cup {<<"pic", camera_shot.id>>} /\ UNCHANGED snaps
          /\ UNCHANGED pics
    /\ UNCHANGED <<upNow, arrives, incremental, Tables, Frames, sweeper>>

-----------------------------------------------------------------------------
(* A sweep.                                                                *)

Starts == sweeper.pc = "rest" /\ sweeper' = [Asleep EXCEPT !.pc = "outbox", !.cut = upNow - TTL] /\ UNCHANGED Frames
Then(pc) == sweeper' = [sweeper EXCEPT !.pc = pc]
Aged(t) == [r \in Row |-> IF r \in Old(t) THEN Gone ELSE t[r]]
PruneOutbox(next) == outbox' = Aged(outbox) /\ claimed' = claimed \ Old(outbox) /\ UNCHANGED claims /\ Then(next)
PruneClaims(next) == claims' = Aged(claims) /\ UNCHANGED <<outbox, claimed>> /\ Then(next)

\* Old outbox rows go first, and then old claims.
PruneFanout ==
    /\ \/ Starts
       \/ sweeper.pc = "outbox" /\ PruneOutbox("claims")
       \/ sweeper.pc = "claims" /\ PruneClaims("emb")
    /\ Rest /\ UNCHANGED <<Tables, Shots, slips, upErrs>>

SelectAged ==
    /\ sweeper.pc = "emb"
    /\ sweeper' = IF Old(emb) = {} THEN [sweeper EXCEPT !.pc = "snap"] ELSE [sweeper EXCEPT !.pc = "aged", !.batch = Old(emb)]
    /\ Rest /\ UNCHANGED <<Tables, Shots, Frames, slips, upErrs>>

Files ==
    /\ \/ thumbs' = thumbs \ sweeper.batch /\ UNCHANGED <<slips, upErrs>>
       \/ \E r \in sweeper.batch \cap thumbs :
             UpFails /\ thumbs' = (thumbs \ sweeper.batch) \cup {r} /\ slips' = slips \cup {<<"thumb", r>>}
    /\ UNCHANGED <<emb, free>>

Rows ==
    /\ emb' = [r \in Row |-> IF r \in sweeper.batch THEN Gone ELSE emb[r]]
    /\ free' = free + Cardinality(sweeper.batch \cap Live(emb))
    /\ UNCHANGED <<thumbs, slips, upErrs>>

Batched == sweeper.pc \in {"aged", "oldest", "aged_2", "oldest_2"}
BatchDone ==
    sweeper' = CASE sweeper.pc = "aged" -> [sweeper EXCEPT !.pc = "aged_2"]
                 [] sweeper.pc = "oldest" -> [sweeper EXCEPT !.pc = "oldest_2"]
                 [] sweeper.pc = "aged_2" -> [sweeper EXCEPT !.pc = "snap", !.batch = {}]
                 [] OTHER -> [sweeper EXCEPT !.pc = "vacuum", !.batch = {}, !.shed = @ + Cardinality(sweeper.batch)]

\* The files of a batch are unlinked and then its rows go, by their ids, also if an unlink failed.
DropBatch ==
    /\ Batched /\ BatchDone
    /\ IF sweeper.pc \in {"aged", "oldest"} THEN Files ELSE Rows
    /\ Rest /\ UNCHANGED <<queries, dets, Shots, Frames>>

\* A snapshot's row goes once its file is gone; otherwise it stays for the next sweep.
PruneSnapshots ==
    /\ sweeper.pc = "snap"
    /\ IF Before(snaps, upNow - TTL) = {} THEN Then("cap") /\ UNCHANGED <<Shots, upErrs>>
       ELSE \E r \in Before(snaps, upNow - TTL) :
               \/ pics' = pics \ {r} /\ snaps' = [snaps EXCEPT ![r] = Gone] /\ UNCHANGED <<sweeper, upErrs>>
               \/ UpFails /\ Then("cap") /\ UNCHANGED Shots
    /\ Rest /\ UNCHANGED <<Tables, Frames, slips>>

\* An incremental file gives back at most VACUUM_PAGES free pages at a time, any other none.
incremental_vacuum == IF ~ incremental THEN free ELSE IF free > VACUUM_PAGES THEN free - VACUUM_PAGES ELSE 0
Vacuumed == Used + incremental_vacuum

Least(n) == IF PRUNE_BATCH < n THEN PRUNE_BATCH ELSE n

\* The cap is enforced after the rows that are too old: what is free goes first.
enforce_db_cap ==
    /\ sweeper.pc = "cap"
    /\ free' = incremental_vacuum
    /\ sweeper' = IF Vacuumed > max_db THEN [sweeper EXCEPT !.pc = "shed", !.size = Vacuumed] ELSE Asleep
    /\ Rest /\ UNCHANGED <<emb, thumbs, queries, dets, Shots, Frames, slips, upErrs>>

prune_oldest_embed_queries ==
    /\ queries > 0 /\ queries' = queries - Least(queries) /\ free' = free + Least(queries) * QueryPages
    /\ sweeper' = [sweeper EXCEPT !.pc = "vacuum", !.shed = @ + Least(queries)] /\ UNCHANGED dets

prune_oldest_embeddings ==
    /\ queries = 0 /\ Live(emb) # {} /\ UNCHANGED <<queries, dets, free>>
    /\ \E b \in SUBSET Live(emb) :
          /\ Cardinality(b) = Least(Cardinality(Live(emb)))
          /\ \A r \in b, q \in Live(emb) \ b : emb[r] <= emb[q]
          /\ sweeper' = [sweeper EXCEPT !.pc = "oldest", !.batch = b]

prune_oldest_detections ==
    /\ queries = 0 /\ Live(emb) = {} /\ dets > 0 /\ dets' = dets - Least(dets) /\ free' = free + Least(dets)
    /\ sweeper' = [sweeper EXCEPT !.pc = "vacuum", !.shed = @ + Least(dets)] /\ UNCHANGED queries

NothingLeft == queries = 0 /\ Live(emb) = {} /\ dets = 0 /\ sweeper' = Asleep /\ UNCHANGED <<queries, dets, free>>

Shed ==
    /\ sweeper.pc = "shed"
    /\ prune_oldest_embed_queries \/ prune_oldest_embeddings \/ prune_oldest_detections \/ NothingLeft
    /\ Rest /\ UNCHANGED <<emb, thumbs, Shots, Frames, slips, upErrs>>

\* It goes on while the file is too large and has become smaller.
Progress == Vacuumed > max_db /\ Vacuumed < sweeper.size

Vacuum ==
    /\ sweeper.pc = "vacuum"
    /\ free' = incremental_vacuum
    /\ sweeper' = IF Progress THEN [sweeper EXCEPT !.pc = "shed", !.size = Vacuumed] ELSE Asleep
    /\ Rest /\ UNCHANGED <<emb, thumbs, queries, dets, Shots, Frames, slips, upErrs>>

\* A statement fails and ends the sweep, or the process dies, and with it a shot without a row.
Cut ==
    /\ UpFails /\ sweeper' = Asleep
    /\ \/ sweeper.pc # "rest" /\ UNCHANGED <<camera_shot, slips>>
       \/ /\ camera_shot' = NoShot
          /\ slips' = IF camera_shot.pc = "row" THEN slips \cup {<<"pic", camera_shot.id>>} ELSE slips
    /\ UNCHANGED <<upNow, arrives, incremental, Tables, Shots, Frames>>

\* The disk must hold the database again, and a tenth more.
check_vacuum_disk(size, room) == 10 * room >= 11 * size

\* The background conversion rewrites the file, if there is room.
ensure_incremental_autovacuum ==
    /\ ~ incremental
    /\ \E room \in {0, 2 * max_db} : check_vacuum_disk(db_size_bytes, room) /\ incremental' = TRUE /\ free' = 0
    /\ UNCHANGED <<upNow, arrives, emb, thumbs, queries, dets, Shots, Frames, camera_shot, sweeper, slips, upErrs>>

UpNext ==
    \/ Insert \/ Ingest \/ Tick \/ fire \/ Cut \/ ensure_incremental_autovacuum
    \/ PruneFanout \/ SelectAged \/ DropBatch \/ PruneSnapshots \/ enforce_db_cap \/ Shed \/ Vacuum

-----------------------------------------------------------------------------
(* What must hold.                                                         *)

\* db_maintenance.rs:70-72, "a row deleted with its file still on disk would leak that file forever":
\* a crop file always has its row, wherever a sweep is cut off, unless its unlink failed.
ThumbsAccounted == \A r \in thumbs : emb[r] # Gone \/ <<"thumb", r>> \in slips

\* retention.rs:60-62, the row is removed only when the file is actually gone: a snapshot's file has
\* its row, even if its unlink fails, unless the shot was cut off between the two.
PicsAccounted ==
    \A r \in pics : snaps[r] # Gone \/ <<"pic", r>> \in slips \/ camera_shot = [id |-> r, pc |-> "row"]

\* db_maintenance.rs:150, "the no-runaway guard": while the file cannot shrink, one pass sheds one batch,
\* whatever it is over the cap by.
NoRunaway == ~ incremental => sweeper.shed <= PRUNE_BATCH

\* retention.rs:836-839, "any claim older than that can never be re-driven": a batch that was claimed is
\* in the outbox only together with its claim, so that a re-drive finds the claim.
ClaimOutlives == \A r \in claimed : outbox[r] # Gone => claims[r] # Gone
=============================================================================
