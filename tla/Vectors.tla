------------------------------ MODULE Vectors ------------------------------
(***************************************************************************)
(* The crop embeddings (services/embeddings.rs): how a batch of them is    *)
(* stored with the crops it shows, how a semantic search ranks them        *)
(* (heldar-search semantic.rs), and when two appearances may be called     *)
(* alike.  A vector is the angle it points at, 0 the one without a         *)
(* direction.  The rows are numbered as they are inserted.                 *)
(***************************************************************************)
EXTENDS Integers, FiniteSets

CONSTANTS VecCam, VecFrame, VecCaller,
          MaxStored,    \* rows inserted (bound)
          MaxVec,       \* rows searched (bound)
          MaxAngle, VecModel,
          SCAN_CAP, MAX_K,
          APPEARANCE_MIN_VECTORS, APPEARANCE_MAX_VECTORS,
          MaxVecErrs    \* failures, crashes and sheds (bound)

VARIABLES vecPart,  \* what the behaviour is about: "crops", "search" or "pair"
          rows,     \* the table; a row that was deleted, or refused as known, stays with live = FALSE
          crops,    \* rows whose crop is in the snapshots directory
          owners,   \* media_artifacts: [id, cam]
          calls,    \* VecCaller -> [pc, cam, todo, cur]: an ingest request
          pruner,   \* [pc, batch]: a sweep that deletes rows with their crops
          zone,     \* the version of the zone's polygon
          query,    \* the semantic search
          found,    \* its answer: {} or {[k, poly, model, hits, truncated]}
          pair,     \* the comparison of two appearances
          vecErrs

cropVars == <<crops, owners, calls, pruner>>
queryVars == <<zone, query, found>>
vecVars == <<vecPart, rows, cropVars, queryVars, pair, vecErrs>>

NoFrame == "none"
VecTrack == 1..2
NoCall == [pc |-> "idle", cam |-> "none", todo |-> {}, cur |-> 0]
NoPrune == [pc |-> "idle", batch |-> {}]
NoQuery == [pc |-> "idle", k |-> 0, poly |-> 0, model |-> "any", left |-> {}, n |-> 0, heap |-> {}, truncated |-> FALSE]
NoPair == [pc |-> "idle", a |-> {}, b |-> {}, score |-> 0]

Live == {r \in rows : r.live}
LiveIds == {r.id : r \in Live}
VecFails == vecErrs < MaxVecErrs /\ vecErrs' = vecErrs + 1
VecFine == UNCHANGED vecErrs

\* The rows of a search differ in what it asks about, those of a comparison in their side: odd and even.
VecInit ==
    /\ \/ vecPart = "crops" /\ rows = {}
       \/ /\ vecPart = "search"
          /\ \E f \in [1..MaxVec -> [angle : 0..MaxAngle, model : VecModel, inside : {{}, {1}}]] :
                rows = {[id |-> i, angle |-> f[i].angle, model |-> f[i].model, inside |-> f[i].inside, live |-> TRUE] : i \in 1..MaxVec}
       \/ /\ vecPart = "pair"
          /\ \E f \in [1..MaxVec + 1 -> [angle : 1..MaxAngle, model : VecModel]] :
                rows = {[id |-> i, angle |-> f[i].angle, model |-> f[i].model, live |-> TRUE] : i \in 1..MaxVec + 1}
    /\ crops = {} /\ owners = {} /\ calls = [w \in VecCaller |-> NoCall] /\ pruner = NoPrune
    /\ zone = 1
    /\ query = NoQuery /\ found = {} /\ pair = NoPair /\ vecErrs = 0

-----------------------------------------------------------------------------
(* Storing a batch.                                                        *)

\* The partial unique index: the camera, frame and track of a row, where they are known.
Known(cam, frame, t) == frame # NoFrame /\ \E r \in Live : r.cam = cam /\ r.frame = frame /\ r.track = t

\* Every crop of the batch, new or not.
Inserted_All(cam, frame, tracks) == tracks

\* The tracks of a batch whose rows are new: the others are left to the rows that are there.
Inserted(cam, frame, tracks) == {t \in tracks : ~ Known(cam, frame, t)}

\* The rows go in together, with crops or without; the crops wait for the commit.  A camera that is not there, or a bad item,
\* and nothing was written.
ingest_batch(w) ==
    /\ calls[w].pc = "idle"
    /\ \E cam \in VecCam, frame \in VecFrame \cup {NoFrame}, tracks \in SUBSET VecTrack, shown \in BOOLEAN :
          LET last == Cardinality(rows)
              ids == [t \in tracks |-> last + Cardinality({u \in tracks : u <= t})]
              new == {[id |-> ids[t], cam |-> cam, frame |-> frame, track |-> t, live |-> ~ Known(cam, frame, t)] : t \in tracks}
          IN /\ tracks # {} /\ last + Cardinality(tracks) <= MaxStored
             /\ rows' = rows \cup new
             /\ calls' = [calls EXCEPT ![w] = [pc |-> "thumbs", cam |-> cam, cur |-> 0,
                                               todo |-> IF shown THEN {ids[t] : t \in Inserted(cam, frame, tracks)} ELSE {}]]
    /\ UNCHANGED <<crops, owners, pruner>> /\ VecFine

\* The next crop is written; one that cannot be is left out, all of them if there is no directory.
WriteThumb(w) ==
    LET c == calls[w]
    IN /\ c.pc = "thumbs"
       /\ \/ /\ c.todo = {} /\ calls' = [calls EXCEPT ![w] = NoCall] /\ UNCHANGED crops /\ VecFine
          \/ \E i \in c.todo :
                \/ /\ crops' = crops \cup {i} /\ VecFine
                   /\ calls' = [calls EXCEPT ![w] = [c EXCEPT !.pc = "attribute", !.todo = @ \ {i}, !.cur = i]]
                \/ \E lost \in {{i}, c.todo} :
                      VecFails /\ calls' = [calls EXCEPT ![w].todo = @ \ lost] /\ UNCHANGED crops
       /\ UNCHANGED <<rows, owners, pruner>>

\* media_scope::attribute: a row that cannot be written is logged and that is all.
attribute(w) ==
    LET c == calls[w]
    IN /\ c.pc = "attribute"
       /\ \/ owners' = owners \cup {[id |-> c.cur, cam |-> c.cam]} /\ VecFine
          \/ UNCHANGED owners /\ VecFails
       /\ calls' = [calls EXCEPT ![w].pc = "thumbs", ![w].cur = 0]
       /\ UNCHANGED <<rows, crops, pruner>>

\* media_scope::owners: who is said to own a crop; nobody if there is no row, and nobody may see it then.
OwnersOf(i) == {o.cam : o \in {p \in owners : p.id = i}}

-----------------------------------------------------------------------------
(* Giving them up.                                                         *)

Young == UNION {calls[w].todo \cup {calls[w].cur} : w \in VecCaller}

\* Rows past their time are picked by age; a database over its cap sheds the oldest whatever their age.
SelectRows ==
    /\ pruner.pc = "idle"
    /\ \E n \in LiveIds :
          LET batch == {i \in LiveIds : i <= n}
          IN /\ pruner' = [pc |-> "unlink", batch |-> batch]
             /\ IF batch \cap Young = {} THEN VecFine ELSE VecFails
    /\ UNCHANGED <<rows, crops, owners, calls>>

\* Their crops go first, as far as they are there and can be removed ...
UnlinkCrops ==
    /\ pruner.pc = "unlink" /\ pruner' = [pruner EXCEPT !.pc = "delete"]
    /\ \/ crops' = crops \ pruner.batch /\ VecFine
       \/ \E i \in crops \cap pruner.batch : crops' = (crops \ pruner.batch) \cup {i} /\ VecFails
    /\ UNCHANGED <<rows, owners, calls>>

\* ... then the rows, if the statement does not fail.
DeleteRows ==
    /\ pruner.pc = "delete" /\ pruner' = NoPrune
    /\ \/ rows' = {[r EXCEPT !.live = r.live /\ r.id \notin pruner.batch] : r \in rows} /\ VecFine
       \/ UNCHANGED rows /\ VecFails
    /\ UNCHANGED <<crops, owners, calls>>

\* media_scope::sweep_orphans: an attribution whose crop is gone.
sweep_orphans ==
    /\ \E o \in owners : o.id \notin crops /\ owners' = {p \in owners : p.id # o.id}
    /\ VecFine /\ UNCHANGED <<rows, crops, calls, pruner>>

\* The process ends between two steps, and starts again.
Crash ==
    /\ VecFails /\ calls' = [w \in VecCaller |-> NoCall] /\ pruner' = NoPrune
    /\ UNCHANGED <<rows, crops, owners>>

Crops ==
    \/ \E w \in VecCaller : ingest_batch(w) \/ WriteThumb(w) \/ attribute(w)
    \/ SelectRows \/ UnlinkCrops \/ DeleteRows \/ sweep_orphans \/ Crash

-----------------------------------------------------------------------------
(* Searching.                                                              *)

\* The similarity of two vectors; 0 where one has no direction.
cosine(x, y) == IF x = 0 \/ y = 0 THEN 0 ELSE 1 + MaxAngle - (IF x > y THEN x - y ELSE y - x)

\* What is asked for points at 1.
Score(r) == cosine(1, r.angle)

\* A search is accepted; its zone, if it names one, is read before the query is embedded.
search_semantic ==
    /\ query.pc = "idle" /\ found = {}
    /\ \E k \in 1..MAX_K, zoned \in BOOLEAN :
          query' = [NoQuery EXCEPT !.pc = "embed", !.k = k, !.poly = IF zoned THEN zone ELSE 0]
    /\ UNCHANGED <<rows, zone, found>>

\* The zone is drawn anew, or deleted, while the query waits for a worker.
update_zone == query.pc = "embed" /\ zone = 1 /\ zone' = 2 /\ UNCHANGED <<rows, query, found>>

\* A worker embedded it, and may have said with which model; or none did in time.
search_similar ==
    /\ query.pc = "embed"
    /\ \/ query' = NoQuery
       \/ \E model \in VecModel \cup {"any"} :
             query' = [query EXCEPT !.pc = "scan", !.model = model, !.left = {r \in Live : model \in {r.model, "any"}}]
    /\ UNCHANGED <<rows, zone, found>>

\* A row of the scan that is a candidate: it has a similarity, and lies in the zone.
Candidate(q, r) == Score(r) # 0 /\ (q.poly # 0 => q.poly \in r.inside)

\* The k best of a set that may hold one more; which of two equals goes is up to the heap.
Trimmed(h, k) ==
    IF Cardinality(h) <= k THEN {h}
    ELSE {h \ {r} : r \in {x \in h : \A y \in h : Score(x) <= Score(y)}}

\* Newest first, and SCAN_CAP rows at the most.
ScanRow ==
    /\ query.pc = "scan" /\ query.left # {}
    /\ IF query.n >= SCAN_CAP THEN query' = [query EXCEPT !.left = {}, !.truncated = TRUE]
       ELSE \E r \in query.left :
               /\ \A x \in query.left : x.id <= r.id
               /\ \E h \in Trimmed(query.heap \cup (IF Candidate(query, r) THEN {r} ELSE {}), query.k) :
                     query' = [query EXCEPT !.left = @ \ {r}, !.n = @ + 1, !.heap = h]
    /\ UNCHANGED <<rows, zone, found>>

\* The proof says the ranking is complete unless the scan was cut.
semantic_proof ==
    /\ query.pc = "scan" /\ query.left = {} /\ query' = NoQuery
    /\ found' = {[k |-> query.k, poly |-> query.poly, model |-> query.model, hits |-> query.heap, truncated |-> query.truncated]}
    /\ UNCHANGED <<rows, zone>>

Searches == search_semantic \/ update_zone \/ search_similar \/ ScanRow \/ semantic_proof

-----------------------------------------------------------------------------
(* Comparing two appearances.                                              *)

\* The newest of a side's rows, as many as are fetched.
vectors_near(side) ==
    LET mine == {r \in Live : r.id % 2 = side}
    IN {r \in mine : Cardinality({x \in mine : x.id > r.id}) < APPEARANCE_MAX_VECTORS}

OfModel(s, m) == {r \in s : r.model = m}

\* A model counts if each side has the minimum in it.
SharedModels(a, b) ==
    {m \in VecModel : Cardinality(OfModel(a, m)) >= APPEARANCE_MIN_VECTORS /\ Cardinality(OfModel(b, m)) >= APPEARANCE_MIN_VECTORS}

\* The best of the pairs that may be compared; 0 is no score, which is not a low one.
Best(a, b) ==
    LET scores == {cosine(p[1].angle, p[2].angle) : p \in {q \in a \X b : q[1].model = q[2].model /\ q[1].model \in SharedModels(a, b)}}
    IN IF scores = {} THEN 0 ELSE CHOOSE s \in scores : \A t \in scores : t <= s

\* One side is read and, if it has enough, the other.
NearFirst ==
    /\ pair.pc = "idle"
    /\ LET a == vectors_near(1)
       IN pair' = IF Cardinality(a) < APPEARANCE_MIN_VECTORS THEN [NoPair EXCEPT !.pc = "done"] ELSE [NoPair EXCEPT !.pc = "second", !.a = a]
    /\ UNCHANGED rows

appearance_similarity ==
    /\ pair.pc = "second"
    /\ LET b == vectors_near(0)
       IN pair' = [pair EXCEPT !.pc = "done", !.b = b, !.score = IF Cardinality(b) < APPEARANCE_MIN_VECTORS THEN 0 ELSE Best(pair.a, b)]
    /\ UNCHANGED rows

\* Retention takes the oldest row meanwhile.
OldestGoes ==
    /\ \E r \in Live : (\A x \in Live : r.id <= x.id) /\ rows' = (rows \ {r}) \cup {[r EXCEPT !.live = FALSE]}
    /\ UNCHANGED pair

Comparison == NearFirst \/ appearance_similarity \/ OldestGoes

VecNext ==
    /\ UNCHANGED vecPart
    /\ \/ vecPart = "crops" /\ Crops /\ UNCHANGED <<queryVars, pair>>
       \/ vecPart = "search" /\ Searches /\ UNCHANGED <<cropVars, pair, vecErrs>>
       \/ vecPart = "pair" /\ Comparison /\ UNCHANGED <<cropVars, queryVars, vecErrs>>

-----------------------------------------------------------------------------
(* Properties.                                                             *)

\* A crop is shown to whoever may see the camera it was cut from and to nobody else; a failure or a
\* crash hides it rather than showing it to all.  A redelivered batch brings no second crop of a row,
\* and no crop stays that no row tells of, unless rows were shed or an unlink failed
\* (ingest_batch, media_scope.rs attribute, prune_oldest_embeddings).
CropsScoped ==
    vecPart = "crops" =>
    /\ \A i \in crops : OwnersOf(i) \subseteq {r.cam : r \in {x \in rows : x.id = i}}
    /\ vecErrs = 0 => /\ crops \subseteq LiveIds
                      /\ \A i \in crops : OwnersOf(i) # {} \/ i \in Young

\* An answer that is called complete has the k best of the rows that fit, by the polygon its zone had
\* when the search was accepted; one that is cut has the best of the newest (search_similar).
BestRanked ==
    \A f \in found :
        LET seen == {r \in Live : f.model \in {r.model, "any"}}
            pool == IF f.truncated THEN {r \in seen : Cardinality({x \in seen : x.id > r.id}) < SCAN_CAP} ELSE seen
            fit == {r \in pool : Candidate(f, r)}
        IN /\ f.hits \subseteq fit
           /\ Cardinality(f.hits) = (IF Cardinality(fit) < f.k THEN Cardinality(fit) ELSE f.k)
           /\ \A h \in f.hits, r \in fit \ f.hits : Score(r) <= Score(h)

\* Two appearances are never called alike on the strength of one crop, or of crops of two models
\* (appearance_similarity: "one lucky crop is not evidence").
NotOneCrop ==
    pair.score # 0 =>
        \E m \in VecModel : \A s \in {pair.a, pair.b} : Cardinality({r \in s : r.model = m}) >= APPEARANCE_MIN_VECTORS

\* No crop is ever left that no row tells of (db_maintenance.rs: "a row deleted with its file still on
\* disk would leak that file forever").
NoCropLeaks == crops \subseteq LiveIds
=============================================================================
