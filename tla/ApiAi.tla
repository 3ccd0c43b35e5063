------------------------------- MODULE ApiAi -------------------------------
(***************************************************************************)
(* The routes perception workers use (routes/ai.rs): tasks, leases,        *)
(* frames, detections and embeddings.  A task refers to its type and its   *)
(* payload is 0 while it is enabled; a lease has its task's id and refers  *)
(* to the credential that holds it.  Leases are modelled in full in        *)
(* AiLeases: here one is a row that may lapse.                             *)
(***************************************************************************)
EXTENDS Api

CONSTANTS TaskType,     \* task types
          Provenance    \* HELDAR_INGEST_PROVENANCE: "off", "warn" or "enforce"

Enabled(d, c) == \E r \in Get(d, "cameras", c) : r.v = 0
Runnable(d, r) == r.v = 0 /\ \A c \in r.cams : Enabled(d, c)

list_camera_tasks(d, p, c) ==
    NeedCap(p, "AiTasks", camera_for(d, p, c, Give(OfCamera(d, "ai_tasks", c))))

\* A task of that camera and type is returned as it is: looked up first, inserted later.
create_task(d, p, c, ty, i, ok) ==
    LET same == {r \in OfCamera(d, "ai_tasks", c) : r.ref = ty} IN
    NeedCap(p, "RegistryManage",
    camera_for(d, p, c,
    Valid(ok,
    IF same # {} THEN Give(same) ELSE Create(Row("ai_tasks", i, {c}, ty, 0)))))

update_task(d, p, i, ok) ==
    NeedCap(p, "RegistryManage",
    resource_camera(d, p, "ai_tasks", i, Valid(ok, Patch(d, "ai_tasks", i))))

delete_task(d, p, i) ==
    NeedCap(p, "RegistryManage", resource_camera(d, p, "ai_tasks", i, Erase(d, "ai_tasks", i)))

\* A worker id is registered to the first credential that polls with it (ref); another one is
\* refused under enforcement.  The share of the tasks the worker is given is a function of the
\* listed tasks and of this credential's workers.
list_all_tasks(d, p, w) ==
    LET mine == \A r \in Get(d, "workers", w) : r.ref = p.id
        shown == {r \in Held(d, "ai_tasks", p) : Runnable(d, r)} IN
    NeedCap(p, "AiTasks",
    CASE w = None -> Give(shown)
      [] w # None /\ mine -> Do(200, shown, <<Put(Row("workers", w, {}, p.id, 0))>>)
      [] w # None /\ ~mine -> IF Tier = "enforce" THEN Refuse(409) ELSE Give(shown))

\* ai_leases::acquire: the runnable tasks in scope that nobody else holds.
acquire_lease(d, p, ok) ==
    LET free == {r \in Held(d, "ai_tasks", p) :
                    Runnable(d, r) /\ \A l \in Get(d, "ai_leases", r.id) : l.ref = p.id} IN
    NeedCap(p, "AiTasks",
    Valid(ok, Do(200, free, Each(free, LAMBDA r : Put(Row("ai_leases", r.id, r.cams, p.id, 0))))))

\* Only the holder's lease is released; the answer says how many were.
release_lease(d, p, i) ==
    LET mine == {l \in Get(d, "ai_leases", i) : l.ref = p.id} IN
    NeedCap(p, "AiTasks", Do(200, mine, Each(mine, Del)))

\* The samplers of the cameras in scope that have a runnable task.
sampler_status(d, p) ==
    NeedCap(p, "AiTasks", Give({r \in Held(d, "ai_tasks", p) : Runnable(d, r)}))

is_live(d, p, i) == {l \in Get(d, "ai_leases", i) : l.ref = p.id}

\* sampled: a frame is on disk.  The body's lease rows stand for the ticket: one is minted only on
\* a live lease of this credential, for this camera.
latest_frame(d, p, c, i, sampled, ok) ==
    NeedCap(p, "AiFrames",
    camera_scope_check(p, c,
    Valid(ok,
    IF sampled THEN Give({l \in is_live(d, p, i) : l.cams = {c}}) ELSE Refuse(404))))

list_detections(d, p, c, ok) ==
    NeedCap(p, "EventsRead", camera_for(d, p, c, Valid(ok, Give(OfCamera(d, "detections", c)))))

\* The camera and the type a batch counts for: the lease's, when it comes with a ticket (of task i,
\* genuine or not), else the body's if the tier still accepts it.  unleased is the warning event.
resolve_binding(d, p, i, genuine, c, ty, Then(_, _)) ==
    LET leases == is_live(d, p, i)
        lease == CHOOSE l \in leases : TRUE
        tasks == {r \in Get(d, "ai_tasks", i) : Runnable(d, r)}
        cam == CHOOSE x \in lease.cams : TRUE
        types == {r.ref : r \in Get(d, "ai_tasks", i)} IN
    CASE i = None /\ Provenance = "enforce" -> Refuse(401)
      [] i = None /\ Provenance # "enforce" ->
           camera_scope_check(p, c,
           Then(c, IF Provenance = "warn" THEN <<Put(Row("events", c, {c}, "unleased", 0))>> ELSE <<>>))
      [] i # None ->
           IF leases = {} \/ ~genuine THEN Refuse(401)
           ELSE IF tasks = {} THEN Refuse(403)
           ELSE camera_scope_check(p, cam,
                IF c # cam \/ ty \notin types \cup {None} THEN Refuse(409) ELSE Then(cam, <<>>))

\* perception_ingest::ingest_batch is modelled in Fanout: here it is the detection it stores.  The
\* warning was logged before the camera was looked up.
ingest(d, p, i, genuine, c, ty, n, ok) ==
    NeedCap(p, "AiIngest",
    resolve_binding(d, p, i, genuine, c, ty, LAMBDA cam, warned :
    LET new == Row("detections", n, {cam}, None, 0)
        fail(code) == Do(code, {}, warned) IN
    IF ~ Exists(d, "cameras", cam) THEN fail(404)
    ELSE IF ~ ok THEN fail(400)
    ELSE Do(200, {new}, warned \o <<Ins(new)>>)))

\* embeddings::ingest_batch: the vectors in one transaction, then the thumbnail and its attribution.
ingest_embeddings(d, p, i, genuine, c, n, thumb, ok) ==
    NeedCap(p, "AiIngest",
    resolve_binding(d, p, i, genuine, c, None, LAMBDA cam, warned :
    LET new == Row("embeddings", n, {cam}, None, 0)
        file == IF thumb THEN <<Ins(Row("media_artifacts", n, {cam}, "thumbs", 0))>> ELSE <<>>
        fail(code) == Do(code, {}, warned) IN
    IF ~ Exists(d, "cameras", cam) THEN fail(404)
    ELSE IF ~ ok THEN fail(400)
    ELSE Do(200, {new}, warned \o <<Ins(new)>> \o file)))

\* A lease, or the registration of a worker that has not polled, runs out.
LeaseLapses ==
    \E l \in Rows(db, "ai_leases") \cup Rows(db, "workers") :
        db' = db \ {l} /\ UNCHANGED <<pend, blame>>

-----------------------------------------------------------------------------
(* Requests.                                                               *)

TaskRequests(p) ==
    \/ \E c \in Camera :
        \/ Request("list_camera_tasks", p, LAMBDA d, q : list_camera_tasks(d, q, c))
        \/ \E i \in Unused, ty \in TaskType, ok \in BOOLEAN :
              Request("create_task", p, LAMBDA d, q : create_task(d, q, c, ty, i, ok))
    \/ \E i \in Id, ok \in BOOLEAN :
        \/ Request("update_task", p, LAMBDA d, q : update_task(d, q, i, ok))
        \/ Request("delete_task", p, LAMBDA d, q : delete_task(d, q, i))
        \/ Request("release_lease", p, LAMBDA d, q : release_lease(d, q, i))
    \/ \E w \in {None, "w"} : Request("list_all_tasks", p, LAMBDA d, q : list_all_tasks(d, q, w))
    \/ \E ok \in BOOLEAN : Request("acquire_lease", p, LAMBDA d, q : acquire_lease(d, q, ok))
    \/ Request("sampler_status", p, LAMBDA d, q : sampler_status(d, q))

\* A worker leases a task, which may be disabled under it.
LeaseRequests(p) ==
    \/ \E ok \in BOOLEAN : Request("acquire_lease", p, LAMBDA d, q : acquire_lease(d, q, ok))
    \/ \E i \in Id : Request("update_task", p, LAMBDA d, q : update_task(d, q, i, TRUE))

IngestRequests(p) ==
    \/ \E c \in Camera, ok \in BOOLEAN :
        \/ Request("list_detections", p, LAMBDA d, q : list_detections(d, q, c, ok))
        \/ \E i \in Id \cup {None}, genuine \in BOOLEAN, ty \in TaskType, n \in Unused :
              Request("ingest", p, LAMBDA d, q : ingest(d, q, i, genuine, c, ty, n, ok))
    \/ LeaseRequests(p)

EmbedRequests(p) ==
    \/ \E c \in Camera, ok \in BOOLEAN, i \in Id \cup {None}, flag \in BOOLEAN :
        \/ Request("latest_frame", p, LAMBDA d, q : latest_frame(d, q, c, i, flag, ok))
        \/ \E n \in Unused, thumb \in BOOLEAN :
              Request("ingest_embeddings", p,
                      LAMBDA d, q : ingest_embeddings(d, q, i, flag, c, n, thumb, ok))
    \/ LeaseRequests(p)

=============================================================================
