---------------------------- MODULE ApiFootage ----------------------------
(***************************************************************************)
(* The routes that show and hold footage: recordings, clips, playback      *)
(* sessions, evidence bundles, incidents, recording gaps, live view and    *)
(* the guard in front of /media.  A segment refers to its incident and its *)
(* payload says whether it is under an evidence hold; a media artifact     *)
(* refers to the subtree its file is in.                                   *)
(***************************************************************************)
EXTENDS Api

CONSTANTS Incident      \* incident ids a request may name

Footage(d, c) == OfCamera(d, "segments", c)

list_segments(d, p, c, ok) ==
    NeedCap(p, "VideoPlayback", camera_for(d, p, c, Valid(ok, Give(Footage(d, c)))))

\* The segments of the range, coalesced.
timeline(d, p, c, ok) ==
    NeedCap(p, "VideoPlayback", camera_for(d, p, c, Valid(ok, Give(Footage(d, c)))))

\* The complement of the timeline.
gaps(d, p, c, ok) ==
    NeedCap(p, "VideoPlayback", camera_for(d, p, c, Valid(ok, Give(Footage(d, c)))))

\* media_scope::attribute, once the file is written.
attribute(i, cs, subtree) == Ins(Row("media_artifacts", i, cs, subtree, 0))

export_clip(d, p, c, i, ok) ==
    NeedCap(p, "VideoExport",
    camera_scope_check(p, c,
    Valid(ok,
    Found(Get(d, "cameras", c),
    Found(Footage(d, c), Do(200, Footage(d, c), <<attribute(i, {c}, "clips")>>))))))

\* at: of a recorded moment; otherwise of the live stream.
snapshot_handler(d, p, c, at, ok) ==
    NeedCap(p, "VideoPlayback",
    camera_scope_check(p, c,
    IF at THEN Valid(ok, Found(Footage(d, c), Give(Footage(d, c))))
    ELSE Found(Get(d, "cameras", c), Give(Get(d, "cameras", c)))))

create_session(d, p, c, i, ok) ==
    NeedCap(p, "VideoPlayback",
    camera_scope_check(p, c,
    Valid(ok,
    Found(Get(d, "cameras", c),
    Found(Footage(d, c), Do(200, Footage(d, c), <<attribute(i, {c}, "playback")>>))))))

\* The cameras whose footage is in the artifact at i: an unattributed one is nobody's.
Sessions(d, i) == {r \in Get(d, "media_artifacts", i) : r.ref = "playback"}

\* Ownership is asked of a scoped credential only, before the session is looked up.
delete_session(d, p, i) ==
    NeedCap(p, "VideoPlayback",
    IF Scoped(p) /\ ~ \E r \in Sessions(d, i) : Holds(p, r) THEN Refuse(403)
    ELSE Found(Sessions(d, i), Do(204, {}, Each(Sessions(d, i), Del))))

-----------------------------------------------------------------------------
(* Evidence bundles.                                                       *)

\* An incident names its camera: a scoped credential must hold every camera the incident touches,
\* and is refused alike when it touches none.
resolve_camera(d, p, cs, ns, Then(_)) ==
    LET tagged == {r \in Rows(d, "segments") : r.ref \in ns}
        cams == UNION {r.cams : r \in tagged} IN
    CASE Cardinality(cs) + Cardinality(ns) # 1 -> Refuse(400)
      [] cs # {} -> Then(CHOOSE c \in cs : TRUE)
      [] OTHER -> IF Scoped(p) /\ ~ (cams # {} /\ cams \subseteq p.scope) THEN Refuse(403)
                  ELSE Found(cams, Valid(Cardinality(cams) = 1, Then(CHOOSE c \in cams : TRUE)))

\* evidence::export writes the bundle, its row and its attribution; a dry run answers the plan.
create_evidence(d, p, cs, ns, i, dry, ok) ==
    NeedCap(p, "VideoExport",
    resolve_camera(d, p, cs, ns, LAMBDA c :
    camera_scope_check(p, c,
    Valid(ok,
    Found(Get(d, "cameras", c),
    IF dry THEN Give(Footage(d, c))
    ELSE Found(Footage(d, c),
         Do(200, Footage(d, c), <<attribute(i, {c}, "evidence"),
                                  Ins(Row("evidence_bundles", i, {c}, None, 0))>>)))))))

list_evidence(d, p, cs) ==
    LET shown == {r \in Held(d, "evidence_bundles", p) : cs \subseteq r.cams} IN
    NeedCap(p, "VideoExport",
    IF \A c \in cs : CameraAllowed(p, c) THEN Give(shown) ELSE Refuse(403))

\* Out of scope is not found.
get_evidence(d, p, i) ==
    LET shown == {r \in Get(d, "evidence_bundles", i) : Holds(p, r)} IN
    NeedCap(p, "VideoExport", Found(shown, Give(shown)))

-----------------------------------------------------------------------------
(* Incidents, gaps, triggers, events and live view.                        *)

\* Holding and tagging write their own columns only: a hold names an incident or keeps the one the
\* segment has, releasing it leaves the incident.
Hold(d, p, i, cols, W(_)) ==
    LET new == {W(r) : r \in Get(d, "segments", i)} IN
    NeedCap(p, "RegistryManage",
    resource_camera(d, p, "segments", i, Do(200, new, Each(new, LAMBDA r : Upd(r, cols)))))

lock_evidence(d, p, i, n) ==
    Hold(d, p, i, IF n = None THEN {"v"} ELSE {"v", "ref"}, LAMBDA r : [r EXCEPT !.v = 1, !.ref = n])

unlock_evidence(d, p, i) == Hold(d, p, i, {"v"}, LAMBDA r : [r EXCEPT !.v = 0])

tag_incident(d, p, i, n) == Hold(d, p, i, {"ref"}, LAMBDA r : [r EXCEPT !.ref = n])

list_incidents(d, p) ==
    NeedCap(p, "EventsRead", Give({r \in Held(d, "segments", p) : r.ref # None}))

incident_segments(d, p, n) ==
    NeedCap(p, "VideoPlayback", Give({r \in Held(d, "segments", p) : r.ref = n}))

list_gaps(d, p, c) ==
    NeedCap(p, "VideoPlayback", camera_for(d, p, c, Give(OfCamera(d, "recording_gaps", c))))

\* The statement names the camera beside the gap, so a gap of another camera is not found.
retry_gap(d, p, c, i) ==
    LET new == {[r EXCEPT !.v = 0] : r \in {r \in Get(d, "recording_gaps", i) : c \in r.cams}} IN
    NeedCap(p, "RegistryManage",
    camera_for(d, p, c,
    Found(new, Do(200, new, Each(new, LAMBDA r : Upd(r, {"v"}))))))

\* The window itself is the recorder's (see Recorder!Trigger).
record_trigger(d, p, c, recording) ==
    NeedCap(p, "RegistryManage",
    camera_for(d, p, c, Valid(recording, Give(Get(d, "cameras", c)))))

list_events(d, p, cs) ==
    NeedCap(p, "EventsRead", Give({r \in Held(d, "events", p) : cs \subseteq r.cams}))

\* ensure_live publishes the camera's stream and issues a token.
liveview(d, p, c) ==
    NeedCap(p, "VideoLive",
    camera_scope_check(p, c, Found(Get(d, "cameras", c), Give(Get(d, "cameras", c)))))

-----------------------------------------------------------------------------
(* The guard in front of the files under /media.                           *)

\* The subtrees, and the capability each asks for.  "thumbs" are the files directly under
\* snapshots/, "denied" is a name inside a subtree that is not an artifact's, "unknown" any other
\* path.
requirement(subtree) ==
    CASE subtree \in {"recordings", "snapshots", "thumbs", "playback"} -> "VideoPlayback"
      [] subtree \in {"clips", "archives", "evidence", "denied"} -> "VideoExport"

\* Partitioned subtrees carry the camera in the path; an artifact's cameras are looked up by its
\* key, and an unattributed one is refused.
guard(d, p, subtree, c, i) ==
    LET art == {r \in Get(d, "media_artifacts", i) : r.ref = subtree} IN
    IF subtree = "unknown" THEN Refuse(403)
    ELSE NeedCap(p, requirement(subtree),
         CASE subtree = "denied" -> Refuse(403)
           [] subtree \in {"recordings", "snapshots"} ->
                camera_scope_check(p, c, Give(Footage(d, c)))
           [] OTHER -> IF Scoped(p) /\ ~ \E r \in art : Holds(p, r) THEN Refuse(403)
                       ELSE Give(art))

\* sweep_orphans, an hourly task: forgets the artifacts whose file is gone.
sweep_orphans ==
    \E gone \in SUBSET Rows(db, "media_artifacts") :
        /\ db' = db \ gone
        /\ UNCHANGED <<pend, blame>>

-----------------------------------------------------------------------------
(* Requests.                                                               *)

\* list_segments to retry_gap.
FootageRequests(p) ==
    \/ \E c \in Camera, ok \in BOOLEAN :
        \/ Request("list_segments", p, LAMBDA d, q : list_segments(d, q, c, ok))
        \/ Request("timeline", p, LAMBDA d, q : timeline(d, q, c, ok))
        \/ Request("gaps", p, LAMBDA d, q : gaps(d, q, c, ok))
        \/ Request("list_gaps", p, LAMBDA d, q : list_gaps(d, q, c))
        \/ Request("record_trigger", p, LAMBDA d, q : record_trigger(d, q, c, ok))
        \/ Request("liveview", p, LAMBDA d, q : liveview(d, q, c))
        \/ \E at \in BOOLEAN :
              Request("snapshot_handler", p, LAMBDA d, q : snapshot_handler(d, q, c, at, ok))
    \/ \E i \in Id :
        \/ \E c \in Camera : Request("retry_gap", p, LAMBDA d, q : retry_gap(d, q, c, i))
        \/ \E n \in Incident \cup {None} :
              \/ Request("lock_evidence", p, LAMBDA d, q : lock_evidence(d, q, i, n))
              \/ Request("tag_incident", p, LAMBDA d, q : tag_incident(d, q, i, n))
        \/ Request("unlock_evidence", p, LAMBDA d, q : unlock_evidence(d, q, i))
    \/ \E n \in Incident : Request("incident_segments", p, LAMBDA d, q : incident_segments(d, q, n))
    \/ Request("list_incidents", p, LAMBDA d, q : list_incidents(d, q))
    \/ \E cs \in {{}} \cup {{c} : c \in Camera} :
          Request("list_events", p, LAMBDA d, q : list_events(d, q, cs))

ArtifactRequests(p) ==
    \/ \E c \in Camera, ok \in BOOLEAN, i \in Unused :
        \/ Request("export_clip", p, LAMBDA d, q : export_clip(d, q, c, i, ok))
        \/ Request("create_session", p, LAMBDA d, q : create_session(d, q, c, i, ok))
    \/ \E cs \in {{}} \cup {{c} : c \in Camera}, ns \in {{}} \cup {{n} : n \in Incident} :
        \/ \E i \in Unused, dry, ok \in BOOLEAN :
              Request("create_evidence", p, LAMBDA d, q : create_evidence(d, q, cs, ns, i, dry, ok))
        \/ Request("list_evidence", p, LAMBDA d, q : list_evidence(d, q, cs))
    \/ \E i \in Id :
        \/ Request("delete_session", p, LAMBDA d, q : delete_session(d, q, i))
        \/ Request("get_evidence", p, LAMBDA d, q : get_evidence(d, q, i))
        \/ \E subtree \in {"recordings", "snapshots", "thumbs", "clips", "playback", "archives", "evidence",
                           "denied", "unknown"}, c \in Camera :
              Request("guard", p, LAMBDA d, q : guard(d, q, subtree, c, i))
    \/ \E i \in Id, n \in Incident : Request("tag_incident", p, LAMBDA d, q : tag_incident(d, q, i, n))

=============================================================================
