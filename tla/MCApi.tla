------------------------------- MODULE MCApi -------------------------------
(* The API on two cameras, one group of routes (area) at a time: groups    *)
(* share no table but the cameras' own.  Users, sessions and keys are      *)
(* Accounts' own tables, and three more areas.                             *)
EXTENDS ApiCameras, ApiFootage, ApiAi, ApiAdmin, ApiApps, Accounts

VARIABLE area       \* the group of routes in use

mcKey ==
    {[id |-> "adm", role |-> "admin", caps |-> Ungranted, scope |-> All, live |-> TRUE],
     [id |-> "mgr", role |-> "manager", caps |-> Ungranted, scope |-> {"c1"}, live |-> TRUE],
     [id |-> "scp", role |-> "manager", caps |-> AllCaps \ (Unscopable \cup {"Admin"}),
      scope |-> {"c1"}, live |-> TRUE],
     [id |-> "grd", role |-> "guard", caps |-> Ungranted, scope |-> All, live |-> TRUE]}

\* The guard is there for the passes.
Callers == {p \in Credential : p.id = "grd" => area = "passes"}

Base == {Row("cameras", c, {c}, None, 0) : c \in Camera} \cup {Row("sites", s, {}, None, 0) : s \in Site}

\* A row of table t for each camera, to start with or not.
Each1(t, ref) == {Row(t, "x1", {"c1"}, ref, 0), Row(t, "x2", {"c2"}, ref, 0)}
Device1(t) == {Row(t, c, {c}, None, 0) : c \in Camera}
Fleet1(t) == {Row(t, "x1", {}, None, 0)}

\* The ids of these rows are no camera's.
ASSUME SeedsAssumption == {"x1", "x2"} \cap Camera = {}

\* The rows of each area that may be there at the start, and the ones that are.
Seeds ==
    [fleet     |-> Device1("camera_status"),
     zones     |-> Each1("zones", "a") \cup Each1("zone_events", "a"),
     schedules |-> Each1("camera_schedules", None),
     snapshots |-> Each1("snapshot_schedules", None) \cup Each1("snapshots", None),
     footage   |-> Each1("segments", "inc") \cup Each1("recording_gaps", None) \cup Each1("events", None),
     artifacts |-> Each1("segments", "inc") \cup Each1("media_artifacts", "playback")
                     \cup Each1("evidence_bundles", None),
     tasks     |-> {Row("ai_tasks", "x2", {"c2"}, "t", 0)},
     ingest    |-> Each1("ai_tasks", "t"),
     embeds    |-> Each1("ai_tasks", "t"),
     control   |-> Device1("capabilities"),
     config    |-> Device1("camera_isapi"),
     onvif     |-> Device1("camera_onvif") \cup Device1("presets"),
     destinations |-> {Row("backup_policies", "x1", {"c1"}, "x1", 0)} \cup Fleet1("backup_destinations"),
     policies  |-> {Row("backup_policies", "x1", {"c1"}, "x1", 0)} \cup Fleet1("backup_destinations"),
     archives  |-> Each1("segments", None) \cup Each1("backup_jobs", "adm"),
     webhooks  |-> Fleet1("webhooks") \cup Each1("events", None),
     settings  |-> Each1("segments", None) \cup Fleet1("box_alerts") \cup Fleet1("outbox"),
     modules   |-> {},
     identity  |-> Fleet1("vehicles") \cup Fleet1("watchlist"),
     passes    |-> {},
     entry     |-> Each1("entry_events", None) \cup Each1("audit_log", None) \cup {Row("audit_log", "x3", Camera, None, 0)},
     gate      |-> Device1("gate_policies"),
     movement  |-> {Row("camera_links", "x1", Camera, "c1", 1)} \cup Each1("zone_events", "a")
                     \cup {Row("movement_candidates", "x1", Camera, "pending", 0)}
                     \cup {Row("breach_alerts", "x1", {"c1"}, "open", 0)},
     search    |-> {Row("zones", "x1", {"c1"}, "a", 0), Row("zones", "x2", {"c2"}, "a", 0), Row("zone_events", "x1", {"c1"}, "a", 0)}
                     \cup Each1("detections", None)]

Present ==
    [a \in DOMAIN Seeds |->
        Base \cup (CASE a \in {"control", "config"} -> Device1("device")
                     [] a = "modules" -> {Row("modules", "m1", {}, "x1", 0)} \cup Companions(Row("modules", "m1", {}, "x1", 0))
                     [] a = "gate" -> {Row("gate_settings", "1", {}, None, 0)}
                     [] a = "movement" -> Each1("entry_events", None) \cup Each1("detections", None)
                     [] a = "passes" -> {Row("visitor_passes", "x1", {}, "active", 0)}
                     [] OTHER -> {})]

accountAreas == {"users", "sessions", "keys"}

MCInit ==
    /\ area \in DOMAIN Seeds \cup accountAreas
    /\ \/ area \in accountAreas /\ db = {}
       \/ area \in DOMAIN Seeds /\ \E seeds \in SUBSET Seeds[area] : db = Present[area] \cup seeds
    /\ pend = {} /\ blame = {}
    /\ AcctInit

Requests(p) ==
    \/ area = "fleet" /\ FleetRequests(p)
    \/ area = "zones" /\ ZoneRequests(p)
    \/ area = "schedules" /\ ScheduleRequests(p)
    \/ area = "snapshots" /\ SnapshotRequests(p)
    \/ area = "footage" /\ FootageRequests(p)
    \/ area = "artifacts" /\ ArtifactRequests(p)
    \/ area = "tasks" /\ (TaskRequests(p) \/ CameraRequests(p, {}))
    \/ area = "ingest" /\ (IngestRequests(p) \/ CameraRequests(p, {}))
    \/ area = "embeds" /\ EmbedRequests(p)
    \/ area = "control" /\ ControlRequests(p)
    \/ area = "config" /\ ConfigRequests(p)
    \/ area = "onvif" /\ OnvifRequests(p)
    \/ area = "destinations" /\ DestinationRequests(p)
    \/ area = "policies" /\ PolicyRequests(p)
    \/ area = "archives" /\ ArchiveRequests(p)
    \/ area = "webhooks" /\ WebhookRequests(p)
    \/ area = "settings" /\ SettingRequests(p)
    \/ area = "modules" /\ ModuleRequests(p)
    \/ area = "identity" /\ IdentityRequests(p)
    \/ area = "passes" /\ PassRequests(p)
    \/ area = "entry" /\ EntryRequests(p)
    \/ area = "gate" /\ GateRequests(p)
    \/ area = "movement" /\ MovementRequests(p)
    \/ area = "search" /\ (SearchRequests(p) \/ CameraRequests(p, {}))

Background ==
    \/ area = "artifacts" /\ sweep_orphans
    \/ area \in {"tasks", "ingest", "embeds"} /\ LeaseLapses
    \/ area = "modules" /\ ProbeModules

\* Where a lock or an expiry is not what is looked at, two ticks are enough.
AccountStep ==
    \/ area = "users" /\ UserStep
    \/ area = "sessions" /\ SessionStep
    \/ area = "keys" /\ KeyStep
    \/ area = "sessions" /\ Tick
    \/ area = "users" /\ clock < 2 /\ Tick
    \/ area \in accountAreas /\ Restart

MCNext ==
    /\ \/ /\ (\E p \in Callers : Requests(p)) \/ Background \/ Finish
          /\ UNCHANGED acctVars
       \/ AccountStep /\ UNCHANGED apiVars
    /\ UNCHANGED area

MCSpec == MCInit /\ [][MCNext]_<<apiVars, acctVars, area>>

\* An export by incident answers for every camera the incident touches.
Spanning == {"create_evidence"}

\* The selection of a backup policy is the one owner of a row that a request can change.
Reselected == {"update_policy", "delete_policy"}

\* What a scoped credential is told never depends on the cameras it was not granted: every handler
\* answers as it would on a database without their rows, whether it lists, refuses or finds nothing.
\* A handler that looks a row up before it checks the scope, or filters one query of two, tells
\* such a credential which ids exist (state.rs: camera_for, resource_camera, camera_scope_filter).
NonInterference == \A b \in blame : b[1] = "interferes" => b[2] \in Spanning

\* A scoped credential never changes a row of a camera it was not granted, nor a fleet-wide row,
\* also when its writes come after another request's (state.rs: resource_camera, confine_camera_ids,
\* cameras.rs: require_fleet_scope).  The exception is a policy whose selection was changed after it
\* was checked (backup.rs: update_policy, delete_policy).
Confined == \A b \in blame : b[1] = "strays" => b[3] /\ b[2] \in Reselected

\* Only a registry manager lifts the revocation of a visitor pass: a guard does not, neither by
\* editing its status nor by checking the visitor in or out (entry routes.rs: update_pass,
\* checkin_pass, checkout_pass), as long as the pass is not revoked between its read and its write.
RevokedStays == \A b \in blame : b[1] = "reinstates" => b[3]

\* The routes the published table calls fleet-wide though their handlers serve a scoped credential.
Misdeclared == {"update_snapshot_schedule", "delete_snapshot_schedule", "list_modules", "list_registry"}

\* Every documented handler asks for what the OpenAPI document says it does: no fleet-wide credential
\* without the declared capability is served, and no scoped credential is served by a route declared
\* fleet-only, but for the four misdeclared ones (openapi_security.rs: REQUIREMENTS).
AsPublished ==
    \A b \in blame : b[1] # "ungated" /\ (b[1] = "fleet" => b[2] \in Misdeclared)

\* A scoped credential is refused by every route declared fleet-only, and a camera-keyed route tells
\* one that does not hold the camera that there is none (openapi_security.rs: "a credential not
\* holding it gets 404 (never 403").
ScopeAsPublished == \A b \in blame : b[1] \notin {"fleet", "forbids"}

\* The same, whenever the pass is revoked (entry routes.rs: "`revoked` is a terminal state: only a
\* manager+ may reinstate it").
RevokedTerminal == \A b \in blame : b[1] # "reinstates"

\* Accounts under concurrent logins, amendments, failed stamps and restarts: a session's grant ends
\* with its lifetime and its idle time and not before, and a named credential is the one judged; no
\* burst of wrong passwords goes uncounted by the lockout; no key ever pairs a camera scope with a
\* capability that reads across cameras (auth.rs: resolve_token, slide_to; routes/auth.rs:
\* register_login_failure, update_api_key).
AccountsHold == GrantsTimely /\ InUseStays /\ ServedAsNamed /\ LockoutCounts /\ GrantsScopable

\* A site never disappears from under a camera that is on it, whatever was counted before the
\* DELETE: its foreign key would silently put the camera on the box's clock (sites.rs: delete_site).
NoSilentDetach ==
    [][\A s \in Rows(db, "sites") :
           ~ Exists(db', "sites", s.id) => \A c \in Rows(db, "cameras") : c.ref # s.id]_<<apiVars, area>>
=============================================================================
