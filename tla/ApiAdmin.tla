------------------------------ MODULE ApiAdmin ------------------------------
(***************************************************************************)
(* The routes that administer the box: webhook subscriptions, settings,    *)
(* sidecar modules, metrics and the fleet outbox (routes/webhooks.rs,      *)
(* system.rs, modules.rs, registry.rs, metrics.rs, outbox.rs).  A webhook  *)
(* delivery refers to its subscription; a module refers to the key and the *)
(* webhook that were issued with it.                                       *)
(***************************************************************************)
EXTENDS Api

ListWebhooks(d, p) == NeedCap(p, "EventsRead", Give(Rows(d, "webhooks")))

CreateWebhook(d, p, i, ok) ==
    NeedCap(p, "RegistryManage",
    require_fleet_scope(p, Valid(ok, Create(Row("webhooks", i, {}, None, 0)))))

UpdateWebhook(d, p, i, ok) ==
    NeedCap(p, "RegistryManage",
    require_fleet_scope(p, Found(Get(d, "webhooks", i), Valid(ok, Patch(d, "webhooks", i)))))

DeleteWebhook(d, p, i) ==
    NeedCap(p, "RegistryManage", require_fleet_scope(p, Erase(d, "webhooks", i)))

\* One delivery attempt, recorded whether or not it is answered.
TestWebhook(d, p, i, n) ==
    LET try == Row("webhook_deliveries", n, {}, i, 0) IN
    NeedCap(p, "RegistryManage",
    require_fleet_scope(p, Found(Get(d, "webhooks", i), Do(200, {try}, <<Ins(try)>>))))

list_deliveries(d, p, i) ==
    NeedCap(p, "EventsRead",
    Found(Get(d, "webhooks", i), Give({r \in Rows(d, "webhook_deliveries") : r.ref = i})))

\* The built-in types and the ones any event carries.
event_types(d, p) == NeedCap(p, "EventsRead", Give(Rows(d, "events")))

-----------------------------------------------------------------------------
(* Settings.  An override is a row; without one the environment's default  *)
(* holds.                                                                  *)

ReadSetting(d, p, s) == NeedCap(p, "SystemRead", Give(Get(d, "settings", s)))

get_timezone(d, p) == ReadSetting(d, p, "timezone")
get_retention(d, p) == ReadSetting(d, p, "retention")
get_transcode(d, p) == ReadSetting(d, p, "transcode")

Setting(s) == Row("settings", s, {}, None, 1)

PutSetting(d, p, s, ok) ==
    NeedAdmin(p,
    require_fleet_scope(p, Valid(ok, Do(200, {Setting(s)}, <<Put(Setting(s))>>))))

put_timezone(d, p, ok) == PutSetting(d, p, "timezone", ok)
put_transcode(d, p, ok) == PutSetting(d, p, "transcode", ok)

\* plan::hash of the state a limit is planned against: what is recorded, and what of it is held.
plan_hash(d) == <<Cardinality(Rows(d, "segments")), Cardinality({r \in Rows(d, "segments") : r.v = 1})>>

\* plan::check: no hash is accepted, a hash only of the present state.
plan_check(d, plan) == \A h \in plan : h = plan_hash(d)

\* A dry run answers the plan.  The limits are validated after the hash is checked.
put_retention(d, p, plan, dry, ok) ==
    NeedAdmin(p,
    require_fleet_scope(p,
    IF dry THEN Give(Rows(d, "segments"))
    ELSE IF ~ plan_check(d, plan) THEN Refuse(409)
    ELSE Valid(ok, Do(200, {Setting("retention")}, <<Put(Setting("retention"))>>))))

get_db_status(d, p) ==
    NeedCap(p, "SystemRead", require_fleet_scope(p, Give(Get(d, "settings", "db_limit") \cup d)))

\* The limit is validated first, and its plan depends on the size of the whole database.
put_db_limit(d, p, grown, dry, ok) ==
    NeedAdmin(p,
    require_fleet_scope(p,
    Valid(ok,
    IF dry THEN Give(d)
    ELSE IF grown THEN Refuse(409)
    ELSE Do(200, {Setting("db_limit")}, <<Put(Setting("db_limit"))>>))))

\* Already converted, or the conversion is left to a background task.
post_db_convert(d, p) == PutSetting(d, p, "auto_vacuum", TRUE)

\* Counts of what is in scope, and the box's own health.
system_info(d, p) ==
    NeedCap(p, "SystemRead",
    Give(Held(d, "cameras", p) \cup Held(d, "camera_status", p) \cup Held(d, "segments", p)
         \cup Rows(d, "settings") \cup Rows(d, "box_alerts")))

get_posture(d, p) == NeedAdmin(p, require_fleet_scope(p, Give(Rows(d, "settings") \cup Rows(d, "api_keys"))))

get_provenance_readiness(d, p) == NeedAdmin(p, require_fleet_scope(p, Give(Rows(d, "events"))))

metrics_handler(d, p) == NeedCap(p, "SystemRead", require_fleet_scope(p, Give(d)))

list_outbox(d, p) == NeedAdmin(p, require_fleet_scope(p, Give(Rows(d, "outbox"))))

site_info(d, p) == NeedCap(p, "SystemRead", Give({}))

-----------------------------------------------------------------------------
(* Sidecar modules.                                                        *)

list_modules(d, p) == NeedCap(p, "SystemRead", Give(Rows(d, "modules")))

\* The module, its key and its webhook are inserted in one transaction; i is the key's id.
register_module(d, p, m, i, ok) ==
    NeedAdmin(p,
    require_fleet_scope(p,
    IF Exists(d, "modules", m) THEN Refuse(409)
    ELSE Valid(ok, Create(Row("modules", m, {}, i, 0)))))

module_detail(d, p, m) ==
    NeedAdmin(p, require_fleet_scope(p, Found(Get(d, "modules", m), Give(Get(d, "modules", m)))))

\* The key and the webhook of the row just read go with it.
unregister_module(d, p, m) == NeedAdmin(p, require_fleet_scope(p, Erase(d, "modules", m)))

\* The sidecar is told who asks and which cameras they may see.
forward(d, p, m) == NeedCap(p, "ModuleProxy", Found(Get(d, "modules", m), Give(Get(d, "modules", m))))

list_registry(d, p) == NeedCap(p, "SystemRead", Give(Rows(d, "modules")))

refresh_registry(d, p) == NeedAdmin(p, require_fleet_scope(p, Give(Rows(d, "modules"))))

\* modules::run, every 30 s: the health of each module is written back by id.
ProbeModules ==
    /\ db' = Apply(db, Each({Patched(r) : r \in Rows(db, "modules")}, LAMBDA r : Upd(r, {"v"})))
    /\ UNCHANGED <<pend, blame>>

-----------------------------------------------------------------------------
(* Requests.                                                               *)

WebhookRequests(p) ==
    \/ Request("list_webhooks", p, LAMBDA d, q : ListWebhooks(d, q))
    \/ Request("event_types", p, LAMBDA d, q : event_types(d, q))
    \/ \E i \in Unused, ok \in BOOLEAN :
          Request("create_webhook", p, LAMBDA d, q : CreateWebhook(d, q, i, ok))
    \/ \E i \in Id, ok \in BOOLEAN :
        \/ Request("update_webhook", p, LAMBDA d, q : UpdateWebhook(d, q, i, ok))
        \/ Request("delete_webhook", p, LAMBDA d, q : DeleteWebhook(d, q, i))
        \/ Request("list_deliveries", p, LAMBDA d, q : list_deliveries(d, q, i))
        \/ \E n \in Unused :
              Request("test_webhook", p, LAMBDA d, q : TestWebhook(d, q, i, n))

SettingRequests(p) ==
    \/ Request("get_timezone", p, LAMBDA d, q : get_timezone(d, q))
    \/ Request("get_retention", p, LAMBDA d, q : get_retention(d, q))
    \/ Request("get_transcode", p, LAMBDA d, q : get_transcode(d, q))
    \/ Request("get_db_status", p, LAMBDA d, q : get_db_status(d, q))
    \/ Request("post_db_convert", p, LAMBDA d, q : post_db_convert(d, q))
    \/ Request("system_info", p, LAMBDA d, q : system_info(d, q))
    \/ Request("get_posture", p, LAMBDA d, q : get_posture(d, q))
    \/ Request("get_provenance_readiness", p, LAMBDA d, q : get_provenance_readiness(d, q))
    \/ Request("metrics", p, LAMBDA d, q : metrics_handler(d, q))
    \/ Request("list_outbox", p, LAMBDA d, q : list_outbox(d, q))
    \/ Request("site_info", p, LAMBDA d, q : site_info(d, q))
    \/ \E ok \in BOOLEAN :
        \/ Request("put_timezone", p, LAMBDA d, q : put_timezone(d, q, ok))
        \/ Request("put_transcode", p, LAMBDA d, q : put_transcode(d, q, ok))
    \/ \E dry, ok \in BOOLEAN :
        \/ \E plan \in {{}} \cup {{<<n, h>>} : n, h \in 0..1} :
              Request("put_retention", p, LAMBDA d, q : put_retention(d, q, plan, dry, ok))
        \/ \E grown \in BOOLEAN :
              Request("put_db_limit", p, LAMBDA d, q : put_db_limit(d, q, grown, dry, ok))

ModuleRequests(p) ==
    \/ Request("list_modules", p, LAMBDA d, q : list_modules(d, q))
    \/ Request("list_registry", p, LAMBDA d, q : list_registry(d, q))
    \/ Request("refresh_registry", p, LAMBDA d, q : refresh_registry(d, q))
    \/ \E m \in {"m1"} :
        \/ \E i \in Unused, ok \in BOOLEAN :
              Request("register_module", p, LAMBDA d, q : register_module(d, q, m, i, ok))
        \/ Request("module_detail", p, LAMBDA d, q : module_detail(d, q, m))
        \/ Request("unregister_module", p, LAMBDA d, q : unregister_module(d, q, m))
        \/ Request("forward", p, LAMBDA d, q : forward(d, q, m))

-----------------------------------------------------------------------------
(***************************************************************************)
(* The routes of routes/backup.rs: destinations, policies, jobs and        *)
(* archives.  A policy or a job names a list of cameras; the empty list    *)
(* means every camera, and is nobody's but a fleet-wide credential's.      *)
(* A policy refers to its destination, a job to its creator; the payload   *)
(* of a job is 1 for an archive.                                           *)
(***************************************************************************)

list_destinations(d, p) ==
    NeedCap(p, "SystemRead", require_fleet_scope(p, Give(Rows(d, "backup_destinations"))))

create_destination(d, p, i, ok) ==
    NeedCap(p, "RegistryManage",
    require_fleet_scope(p, Valid(ok, Create(Row("backup_destinations", i, {}, None, 0)))))

update_destination(d, p, i, ok) ==
    NeedCap(p, "RegistryManage",
    require_fleet_scope(p,
    Found(Get(d, "backup_destinations", i), Valid(ok, Patch(d, "backup_destinations", i)))))

delete_destination(d, p, i) ==
    NeedCap(p, "RegistryManage", require_fleet_scope(p, Erase(d, "backup_destinations", i)))

test_destination(d, p, i) ==
    NeedCap(p, "RegistryManage",
    require_fleet_scope(p,
    Found(Get(d, "backup_destinations", i), Give(Get(d, "backup_destinations", i)))))

-----------------------------------------------------------------------------
(* Policies.                                                               *)

\* owns_selection, and its SQL twin: every camera of a non-empty selection.
policy_for(d, p, i, then) ==
    Found({r \in Get(d, "backup_policies", i) : Holds(p, r)}, then)

job_for(d, p, i, then) == Found({r \in Get(d, "backup_jobs", i) : Holds(p, r)}, then)

\* What a scoped credential stores never widens to the empty list.
stored_camera_ids(p, cs, Then(_)) ==
    confine_camera_ids(p, cs, LAMBDA ids :
    IF Scoped(p) /\ ids = {} THEN Refuse(403) ELSE Then(ids))

list_policies(d, p) == NeedCap(p, "SystemRead", Give(Held(d, "backup_policies", p)))

create_policy(d, p, i, dest, cs, ok) ==
    NeedCap(p, "RegistryManage",
    Valid(ok,
    Found(Get(d, "backup_destinations", dest),
    stored_camera_ids(p, cs, LAMBDA ids : Create(Row("backup_policies", i, ids, dest, 0))))))

Reselect(r, ids, dest) == [r EXCEPT !.cams = ids, !.ref = dest, !.v = 1]

\* cs = All: the body names no cameras, and the selection just read is written back.
update_policy(d, p, i, dest, cs) ==
    LET cur == CHOOSE r \in Get(d, "backup_policies", i) : TRUE
        save(ids) == Do(200, {Reselect(cur, ids, dest)}, <<Upd(Reselect(cur, ids, dest), Whole)>>) IN
    NeedCap(p, "RegistryManage",
    policy_for(d, p, i,
    Found(Get(d, "backup_destinations", dest),
    IF cs = All THEN save(cur.cams) ELSE stored_camera_ids(p, cs, save))))

delete_policy(d, p, i) ==
    NeedCap(p, "RegistryManage", policy_for(d, p, i, Erase(d, "backup_policies", i)))

\* The policy's own selection, confined once more: camera_selection.
trigger_policy(d, p, i, j) ==
    LET cur == CHOOSE r \in Get(d, "backup_policies", i) : TRUE IN
    NeedCap(p, "RegistryManage",
    policy_for(d, p, i,
    confine_camera_ids(p, cur.cams, LAMBDA ids :
    LET job == Row("backup_jobs", j, ids, p.id, 0) IN Do(202, {job}, <<Ins(job)>>))))

-----------------------------------------------------------------------------
(* Jobs and archives.                                                      *)

\* Who created a job is not shown to a scoped credential.
redact_creator(p, jobs) == {[r EXCEPT !.ref = IF Scoped(p) THEN None ELSE @] : r \in jobs}

list_jobs(d, p) ==
    NeedCap(p, "SystemRead", Give(redact_creator(p, Held(d, "backup_jobs", p))))

get_job(d, p, i) ==
    NeedCap(p, "SystemRead", job_for(d, p, i, Give(redact_creator(p, Get(d, "backup_jobs", i)))))

\* The file, then its attribution, then the job.
delete_job(d, p, i) ==
    LET art == {r \in Get(d, "media_artifacts", i) : r.ref = "archives"} IN
    NeedCap(p, "RegistryManage",
    job_for(d, p, i,
    Do(204, {}, Each(art, Del) \o Each(Get(d, "backup_jobs", i), Del))))

\* backup::create_archive runs inline: the job, the zip, its attribution to the cameras whose
\* segments went into it.
archive_export(d, p, cs, i, ok) ==
    NeedCap(p, "RegistryManage",
    Valid(ok,
    stored_camera_ids(p, cs, LAMBDA ids :
    LET chosen == {r \in Rows(d, "segments") : ids = {} \/ r.cams \subseteq ids}
        owners == UNION {r.cams : r \in chosen}
        job == Row("backup_jobs", i, ids, p.id, 1) IN
    Found(chosen,
    Do(201, {job}, <<Ins(job), Ins(Row("media_artifacts", i, owners, "archives", 0))>>)))))

list_archive_exports(d, p) ==
    NeedCap(p, "SystemRead",
    Give(redact_creator(p, {r \in Held(d, "backup_jobs", p) : r.v = 1})))

-----------------------------------------------------------------------------
(* Requests.                                                               *)

DestinationRequests(p) ==
    \/ Request("list_destinations", p, LAMBDA d, q : list_destinations(d, q))
    \/ \E i \in Unused, ok \in BOOLEAN :
          Request("create_destination", p, LAMBDA d, q : create_destination(d, q, i, ok))
    \/ \E i \in Id :
        \/ \E ok \in BOOLEAN :
              Request("update_destination", p, LAMBDA d, q : update_destination(d, q, i, ok))
        \/ Request("delete_destination", p, LAMBDA d, q : delete_destination(d, q, i))
        \/ Request("test_destination", p, LAMBDA d, q : test_destination(d, q, i))
    \/ \E i \in Unused, dest \in Id :
          Request("create_policy", p, LAMBDA d, q : create_policy(d, q, i, dest, {}, TRUE))

\* The one destination a policy can name may go.
PolicyRequests(p) ==
    \/ Request("list_policies", p, LAMBDA d, q : list_policies(d, q))
    \/ \E i \in Id :
        \/ Request("delete_destination", p, LAMBDA d, q : delete_destination(d, q, i))
        \/ Request("delete_policy", p, LAMBDA d, q : delete_policy(d, q, i))
        \/ \E j \in Unused :
              Request("trigger_policy", p, LAMBDA d, q : trigger_policy(d, q, i, j))
    \/ \E i \in Unused, cs \in SUBSET Camera, dest \in Id, ok \in BOOLEAN :
          Request("create_policy", p, LAMBDA d, q : create_policy(d, q, i, dest, cs, ok))
    \/ \E i, dest \in Id, cs \in SUBSET Camera \cup {All} :
          Request("update_policy", p, LAMBDA d, q : update_policy(d, q, i, dest, cs))

ArchiveRequests(p) ==
    \/ Request("list_jobs", p, LAMBDA d, q : list_jobs(d, q))
    \/ Request("list_archive_exports", p, LAMBDA d, q : list_archive_exports(d, q))
    \/ \E i \in Id :
        \/ Request("get_job", p, LAMBDA d, q : get_job(d, q, i))
        \/ Request("delete_job", p, LAMBDA d, q : delete_job(d, q, i))
    \/ \E i \in Unused, cs \in SUBSET Camera, ok \in BOOLEAN :
          Request("archive_export", p, LAMBDA d, q : archive_export(d, q, cs, i, ok))
=============================================================================
