------------------------------- MODULE ApiApps ------------------------------
(***************************************************************************)
(* The routes of heldar-entry: vehicles, visitor passes, the watchlist,    *)
(* entry events and their reports, the audit log and the gate.  A pass     *)
(* refers to its status, an entry event to its workflow status; the        *)
(* payload of the one gate_settings row is 1 while the kill switch is on.  *)
(***************************************************************************)
EXTENDS Api

\* Statuses of a pass.
PassStatus == {"active", "checked_in", "checked_out", "expired", "revoked"}

-----------------------------------------------------------------------------
(* The identity registry: no row of it belongs to a camera.                *)

ListRegistry(d, p, t) == NeedCap(p, "IdentityRead", Give(Rows(d, t)))
GetRegistered(d, p, t, i) == NeedCap(p, "IdentityRead", Found(Get(d, t, i), Give(Get(d, t, i))))

AddRegistered(d, p, cap, r, ok) ==
    NeedCap(p, cap, require_fleet_scope(p, Valid(ok, Create(r))))

AmendRegistered(d, p, t, i, ok) ==
    NeedCap(p, "RegistryManage", require_fleet_scope(p, Found(Get(d, t, i), Valid(ok, Patch(d, t, i)))))

DropRegistered(d, p, t, i) ==
    NeedCap(p, "RegistryManage", require_fleet_scope(p, Erase(d, t, i)))

list_vehicles(d, p) == ListRegistry(d, p, "vehicles")
get_vehicle(d, p, i) == GetRegistered(d, p, "vehicles", i)
create_vehicle(d, p, i, ok) == AddRegistered(d, p, "RegistryManage", Row("vehicles", i, {}, None, 0), ok)
update_vehicle(d, p, i, ok) == AmendRegistered(d, p, "vehicles", i, ok)
delete_vehicle(d, p, i) == DropRegistered(d, p, "vehicles", i)

list_watchlist(d, p) == ListRegistry(d, p, "watchlist")
create_watch(d, p, i, ok) == AddRegistered(d, p, "RegistryManage", Row("watchlist", i, {}, None, 0), ok)
update_watch(d, p, i, ok) == AmendRegistered(d, p, "watchlist", i, ok)
delete_watch(d, p, i) == DropRegistered(d, p, "watchlist", i)

-----------------------------------------------------------------------------
(* Visitor passes.                                                         *)

list_passes(d, p) == ListRegistry(d, p, "visitor_passes")
get_pass(d, p, i) == GetRegistered(d, p, "visitor_passes", i)
create_pass(d, p, i, ok) == AddRegistered(d, p, "GateOperate", Row("visitor_passes", i, {}, "active", 0), ok)
delete_pass(d, p, i) == DropRegistered(d, p, "visitor_passes", i)

load_pass(d, p, i, Then(_)) ==
    NeedCap(p, "GateOperate",
    require_fleet_scope(p,
    Found(Get(d, "visitor_passes", i), Then(CHOOSE r \in Get(d, "visitor_passes", i) : TRUE))))

\* "keep": the body names no status, and the one just read is written back with the rest.  A revoked
\* pass is reinstated by a registry manager only.
update_pass(d, p, i, status, ok) ==
    load_pass(d, p, i, LAMBDA cur :
    LET new == [cur EXCEPT !.v = 1, !.ref = IF status = "keep" THEN @ ELSE status]
        save == Valid(ok, Do(200, {new}, <<Upd(new, Whole)>>)) IN
    IF cur.ref = "revoked" /\ new.ref # "revoked" THEN NeedCap(p, "RegistryManage", save) ELSE save)

\* Without the look at the status.
checkin_pass_Any(d, p, i, n) ==
    load_pass(d, p, i, LAMBDA cur :
    LET new == [cur EXCEPT !.ref = "checked_in"] IN Do(200, {new}, <<Upd(new, {"ref"})>>))

\* The entry event of the check-in is best effort, and has no camera.
record_manual_entry(n) == Ins(Row("entry_events", n, {}, "confirmed", 0))

\* The status is checked on the row that was read; the UPDATE names the pass only.
MovePass(d, p, i, n, from, to) ==
    load_pass(d, p, i, LAMBDA cur :
    LET new == [cur EXCEPT !.ref = to] IN
    Valid(cur.ref \in from, Do(200, {new}, <<Upd(new, {"ref"}), record_manual_entry(n)>>)))

checkin_pass(d, p, i, n) == MovePass(d, p, i, n, {"active", "checked_in"}, "checked_in")
checkout_pass(d, p, i, n) == MovePass(d, p, i, n, {"active", "checked_in", "checked_out"}, "checked_out")

-----------------------------------------------------------------------------
(* Entry events and reports.                                               *)

list_entry_events(d, p, ok) == NeedCap(p, "EventsRead", Valid(ok, Give(Held(d, "entry_events", p))))

require_event_scope(d, p, i, then) == resource_camera(d, p, "entry_events", i, then)

get_entry_event(d, p, i) ==
    NeedCap(p, "EventsRead", require_event_scope(d, p, i, Give(Get(d, "entry_events", i))))

resolve_event(d, p, i, status) ==
    LET new == {[r EXCEPT !.ref = status] : r \in Get(d, "entry_events", i)} IN
    NeedCap(p, "GateOperate",
    require_event_scope(d, p, i, Do(200, new, Each(new, LAMBDA r : Upd(r, {"ref"})))))

confirm_event(d, p, i) == resolve_event(d, p, i, "confirmed")
reject_event(d, p, i) == resolve_event(d, p, i, "rejected")

\* A calendar day needs one time zone: the zones of the sites the credential's cameras are on.
report_window(d, p, zoned, then) ==
    Valid(zoned \/ Cardinality({r.ref : r \in Held(d, "cameras", p)}) <= 1, then)

auth_status_counts(d, p) == Held(d, "entry_events", p)

report_entry_log(d, p, zoned) ==
    NeedCap(p, "EventsRead",
    report_window(d, p, zoned, Give(Held(d, "entry_events", p) \cup auth_status_counts(d, p))))

report_exceptions(d, p, zoned) ==
    NeedCap(p, "EventsRead",
    report_window(d, p, zoned, Give({r \in Held(d, "entry_events", p) : r.ref = "rejected"})))

\* A row about one camera, or about a list of which every camera is held.
list_audit(d, p, ok) == NeedCap(p, "RegistryManage", Valid(ok, Give(Held(d, "audit_log", p))))

-----------------------------------------------------------------------------
(* The gate.  A policy opens automatically while its payload is 1.         *)

kill_switch(d) == {r \in Rows(d, "gate_settings") : r.v = 1}

get_gate_state(d, p) ==
    NeedCap(p, "IdentityRead", Give(kill_switch(d) \cup Held(d, "gate_policies", p)))

put_gate_settings(d, p, on) ==
    LET new == {[r EXCEPT !.v = on] : r \in Rows(d, "gate_settings")} IN
    NeedCap(p, "RegistryManage",
    require_fleet_scope(p, Do(200, new, Each(new, LAMBDA r : Upd(r, {"v"})))))

\* enabled = "keep": the body does not name it, and the value just read is upserted.
put_gate_policy(d, p, c, enabled) ==
    LET cur == {r.v : r \in Get(d, "gate_policies", c)}
        new == Row("gate_policies", c, {c}, None,
                   IF enabled # "keep" THEN (IF enabled = "yes" THEN 1 ELSE 0) ELSE IF cur = {} THEN 0 ELSE CHOOSE v \in cur : TRUE) IN
    NeedCap(p, "RegistryManage",
    camera_scope_check(p, c, Found(Get(d, "cameras", c), Do(200, {new}, <<Put(new)>>))))

delete_gate_policy(d, p, c) ==
    NeedCap(p, "RegistryManage", camera_scope_check(p, c, Erase(d, "gate_policies", c)))

\* manual_open: a policy, no kill switch, then the pulse (see Anpr).  Whatever comes of it is
\* recorded.
gate_open(d, p, c, n, works) ==
    LET logged == <<Ins(Row("events", n, {c}, "gate", 0))>> IN
    NeedCap(p, "GateOperate",
    camera_scope_check(p, c,
    Valid(Exists(d, "gate_policies", c) /\ kill_switch(d) = {},
    IF works THEN Do(200, {}, logged) ELSE Do(400, {}, logged))))

-----------------------------------------------------------------------------
(* Requests.                                                               *)

IdentityRequests(p) ==
    \/ Request("list_vehicles", p, LAMBDA d, q : list_vehicles(d, q))
    \/ Request("list_watchlist", p, LAMBDA d, q : list_watchlist(d, q))
    \/ \E i \in Unused, ok \in BOOLEAN :
        \/ Request("create_vehicle", p, LAMBDA d, q : create_vehicle(d, q, i, ok))
        \/ Request("create_watch", p, LAMBDA d, q : create_watch(d, q, i, ok))
    \/ \E i \in Id, ok \in BOOLEAN :
        \/ Request("update_vehicle", p, LAMBDA d, q : update_vehicle(d, q, i, ok))
        \/ Request("update_watch", p, LAMBDA d, q : update_watch(d, q, i, ok))
    \/ \E i \in Id :
        \/ Request("get_vehicle", p, LAMBDA d, q : get_vehicle(d, q, i))
        \/ Request("delete_vehicle", p, LAMBDA d, q : delete_vehicle(d, q, i))
        \/ Request("delete_watch", p, LAMBDA d, q : delete_watch(d, q, i))

PassRequests(p) ==
    \/ Request("list_passes", p, LAMBDA d, q : list_passes(d, q))
    \/ \E i \in Unused, ok \in BOOLEAN :
          Request("create_pass", p, LAMBDA d, q : create_pass(d, q, i, ok))
    \/ \E i \in Id, status \in PassStatus \cup {"keep"}, ok \in BOOLEAN :
          Request("update_pass", p, LAMBDA d, q : update_pass(d, q, i, status, ok))
    \/ \E i \in Id :
        \/ Request("get_pass", p, LAMBDA d, q : get_pass(d, q, i))
        \/ Request("delete_pass", p, LAMBDA d, q : delete_pass(d, q, i))
        \/ \E n \in Unused :
            \/ Request("checkin_pass", p, LAMBDA d, q : checkin_pass(d, q, i, n))
            \/ Request("checkout_pass", p, LAMBDA d, q : checkout_pass(d, q, i, n))

EntryRequests(p) ==
    \/ \E ok \in BOOLEAN :
        \/ Request("list_entry_events", p, LAMBDA d, q : list_entry_events(d, q, ok))
        \/ Request("report_entry_log", p, LAMBDA d, q : report_entry_log(d, q, ok))
        \/ Request("report_exceptions", p, LAMBDA d, q : report_exceptions(d, q, ok))
        \/ Request("list_audit", p, LAMBDA d, q : list_audit(d, q, ok))
    \/ \E i \in Id :
        \/ Request("get_entry_event", p, LAMBDA d, q : get_entry_event(d, q, i))
        \/ Request("confirm_event", p, LAMBDA d, q : confirm_event(d, q, i))
        \/ Request("reject_event", p, LAMBDA d, q : reject_event(d, q, i))

GateRequests(p) ==
    \/ Request("get_gate_state", p, LAMBDA d, q : get_gate_state(d, q))
    \/ \E on \in {0, 1} : Request("put_gate_settings", p, LAMBDA d, q : put_gate_settings(d, q, on))
    \/ \E c \in Camera :
        \/ \E enabled \in {"yes", "no", "keep"} :
              Request("put_gate_policy", p, LAMBDA d, q : put_gate_policy(d, q, c, enabled))
        \/ Request("delete_gate_policy", p, LAMBDA d, q : delete_gate_policy(d, q, c))
        \/ \E n \in Unused, works \in BOOLEAN :
              Request("gate_open", p, LAMBDA d, q : gate_open(d, q, c, n, works))

-----------------------------------------------------------------------------
(***************************************************************************)
(* The routes of heldar-movement and heldar-search.  A camera link and a   *)
(* movement candidate belong to the two cameras they join; the engines     *)
(* that propose candidates and raise breaches are in Movement, what a      *)
(* search returns within its caps in Search.  A candidate's and a breach's *)
(* ref is its status.                                                      *)
(***************************************************************************)

-----------------------------------------------------------------------------
(* Movement.                                                               *)

require_resource_scope(d, p, t, i, then) == resource_camera(d, p, t, i, then)

\* One pass of the engines: a candidate for linked cameras that both saw the plate, unless there is
\* one, and a breach under the id of each zone event that has none.
propose_vehicle_candidates(d, n) ==
    LET seen(c) == OfCamera(d, "entry_events", c) # {}
        pairs == {l.cams : l \in {l \in Rows(d, "camera_links") : \A c \in l.cams : seen(c)}}
        known == {r.cams : r \in Rows(d, "movement_candidates")} IN
    Each(pairs \ known, LAMBDA cs : Ins(Row("movement_candidates", n, cs, "pending", 0)))

sweep(d) == Each(Rows(d, "zone_events"), LAMBDA e : Ins(Row("breach_alerts", e.id, e.cams, "open", 0)))

trigger_run(d, p, n) ==
    NeedCap(p, "RegistryManage",
    require_fleet_scope(p, Do(200, {}, propose_vehicle_candidates(d, n) \o sweep(d))))

\* Both cameras of a row must be held.
list_links(d, p) == NeedCap(p, "EventsRead", Give(Held(d, "camera_links", p)))

create_link(d, p, i, from, to, named) ==
    NeedCap(p, "RegistryManage",
    Valid(named /\ from # to,
    camera_scope_check(p, from,
    camera_scope_check(p, to,
    IF \E r \in Rows(d, "camera_links") : r.cams = {from, to} /\ r.ref = from THEN Refuse(409)
    ELSE Create(Row("camera_links", i, {from, to}, from, 0))))))

delete_link(d, p, i) ==
    NeedCap(p, "RegistryManage",
    require_resource_scope(d, p, "camera_links", i, Erase(d, "camera_links", i)))

list_candidates(d, p) == NeedCap(p, "EventsRead", Give(Held(d, "movement_candidates", p)))

SetStatus(d, p, t, i, status) ==
    LET new == {[r EXCEPT !.ref = status] : r \in Get(d, t, i)} IN
    NeedCap(p, "GateOperate",
    require_resource_scope(d, p, t, i, Do(200, new, Each(new, LAMBDA r : Upd(r, {"ref"})))))

resolve_candidate(d, p, i, status) == SetStatus(d, p, "movement_candidates", i, status)
confirm_candidate(d, p, i) == resolve_candidate(d, p, i, "confirmed")
reject_candidate(d, p, i) == resolve_candidate(d, p, i, "rejected")

list_breaches(d, p) == NeedCap(p, "EventsRead", Give(Held(d, "breach_alerts", p)))

set_breach_status(d, p, i, status) == SetStatus(d, p, "breach_alerts", i, status)
ack_breach(d, p, i) == set_breach_status(d, p, i, "acknowledged")
resolve_breach(d, p, i) == set_breach_status(d, p, i, "resolved")

row_in_scope(p, r) == Holds(p, r)

\* The trail and the candidates are read for the whole fleet, then filtered.
search_plate(d, p, ok) ==
    NeedCap(p, "EventsRead",
    Valid(ok, Give({r \in Rows(d, "entry_events") \cup Rows(d, "movement_candidates") : row_in_scope(p, r)})))

\* The tracks on the cameras linked from c, in either direction where the link says so (payload 1).
search_person(d, p, c, ok) ==
    LET linked == UNION {l.cams \ {c} : l \in {l \in OfCamera(d, "camera_links", c) : l.ref = c \/ l.v = 1}} IN
    NeedCap(p, "EventsRead",
    camera_scope_check(p, c,
    Valid(ok, Give({r \in Rows(d, "detections") : \E x \in linked : x \in r.cams /\ CameraAllowed(p, x)}))))

-----------------------------------------------------------------------------
(* Search.                                                                 *)

confine_requested_cameras(p, cs, Then(_)) ==
    confine_camera_ids(p, cs, LAMBDA own : IF Scoped(p) /\ own = {} THEN Refuse(403) ELSE Then(own))

\* What a planner names is cut to the scope, and widened to all of it when nothing is left.
confine_planned_cameras(p, planned, Then(_)) ==
    IF ~ Scoped(p) THEN Then(planned)
    ELSE IF p.scope = {} THEN Refuse(403)
    ELSE IF planned \cap p.scope # {} THEN Then(planned \cap p.scope) ELSE Then(p.scope)

\* The cameras a planner is told of.
cameras(d, p) == Held(d, "cameras", p)

\* A time of day across cameras on several sites' clocks is refused unless the caller names the zone.
resolve_tz(d, cs, zoned, hours, then) ==
    LET clocks == {r.ref : r \in {r \in Rows(d, "cameras") : cs = {} \/ r.id \in cs}} IN
    Valid(zoned \/ ~ hours \/ Cardinality(clocks) <= 1, then)

\* An empty list of cameras is every camera.
camera_pred(r, cs) == cs = {} \/ (r.cams # {} /\ r.cams \subseteq cs)

execute_in(d, cs) ==
    {r \in d : r.t \in {"entry_events", "zone_events", "breach_alerts"} /\ camera_pred(r, cs)}

\* The log row of a search is best effort, and belongs to whoever searched.
log_search(p, n) == Ins(Row("search_log", n, p.scope \cap Camera, p.id, 0))

search_events(d, p, n, cs, zoned, hours) ==
    NeedCap(p, "EventsRead",
    confine_requested_cameras(p, cs, LAMBDA own :
    resolve_tz(d, own, zoned, hours, Do(200, execute_in(d, own), <<log_search(p, n)>>))))

\* The planner, a model or the rules, names any of the cameras it is told of.
Planned(d, p, named, cs, hours, Then(_)) ==
    NeedCap(p, "EventsRead",
    Valid(named,
    confine_planned_cameras(p, cs \cap {r.id : r \in cameras(d, p)}, LAMBDA own :
    resolve_tz(d, own, FALSE, hours, Then(own)))))

search_nl(d, p, n, named, cs, hours) ==
    Planned(d, p, named, cs, hours, LAMBDA own : Do(200, execute_in(d, own), <<log_search(p, n)>>))

plan_only(d, p, named, cs, hours) ==
    Planned(d, p, named, cs, hours, LAMBDA own : Give({r \in Rows(d, "cameras") : r.id \in own}))

\* zone: a zone to search in, or none.  Its camera must be among the ones asked for.  works: a
\* worker embeds the query in time.
search_semantic(d, p, n, cs, zone, ok, works) ==
    LET z == Get(d, "zones", zone)
        zcams == UNION {r.cams : r \in z}
        cams == IF zone = None THEN cs ELSE zcams IN
    NeedCap(p, "EventsRead",
    Valid(ok,
    IF zone # None /\ z = {} THEN Refuse(404)
    ELSE Valid(zone = None \/ cs = {} \/ zcams \subseteq cs,
         IF works THEN Do(200, {r \in Rows(d, "detections") : camera_pred(r, cams)}, <<log_search(p, n)>>)
         ELSE Refuse(503))))

search_semantic_scoped(d, p, n, cs, zone, ok, works) ==
    LET search == confine_requested_cameras(p, cs, LAMBDA own : search_semantic(d, p, n, own, zone, ok, works)) IN
    IF Scoped(p) /\ zone # None THEN resource_camera(d, p, "zones", zone, search) ELSE search

-----------------------------------------------------------------------------
(* Requests.                                                               *)

MovementRequests(p) ==
    \/ \E n \in Unused : Request("trigger_run", p, LAMBDA d, q : trigger_run(d, q, n))
    \/ Request("list_links", p, LAMBDA d, q : list_links(d, q))
    \/ Request("list_candidates", p, LAMBDA d, q : list_candidates(d, q))
    \/ Request("list_breaches", p, LAMBDA d, q : list_breaches(d, q))
    \/ \E i \in Unused, from, to \in Camera, named \in BOOLEAN :
          Request("create_link", p, LAMBDA d, q : create_link(d, q, i, from, to, named))
    \/ \E i \in Id :
        \/ Request("delete_link", p, LAMBDA d, q : delete_link(d, q, i))
        \/ Request("confirm_candidate", p, LAMBDA d, q : confirm_candidate(d, q, i))
        \/ Request("reject_candidate", p, LAMBDA d, q : reject_candidate(d, q, i))
        \/ Request("ack_breach", p, LAMBDA d, q : ack_breach(d, q, i))
        \/ Request("resolve_breach", p, LAMBDA d, q : resolve_breach(d, q, i))
    \/ \E ok \in BOOLEAN : Request("search_plate", p, LAMBDA d, q : search_plate(d, q, ok))
    \/ \E c \in Camera, ok \in BOOLEAN : Request("search_person", p, LAMBDA d, q : search_person(d, q, c, ok))

SearchRequests(p) ==
    \E n \in Unused, cs \in SUBSET Camera, hours \in BOOLEAN :
        \/ \E zoned \in BOOLEAN :
              Request("search_events", p, LAMBDA d, q : search_events(d, q, n, cs, zoned, hours))
        \/ \E named \in BOOLEAN :
            \/ Request("search_nl", p, LAMBDA d, q : search_nl(d, q, n, named, cs, hours))
            \/ Request("plan_only", p, LAMBDA d, q : plan_only(d, q, named, cs, hours))
            \/ \E zone \in {None, "x1", "x2"} :
                  Request("search_semantic_scoped", p,
                          LAMBDA d, q : search_semantic_scoped(d, q, n, cs, zone, named, hours))
=============================================================================
