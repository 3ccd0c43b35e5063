----------------------------- MODULE ApiCameras -----------------------------
(***************************************************************************)
(* The routes that keep the registry: cameras, sites, zones and the two    *)
(* kinds of schedule (routes/cameras.rs, sites.rs, zones.rs, schedules.rs, *)
(* snapshot_schedules.rs).                                                 *)
(***************************************************************************)
EXTENDS Api

CONSTANTS ZoneName      \* names a zone may be given

-----------------------------------------------------------------------------
(* Cameras.  The row of a camera refers to its site.                       *)

list_cameras(d, p) == NeedCap(p, "CameraRead", Give(Held(d, "cameras", p)))

get_camera(d, p, c) ==
    NeedCap(p, "CameraRead", camera_for(d, p, c, Give(Get(d, "cameras", c))))

\* The scope is checked before the id is looked up.
create_camera(d, p, c, s, named, ok) ==
    LET cam == Row("cameras", c, {c}, s, 0)
        place == camera_scope_check(p, c,
                 IF Exists(d, "cameras", c) THEN Refuse(409)
                 ELSE Valid(ok /\ Sound(d, cam),
                      Do(201, {cam}, <<Ins(cam), Put(Row("camera_status", c, {c}, None, 0))>>))) IN
    NeedCap(p, "RegistryManage",
    Valid(named,
    IF s # None THEN require_fleet_scope(p, place) ELSE place))

\* Every column is written from the row read at the start.  "keep": the body does not name a site.
update_camera(d, p, c, s, ok) ==
    LET cur == CHOOSE r \in Get(d, "cameras", c) : TRUE
        new == [cur EXCEPT !.v = 1, !.ref = IF s = "keep" THEN @ ELSE s]
        save == Valid(ok /\ Sound(d, new), Do(200, {new}, <<Upd(new, Whole)>>)) IN
    NeedCap(p, "RegistryManage",
    camera_for(d, p, c,
    IF new.ref # cur.ref THEN require_fleet_scope(p, save) ELSE save))

\* The capability of its siblings.
delete_camera_Manager(d, p, c) ==
    NeedCap(p, "RegistryManage",
    camera_for(d, p, c,
    IF \E r \in OfCamera(d, "segments", c) : r.v = 1 THEN Refuse(409)
    ELSE Do(204, {}, Each(Get(d, "cameras", c), Del))))

\* Refused while a segment of the camera is under an evidence hold.
delete_camera(d, p, c) ==
    NeedCap(p, "Admin",
    camera_for(d, p, c,
    IF \E r \in OfCamera(d, "segments", c) : r.v = 1 THEN Refuse(409)
    ELSE Do(204, {}, Each(Get(d, "cameras", c), Del))))

test_camera(d, p, c, hasUrl) ==
    NeedCap(p, "CameraRead", camera_for(d, p, c, Valid(hasUrl, Give(Get(d, "cameras", c)))))

list_status(d, p) ==
    NeedCap(p, "CameraRead", Give(Held(d, "camera_status", p) \cup Held(d, "cameras", p)))

camera_status(d, p, c) ==
    NeedCap(p, "CameraRead",
    camera_scope_check(p, c,
    Found(Get(d, "camera_status", c), Give(Get(d, "camera_status", c) \cup Get(d, "cameras", c)))))

-----------------------------------------------------------------------------
(* Sites.                                                                  *)

visible_site(d, p, s) == Scoped(p) => \E r \in Held(d, "cameras", p) : r.ref = s

list_sites(d, p) ==
    NeedCap(p, "CameraRead", Give({r \in Rows(d, "sites") : visible_site(d, p, r.id)}))

get_site(d, p, s) ==
    NeedCap(p, "CameraRead",
    Found({r \in Get(d, "sites", s) : visible_site(d, p, s)}, Give(Get(d, "sites", s))))

create_site(d, p, s, ok) ==
    NeedAdmin(p,
    require_fleet_scope(p,
    Valid(ok,
    IF Exists(d, "sites", s) THEN Refuse(409) ELSE Create(Row("sites", s, {}, None, 0)))))

\* Answers with the number of cameras whose clock it moves.
update_site(d, p, s, ok) ==
    NeedAdmin(p,
    require_fleet_scope(p,
    Found(Get(d, "sites", s),
    Valid(ok, Patch(d, "sites", s)))))

delete_site(d, p, s) ==
    NeedAdmin(p,
    require_fleet_scope(p,
    Found(Get(d, "sites", s),
    IF DeleteSite(d, s) = d THEN Refuse(409) ELSE Erase(d, "sites", s))))

-----------------------------------------------------------------------------
(* Zones.  The row of a zone refers to its name.                           *)

list_zones(d, p, c) ==
    NeedCap(p, "EventsRead", camera_for(d, p, c, Give(OfCamera(d, "zones", c))))

\* A zone of that name is returned as it is.
create_zone(d, p, c, n, i, ok) ==
    LET same == {r \in OfCamera(d, "zones", c) : r.ref = n} IN
    NeedCap(p, "RegistryManage",
    camera_for(d, p, c,
    Valid(ok,
    IF same # {} THEN Give(same) ELSE Create(Row("zones", i, {c}, n, 0)))))

update_zone(d, p, i, n, ok) ==
    LET new == {[r EXCEPT !.v = 1, !.ref = n] : r \in Get(d, "zones", i)} IN
    NeedCap(p, "RegistryManage",
    resource_camera(d, p, "zones", i,
    Valid(ok, Do(200, new, Each(new, LAMBDA r : Upd(r, Whole))))))

delete_zone(d, p, i) ==
    NeedCap(p, "RegistryManage",
    resource_camera(d, p, "zones", i, Erase(d, "zones", i)))

\* An event is shown with the segment that recorded it.
list_zone_events(d, p, c, ok) ==
    NeedCap(p, "EventsRead",
    camera_for(d, p, c,
    Valid(ok, Give(OfCamera(d, "zone_events", c) \cup OfCamera(d, "segments", c)))))

zone_event_aggregates(d, p, c, ok) ==
    NeedCap(p, "EventsRead",
    camera_for(d, p, c, Valid(ok, Give(OfCamera(d, "zone_events", c)))))

zone_occupancy(d, p, c) ==
    NeedCap(p, "EventsRead", camera_for(d, p, c, Give(OfCamera(d, "zone_occupancy", c) \cup OfCamera(d, "zones", c))))

-----------------------------------------------------------------------------
(* Recording and snapshot schedules.                                       *)

list_schedules(d, p, c) ==
    NeedCap(p, "CameraRead", camera_for(d, p, c, Give(OfCamera(d, "camera_schedules", c))))

create_schedule(d, p, c, i, ok) ==
    NeedCap(p, "RegistryManage",
    camera_for(d, p, c, Valid(ok, Create(Row("camera_schedules", i, {c}, None, 0)))))

update_schedule(d, p, i, ok) ==
    NeedCap(p, "RegistryManage",
    resource_camera(d, p, "camera_schedules", i, Valid(ok, Patch(d, "camera_schedules", i))))

delete_schedule(d, p, i) ==
    NeedCap(p, "RegistryManage",
    resource_camera(d, p, "camera_schedules", i, Erase(d, "camera_schedules", i)))

list_snapshot_schedules(d, p, c) ==
    NeedCap(p, "CameraRead", camera_for(d, p, c, Give(OfCamera(d, "snapshot_schedules", c))))

create_snapshot_schedule(d, p, c, i) ==
    NeedCap(p, "RegistryManage",
    camera_for(d, p, c, Create(Row("snapshot_schedules", i, {c}, None, 0))))

update_snapshot_schedule(d, p, i) ==
    NeedCap(p, "RegistryManage",
    resource_camera(d, p, "snapshot_schedules", i, Patch(d, "snapshot_schedules", i)))

delete_snapshot_schedule(d, p, i) ==
    NeedCap(p, "RegistryManage",
    resource_camera(d, p, "snapshot_schedules", i, Erase(d, "snapshot_schedules", i)))

list_snapshots(d, p, c, ok) ==
    NeedCap(p, "VideoPlayback",
    camera_for(d, p, c, Valid(ok, Give(OfCamera(d, "snapshots", c)))))

-----------------------------------------------------------------------------
(* Requests.                                                               *)

CameraRequests(p, sites) ==
    \E c \in Camera :
        \/ \E s \in sites \cup {None}, named, ok \in BOOLEAN :
              Request("create_camera", p, LAMBDA d, q : create_camera(d, q, c, s, named, ok))
        \/ Request("delete_camera", p, LAMBDA d, q : delete_camera(d, q, c))

FleetRequests(p) ==
    \/ CameraRequests(p, Site)
    \/ Request("list_cameras", p, LAMBDA d, q : list_cameras(d, q))
    \/ Request("list_status", p, LAMBDA d, q : list_status(d, q))
    \/ Request("list_sites", p, LAMBDA d, q : list_sites(d, q))
    \/ \E c \in Camera, ok \in BOOLEAN :
        \/ Request("get_camera", p, LAMBDA d, q : get_camera(d, q, c))
        \/ Request("camera_status", p, LAMBDA d, q : camera_status(d, q, c))
        \/ Request("test_camera", p, LAMBDA d, q : test_camera(d, q, c, ok))
        \/ \E s \in Site \cup {None, "keep"} :
              Request("update_camera", p, LAMBDA d, q : update_camera(d, q, c, s, ok))
    \/ \E s \in Site, ok \in BOOLEAN :
        \/ Request("get_site", p, LAMBDA d, q : get_site(d, q, s))
        \/ Request("create_site", p, LAMBDA d, q : create_site(d, q, s, ok))
        \/ Request("update_site", p, LAMBDA d, q : update_site(d, q, s, ok))
        \/ Request("delete_site", p, LAMBDA d, q : delete_site(d, q, s))

ZoneRequests(p) ==
    \/ CameraRequests(p, {})
    \/ \E c \in Camera, ok \in BOOLEAN :
        \/ Request("list_zones", p, LAMBDA d, q : list_zones(d, q, c))
        \/ Request("list_zone_events", p, LAMBDA d, q : list_zone_events(d, q, c, ok))
        \/ Request("zone_event_aggregates", p, LAMBDA d, q : zone_event_aggregates(d, q, c, ok))
        \/ Request("zone_occupancy", p, LAMBDA d, q : zone_occupancy(d, q, c))
        \/ \E n \in ZoneName, i \in Unused :
              Request("create_zone", p, LAMBDA d, q : create_zone(d, q, c, n, i, ok))
    \/ \E i \in Id, ok \in BOOLEAN :
        \/ \E n \in ZoneName :
              Request("update_zone", p, LAMBDA d, q : update_zone(d, q, i, n, ok))
        \/ Request("delete_zone", p, LAMBDA d, q : delete_zone(d, q, i))

ScheduleRequests(p) ==
    \/ CameraRequests(p, {})
    \/ \E c \in Camera, ok \in BOOLEAN :
        \/ Request("list_schedules", p, LAMBDA d, q : list_schedules(d, q, c))
        \/ \E i \in Unused :
              Request("create_schedule", p, LAMBDA d, q : create_schedule(d, q, c, i, ok))
    \/ \E i \in Id, ok \in BOOLEAN :
        \/ Request("update_schedule", p, LAMBDA d, q : update_schedule(d, q, i, ok))
        \/ Request("delete_schedule", p, LAMBDA d, q : delete_schedule(d, q, i))

SnapshotRequests(p) ==
    \/ CameraRequests(p, {})
    \/ \E c \in Camera, ok \in BOOLEAN :
        \/ Request("list_snapshot_schedules", p, LAMBDA d, q : list_snapshot_schedules(d, q, c))
        \/ Request("list_snapshots", p, LAMBDA d, q : list_snapshots(d, q, c, ok))
        \/ \E i \in Unused :
              Request("create_snapshot_schedule", p, LAMBDA d, q : create_snapshot_schedule(d, q, c, i))
    \/ \E i \in Id :
        \/ Request("update_snapshot_schedule", p, LAMBDA d, q : update_snapshot_schedule(d, q, i))
        \/ Request("delete_snapshot_schedule", p, LAMBDA d, q : delete_snapshot_schedule(d, q, i))

-----------------------------------------------------------------------------
(***************************************************************************)
(* The routes that reach the camera itself (routes/camera_control.rs,      *)
(* camera_config.rs, onvif.rs, discovery.rs).  The row "device" is the     *)
(* configuration kept on the camera, external to the server, and link how  *)
(* the calls to it go: they answer, they do not, or the write is done and  *)
(* reading it back fails.                                                  *)
(***************************************************************************)

Link == {"up", "down", "drops"}

Device(d, c) == Get(d, "device", c)

\* provider_for: the scope and the camera come before any call to the device.
ReadDevice(d, p, c, link) ==
    NeedCap(p, "CameraRead",
    camera_for(d, p, c, IF link = "up" THEN Give(Device(d, c)) ELSE Refuse(502)))

\* A write, then a read of what the device has made of it, then what follows.
SetDevice(d, p, c, link, after) ==
    LET new == {Patched(r) : r \in Device(d, c)}
        eff == Each(new, LAMBDA r : Upd(r, {"v"})) IN
    NeedCap(p, "RegistryManage",
    camera_for(d, p, c,
    CASE link = "up" -> Do(200, new, eff \o after)
      [] link = "down" -> Refuse(502)
      [] link = "drops" -> Do(502, {}, eff)))

get_day_night(d, p, c, link) == ReadDevice(d, p, c, link)
get_image(d, p, c, link) == ReadDevice(d, p, c, link)
get_line_crossing(d, p, c, link) == ReadDevice(d, p, c, link)
get_intrusion(d, p, c, link) == ReadDevice(d, p, c, link)
get_motion(d, p, c, link) == ReadDevice(d, p, c, link)
list_outputs(d, p, c, link) == ReadDevice(d, p, c, link)
get_video_list(d, p, c, link) == ReadDevice(d, p, c, link)
get_video(d, p, c, link) == ReadDevice(d, p, c, link)
get_time(d, p, c, link) == ReadDevice(d, p, c, link)
get_ntp(d, p, c, link) == ReadDevice(d, p, c, link)
get_onvif_settings(d, p, c, link) == ReadDevice(d, p, c, link)
get_osd(d, p, c, link) == ReadDevice(d, p, c, link)

\* The body is validated before the camera is looked at.
put_day_night(d, p, c, link, ok) ==
    NeedCap(p, "RegistryManage", Valid(ok, SetDevice(d, p, c, link, <<>>)))

put_image(d, p, c, link) == SetDevice(d, p, c, link, <<>>)

\* spawn_probe: the capabilities kept for the camera are refreshed in the background.
Probed(c) == Put(Row("capabilities", c, {c}, None, 1))

put_detection(d, p, c, link) == SetDevice(d, p, c, link, <<Probed(c)>>)
put_line_crossing(d, p, c, link) == SetDevice(d, p, c, link, <<Probed(c)>>)
put_intrusion(d, p, c, link) == SetDevice(d, p, c, link, <<Probed(c)>>)
put_motion(d, p, c, link) == SetDevice(d, p, c, link, <<Probed(c)>>)
put_video(d, p, c, link) == SetDevice(d, p, c, link, <<>>)
put_time(d, p, c, link) == SetDevice(d, p, c, link, <<>>)
put_ntp(d, p, c, link) == SetDevice(d, p, c, link, <<>>)
sync_now(d, p, c, link) == SetDevice(d, p, c, link, <<>>)
put_onvif_settings(d, p, c, link) == SetDevice(d, p, c, link, <<>>)
put_osd(d, p, c, link) == SetDevice(d, p, c, link, <<>>)

get_capabilities(d, p, c) ==
    NeedCap(p, "CameraRead",
    camera_scope_check(p, c, Found(Get(d, "cameras", c), Give(Get(d, "capabilities", c)))))

\* What does not answer is recorded as missing: the map is stored whatever the link does.
probe_control(d, p, c) ==
    NeedCap(p, "RegistryManage",
    camera_scope_check(p, c, Found(Get(d, "cameras", c), Do(200, {Probed(c).row}, <<Probed(c)>>))))

\* High, a pause, low: see Anpr.
pulse_output(d, p, c, link) ==
    NeedCap(p, "RegistryManage",
    camera_scope_check(p, c,
    Found(Get(d, "cameras", c), IF link = "up" THEN Give(Get(d, "cameras", c)) ELSE Refuse(400))))

\* The device's identity is kept beside the ONVIF flag (v), which this upsert leaves alone.
get_device_info(d, p, c, link) ==
    NeedCap(p, "CameraRead",
    camera_for(d, p, c,
    IF link = "up" THEN Do(200, Device(d, c), <<Ins(Row("camera_isapi", c, {c}, None, 0))>>)
    ELSE Refuse(502)))

\* Says whether the flag was already up when it was read.
ensure_onvif_user(d, p, c, link) ==
    NeedCap(p, "RegistryManage",
    camera_for(d, p, c,
    IF link = "up" THEN Do(200, Get(d, "camera_isapi", c), <<Put(Row("camera_isapi", c, {c}, None, 1))>>)
    ELSE Refuse(502)))

reboot(d, p, c, link, confirm) ==
    NeedCap(p, "RegistryManage",
    camera_for(d, p, c,
    Valid(confirm, IF link = "up" THEN Give(Get(d, "cameras", c)) ELSE Refuse(502))))

\* A list is confined; without one, the enabled cameras in scope.  Each camera is tried on its own
\* and its failure is an entry of the answer.
bulk_config(d, p, cs, link) ==
    LET run(ids) == LET new == {Patched(r) : r \in UNION {Device(d, c) : c \in {c \in ids : Exists(d, "cameras", c)}}} IN
                    Do(200, new, IF link = "down" THEN <<>> ELSE Each(new, LAMBDA r : Upd(r, {"v"}))) IN
    NeedCap(p, "RegistryManage",
    IF cs = All THEN run({r.id : r \in {r \in Held(d, "cameras", p) : r.v = 0}})
    ELSE confine_camera_ids(p, cs, run))

-----------------------------------------------------------------------------
(* ONVIF and discovery.                                                    *)

discover(d, p) == NeedCap(p, "RegistryManage", require_fleet_scope(p, Give({})))

get_onvif(d, p, c) ==
    NeedCap(p, "CameraRead",
    camera_for(d, p, c, Found(Get(d, "camera_onvif", c), Give(Get(d, "camera_onvif", c)))))

\* The profile says whether the device has a PTZ service (v).
probe_onvif(d, p, c, link, ptz) ==
    LET new == Row("camera_onvif", c, {c}, None, ptz) IN
    NeedCap(p, "RegistryManage",
    camera_for(d, p, c, IF link = "up" THEN Do(200, {new}, <<Put(new)>>) ELSE Refuse(502)))

list_presets(d, p, c) ==
    NeedCap(p, "CameraRead", camera_for(d, p, c, Give(OfCamera(d, "presets", c))))

\* load_ptz_target, then the call.
Ptz(d, p, c, link, then) ==
    NeedCap(p, "RegistryManage",
    camera_for(d, p, c,
    Found(Get(d, "camera_onvif", c),
    Valid(\E r \in Get(d, "camera_onvif", c) : r.v = 1,
    IF link = "up" THEN then ELSE Refuse(502)))))

\* Every preset the device reports is upserted and the others are deleted.
refresh_presets(d, p, c, link, some) ==
    LET new == Row("presets", c, {c}, None, 0) IN
    Ptz(d, p, c, link, IF some THEN Do(200, {new}, <<Put(new)>>) ELSE Do(200, {}, <<Del(new)>>))

continuous_move(d, p, c, link) == Ptz(d, p, c, link, Give({}))
ptz_stop(d, p, c, link) == Ptz(d, p, c, link, Give({}))
goto_preset(d, p, c, link) == Ptz(d, p, c, link, Give({}))

\* found: the verified devices that are not registered yet.
discover_handler(d, p, found, add) ==
    LET new == {Row("cameras", c, {c}, None, 0) : c \in {c \in found : ~ Exists(d, "cameras", c)}} IN
    NeedCap(p, "NetScan",
    require_fleet_scope(p,
    IF add THEN NeedCap(p, "RegistryManage", Do(200, new, Each(new, Ins))) ELSE Give(new)))

-----------------------------------------------------------------------------
(* Requests.                                                               *)

ControlRequests(p) ==
    \E c \in Camera, link \in Link :
        \/ Request("get_day_night", p, LAMBDA d, q : get_day_night(d, q, c, link))
        \/ Request("get_image", p, LAMBDA d, q : get_image(d, q, c, link))
        \/ Request("get_line_crossing", p, LAMBDA d, q : get_line_crossing(d, q, c, link))
        \/ Request("get_intrusion", p, LAMBDA d, q : get_intrusion(d, q, c, link))
        \/ Request("get_motion", p, LAMBDA d, q : get_motion(d, q, c, link))
        \/ Request("list_outputs", p, LAMBDA d, q : list_outputs(d, q, c, link))
        \/ Request("put_image", p, LAMBDA d, q : put_image(d, q, c, link))
        \/ Request("put_detection", p, LAMBDA d, q : put_detection(d, q, c, link))
        \/ Request("put_line_crossing", p, LAMBDA d, q : put_line_crossing(d, q, c, link))
        \/ Request("put_intrusion", p, LAMBDA d, q : put_intrusion(d, q, c, link))
        \/ Request("put_motion", p, LAMBDA d, q : put_motion(d, q, c, link))
        \/ Request("pulse_output", p, LAMBDA d, q : pulse_output(d, q, c, link))
        \/ \E ok \in BOOLEAN : Request("put_day_night", p, LAMBDA d, q : put_day_night(d, q, c, link, ok))
        \/ Request("get_capabilities", p, LAMBDA d, q : get_capabilities(d, q, c))
        \/ Request("probe_control", p, LAMBDA d, q : probe_control(d, q, c))

ConfigRequests(p) ==
    \/ \E c \in Camera, link \in Link :
        \/ Request("get_video_list", p, LAMBDA d, q : get_video_list(d, q, c, link))
        \/ Request("get_video", p, LAMBDA d, q : get_video(d, q, c, link))
        \/ Request("get_time", p, LAMBDA d, q : get_time(d, q, c, link))
        \/ Request("get_ntp", p, LAMBDA d, q : get_ntp(d, q, c, link))
        \/ Request("get_onvif_settings", p, LAMBDA d, q : get_onvif_settings(d, q, c, link))
        \/ Request("get_osd", p, LAMBDA d, q : get_osd(d, q, c, link))
        \/ Request("put_video", p, LAMBDA d, q : put_video(d, q, c, link))
        \/ Request("put_time", p, LAMBDA d, q : put_time(d, q, c, link))
        \/ Request("put_ntp", p, LAMBDA d, q : put_ntp(d, q, c, link))
        \/ Request("sync_now", p, LAMBDA d, q : sync_now(d, q, c, link))
        \/ Request("put_onvif_settings", p, LAMBDA d, q : put_onvif_settings(d, q, c, link))
        \/ Request("put_osd", p, LAMBDA d, q : put_osd(d, q, c, link))
        \/ Request("get_device_info", p, LAMBDA d, q : get_device_info(d, q, c, link))
        \/ Request("ensure_onvif_user", p, LAMBDA d, q : ensure_onvif_user(d, q, c, link))
        \/ \E ok \in BOOLEAN : Request("reboot", p, LAMBDA d, q : reboot(d, q, c, link, ok))
    \/ \E cs \in SUBSET Camera \cup {All}, link \in {"up", "down"} :
          Request("bulk_config", p, LAMBDA d, q : bulk_config(d, q, cs, link))

OnvifRequests(p) ==
    \/ \E c \in Camera, link \in Link :
        \/ \E ptz \in {0, 1} :
              Request("probe_onvif", p, LAMBDA d, q : probe_onvif(d, q, c, link, ptz))
        \/ \E some \in BOOLEAN :
              Request("refresh_presets", p, LAMBDA d, q : refresh_presets(d, q, c, link, some))
        \/ Request("continuous_move", p, LAMBDA d, q : continuous_move(d, q, c, link))
        \/ Request("ptz_stop", p, LAMBDA d, q : ptz_stop(d, q, c, link))
        \/ Request("goto_preset", p, LAMBDA d, q : goto_preset(d, q, c, link))
        \/ Request("get_onvif", p, LAMBDA d, q : get_onvif(d, q, c))
        \/ Request("list_presets", p, LAMBDA d, q : list_presets(d, q, c))
    \/ Request("discover", p, LAMBDA d, q : discover(d, q))
    \/ \E found \in SUBSET Camera, add \in BOOLEAN :
          Request("discover_handler", p, LAMBDA d, q : discover_handler(d, q, found, add))
=============================================================================
