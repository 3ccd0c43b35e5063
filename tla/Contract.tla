------------------------------ MODULE Contract ------------------------------
(***************************************************************************)
(* What the OpenAPI document publishes of each route: the capability its   *)
(* handler checks first and how it treats a camera-scoped credential       *)
(* (openapi_security.rs: REQUIREMENTS).  A route is named by its handler;  *)
(* routes whose handler is not a request of the Api modules (accounts,     *)
(* embedding queue, user interface bundles) are left out.                  *)
(***************************************************************************)
EXTENDS FiniteSets

\* The routes of one capability and one scoping; "Role" stands for a route gated on the role.
Declare(cap, scoping, ops) == {[op |-> o, cap |-> cap, scoping |-> scoping] : o \in ops}

CoreRoutes ==
    Declare("CameraRead", "Filtered", {"list_cameras", "list_sites"})
        \cup Declare("CameraRead", "CameraKeyed", {"get_camera", "get_site"})
        \cup Declare("Admin", "CameraKeyed", {"delete_camera"})
        \cup Declare("VideoExport", "CameraKeyed", {"create_evidence", "get_evidence", "export_clip"})
        \cup Declare("VideoExport", "Filtered", {"list_evidence"})
        \cup Declare("SystemRead", "Neutral", {"get_timezone"})
        \cup Declare("Role", "FleetOnly", {"put_timezone", "create_site", "update_site", "delete_site"})
        \cup Declare("VideoPlayback", "CameraKeyed", {"list_segments", "timeline", "gaps", "snapshot_handler"})

ConfigRoutes ==
    Declare("VideoPlayback", "CameraKeyed", {"create_session", "delete_session"})
        \cup Declare("RegistryManage", "Filtered", {"bulk_config"})
        \cup Declare("CameraRead", "CameraKeyed",
                     {"get_device_info", "get_video_list", "get_video", "get_time", "get_ntp", "get_onvif_settings", "get_osd"})
        \cup Declare("RegistryManage", "CameraKeyed",
                     {"record_trigger", "put_video", "put_time", "put_ntp", "sync_now", "put_onvif_settings", "ensure_onvif_user",
                      "put_osd", "reboot"})

BackupRoutes ==
    Declare("SystemRead", "FleetOnly", {"list_destinations"})
        \cup Declare("RegistryManage", "FleetOnly",
                     {"create_destination", "update_destination", "delete_destination", "test_destination"})
        \cup Declare("SystemRead", "Filtered", {"list_policies", "list_jobs", "get_job", "list_archive_exports"})
        \cup Declare("RegistryManage", "Filtered",
                     {"create_policy", "update_policy", "delete_policy", "trigger_policy", "delete_job", "archive_export"})

MovementRoutes ==
    Declare("RegistryManage", "FleetOnly", {"trigger_run"})
        \cup Declare("EventsRead", "Filtered", {"list_links", "list_candidates", "list_breaches", "search_plate"})
        \cup Declare("RegistryManage", "CameraKeyed", {"create_link", "delete_link"})
        \cup Declare("GateOperate", "CameraKeyed",
                     {"confirm_candidate", "reject_candidate", "ack_breach", "resolve_breach"})
        \cup Declare("EventsRead", "CameraKeyed", {"search_person"})

ControlRoutes ==
    Declare("CameraRead", "CameraKeyed",
            {"get_capabilities", "get_day_night", "get_image", "get_line_crossing", "get_intrusion", "get_motion", "list_outputs"})
        \cup Declare("RegistryManage", "CameraKeyed",
                     {"probe_control", "put_day_night", "put_image", "put_detection", "put_line_crossing", "put_intrusion",
                      "put_motion", "pulse_output"})

AiRoutes ==
    Declare("AiTasks", "CameraKeyed", {"list_camera_tasks"})
        \cup Declare("RegistryManage", "CameraKeyed", {"create_task", "update_task", "delete_task"})
        \cup Declare("AiTasks", "Filtered", {"list_all_tasks", "acquire_lease", "sampler_status"})
        \cup Declare("AiTasks", "Neutral", {"release_lease"})
        \cup Declare("AiIngest", "CameraKeyed", {"ingest", "ingest_embeddings"})
        \cup Declare("AiFrames", "CameraKeyed", {"latest_frame"})
        \cup Declare("EventsRead", "CameraKeyed", {"list_detections"})

OnvifRoutes ==
    Declare("RegistryManage", "FleetOnly", {"discover"})
        \cup Declare("CameraRead", "CameraKeyed", {"get_onvif", "list_presets"})
        \cup Declare("RegistryManage", "CameraKeyed",
                     {"probe_onvif", "refresh_presets", "continuous_move", "ptz_stop", "goto_preset"})

RegisterRoutes ==
    Declare("IdentityRead", "Neutral", {"list_vehicles", "get_vehicle", "list_passes", "get_pass", "list_watchlist"})
        \cup Declare("RegistryManage", "FleetOnly",
                     {"create_vehicle", "update_vehicle", "delete_vehicle", "delete_pass", "create_watch", "update_watch",
                      "delete_watch"})
        \cup Declare("GateOperate", "FleetOnly", {"create_pass", "update_pass", "checkin_pass", "checkout_pass"})

EntryRoutes ==
    Declare("EventsRead", "Filtered", {"list_entry_events", "report_entry_log", "report_exceptions"})
        \cup Declare("EventsRead", "CameraKeyed", {"get_entry_event"})
        \cup Declare("GateOperate", "CameraKeyed", {"confirm_event", "reject_event", "gate_open"})
        \cup Declare("RegistryManage", "Filtered", {"list_audit"})
        \cup Declare("IdentityRead", "Filtered", {"get_gate_state"})
        \cup Declare("RegistryManage", "FleetOnly", {"put_gate_settings"})
        \cup Declare("RegistryManage", "CameraKeyed", {"put_gate_policy", "delete_gate_policy"})

ZoneRoutes ==
    Declare("EventsRead", "CameraKeyed", {"list_zones", "list_zone_events", "zone_event_aggregates", "zone_occupancy"})
        \cup Declare("RegistryManage", "CameraKeyed", {"create_zone", "update_zone", "delete_zone"})
        \cup Declare("EventsRead", "Neutral", {"list_webhooks", "list_deliveries", "event_types"})
        \cup Declare("RegistryManage", "FleetOnly",
                     {"create_webhook", "update_webhook", "delete_webhook", "test_webhook"})

SystemRoutes ==
    Declare("SystemRead", "Filtered", {"system_info"})
        \cup Declare("SystemRead", "Neutral", {"get_retention", "get_transcode"})
        \cup Declare("SystemRead", "FleetOnly", {"get_db_status"})
        \cup Declare("Role", "FleetOnly", {"put_retention", "put_db_limit", "post_db_convert", "put_transcode"})
        \cup Declare("EventsRead", "Filtered", {"search_events", "search_nl", "plan_only", "search_semantic_scoped"})

RecordRoutes ==
    Declare("VideoPlayback", "CameraKeyed", {"list_gaps"})
        \cup Declare("RegistryManage", "CameraKeyed", {"retry_gap", "lock_evidence", "unlock_evidence", "tag_incident"})
        \cup Declare("CameraRead", "Filtered", {"list_status"})
        \cup Declare("CameraRead", "CameraKeyed", {"camera_status"})
        \cup Declare("EventsRead", "FleetOnly", {"list_events"})
        \cup Declare("EventsRead", "Filtered", {"list_incidents"})
        \cup Declare("VideoPlayback", "Filtered", {"incident_segments"})
        \cup Declare("SystemRead", "FleetOnly", {"list_modules"})
        \cup Declare("Role", "FleetOnly", {"register_module", "list_outbox"})
        \cup Declare("Role", "CameraKeyed", {"module_detail", "unregister_module"})
        \cup Declare("SystemRead", "Filtered", {"site_info"})

ScheduleRoutes ==
    Declare("SystemRead", "FleetOnly", {"list_registry"})
        \cup Declare("Role", "FleetOnly", {"refresh_registry", "get_posture", "get_provenance_readiness"})
        \cup Declare("CameraRead", "CameraKeyed", {"list_snapshot_schedules", "list_schedules", "test_camera"})
        \cup Declare("RegistryManage", "CameraKeyed", {"create_snapshot_schedule", "create_schedule"})
        \cup Declare("RegistryManage", "FleetOnly", {"update_snapshot_schedule", "delete_snapshot_schedule"})
        \cup Declare("VideoPlayback", "CameraKeyed", {"list_snapshots"})
        \cup Declare("VideoLive", "CameraKeyed", {"liveview"})
        \cup Declare("RegistryManage", "Filtered", {"update_schedule", "delete_schedule"})
        \cup Declare("NetScan", "FleetOnly", {"discover_handler"})

REQUIREMENTS ==
    UNION {CoreRoutes, ConfigRoutes, BackupRoutes, MovementRoutes, ControlRoutes, AiRoutes, OnvifRoutes, RegisterRoutes,
           EntryRoutes, ZoneRoutes, SystemRoutes, RecordRoutes, ScheduleRoutes}

\* The declaration of each documented route.
Declared == [o \in {r.op : r \in REQUIREMENTS} |-> CHOOSE r \in REQUIREMENTS : r.op = o]

\* The declaration of a handler; an undocumented one has neither capability nor scoping.
Declaration(op) ==
    IF op \in DOMAIN Declared THEN Declared[op] ELSE [op |-> op, cap |-> "none", scoping |-> "none"]

=============================================================================
