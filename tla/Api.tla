-------------------------------- MODULE Api --------------------------------
(***************************************************************************)
(* The HTTP surface: who may call a handler, which rows it reads, what it  *)
(* answers and what it writes.  A handler is an operator from a database d *)
(* to an answer [st, body, eff]: the status, the rows the response is      *)
(* computed from, and the writes it will perform.  The Api* modules give   *)
(* one operator per handler of a group of routes.                          *)
(*                                                                         *)
(* A handler reads on one pooled connection and writes on another, so      *)
(* another request may run in between: Request either performs its writes  *)
(* at once or leaves them in pend, and Finish performs them later on the   *)
(* database it then finds.  Audit rows, log lines and timestamps are left  *)
(* out.                                                                    *)
(***************************************************************************)
EXTENDS Contract, Naturals, FiniteSets, Sequences, SequencesExt

CONSTANTS Camera,   \* camera ids, the ones a request may name
          Site,     \* site ids
          Id,       \* row ids a request may name
          NewId,    \* the ids a create handler may draw (bound: that many created rows per table)
          Key,      \* rows of api_keys and users: [id, role, caps, scope, live]
          Tier,     \* HELDAR_MACHINE_AUTH: "off", "warn" or "enforce"
          Claims    \* what handlers are held against of their published declarations

\* A drawn id is no camera's, and no two credentials have one id.
ASSUME ApiAssumption ==
    /\ IsFiniteSet(Camera) /\ IsFiniteSet(Site)
    /\ NewId \cap Camera = {}
    /\ \A k, l \in Key : k.id = l.id => k = l

VARIABLES db,       \* the tables: a set of rows
          pend,     \* the request, if any, that is between its reads and its writes
          blame     \* what requests have done that they must not: <<fault, handler, late>>

apiVars == <<db, pend, blame>>

None == "none"
All == {"all"}        \* the scope of a fleet-wide credential
Ungranted == {"null"} \* a NULL capabilities column

-----------------------------------------------------------------------------
(* Credentials.                                                            *)

Unscopable == {"EventsRead", "IdentityRead"}

ViewCaps == {"CameraRead", "VideoLive", "VideoPlayback", "VideoExport", "EventsRead",
             "IdentityRead", "AiTasks", "AiFrames", "SystemRead", "NetScan", "ModuleProxy"}

AllCaps == ViewCaps \cup {"Admin", "RegistryManage", "GateOperate", "AiIngest", "AiEmbedWork"}

legacy_caps(role) ==
    CASE role = "admin"       -> AllCaps
      [] role = "manager"     -> ViewCaps \cup {"GateOperate", "RegistryManage"}
      [] role = "guard"       -> ViewCaps \cup {"GateOperate"}
      [] role = "viewer"      -> ViewCaps
      [] role = "integration" -> ViewCaps \cup {"AiIngest", "AiEmbedWork"}

enforced_caps(role) ==
    IF role = "integration"
    THEN {"AiTasks", "AiFrames", "AiIngest", "AiEmbedWork", "CameraRead", "EventsRead"}
    ELSE legacy_caps(role)

role_caps(role) == IF Tier = "enforce" THEN enforced_caps(role) ELSE legacy_caps(role)

\* A NULL capabilities column means the role's; an explicit list grants exactly itself.
resolve_key_caps(k) == IF k.caps = Ungranted THEN role_caps(k.role) ELSE k.caps

\* Admin implies every capability.
Allows(caps, c) == c \in caps \/ "Admin" \in caps

principal(k) == [id |-> k.id, caps |-> resolve_key_caps(k), scope |-> k.scope]

KeyStands(k) ==
    /\ k.live                                \* active, not revoked, not expired
    /\ k.role \in {"admin", "manager", "guard", "viewer", "integration"}
    /\ ~ (k.scope # All /\ \E u \in Unscopable : Allows(resolve_key_caps(k), u))

Credential == {principal(k) : k \in {k \in Key : KeyStands(k)}}

Has(p, c) == Allows(p.caps, c)
Scoped(p) == p.scope # All
CameraAllowed(p, c) == Scoped(p) => c \in p.scope

-----------------------------------------------------------------------------
(* Rows.  t is the table, cams the cameras a row belongs to (none for a    *)
(* fleet-wide row), ref what it refers to (a camera's site, a zone's       *)
(* name, an incident), v which of two payloads it carries.                 *)

Row(t, i, cams, ref, v) == [t |-> t, id |-> i, cams |-> cams, ref |-> ref, v |-> v]

Rows(d, t) == {r \in d : r.t = t}
Get(d, t, i) == {r \in d : r.t = t /\ r.id = i}
OfCamera(d, t, c) == {r \in d : r.t = t /\ c \in r.cams}
Exists(d, t, i) == Get(d, t, i) # {}

\* The rows a query filtered by the credential's cameras returns; a row without a camera only
\* reaches a fleet-wide credential.
Holds(p, r) == Scoped(p) => r.cams # {} /\ r.cams \subseteq p.scope
Held(d, t, p) == {r \in Rows(d, t) : Holds(p, r)}

\* Tables whose rows name a camera without a foreign key: they outlive it.
Loose == {"zone_events", "zone_occupancy", "events", "evidence_bundles", "media_artifacts",
          "live_sessions", "api_keys", "webhooks", "backup_policies", "backup_jobs", "device",
          "entry_events", "gate_policies", "audit_log", "camera_links", "movement_candidates",
          "breach_alerts"}

\* What the foreign keys ask of a row: its cameras, and the site of a camera.
Sound(d, r) ==
    /\ r.t \in Loose \/ r.t = "cameras" \/ \A c \in r.cams : Exists(d, "cameras", c)
    /\ r.t = "cameras" => r.ref = None \/ Exists(d, "sites", r.ref)

Replace(d, r) == (d \ Get(d, r.t, r.id)) \cup {r}

\* The upsert without its WHERE: whoever names a worker id takes it over.
Free_Always(d, r) == TRUE

\* A worker id and a lease are claimed: the upsert leaves another credential's alone.
Free(d, r) == r.t \in {"workers", "ai_leases"} => \A x \in Get(d, r.t, r.id) : x.ref = r.ref

\* One SQL statement.  "ins" needs a free key, "upd" writes the columns it names and "del" removes
\* the row, if it is still there; "put" is ON CONFLICT DO UPDATE.
Ins(r) == [act |-> "ins", row |-> r, cols |-> {}]
Upd(r, cols) == [act |-> "upd", row |-> r, cols |-> cols]
Put(r) == [act |-> "put", row |-> r, cols |-> {}]
Del(r) == [act |-> "del", row |-> r, cols |-> {}]

\* What an UPDATE leaves of the row r.
Left(r, w) ==
    Row(r.t, r.id, IF "cams" \in w.cols THEN w.row.cams ELSE r.cams,
        IF "ref" \in w.cols THEN w.row.ref ELSE r.ref, IF "v" \in w.cols THEN w.row.v ELSE r.v)

Columns(d, w) == {Left(r, w) : r \in Get(d, w.row.t, w.row.id)}

\* The camera count taken before the DELETE, whose foreign key then sets site_id to NULL.
DeleteSite_Detach(d, s) ==
    {IF r.t = "cameras" /\ r.ref = s THEN [r EXCEPT !.ref = None] ELSE r : r \in d \ Get(d, "sites", s)}

\* DELETE FROM sites WHERE NOT EXISTS (a camera on it): the check and the delete are one statement.
DeleteSite(d, s) ==
    IF \E r \in Rows(d, "cameras") : r.ref = s THEN d ELSE d \ Get(d, "sites", s)

\* Deleting a camera takes its zone events, then every row that references it.
DeleteCamera(d, c) == {r \in d : ~ (c \in r.cams /\ r.t \notin Loose \ {"zone_events"})}

\* What is inserted and deleted with a row, in one transaction: the key and the webhook issued to a
\* sidecar module.
Companions(r) ==
    IF r.t = "modules" THEN {Row("api_keys", r.ref, {}, None, 0), Row("webhooks", r.ref, {}, None, 0)}
    ELSE {}

Write(d, w) ==
    LET r == w.row
        there == Exists(d, r.t, r.id) IN
    CASE w.act = "ins" -> IF Sound(d, r) /\ ~there THEN d \cup {r} \cup Companions(r) ELSE d
      [] w.act = "upd" -> IF \A x \in Columns(d, w) : Sound(d, x)
                          THEN (d \ Get(d, r.t, r.id)) \cup Columns(d, w) ELSE d
      [] w.act = "put" -> IF Sound(d, r) /\ Free(d, r) THEN Replace(d, r) ELSE d
      [] w.act = "del" -> CASE r.t = "cameras" -> DeleteCamera(d, r.id)
                            [] r.t = "sites" -> DeleteSite(d, r.id)
                            [] OTHER -> {x \in d \ Get(d, r.t, r.id) : \A y \in Companions(r) : x.t # y.t \/ x.id # y.id}

\* One statement after the other.
Apply(d, ws) ==
    LET after[n \in 0..Len(ws)] == IF n = 0 THEN d ELSE Write(after[n - 1], ws[n]) IN after[Len(ws)]

-----------------------------------------------------------------------------
(* Answers, and the checks handlers make, each continuing with the next.   *)

Give(body) == [st |-> 200, body |-> body, eff |-> <<>>]
Refuse(code) == [st |-> code, body |-> {}, eff |-> <<>>]
Do(code, body, eff) == [st |-> code, body |-> body, eff |-> eff]

NeedCap(p, cap, then) == IF Has(p, cap) THEN then ELSE Refuse(403)
NeedAdmin(p, then) == IF "Admin" \in p.caps THEN then ELSE Refuse(403)
Valid(ok, then) == IF ok THEN then ELSE Refuse(400)
Found(rows, then) == IF rows # {} THEN then ELSE Refuse(404)

require_fleet_scope(p, then) == IF Scoped(p) THEN Refuse(403) ELSE then

camera_scope_check(p, c, then) == IF CameraAllowed(p, c) THEN then ELSE Refuse(403)

\* The existence check first: 404 then tells a scoped credential which ids are taken.
camera_for_Oracle(d, p, c, then) ==
    Found(Get(d, "cameras", c), camera_scope_check(p, c, then))

\* The scope first, so that an id out of scope answers the same whether or not it exists.
camera_for(d, p, c, then) ==
    camera_scope_check(p, c, Found(Get(d, "cameras", c), then))

\* A row named by its own id: to a scoped credential a missing row and another camera's row are
\* the same refusal.
resource_camera(d, p, t, i, then) ==
    IF \E r \in Get(d, t, i) : Holds(p, r) THEN then
    ELSE IF Scoped(p) THEN Refuse(403) ELSE Refuse(404)

\* A list of cameras: a scoped credential's empty list means its own cameras.
confine_camera_ids(p, cs, Then(_)) ==
    IF ~ Scoped(p) THEN Then(cs)
    ELSE IF cs = {} THEN Then(p.scope)
    ELSE IF cs \subseteq p.scope THEN Then(cs) ELSE Refuse(403)

\* The patch most update handlers apply: every column of the row they have read, with the new
\* payload in it.
Whole == {"cams", "ref", "v"}
Patched(r) == [r EXCEPT !.v = 1]
Each(rows, W(_)) == SetToSeq({W(r) : r \in rows})
Patch(d, t, i) == LET new == {Patched(r) : r \in Get(d, t, i)} IN
                  Do(200, new, Each(new, LAMBDA r : Upd(r, Whole)))

Erase(d, t, i) == Found(Get(d, t, i), Do(204, {}, Each(Get(d, t, i), Del)))
Create(r) == Do(201, {r}, <<Ins(r)>>)

-----------------------------------------------------------------------------
(* Requests.                                                               *)

\* The rows of its cameras, and the worker ids it has registered.
Owned(d, p) == {r \in d : Holds(p, r) \/ (r.t = "workers" /\ r.ref = p.id)}

\* Fleet-wide tables a scoped credential may read in full, or whose rows it may refer to.
Open == {"modules", "settings", "box_alerts", "workers", "backup_destinations", "gate_settings"}

\* What a credential may know of: the rows of its own cameras, the sites those cameras are on, and
\* the open tables.
Visible(d, p) ==
    {r \in d : \/ Holds(p, r)
               \/ r.t \in Open
               \/ r.t = "workers" /\ r.ref = p.id
               \/ r.t = "sites" /\ (\E x \in Rows(d, "cameras") : Holds(p, x) /\ x.ref = r.id)}

SiteOf(d) == {<<r.id, r.ref>> : r \in Rows(d, "cameras")}

\* Passes that are revoked in d and in e are not.
Reinstated(d, e) ==
    {r \in Rows(d, "visitor_passes") : r.ref = "revoked" /\ \E x \in Get(e, r.t, r.id) : x.ref # "revoked"}

\* What the writes ws do to d that they must not: a scoped request touches rows that are not its
\* cameras', or moves a camera to another site; a request without RegistryManage lifts a revocation.
\* late: the writes come after another request may have run.
Faults(op, p, d, ws, late) ==
    {<<f, op, late>> : f \in UNION {{f \in {"strays", "relocates", "reinstates"} :
        \/ f = "strays" /\ Scoped(p) /\ d \ Owned(d, p) # e \ Owned(e, p)
        \/ f = "relocates" /\ Scoped(p) /\ \E x \in SiteOf(d), y \in SiteOf(e) : x[1] = y[1] /\ x[2] # y[2]
        \/ f = "reinstates" /\ ~ Has(p, "RegistryManage") /\ Reinstated(d, e) # {}} : e \in {Apply(d, ws)} \ {d}}}

\* The declared capability; a route gated on the role asks for the admin's.
CapOf(r) == IF r.cap = "Role" THEN "Admin" ELSE r.cap

\* A caller without the capability a handler declares, nor the admin's.
Without(p, r) == [p EXCEPT !.caps = AllCaps \ {CapOf(r), "Admin"}]

\* What the answer a of a handler with declaration r says that it must not, b being its answer
\* elsewhere.  A scoped caller is answered otherwise than on the rows it may know of, is served where
\* the route is for the fleet, or is told "forbidden" where it should have found nothing; a fleet-wide
\* one would be served without the declared capability.
Told(op, p, r, a, b) ==
    {<<f, op, FALSE>> : f \in {f \in Claims \cup {"interferes"} :
        \/ f = "interferes" /\ Scoped(p) /\ <<a.st, a.body>> # <<b.st, b.body>>
        \/ f = "fleet" /\ Scoped(p) /\ r.scoping = "FleetOnly" /\ a.st < 300
        \/ f = "forbids" /\ Scoped(p) /\ r.scoping = "CameraKeyed" /\ Has(p, CapOf(r)) /\ a.st = 403
        \/ f = "ungated" /\ ~ Scoped(p) /\ r.scoping # None /\ b.st < 300}}

\* Where and as whom a request is answered for comparison: to a scoped caller on the rows it may know
\* of, to a fleet-wide one without the declared capability.
Shown(p) == IF Scoped(p) THEN Visible(db, p) ELSE db
Asking(op, p) == IF Scoped(p) THEN p ELSE Without(p, Declaration(op))

\* A request answers a, and performs its writes now or leaves them for later; b is the answer
\* elsewhere.
Answered(op, p, a, b) ==
    \E told \in {Told(op, p, Declaration(op), a, b)} :
        \/ /\ db' = Apply(db, a.eff)
           /\ blame' = blame \cup told \cup Faults(op, p, db, a.eff, FALSE)
           /\ UNCHANGED pend
        \/ /\ a.eff # <<>> /\ pend = {}
           /\ pend' = {[op |-> op, p |-> p, eff |-> a.eff]}
           /\ blame' = blame \cup told
           /\ UNCHANGED db

\* A request whose handler is H.
Request(op, p, H(_, _)) ==
    \E a \in {H(db, p)}, b \in {H(Shown(p), Asking(op, p))} : Answered(op, p, a, b)

\* Ids no row and no pending insert carries.
Unused == {i \in NewId : /\ \A r \in db : i \notin {r.id, r.ref}
                         /\ \A q \in pend : \A k \in DOMAIN q.eff : i \notin {q.eff[k].row.id, q.eff[k].row.ref}}

Finish ==
    \E q \in pend :
        /\ db' = Apply(db, q.eff)
        /\ blame' = blame \cup Faults(q.op, q.p, db, q.eff, TRUE)
        /\ pend' = {}

=============================================================================
