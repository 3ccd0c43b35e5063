------------------------------ MODULE Accounts ------------------------------
(***************************************************************************)
(* Users, sessions and API keys (routes/auth.rs, auth.rs).  A handler that *)
(* reads a row and writes it later is two actions: the request is in asks  *)
(* in between, with what it has read.  Passwords are version numbers; one  *)
(* tick of clock is the debounce of the session stamp.                     *)
(***************************************************************************)
EXTENDS Naturals, FiniteSets

CONSTANTS User,             \* user ids; the row of one may be missing
          Sid,              \* session ids (bound: that many sessions at a time)
          ApiKey,           \* api key ids
          MaxAsks,          \* bound: requests between their read and their write
          MaxClock,         \* bound on clock
          MaxFailures,      \* login_max_failures
          LOCKOUT,          \* login_lockout_min
          TTL,              \* session_ttl_hours
          IDLE,             \* session_idle_timeout_minutes
          MAX_LIFETIME,     \* session_max_lifetime_hours; 0 turns sliding off
          MaxWrong          \* bound on the wrong passwords counted

ASSUME AccountsAssumption ==
    /\ {MaxAsks, MaxClock, MaxWrong, LOCKOUT, IDLE, MAX_LIFETIME} \subseteq Nat
    /\ {MaxFailures, TTL} \subseteq Nat \ {0}

VARIABLES users,    \* the users table, a set of rows
          sessions, \* the sessions table.  Beside its columns a row has last, when a request was
                    \* last let in with it, and lost, whether the stamp of that failed
          seen,     \* SESSION_SEEN, in memory: [sid, at]
          keys,     \* the api_keys table
          asks,     \* requests in flight
          clock,
          wrong,    \* how many wrong passwords were answered since the count was last reset
          outcome   \* how the last request that carried a session was judged

acctVars == <<users, sessions, seen, keys, asks, clock, wrong, outcome>>

Roles == {"admin", "manager"}
Never == 0          \* an empty locked_until

Account(u) == {r \in users : r.id = u}
ActiveAdmins(us) == {r \in us : r.role = "admin" /\ r.active}

\* A fleet-wide admin credential: an API key, or a user.
Caller == {"key"} \cup {r.id : r \in ActiveAdmins(users)}

Ask(ask) == Cardinality(asks) < MaxAsks /\ asks' = asks \cup {ask}

\* UPDATE users ... WHERE id = u
Rewrite(u, F(_)) == {IF r.id = u THEN F(r) ELSE r : r \in users}

Unlocked(r) == [r EXCEPT !.fails = 0, !.until = Never]
Forgive(us) == wrong' = [u \in User |-> IF u \in us THEN 0 ELSE wrong[u]]

-----------------------------------------------------------------------------
(* Logging in and out.                                                     *)

\* The row is read and the password verified against it.
Login(u, pw) ==
    /\ \E r \in Account(u) :
        /\ ~ (r.until > clock)
        /\ r.active
        /\ Ask([op |-> IF pw = r.pw THEN "login" ELSE "fail", u |-> u, row |-> r])
    /\ UNCHANGED <<users, sessions, seen, keys, clock, wrong, outcome>>

\* The count and the lock are one statement.
register_login_failure(ask) ==
    Rewrite(ask.u, LAMBDA r : [r EXCEPT !.fails = @ + 1,
                                        !.until = IF r.fails + 1 >= MaxFailures THEN clock + LOCKOUT ELSE @])

LoginFails(ask) ==
    /\ ask.op = "fail" /\ asks' = asks \ {ask}
    /\ wrong[ask.u] < MaxWrong
    /\ users' = register_login_failure(ask)
    /\ wrong' = [wrong EXCEPT ![ask.u] = IF Account(ask.u) # {} THEN @ + 1 ELSE @]
    /\ UNCHANGED <<sessions, seen, keys, clock, outcome>>

\* issue_session; a row whose user is gone breaks its foreign key.
NewSession(s, u, pw) ==
    [id |-> s, user |-> u, pw |-> pw, created |-> clock, expires |-> clock + TTL, used |-> clock,
     last |-> clock, lost |-> FALSE]

\* A count that was not zero when it was read is reset.
LoginSucceeds(ask, s) ==
    LET dirty == ask.row.fails # 0 \/ ask.row.until # Never IN
    /\ ask.op = "login" /\ asks' = asks \ {ask}
    /\ s \in Sid \ {x.id : x \in sessions}
    /\ users' = IF dirty THEN Rewrite(ask.u, Unlocked) ELSE users
    /\ Forgive(IF dirty THEN {ask.u} ELSE {})
    /\ sessions' = IF Account(ask.u) # {} THEN sessions \cup {NewSession(s, ask.u, ask.row.pw)} ELSE sessions
    /\ UNCHANGED <<seen, keys, clock, outcome>>

Logout(s) ==
    /\ sessions' = {x \in sessions : x.id # s}
    /\ UNCHANGED <<users, seen, keys, asks, clock, wrong, outcome>>

-----------------------------------------------------------------------------
(* A request that carries a session: resolve_token.                        *)

LastSeen(x) == {m \in seen : m.sid = x.id /\ m.at > x.used}
LastActive(x) == IF LastSeen(x) # {} THEN (CHOOSE m \in LastSeen(x) : TRUE).at ELSE x.used

\* now + ttl, never past created + max lifetime, and never backwards.
slide_to(x) ==
    LET ceiling == x.created + MAX_LIFETIME
        target == IF clock + TTL < ceiling THEN clock + TTL ELSE ceiling IN
    IF MAX_LIFETIME > 0 /\ target > x.expires THEN target ELSE x.expires

\* The durable stamp and the slide are one debounced statement, which may fail.
Stamp(x, fails) ==
    LET due == x.used + 1 < clock
        y == [x EXCEPT !.last = clock, !.lost = due /\ fails] IN
    IF due /\ ~fails THEN [y EXCEPT !.used = clock, !.expires = slide_to(x)] ELSE y

\* by is the credential that was judged, named the one the caller put in a header.
Judged(x, what, named) ==
    {[what |-> what, age |-> clock - x.created, rest |-> clock - x.last, lost |-> x.lost /\ LastSeen(x) = {},
      by |-> x.id, named |-> named]}

\* The map of sightings is cut down to the idle window once it is full.
mark_session_seen(s, full) ==
    {m \in seen : m.sid # s /\ (full => m.at + IDLE >= clock)} \cup {[sid |-> s, at |-> clock]}

Resolve(s, named, full, fails) ==
    \E x \in sessions, r \in users :
        LET idle == IDLE > 0 /\ LastActive(x) + IDLE < clock
            old == x.expires <= clock IN
        /\ x.id = s /\ r.id = x.user
        /\ \/ /\ old \/ idle
              /\ sessions' = sessions \ {x}
              /\ seen' = {m \in seen : m.sid # s}
              /\ outcome' = Judged(x, IF old THEN "old" ELSE "idle", named)
           \/ /\ ~ (old \/ idle) /\ ~ r.active
              /\ UNCHANGED <<sessions, seen>>
              /\ outcome' = {}
           \/ /\ ~ (old \/ idle) /\ r.active
              /\ seen' = mark_session_seen(s, full)
              /\ sessions' = (sessions \ {x}) \cup {Stamp(x, fails)}
              /\ outcome' = Judged(x, "in", named)
        /\ UNCHANGED <<users, keys, asks, clock, wrong>>

Bare == "bare"      \* no token
Stale == "stale"    \* the token of a session that is gone, or that nobody issued

\* The cookie counts only where the caller put no credential in a header.
token_from_headers_Live(named, cookie) ==
    IF named \in {x.id : x \in sessions} \/ cookie = Bare THEN named ELSE cookie
token_from_headers(named, cookie) == IF named # Bare THEN named ELSE cookie

Reject == outcome' = {} /\ UNCHANGED <<users, sessions, seen, keys, asks, clock, wrong>>

\* The floor under /api/v1, for a caller with a token in a header, a session cookie, both or none.
require_api_auth(named, cookie, full, fails) ==
    LET token == token_from_headers(named, cookie) IN
    \/ token \in {x.id : x \in sessions} /\ Resolve(token, named, full, fails)
    \/ token \notin {x.id : x \in sessions} /\ Reject

-----------------------------------------------------------------------------
(* User administration.                                                    *)

Blank(u, role) == [id |-> u, role |-> role, active |-> TRUE, pw |-> 0, fails |-> 0, until |-> Never]

create_user(u, role) ==
    /\ Caller # {} /\ Account(u) = {}
    /\ users' = users \cup {Blank(u, role)}
    /\ Forgive({u})
    /\ UNCHANGED <<sessions, seen, keys, asks, clock, outcome>>

\* The row is read, and patched with what the body names.
update_user(u, role, active, pw) ==
    /\ Caller # {}
    /\ \E cur \in Account(u) :
          Ask([op |-> "update", u |-> u, row |-> cur,
                new |-> [cur EXCEPT !.role = role, !.active = active, !.pw = pw]])
    /\ UNCHANGED <<users, sessions, seen, keys, clock, wrong, outcome>>

\* Whether the last-admin guard is asked for is decided by the row that was read.
Demoting(ask) ==
    ask.row.role = "admin" /\ (ask.op = "delete" \/ ask.new.role # "admin" \/ ~ ask.new.active)

Guarded(ask) == Demoting(ask) => \E r \in ActiveAdmins(users) : r.id # ask.u

\* Every column but the name; the sessions of a disabled user or of an old password go.
UpdateUser(ask) ==
    LET n == ask.new
        out == ~ n.active \/ n.pw # ask.row.pw
        done == Guarded(ask) IN
    /\ ask.op = "update" /\ asks' = asks \ {ask}
    /\ users' = IF done THEN Rewrite(ask.u, LAMBDA r : Unlocked(n)) ELSE users
    /\ Forgive(IF done THEN {ask.u} ELSE {})
    /\ sessions' = IF done /\ out THEN {x \in sessions : x.user # ask.u} ELSE sessions
    /\ UNCHANGED <<seen, keys, clock, outcome>>

unlock_user(u) ==
    /\ Caller # {} /\ Account(u) # {}
    /\ users' = Rewrite(u, Unlocked)
    /\ Forgive({u})
    /\ UNCHANGED <<sessions, seen, keys, asks, clock, outcome>>

delete_user(u) ==
    /\ \E by \in Caller : by # u
    /\ \E cur \in Account(u) : Ask([op |-> "delete", u |-> u, row |-> cur])
    /\ UNCHANGED <<users, sessions, seen, keys, clock, wrong, outcome>>

\* The sessions go with their user.
DeleteUser(ask) ==
    /\ ask.op = "delete" /\ asks' = asks \ {ask}
    /\ users' = IF Guarded(ask) THEN users \ Account(ask.u) ELSE users
    /\ sessions' = {x \in sessions : \E r \in users' : r.id = x.user}
    /\ UNCHANGED <<seen, keys, clock, wrong, outcome>>

-----------------------------------------------------------------------------
(* API keys.  caps is "role" for a NULL capability list, "events" for a    *)
(* list with a capability that reads across cameras, "plain" for one       *)
(* without.                                                                *)

validate_grant(caps, scope) == caps \in {"events", "plain"} /\ ~ (scope = "cameras" /\ caps = "events")

create_api_key(k, caps, scope) ==
    /\ Caller # {} /\ k \notin {x.id : x \in keys}
    /\ IF caps = "role" THEN scope = "all" ELSE validate_grant(caps, scope)
    /\ keys' = keys \cup {[id |-> k, caps |-> caps, scope |-> scope, active |-> TRUE, revoked |-> FALSE]}
    /\ UNCHANGED <<users, sessions, seen, asks, clock, wrong, outcome>>

\* "keep": the body does not name the field.  A revocation is set or kept, never lifted.
update_api_key(k, caps, scope, active, revoke) ==
    /\ Caller # {}
    /\ \E cur \in keys :
        LET c == IF caps = "keep" THEN cur.caps ELSE caps
            s == IF scope = "keep" THEN cur.scope ELSE scope IN
        /\ cur.id = k
        /\ (caps = "keep" /\ scope = "keep") \/ validate_grant(c, s)
        /\ Ask([op |-> "key", u |-> k, caps |-> caps, scope |-> scope,
                 new |-> [cur EXCEPT !.caps = c, !.scope = s, !.active = active, !.revoked = @ \/ revoke]])
    /\ UNCHANGED <<users, sessions, seen, keys, clock, wrong, outcome>>

\* Only the columns the body names.
Amended_Columns(x, ask) ==
    [ask.new EXCEPT !.caps = IF ask.caps = "keep" THEN x.caps ELSE @,
                    !.scope = IF ask.scope = "keep" THEN x.scope ELSE @]

\* Every column, as it was validated.
Amended(x, ask) == ask.new

UpdateApiKey(ask) ==
    /\ ask.op = "key" /\ asks' = asks \ {ask}
    /\ keys' = {IF x.id = ask.u THEN Amended(x, ask) ELSE x : x \in keys}
    /\ UNCHANGED <<users, sessions, seen, clock, wrong, outcome>>

delete_api_key(k) ==
    /\ Caller # {} /\ k \in {x.id : x \in keys}
    /\ keys' = {x \in keys : x.id # k}
    /\ UNCHANGED <<users, sessions, seen, asks, clock, wrong, outcome>>

-----------------------------------------------------------------------------
Tick ==
    /\ clock < MaxClock
    /\ clock' = clock + 1
    /\ UNCHANGED <<users, sessions, seen, keys, asks, wrong, outcome>>

\* The process restarts: what is in memory is gone, and ensure_bootstrap creates an admin if there
\* is no user at all.
Restart ==
    /\ seen' = {} /\ asks' = {}
    /\ \E u \in User :
        /\ users' = IF users = {} THEN {Blank(u, "admin")} ELSE users
        /\ Forgive(IF users = {} THEN {u} ELSE {})
    /\ UNCHANGED <<sessions, keys, clock, outcome>>

-----------------------------------------------------------------------------
AcctInit ==
    /\ users \in {{Blank(u, r) : u \in User} : r \in {"admin"}} \cup {{Blank(u, IF u = v THEN "admin" ELSE "manager") : u \in User} : v \in User}
    /\ sessions = {} /\ seen = {} /\ keys = {} /\ asks = {} /\ clock = 1
    /\ wrong = [u \in User |-> 0]
    /\ outcome = {}

\* The requests about users and their passwords.
UserStep ==
    \/ \E u \in User :
        \/ \E pw \in {0, 1} : Login(u, pw)
        \/ \E role \in Roles : create_user(u, role)
        \/ \E role \in Roles, active \in BOOLEAN, pw \in {0, 1} : update_user(u, role, active, pw)
        \/ unlock_user(u) \/ delete_user(u)
    \/ \E ask \in asks :
        \/ LoginFails(ask) \/ UpdateUser(ask) \/ DeleteUser(ask)
        \/ \E s \in Sid : LoginSucceeds(ask, s)

\* The life of a session.
SessionStep ==
    \/ \E u \in User : Login(u, 0)
    \/ \E ask \in asks, s \in Sid : LoginSucceeds(ask, s)
    \/ \E s \in Sid : Logout(s)
    \/ \E named, cookie \in Sid \cup {Bare, Stale}, full, fails \in BOOLEAN :
          require_api_auth(named, cookie, full, fails)

KeyStep ==
    \/ \E k \in ApiKey, scope \in {"all", "cameras"}, caps \in {"role", "events", "plain"} :
          create_api_key(k, caps, scope)
    \/ \E k \in ApiKey, scope \in {"all", "cameras", "keep"}, caps \in {"events", "plain", "keep"},
          active, revoke \in BOOLEAN : update_api_key(k, caps, scope, active, revoke)
    \/ \E ask \in asks : UpdateApiKey(ask)
    \/ \E k \in ApiKey : delete_api_key(k)

-----------------------------------------------------------------------------
(* Properties.                                                             *)

\* No request is let in with a session past its lifetime, counted from the login, or with one that
\* nothing was let in with for longer than the idle timeout: not after any number of slides, failed
\* stamps or restarts (auth.rs: resolve_token, slide_to).
GrantsTimely ==
    \A o \in outcome : o.what = "in" => /\ o.age < TTL \/ o.age < MAX_LIFETIME
                                        /\ IDLE > 0 => o.rest <= IDLE

\* A session in use is not logged out as idle: neither by the debounce of its stamp, nor by a stamp
\* that fails while the process remembers it, nor by a restart (auth.rs: SESSION_SEEN, resolve_token).
InUseStays == \A o \in outcome : o.what = "idle" => o.rest >= IDLE \/ o.lost

\* A caller that names a credential in a header is served as its holder or not at all: a session that
\* ended never falls back on the one in the browser's cookie (auth.rs: token_from_headers).
ServedAsNamed == \A o \in outcome : o.named \in {Bare, o.by}

\* After login_max_failures wrong passwords an account has been locked, however many of them were
\* checked at the same time (routes/auth.rs: register_login_failure).
LockoutCounts == \A r \in users : wrong[r.id] >= MaxFailures => r.until # Never

\* No key ever carries a camera scope beside a capability that reads across cameras, also after two
\* amendments of one key at the same time (routes/auth.rs: validate_grant, update_api_key).
GrantsScopable == \A k \in keys : k.scope = "cameras" => k.caps = "plain"

\* There is always an active admin (routes/auth.rs: update_user, delete_user).
AdminStands == ActiveAdmins(users) # {}

=============================================================================
