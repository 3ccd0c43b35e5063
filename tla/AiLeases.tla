------------------------------- MODULE AiLeases -------------------------------
(***************************************************************************)
(* Task leases of the AI workers (ai_leases.rs): the table ai_task_leases, *)
(* the in-memory mirror that answers is_live at frame rate, and the calls  *)
(* that acquire, renew, release and look up a lease.  A lease id is fresh  *)
(* per acquire call, so the call stands for the id and its record for the  *)
(* columns of the row.                                                     *)
(***************************************************************************)
EXTENDS Naturals, FiniteSets

CONSTANTS Task,      \* AI tasks
          Key,       \* credentials (api_key_id)
          Worker,    \* worker ids
          Call,      \* acquire calls
          None,      \* no lease
          TTL,       \* lease lifetime
          MaxTime,   \* bound: the clock
          Faults     \* the environment events of this instance

FaultKinds ==
  { "restart",       \* the process restarts: the mirror is lost, the table is not
    "overlap",       \* a worker repeats an acquire that is still running
    "late_put" }     \* a lookup mirrors its row after a release or a renewal

ASSUME LeaseAssumption ==
  /\ None \notin Call
  /\ TTL \in Nat /\ MaxTime \in Nat
  /\ Faults \subseteq FaultKinds

VARIABLES
  now,     \* the clock
  row,     \* row[t]: the lease on task t
  cache,   \* cache[t][k]: the mirror, keyed by (task_id, api_key_id)
  call,    \* call[c]: an acquire call and the lease it created
  look     \* is_live lookups between their SELECT and their cache_put

vars == <<now, row, cache, call, look>>

CallPc == {"idle", "busy", "done", "deleting", "released", "lost"}

TypeOK ==
  /\ now \in Nat
  /\ row \in [Task -> Call \cup {None}]
  /\ cache \in [Task -> [Key -> Call \cup {None}]]
  /\ call \in [Call -> [pc : CallPc, key : Key, worker : Worker, at : Nat,
                        todo : SUBSET Task, put : SUBSET Task]]
  /\ look \subseteq Key \X Task \X Call

Expiry(c) == call[c].at + TTL
Live(c)   == Expiry(c) > now

(* Mutant of CacheLive: a mirrored lease is served whatever its age. *)
CacheLive_Stale(t, k) == cache[t][k] # None

(* The lease the table or the mirror would report, as is_live does. *)
RowLive(t, k)   == row[t] # None /\ call[row[t]].key = k /\ Live(row[t])
CacheLive(t, k) == cache[t][k] # None /\ Live(cache[t][k])

SameHolder(c, d) == call[c].key = call[d].key /\ call[c].worker = call[d].worker

Init ==
  /\ now = 0
  /\ row = [t \in Task |-> None]
  /\ cache = [t \in Task |-> [k \in Key |-> None]]
  /\ call \in [Call -> [pc : {"idle"}, key : Key, worker : Worker, at : {0},
                        todo : {{}}, put : {{}}]]
  /\ look = {}

-----------------------------------------------------------------------------
Tick ==
  /\ now < MaxTime
  /\ now' = now + 1
  /\ UNCHANGED <<row, cache, call, look>>

(* A worker makes one call at a time; a lookup is over before its lease is
   renewed or released. *)
OneCall(c) == "overlap" \in Faults \/
              \A d \in Call : SameHolder(c, d) => call[d].pc \notin {"busy", "deleting"}
NoLookup(k) == "late_put" \in Faults \/ \A l \in look : l[1] # k

(* acquire: the clock is read once, then the candidates are selected and cut
   down to this worker's shard, task types and budget; S is what is left. *)
AcquireBegin(c, S) ==
  /\ call[c].pc = "idle"
  /\ OneCall(c)
  /\ call' = [call EXCEPT ![c].pc = "busy", ![c].at = now, ![c].todo = S]
  /\ UNCHANGED <<now, row, cache, look>>

(* Mutant of Claimable: a lease of the same credential counts as ours. *)
Claimable_KeyOnly(c, t) ==
  \/ row[t] = None
  \/ Expiry(row[t]) < call[c].at
  \/ call[row[t]].key = call[c].key

(* ON CONFLICT ... WHERE expires_at < ? OR (same api key AND same worker). *)
Claimable(c, t) ==
  \/ row[t] = None
  \/ Expiry(row[t]) < call[c].at
  \/ SameHolder(row[t], c)

AcquireInsert(c, t) ==
  /\ call[c].pc = "busy" /\ call[c].put = {}
  /\ t \in call[c].todo
  /\ NoLookup(call[c].key)
  /\ IF Claimable(c, t)
     THEN /\ row' = [row EXCEPT ![t] = c]
          /\ call' = [call EXCEPT ![c].todo = @ \ {t}, ![c].put = {t}]
     ELSE /\ call' = [call EXCEPT ![c].todo = @ \ {t}]
          /\ UNCHANGED row
  /\ UNCHANGED <<now, cache, look>>

AcquirePut(c, t) ==
  /\ call[c].pc = "busy" /\ t \in call[c].put
  /\ cache' = [cache EXCEPT ![t][call[c].key] = c]
  /\ call' = [call EXCEPT ![c].put = {}]
  /\ UNCHANGED <<now, row, look>>

(* All candidates done, or the budget is used up. *)
AcquireEnd(c) ==
  /\ call[c].pc = "busy" /\ call[c].put = {}
  /\ call' = [call EXCEPT ![c].pc = "done", ![c].todo = {}]
  /\ UNCHANGED <<now, row, cache, look>>

(* A statement fails, or the caller hangs up while one is running: the rows
   written so far stay, and nobody learns their lease id. *)
AcquireFail(c) ==
  /\ call[c].pc = "busy"
  /\ call' = [call EXCEPT ![c] = [@ EXCEPT !.pc = "lost", !.todo = {}, !.put = {}]]
  /\ UNCHANGED <<now, row, cache, look>>

-----------------------------------------------------------------------------
(* release: DELETE by lease id, then evict it from the mirror. *)
ReleaseDelete(c) ==
  /\ call[c].pc = "done"
  /\ OneCall(c)
  /\ NoLookup(call[c].key)
  /\ row' = [t \in Task |-> IF row[t] = c THEN None ELSE row[t]]
  /\ call' = [call EXCEPT ![c].pc = "deleting"]
  /\ UNCHANGED <<now, cache, look>>

(* Mutant of ReleaseEvict: the mirror is left to expire. *)
ReleaseEvict_Keep(c) ==
  /\ call[c].pc = "deleting"
  /\ call' = [call EXCEPT ![c].pc = "released"]
  /\ UNCHANGED <<now, row, cache, look>>

ReleaseEvict(c) ==
  /\ call[c].pc = "deleting"
  /\ cache' = [t \in Task |-> [k \in Key |-> IF cache[t][k] = c THEN None ELSE cache[t][k]]]
  /\ call' = [call EXCEPT ![c].pc = "released"]
  /\ UNCHANGED <<now, row, look>>

(* is_live: a hit changes nothing; a miss reads the row and mirrors it. *)
LookupRead(k, t) ==
  /\ ~CacheLive(t, k) /\ RowLive(t, k)
  /\ look' = look \cup {<<k, t, row[t]>>}
  /\ UNCHANGED <<now, row, cache, call>>

LookupPut(l) ==
  /\ l \in look
  /\ cache' = [cache EXCEPT ![l[2]][l[1]] = l[3]]
  /\ look' = look \ {l}
  /\ UNCHANGED <<now, row, call>>

Restart ==
  /\ "restart" \in Faults
  /\ cache' = [t \in Task |-> [k \in Key |-> None]]
  /\ call' = [c \in Call |-> IF call[c].pc \in {"busy", "deleting"}
                             THEN [call[c] EXCEPT !.pc = "lost", !.todo = {}, !.put = {}]
                             ELSE call[c]]
  /\ look' = {}
  /\ UNCHANGED <<now, row>>

Acquire(c) == \/ \E S \in SUBSET Task : AcquireBegin(c, S)
              \/ \E t \in Task : AcquireInsert(c, t) \/ AcquirePut(c, t)
              \/ AcquireEnd(c) \/ AcquireFail(c)
Release(c) == ReleaseDelete(c) \/ ReleaseEvict(c)
Lookup     == \/ \E k \in Key, t \in Task : LookupRead(k, t)
              \/ \E l \in look : LookupPut(l)

Next == \/ Tick \/ Lookup \/ Restart
        \/ \E c \in Call : Acquire(c) \/ Release(c)

Spec == Init /\ [][Next]_vars

-----------------------------------------------------------------------------
(* Whom is_live would confirm as the holder of t right now. *)
Served(t, k) == RowLive(t, k) \/ CacheLive(t, k)

(* A release is between its DELETE and its eviction. *)
Releasing(k) == \E c \in Call : call[c].pc = "deleting" /\ call[c].key = k

(* At any time is_live confirms at most one credential as the holder of a
   task, except while a holder's release is half done: table and mirror
   together hand a task to one holder until it lapses (ai_leases.rs acquire,
   is_live, release). *)
OneHolder ==
  \A t \in Task, k, m \in Key :
    Served(t, k) /\ Served(t, m) /\ k # m => Releasing(k) \/ Releasing(m)

(* Once a release has returned, the mirror never confirms that lease again
   (ai_leases.rs release and cache_drop_lease). *)
ReleasedNotServed ==
  \A c \in Call, t \in Task, k \in Key : call[c].pc = "released" => cache[t][k] # c

(* The worker a lease was granted to keeps the task until the lease lapses
   or the worker itself gives it up, also against other workers of the same
   credential (ai_leases.rs acquire). *)
LeaseHonoured ==
  [][\A t \in Task : row[t] # None /\ Live(row[t]) /\ row'[t] # row[t] =>
        \/ row'[t] = None /\ call'[row[t]].pc = "deleting"
        \/ row'[t] # None /\ SameHolder(row[t], row'[t])]_vars
=============================================================================
