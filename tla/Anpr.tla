-------------------------------- MODULE Anpr --------------------------------
(***************************************************************************)
(* Plate reads to entry events (heldar-entry anpr.rs), and entry events to *)
(* the barrier (gate.rs, camera_control.rs).  Reads of a track are voted   *)
(* under a lock; a commit then resolves the plate against the registry and *)
(* writes the event outside it, statement by statement, while other        *)
(* batches are processed and operators edit the registry.  An opening is a *)
(* task of its own.  A plate that cannot be one is Junk.                   *)
(***************************************************************************)
EXTENDS Naturals

CONSTANTS TrackKey,      \* camera and track id
          Plate,         \* plausible plates
          Junk,          \* an implausible read
          Guard,         \* requests to open the gate by hand
          anpr_min_votes,
          MaxUid,        \* bound: tracks seen
          MaxBatches,    \* bound: batches processed
          MaxDbErrors    \* bound: statements and device calls that fail

VARIABLES tracks,     \* TrackKey -> {} or {[uid, votes, committed, fresh]}
          next_uid, batches, dbErrors,
          jobs,       \* commits under way: [key, uid, plate, votes, actuate, at, auth, barred]
          entries,    \* entry events: [uid, plate, auth]
          unrecorded, \* uids whose insert failed
          class,      \* Plate -> Classes: what the registry has for the plate
          watch,      \* Plate -> "none", "alert" or "block": the watchlist
          passes,     \* Plate -> "active", "checked_in" or "revoked": the pass of the plate
          gate,       \* [enabled, kill]: the lane's policy and the kill switch
          openings,   \* openings under way: [by, at, halted, blind]
          relay, latched, \* the output is high; an opening was given up while it was
          opened      \* openings that raised the output: [by, halted, blind]

anprVars == <<tracks, next_uid, batches, dbErrors, jobs, entries, unrecorded, class, watch, passes, gate,
              openings, relay, latched, opened>>
registryVars == <<class, watch, passes>>
gateVars == <<openings, relay, latched, opened>>

Read == Plate \cup {Junk}

\* A registered vehicle; one out of its window or unlike what was seen; a pass; a pass out of its
\* window; a vip on the watchlist; nothing.
Classes == {"vehicle", "lapsed", "pass", "stale_pass", "vip", "stranger"}

\* known: the classes the plates may be of; errors, spent: failures and
\* batches there have been.
AnprInit(known, errors, spent) ==
    /\ tracks = [k \in TrackKey |-> {}] /\ next_uid = 1 /\ batches = spent /\ dbErrors = errors
    /\ jobs = {} /\ entries = {} /\ unrecorded = {}
    /\ class \in [Plate -> known]
    /\ watch = [p \in Plate |-> "none"]
    /\ passes = [p \in Plate |-> "active"]
    /\ gate \in [enabled : BOOLEAN, kill : BOOLEAN]
    /\ openings = {} /\ relay = FALSE /\ latched = FALSE /\ opened = {}

Fails == dbErrors < MaxDbErrors /\ dbErrors' = dbErrors + 1
Works == UNCHANGED dbErrors

-----------------------------------------------------------------------------
(* Voting, under the state lock.                                           *)

\* The leaders among the plausible reads, or among all when none is: the one with the higher
\* confidence wins, which is not modelled.
winning_plate(votes) ==
    LET read == {p \in Read : votes[p] > 0}
        field == IF read \cap Plate # {} THEN read \cap Plate ELSE read IN
    {p \in field : \A q \in field : votes[q] <= votes[p]}

\* An on-camera read decides at once.
Weight(native) == IF native THEN anpr_min_votes ELSE 1

Voted(t, r) == [t EXCEPT !.votes[r.plate] = @ + Weight(r.native), !.fresh = TRUE]

Fresh == [uid |-> next_uid, votes |-> [p \in Read |-> 0], committed |-> FALSE, fresh |-> TRUE]

build_job(k, t, p, actuate) ==
    [key |-> k, uid |-> t.uid, plate |-> p, votes |-> t.votes[p], actuate |-> actuate,
     at |-> IF p = Junk THEN "insert" ELSE "block", auth |-> "unmatched",
     barred |-> p \in Plate /\ watch[p] = "block"]

Actuates(t, p) == t.votes[p] >= anpr_min_votes

\* Unseen for STATE_TTL_SECS, and not committed.
Owed(t) == ~ t.fresh /\ ~ t.committed

NewKeys(reads) == {r.key : r \in {r \in reads : tracks[r.key] = {}}}

\* The tracks once the reads of a batch are counted: however often a read is repeated in it, it gives
\* a plate one vote per track.
Counted(reads) ==
    [k \in TrackKey |->
       LET mine == {r \in reads : r.key = k} IN
       {IF mine = {} THEN t ELSE Voted(t, CHOOSE r \in mine : TRUE) :
           t \in IF k \in NewKeys(reads) THEN {Fresh} ELSE tracks[k]}]

Reached(t) == ~ t.committed /\ \E p \in winning_plate(t.votes) : t.votes[p] >= anpr_min_votes

Due(now) == {k \in TrackKey : \E t \in now[k] : Reached(t) \/ Owed(t)}

Built(now, win) == UNION {{build_job(k, t, win[k], Actuates(t, win[k])) : t \in now[k]} : k \in DOMAIN win}

\* A batch with one read or none.  Every track that has reached the threshold is committed, and every
\* one unseen for 30 s is dropped, its event recorded if it has a read.
process(reads) ==
    /\ batches < MaxBatches /\ batches' = batches + 1
    /\ NewKeys(reads) # {} => next_uid <= MaxUid
    /\ next_uid' = IF NewKeys(reads) = {} THEN next_uid ELSE next_uid + 1
    /\ \E now \in {Counted(reads)} :
          /\ \E win \in [Due(now) -> Read] :
                /\ \A k \in Due(now) : \A t \in now[k] : win[k] \in winning_plate(t.votes)
                /\ jobs' = jobs \cup Built(now, win)
          /\ tracks' = [k \in TrackKey |->
                          {[t EXCEPT !.committed = @ \/ Reached(t)] : t \in {t \in now[k] : t.fresh}}]
    /\ UNCHANGED <<dbErrors, entries, unrecorded, registryVars, gate, gateVars>>

\* STATE_TTL_SECS pass without a read of the track.
Vanish(k) ==
    /\ \E t \in tracks[k] : t.fresh
    /\ tracks' = [tracks EXCEPT ![k] = {[t EXCEPT !.fresh = FALSE] : t \in @}]
    /\ UNCHANGED <<next_uid, batches, dbErrors, jobs, entries, unrecorded, registryVars, gate, gateVars>>

-----------------------------------------------------------------------------
(* Commits: resolve, then the insert.                                      *)

Move(j, at, auth) == jobs' = (jobs \ {j}) \cup {[j EXCEPT !.at = at, !.auth = auth]}

\* A failed look at the block list is taken for an empty one, as the other lookups' is.
BlockUnread_Open(j) == Move(j, "registry", j.auth)

\* The one lookup that fails closed.
BlockUnread(j) == Move(j, "insert", "exception")

\* The block list wins outright.
LookBlock(j) ==
    /\ j.at = "block"
    /\ \/ Works /\ watch[j.plate] = "block" /\ Move(j, "insert", "blocked")
       \/ Works /\ watch[j.plate] # "block" /\ Move(j, "registry", j.auth)
       \/ Fails /\ BlockUnread(j)
    /\ UNCHANGED <<tracks, next_uid, batches, entries, unrecorded, registryVars, gate, gateVars>>

\* What the registry says of a plate that is not blocked: a lookup that fails finds nothing.
resolve(p, failed) ==
    LET alert == watch[p] = "alert" /\ "alert" \notin failed
        found(c) == class[p] = c /\ c \notin failed
        pass == passes[p] \in {"active", "checked_in"}
        cleared == IF alert THEN "exception" ELSE "matched" IN
    CASE found("vehicle") -> cleared
      [] found("lapsed") -> "exception"         \* outside its window, or its colour or type differs
      [] found("pass") /\ pass -> cleared
      [] found("stale_pass") /\ pass -> "exception"
      [] found("vip") -> "matched"
      [] OTHER -> IF alert THEN "exception" ELSE "unmatched"

LookRegistry(j) ==
    /\ j.at = "registry"
    /\ \E failed \in SUBSET {class[j.plate], "alert"} :
          /\ IF failed = {} THEN Works ELSE Fails
          /\ Move(j, IF class[j.plate] = "pass" /\ class[j.plate] \notin failed /\ passes[j.plate] = "active"
                     THEN "checkin" ELSE "insert",
                  resolve(j.plate, failed))
    /\ UNCHANGED <<tracks, next_uid, batches, entries, unrecorded, registryVars, gate, gateVars>>

\* The pass read as active is checked in by its id, whatever it has become.
CheckIn(j) ==
    /\ j.at = "checkin"
    /\ Move(j, "insert", j.auth)
    /\ passes' = [passes EXCEPT ![j.plate] = "checked_in"]
    /\ UNCHANGED <<tracks, next_uid, batches, dbErrors, entries, unrecorded, class, watch, gate, gateVars>>

\* The flag is cleared whatever track the key stands for by now.
Uncommitted_Any(j) ==
    [tracks EXCEPT ![j.key] = {[t EXCEPT !.committed = FALSE] : t \in @}]

\* After a failed insert a track that is still the same one is committed again by the next batch.
Uncommitted(j) ==
    [tracks EXCEPT ![j.key] = {IF t.uid = j.uid THEN [t EXCEPT !.committed = FALSE] ELSE t : t \in @}]

Opening(by) == [by |-> by, at |-> "policy", halted |-> gate.kill, blind |-> FALSE]

commit(j) ==
    /\ j.at = "insert"
    /\ jobs' = jobs \ {j}
    /\ \/ /\ Works
          /\ entries' = entries \cup {[uid |-> j.uid, plate |-> j.plate, auth |-> j.auth]}
          /\ openings' = IF j.actuate /\ j.auth = "matched" THEN openings \cup {Opening(j)} ELSE openings
          /\ UNCHANGED <<tracks, unrecorded>>
       \/ /\ Fails
          /\ tracks' = Uncommitted(j)
          /\ unrecorded' = unrecorded \cup {j.uid}
          /\ UNCHANGED <<entries, openings>>
    /\ UNCHANGED <<next_uid, batches, registryVars, gate, relay, latched, opened>>

-----------------------------------------------------------------------------
(* The gate.                                                               *)

Auto(o) == "uid" \in DOMAIN o.by

Step(o, at) == openings' = (openings \ {o}) \cup {[o EXCEPT !.at = at]}
GiveUp(o) == openings' = openings \ {o}

manual_open(g) ==
    /\ \A o \in openings \cup opened : o.by # [guard |-> g]
    /\ openings' = openings \cup {Opening([guard |-> g])}
    /\ UNCHANGED <<tracks, next_uid, batches, dbErrors, jobs, entries, unrecorded, registryVars, gate,
                   relay, latched, opened>>

\* A guard bypasses the enabled flag; a policy that cannot be read is none.
policy(o) ==
    /\ o.at = "policy"
    /\ \/ Works /\ IF gate.enabled \/ ~ Auto(o) THEN Step(o, "kill") ELSE GiveUp(o)
       \/ Fails /\ GiveUp(o)
    /\ UNCHANGED <<tracks, next_uid, batches, jobs, entries, unrecorded, registryVars, gate, relay, latched, opened>>

Halts(o) == gate.kill

\* A switch that cannot be read is off.
kill_switch(o) ==
    /\ o.at = "kill"
    /\ \/ Works /\ IF Halts(o) THEN GiveUp(o) ELSE Step(o, "raise")
       \/ Fails /\ openings' = (openings \ {o}) \cup {[o EXCEPT !.at = "raise", !.blind = TRUE]}
    /\ UNCHANGED <<tracks, next_uid, batches, jobs, entries, unrecorded, registryVars, gate, relay, latched, opened>>

\* pulse_output_with raises the output ...
Raise(o) ==
    /\ o.at = "raise"
    /\ \/ /\ Works /\ Step(o, "lower") /\ relay' = TRUE
          /\ opened' = opened \cup {[by |-> o.by, halted |-> o.halted, blind |-> o.blind]}
       \/ Fails /\ GiveUp(o) /\ UNCHANGED <<relay, opened>>
    /\ UNCHANGED <<tracks, next_uid, batches, jobs, entries, unrecorded, registryVars, gate, latched>>

Lowered(o) == Works /\ GiveUp(o) /\ relay' = FALSE /\ UNCHANGED latched

\* ... and lowers it after the pulse, with one more attempt 250 ms later.
Lower(o) ==
    /\ \/ o.at = "lower" /\ (Lowered(o) \/ (Fails /\ Step(o, "retry") /\ UNCHANGED <<relay, latched>>))
       \/ o.at = "retry" /\ (Lowered(o) \/ (Fails /\ GiveUp(o) /\ latched' = TRUE /\ UNCHANGED relay))
    /\ UNCHANGED <<tracks, next_uid, batches, jobs, entries, unrecorded, registryVars, gate, opened>>

\* A guard's request is cancelled, wherever it is, when the client hangs up.
HangUp(o) ==
    /\ ~ Auto(o)
    /\ GiveUp(o)
    /\ latched' = (latched \/ o.at \in {"lower", "retry"})
    /\ UNCHANGED <<tracks, next_uid, batches, dbErrors, jobs, entries, unrecorded, registryVars, gate, relay, opened>>

-----------------------------------------------------------------------------
(* Operators, who only ever tighten: a plate is put on a watchlist, its    *)
(* pass revoked, the kill switch thrown.                                   *)

Tighten ==
    /\ \/ \E p \in Plate, kind \in {"alert", "block"} :
             /\ watch[p] = "none" /\ watch' = [watch EXCEPT ![p] = kind] /\ UNCHANGED <<class, passes, gate>>
       \/ \E p \in Plate : /\ class[p] = "pass" /\ passes[p] # "revoked"
                           /\ passes' = [passes EXCEPT ![p] = "revoked"] /\ UNCHANGED <<class, watch, gate>>
       \/ ~ gate.kill /\ gate' = [gate EXCEPT !.kill = TRUE] /\ UNCHANGED registryVars
    /\ UNCHANGED <<tracks, next_uid, batches, dbErrors, jobs, entries, unrecorded, gateVars>>

PlateStep ==
    \/ process({})
    \/ \E r \in [key : TrackKey, plate : Read, native : BOOLEAN] : process({r})
    \/ \E k \in TrackKey : Vanish(k)
    \/ \E j \in jobs : LookBlock(j) \/ LookRegistry(j) \/ CheckIn(j) \/ commit(j)
    \/ \E o \in openings : policy(o) \/ kill_switch(o) \/ Raise(o) \/ Lower(o) \/ HangUp(o)
    \/ Tighten

GuardStep == \E g \in Guard : manual_open(g)

-----------------------------------------------------------------------------
(* Properties.                                                             *)

\* A track, however often its key is reused and its insert retried, has at most one entry event:
\* a failed insert of a track that is gone must not reopen the one its key stands for now (process,
\* commit).
OneEventPerTrack ==
    /\ \A a, b \in entries : a.uid = b.uid => a = b
    /\ \A e \in entries : \A j \in jobs : j.uid # e.uid

\* A track that goes away has left an entry event, or one in the making, unless its insert failed:
\* the vehicle that passed too quickly for the votes is not lost (commit-on-prune).
ReadsRecorded ==
    \A u \in 1..(next_uid - 1) :
        \/ \E k \in TrackKey : \E t \in tracks[k] : t.uid = u
        \/ u \in unrecorded \/ (\E j \in jobs : j.uid = u) \/ \E e \in entries : e.uid = u

\* The barrier opens by itself only for a track whose winning plate has the votes, whose entry
\* event says matched, and whose plate was not blocked when the commit began, whichever lookup failed
\* on the way (commit, resolve, auto_open_with).
OpeningEarned ==
    \A o \in opened :
        Auto(o) => /\ o.by.votes >= anpr_min_votes /\ o.by.plate \in Plate
                   /\ [uid |-> o.by.uid, plate |-> o.by.plate, auth |-> "matched"] \in entries
                   /\ ~ o.by.barred

\* No opening, automatic or by hand, raises the output if the kill switch was already thrown when it
\* began, as long as the switch can be read (auto_open_with, manual_open).
KillHalts == \A o \in opened : o.halted => o.blind

\* The same without the exception (gate.rs: "a single global kill-switch ... halts ALL actuation").
KillHaltsAll == \A o \in opened : ~ o.halted

\* The output is high only while an opening is about to lower it, or after one had to give up: the
\* device refused twice, or the client hung up (pulse_output_with).
RelayReleased == relay => latched \/ \E o \in openings : o.at \in {"lower", "retry"}

=============================================================================
