------------------------------ MODULE Plugins -------------------------------
(***************************************************************************)
(* The sandboxed plugins (heldar-wasm lib.rs): which of the files in their *)
(* directory are loaded, how a batch is run through one, what is kept of   *)
(* the events it emits, and the breaker that disables one that keeps       *)
(* failing.  Batches of several cameras are run at the same time, on       *)
(* threads of their own, so that the counter and the flag of a plugin are  *)
(* touched in any order.                                                   *)
(***************************************************************************)
EXTENDS Integers, FiniteSets

CONSTANTS PlugFile,     \* the *.wasm files
          PlugId, Reserved, \* ids a guest may give itself; ids of the modules that are composed
          PlugCall,     \* batches under way, each of the camera of its name
          max_events, max_failures,
          MaxEmits,     \* emits of one call (bound)
          MaxCalls,     \* calls begun (bound)
          MaxPlugErrs   \* failing inserts and restarts (bound)

VARIABLES guests,    \* PlugFile -> [id, ok]: what is in the file; ok: it compiles and describes itself
          unread,    \* the files load_dir has not come to
          loaded,    \* id -> the file it was loaded from, or Nothing
          failures, disabled, \* id -> consecutive_failures and the flag
          runs,      \* PlugCall -> [pc, id, call, kept, tries]
          returned,  \* the calls whose guest returned 0
          stored,    \* the events in the log: [id, cam, call, k]
          notices,   \* wasm_plugin_disabled events: [id, boot, call, written]
          started,     \* calls begun
          plugBoot, plugErrs

loadVars == <<guests, unread, loaded>>
breakerVars == <<failures, disabled, notices>>
plugVars == <<loadVars, breakerVars, runs, returned, stored, started, plugBoot, plugErrs>>

Nothing == "nothing"
NoRun == [pc |-> "idle", id |-> Nothing, call |-> 0, kept |-> 0, tries |-> 0]

PlugInit ==
    /\ guests \in [PlugFile -> [id : PlugId, ok : BOOLEAN]]
    /\ unread = PlugFile /\ loaded = [i \in PlugId |-> Nothing]
    /\ failures = [i \in PlugId |-> 0] /\ disabled = {} /\ notices = {}
    /\ runs = [c \in PlugCall |-> NoRun] /\ returned = {} /\ stored = {} /\ started = 0 /\ plugBoot = 1 /\ plugErrs = 0

PlugFails == plugErrs < MaxPlugErrs /\ plugErrs' = plugErrs + 1
PlugFine == UNCHANGED plugErrs

-----------------------------------------------------------------------------
(* Loading.                                                                *)

\* A file claims its id before it is known to be any good.
load_one_Early(f) == guests[f].id \notin Reserved /\ loaded[guests[f].id] = Nothing

\* It must compile, describe itself under a valid id, and be the first of that id.
load_one(f) == guests[f].ok /\ guests[f].id \notin Reserved /\ loaded[guests[f].id] = Nothing

\* The files in the order of the directory; one that cannot be loaded is left out.
load_dir ==
    \E f \in unread :
        /\ unread' = unread \ {f}
        /\ loaded' = IF load_one(f) THEN [loaded EXCEPT ![guests[f].id] = f] ELSE loaded
        /\ UNCHANGED guests

-----------------------------------------------------------------------------
(* Running a batch.                                                        *)

Run(c, r) == runs' = [runs EXCEPT ![c] = r]

\* A batch is handed to a plugin once all are loaded; a disabled one does not look at it.  It runs in a
\* store of its own.
consume(c, i) ==
    /\ unread = {} /\ loaded[i] # Nothing /\ runs[c].pc = "idle" /\ started < MaxCalls
    /\ i \notin disabled
    /\ Run(c, [NoRun EXCEPT !.pc = "guest", !.id = i, !.call = started + 1]) /\ started' = started + 1
    /\ UNCHANGED <<breakerVars, returned, stored>> /\ PlugFine

\* Past the cap nothing is kept; nor is what is too long, not there or no event.
emit_event(c) ==
    LET r == runs[c]
    IN /\ r.pc = "guest" /\ r.tries < MaxEmits
       /\ \E good \in BOOLEAN :
             Run(c, [r EXCEPT !.tries = @ + 1, !.kept = IF good /\ @ < max_events THEN @ + 1 ELSE @])
       /\ UNCHANGED <<breakerVars, returned, stored, started>> /\ PlugFine

\* The guest returns 0, or anything else happens: another code, a trap, no fuel left, memory refused, an
\* ABI that is not this one, a panic.
run_guest(c) ==
    LET r == runs[c]
    IN /\ r.pc = "guest"
       /\ \/ Run(c, [r EXCEPT !.pc = "returned"]) /\ returned' = returned \cup {r.call}
          \/ Run(c, [r EXCEPT !.pc = "failed"]) /\ UNCHANGED returned
       /\ UNCHANGED <<breakerVars, stored, started>> /\ PlugFine

\* A call that returned sets the counter back ...
Returned(c) ==
    LET r == runs[c]
    IN /\ r.pc = "returned" /\ failures' = [failures EXCEPT ![r.id] = 0]
       /\ Run(c, [r EXCEPT !.pc = "persist"])
       /\ UNCHANGED <<disabled, notices, returned, stored, started>> /\ PlugFine

\* ... and its events are logged one by one, each under the plugin's name and the camera of the batch;
\* one that cannot be is given up.
Persist(c) ==
    LET r == runs[c]
    IN /\ r.pc = "persist"
       /\ \/ r.kept = 0 /\ Run(c, NoRun) /\ UNCHANGED stored /\ PlugFine
          \/ /\ r.kept > 0 /\ Run(c, [r EXCEPT !.kept = @ - 1])
             /\ \/ stored' = stored \cup {[id |-> r.id, cam |-> c, call |-> r.call, k |-> r.kept]} /\ PlugFine
                \/ UNCHANGED stored /\ PlugFails
       /\ UNCHANGED <<breakerVars, returned, started>>

\* The other ends lose their events: the failure is counted ...
record_failure(c) ==
    LET r == runs[c]
    IN /\ r.pc = "failed" /\ failures' = [failures EXCEPT ![r.id] = @ + 1]
       /\ Run(c, IF failures[r.id] + 1 >= max_failures THEN [r EXCEPT !.pc = "trip"] ELSE NoRun)
       /\ UNCHANGED <<disabled, notices, returned, stored, started>> /\ PlugFine

\* Whoever reached the limit says so.
Trips_Any(i) == TRUE

\* Whoever finds the flag unset says so.
Trips(i) == i \notin disabled

\* ... and at the limit the flag is swapped.
Trip(c) ==
    LET r == runs[c]
    IN /\ r.pc = "trip" /\ disabled' = disabled \cup {r.id}
       /\ Run(c, IF Trips(r.id) THEN [r EXCEPT !.pc = "notify"] ELSE NoRun)
       /\ UNCHANGED <<failures, notices, returned, stored, started>> /\ PlugFine

\* The notice is written, or lost.
Notify(c) ==
    LET r == runs[c]
    IN /\ r.pc = "notify" /\ Run(c, NoRun)
       /\ \/ notices' = notices \cup {[id |-> r.id, boot |-> plugBoot, call |-> r.call, written |-> TRUE]} /\ PlugFine
          \/ notices' = notices \cup {[id |-> r.id, boot |-> plugBoot, call |-> r.call, written |-> FALSE]} /\ PlugFails
       /\ UNCHANGED <<failures, disabled, returned, stored, started>>

\* The process starts again: the directory is read anew and every breaker is closed.
Restart ==
    /\ PlugFails /\ plugBoot' = plugBoot + 1 /\ unread' = PlugFile /\ loaded' = [i \in PlugId |-> Nothing]
    /\ failures' = [i \in PlugId |-> 0] /\ disabled' = {} /\ runs' = [c \in PlugCall |-> NoRun]
    /\ UNCHANGED <<guests, notices, returned, stored, started>>

Running ==
    \E c \in PlugCall :
        \/ \E i \in PlugId : consume(c, i)
        \/ emit_event(c) \/ run_guest(c) \/ Returned(c) \/ Persist(c) \/ record_failure(c) \/ Trip(c) \/ Notify(c)

PlugNext ==
    \/ load_dir /\ UNCHANGED <<breakerVars, runs, returned, stored, started, plugBoot, plugErrs>>
    \/ Running /\ UNCHANGED <<loadVars, plugBoot>>
    \/ Restart

-----------------------------------------------------------------------------
(* Properties.                                                             *)

\* A file that is no good never keeps a good one of its id out, an id is never loaded twice, and never
\* one of a composed module (load_dir, load_one).
LoadedOnce ==
    \A i \in PlugId :
        /\ loaded[i] # Nothing => guests[loaded[i]].ok /\ guests[loaded[i]].id = i /\ i \notin Reserved
        /\ unread = {} /\ i \notin Reserved /\ (\E f \in PlugFile : guests[f].ok /\ guests[f].id = i) => loaded[i] # Nothing

\* However calls of a plugin overlap, it is disabled and told of once in a life of the process: not
\* without a notice that is written, lost or under way, and not with two (record_failure).
TrippedOnce ==
    \A i \in PlugId :
        LET told == {n \in notices : n.id = i /\ n.boot = plugBoot}
            telling == {c \in PlugCall : runs[c].pc = "notify" /\ runs[c].id = i}
        IN Cardinality(told) + Cardinality(telling) = (IF i \in disabled THEN 1 ELSE 0)

\* What a call emitted is logged only if its guest returned, and no more of it than the cap
\* (emit_event, run_guest, consume).
EmitsOfReturned ==
    \A e \in stored : e.call \in returned /\ Cardinality({x \in stored : x.call = e.call}) <= max_events
=============================================================================
