----------------------------- MODULE Idempotency -----------------------------
(***************************************************************************)
(* Replay protection for keyed mutations (idempotency.rs): the requests    *)
(* that share one (principal, key, method, path), the row of               *)
(* idempotency_keys that is their primary key, and the retention loop that *)
(* prunes it.  Requests without a key, without a principal or with a body  *)
(* over the cap run unprotected and never touch the row.                   *)
(***************************************************************************)
EXTENDS Naturals, FiniteSets

CONSTANTS Request,   \* the keyed requests that arrive
          Body,      \* their bodies, told apart by their hash
          None,      \* no request
          Faults     \* the environment events of this instance

FaultKinds ==
  { "slow",          \* a handler may run for more than STUCK_CLAIM_MINUTES
    "dies",          \* a handler panics, is dropped, or the process restarts
    "write" }        \* the INSERT, UPDATE or DELETE of the key fails

ASSUME IdempotencyAssumption ==
  /\ None \notin Request
  /\ IsFiniteSet(Request)
  /\ Faults \subseteq FaultKinds

VARIABLES
  row,      \* the row: who claimed it, whose response it stores, its age
  req,      \* req[r]: where request r is, its body and whose response it got
  effects   \* the requests whose handler has done its work

vars == <<row, req, effects>>

(* "stuck": older than STUCK_CLAIM_MINUTES; "expired": than RETENTION_HOURS. *)
AgeClass == {"fresh", "stuck", "expired"}
NoRow    == [by |-> None, answer |-> None, age |-> "fresh"]
Absent   == row.by = None
Claimed  == row.by # None /\ row.answer = None
Answered == row.by # None /\ row.answer # None

ReqPc == {"idle", "arrived", "refused", "running", "store", "release", "dead", "done"}

(* The request holds the claim, or believes it does. *)
InFlight(r) == req[r].pc \in {"running", "store", "release"}

TypeOK ==
  /\ row \in [by : Request \cup {None}, answer : Request \cup {None}, age : AgeClass]
  /\ req \in [Request -> [pc : ReqPc, body : Body, reply : Request \cup {None}]]
  /\ effects \subseteq Request

Init ==
  /\ row = NoRow
  /\ req \in [Request -> [pc : {"idle"}, body : Body, reply : {None}]]
  /\ effects = {}

-----------------------------------------------------------------------------
Goto(r, pc)     == req' = [req EXCEPT ![r].pc = pc]
Reply(r, other) == req' = [req EXCEPT ![r].pc = "done", ![r].reply = other]

Arrive(r) ==
  /\ req[r].pc = "idle"
  /\ Goto(r, "arrived")
  /\ UNCHANGED <<row, effects>>

(* Mutant of Claim: the conflict clause overwrites the row. *)
Claim_Upsert(r) ==
  /\ req[r].pc = "arrived"
  /\ row' = [by |-> r, answer |-> None, age |-> "fresh"]
  /\ Goto(r, "running")
  /\ UNCHANGED effects

(* Mutant of Claim: a request that loses the claim releases the key. *)
Claim_LoserReleases(r) ==
  /\ req[r].pc = "arrived"
  /\ IF Absent THEN /\ row' = [by |-> r, answer |-> None, age |-> "fresh"]
                    /\ Goto(r, "running")
               ELSE /\ Goto(r, "release")
                    /\ UNCHANGED row
  /\ UNCHANGED effects

(* INSERT ... ON CONFLICT DO NOTHING: whoever inserts first runs.  An error
   counts as not claimed. *)
Claim(r) ==
  /\ req[r].pc = "arrived"
  /\ \/ /\ Absent
        /\ row' = [by |-> r, answer |-> None, age |-> "fresh"]
        /\ Goto(r, "running")
     \/ /\ ~Absent \/ "write" \in Faults
        /\ Goto(r, "refused")
        /\ UNCHANGED row
  /\ UNCHANGED effects

(* Mutant of ReadPrior: the stored hash is not compared. *)
ReadPrior_AnyBody(r) ==
  /\ req[r].pc = "refused"
  /\ Reply(r, row.answer)
  /\ UNCHANGED <<row, effects>>

(* The loser reads the row back: another body is a conflict, a stored answer
   is replayed, anything else (no row any more included) is "in flight". *)
ReadPrior(r) ==
  /\ req[r].pc = "refused"
  /\ Reply(r, IF Answered /\ req[row.by].body = req[r].body THEN row.answer ELSE None)
  /\ UNCHANGED <<row, effects>>

(* The handler did its work and its response can be stored, or cannot. *)
HandlerSucceeds(r) ==
  /\ req[r].pc = "running"
  /\ effects' = effects \cup {r}
  /\ Goto(r, "store") \/ Goto(r, "release")
  /\ UNCHANGED row

(* It answered with an error, which is never stored. *)
HandlerFails(r) ==
  /\ req[r].pc = "running"
  /\ Goto(r, "release")
  /\ UNCHANGED <<row, effects>>

(* The claim stays behind: nobody will store an answer or release it. *)
HandlerDies(r) ==
  /\ "dies" \in Faults
  /\ InFlight(r)
  /\ Goto(r, "dead")
  /\ \/ UNCHANGED effects
     \/ req[r].pc = "running" /\ effects' = effects \cup {r}
  /\ UNCHANGED row

(* UPDATE ... SET status_code, body: by key, whoever holds the row now. *)
Store(r) ==
  /\ req[r].pc = "store"
  /\ \/ row' = IF Absent THEN row ELSE [row EXCEPT !.answer = r]
     \/ "write" \in Faults /\ UNCHANGED row
  /\ Reply(r, r)
  /\ UNCHANGED effects

(* release_key: DELETE ... WHERE status_code IS NULL, by key as well. *)
ReleaseKey(r) ==
  /\ req[r].pc = "release"
  /\ \/ row' = IF Claimed THEN NoRow ELSE row
     \/ "write" \in Faults /\ UNCHANGED row
  /\ Reply(r, r)
  /\ UNCHANGED effects

(* Five minutes pass.  Every handler is over by then unless "slow". *)
BecomeStuck ==
  /\ ~Absent /\ row.age = "fresh"
  /\ "slow" \in Faults \/ ~InFlight(row.by)
  /\ row' = [row EXCEPT !.age = "stuck"]
  /\ UNCHANGED <<req, effects>>

(* A day passes.  A claim never gets that old: the sweep comes first. *)
Expire ==
  /\ Answered /\ row.age = "stuck"
  /\ row' = [row EXCEPT !.age = "expired"]
  /\ UNCHANGED <<req, effects>>

(* Mutant of Prune: only the completed rows' window. *)
Prune_OneWindow ==
  /\ ~Absent /\ row.age = "expired"
  /\ row' = NoRow
  /\ UNCHANGED <<req, effects>>

(* prune, from the retention loop. *)
Prune ==
  /\ \/ ~Absent /\ row.age = "expired"
     \/ Claimed /\ row.age = "stuck"
  /\ row' = NoRow
  /\ UNCHANGED <<req, effects>>

Serve(r) == \/ Arrive(r) \/ Claim(r) \/ ReadPrior(r) \/ HandlerSucceeds(r)
            \/ HandlerFails(r) \/ Store(r) \/ ReleaseKey(r)

Next == \/ \E r \in Request : Serve(r) \/ HandlerDies(r)
        \/ BecomeStuck \/ Expire \/ Prune

Spec == Init /\ [][Next]_vars

(* The server finishes the requests it runs, time passes, the sweep ticks. *)
Fairness == /\ \A r \in Request : WF_vars(Serve(r) /\ req[r].pc # "idle")
            /\ WF_vars(BecomeStuck) /\ WF_vars(Prune)

FairSpec == Spec /\ Fairness

-----------------------------------------------------------------------------
(* At most one request with this key is in its handler, and none while an
   answer is stored: a duplicate never does the work a second time next to
   the first (idempotency.rs layer, rules 1 and 4). *)
HandlerExclusive ==
  /\ \A r, s \in Request : req[r].pc = "running" /\ req[s].pc = "running" => r = s
  /\ Answered => \A r \in Request : req[r].pc # "running"

(* A replayed response is the one of a request that did its work and had the
   same body (idempotency.rs layer, rules 1 and 2). *)
ReplayGenuine ==
  \A r \in Request : req[r].reply \notin {r, None} =>
     /\ req[r].reply \in effects
     /\ req[req[r].reply].body = req[r].body

(* A request that releases its key drops no claim but its own (idempotency.rs
   release_key). *)
ReleasesOwnClaim ==
  [][\A r \in Request : req[r].pc = "release" /\ req'[r].pc = "done" =>
        row' = row \/ row.by = r]_vars

(* A key is not blocked for good: a claim without an answer, also one whose
   handler died, is answered or dropped in the end (idempotency.rs prune). *)
ClaimResolved == Claimed ~> ~Claimed
=============================================================================
