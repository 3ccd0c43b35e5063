----------------------------- MODULE AppsProofs -----------------------------
(***************************************************************************)
(* What the applications do, for every number of plates, tracks, guards,   *)
(* workers and failures.  Each part of MCApps has an invariant of its own, *)
(* named after it, and the theorems put them together.                     *)
(***************************************************************************)
EXTENDS MCApps, TLAPS, FiniteSetTheorems, NaturalsInduction, WellFoundedInduction

AnprOn == part \in {"plates", "reuse", "gate"}

-----------------------------------------------------------------------------
(* Anpr: the plates and the gate.                                          *)

Auth == {"unmatched", "matched", "exception", "blocked"}

Track == [uid : Nat, votes : [Anpr!Read -> Nat], committed : BOOLEAN, fresh : BOOLEAN]

JobRecord == [key : TrackKey, uid : Nat, plate : Anpr!Read, votes : Nat, actuate : BOOLEAN,
              at : {"block", "registry", "checkin", "insert"}, auth : Auth, barred : BOOLEAN]

Entry == [uid : Nat, plate : Anpr!Read, auth : Auth]

By == JobRecord \cup [guard : Guard]

Opening == [by : By, at : {"policy", "kill", "raise", "lower", "retry"}, halted : BOOLEAN, blind : BOOLEAN]

AnprTypeOK ==
    /\ tracks \in [TrackKey -> SUBSET Track]
    /\ next_uid \in Nat
    /\ jobs \in SUBSET JobRecord
    /\ entries \in SUBSET Entry
    /\ unrecorded \in SUBSET Nat
    /\ watch \in [Plate -> {"none", "alert", "block"}]
    /\ gate \in [enabled : BOOLEAN, kill : BOOLEAN]
    /\ openings \in SUBSET Opening
    /\ opened \in SUBSET [by : By, halted : BOOLEAN, blind : BOOLEAN]

(* A commit acts for the votes it has, resolves no plate that cannot be one, and a plate blocked when
   the commit began is blocked still and never comes out as matched. *)
JobsSound ==
    \A j \in jobs :
        /\ j.actuate => j.votes >= anpr_min_votes
        /\ j.plate \notin Plate => j.at = "insert" /\ j.auth # "matched"
        /\ j.barred => /\ j.plate \in Plate /\ watch[j.plate] = "block"
                       /\ j.at = "block" \/ (j.at = "insert" /\ j.auth # "matched")

(* A commit that opened the gate. *)
Earned(by) ==
    "uid" \in DOMAIN by =>
        /\ by.votes >= anpr_min_votes
        /\ by.plate \in Plate
        /\ [uid |-> by.uid, plate |-> by.plate, auth |-> "matched"] \in entries
        /\ ~ by.barred

(* An opening that began after the kill switch was thrown gets past it only if it could not read it;
   the switch is never thrown back. *)
OpeningsSound ==
    /\ \A o \in openings :
          /\ Earned(o.by)
          /\ o.halted => gate.kill
          /\ o.halted /\ o.at \in {"raise", "lower", "retry"} => o.blind
    /\ \A o \in opened : Earned(o.by) /\ (o.halted => o.blind)

GateInv == AnprTypeOK /\ JobsSound /\ OpeningsSound /\ Anpr!RelayReleased

LEMMA GateInvInit ==
  ASSUME NEW known, NEW errors, NEW spent, Anpr!AnprInit(known, errors, spent)
  PROVE  GateInv
<1> USE DEF Anpr!AnprInit
<1>1. AnprTypeOK
  BY DEF AnprTypeOK, Anpr!Read
<1>2. JobsSound /\ OpeningsSound /\ Anpr!RelayReleased
  BY DEF JobsSound, OpeningsSound, Anpr!RelayReleased
<1> QED BY <1>1, <1>2, SMTT(60) DEF GateInv

(* What the four parts of the invariant read does not change. *)
LEMMA OpeningsKept ==
  ASSUME OpeningsSound, Anpr!RelayReleased, entries \subseteq entries', gate.kill => gate'.kill,
         UNCHANGED <<openings, relay, latched, opened>>
  PROVE  OpeningsSound' /\ Anpr!RelayReleased'
<1>1. ASSUME NEW by, Earned(by) PROVE Earned(by)'
  BY <1>1 DEF Earned
<1> QED BY <1>1 DEF OpeningsSound, Anpr!RelayReleased

(* The opening o gives way to p, for the same request. *)
LEMMA OpeningMoves ==
  ASSUME AnprTypeOK, OpeningsSound, NEW o \in openings, NEW at \in {"kill", "raise", "lower", "retry"},
         NEW blind \in BOOLEAN,
         openings' = (openings \ {o}) \cup {[o EXCEPT !.at = at, !.blind = blind]},
         o.blind => blind,
         at \in {"raise", "lower", "retry"} /\ o.at \notin {"raise", "lower", "retry"} => (blind \/ ~ o.halted),
         UNCHANGED <<entries, gate>>
  PROVE  /\ openings' \in SUBSET Opening
         /\ \A p \in openings' : /\ Earned(p.by)'
                                 /\ p.halted => gate'.kill
                                 /\ p.halted /\ p.at \in {"raise", "lower", "retry"} => p.blind
<1> DEFINE q == [o EXCEPT !.at = at, !.blind = blind]
<1>1. o \in Opening
  BY DEF AnprTypeOK
<1>2. q \in Opening /\ q.by = o.by /\ q.halted = o.halted /\ q.at = at /\ q.blind = blind
  BY <1>1 DEF Opening
<1>3. ASSUME NEW by PROVE Earned(by)' = Earned(by)
  BY DEF Earned
<1>4. o.halted => gate.kill
  BY DEF OpeningsSound
<1>5. o.halted /\ o.at \in {"raise", "lower", "retry"} => o.blind
  BY DEF OpeningsSound
<1>6. ASSUME NEW p \in openings' PROVE p = q \/ p \in openings
  OBVIOUS
<1> QED BY <1>1, <1>2, <1>3, <1>4, <1>5, <1>6, ZenonT(60) DEF OpeningsSound, AnprTypeOK

LEMMA VotedType ==
  ASSUME NEW t \in Track, NEW r \in [key : TrackKey, plate : Anpr!Read, native : BOOLEAN]
  PROVE  /\ Anpr!Voted(t, r) \in Track
         /\ Anpr!Voted(t, r).uid = t.uid /\ Anpr!Voted(t, r).committed = t.committed
<1>1. Anpr!Weight(r.native) \in Nat
  BY AppsAssumption DEF Anpr!Weight
<1>2. [t.votes EXCEPT ![r.plate] = @ + Anpr!Weight(r.native)] \in [Anpr!Read -> Nat]
  BY <1>1 DEF Track
<1> QED BY <1>2 DEF Anpr!Voted, Track

Batch(reads) == reads = {} \/ \E r \in [key : TrackKey, plate : Anpr!Read, native : BOOLEAN] : reads = {r}

(* What a batch sees of a track is the track, or a new one, with at most one vote more. *)
LEMMA CountedType ==
  ASSUME AnprTypeOK, NEW reads, Batch(reads), NEW k \in TrackKey, NEW s \in Anpr!Counted(reads)[k]
  PROVE  /\ s \in Track
         /\ \E t \in IF k \in Anpr!NewKeys(reads) THEN {Anpr!Fresh} ELSE tracks[k] :
               t \in Track /\ s.uid = t.uid /\ s.committed = t.committed
<1> DEFINE cur == IF k \in Anpr!NewKeys(reads) THEN {Anpr!Fresh} ELSE tracks[k]
           mine == {r \in reads : r.key = k}
<1>1. PICK t \in cur : s = IF mine = {} THEN t ELSE Anpr!Voted(t, CHOOSE r \in mine : TRUE)
  BY DEF Anpr!Counted
<1>2. Anpr!Fresh \in Track
  BY DEF Anpr!Fresh, Track, AnprTypeOK
<1>3. t \in Track
  BY <1>1, <1>2 DEF AnprTypeOK
<1>4. CASE mine = {}
  BY <1>1, <1>3, <1>4
<1>5. CASE mine # {}
  <2>1. (CHOOSE r \in mine : TRUE) \in [key : TrackKey, plate : Anpr!Read, native : BOOLEAN]
    BY <1>5 DEF Batch
  <2> QED BY <1>1, <1>3, <1>5, <2>1, VotedType, ZenonT(60)
<1> QED BY <1>4, <1>5

LEMMA GateInvProcess ==
  ASSUME AnprTypeOK, JobsSound, NEW reads, Batch(reads), Anpr!process(reads)
  PROVE  AnprTypeOK' /\ JobsSound'
<1> DEFINE S == Anpr!Counted(reads)
           built(k, t, p) == Anpr!build_job(k, t, p, Anpr!Actuates(t, p))
<1>1. PICK win \in [Anpr!Due(S) -> Anpr!Read] : jobs' = jobs \cup Anpr!Built(S, win)
  BY DEF Anpr!process
<1>2. tracks' = [k \in TrackKey |-> {[t EXCEPT !.committed = @ \/ Anpr!Reached(t)] : t \in {t \in S[k] : t.fresh}}]
  BY DEF Anpr!process
<1>3. ASSUME NEW k \in TrackKey, NEW t \in S[k] PROVE t \in Track
  BY <1>3, CountedType
<1>4. ASSUME NEW k \in TrackKey, NEW t \in S[k], NEW p \in Anpr!Read
      PROVE  built(k, t, p) \in JobRecord
  BY <1>3, <1>4 DEF Anpr!build_job, Anpr!Actuates, JobRecord, Track, Auth
<1>5. ASSUME NEW k \in TrackKey, NEW t \in S[k], NEW p \in Anpr!Read, NEW j, j = built(k, t, p)
      PROVE  /\ j.actuate => j.votes >= anpr_min_votes
             /\ j.plate \notin Plate => j.at = "insert" /\ j.auth # "matched"
             /\ j.barred => /\ j.plate \in Plate /\ watch'[j.plate] = "block"
                            /\ j.at = "block" \/ (j.at = "insert" /\ j.auth # "matched")
  <2>1. UNCHANGED watch
    BY DEF Anpr!process, Anpr!registryVars
  <2> QED BY <1>5, <2>1 DEF Anpr!build_job, Anpr!Actuates, Anpr!Read
<1>6. ASSUME NEW j \in jobs'
      PROVE  j \in jobs \/ \E k \in TrackKey, p \in Anpr!Read : \E t \in S[k] : j = built(k, t, p)
  <2>1. Anpr!Due(S) \subseteq TrackKey
    BY DEF Anpr!Due
  <2>2. DOMAIN win = Anpr!Due(S) /\ \A k \in DOMAIN win : win[k] \in Anpr!Read
    BY <1>1
  <2>3. ASSUME j \in Anpr!Built(S, win)
        PROVE  \E k \in DOMAIN win : \E t \in S[k] : j = built(k, t, win[k])
    BY <2>3 DEF Anpr!Built
  <2> HIDE DEF S, built
  <2> QED BY <1>1, <1>6, <2>1, <2>2, <2>3
<1> HIDE DEF S, built
<1>7. JobsSound'
  <2>1. UNCHANGED watch
    BY DEF Anpr!process, Anpr!registryVars
  <2> QED BY <1>5, <1>6, <2>1 DEF JobsSound
<1>8. jobs' \in SUBSET JobRecord
  BY <1>4, <1>6 DEF AnprTypeOK
<1>9. tracks' \in [TrackKey -> SUBSET Track]
  <2>1. ASSUME NEW k \in TrackKey, NEW t \in S[k]
        PROVE  [t EXCEPT !.committed = @ \/ Anpr!Reached(t)] \in Track
    BY <1>3, <2>1 DEF Track
  <2> QED BY <1>2, <2>1
<1>10. next_uid' \in Nat
  BY DEF Anpr!process, AnprTypeOK
<1>11. UNCHANGED <<dbErrors, entries, unrecorded, class, watch, passes, gate, openings, relay, latched, opened>>
  BY DEF Anpr!process, Anpr!registryVars, Anpr!gateVars
<1> QED BY <1>7, <1>8, <1>9, <1>10, <1>11 DEF AnprTypeOK

LEMMA GateInvVanish ==
  ASSUME AnprTypeOK, NEW k \in TrackKey, Anpr!Vanish(k)
  PROVE  AnprTypeOK'
<1>1. ASSUME NEW t \in Track PROVE [t EXCEPT !.fresh = FALSE] \in Track
  BY DEF Track
<1>2. tracks' \in [TrackKey -> SUBSET Track]
  BY <1>1 DEF AnprTypeOK, Anpr!Vanish
<1> QED BY <1>2 DEF AnprTypeOK, Anpr!Vanish, Anpr!registryVars, Anpr!gateVars

(* A lookup moves its commit on: one of a blocked plate only to its insert, and never as matched. *)
LEMMA JobMoves ==
  ASSUME AnprTypeOK, JobsSound, NEW j \in jobs, j.at # "insert",
         NEW at \in {"registry", "checkin", "insert"}, NEW auth \in Auth, Anpr!Move(j, at, auth),
         j.barred => at = "insert" /\ auth # "matched",
         UNCHANGED watch
  PROVE  jobs' \in SUBSET JobRecord /\ JobsSound'
<1> DEFINE i == [j EXCEPT !.at = at, !.auth = auth]
<1>1. j \in JobRecord
  BY DEF AnprTypeOK
<1>2. /\ i \in JobRecord /\ i.at = at /\ i.auth = auth
      /\ i.barred = j.barred /\ i.plate = j.plate /\ i.actuate = j.actuate /\ i.votes = j.votes
  BY <1>1 DEF JobRecord
<1>3. jobs' = (jobs \ {j}) \cup {i}
  BY DEF Anpr!Move
<1>4. jobs' \in SUBSET JobRecord
  BY <1>2, <1>3 DEF AnprTypeOK
<1> HIDE DEF i
<1>5. JobsSound'
  <2> SUFFICES ASSUME NEW h \in jobs'
               PROVE  /\ h.actuate => h.votes >= anpr_min_votes
                      /\ h.plate \notin Plate => h.at = "insert" /\ h.auth # "matched"
                      /\ h.barred => /\ h.plate \in Plate /\ watch'[h.plate] = "block"
                                     /\ h.at = "block" \/ (h.at = "insert" /\ h.auth # "matched")
    BY DEF JobsSound
  <2>1. h = i \/ h \in jobs
    BY <1>3
  <2> QED BY <1>2, <2>1 DEF JobsSound
<1> QED BY <1>4, <1>5

LEMMA GateInvLookups ==
  ASSUME AnprTypeOK, JobsSound, NEW j \in jobs,
         Anpr!LookBlock(j) \/ Anpr!LookRegistry(j) \/ Anpr!CheckIn(j)
  PROVE  AnprTypeOK' /\ JobsSound'
<1>1. j.auth \in Auth /\ (j.at = "block" /\ watch[j.plate] # "block" => ~ j.barred)
  BY DEF AnprTypeOK, JobRecord, JobsSound
<1>2. CASE Anpr!LookBlock(j)
  <2>1. UNCHANGED <<tracks, next_uid, entries, unrecorded, watch, gate, openings, opened>>
    BY <1>2 DEF Anpr!LookBlock, Anpr!registryVars, Anpr!gateVars
  <2>2. \/ watch[j.plate] = "block" /\ Anpr!Move(j, "insert", "blocked")
        \/ watch[j.plate] # "block" /\ Anpr!Move(j, "registry", j.auth)
        \/ Anpr!Move(j, "insert", "exception")
    BY <1>2 DEF Anpr!LookBlock, Anpr!BlockUnread
  <2>3. j.at = "block"
    BY <1>2 DEF Anpr!LookBlock
  <2>4. jobs' \in SUBSET JobRecord /\ JobsSound'
    BY <1>1, <2>1, <2>2, <2>3, JobMoves DEF Auth
  <2> QED BY <2>1, <2>4 DEF AnprTypeOK
<1>3. CASE Anpr!LookRegistry(j)
  <2>1. UNCHANGED <<tracks, next_uid, entries, unrecorded, watch, gate, openings, opened>>
    BY <1>3 DEF Anpr!LookRegistry, Anpr!registryVars, Anpr!gateVars
  <2>2. ASSUME NEW err PROVE Anpr!resolve(j.plate, err) \in Auth
    BY DEF Anpr!resolve, Auth
  <2>3. j.at = "registry" /\ ~ j.barred
    BY <1>3 DEF Anpr!LookRegistry, JobsSound
  <2>4. \E at \in {"checkin", "insert"}, auth \in Auth : Anpr!Move(j, at, auth)
    BY <1>3, <2>2 DEF Anpr!LookRegistry
  <2>5. jobs' \in SUBSET JobRecord /\ JobsSound'
    BY <2>1, <2>3, <2>4, JobMoves
  <2> QED BY <2>1, <2>5 DEF AnprTypeOK
<1>4. CASE Anpr!CheckIn(j)
  <2>1. UNCHANGED <<tracks, next_uid, entries, unrecorded, watch, gate, openings, opened>>
    BY <1>4 DEF Anpr!CheckIn, Anpr!gateVars
  <2>2. j.at = "checkin" /\ ~ j.barred /\ Anpr!Move(j, "insert", j.auth)
    BY <1>4 DEF Anpr!CheckIn, JobsSound
  <2>3. jobs' \in SUBSET JobRecord /\ JobsSound'
    BY <1>1, <2>1, <2>2, JobMoves
  <2> QED BY <2>1, <2>3 DEF AnprTypeOK
<1> QED BY <1>2, <1>3, <1>4

LEMMA GateInvCommit ==
  ASSUME GateInv, NEW j \in jobs, Anpr!commit(j)
  PROVE  GateInv'
<1> USE DEF GateInv
<1>1. j \in JobRecord /\ j.at = "insert"
  BY DEF AnprTypeOK, Anpr!commit
<1>2. JobsSound' /\ UNCHANGED <<next_uid, watch, gate, relay, latched, opened>>
  BY DEF JobsSound, Anpr!commit, Anpr!registryVars
<1>3. CASE /\ entries' = entries \cup {[uid |-> j.uid, plate |-> j.plate, auth |-> j.auth]}
           /\ openings' = IF j.actuate /\ j.auth = "matched" THEN openings \cup {Anpr!Opening(j)} ELSE openings
           /\ UNCHANGED <<tracks, unrecorded>>
  <2>1. [uid |-> j.uid, plate |-> j.plate, auth |-> j.auth] \in Entry
    BY <1>1 DEF JobRecord, Entry
  <2>2. /\ Anpr!Opening(j) \in Opening /\ Anpr!Opening(j).by = j /\ Anpr!Opening(j).halted = gate.kill
        /\ Anpr!Opening(j).at = "policy"
    BY <1>1 DEF Anpr!Opening, Opening, By, AnprTypeOK
  <2>3. ASSUME j.actuate, j.auth = "matched" PROVE Earned(j)'
    BY <1>1, <1>3, <2>3 DEF Earned, JobsSound, JobRecord
  <2>4. ASSUME NEW by, Earned(by) PROVE Earned(by)'
    BY <1>3, <2>4 DEF Earned
  <2>5. OpeningsSound' /\ Anpr!RelayReleased'
    BY <1>2, <1>3, <2>2, <2>3, <2>4 DEF OpeningsSound, Anpr!RelayReleased
  <2>6. AnprTypeOK'
    BY <1>2, <1>3, <2>1, <2>2 DEF AnprTypeOK, Anpr!commit
  <2> QED BY <1>2, <2>5, <2>6
<1>4. CASE /\ tracks' = Anpr!Uncommitted(j)
           /\ unrecorded' = unrecorded \cup {j.uid}
           /\ UNCHANGED <<entries, openings>>
  <2>1. ASSUME NEW t \in Track
        PROVE  (IF t.uid = j.uid THEN [t EXCEPT !.committed = FALSE] ELSE t) \in Track
    BY DEF Track
  <2>2. tracks' \in [TrackKey -> SUBSET Track]
    <3>1. j.key \in TrackKey /\ tracks[j.key] \subseteq Track
      BY <1>1 DEF AnprTypeOK, JobRecord
    <3> QED BY <1>4, <2>1, <3>1 DEF AnprTypeOK, Anpr!Uncommitted
  <2>3. j.uid \in Nat
    BY <1>1 DEF JobRecord
  <2>4. AnprTypeOK'
    BY <1>2, <1>4, <2>2, <2>3 DEF AnprTypeOK, Anpr!commit
  <2>5. OpeningsSound' /\ Anpr!RelayReleased'
    BY <1>2, <1>4, OpeningsKept
  <2> QED BY <1>2, <2>4, <2>5
<1> QED BY <1>3, <1>4 DEF Anpr!commit

LEMMA GateInvGuard ==
  ASSUME GateInv, NEW g \in Guard, Anpr!manual_open(g)
  PROVE  GateInv'
<1> USE DEF GateInv
<1> DEFINE o == Anpr!Opening([guard |-> g])
<1>1. o \in Opening /\ o.by = [guard |-> g] /\ o.halted = gate.kill /\ o.at = "policy"
  BY DEF Anpr!Opening, Opening, By, AnprTypeOK
<1>2. openings' = openings \cup {o} /\ UNCHANGED <<tracks, next_uid, jobs, entries, unrecorded, class, watch, passes, gate, relay, latched, opened>>
  BY DEF Anpr!manual_open, Anpr!registryVars
<1> HIDE DEF o
<1>3. ASSUME NEW by PROVE Earned(by)' = Earned(by)
  BY <1>2 DEF Earned
<1>4. Earned([guard |-> g])
  BY DEF Earned
<1>5. OpeningsSound'
  BY <1>1, <1>2, <1>3, <1>4 DEF OpeningsSound
<1>6. AnprTypeOK' /\ JobsSound' /\ Anpr!RelayReleased'
  BY <1>1, <1>2 DEF AnprTypeOK, JobsSound, Anpr!RelayReleased
<1> QED BY <1>5, <1>6

LEMMA GateInvOpenings ==
  ASSUME GateInv, NEW o \in openings,
         Anpr!policy(o) \/ Anpr!kill_switch(o) \/ Anpr!Raise(o) \/ Anpr!Lower(o) \/ Anpr!HangUp(o)
  PROVE  GateInv'
<1> USE DEF GateInv
<1>1. UNCHANGED <<tracks, next_uid, jobs, entries, unrecorded, class, watch, passes, gate>>
  BY DEF Anpr!policy, Anpr!kill_switch, Anpr!Raise, Anpr!Lower, Anpr!HangUp, Anpr!registryVars
<1>2. JobsSound' /\ (opened' \in SUBSET [by : By, halted : BOOLEAN, blind : BOOLEAN]
                     /\ openings' \in SUBSET Opening => AnprTypeOK')
  BY <1>1 DEF JobsSound, AnprTypeOK
<1>3. ASSUME NEW by PROVE Earned(by)' = Earned(by)
  BY <1>1 DEF Earned
<1>4. o \in Opening
  BY DEF AnprTypeOK
<1>5. /\ Earned(o.by) /\ (o.halted => gate.kill)
      /\ o.halted /\ o.at \in {"raise", "lower", "retry"} => o.blind
  BY DEF OpeningsSound
<1>7. ASSUME openings' \in SUBSET Opening, UNCHANGED opened,
             \A p \in openings' : /\ Earned(p.by)'
                                  /\ p.halted => gate'.kill
                                  /\ p.halted /\ p.at \in {"raise", "lower", "retry"} => p.blind
      PROVE  AnprTypeOK' /\ OpeningsSound'
  BY <1>2, <1>3, <1>7 DEF AnprTypeOK, OpeningsSound
<1>8. ASSUME Anpr!GiveUp(o), UNCHANGED opened PROVE AnprTypeOK' /\ OpeningsSound'
  <2>1. openings' \subseteq openings
    BY <1>8 DEF Anpr!GiveUp
  <2> QED BY <1>1, <1>3, <1>7, <1>8, <2>1 DEF AnprTypeOK, OpeningsSound
<1>9. ASSUME NEW at \in {"kill", "raise", "lower", "retry"}, Anpr!Step(o, at), UNCHANGED opened,
             at \in {"raise", "lower", "retry"} /\ o.at \notin {"raise", "lower", "retry"} => ~ o.halted
      PROVE  AnprTypeOK' /\ OpeningsSound'
  <2>1. openings' = (openings \ {o}) \cup {[o EXCEPT !.at = at, !.blind = o.blind]}
    BY <1>4, <1>9, ZenonT(60) DEF Anpr!Step, Opening
  <2>2. o.blind \in BOOLEAN
    BY <1>4 DEF Opening
  <2> QED BY <1>1, <1>7, <1>9, <2>1, <2>2, OpeningMoves
<1>10. CASE Anpr!policy(o)
  <2>1. o.at = "policy" /\ UNCHANGED <<relay, latched, opened>> /\ (Anpr!GiveUp(o) \/ Anpr!Step(o, "kill"))
    BY <1>10 DEF Anpr!policy
  <2>2. Anpr!RelayReleased'
    BY <2>1 DEF Anpr!RelayReleased, Anpr!GiveUp, Anpr!Step
  <2> QED BY <1>2, <1>8, <1>9, <2>1, <2>2
<1>11. CASE Anpr!kill_switch(o)
  <2>1. o.at = "kill" /\ UNCHANGED <<relay, latched, opened>>
    BY <1>11 DEF Anpr!kill_switch
  <2>2. Anpr!RelayReleased'
    BY <1>11, <2>1 DEF Anpr!RelayReleased, Anpr!GiveUp, Anpr!Step, Anpr!kill_switch
  <2>3. CASE gate.kill /\ Anpr!GiveUp(o)
    BY <1>2, <1>8, <2>1, <2>2, <2>3
  <2>4. CASE ~ gate.kill /\ Anpr!Step(o, "raise")
    BY <1>2, <1>5, <1>9, <2>1, <2>2, <2>4
  <2>5. CASE openings' = (openings \ {o}) \cup {[o EXCEPT !.at = "raise", !.blind = TRUE]}
    BY <1>1, <1>2, <1>7, <2>1, <2>2, <2>5, OpeningMoves
  <2> QED BY <1>11, <2>3, <2>4, <2>5 DEF Anpr!kill_switch, Anpr!Halts
<1>12. CASE Anpr!Raise(o)
  <2>1. o.at = "raise" /\ UNCHANGED latched
    BY <1>12 DEF Anpr!Raise
  <2>2. CASE Anpr!GiveUp(o) /\ UNCHANGED <<relay, opened>>
    <3>1. Anpr!RelayReleased'
      BY <2>1, <2>2 DEF Anpr!RelayReleased, Anpr!GiveUp
    <3> QED BY <1>2, <1>8, <2>2, <3>1
  <2>3. CASE /\ Anpr!Step(o, "lower") /\ relay' = TRUE
             /\ opened' = opened \cup {[by |-> o.by, halted |-> o.halted, blind |-> o.blind]}
    <3>1. openings' = (openings \ {o}) \cup {[o EXCEPT !.at = "lower", !.blind = o.blind]}
      BY <1>4, <2>3 DEF Anpr!Step, Opening
    <3>2. o.blind \in BOOLEAN /\ o.by \in By /\ o.halted \in BOOLEAN
      BY <1>4 DEF Opening
    <3>3. /\ openings' \in SUBSET Opening
          /\ \A p \in openings' : /\ Earned(p.by)'
                                  /\ p.halted => gate'.kill
                                  /\ p.halted /\ p.at \in {"raise", "lower", "retry"} => p.blind
      BY <1>1, <2>1, <3>1, <3>2, OpeningMoves
    <3>4. opened' \in SUBSET [by : By, halted : BOOLEAN, blind : BOOLEAN]
      BY <2>3, <3>2 DEF AnprTypeOK
    <3>5. \A p \in opened' : Earned(p.by)' /\ (p.halted => p.blind)
      BY <1>3, <1>5, <2>1, <2>3 DEF OpeningsSound
    <3>6. Anpr!RelayReleased'
      <4>1. [o EXCEPT !.at = "lower"] \in openings' /\ [o EXCEPT !.at = "lower"].at = "lower"
        BY <1>4, <2>3 DEF Anpr!Step, Opening
      <4> QED BY <4>1 DEF Anpr!RelayReleased
    <3> QED BY <1>2, <3>3, <3>4, <3>5, <3>6 DEF OpeningsSound
  <2> QED BY <1>12, <2>2, <2>3, ZenonT(60) DEF Anpr!Raise
<1>13. CASE Anpr!Lower(o)
  <2>1. o.at \in {"lower", "retry"} /\ UNCHANGED opened
    BY <1>13 DEF Anpr!Lower
  <2>2. CASE Anpr!Step(o, "retry") /\ UNCHANGED <<relay, latched>>
    <3>1. [o EXCEPT !.at = "retry"] \in openings' /\ [o EXCEPT !.at = "retry"].at = "retry"
      BY <1>4, <2>2 DEF Anpr!Step, Opening
    <3>2. Anpr!RelayReleased'
      BY <3>1 DEF Anpr!RelayReleased
    <3> QED BY <1>2, <1>9, <2>1, <2>2, <3>2
  <2>3. CASE Anpr!GiveUp(o) /\ (relay' = FALSE \/ latched' = TRUE)
    <3>1. Anpr!RelayReleased'
      BY <2>3 DEF Anpr!RelayReleased
    <3> QED BY <1>2, <1>8, <2>1, <2>3, <3>1
  <2> QED BY <1>13, <2>2, <2>3 DEF Anpr!Lower, Anpr!Lowered
<1>14. CASE Anpr!HangUp(o)
  <2>1. Anpr!GiveUp(o) /\ UNCHANGED <<relay, opened>> /\ latched' = (latched \/ o.at \in {"lower", "retry"})
    BY <1>14 DEF Anpr!HangUp
  <2>2. Anpr!RelayReleased'
    BY <2>1 DEF Anpr!RelayReleased, Anpr!GiveUp
  <2> QED BY <1>2, <1>8, <2>1, <2>2
<1> QED BY <1>10, <1>11, <1>12, <1>13, <1>14

LEMMA GateInvTighten ==
  ASSUME GateInv, Anpr!Tighten
  PROVE  GateInv'
<1> USE DEF GateInv
<1>1. UNCHANGED <<tracks, next_uid, jobs, entries, unrecorded, openings, relay, latched, opened>>
  BY DEF Anpr!Tighten, Anpr!gateVars
<1>2. watch' \in [Plate -> {"none", "alert", "block"}] /\ \A p \in Plate : watch[p] = "block" => watch'[p] = "block"
  BY DEF AnprTypeOK, Anpr!Tighten, Anpr!registryVars
<1>3. gate' \in [enabled : BOOLEAN, kill : BOOLEAN] /\ (gate.kill => gate'.kill)
  BY DEF AnprTypeOK, Anpr!Tighten
<1>4. AnprTypeOK'
  BY <1>1, <1>2, <1>3 DEF AnprTypeOK
<1>5. JobsSound'
  BY <1>1, <1>2 DEF JobsSound, AnprTypeOK, JobRecord
<1>6. OpeningsSound' /\ Anpr!RelayReleased'
  BY <1>1, <1>3, OpeningsKept
<1> QED BY <1>4, <1>5, <1>6

(* Every step of the plates and the gate keeps the invariant. *)
LEMMA GateInvStep ==
  ASSUME GateInv, Anpr!PlateStep \/ Anpr!GuardStep
  PROVE  GateInv'
<1>1. ASSUME NEW reads, Batch(reads), Anpr!process(reads) PROVE GateInv'
  <2>1. UNCHANGED <<entries, gate, openings, relay, latched, opened>>
    BY <1>1 DEF Anpr!process, Anpr!gateVars
  <2> QED BY <1>1, <2>1, GateInvProcess, OpeningsKept, SMTT(60) DEF GateInv
<1>2. Batch({}) /\ \A r \in [key : TrackKey, plate : Anpr!Read, native : BOOLEAN] : Batch({r})
  BY DEF Batch
<1>3. ASSUME NEW k \in TrackKey, Anpr!Vanish(k) PROVE GateInv'
  <2>1. UNCHANGED <<jobs, watch, entries, gate, openings, relay, latched, opened>>
    BY <1>3 DEF Anpr!Vanish, Anpr!registryVars, Anpr!gateVars
  <2> QED BY <1>3, <2>1, GateInvVanish, OpeningsKept DEF GateInv, JobsSound
<1>4. ASSUME NEW j \in jobs, Anpr!LookBlock(j) \/ Anpr!LookRegistry(j) \/ Anpr!CheckIn(j) PROVE GateInv'
  <2>1. UNCHANGED <<entries, gate, openings, relay, latched, opened>>
    BY <1>4 DEF Anpr!LookBlock, Anpr!LookRegistry, Anpr!CheckIn, Anpr!gateVars
  <2> QED BY <1>4, <2>1, GateInvLookups, OpeningsKept DEF GateInv
<1> QED BY <1>1, <1>2, <1>3, <1>4, GateInvCommit, GateInvGuard, GateInvOpenings, GateInvTighten
     DEF Anpr!PlateStep, Anpr!GuardStep

(* A step of the project is one of the part under way, or leaves its state alone. *)
LEMMA AnprMoves ==
  ASSUME AnprOn, [AppsNext]_appsVars
  PROVE  AnprOn' /\ (Anpr!PlateStep \/ Anpr!GuardStep \/ UNCHANGED anprVars)
<1>1. CASE UNCHANGED appsVars
  BY <1>1 DEF appsVars, AnprOn
<1>2. CASE AppsNext
  BY <1>2 DEF AppsNext, AnprOn
<1> QED BY <1>1, <1>2

LEMMA GateInvAlways == AppsSpec => [](AnprOn => GateInv)
<1>1. AppsInit => (AnprOn => GateInv)
  BY GateInvInit DEF AppsInit, AnprOn
<1>2. ASSUME AnprOn => GateInv, [AppsNext]_appsVars PROVE (AnprOn => GateInv)'
  <2>1. CASE ~ AnprOn
    BY <1>2, <2>1 DEF AppsNext, appsVars, AnprOn
  <2>2. CASE AnprOn
    <3>1. GateInv
      BY <1>2, <2>2
    <3>2. ASSUME UNCHANGED anprVars PROVE GateInv'
      BY <3>1, <3>2 DEF anprVars, GateInv, AnprTypeOK, JobsSound, OpeningsSound, Earned, Anpr!RelayReleased
    <3> QED BY <1>2, <2>2, <3>1, <3>2, AnprMoves, GateInvStep
  <2> QED BY <2>1, <2>2
<1> QED BY <1>1, <1>2, PTL DEF AppsSpec

(* Whatever the plates, the guards and the failures: the barrier opens by itself only for a matched
   plate with the votes that was not blocked, no opening passes a kill switch it can read, and the
   output does not stay high (gate.rs, anpr.rs, camera_control.rs pulse_output_with). *)
THEOREM GateStaysSafe == AppsSpec => []GateSafe
<1>1. (AnprOn => GateInv) => GateSafe
  <2> SUFFICES ASSUME GateInv PROVE Anpr!OpeningEarned /\ Anpr!KillHalts /\ Anpr!RelayReleased
    BY DEF GateSafe, AnprOn
  <2> QED BY DEF GateInv, OpeningsSound, Earned, Anpr!OpeningEarned, Anpr!KillHalts, Anpr!Auto
<1> QED BY <1>1, GateInvAlways, PTL

-----------------------------------------------------------------------------
(* Anpr: one entry event per track.                                        *)

HasJob(u) == \E j \in jobs : j.uid = u
HasEntry(u) == \E e \in entries : e.uid = u
HasTrack(u) == \E k \in TrackKey : \E t \in tracks[k] : t.uid = u

(* A key stands for one track and a track for one key. *)
TracksApart ==
    /\ \A k \in TrackKey : \A t, u \in tracks[k] : t = u
    /\ \A k, l \in TrackKey : \A t \in tracks[k], u \in tracks[l] : t.uid = u.uid => k = l
    /\ \A k \in TrackKey : \A t \in tracks[k] : t.uid < next_uid

(* A track has a commit under way or an entry event, not both and not two. *)
JobsApart ==
    /\ \A i, j \in jobs : i.uid = j.uid => i = j
    /\ \A a, b \in entries : a.uid = b.uid => a = b
    /\ \A j \in jobs : ~ HasEntry(j.uid)
    /\ \A j \in jobs : j.uid < next_uid
    /\ \A e \in entries : e.uid < next_uid

(* It is marked as committed while it has either, and has, or had, one when it is. *)
MarkedRight ==
    \A k \in TrackKey : \A t \in tracks[k] :
        /\ ~ t.committed => ~ HasJob(t.uid) /\ ~ HasEntry(t.uid)
        /\ t.committed => HasJob(t.uid) \/ HasEntry(t.uid) \/ t.uid \in unrecorded

Recorded(u) == HasTrack(u) \/ u \in unrecorded \/ HasJob(u) \/ HasEntry(u)

AllRecorded == next_uid >= 1 /\ \A u \in Nat : 1 <= u /\ u < next_uid => Recorded(u)

EntryInv == TracksApart /\ JobsApart /\ MarkedRight /\ AllRecorded

LEMMA EntryInvInit ==
  ASSUME NEW known, NEW errors, NEW spent, Anpr!AnprInit(known, errors, spent)
  PROVE  EntryInv
  BY DEF Anpr!AnprInit, EntryInv, TracksApart, JobsApart, MarkedRight, AllRecorded

(* What a batch counts of a key is one track, and the one there was is counted. *)
LEMMA CountedOne ==
  ASSUME AnprTypeOK, TracksApart, NEW reads, Batch(reads), NEW k \in TrackKey
  PROVE  /\ \A s, t \in Anpr!Counted(reads)[k] : s = t
         /\ \A t \in tracks[k] : \E s \in Anpr!Counted(reads)[k] : s.uid = t.uid /\ s.committed = t.committed
         /\ k \in Anpr!NewKeys(reads) <=> tracks[k] = {} /\ \E r \in reads : r.key = k
         /\ k \in Anpr!NewKeys(reads) => \E s \in Anpr!Counted(reads)[k] : s.uid = next_uid /\ s.fresh
         /\ \A l \in Anpr!NewKeys(reads) : k \in Anpr!NewKeys(reads) => l = k
<1> DEFINE cur == IF k \in Anpr!NewKeys(reads) THEN {Anpr!Fresh} ELSE tracks[k]
           mine == {r \in reads : r.key = k}
           of(t) == IF mine = {} THEN t ELSE Anpr!Voted(t, CHOOSE r \in mine : TRUE)
<1>1. Anpr!Counted(reads)[k] = {of(t) : t \in cur}
  BY DEF Anpr!Counted
<1>2. k \in Anpr!NewKeys(reads) <=> tracks[k] = {} /\ \E r \in reads : r.key = k
  BY DEF Anpr!NewKeys
<1>3. \A l \in Anpr!NewKeys(reads) : k \in Anpr!NewKeys(reads) => l = k
  BY DEF Anpr!NewKeys, Batch
<1>4. Anpr!Fresh \in Track /\ Anpr!Fresh.uid = next_uid /\ ~ Anpr!Fresh.committed
  BY DEF Anpr!Fresh, Track, AnprTypeOK
<1>5. ASSUME NEW t \in Track PROVE of(t).uid = t.uid /\ of(t).committed = t.committed /\ (mine # {} => of(t).fresh)
  <2>1. CASE mine = {}
    BY <2>1
  <2>2. CASE mine # {}
    <3>1. (CHOOSE r \in mine : TRUE) \in [key : TrackKey, plate : Anpr!Read, native : BOOLEAN]
      BY <2>2 DEF Batch
    <3>2. ASSUME NEW r PROVE Anpr!Voted(t, r).fresh
      BY <1>5 DEF Anpr!Voted, Track
    <3> QED BY <1>5, <2>2, <3>1, <3>2, VotedType
  <2> QED BY <2>1, <2>2
<1>6. tracks[k] \subseteq Track
  BY DEF AnprTypeOK
<1>7. \A s, t \in cur : s = t
  BY DEF TracksApart
<1>8. \A t \in tracks[k] : t \in cur
  BY <1>2
<1> HIDE DEF of, cur
<1>9. \A s, t \in Anpr!Counted(reads)[k] : s = t
  BY <1>1, <1>7
<1>10. \A t \in tracks[k] : \E s \in Anpr!Counted(reads)[k] : s.uid = t.uid /\ s.committed = t.committed
  BY <1>1, <1>5, <1>6, <1>8
<1>11. k \in Anpr!NewKeys(reads) => \E s \in Anpr!Counted(reads)[k] : s.uid = next_uid /\ s.fresh
  BY <1>1, <1>2, <1>4, <1>5 DEF cur
<1> QED BY <1>2, <1>3, <1>9, <1>10, <1>11

JobOf(k, t, p) == Anpr!build_job(k, t, p, Anpr!Actuates(t, p))

LEMMA EntryInvProcess ==
  ASSUME AnprTypeOK, AnprTypeOK', EntryInv, NEW reads, Batch(reads), Anpr!process(reads)
  PROVE  EntryInv'
<1> DEFINE S == Anpr!Counted(reads)
           KeptOf(t) == [t EXCEPT !.committed = @ \/ Anpr!Reached(t)]
<1>1. PICK win \in [Anpr!Due(S) -> Anpr!Read] : jobs' = jobs \cup Anpr!Built(S, win)
  BY DEF Anpr!process
<1>2. tracks' = [k \in TrackKey |-> {KeptOf(t) : t \in {t \in S[k] : t.fresh}}]
  BY DEF Anpr!process
<1>3. /\ UNCHANGED <<entries, unrecorded>>
      /\ next_uid' = IF Anpr!NewKeys(reads) = {} THEN next_uid ELSE next_uid + 1
  BY DEF Anpr!process
<1>4. next_uid \in Nat /\ next_uid >= 1 /\ next_uid' \in Nat /\ next_uid <= next_uid'
  BY <1>3 DEF AnprTypeOK, EntryInv, AllRecorded
<1>5. ASSUME NEW k \in TrackKey, NEW s \in S[k]
      PROVE  /\ s \in Track /\ s.uid \in Nat
             /\ \/ k \in Anpr!NewKeys(reads) /\ s.uid = next_uid /\ ~ s.committed
                \/ k \notin Anpr!NewKeys(reads) /\ \E t \in tracks[k] : t \in Track /\ s.uid = t.uid /\ s.committed = t.committed
  <2>1. Anpr!Fresh.uid = next_uid /\ ~ Anpr!Fresh.committed
    BY DEF Anpr!Fresh
  <2>2. s \in Track
    BY <1>5, CountedType
  <2> QED BY <1>5, <2>1, <2>2, CountedType DEF Track
<1>6. ASSUME NEW k \in TrackKey, NEW s \in S[k]
      PROVE  KeptOf(s).uid = s.uid /\ KeptOf(s).committed = (s.committed \/ Anpr!Reached(s))
  BY <1>5, <1>6 DEF Track
<1>7. ASSUME NEW k \in TrackKey, NEW s \in S[k], NEW p \in Anpr!Read PROVE JobOf(k, s, p).uid = s.uid
  BY DEF JobOf, Anpr!build_job
(* The jobs that are new, one for each key that is due. *)
<1>8. \A j \in jobs' :
         j \in jobs \/ \E k \in TrackKey : \E s \in S[k] : /\ j = JobOf(k, s, win[k]) /\ j.uid = s.uid
                                                           /\ Anpr!Reached(s) \/ Anpr!Owed(s)
  <2> SUFFICES ASSUME NEW j \in jobs', j \notin jobs
               PROVE  \E k \in TrackKey : \E s \in S[k] : /\ j = JobOf(k, s, win[k]) /\ j.uid = s.uid
                                                          /\ Anpr!Reached(s) \/ Anpr!Owed(s)
    OBVIOUS
  <2>1. DOMAIN win = Anpr!Due(S) /\ \A k \in DOMAIN win : win[k] \in Anpr!Read
    BY <1>1
  <2>2. \E k \in DOMAIN win : \E s \in S[k] : j = JobOf(k, s, win[k])
    BY <1>1 DEF Anpr!Built, JobOf
  <2>3. ASSUME NEW k \in Anpr!Due(S) PROVE k \in TrackKey /\ \E s \in S[k] : Anpr!Reached(s) \/ Anpr!Owed(s)
    BY <2>3 DEF Anpr!Due
  <2>4. ASSUME NEW k \in Anpr!Due(S), NEW s \in S[k] PROVE Anpr!Reached(s) \/ Anpr!Owed(s)
    BY <2>3, <2>4, CountedOne DEF EntryInv
  <2> HIDE DEF S
  <2> QED BY <1>1, <1>7, <2>1, <2>2, <2>3, <2>4
<1>9. ASSUME NEW k \in TrackKey, NEW s \in S[k], Anpr!Reached(s) \/ Anpr!Owed(s)
      PROVE  \E j \in jobs' : j.uid = s.uid
  <2>1. k \in Anpr!Due(S) /\ win[k] \in Anpr!Read
    BY <1>1, <1>9 DEF Anpr!Due
  <2>2. JobOf(k, s, win[k]) \in Anpr!Built(S, win)
    BY <1>1, <1>9, <2>1 DEF Anpr!Built, JobOf
  <2> QED BY <1>1, <1>7, <1>9, <2>1, <2>2
<1>10. ASSUME NEW s, Anpr!Reached(s) \/ Anpr!Owed(s) PROVE ~ s.committed
  BY <1>10 DEF Anpr!Reached, Anpr!Owed
(* Neither a job nor an event has the uid of a track counted that is not committed. *)
<1>11. ASSUME NEW k \in TrackKey, NEW s \in S[k], ~ s.committed
       PROVE  ~ HasJob(s.uid) /\ ~ HasEntry(s.uid)
  BY <1>4, <1>5, <1>11 DEF EntryInv, JobsApart, MarkedRight, HasJob, HasEntry, AnprTypeOK, JobRecord, Entry
<1>12. ASSUME NEW k \in TrackKey, NEW l \in TrackKey, NEW s \in S[k], NEW t \in S[l], s.uid = t.uid
       PROVE  k = l /\ s = t
  <2>1. ASSUME NEW m \in TrackKey, NEW u \in tracks[m] PROVE u.uid < next_uid /\ u.uid \in Nat
    BY DEF EntryInv, TracksApart, AnprTypeOK, Track
  <2>2. k = l
    <3>1. CASE k \in Anpr!NewKeys(reads) /\ l \in Anpr!NewKeys(reads)
      BY <3>1, CountedOne DEF EntryInv
    <3>2. CASE k \notin Anpr!NewKeys(reads) /\ l \notin Anpr!NewKeys(reads)
      BY <1>5, <1>12, <3>2 DEF EntryInv, TracksApart
    <3> QED BY <1>4, <1>5, <1>12, <2>1, <3>1, <3>2
  <2> QED BY <2>2, CountedOne DEF EntryInv
<1>13. ASSUME NEW k \in TrackKey, NEW s \in S[k] PROVE s.uid < next_uid'
  <2>1. ASSUME NEW u \in tracks[k] PROVE u.uid < next_uid /\ u.uid \in Nat
    BY DEF EntryInv, TracksApart, AnprTypeOK, Track
  <2> QED BY <1>3, <1>4, <1>5, <1>13, <2>1
<1>14. ASSUME NEW k \in TrackKey, NEW t \in tracks'[k]
       PROVE  \E s \in S[k] : s.fresh /\ t = KeptOf(s) /\ t.uid = s.uid /\ t.committed = (s.committed \/ Anpr!Reached(s))
  <2>1. tracks'[k] = {KeptOf(u) : u \in {u \in S[k] : u.fresh}}
    BY <1>2
  <2> HIDE DEF KeptOf, S
  <2>2. PICK u \in S[k] : u.fresh /\ t = KeptOf(u)
    BY <2>1, <1>14
  <2> QED BY <1>6, <2>2
<1>15. \A u \in Nat : HasJob(u) => HasJob(u)'
  BY <1>1 DEF HasJob
<1>16. \A u : HasEntry(u)' = HasEntry(u)
  BY <1>3 DEF HasEntry
<1> HIDE DEF KeptOf
<1>17. TracksApart'
  <2>1. ASSUME NEW k \in TrackKey, NEW l \in TrackKey, NEW t \in tracks'[k], NEW u \in tracks'[l], t.uid = u.uid
        PROVE  k = l /\ t = u
    <3>1. PICK a \in S[k] : t = KeptOf(a) /\ t.uid = a.uid
      BY <1>14
    <3>2. PICK b \in S[l] : u = KeptOf(b) /\ u.uid = b.uid
      BY <1>14
    <3> QED BY <1>12, <2>1, <3>1, <3>2
  <2>2. ASSUME NEW k \in TrackKey, NEW t \in tracks'[k], NEW u \in tracks'[k] PROVE t = u
    <3>1. PICK a \in S[k] : t = KeptOf(a)
      BY <1>14
    <3>2. PICK b \in S[k] : u = KeptOf(b)
      BY <1>14
    <3>3. a = b
      BY CountedOne DEF EntryInv, S
    <3> QED BY <3>1, <3>2, <3>3
  <2>3. ASSUME NEW k \in TrackKey, NEW t \in tracks'[k] PROVE t.uid < next_uid'
    BY <1>13, <1>14
  <2> QED BY <2>1, <2>2, <2>3 DEF TracksApart
<1>18. JobsApart'
  <2>1. ASSUME NEW i \in jobs', NEW j \in jobs', i.uid = j.uid PROVE i = j
    <3>1. CASE i \in jobs /\ j \in jobs
      BY <2>1, <3>1 DEF EntryInv, JobsApart
    <3>2. ASSUME NEW h \in jobs, NEW k \in TrackKey, NEW a \in S[k], a.uid = h.uid, Anpr!Reached(a) \/ Anpr!Owed(a)
          PROVE  FALSE
      BY <1>10, <1>11, <3>2 DEF HasJob
    <3>3. CASE i \notin jobs /\ j \notin jobs
      <4>1. PICK k \in TrackKey : \E a \in S[k] : i = JobOf(k, a, win[k]) /\ i.uid = a.uid
        BY <1>8, <3>3
      <4>2. PICK a \in S[k] : i = JobOf(k, a, win[k]) /\ i.uid = a.uid
        BY <4>1
      <4>3. PICK l \in TrackKey : \E b \in S[l] : j = JobOf(l, b, win[l]) /\ j.uid = b.uid
        BY <1>8, <3>3
      <4>4. PICK b \in S[l] : j = JobOf(l, b, win[l]) /\ j.uid = b.uid
        BY <4>3
      <4> QED BY <1>12, <2>1, <4>2, <4>4
    <3> QED BY <1>8, <2>1, <3>1, <3>2, <3>3
  <2>2. ASSUME NEW j \in jobs' PROVE ~ HasEntry(j.uid)' /\ j.uid < next_uid'
    <3>1. CASE j \in jobs
      <4>1. j.uid \in Nat /\ j.uid < next_uid /\ ~ HasEntry(j.uid)
        BY <3>1 DEF AnprTypeOK, JobRecord, EntryInv, JobsApart
      <4> QED BY <1>4, <1>16, <4>1
    <3>2. CASE j \notin jobs
      BY <1>8, <1>10, <1>11, <1>13, <1>16, <3>2
    <3> QED BY <3>1, <3>2
  <2>3. ASSUME NEW e \in entries PROVE e.uid < next_uid'
    <3>1. e.uid \in Nat /\ e.uid < next_uid
      BY DEF AnprTypeOK, Entry, EntryInv, JobsApart
    <3> QED BY <1>4, <3>1
  <2> QED BY <1>3, <2>1, <2>2, <2>3 DEF EntryInv, JobsApart
<1>19. MarkedRight'
  <2> SUFFICES ASSUME NEW k \in TrackKey, NEW t \in tracks'[k]
               PROVE  /\ ~ t.committed => ~ HasJob(t.uid)' /\ ~ HasEntry(t.uid)'
                      /\ t.committed => HasJob(t.uid)' \/ HasEntry(t.uid)' \/ t.uid \in unrecorded'
    BY DEF MarkedRight
  <2>1. PICK a \in S[k] : a.fresh /\ t.uid = a.uid /\ t.committed = (a.committed \/ Anpr!Reached(a))
    BY <1>14
  <2>2. a.uid \in Nat
    BY <1>5
  <2>3. ASSUME ~ t.committed PROVE ~ HasJob(t.uid)' /\ ~ HasEntry(t.uid)'
    <3>1. ~ a.committed /\ ~ Anpr!Reached(a)
      BY <1>5, <2>1, <2>3
    <3>2. ~ Anpr!Owed(a)
      BY <2>1 DEF Anpr!Owed
    <3>3. ASSUME NEW j \in jobs', j.uid = a.uid PROVE FALSE
      <4>1. j \notin jobs
        BY <1>11, <3>1, <3>3 DEF HasJob
      <4>2. PICK l \in TrackKey : \E b \in S[l] : j.uid = b.uid /\ (Anpr!Reached(b) \/ Anpr!Owed(b))
        BY <1>8, <3>3, <4>1
      <4>3. a \in S[l] /\ (Anpr!Reached(a) \/ Anpr!Owed(a))
        BY <1>12, <3>3, <4>2, ZenonT(60)
      <4> QED BY <3>1, <3>2, <4>3
    <3> QED BY <1>11, <1>16, <2>1, <3>1, <3>3 DEF HasJob
  <2>4. ASSUME t.committed PROVE HasJob(t.uid)' \/ HasEntry(t.uid)' \/ t.uid \in unrecorded'
    <3>1. CASE Anpr!Reached(a)
      BY <1>9, <2>1, <3>1 DEF HasJob
    <3>2. CASE a.committed
      <4>1. PICK u \in tracks[k] : a.uid = u.uid /\ u.committed
        BY <1>5, <3>2
      <4>2. HasJob(u.uid) \/ HasEntry(u.uid) \/ u.uid \in unrecorded
        BY <4>1 DEF EntryInv, MarkedRight
      <4> QED BY <1>3, <1>15, <1>16, <2>1, <2>2, <4>1, <4>2
    <3> QED BY <2>1, <2>4, <3>1, <3>2
  <2> QED BY <2>3, <2>4
<1>20. AllRecorded'
  <2> SUFFICES ASSUME NEW u \in Nat, 1 <= u, u < next_uid' PROVE Recorded(u)'
    BY <1>4 DEF AllRecorded
  <2>1. ASSUME NEW k \in TrackKey, NEW a \in S[k], a.fresh, a.uid = u PROVE HasTrack(u)'
    <3>1. KeptOf(a) \in tracks'[k]
      BY <1>2, <2>1
    <3> QED BY <1>6, <2>1, <3>1 DEF HasTrack
  <2>2. CASE u = next_uid
    <3>1. PICK k \in TrackKey : k \in Anpr!NewKeys(reads)
      BY <1>3, <1>4, <2>2 DEF Anpr!NewKeys, Batch
    <3>2. PICK a \in S[k] : a.uid = next_uid /\ a.fresh
      BY <3>1, CountedOne DEF EntryInv, S
    <3> QED BY <2>1, <2>2, <3>2 DEF Recorded
  <2>3. CASE u # next_uid
    <3>1. Recorded(u)
      BY <1>3, <1>4, <2>3 DEF EntryInv, AllRecorded
    <3>2. CASE u \in unrecorded \/ HasJob(u) \/ HasEntry(u)
      BY <1>3, <1>15, <1>16, <3>2 DEF Recorded
    <3>3. CASE HasTrack(u)
      <4>0. PICK k \in TrackKey : \E t \in tracks[k] : t.uid = u
        BY <3>3 DEF HasTrack
      <4>1. PICK t \in tracks[k] : t.uid = u
        BY <4>0
      <4>2. PICK a \in S[k] : a.uid = u /\ a.committed = t.committed
        BY <4>1, CountedOne DEF EntryInv, S
      <4>3. CASE a.fresh
        BY <2>1, <4>2, <4>3 DEF Recorded
      <4>4. CASE ~ a.fresh /\ t.committed
        <5>1. HasJob(u) \/ HasEntry(u) \/ u \in unrecorded
          BY <4>1, <4>4 DEF EntryInv, MarkedRight
        <5> QED BY <3>2, <5>1
      <4>5. CASE ~ a.fresh /\ ~ t.committed
        <5>1. Anpr!Owed(a)
          BY <4>2, <4>5 DEF Anpr!Owed
        <5> QED BY <1>9, <4>2, <5>1 DEF Recorded, HasJob
      <4> QED BY <4>3, <4>4, <4>5
    <3> QED BY <3>1, <3>2, <3>3 DEF Recorded
  <2> QED BY <2>2, <2>3
<1> QED BY <1>17, <1>18, <1>19, <1>20 DEF EntryInv

(* A step that gives every track another of the same uid and mark. *)
LEMMA EntryInvTracks ==
  ASSUME EntryInv, UNCHANGED <<next_uid, jobs, entries, unrecorded>>,
         \A k \in TrackKey : \A t, u \in tracks'[k] : t = u,
         \A k \in TrackKey : \A t \in tracks'[k] : \E s \in tracks[k] : t.uid = s.uid /\ t.committed = s.committed,
         \A k \in TrackKey : \A s \in tracks[k] : \E t \in tracks'[k] : t.uid = s.uid
  PROVE  EntryInv'
<1>1. \A u : /\ HasJob(u)' = HasJob(u) /\ HasEntry(u)' = HasEntry(u)
             /\ HasTrack(u) => HasTrack(u)'
  BY DEF HasJob, HasEntry, HasTrack
<1>2. TracksApart'
  BY DEF EntryInv, TracksApart
<1>3. JobsApart'
  BY <1>1 DEF EntryInv, JobsApart
<1>4. MarkedRight'
  BY <1>1 DEF EntryInv, MarkedRight
<1>5. AllRecorded'
  BY <1>1 DEF EntryInv, AllRecorded, Recorded
<1> QED BY <1>2, <1>3, <1>4, <1>5 DEF EntryInv

LEMMA EntryInvVanish ==
  ASSUME AnprTypeOK, EntryInv, NEW k \in TrackKey, Anpr!Vanish(k)
  PROVE  EntryInv'
<1>1. /\ UNCHANGED <<next_uid, jobs, entries, unrecorded>>
      /\ tracks' = [tracks EXCEPT ![k] = {[t EXCEPT !.fresh = FALSE] : t \in @}]
  BY DEF Anpr!Vanish
<1> DEFINE gone(t) == [t EXCEPT !.fresh = FALSE]
<1>2. ASSUME NEW t \in Track PROVE gone(t).uid = t.uid /\ gone(t).committed = t.committed
  BY <1>2 DEF Track
<1>3. \A l \in TrackKey : tracks[l] \subseteq Track /\ tracks'[l] = IF l = k THEN {gone(t) : t \in tracks[l]} ELSE tracks[l]
  BY <1>1 DEF AnprTypeOK
<1> HIDE DEF gone
<1>4. ASSUME NEW l \in TrackKey, NEW t \in tracks'[l], NEW u \in tracks'[l] PROVE t = u
  <2>1. \A a, b \in tracks[l] : a = b
    BY DEF EntryInv, TracksApart
  <2>2. tracks'[l] = {gone(a) : a \in tracks[l]} \/ tracks'[l] = tracks[l]
    BY <1>3
  <2> QED BY <1>4, <2>1, <2>2
<1>5. ASSUME NEW l \in TrackKey, NEW t \in tracks'[l]
      PROVE  \E s \in tracks[l] : t.uid = s.uid /\ t.committed = s.committed
  <2>1. CASE l = k
    <3>1. PICK s \in tracks[l] : t = gone(s)
      BY <1>3, <1>5, <2>1
    <3> QED BY <1>2, <1>3, <3>1
  <2>2. CASE l # k
    BY <1>3, <1>5, <2>2
  <2> QED BY <2>1, <2>2
<1>6. ASSUME NEW l \in TrackKey, NEW s \in tracks[l] PROVE \E t \in tracks'[l] : t.uid = s.uid
  <2>1. CASE l = k
    <3>1. gone(s) \in tracks'[l]
      BY <1>3, <1>6, <2>1
    <3> QED BY <1>2, <1>3, <3>1
  <2>2. CASE l # k
    BY <1>3, <1>6, <2>2
  <2> QED BY <2>1, <2>2
<1> QED BY <1>1, <1>4, <1>5, <1>6, EntryInvTracks

(* A lookup moves its commit on and leaves its uid. *)
LEMMA EntryInvLookups ==
  ASSUME AnprTypeOK, EntryInv, NEW j \in jobs, Anpr!LookBlock(j) \/ Anpr!LookRegistry(j) \/ Anpr!CheckIn(j)
  PROVE  EntryInv'
<1>1. UNCHANGED <<tracks, next_uid, entries, unrecorded>>
  BY DEF Anpr!LookBlock, Anpr!LookRegistry, Anpr!CheckIn
<1>2. \E at, auth : Anpr!Move(j, at, auth)
  BY DEF Anpr!LookBlock, Anpr!BlockUnread, Anpr!LookRegistry, Anpr!CheckIn
<1>3. PICK i : jobs' = (jobs \ {j}) \cup {i} /\ i.uid = j.uid
  <2>1. PICK at, auth : Anpr!Move(j, at, auth)
    BY <1>2
  <2>2. [j EXCEPT !.at = at, !.auth = auth].uid = j.uid
    BY DEF AnprTypeOK, JobRecord
  <2> QED BY <2>1, <2>2 DEF Anpr!Move
<1>4. \A u : HasJob(u)' = HasJob(u) /\ HasEntry(u)' = HasEntry(u) /\ HasTrack(u)' = HasTrack(u)
  BY <1>1, <1>3 DEF HasJob, HasEntry, HasTrack
<1>5. JobsApart'
  BY <1>1, <1>3, <1>4 DEF EntryInv, JobsApart
<1>6. TracksApart' /\ MarkedRight' /\ AllRecorded'
  BY <1>1, <1>4 DEF EntryInv, TracksApart, MarkedRight, AllRecorded, Recorded
<1> QED BY <1>5, <1>6 DEF EntryInv

(* A commit ends in an event, or in the uid of a failed one, with the mark of that track taken off. *)
LEMMA EntryInvCommit ==
  ASSUME AnprTypeOK, EntryInv, NEW j \in jobs, Anpr!commit(j)
  PROVE  EntryInv'
<1>1. jobs' = jobs \ {j} /\ UNCHANGED next_uid /\ j \in JobRecord
  BY DEF Anpr!commit, AnprTypeOK
<1>2. ASSUME NEW u, u # j.uid PROVE HasJob(u)' = HasJob(u)
  BY <1>1, <1>2 DEF HasJob
<1>3. ~ HasJob(j.uid)' /\ ~ HasEntry(j.uid) /\ j.uid < next_uid
  BY <1>1 DEF EntryInv, JobsApart, HasJob
<1>4. CASE entries' = entries \cup {[uid |-> j.uid, plate |-> j.plate, auth |-> j.auth]} /\ UNCHANGED <<tracks, unrecorded>>
  <2> DEFINE e == [uid |-> j.uid, plate |-> j.plate, auth |-> j.auth]
  <2>1. e.uid = j.uid /\ entries' = entries \cup {e}
    BY <1>4
  <2> HIDE DEF e
  <2>2. HasEntry(j.uid)' /\ \A u : u # j.uid => HasEntry(u)' = HasEntry(u)
    BY <2>1 DEF HasEntry
  <2>3. \A u : HasTrack(u)' = HasTrack(u)
    BY <1>4 DEF HasTrack
  <2>4. JobsApart'
    <3>1. \A a, b \in entries' : a.uid = b.uid => a = b
      BY <1>3, <2>1 DEF EntryInv, JobsApart, HasEntry
    <3>2. \A h \in jobs' : ~ HasEntry(h.uid)'
      BY <1>1, <2>2 DEF EntryInv, JobsApart
    <3> QED BY <1>1, <1>3, <2>1, <3>1, <3>2 DEF EntryInv, JobsApart
  <2>5. TracksApart'
    BY <1>1, <1>4 DEF EntryInv, TracksApart
  <2>6. MarkedRight'
    <3> SUFFICES ASSUME NEW k \in TrackKey, NEW t \in tracks[k]
                 PROVE  /\ ~ t.committed => ~ HasJob(t.uid)' /\ ~ HasEntry(t.uid)'
                        /\ t.committed => HasJob(t.uid)' \/ HasEntry(t.uid)' \/ t.uid \in unrecorded'
      BY <1>4 DEF MarkedRight
    <3>1. CASE t.uid = j.uid
      <4>1. HasJob(t.uid)
        BY <3>1 DEF HasJob
      <4> QED BY <2>2, <3>1, <4>1 DEF EntryInv, MarkedRight
    <3>2. CASE t.uid # j.uid
      BY <1>2, <1>4, <2>2, <3>2 DEF EntryInv, MarkedRight
    <3> QED BY <3>1, <3>2
  <2>7. AllRecorded'
    BY <1>1, <1>2, <1>4, <2>2, <2>3 DEF EntryInv, AllRecorded, Recorded
  <2> QED BY <2>4, <2>5, <2>6, <2>7 DEF EntryInv
<1>5. CASE tracks' = Anpr!Uncommitted(j) /\ unrecorded' = unrecorded \cup {j.uid} /\ UNCHANGED entries
  <2> DEFINE off(t) == IF t.uid = j.uid THEN [t EXCEPT !.committed = FALSE] ELSE t
  <2>1. \A u : HasEntry(u)' = HasEntry(u)
    BY <1>5 DEF HasEntry
  <2>2. ASSUME NEW t \in Track
        PROVE  /\ off(t).uid = t.uid
               /\ off(t).committed = (t.committed /\ t.uid # j.uid)
    BY <2>2 DEF Track
  <2>3. ASSUME NEW k \in TrackKey
        PROVE  tracks[k] \subseteq Track /\ tracks'[k] = IF k = j.key THEN {off(t) : t \in tracks[k]} ELSE tracks[k]
    BY <1>5 DEF Anpr!Uncommitted, AnprTypeOK
  <2> HIDE DEF off
  <2>4. ASSUME NEW k \in TrackKey, NEW t \in tracks'[k]
        PROVE  \E s \in tracks[k] : /\ t.uid = s.uid /\ (s = t \/ t = off(s))
                                    /\ k = j.key => t.committed = (s.committed /\ s.uid # j.uid)
                                    /\ k # j.key => t = s
    <3>1. CASE k = j.key
      <4>0. tracks'[k] = {off(a) : a \in tracks[k]}
        BY <2>3, <3>1
      <4>1. PICK s \in tracks[k] : t = off(s)
        BY <2>4, <4>0
      <4>2. s \in Track
        BY <2>3
      <4> QED BY <2>2, <3>1, <4>1, <4>2
    <3>2. CASE k # j.key
      BY <2>3, <2>4, <3>2
    <3> QED BY <3>1, <3>2
  <2>5. ASSUME NEW k \in TrackKey, NEW t \in tracks'[k], NEW u \in tracks'[k] PROVE t = u
    <3>1. \A a, b \in tracks[k] : a = b
      BY DEF EntryInv, TracksApart
    <3>2. tracks'[k] = IF k = j.key THEN {off(a) : a \in tracks[k]} ELSE tracks[k]
      BY <2>3
    <3> QED BY <2>5, <3>1, <3>2
  <2>6. \A u : HasTrack(u) => HasTrack(u)'
    BY <2>2, <2>3, ZenonT(60) DEF HasTrack
  <2>7. TracksApart'
    BY <1>1, <2>4, <2>5 DEF EntryInv, TracksApart
  <2>8. JobsApart'
    BY <1>1, <1>5, <2>1 DEF EntryInv, JobsApart
  <2>9. MarkedRight'
    <3> SUFFICES ASSUME NEW k \in TrackKey, NEW t \in tracks'[k]
                 PROVE  /\ ~ t.committed => ~ HasJob(t.uid)' /\ ~ HasEntry(t.uid)'
                        /\ t.committed => HasJob(t.uid)' \/ HasEntry(t.uid)' \/ t.uid \in unrecorded'
      BY DEF MarkedRight
    <3>1. PICK s \in tracks[k] : /\ t.uid = s.uid
                                 /\ k = j.key => t.committed = (s.committed /\ s.uid # j.uid)
                                 /\ k # j.key => t = s
      BY <2>4
    <3>2. CASE t.uid = j.uid
      BY <1>3, <1>5, <2>1, <3>2
    <3>3. CASE t.uid # j.uid
      <4>1. t.committed = s.committed
        <5>1. s.committed \in BOOLEAN
          BY <2>3 DEF Track
        <5> QED BY <3>1, <3>3, <5>1
      <4> QED BY <1>2, <1>5, <2>1, <3>1, <3>3, <4>1 DEF EntryInv, MarkedRight
    <3> QED BY <3>2, <3>3
  <2>10. AllRecorded'
    BY <1>1, <1>2, <1>5, <2>1, <2>6 DEF EntryInv, AllRecorded, Recorded
  <2> QED BY <2>7, <2>8, <2>9, <2>10 DEF EntryInv
<1> QED BY <1>4, <1>5 DEF Anpr!commit

LEMMA EntryInvStep ==
  ASSUME AnprTypeOK, AnprTypeOK', EntryInv, Anpr!PlateStep \/ Anpr!GuardStep
  PROVE  EntryInv'
<1>1. ASSUME UNCHANGED <<tracks, next_uid, jobs, entries, unrecorded>> PROVE EntryInv'
  BY <1>1, SMTT(60) DEF EntryInv, TracksApart, JobsApart, MarkedRight, AllRecorded, Recorded, HasTrack, HasJob, HasEntry
<1>2. ASSUME NEW o \in openings, \/ Anpr!policy(o) \/ Anpr!kill_switch(o) \/ Anpr!Raise(o) \/ Anpr!Lower(o) \/ Anpr!HangUp(o)
      PROVE  UNCHANGED <<tracks, next_uid, jobs, entries, unrecorded>>
  BY <1>2 DEF Anpr!policy, Anpr!kill_switch, Anpr!Raise, Anpr!Lower, Anpr!HangUp
<1>3. ASSUME Anpr!Tighten \/ Anpr!GuardStep PROVE UNCHANGED <<tracks, next_uid, jobs, entries, unrecorded>>
  BY <1>3 DEF Anpr!Tighten, Anpr!GuardStep, Anpr!manual_open
<1>4. Batch({}) /\ \A r \in [key : TrackKey, plate : Anpr!Read, native : BOOLEAN] : Batch({r})
  BY DEF Batch
<1> QED BY <1>1, <1>2, <1>3, <1>4, EntryInvProcess, EntryInvVanish, EntryInvLookups, EntryInvCommit DEF Anpr!PlateStep

LEMMA EntryInvAlways == AppsSpec => [](AnprOn => EntryInv)
<1>1. AppsInit => (AnprOn => EntryInv)
  BY EntryInvInit DEF AppsInit, AnprOn
<1>2. ASSUME AnprOn => GateInv, (AnprOn => GateInv)', AnprOn => EntryInv, [AppsNext]_appsVars PROVE (AnprOn => EntryInv)'
  <2>1. CASE ~ AnprOn
    BY <1>2, <2>1 DEF AppsNext, appsVars, AnprOn
  <2>2. CASE AnprOn
    <3>1. AnprOn' /\ (Anpr!PlateStep \/ Anpr!GuardStep \/ UNCHANGED anprVars)
      BY <1>2, <2>2, AnprMoves
    <3>2. AnprTypeOK /\ AnprTypeOK' /\ EntryInv
      BY <1>2, <2>2, <3>1 DEF GateInv
    <3>3. ASSUME UNCHANGED anprVars PROVE EntryInv'
      BY <3>2, <3>3 DEF anprVars, EntryInv, TracksApart, JobsApart, MarkedRight, AllRecorded, Recorded, HasTrack, HasJob, HasEntry
    <3> QED BY <3>1, <3>2, <3>3, EntryInvStep
  <2> QED BY <2>1, <2>2
<1> QED BY <1>1, <1>2, GateInvAlways, PTL DEF AppsSpec

-----------------------------------------------------------------------------
(* Hikvision: what a camera recognises by itself.                          *)

CamPoll == [pc : {"idle", "ingest"}, todo : SUBSET PlateRead, newest : Nat]
CamReader == [pc : {"none", "connect", "open"}, since : Nat, seen : [Alert -> Nat]]
CamBurst == [last : Nat, logged : Nat, lost : BOOLEAN]

CamTypeOK ==
    /\ device \in [PlateRead -> Nat]
    /\ camNow \in Nat /\ camNow >= 1 /\ \A r \in PlateRead : device[r] <= camNow
    /\ cursor \in Nat
    /\ poll \in CamPoll
    /\ ingested \in [PlateRead -> {0, 1}]
    /\ reader \in CamReader
    /\ burst \in [Alert -> CamBurst]

(* The time c is none or that of a read, so that a read captured at c later is not alone there. *)
OfARead(c) == c = 0 \/ \E x \in PlateRead : device[x] = c

(* Every read up to the time c is on record, excused, or among those still to be ingested. *)
Passed(c, todo) ==
    \A r \in PlateRead :
        device[r] # 0 /\ device[r] <= c =>
            ingested[r] = 1 \/ r \in failed \cup backlog \cup todo \/ \E x \in PlateRead \ {r} : device[x] = device[r]

HasLatest == Hik!Captured = {} \/ \E x \in Hik!Captured : \A y \in Hik!Captured : device[y] <= device[x]

CursorSound ==
    /\ OfARead(cursor) /\ Passed(cursor, {}) /\ HasLatest
    /\ poll.pc = "ingest" => OfARead(poll.newest) /\ Passed(poll.newest, poll.todo)

(* The reader remembers an alert exactly as long as the device has gone on with it. *)
BurstsFollowed == \A a \in Alert : reader.seen[a] = burst[a].last

CamInv == CamTypeOK /\ CursorSound /\ BurstsFollowed /\ Hik!BurstOnce

LEMMA CamInvInit == Hik!CamInit => CamInv
<1> SUFFICES ASSUME Hik!CamInit PROVE CamInv
  OBVIOUS
<1> USE DEF Hik!CamInit
<1>1. CamTypeOK
  BY DEF CamTypeOK, CamPoll, CamReader, CamBurst, Hik!Asleep, Hik!NoReader, Hik!Quiet
<1>2. CursorSound
  BY DEF CursorSound, OfARead, Passed, HasLatest, Hik!Captured, Hik!Asleep
<1>3. BurstsFollowed /\ Hik!BurstOnce
  BY DEF BurstsFollowed, Hik!BurstOnce, Hik!NoReader, Hik!Quiet
<1> QED BY <1>1, <1>2, <1>3 DEF CamInv

(* A read captured now is not older than any other. *)
LEMMA CamInvCapture ==
  ASSUME CamInv, Hik!Capture, UNCHANGED <<camNow, reader, burst>>
  PROVE  CamInv'
<1> USE DEF CamInv
<1>1. PICK r \in PlateRead : device[r] = 0 /\ device' = [device EXCEPT ![r] = camNow]
  BY DEF Hik!Capture
<1>2. UNCHANGED <<cursor, poll, ingested, failed, backlog>>
  BY DEF Hik!Capture
<1>3. CamTypeOK'
  BY <1>1, <1>2 DEF CamTypeOK
<1>4. ASSUME NEW c \in Nat, OfARead(c) PROVE OfARead(c)'
  BY <1>1, <1>4 DEF OfARead, CamTypeOK
<1>5. ASSUME NEW c \in Nat, NEW todo, OfARead(c), Passed(c, todo) PROVE Passed(c, todo)'
  <2> SUFFICES ASSUME NEW q \in PlateRead, device'[q] # 0, device'[q] <= c
               PROVE  ingested[q] = 1 \/ q \in failed \cup backlog \cup todo \/ \E x \in PlateRead \ {q} : device'[x] = device'[q]
    BY <1>2 DEF Passed
  <2>1. CASE q = r
    <3>1. device'[q] = camNow /\ c # 0
      BY <1>1, <2>1 DEF CamTypeOK
    <3>2. PICK x \in PlateRead : device[x] = c
      BY <1>5, <3>1 DEF OfARead
    <3>3. x # r /\ c = camNow
      BY <1>1, <3>1, <3>2 DEF CamTypeOK
    <3> QED BY <1>1, <2>1, <3>1, <3>2, <3>3 DEF CamTypeOK
  <2>2. CASE q # r
    <3>1. device[q] # 0 /\ device[q] <= c /\ device'[q] = device[q]
      BY <1>1, <2>2 DEF CamTypeOK
    <3>2. ASSUME NEW x \in PlateRead \ {q}, device[x] = device[q] PROVE device'[x] = device'[q]
      BY <1>1, <3>1, <3>2 DEF CamTypeOK
    <3> QED BY <1>5, <3>1, <3>2 DEF Passed
  <2> QED BY <2>1, <2>2
<1>6. HasLatest'
  <2>1. r \in Hik!Captured' /\ \A y \in Hik!Captured' : device'[y] <= device'[r]
    BY <1>1 DEF Hik!Captured, CamTypeOK
  <2> QED BY <2>1 DEF HasLatest
<1>7. CursorSound'
  BY <1>2, <1>4, <1>5, <1>6 DEF CursorSound, CamTypeOK, CamPoll
<1> QED BY <1>3, <1>7 DEF BurstsFollowed, Hik!BurstOnce

LEMMA CamInvFetch ==
  ASSUME CamInv, Hik!Fetch, UNCHANGED <<camNow, reader, burst>>
  PROVE  CamInv'
<1> USE DEF CamInv
<1> DEFINE caught == {r \in Hik!Captured : device[r] > cursor}
           newest == Hik!Newest(caught, cursor)
<1>1. CASE UNCHANGED Hik!plateVars
  BY <1>1 DEF Hik!plateVars, CamTypeOK, CursorSound, OfARead, Passed, HasLatest, Hik!Captured, BurstsFollowed, Hik!BurstOnce
<1>2. CASE /\ poll' = [pc |-> IF caught = {} THEN "idle" ELSE "ingest", newest |-> newest,
                       todo |-> IF cursor = 0 THEN {} ELSE caught]
           /\ cursor' = cursor
           /\ backlog' = (IF cursor = 0 THEN backlog \cup caught ELSE backlog)
           /\ UNCHANGED <<device, ingested, failed>>
  <2>1. caught \subseteq PlateRead /\ caught \subseteq Hik!Captured
    BY DEF Hik!Captured
  <2>2. PICK n \in Nat : n = newest /\ OfARead(n) /\ \A r \in caught : device[r] <= n
    <3>1. CASE caught = {}
      BY <3>1 DEF Hik!Newest, CamTypeOK, CursorSound
    <3>2. CASE caught # {}
      <4>1. PICK x \in Hik!Captured : \A y \in Hik!Captured : device[y] <= device[x]
        BY <2>1, <3>2 DEF CursorSound, HasLatest
      <4>2. x \in caught
        BY <3>2, <4>1 DEF CamTypeOK, Hik!Captured
      <4>3. \E r \in caught : \A y \in caught : device[y] <= device[r]
        BY <2>1, <4>1, <4>2
      <4>4. PICK r \in caught : newest = device[r] /\ \A y \in caught : device[y] <= device[r]
        BY <3>2, <4>3 DEF Hik!Newest
      <4> QED BY <2>1, <4>4 DEF OfARead, CamTypeOK
    <3> QED BY <3>1, <3>2
  <2>3. CamTypeOK'
    BY <1>2, <2>1, <2>2 DEF CamTypeOK, CamPoll
  <2>4. Passed(cursor, {})' /\ OfARead(cursor)' /\ HasLatest'
    BY <1>2 DEF CursorSound, Passed, OfARead, HasLatest, Hik!Captured
  <2>5. OfARead(n)'
    BY <1>2, <2>2 DEF OfARead
  <2>6. (poll.pc = "ingest" => Passed(n, poll.todo))'
    <3> SUFFICES ASSUME NEW r \in PlateRead, device[r] # 0, device[r] <= n
                 PROVE  ingested'[r] = 1 \/ r \in failed' \cup backlog' \cup poll'.todo \/ \E x \in PlateRead \ {r} : device'[x] = device'[r]
      BY <1>2 DEF Passed
    <3>1. CASE r \in caught
      BY <1>2, <3>1
    <3>2. CASE r \notin caught
      <4>1. device[r] <= cursor
        BY <3>2 DEF Hik!Captured, CamTypeOK
      <4> QED BY <1>2, <4>1 DEF CursorSound, Passed
    <3> QED BY <3>1, <3>2
  <2>7. poll'.newest = n
    BY <1>2, <2>2
  <2>8. CursorSound'
    BY <1>2, <2>4, <2>5, <2>6, <2>7 DEF CursorSound
  <2> QED BY <2>3, <2>8 DEF BurstsFollowed, Hik!BurstOnce
<1> QED BY <1>1, <1>2 DEF Hik!Fetch, Hik!AtFetch

LEMMA CamInvIngest ==
  ASSUME CamInv, Hik!ingest_read \/ Hik!poll_camera \/ Hik!PlateCrash, UNCHANGED <<camNow, reader, burst>>
  PROVE  CamInv'
<1> USE DEF CamInv
<1>1. UNCHANGED <<device, backlog>> /\ HasLatest' /\ \A c : OfARead(c)' = OfARead(c)
  BY DEF Hik!ingest_read, Hik!poll_camera, Hik!PlateCrash, CursorSound, HasLatest, Hik!Captured, OfARead
<1>2. CASE Hik!ingest_read
  <2>1. PICK r \in poll.todo :
           /\ \/ ingested' = [ingested EXCEPT ![r] = IF Hik!Duplicate(r) THEN @ ELSE @ + 1] /\ UNCHANGED failed
              \/ failed' = failed \cup {r} /\ UNCHANGED ingested
           /\ poll' = [poll EXCEPT !.todo = @ \ {r}]
    BY <1>2, ZenonT(60) DEF Hik!ingest_read
  <2>2. UNCHANGED cursor /\ poll.pc = "ingest"
    BY <1>2 DEF Hik!ingest_read
  <2>3. r \in PlateRead
    BY <2>1 DEF CamTypeOK, CamPoll
  <2>4. /\ ingested' \in [PlateRead -> {0, 1}] /\ failed \subseteq failed'
        /\ \A q \in PlateRead : ingested[q] = 1 => ingested'[q] = 1
        /\ ingested'[r] = 1 \/ r \in failed'
    BY <2>1, <2>3 DEF CamTypeOK, Hik!Duplicate
  <2>5. poll' \in CamPoll /\ poll'.pc = poll.pc /\ poll'.newest = poll.newest /\ poll'.todo = poll.todo \ {r}
    BY <2>1 DEF CamTypeOK, CamPoll
  <2>6. Passed(cursor, {})'
    BY <1>1, <2>2, <2>4 DEF CursorSound, Passed
  <2>7. Passed(poll.newest, poll.todo \ {r})'
    <3> SUFFICES ASSUME NEW q \in PlateRead, device[q] # 0, device[q] <= poll.newest
                 PROVE  \/ ingested'[q] = 1 \/ q \in failed' \cup backlog' \cup (poll.todo \ {r})
                        \/ \E x \in PlateRead \ {q} : device[x] = device[q]
      BY <1>1, <2>5 DEF Passed
    <3>1. \/ ingested[q] = 1 \/ q \in failed \cup backlog \cup poll.todo
          \/ \E x \in PlateRead \ {q} : device[x] = device[q]
      BY <2>2 DEF CursorSound, Passed
    <3> QED BY <1>1, <2>4, <3>1
  <2> QED BY <1>1, <2>2, <2>4, <2>5, <2>6, <2>7 DEF CamTypeOK, CursorSound, BurstsFollowed, Hik!BurstOnce
<1>3. CASE Hik!poll_camera \/ Hik!PlateCrash
  <2>1. UNCHANGED <<ingested, failed>> /\ poll' = Hik!Asleep
    BY <1>3 DEF Hik!poll_camera, Hik!PlateCrash
  <2>2. cursor' = cursor \/ (cursor' = poll.newest /\ poll.pc = "ingest" /\ poll.todo = {})
    BY <1>3 DEF Hik!poll_camera, Hik!PlateCrash
  <2>3. cursor' \in Nat /\ poll' \in CamPoll /\ poll'.pc = "idle"
    BY <2>1, <2>2 DEF CamTypeOK, CamPoll, Hik!Asleep
  <2>4. Passed(cursor, {})' /\ OfARead(cursor)'
    BY <1>1, <2>1, <2>2 DEF CursorSound, Passed, OfARead
  <2> QED BY <1>1, <2>1, <2>3, <2>4 DEF CamTypeOK, CursorSound, BurstsFollowed, Hik!BurstOnce
<1> QED BY <1>2, <1>3

NoAlerts == [a \in Alert |-> 0]

LEMMA CamInvAlerts ==
  ASSUME CamInv, Hik!Reconcile \/ Hik!Connect \/ Hik!Drops \/ Hik!drain_blocks \/ Hik!Heartbeat \/ Hik!Opt,
         UNCHANGED <<device, cursor, poll, ingested, failed, backlog, camNow>>
  PROVE  CamInv'
<1> USE DEF CamInv
<1> SUFFICES reader' \in CamReader /\ burst' \in [Alert -> CamBurst] /\ BurstsFollowed' /\ Hik!BurstOnce'
  BY DEF CamTypeOK, CursorSound, OfARead, Passed, HasLatest, Hik!Captured
<1>1. reader \in CamReader /\ burst \in [Alert -> CamBurst] /\ camNow \in Nat /\ camNow >= 1
  BY DEF CamTypeOK
<1>2. ASSUME burst' = Hik!Quiet, reader' \in CamReader, reader'.seen = NoAlerts
      PROVE  reader' \in CamReader /\ burst' \in [Alert -> CamBurst] /\ BurstsFollowed' /\ Hik!BurstOnce'
  BY <1>2 DEF CamBurst, Hik!Quiet, BurstsFollowed, Hik!BurstOnce, NoAlerts
<1>3. ASSUME UNCHANGED burst, reader' \in CamReader, reader'.seen = reader.seen
      PROVE  reader' \in CamReader /\ burst' \in [Alert -> CamBurst] /\ BurstsFollowed' /\ Hik!BurstOnce'
  BY <1>1, <1>3 DEF BurstsFollowed, Hik!BurstOnce
<1>4. CASE Hik!Reconcile \/ Hik!Connect
  <2>1. \/ UNCHANGED <<reader, burst>>
        \/ burst' = Hik!Quiet /\ reader' \in CamReader /\ reader'.seen = NoAlerts
    <3>1. ASSUME NEW pc \in {"connect", "open"}, NEW at \in Nat
          PROVE  /\ Hik!NoReader \in CamReader /\ Hik!NoReader.seen = NoAlerts
                 /\ [Hik!NoReader EXCEPT !.pc = pc] \in CamReader /\ [Hik!NoReader EXCEPT !.pc = pc].seen = NoAlerts
                 /\ [Hik!NoReader EXCEPT !.pc = pc, !.since = at] \in CamReader
                 /\ [Hik!NoReader EXCEPT !.pc = pc, !.since = at].seen = NoAlerts
      BY DEF Hik!NoReader, CamReader, NoAlerts
    <3>2. CASE Hik!Reconcile
      BY <1>1, <3>1, <3>2 DEF Hik!Reconcile
    <3>3. CASE Hik!Connect
      BY <1>1, <3>1, <3>3 DEF Hik!Connect
    <3> QED BY <1>4, <3>2, <3>3
  <2> QED BY <1>1, <1>2, <1>3, <2>1
<1>5. CASE Hik!Drops \/ Hik!Heartbeat \/ Hik!Opt
  BY <1>1, <1>3, <1>5 DEF Hik!Drops, Hik!Heartbeat, Hik!Opt, CamReader
<1>6. CASE Hik!drain_blocks
  <2> DEFINE rising(a) == reader.seen[a] = 0 \/ camNow - reader.seen[a] >= Rearm
             new(a) == burst[a].last = 0 \/ camNow - burst[a].last >= Rearm
  <2>1. PICK a \in Alert :
           /\ reader' = [reader EXCEPT !.since = camNow, !.seen[a] = camNow]
           /\ \/ burst' = [burst EXCEPT ![a] = [last |-> camNow, lost |-> ~ new(a) /\ burst[a].lost,
                                                logged |-> (IF new(a) THEN 0 ELSE burst[a].logged) + IF rising(a) THEN 1 ELSE 0]]
              \/ rising(a) /\ burst' = [burst EXCEPT ![a] = [last |-> camNow, lost |-> TRUE,
                                                             logged |-> IF new(a) THEN 0 ELSE burst[a].logged]]
    BY <1>6 DEF Hik!drain_blocks, Hik!Remember
  <2>2. rising(a) = new(a)
    BY DEF BurstsFollowed
  <2>3. reader' \in CamReader /\ reader'.seen = [reader.seen EXCEPT ![a] = camNow]
    BY <1>1, <2>1 DEF CamReader
  <2>4. /\ burst[a].last \in Nat /\ burst[a].logged \in Nat /\ burst[a].lost \in BOOLEAN
        /\ burst[a].last # 0 => burst[a].logged = 1 \/ (burst[a].lost /\ burst[a].logged = 0)
    BY <1>1 DEF CamBurst, Hik!BurstOnce
  <2>5. ~ new(a) => burst[a].last # 0
    OBVIOUS
  <2> HIDE DEF rising, new
  <2>6. PICK b \in CamBurst : /\ burst' = [burst EXCEPT ![a] = b]
                              /\ b.last = camNow /\ (b.logged = 1 \/ (b.lost /\ b.logged = 0))
    <3>1. CASE burst' = [burst EXCEPT ![a] = [last |-> camNow, lost |-> ~ new(a) /\ burst[a].lost,
                                              logged |-> (IF new(a) THEN 0 ELSE burst[a].logged) + IF rising(a) THEN 1 ELSE 0]]
      <4> DEFINE b == [last |-> camNow, lost |-> ~ new(a) /\ burst[a].lost,
                       logged |-> (IF new(a) THEN 0 ELSE burst[a].logged) + IF rising(a) THEN 1 ELSE 0]
      <4>1. b \in CamBurst /\ (b.logged = 1 \/ (b.lost /\ b.logged = 0))
        <5>1. CASE new(a)
          BY <1>1, <2>2, <5>1 DEF CamBurst
        <5>2. CASE ~ new(a)
          BY <1>1, <2>2, <2>4, <2>5, <5>2 DEF CamBurst
        <5> QED BY <5>1, <5>2
      <4> QED BY <3>1, <4>1
    <3>2. CASE rising(a) /\ burst' = [burst EXCEPT ![a] = [last |-> camNow, lost |-> TRUE,
                                                           logged |-> IF new(a) THEN 0 ELSE burst[a].logged]]
      <4> DEFINE b == [last |-> camNow, lost |-> TRUE, logged |-> IF new(a) THEN 0 ELSE burst[a].logged]
      <4>1. b \in CamBurst /\ b.lost /\ b.logged = 0
        BY <1>1, <2>2, <3>2 DEF CamBurst
      <4> QED BY <3>2, <4>1, ZenonT(60)
    <3> QED BY <2>1, <3>1, <3>2
  <2>7. burst' \in [Alert -> CamBurst] /\ Hik!BurstOnce'
    BY <1>1, <2>6 DEF Hik!BurstOnce
  <2>8. BurstsFollowed'
    BY <1>1, <2>3, <2>6 DEF BurstsFollowed, CamReader
  <2> QED BY <2>3, <2>7, <2>8
<1> QED BY <1>4, <1>5, <1>6

LEMMA CamInvStep ==
  ASSUME CamInv, Hik!CamNext
  PROVE  CamInv'
<1>1. CASE Hik!CamTick
  BY <1>1 DEF Hik!CamTick, Hik!plateVars, Hik!alertVars, CamInv, CamTypeOK, CursorSound, OfARead, Passed, HasLatest,
              Hik!Captured, BurstsFollowed, Hik!BurstOnce
<1>2. CASE /\ Hik!Capture \/ Hik!Fetch \/ Hik!ingest_read \/ Hik!poll_camera \/ Hik!PlateCrash
           /\ UNCHANGED <<camPart, Hik!alertVars, camNow>>
  BY <1>2, CamInvCapture, CamInvFetch, CamInvIngest DEF Hik!alertVars
<1>3. CASE /\ Hik!Reconcile \/ Hik!Connect \/ Hik!Drops \/ Hik!drain_blocks \/ Hik!Heartbeat \/ Hik!Opt
           /\ UNCHANGED <<camPart, Hik!plateVars, camNow>>
  BY <1>3, CamInvAlerts DEF Hik!plateVars
<1> QED BY <1>1, <1>2, <1>3 DEF Hik!CamNext

LEMMA CamInvAlways == AppsSpec => [](part = "camera" => CamInv)
<1>1. AppsInit => (part = "camera" => CamInv)
  BY CamInvInit DEF AppsInit
<1>2. ASSUME part = "camera" => CamInv, [AppsNext]_appsVars PROVE (part = "camera" => CamInv)'
  <2>1. ASSUME UNCHANGED camVars PROVE CamInv' = CamInv
    BY <2>1 DEF camVars, CamInv, CamTypeOK, CursorSound, OfARead, Passed, HasLatest, Hik!Captured, BurstsFollowed, Hik!BurstOnce
  <2>2. UNCHANGED part /\ (part = "camera" => Hik!CamNext \/ UNCHANGED camVars)
    BY <1>2 DEF AppsNext, appsVars
  <2> QED BY <1>2, <2>1, <2>2, CamInvStep
<1> QED BY <1>1, <1>2, PTL DEF AppsSpec

-----------------------------------------------------------------------------
(* Movement: what operators decided, and what crossed the red zone.        *)

(* Whatever is configured, nothing is pruned while a sweep still reads it. *)
LEMMA WindowInRetention ==
  /\ Mov!scan_window_s \in Int /\ Mov!Retention \in Int
  /\ Mov!scan_window_s <= Mov!Retention
<1>1. Mov!scan_window_s \in Int /\ Mov!scan_window_s <= Day
  <2>1. PICK m \in Int : m = Mov!Max({WantedWindow, 2})
    BY MovementAssumption DEF Mov!Max
  <2>2. Mov!scan_window_s = Mov!Min({m, Day})
    BY <2>1 DEF Mov!scan_window_s
  <2>3. Mov!Min({m, Day}) \in Int /\ Mov!Min({m, Day}) <= Day
    BY MovementAssumption DEF Mov!Min
  <2> QED BY <2>2, <2>3
<1>2. PICK d \in Int : d >= 1 /\ Mov!Retention = d * Day
  <2>1. PICK d \in Int : d = Mov!Max({retention_days, 1}) /\ d >= 1
    BY MovementAssumption DEF Mov!Max
  <2> QED BY <2>1 DEF Mov!Retention
<1>3. (d - 1) * Day >= 0
  BY <1>2, MovementAssumption
<1>4. d * Day = (d - 1) * Day + Day
  BY <1>2, MovementAssumption
<1> QED BY <1>1, <1>2, <1>3, <1>4, MovementAssumption

Sighting == [cam : {1, 2}, at : Nat]
Pair == Sighting \X Sighting
Crossing == [at : Nat]
Candidate == [pair : Pair, status : {"pending", "confirmed", "rejected"}, born : Nat]
Breach == [entry : Crossing, status : {"open", "acknowledged", "resolved"}, named : BOOLEAN, born : Nat]
SweepRead == [entries : SUBSET Crossing, named : BOOLEAN]

MovTypeOK ==
    /\ mnow \in Nat
    /\ seen \subseteq Sighting /\ \A s \in seen : s.at <= mnow
    /\ crossed \subseteq Crossing /\ \A z \in crossed : z.at <= mnow
    /\ candidates \subseteq Candidate /\ judged \subseteq Pair
    /\ alerts \subseteq Breach
    /\ mread = [e \in Mov!Engine |-> mread[e]]
    /\ mread["reid"] \subseteq SUBSET Pair /\ mread["breach"] \subseteq SweepRead
    /\ ran \subseteq Mov!Engine
    /\ sweepErrors \in Nat

(* A pair is proposed once while it is on record, no earlier than it was seen, and what an operator
   has judged is on record still, or out of the window for good. *)
JudgedOnce ==
    /\ \A c, d \in candidates : c.pair = d.pair => c = d
    /\ \A c \in candidates : c.pair[2].at <= c.born
    /\ \A pairs \in mread["reid"] : \A p \in pairs : p[2].at + Mov!scan_window_s >= mnow /\ p[2].at <= mnow
    /\ \A p \in judged : (\E c \in candidates : c.pair = p) \/ p[2].at + Mov!scan_window_s < mnow

(* What a sweep under way has read includes all there was before this interval. *)
ReadsWhole ==
    \A r \in mread["breach"] :
        /\ r.entries \subseteq crossed
        /\ \A z \in crossed : z.at < mnow /\ z.at + Mov!scan_window_s >= mnow => z \in r.entries
        /\ \A s \in seen : s.cam = 2 /\ s.at < mnow => r.named

HasAlert(z) == \E a \in alerts : a.entry = z /\ a.named

(* As long as an entry has no alert with its subject, every sweep since both were there has failed. *)
SweepsOwed ==
    \A z \in crossed, s \in seen :
        s.cam = 2 /\ mnow <= z.at + Mov!Retention /\ ~ HasAlert(z) =>
            \A m \in {z.at, s.at} : m >= z.at /\ m >= s.at =>
                /\ \A n \in Nat : n < mnow /\ n <= z.at + Mov!scan_window_s => n - m <= sweepErrors
                /\ "breach" \in ran /\ mread["breach"] = {} /\ m < mnow /\ mnow <= z.at + Mov!scan_window_s =>
                      mnow - m <= sweepErrors

AlertsLate == \A a \in alerts : a.entry.at <= a.born

MovInv == MovTypeOK /\ JudgedOnce /\ Mov!ReviewFinal /\ ReadsWhole /\ SweepsOwed /\ AlertsLate

LEMMA MovInvInit == Mov!MovInit => MovInv
  BY DEF Mov!MovInit, MovInv, MovTypeOK, JudgedOnce, Mov!ReviewFinal, ReadsWhole, SweepsOwed, AlertsLate, Mov!Engine

(* An entry event is of now, and so not one a sweep under way ought to have read. *)
LEMMA MovInvSeen ==
  ASSUME MovInv, Mov!Sight \/ Mov!Cross
  PROVE  MovInv'
<1> USE DEF MovInv
<1>1. UNCHANGED <<mnow, candidates, alerts, judged, mread, ran, sweepErrors>>
  BY DEF Mov!Sight, Mov!Cross
<1>2. CASE Mov!Sight
  <2>1. PICK t \in Sighting : seen' = seen \cup {t} /\ t.at = mnow /\ UNCHANGED crossed
    <3>1. PICK cam \in {1, 2} : seen' = seen \cup {[cam |-> cam, at |-> mnow]} /\ UNCHANGED crossed
      BY <1>2 DEF Mov!Sight
    <3>2. [cam |-> cam, at |-> mnow] \in Sighting /\ [cam |-> cam, at |-> mnow].at = mnow
      BY DEF MovTypeOK, Sighting
    <3> QED BY <3>1, <3>2
  <2>2. MovTypeOK' /\ JudgedOnce' /\ Mov!ReviewFinal' /\ AlertsLate' /\ ReadsWhole'
    <3>1. MovTypeOK'
      BY <1>1, <2>1 DEF MovTypeOK
    <3>2. JudgedOnce' /\ Mov!ReviewFinal' /\ AlertsLate'
      BY <1>1, <2>1 DEF JudgedOnce, Mov!ReviewFinal, AlertsLate
    <3>3. ReadsWhole'
      BY <1>1, <2>1 DEF ReadsWhole, MovTypeOK
    <3> QED BY <3>1, <3>2, <3>3
  <2>3. SweepsOwed'
    <3> SUFFICES ASSUME NEW z \in crossed, NEW s \in seen', s.cam = 2, mnow <= z.at + Mov!Retention, ~ HasAlert(z),
                        NEW m \in {z.at, s.at}, m >= z.at, m >= s.at
                 PROVE  /\ \A n \in Nat : n < mnow /\ n <= z.at + Mov!scan_window_s => n - m <= sweepErrors
                        /\ "breach" \in ran /\ mread["breach"] = {} /\ m < mnow /\ mnow <= z.at + Mov!scan_window_s =>
                              mnow - m <= sweepErrors
      BY <1>1, <2>1 DEF SweepsOwed, HasAlert
    <3>1. CASE s \in seen
      BY <3>1 DEF SweepsOwed
    <3>2. CASE s = t
      BY <2>1, <3>2 DEF MovTypeOK, Crossing
    <3> QED BY <2>1, <3>1, <3>2
  <2> QED BY <2>2, <2>3
<1>3. CASE Mov!Cross
  <2>1. PICK y \in Crossing : crossed' = crossed \cup {y} /\ y.at = mnow /\ UNCHANGED seen
    <3>1. [at |-> mnow] \in Crossing /\ [at |-> mnow].at = mnow /\ crossed' = crossed \cup {[at |-> mnow]} /\ UNCHANGED seen
      BY <1>3 DEF MovTypeOK, Crossing, Mov!Cross
    <3> QED BY <3>1
  <2>2. MovTypeOK' /\ JudgedOnce' /\ Mov!ReviewFinal' /\ AlertsLate' /\ ReadsWhole'
    BY <1>1, <2>1, SMTT(60) DEF MovTypeOK, JudgedOnce, Mov!ReviewFinal, AlertsLate, ReadsWhole
  <2>3. SweepsOwed'
    <3> SUFFICES ASSUME NEW z \in crossed', NEW s \in seen, s.cam = 2, mnow <= z.at + Mov!Retention, ~ HasAlert(z),
                        NEW m \in {z.at, s.at}, m >= z.at, m >= s.at
                 PROVE  /\ \A n \in Nat : n < mnow /\ n <= z.at + Mov!scan_window_s => n - m <= sweepErrors
                        /\ "breach" \in ran /\ mread["breach"] = {} /\ m < mnow /\ mnow <= z.at + Mov!scan_window_s =>
                              mnow - m <= sweepErrors
      BY <1>1, <2>1 DEF SweepsOwed, HasAlert
    <3>1. CASE z \in crossed
      BY <3>1 DEF SweepsOwed
    <3>2. CASE z = y
      BY <2>1, <3>2 DEF MovTypeOK, Sighting
    <3> QED BY <2>1, <3>1, <3>2
  <2> QED BY <2>2, <2>3
<1> QED BY <1>2, <1>3

LEMMA MovInvRead ==
  ASSUME MovInv, Mov!propose_vehicle_candidates \/ Mov!sweep
  PROVE  MovInv'
<1> USE DEF MovInv
<1>1. UNCHANGED <<mnow, seen, crossed, candidates, alerts, judged, sweepErrors>>
  BY DEF Mov!propose_vehicle_candidates, Mov!sweep
<1>2. CASE Mov!propose_vehicle_candidates
  <2>1. mread' = [mread EXCEPT !["reid"] = {Mov!Pairs}] /\ ran' = ran \cup {"reid"}
    BY <1>2 DEF Mov!propose_vehicle_candidates, Mov!Reading
  <2>2. Mov!Pairs \subseteq Pair /\ \A p \in Mov!Pairs : p[2].at + Mov!scan_window_s >= mnow /\ p[2].at <= mnow
    BY DEF Mov!Pairs, MovTypeOK, Pair
  <2>3. mread'["breach"] = mread["breach"] /\ mread'["reid"] = {Mov!Pairs}
    BY <2>1 DEF MovTypeOK, Mov!Engine
  <2>4. MovTypeOK'
    BY <1>1, <2>1, <2>2, <2>3, ZenonT(60) DEF MovTypeOK, Mov!Engine
  <2>5. JudgedOnce'
    BY <1>1, <2>2, <2>3 DEF JudgedOnce
  <2> QED BY <1>1, <2>1, <2>3, <2>4, <2>5 DEF Mov!ReviewFinal, AlertsLate, ReadsWhole, SweepsOwed, HasAlert
<1>3. CASE Mov!sweep
  <2> DEFINE r == [entries |-> {z \in crossed : z.at + Mov!scan_window_s >= mnow}, named |-> Mov!correlate]
  <2>1. mread' = [mread EXCEPT !["breach"] = {r}] /\ ran' = ran \cup {"breach"}
    BY <1>3 DEF Mov!sweep, Mov!Reading
  <2>2. /\ r \in SweepRead /\ r.entries \subseteq crossed
        /\ \A z \in crossed : z.at + Mov!scan_window_s >= mnow => z \in r.entries
        /\ \A s \in seen : s.cam = 2 => r.named
    BY DEF SweepRead, MovTypeOK, Mov!correlate
  <2> HIDE DEF r
  <2>3. mread'["breach"] = {r} /\ mread'["reid"] = mread["reid"]
    BY <2>1 DEF MovTypeOK, Mov!Engine
  <2>4. MovTypeOK'
    BY <1>1, <2>1, <2>2, <2>3 DEF MovTypeOK, Mov!Engine
  <2>5. JudgedOnce'
    BY <1>1, <2>3 DEF JudgedOnce
  <2>6. ReadsWhole'
    BY <1>1, <2>2, <2>3 DEF ReadsWhole
  <2>7. SweepsOwed'
    BY <1>1, <2>3 DEF SweepsOwed, HasAlert
  <2> QED BY <1>1, <2>4, <2>5, <2>6, <2>7 DEF Mov!ReviewFinal, AlertsLate
<1> QED BY <1>2, <1>3

(* What is pruned is older than any window reaches. *)
LEMMA MovInvPropose ==
  ASSUME MovInv, Mov!Propose
  PROVE  MovInv'
<1> USE DEF MovInv
<1>1. PICK pairs \in mread["reid"] :
         /\ candidates' = {c \in candidates \cup Mov!Proposed(pairs) : ~ Mov!Aged(c)}
         /\ alerts' = {a \in alerts : ~ Mov!Aged(a)}
  BY DEF Mov!Propose
<1>2. mread' = [mread EXCEPT !["reid"] = {}] /\ UNCHANGED <<mnow, seen, crossed, judged, ran, sweepErrors>>
  BY DEF Mov!Propose, Mov!Done
<1>3. mread'["breach"] = mread["breach"] /\ mread'["reid"] = {}
  BY <1>2 DEF MovTypeOK, Mov!Engine
<1>4. pairs \subseteq Pair /\ \A p \in pairs : p[2].at + Mov!scan_window_s >= mnow /\ p[2].at <= mnow
  BY DEF MovTypeOK, JudgedOnce
<1>5. ASSUME NEW c \in Mov!Proposed(pairs)
      PROVE  /\ c \in Candidate /\ c.pair \in pairs /\ c.born = mnow /\ \A d \in candidates : d.pair # c.pair
             /\ c = [pair |-> c.pair, status |-> "pending", born |-> mnow]
  BY <1>4 DEF Mov!Proposed, Candidate, MovTypeOK
<1>6. MovTypeOK'
  BY <1>1, <1>2, <1>3, <1>5 DEF MovTypeOK, Mov!Engine
<1>7. ASSUME NEW c \in candidates', c \notin candidates PROVE c \in Mov!Proposed(pairs)
  BY <1>1, <1>7
<1>8. candidates' \subseteq candidates \cup Mov!Proposed(pairs)
  BY <1>1
<1>9. JudgedOnce'
  <2>1. ASSUME NEW c \in candidates', NEW d \in candidates', c.pair = d.pair PROVE c = d
    <3>1. CASE c \in candidates /\ d \in candidates
      BY <2>1, <3>1 DEF JudgedOnce
    <3>2. CASE c \notin candidates /\ d \notin candidates
      BY <1>5, <1>7, <2>1, <3>2
    <3> QED BY <1>5, <1>7, <2>1, <3>1, <3>2
  <2>2. ASSUME NEW c \in candidates' PROVE c.pair[2].at <= c.born
    <3>1. CASE c \in candidates
      BY <3>1 DEF JudgedOnce
    <3>2. CASE c \notin candidates
      BY <1>4, <1>5, <1>7, <3>2
    <3> QED BY <3>1, <3>2
  <2>3. ASSUME NEW p \in judged PROVE (\E c \in candidates' : c.pair = p) \/ p[2].at + Mov!scan_window_s < mnow
    <3> SUFFICES ASSUME NEW c \in candidates, c.pair = p, c \notin candidates' PROVE p[2].at + Mov!scan_window_s < mnow
      BY DEF JudgedOnce
    <3>1. c.born + Mov!Retention < mnow /\ p[2].at <= c.born /\ c.born \in Nat /\ p[2].at \in Nat /\ mnow \in Nat
      BY <1>1 DEF Mov!Aged, JudgedOnce, MovTypeOK, Candidate, Pair, Sighting
    <3> QED BY <3>1, WindowInRetention
  <2> QED BY <1>2, <1>3, <2>1, <2>2, <2>3 DEF JudgedOnce
<1>10. Mov!ReviewFinal'
  <2> SUFFICES ASSUME NEW c \in candidates', c.pair \in judged PROVE c.status # "pending"
    BY <1>2 DEF Mov!ReviewFinal
  <2>1. CASE c \in candidates
    BY <2>1 DEF Mov!ReviewFinal
  <2>2. CASE c \notin candidates
    <3>1. c.pair \in pairs /\ \A d \in candidates : d.pair # c.pair
      BY <1>5, <1>7, <2>2
    <3>2. c.pair[2].at + Mov!scan_window_s < mnow /\ c.pair[2].at + Mov!scan_window_s >= mnow
      BY <1>4, <3>1 DEF JudgedOnce
    <3>3. c.pair[2].at \in Nat /\ mnow \in Nat
      BY <1>4, <3>1 DEF Pair, Sighting, MovTypeOK
    <3> QED BY <3>2, <3>3, WindowInRetention
  <2> QED BY <2>1, <2>2
<1>11. ReadsWhole'
  BY <1>2, <1>3 DEF ReadsWhole
<1>12. AlertsLate'
  BY <1>1 DEF AlertsLate
<1>13. ASSUME NEW z \in crossed, HasAlert(z), mnow <= z.at + Mov!Retention PROVE HasAlert(z)'
  <2>1. PICK a \in alerts : a.entry = z /\ a.named
    BY <1>13 DEF HasAlert
  <2>2. z.at <= a.born /\ a.born \in Nat /\ z.at \in Nat /\ mnow \in Nat
    BY <2>1 DEF AlertsLate, MovTypeOK, Breach, Crossing
  <2>3. ~ Mov!Aged(a)
    BY <1>13, <2>2, WindowInRetention DEF Mov!Aged
  <2> QED BY <1>1, <2>1, <2>3 DEF HasAlert
<1>14. SweepsOwed'
  BY <1>2, <1>3, <1>13 DEF SweepsOwed
<1> QED BY <1>6, <1>9, <1>10, <1>11, <1>12, <1>14


LEMMA MovInvRaise ==
  ASSUME MovInv, Mov!RaiseBreaches
  PROVE  MovInv'
<1> USE DEF MovInv
<1>1. PICK r \in mread["breach"] :
         \/ alerts' = Mov!Raised(r) /\ UNCHANGED sweepErrors
         \/ sweepErrors' = sweepErrors + 1 /\ UNCHANGED alerts
  BY DEF Mov!RaiseBreaches
<1>2. mread' = [mread EXCEPT !["breach"] = {}] /\ UNCHANGED <<mnow, seen, crossed, candidates, judged, ran>>
  BY DEF Mov!RaiseBreaches, Mov!Done
<1>3. mread'["reid"] = mread["reid"] /\ mread'["breach"] = {}
  BY <1>2 DEF MovTypeOK, Mov!Engine
<1>4. r \in SweepRead /\ r.entries \subseteq crossed
  BY DEF MovTypeOK, ReadsWhole
<1>5. ASSUME NEW a \in alerts
      PROVE  /\ Mov!Backfilled(a, r.named) \in Breach
             /\ Mov!Backfilled(a, r.named).entry = a.entry /\ Mov!Backfilled(a, r.named).born = a.born
             /\ a.named \/ r.named => Mov!Backfilled(a, r.named).named
  BY <1>4 DEF Mov!Backfilled, Breach, SweepRead, MovTypeOK
<1> DEFINE raised(z) == [entry |-> z, status |-> "open", named |-> r.named, born |-> mnow]
<1>6. ASSUME NEW z \in r.entries
      PROVE  /\ raised(z) \in Breach /\ raised(z).entry = z /\ raised(z).born = mnow /\ raised(z).named = r.named
  BY <1>4, <1>6 DEF Breach, SweepRead, MovTypeOK
<1>7. Mov!Raised(r) = {IF a.entry \in r.entries THEN Mov!Backfilled(a, r.named) ELSE a : a \in alerts}
                        \cup {raised(z) : z \in {z \in r.entries : \A a \in alerts : a.entry # z}}
  BY DEF Mov!Raised
<1> HIDE DEF raised
<1>8. ASSUME NEW b \in alerts' PROVE b \in Breach /\ b.entry.at <= b.born
  <2>1. CASE UNCHANGED alerts
    BY <2>1 DEF MovTypeOK, AlertsLate
  <2>2. CASE alerts' = Mov!Raised(r)
    <3>1. CASE \E a \in alerts : b = IF a.entry \in r.entries THEN Mov!Backfilled(a, r.named) ELSE a
      BY <1>5, <3>1 DEF MovTypeOK, AlertsLate
    <3>2. CASE \E z \in r.entries : b = raised(z)
      BY <1>4, <1>6, <3>2 DEF MovTypeOK
    <3> QED BY <1>7, <2>2, <3>1, <3>2
  <2> QED BY <1>1, <2>1, <2>2
<1>9. MovTypeOK'
  <2>1. sweepErrors' \in Nat
    BY <1>1 DEF MovTypeOK
  <2>2. mread' = [e \in Mov!Engine |-> mread'[e]]
    BY <1>2 DEF MovTypeOK
  <2> QED BY <1>2, <1>3, <1>8, <2>1, <2>2 DEF MovTypeOK
<1>10. JudgedOnce' /\ Mov!ReviewFinal'
  BY <1>2, <1>3 DEF JudgedOnce, Mov!ReviewFinal
<1>11. ReadsWhole'
  BY <1>3 DEF ReadsWhole
<1>12. ASSUME NEW z, HasAlert(z) PROVE HasAlert(z)'
  <2>1. PICK a \in alerts : a.entry = z /\ a.named
    BY <1>12 DEF HasAlert
  <2>2. CASE UNCHANGED alerts
    BY <1>12, <2>2 DEF HasAlert
  <2>3. CASE alerts' = Mov!Raised(r)
    <3>1. CASE z \in r.entries
      <4>1. Mov!Backfilled(a, r.named) \in alerts'
        BY <1>7, <2>1, <2>3, <3>1
      <4> QED BY <1>5, <2>1, <4>1 DEF HasAlert
    <3>2. CASE z \notin r.entries
      <4>1. a \in alerts'
        BY <1>7, <2>1, <2>3, <3>2
      <4> QED BY <2>1, <4>1 DEF HasAlert
    <3> QED BY <3>1, <3>2
  <2> QED BY <1>1, <2>2, <2>3
(* The statement that worked gave every entry read its alert, with the subject if there is one. *)
<1>13. ASSUME NEW z \in r.entries, r.named, alerts' = Mov!Raised(r) PROVE HasAlert(z)'
  <2>1. CASE \E a \in alerts : a.entry = z
    <3>1. PICK a \in alerts : a.entry = z
      BY <2>1
    <3>2. Mov!Backfilled(a, r.named) \in alerts'
      BY <1>7, <1>13, <3>1
    <3> QED BY <1>5, <1>13, <3>1, <3>2 DEF HasAlert
  <2>2. CASE \A a \in alerts : a.entry # z
    <3>1. raised(z) \in alerts'
      BY <1>7, <1>13, <2>2
    <3> QED BY <1>6, <1>13, <3>1 DEF HasAlert
  <2> QED BY <2>1, <2>2
<1>14. SweepsOwed'
  <2> SUFFICES ASSUME NEW z \in crossed, NEW s \in seen, s.cam = 2, mnow <= z.at + Mov!Retention, ~ HasAlert(z)',
                      NEW m \in {z.at, s.at}, m >= z.at, m >= s.at
               PROVE  /\ \A n \in Nat : n < mnow /\ n <= z.at + Mov!scan_window_s => n - m <= sweepErrors'
                      /\ m < mnow /\ mnow <= z.at + Mov!scan_window_s => mnow - m <= sweepErrors'
    BY <1>2 DEF SweepsOwed
  <2>1. m \in Nat /\ mnow \in Nat /\ z.at \in Nat /\ s.at \in Nat /\ sweepErrors \in Nat /\ sweepErrors <= sweepErrors'
        /\ sweepErrors' \in Nat
    BY <1>1 DEF MovTypeOK, Sighting, Crossing
  <2>2. \A n \in Nat : n < mnow /\ n <= z.at + Mov!scan_window_s => n - m <= sweepErrors
    BY <1>12 DEF SweepsOwed
  <2>3. ASSUME m < mnow, mnow <= z.at + Mov!scan_window_s PROVE mnow - m <= sweepErrors'
    <3>1. z \in r.entries /\ r.named
      <4>1. z.at < mnow /\ s.at < mnow
        BY <2>1, <2>3
      <4> QED BY <2>1, <2>3, <4>1, WindowInRetention DEF ReadsWhole
    <3>2. sweepErrors' = sweepErrors + 1
      BY <1>1, <1>13, <3>1
    <3>3. mnow - 1 \in Nat /\ mnow - 1 < mnow /\ mnow - 1 <= z.at + Mov!scan_window_s
      BY <2>1, <2>3, WindowInRetention
    <3>4. (mnow - 1) - m <= sweepErrors
      BY <2>2, <3>3
    <3> QED BY <2>1, <3>2, <3>4
  <2> QED BY <2>1, <2>2, <2>3
<1> QED BY <1>8, <1>9, <1>10, <1>11, <1>14 DEF AlertsLate

LEMMA MovInvOperators ==
  ASSUME MovInv,
         \/ \E status \in {"confirmed", "rejected"} : Mov!resolve_candidate(status)
         \/ \E status \in {"acknowledged", "resolved"} : Mov!set_breach_status(status)
  PROVE  MovInv'
<1> USE DEF MovInv
<1>1. UNCHANGED <<mnow, seen, crossed, mread, ran, sweepErrors>>
  BY DEF Mov!resolve_candidate, Mov!set_breach_status
<1>2. ASSUME NEW status \in {"confirmed", "rejected"}, Mov!resolve_candidate(status) PROVE MovInv'
  <2>1. PICK c \in candidates :
           /\ candidates' = (candidates \ {c}) \cup {[c EXCEPT !.status = status]}
           /\ judged' = judged \cup {c.pair} /\ UNCHANGED alerts
    BY <1>2 DEF Mov!resolve_candidate
  <2> DEFINE d == [c EXCEPT !.status = status]
  <2>2. d \in Candidate /\ d.pair = c.pair /\ d.born = c.born /\ d.status = status
    BY DEF MovTypeOK, Candidate
  <2>3. candidates' = (candidates \ {c}) \cup {d}
    BY <2>1
  <2> HIDE DEF d
  <2>4. MovTypeOK'
    BY <1>1, <2>1, <2>2, <2>3 DEF MovTypeOK, Candidate
  <2>5. JudgedOnce'
    <3>1. \A a, b \in candidates' : a.pair = b.pair => a = b
      BY <2>2, <2>3 DEF JudgedOnce
    <3>2. \A a \in candidates' : a.pair[2].at <= a.born
      BY <2>2, <2>3 DEF JudgedOnce
    <3>3. ASSUME NEW p \in judged' PROVE (\E a \in candidates' : a.pair = p) \/ p[2].at + Mov!scan_window_s < mnow
      BY <2>1, <2>2, <2>3 DEF JudgedOnce
    <3> QED BY <1>1, <3>1, <3>2, <3>3 DEF JudgedOnce
  <2>6. Mov!ReviewFinal'
    <3> SUFFICES ASSUME NEW a \in candidates', a.pair \in judged' PROVE a.status # "pending"
      BY DEF Mov!ReviewFinal
    <3>1. CASE a = d
      BY <2>2, <3>1, <1>2
    <3>2. CASE a # d
      <4>1. a \in candidates /\ a # c
        BY <2>3, <3>2
      <4>2. a.pair # c.pair
        BY <4>1 DEF JudgedOnce
      <4> QED BY <2>1, <4>1, <4>2 DEF Mov!ReviewFinal
    <3> QED BY <3>1, <3>2
  <2> QED BY <1>1, <2>1, <2>4, <2>5, <2>6 DEF ReadsWhole, SweepsOwed, HasAlert, AlertsLate
<1>3. ASSUME NEW status \in {"acknowledged", "resolved"}, Mov!set_breach_status(status) PROVE MovInv'
  <2>1. PICK a \in alerts : alerts' = (alerts \ {a}) \cup {[a EXCEPT !.status = status]} /\ UNCHANGED <<candidates, judged>>
    BY <1>3 DEF Mov!set_breach_status
  <2> DEFINE b == [a EXCEPT !.status = status]
  <2>2. b \in Breach /\ b.entry = a.entry /\ b.named = a.named /\ b.born = a.born
    BY DEF MovTypeOK, Breach
  <2>3. alerts' = (alerts \ {a}) \cup {b}
    BY <2>1
  <2> HIDE DEF b
  <2>4. MovTypeOK' /\ AlertsLate'
    BY <1>1, <2>1, <2>2, <2>3 DEF MovTypeOK, AlertsLate
  <2>5. \A z : HasAlert(z) => HasAlert(z)'
    BY <2>2, <2>3 DEF HasAlert
  <2>6. SweepsOwed'
    BY <1>1, <2>5 DEF SweepsOwed
  <2> QED BY <1>1, <2>1, <2>4, <2>6 DEF JudgedOnce, Mov!ReviewFinal, ReadsWhole
<1> QED BY <1>2, <1>3

(* An interval ends with both engines done: the sweep of it has succeeded, or failed. *)
LEMMA MovInvTime ==
  ASSUME MovInv, Mov!trigger_run \/ Mov!NextInterval
  PROVE  MovInv'
<1> USE DEF MovInv
<1>1. /\ UNCHANGED <<seen, crossed, candidates, alerts, judged, mread, sweepErrors>>
      /\ ran = Mov!Engine /\ mread["reid"] = {} /\ mread["breach"] = {} /\ ran' = {}
      /\ mnow' \in {mnow, mnow + 1}
  BY DEF Mov!trigger_run, Mov!NextInterval, Mov!Engine
<1>2. mnow \in Nat /\ mnow' \in Nat /\ mnow <= mnow'
  BY <1>1 DEF MovTypeOK
<1>3. MovTypeOK'
  <2>1. \A s \in seen : s.at \in Nat /\ s.at <= mnow'
    BY <1>2 DEF MovTypeOK, Sighting
  <2>2. \A z \in crossed : z.at \in Nat /\ z.at <= mnow'
    BY <1>2 DEF MovTypeOK, Crossing
  <2> QED BY <1>1, <1>2, <2>1, <2>2 DEF MovTypeOK
<1>4. JudgedOnce'
  <2>1. ASSUME NEW p \in judged PROVE (\E c \in candidates : c.pair = p) \/ p[2].at + Mov!scan_window_s < mnow'
    <3>1. CASE p[2].at + Mov!scan_window_s < mnow
      <4>1. p[2].at \in Nat
        BY DEF MovTypeOK, Pair, Sighting
      <4> QED BY <1>2, <3>1, <4>1, WindowInRetention
    <3> QED BY <3>1 DEF JudgedOnce
  <2> QED BY <1>1, <2>1 DEF JudgedOnce
<1>5. SweepsOwed'
  <2> SUFFICES ASSUME NEW z \in crossed, NEW s \in seen, s.cam = 2, mnow' <= z.at + Mov!Retention, ~ HasAlert(z),
                      NEW m \in {z.at, s.at}, m >= z.at, m >= s.at,
                      NEW n \in Nat, n < mnow', n <= z.at + Mov!scan_window_s
               PROVE  n - m <= sweepErrors
    BY <1>1 DEF SweepsOwed, HasAlert
  <2>1. m \in Nat /\ z.at \in Nat /\ s.at \in Nat /\ sweepErrors \in Nat
    BY DEF MovTypeOK, Sighting, Crossing
  <2>2. mnow <= z.at + Mov!Retention
    BY <1>2, <2>1, WindowInRetention
  <2>3. CASE n < mnow
    BY <2>2, <2>3 DEF SweepsOwed
  <2>4. CASE n = mnow /\ m < mnow
    BY <1>1, <2>2, <2>4 DEF SweepsOwed, Mov!Engine
  <2>5. CASE n = mnow /\ ~ (m < mnow)
    BY <1>2, <2>1, <2>5
  <2> QED BY <1>1, <1>2, <2>3, <2>4, <2>5
<1> QED BY <1>1, <1>3, <1>4, <1>5 DEF Mov!ReviewFinal, ReadsWhole, AlertsLate

LEMMA MovInvAlways == AppsSpec => [](part = "movement" => MovInv)
<1>1. AppsInit => (part = "movement" => MovInv)
  BY MovInvInit DEF AppsInit
<1>2. ASSUME part = "movement" => MovInv, [AppsNext]_appsVars PROVE (part = "movement" => MovInv)'
  <2>1. ASSUME UNCHANGED movVars PROVE MovInv' = MovInv
    BY <2>1 DEF movVars, MovInv, MovTypeOK, JudgedOnce, Mov!ReviewFinal, ReadsWhole, SweepsOwed, HasAlert, AlertsLate
  <2>2. UNCHANGED part /\ (part = "movement" => Mov!MovNext \/ UNCHANGED movVars)
    BY <1>2 DEF AppsNext, appsVars
  <2>3. ASSUME MovInv, Mov!MovNext PROVE MovInv'
    BY <2>3, MovInvSeen, MovInvRead, MovInvPropose, MovInvRaise, MovInvOperators, MovInvTime DEF Mov!MovNext
  <2> QED BY <1>2, <2>1, <2>2, <2>3
<1> QED BY <1>1, <1>2, PTL DEF AppsSpec

LEMMA SweptInTime ==
  ASSUME MovInv
  PROVE  Mov!BreachNamed
<1> DEFINE due(z, s) == Mov!Max({z.at, s.at}) + 2 + sweepErrors
<1>1. ASSUME NEW z \in crossed, NEW s \in seen, s.cam = 2, mnow >= due(z, s), due(z, s) - 1 <= z.at + Mov!scan_window_s,
             mnow <= z.at + Mov!Retention
      PROVE  HasAlert(z)
  <2>1. z.at \in Nat /\ s.at \in Nat /\ mnow \in Nat /\ sweepErrors \in Nat
    BY DEF MovInv, MovTypeOK, Sighting, Crossing
  <2>2. PICK m \in Nat : m = Mov!Max({z.at, s.at}) /\ m \in {z.at, s.at} /\ m >= z.at /\ m >= s.at
    BY <2>1 DEF Mov!Max
  <2>3. m + 1 + sweepErrors \in Nat /\ m + 1 + sweepErrors < mnow /\ m + 1 + sweepErrors <= z.at + Mov!scan_window_s
    BY <1>1, <2>1, <2>2, WindowInRetention
  <2>4. ~ ((m + 1 + sweepErrors) - m <= sweepErrors)
    BY <2>1, <2>2
  <2> QED BY <1>1, <2>2, <2>3, <2>4 DEF MovInv, SweepsOwed
<1>2. Mov!BreachNamed = \A z \in crossed, s \in seen :
         s.cam = 2 /\ mnow >= due(z, s) /\ due(z, s) - 1 <= z.at + Mov!scan_window_s /\ mnow <= z.at + Mov!Retention =>
             \E a \in alerts : a.entry = z /\ a.named
  BY Zenon DEF Mov!BreachNamed
<1> HIDE DEF due
<1> QED BY <1>1, <1>2 DEF HasAlert

(* Whatever the reads, the failures and the operators: a track has at most one entry event and does not go
   without unless its insert failed, a plate read or a burst of alerts of the device becomes one event, an
   entry into a red zone gets its alert and its subject, and what was decided about a pair stays decided
   (anpr.rs, native_anpr.rs, camera_events.rs, breach.rs, reid.rs). *)
THEOREM SightingsStayTrue == AppsSpec => []SightingsTrue
<1>1. ASSUME AnprOn => GateInv, AnprOn => EntryInv, part = "camera" => CamInv, part = "movement" => MovInv
      PROVE  SightingsTrue
  <2>1. ASSUME AnprTypeOK, EntryInv PROVE Anpr!OneEventPerTrack /\ Anpr!ReadsRecorded
    <3>1. Anpr!OneEventPerTrack
      BY <2>1 DEF EntryInv, JobsApart, HasEntry, Anpr!OneEventPerTrack
    <3>2. Anpr!ReadsRecorded
      BY <2>1 DEF EntryInv, AllRecorded, Recorded, HasTrack, HasJob, HasEntry, Anpr!ReadsRecorded, AnprTypeOK
    <3> QED BY <3>1, <3>2
  <2>2. ASSUME CamInv PROVE Hik!ReadOnce /\ Hik!BurstOnce
    BY <2>2 DEF CamInv, CamTypeOK, CursorSound, Passed, Hik!ReadOnce
  <2>3. ASSUME MovInv PROVE Mov!ReviewFinal /\ Mov!BreachNamed
    BY <2>3, SweptInTime DEF MovInv
  <2> QED BY <1>1, <2>1, <2>2, <2>3 DEF SightingsTrue, AnprOn, GateInv
<1> QED BY <1>1, GateInvAlways, EntryInvAlways, CamInvAlways, MovInvAlways, PTL

-----------------------------------------------------------------------------
(* Tickets: the workers' shares, the frames and the reports.                *)

LEMMA TkCards == ASSUME NEW S PROVE Tick!Cardinality(S) = Cardinality(S)
BY Zenon DEF Tick!Cardinality, Cardinality

LEMMA PlaceIs ==
  ASSUME NEW x, NEW S
  PROVE  Tick!Place(x, S) = Cardinality({y \in S : y < x})
BY TkCards DEF Tick!Place

(* The places of a finite set of numbers are those from zero up to its size, each one's of its own. *)
LEMMA PlacesApart ==
  ASSUME NEW S, IsFiniteSet(S), S \subseteq Int, NEW x \in S, NEW y \in S, x < y
  PROVE  Tick!Place(x, S) < Tick!Place(y, S)
<1> DEFINE X == {z \in S : z < x}
           Y == {z \in S : z < y}
<1>1. X \subseteq Y
  <2>1. ASSUME NEW z \in S, z < x PROVE z < y
    <3>1. z \in Int /\ x \in Int /\ y \in Int
      OBVIOUS
    <3> QED BY <2>1, <3>1
  <2> QED BY <2>1
<1>x. x \in Y /\ x \notin X
  <2>1. x \in Int
    OBVIOUS
  <2>2. ~ (x < x)
    BY <2>1
  <2> QED BY <2>2
<1>2. IsFiniteSet(Y)
  BY FS_Subset
<1>3. IsFiniteSet(X) /\ Cardinality(X) <= Cardinality(Y) /\ Cardinality(X) # Cardinality(Y)
  BY <1>1, <1>x, <1>2, FS_Subset
<1>4. Cardinality(X) \in Nat /\ Cardinality(Y) \in Nat
  BY <1>2, <1>3, FS_CardinalityType
<1>5. Tick!Place(x, S) = Cardinality(X) /\ Tick!Place(y, S) = Cardinality(Y)
  BY PlaceIs
<1> QED BY <1>3, <1>4, <1>5

LEMMA PlaceBelow ==
  ASSUME NEW S, IsFiniteSet(S), S \subseteq Int, NEW x \in S
  PROVE  Tick!Place(x, S) \in 0..(Cardinality(S) - 1)
<1> DEFINE X == {z \in S : z < x}
<1>1. IsFiniteSet(X) /\ Cardinality(X) <= Cardinality(S) /\ (Cardinality(S) = Cardinality(X) => S = X)
  BY FS_Subset
<1>2. Cardinality(X) \in Nat /\ Cardinality(S) \in Nat
  BY <1>1, FS_CardinalityType
<1>3. S # X
  OBVIOUS
<1>4. Tick!Place(x, S) = Cardinality(X)
  BY PlaceIs
<1> QED BY <1>1, <1>2, <1>3, <1>4

LEMMA PlaceTaken ==
  ASSUME NEW S, IsFiniteSet(S), S \subseteq Int, NEW n \in 0..(Cardinality(S) - 1)
  PROVE  \E x \in S : Tick!Place(x, S) = n /\ \A y \in S : Tick!Place(y, S) = n => y = x
<1> DEFINE T == 0..(Cardinality(S) - 1)
           f == [x \in S |-> Tick!Place(x, S)]
<1>1. Cardinality(S) \in Nat
  BY FS_CardinalityType
<1>2. IsFiniteSet(T) /\ Cardinality(T) = Cardinality(S)
  <2>1. 0 \in Int /\ Cardinality(S) - 1 \in Int
    BY <1>1
  <2>2. IsFiniteSet(T) /\ Cardinality(T) = IF 0 > Cardinality(S) - 1 THEN 0 ELSE (Cardinality(S) - 1) - 0 + 1
    BY <2>1, FS_Interval
  <2> QED BY <1>1, <2>2
<1>3. \A x, y \in S : x # y => Tick!Place(x, S) # Tick!Place(y, S)
  <2>1. ASSUME NEW x \in S, NEW y \in S, x < y PROVE Tick!Place(x, S) # Tick!Place(y, S)
    <3>1. Tick!Place(x, S) < Tick!Place(y, S)
      BY <2>1, PlacesApart
    <3>2. Tick!Place(x, S) \in 0..(Cardinality(S) - 1) /\ Tick!Place(y, S) \in 0..(Cardinality(S) - 1)
      BY PlaceBelow
    <3> QED BY <3>1, <3>2
  <2>2. \A x, y \in S : x # y => x < y \/ y < x
    OBVIOUS
  <2> QED BY <2>1, <2>2
<1>4. f \in Injection(S, T)
  BY <1>3, PlaceBelow DEF Injection, IsInjective
<1>5. f \in Surjection(S, T)
  BY <1>2, <1>4, FS_Injection
<1>6. PICK x \in S : f[x] = n
  BY <1>5 DEF Surjection
<1> QED BY <1>3, <1>6

(* Whoever divides a list with the others gets what they do not. *)
LEMMA OneShare ==
  ASSUME NEW tasks, IsFiniteSet(tasks), tasks \subseteq Int,
         NEW live, IsFiniteSet(live), live \subseteq Int, live # {},
         NEW t \in tasks
  PROVE  Cardinality({v \in live : t \in Tick!assign(tasks, live, v)}) = 1
<1> DEFINE n == Tick!Place(t, tasks) % Cardinality(live)
<1>1. Cardinality(live) \in Nat /\ Cardinality(live) # 0
  BY FS_CardinalityType, FS_EmptySet
<1>2. Tick!Place(t, tasks) \in Int
  <2>1. Tick!Place(t, tasks) \in 0..(Cardinality(tasks) - 1)
    BY PlaceBelow
  <2>2. Cardinality(tasks) \in Nat
    BY FS_CardinalityType
  <2> QED BY <2>1, <2>2
<1>3. n \in 0..(Cardinality(live) - 1)
  BY <1>1, <1>2
<1>4. PICK x \in live : Tick!Place(x, live) = n /\ \A y \in live : Tick!Place(y, live) = n => y = x
  <2> HIDE DEF n
  <2> QED BY <1>3, PlaceTaken
<1>5. {v \in live : t \in Tick!assign(tasks, live, v)} = {x}
  BY <1>4, TkCards DEF Tick!assign
<1> QED BY <1>5, FS_Singleton


TkTypeOK ==
    /\ tkPart \in {"shards", "enforce", "warn", "off"}
    /\ workers \in [TkWorker -> Nat] /\ DOMAIN told = TkWorker
    /\ DOMAIN post = TkKey
    /\ noted \in [TkKey -> Nat] /\ tkNow \in Nat \ {0} /\ tkErrs \in Nat
    /\ reports \in SUBSET [key : TkKey, at : Nat, written : BOOLEAN]
    /\ bare \in SUBSET [key : TkKey, at : Nat]

(* A worker told that it is among them was told its share of the list the others divide, as long as no
   heartbeat failed. *)
SharesDivided ==
    tkErrs = 0 => \A v \in TkWorker : v \in told[v].rows => told[v].tasks = Tick!assign(Sees[KeyOf[v]], told[v].rows, v)

(* A request comes with a ticket that was handed out, and goes on only with one made out to its credential
   for the camera it is about. *)
PostsSound ==
    \A k \in TkKey :
        /\ post[k].pc \in {"held", "bound"} => post[k].ticket \in tickets
        /\ post[k].pc = "bound" => post[k].ticket.key = k /\ post[k].ticket.camera = post[k].camera

(* The hour of a credential began with a report, and each report is about a batch. *)
ReportsSound ==
    /\ \A r \in reports : [key |-> r.key, at |-> r.at] \in bare
    /\ \A p \in bare : p.at <= tkNow
    /\ tkPart = "shards" => bare = {}
    /\ \A k \in TkKey : noted[k] # 0 => noted[k] <= tkNow /\ \E r \in reports : r.key = k /\ r.at = noted[k]

TkInv == TkTypeOK /\ SharesDivided /\ PostsSound /\ Tick!TicketBound /\ ReportsSound /\ Tick!UnleasedReported

LEMMA TkInvInit == Tick!TkInit => TkInv
<1> SUFFICES ASSUME Tick!TkInit PROVE TkInv
  OBVIOUS
<1> USE DEF Tick!TkInit
<1>1. TkTypeOK
  BY DEF TkTypeOK
<1>2. SharesDivided
  BY DEF SharesDivided
<1>3. PostsSound
  BY DEF PostsSound, Tick!NoPost
<1>4. Tick!TicketBound /\ ReportsSound /\ Tick!UnleasedReported
  BY DEF Tick!TicketBound, ReportsSound, Tick!UnleasedReported
<1> QED BY <1>1, <1>2, <1>3, <1>4 DEF TkInv

(* A worker is told its share. *)
LEMMA TkInvShards ==
  ASSUME TkInv, tkPart' = tkPart, Tick!Shards, UNCHANGED <<Tick!pullVars, Tick!postVars, Tick!noteVars, boot, tkNow>>
  PROVE  TkInv'
<1> USE DEF TkInv
<1>1. PICK me \in TkWorker : Tick!list_all_tasks(me)
  BY DEF Tick!Shards
<1>2. UNCHANGED <<tickets, post, outbox, noted, reports, bare, tkNow, tkPart>>
  BY DEF Tick!pullVars, Tick!postVars, Tick!noteVars
<1>3. \/ workers' = [v \in TkWorker |-> IF v = me THEN tkNow ELSE IF workers[v] < tkNow - LIVENESS_TTL THEN 0 ELSE workers[v]] /\ tkErrs' = tkErrs
      \/ tkErrs' = tkErrs + 1 /\ workers' = workers
  BY <1>1 DEF Tick!list_all_tasks, Tick!TkFine, Tick!TkFails
<1> DEFINE there == {v \in TkWorker : workers'[v] # 0}
           mine == {v \in there : KeyOf[v] = KeyOf[me]}
<1>4. told' = [told EXCEPT ![me] = [tasks |-> Tick!assign(Sees[KeyOf[me]], mine \cup {me}, me), rows |-> mine]]
  BY <1>1 DEF Tick!list_all_tasks, Tick!Peers
<1>5. TkTypeOK'
  BY <1>2, <1>3, <1>4 DEF TkTypeOK
<1>6. SharesDivided'
  <2> SUFFICES ASSUME tkErrs' = 0, NEW v \in TkWorker, v \in told'[v].rows
               PROVE  told'[v].tasks = Tick!assign(Sees[KeyOf[v]], told'[v].rows, v)
    BY DEF SharesDivided
  <2>1. tkErrs = 0
    BY <1>3 DEF TkTypeOK
  <2>2. CASE v = me
    <3> HIDE DEF mine
    <3>1. told'[me] = [tasks |-> Tick!assign(Sees[KeyOf[me]], mine \cup {me}, me), rows |-> mine]
      BY <1>4 DEF TkTypeOK
    <3>2. me \in mine
      BY <2>2, <3>1
    <3>3. mine \cup {me} = mine
      BY <3>2
    <3> QED BY <2>2, <3>1, <3>3
  <2>3. CASE v # me
    <3>1. told'[v] = told[v]
      BY <1>4, <2>3 DEF TkTypeOK
    <3> QED BY <2>1, <3>1 DEF SharesDivided
  <2> QED BY <2>2, <2>3
<1>7. PostsSound' /\ Tick!TicketBound' /\ ReportsSound' /\ Tick!UnleasedReported'
  BY <1>2 DEF PostsSound, Tick!TicketBound, ReportsSound, Tick!UnleasedReported
<1> QED BY <1>5, <1>6, <1>7

(* The frames and the leases: tickets are only handed out. *)
LEMMA TkInvFrames ==
  ASSUME TkInv, tkPart' = tkPart, Tick!Frames,
         UNCHANGED <<Tick!shardVars, Tick!postVars, Tick!noteVars, boot, tkNow>>
  PROVE  TkInv'
<1> USE DEF TkInv
<1>1. UNCHANGED <<workers, told, post, outbox, noted, reports, bare, tkNow, tkPart>>
  BY DEF Tick!shardVars, Tick!postVars, Tick!noteVars
<1>2. tickets \subseteq tickets'
  BY DEF Tick!Frames, Tick!Disable, Tick!Sample, Tick!Lease, Tick!latest_frame, Tick!mint
<1>3. tkErrs' = tkErrs \/ tkErrs' = tkErrs + 1
  BY DEF Tick!Frames, Tick!TkFails, Tick!TkFine
<1>4. TkTypeOK' /\ SharesDivided'
  BY <1>1, <1>3 DEF TkTypeOK, SharesDivided
<1>5. PostsSound' /\ Tick!TicketBound' /\ ReportsSound' /\ Tick!UnleasedReported'
  BY <1>1, <1>2 DEF PostsSound, Tick!TicketBound, ReportsSound, Tick!UnleasedReported
<1> QED BY <1>4, <1>5

(* A batch with a ticket. *)
LEMMA TkInvPosts ==
  ASSUME TkInv, tkPart' = tkPart, Tick!Posts,
         UNCHANGED <<Tick!shardVars, Tick!pullVars, Tick!noteVars, boot, tkNow, tkErrs>>
  PROVE  TkInv'
<1> USE DEF TkInv
<1>1. UNCHANGED <<workers, told, tickets, noted, reports, bare, tkNow, tkPart, tkErrs>>
  BY DEF Tick!shardVars, Tick!pullVars, Tick!noteVars
<1>2. PICK k \in TkKey : Tick!claim(k) \/ Tick!resolve_binding(k) \/ Tick!ingest(k)
  BY DEF Tick!Posts
<1>3. SharesDivided' /\ ReportsSound' /\ Tick!UnleasedReported'
  BY <1>1 DEF SharesDivided, ReportsSound, Tick!UnleasedReported
<1>4. CASE Tick!claim(k)
  <2>1. PICK x \in tickets : post' = [post EXCEPT ![k] = [pc |-> "held", ticket |-> x, camera |-> CamOf[x.task]]] /\ outbox' = outbox
    BY <1>4 DEF Tick!claim
  <2>2. TkTypeOK' /\ PostsSound'
    BY <1>1, <2>1 DEF TkTypeOK, PostsSound
  <2> QED BY <1>1, <1>3, <2>1, <2>2 DEF Tick!TicketBound
<1>5. CASE Tick!resolve_binding(k)
  <2>1. post[k].pc = "held" /\ outbox' = outbox
    BY <1>5 DEF Tick!resolve_binding
  <2>2. CASE post' = [post EXCEPT ![k] = Tick!NoPost]
    <3>1. TkTypeOK' /\ PostsSound'
      BY <1>1, <2>2 DEF TkTypeOK, PostsSound, Tick!NoPost
    <3> QED BY <1>1, <1>3, <2>1, <3>1 DEF Tick!TicketBound
  <2>3. CASE Tick!verify(post[k].ticket, k, post[k].camera) /\ post' = [post EXCEPT ![k].pc = "bound"]
    <3>1. post[k].ticket.key = k /\ post[k].ticket.camera = post[k].camera /\ post[k].ticket \in tickets
      BY <2>1, <2>3 DEF Tick!verify, Tick!mac_for, PostsSound
    <3>2. DOMAIN post' = TkKey /\ \A j \in TkKey : j # k => post'[j] = post[j]
      BY <2>3 DEF TkTypeOK
    <3>3. post'[k].ticket = post[k].ticket /\ post'[k].camera = post[k].camera
      BY <2>3 DEF TkTypeOK
    <3>4. PostsSound'
      BY <1>1, <3>1, <3>2, <3>3 DEF PostsSound
    <3>5. TkTypeOK'
      BY <1>1, <3>2 DEF TkTypeOK
    <3> QED BY <1>1, <1>3, <2>1, <3>4, <3>5 DEF Tick!TicketBound
  <2> QED BY <1>5, <2>2, <2>3 DEF Tick!resolve_binding
<1>6. CASE Tick!ingest(k)
  <2> DEFINE x == post[k].ticket
             b == [task |-> x.task, at |-> x.at, camera |-> post[k].camera, bytes |-> x.bytes, key |-> k, by |-> x.key]
  <2>1. post[k].pc = "bound" /\ post' = [post EXCEPT ![k] = Tick!NoPost] /\ outbox' \subseteq outbox \cup {b}
    BY <1>6 DEF Tick!ingest
  <2>2. TkTypeOK' /\ PostsSound'
    BY <1>1, <2>1 DEF TkTypeOK, PostsSound, Tick!NoPost
  <2>3. x \in tickets /\ x.key = k /\ x.camera = post[k].camera
    BY <2>1 DEF PostsSound
  <2>4. b.key = x.key /\ b.task = x.task /\ b.bytes = x.bytes /\ b.camera = x.camera
    BY <2>3
  <2>5. Tick!TicketBound'
    <3> HIDE DEF x, b
    <3> QED BY <1>1, <2>1, <2>3, <2>4 DEF Tick!TicketBound
  <2> QED BY <1>3, <2>2, <2>5
<1> QED BY <1>2, <1>4, <1>5, <1>6

(* A batch without one. *)
LEMMA TkInvTicketless ==
  ASSUME TkInv, tkPart' = tkPart, tkPart \in {"warn", "off"}, NEW k \in TkKey, Tick!Ticketless(k),
         UNCHANGED <<Tick!shardVars, Tick!pullVars, Tick!postVars, boot, tkNow>>
  PROVE  TkInv'
<1> USE DEF TkInv
<1>1. UNCHANGED <<workers, told, tickets, post, outbox, tkNow, tkPart>>
  BY DEF Tick!shardVars, Tick!pullVars, Tick!postVars
<1> DEFINE p == [key |-> k, at |-> tkNow]
           r(written) == [key |-> k, at |-> tkNow, written |-> written]
<1>2. bare' = bare \cup {p} /\ Tick!note_unleased_ingest(k)
  BY DEF Tick!Ticketless
<1>3. tkErrs' = tkErrs \/ tkErrs' = tkErrs + 1
  BY <1>2 DEF Tick!note_unleased_ingest, Tick!TkFails, Tick!TkFine
<1>4. p \in [key : TkKey, at : Nat] /\ p.key = k /\ p.at = tkNow /\ tkNow \in Nat /\ tkNow # 0
  BY DEF TkTypeOK
<1>5. SharesDivided' /\ PostsSound' /\ Tick!TicketBound'
  <2>1. tkErrs' = 0 => tkErrs = 0
    BY <1>3 DEF TkTypeOK
  <2> QED BY <1>1, <2>1 DEF SharesDivided, PostsSound, Tick!TicketBound
<1>6. CASE UNCHANGED <<noted, reports>> /\ (tkPart # "warn" \/ Tick!Recent(k))
  <2>1. TkTypeOK' /\ ReportsSound'
    BY <1>1, <1>2, <1>3, <1>4, <1>6 DEF TkTypeOK, ReportsSound
  <2>2. tkPart = "warn" => \E q \in reports : q.key = p.key /\ q.at <= p.at /\ p.at - q.at < WarnEvery
    <3> SUFFICES ASSUME tkPart = "warn" PROVE \E q \in reports : q.key = p.key /\ q.at <= p.at /\ p.at - q.at < WarnEvery
      OBVIOUS
    <3>1. noted[k] # 0 /\ tkNow - noted[k] < WarnEvery
      BY <1>6 DEF Tick!Recent
    <3>2. PICK q \in reports : q.key = k /\ q.at = noted[k] /\ noted[k] <= tkNow
      BY <3>1 DEF ReportsSound
    <3> QED BY <1>4, <3>1, <3>2
  <2>3. Tick!UnleasedReported'
    <3> HIDE DEF p
    <3> QED BY <1>1, <1>2, <1>6, <2>2 DEF Tick!UnleasedReported
  <2> QED BY <1>5, <2>1, <2>3
<1>7. ASSUME NEW written \in BOOLEAN, noted' = [noted EXCEPT ![k] = tkNow], reports' = reports \cup {r(written)}
      PROVE  TkInv'
  <2> DEFINE q == r(written)
  <2>1. q \in [key : TkKey, at : Nat, written : BOOLEAN] /\ q.key = k /\ q.at = tkNow /\ [key |-> q.key, at |-> q.at] = p
    BY <1>4
  <2>2. reports' = reports \cup {q}
    BY <1>7
  <2> HIDE DEF p, q
  <2>3. TkTypeOK'
    BY <1>1, <1>2, <1>3, <1>4, <1>7, <2>1, <2>2 DEF TkTypeOK
  <2>4. ReportsSound'
    <3>1. \A x \in reports' : [key |-> x.key, at |-> x.at] \in bare'
      BY <1>2, <2>1, <2>2 DEF ReportsSound
    <3>2. (\A x \in bare' : x.at <= tkNow') /\ (tkPart' = "shards" => bare' = {})
      BY <1>1, <1>2, <1>4 DEF ReportsSound
    <3>3. ASSUME NEW j \in TkKey, noted'[j] # 0
          PROVE  noted'[j] <= tkNow' /\ \E x \in reports' : x.key = j /\ x.at = noted'[j]
      <4>1. CASE j = k
        <5>1. noted'[j] = tkNow
          BY <1>7, <4>1 DEF TkTypeOK
        <5> QED BY <1>1, <1>4, <2>1, <2>2, <4>1, <5>1
      <4>2. CASE j # k
        <5>1. noted'[j] = noted[j]
          BY <1>7, <4>2 DEF TkTypeOK
        <5> QED BY <1>1, <2>2, <3>3, <5>1 DEF ReportsSound
      <4> QED BY <4>1, <4>2
    <3> QED BY <3>1, <3>2, <3>3, SMTT(60) DEF ReportsSound
  <2>5. q.key = p.key /\ q.at <= p.at /\ p.at - q.at < WarnEvery
    BY <1>4, <2>1, TicketsAssumption
  <2>6. Tick!UnleasedReported'
    BY <1>1, <1>2, <2>2, <2>5 DEF Tick!UnleasedReported
  <2> QED BY <1>5, <2>3, <2>4, <2>6
<1>8. \/ UNCHANGED <<noted, reports>> /\ (tkPart # "warn" \/ Tick!Recent(k))
      \/ \E written \in BOOLEAN : noted' = [noted EXCEPT ![k] = tkNow] /\ reports' = reports \cup {r(written)}
  BY <1>2 DEF Tick!note_unleased_ingest
<1> QED BY <1>6, <1>7, <1>8

(* A restart, and time. *)
LEMMA TkInvRestart ==
  ASSUME TkInv, tkPart' = tkPart, Tick!Restart, UNCHANGED tkNow
  PROVE  TkInv'
<1> USE DEF TkInv, Tick!Restart
<1>1. UNCHANGED <<workers, told, tickets, outbox, reports, bare>> /\ tkErrs' = tkErrs + 1
  BY DEF Tick!shardVars, Tick!TkFails
<1>2. TkTypeOK' /\ SharesDivided'
  BY <1>1 DEF TkTypeOK, SharesDivided
<1>3. PostsSound'
  BY DEF PostsSound, Tick!NoPost
<1>4. Tick!TicketBound' /\ ReportsSound' /\ Tick!UnleasedReported'
  BY <1>1 DEF Tick!TicketBound, ReportsSound, Tick!UnleasedReported
<1> QED BY <1>2, <1>3, <1>4

LEMMA TkInvTick ==
  ASSUME TkInv, tkPart' = tkPart, Tick!TkTick
  PROVE  TkInv'
<1> USE DEF TkInv, Tick!TkTick
<1>1. UNCHANGED <<workers, told, tickets, post, outbox, noted, reports, bare, tkErrs>> /\ tkNow' = tkNow + 1
  BY DEF Tick!shardVars, Tick!pullVars, Tick!postVars, Tick!noteVars
<1>2. TkTypeOK' /\ SharesDivided' /\ PostsSound' /\ Tick!TicketBound'
  BY <1>1 DEF TkTypeOK, SharesDivided, PostsSound, Tick!TicketBound
<1>3. ReportsSound' /\ Tick!UnleasedReported'
  BY <1>1 DEF ReportsSound, Tick!UnleasedReported, TkTypeOK
<1> QED BY <1>2, <1>3

LEMMA TkInvAlways == AppsSpec => [](part = "tickets" => TkInv)
<1>1. AppsInit => (part = "tickets" => TkInv)
  BY TkInvInit DEF AppsInit
<1>2. ASSUME part = "tickets" => TkInv, [AppsNext]_appsVars PROVE (part = "tickets" => TkInv)'
  <2>1. ASSUME UNCHANGED tkVars PROVE TkInv' = TkInv
    BY <2>1 DEF tkVars, TkInv, TkTypeOK, SharesDivided, PostsSound, Tick!TicketBound, ReportsSound, Tick!UnleasedReported
  <2>2. UNCHANGED part /\ (part = "tickets" => Tick!TkNext \/ UNCHANGED tkVars)
    BY <1>2 DEF AppsNext, appsVars
  <2>3. ASSUME TkInv, Tick!TkNext PROVE TkInv'
    BY <2>3, TkInvShards, TkInvFrames, TkInvPosts, TkInvTicketless, TkInvRestart, TkInvTick DEF Tick!TkNext
  <2> QED BY <1>2, <2>1, <2>2, <2>3
<1> QED BY <1>1, <1>2, PTL DEF AppsSpec

(* However many workers divide a list of however many tasks, and whatever the credentials post: every task
   is one live worker's once all have asked, a batch stands for a frame handed to the credential that
   posts it, whoever posts without a ticket is reported within the hour, and the readiness report lists
   whoever enforcing would refuse (worker_shard.rs, frame_ticket.rs, routes/ai.rs, routes/system.rs). *)
THEOREM FramesStayAccounted == AppsSpec => []FramesAccounted
<1>1. ASSUME TkInv PROVE Tick!ShardCovers
  <2> DEFINE live(k) == {v \in TkWorker : KeyOf[v] = k /\ workers[v] # 0}
  <2> SUFFICES ASSUME tkErrs = 0, NEW k \in TkKey, NEW mine, mine = live(k),
                      mine # {}, \A v \in mine : told[v].rows = mine, NEW t \in Sees[k]
               PROVE  Cardinality({v \in mine : t \in told[v].tasks}) = 1
    <3>1. Tick!ShardCovers =
             (tkErrs = 0 => \A k \in TkKey :
                 live(k) # {} /\ (\A v \in live(k) : told[v].rows = live(k)) =>
                     \A t \in Sees[k] : Tick!Cardinality({v \in live(k) : t \in told[v].tasks}) = 1)
      BY Zenon DEF Tick!ShardCovers
    <3> HIDE DEF live
    <3> QED BY <3>1, TkCards
  <2>1. \A v \in mine : told[v].tasks = Tick!assign(Sees[k], mine, v)
    BY <1>1 DEF TkInv, SharesDivided
  <2>2. {v \in mine : t \in told[v].tasks} = {v \in mine : t \in Tick!assign(Sees[k], mine, v)}
    BY <2>1
  <2>3. IsFiniteSet(mine) /\ mine \subseteq Int
    BY TicketsAssumption, FS_Subset
  <2>4. IsFiniteSet(Sees[k]) /\ Sees[k] \subseteq Int
    <3>1. Sees[k] \subseteq TkTask
      BY TicketsAssumption
    <3> QED BY <3>1, TicketsAssumption, FS_Subset
  <2> QED BY <2>2, <2>3, <2>4, OneShare
<1>2. ASSUME TkInv PROVE Tick!ReadinessHonest
  <2> DEFINE verdict == Tick!get_provenance_readiness
  <2> USE <1>2 DEF TkInv, TkTypeOK
  <2>1. tkPart = "off" => verdict = "unknown"
    BY DEF Tick!get_provenance_readiness, Tick!readiness_verdict
  <2>2. ASSUME verdict = "not_ready" PROVE \E p \in bare : tkNow - p.at < QUIET_PERIOD
    <3>1. PICK r \in Tick!Listed : tkNow - r.at < QUIET_PERIOD
      BY <2>2 DEF Tick!get_provenance_readiness, Tick!readiness_verdict
    <3>2. [key |-> r.key, at |-> r.at] \in bare
      BY DEF Tick!Listed, ReportsSound
    <3> QED BY <3>1, <3>2
  <2>3. ASSUME verdict = "likely_ready", \A r \in reports : r.written, NEW p \in bare
        PROVE  \/ tkNow - p.at > WINDOW - WarnEvery
               \/ \E r \in Tick!Listed : /\ r.key = p.key /\ r.at <= p.at /\ p.at - r.at < WarnEvery
                                         /\ tkNow - r.at >= QUIET_PERIOD
    <3>1. tkPart \in {"shards", "warn"}
      BY <2>3 DEF Tick!get_provenance_readiness, Tick!readiness_verdict
    <3>2. PICK r \in reports : r.key = p.key /\ r.at <= p.at /\ p.at - r.at < WarnEvery
      BY <3>1 DEF ReportsSound, Tick!UnleasedReported
    <3>3. p.at \in Nat /\ r.at \in Nat /\ tkNow \in Nat /\ WINDOW \in Nat /\ WarnEvery \in Nat /\ QUIET_PERIOD \in Nat
      BY TicketsAssumption
    <3>4. tkNow - p.at > WINDOW - WarnEvery \/ r \in Tick!Listed
      BY <2>3, <3>2, <3>3 DEF Tick!Listed
    <3>5. r \in Tick!Listed => ~ (tkNow - r.at < QUIET_PERIOD)
      BY <2>3, <3>1 DEF Tick!get_provenance_readiness, Tick!readiness_verdict
    <3> QED BY <3>2, <3>3, <3>4, <3>5
  <2>4. Tick!ReadinessHonest = (/\ tkPart = "off" => verdict = "unknown"
                                /\ verdict = "not_ready" => \E p \in bare : tkNow - p.at < QUIET_PERIOD
                                /\ verdict = "likely_ready" /\ (\A r \in reports : r.written) =>
                                     \A p \in bare : \/ tkNow - p.at > WINDOW - WarnEvery
                                                     \/ \E r \in Tick!Listed :
                                                           /\ r.key = p.key /\ r.at <= p.at /\ p.at - r.at < WarnEvery
                                                           /\ tkNow - r.at >= QUIET_PERIOD)
    BY Zenon DEF Tick!ReadinessHonest
  <2> HIDE DEF verdict
  <2> QED BY <2>1, <2>2, <2>3, <2>4
<1>3. ASSUME part = "tickets" => TkInv PROVE FramesAccounted
  BY <1>1, <1>2, <1>3 DEF FramesAccounted, TkInv
<1> QED BY <1>3, TkInvAlways, PTL

-----------------------------------------------------------------------------
(* The queue of a semantic search.                                         *)

QueueRow == [status : {"pending", "claimed", "done", "error"}, by : Cred \cup {"nobody"},
             lapsed : BOOLEAN, stale : BOOLEAN, answer : Cred \cup {"nobody"}]

(* A search has one row at most, and only while it waits for it or was left. *)
RowSound(a) ==
    /\ queue[a] \in SUBSET QueueRow
    /\ \A r, s \in queue[a] : r = s
    /\ queue[a] # {} => asks[a] \in {"waiting", "leaving", "abandoned"}
    /\ \A r \in queue[a] : /\ r.status = "done" => r.answer = r.by
                           /\ r.status = "claimed" => r.by # "nobody"

(* A row somebody was given names a worker from then on. *)
GivenOnce(a) ==
    \A c \in Cred : a \in work[c] => asks[a] \notin {"idle", "counted"} /\ \A r \in queue[a] : r.by # "nobody"

EmbInv ==
    /\ DOMAIN queue = Searcher /\ DOMAIN asks = Searcher
    /\ work \in [Cred -> SUBSET Searcher] /\ offers \in [Cred -> SUBSET Searcher]
    /\ \A a \in Searcher : RowSound(a) /\ GivenOnce(a)

(* The row of one search is written, or the search moves on: the others stay. *)
LEMMA EmbOne ==
  ASSUME EmbInv, NEW a \in Searcher, DOMAIN queue' = Searcher, DOMAIN asks' = Searcher,
         \A b \in Searcher \ {a} : queue'[b] = queue[b] /\ asks'[b] = asks[b],
         work' \in [Cred -> SUBSET Searcher], offers' \in [Cred -> SUBSET Searcher],
         \A c \in Cred : work'[c] \subseteq work[c] \cup {a},
         RowSound(a)', GivenOnce(a)'
  PROVE  EmbInv'
<1>1. ASSUME NEW b \in Searcher \ {a} PROVE RowSound(b)' /\ GivenOnce(b)'
  <2>1. RowSound(b) /\ GivenOnce(b)
    BY DEF EmbInv
  <2>2. RowSound(b)'
    BY <2>1 DEF RowSound
  <2>3. GivenOnce(b)'
    BY <2>1 DEF GivenOnce
  <2> QED BY <2>2, <2>3
<1> QED BY <1>1 DEF EmbInv

LEMMA EmbInvSearch ==
  ASSUME EmbInv, NEW a \in Searcher,
         Srch!CountQueue(a) \/ Srch!enqueue_query(a) \/ Srch!await_query(a) \/ Srch!delete_query(a) \/ Srch!Abandon(a)
  PROVE  EmbInv'
<1> USE DEF Srch!Ask
<1>1. RowSound(a) /\ GivenOnce(a) /\ work' = work /\ offers' = offers
  BY DEF EmbInv, Srch!CountQueue, Srch!enqueue_query, Srch!await_query, Srch!delete_query, Srch!Abandon
<1>2. PICK at : asks' = [asks EXCEPT ![a] = at]
  BY DEF Srch!CountQueue, Srch!enqueue_query, Srch!await_query, Srch!delete_query, Srch!Abandon
<1>3. asks'[a] = at /\ DOMAIN asks' = Searcher /\ \A b \in Searcher \ {a} : asks'[b] = asks[b]
  BY <1>2 DEF EmbInv
<1>4. CASE UNCHANGED queue /\ (asks[a] \in {"idle", "counted", "waiting", "leaving"})
           /\ (asks[a] \in {"waiting", "leaving"} => at \in {"leaving", "abandoned"})
           /\ (asks[a] = "counted" => at = "abandoned")
  <2>1. RowSound(a)'
    BY <1>1, <1>3, <1>4 DEF RowSound
  <2>2. GivenOnce(a)'
    BY <1>1, <1>3, <1>4 DEF GivenOnce
  <2> QED BY <1>1, <1>3, <1>4, <2>1, <2>2, EmbOne DEF EmbInv
<1>5. CASE Srch!enqueue_query(a)
  <2>1. queue' = [queue EXCEPT ![a] = {Srch!Row0}] /\ asks[a] = "counted" /\ at = "waiting"
    BY <1>2, <1>3, <1>5 DEF Srch!enqueue_query, EmbInv
  <2>2. queue'[a] = {Srch!Row0} /\ DOMAIN queue' = Searcher /\ \A b \in Searcher \ {a} : queue'[b] = queue[b]
    BY <2>1 DEF EmbInv
  <2>3. Srch!Row0 \in QueueRow /\ Srch!Row0.status = "pending"
    BY DEF Srch!Row0, Srch!Nobody, QueueRow
  <2>4. RowSound(a)'
    BY <1>3, <2>1, <2>2, <2>3 DEF RowSound
  <2>5. \A c \in Cred : a \notin work[c]
    BY <1>1, <2>1 DEF GivenOnce
  <2>6. GivenOnce(a)'
    BY <1>1, <2>5 DEF GivenOnce
  <2> QED BY <1>1, <1>3, <2>2, <2>4, <2>6, EmbOne DEF EmbInv
<1>6. CASE Srch!delete_query(a)
  <2>1. queue' = [queue EXCEPT ![a] = {}] /\ asks[a] = "leaving" /\ at = "over"
    BY <1>2, <1>3, <1>6 DEF Srch!delete_query, EmbInv
  <2>2. queue'[a] = {} /\ DOMAIN queue' = Searcher /\ \A b \in Searcher \ {a} : queue'[b] = queue[b]
    BY <2>1 DEF EmbInv
  <2>3. RowSound(a)' /\ GivenOnce(a)'
    BY <1>1, <1>3, <2>1, <2>2 DEF RowSound, GivenOnce
  <2> QED BY <1>1, <1>3, <2>2, <2>3, EmbOne DEF EmbInv
<1>7. Srch!CountQueue(a) \/ Srch!await_query(a) \/ Srch!Abandon(a) =>
        /\ UNCHANGED queue /\ asks[a] \in {"idle", "counted", "waiting", "leaving"}
        /\ asks[a] \in {"waiting", "leaving"} => at \in {"leaving", "abandoned"}
        /\ asks[a] = "counted" => at = "abandoned"
  BY <1>2, <1>3 DEF EmbInv, Srch!CountQueue, Srch!await_query, Srch!Abandon
<1> QED BY <1>4, <1>5, <1>6, <1>7

(* A row r of the search a gives way to s; no other column of the table and no other search changes. *)
LEMMA EmbRewrite ==
  ASSUME EmbInv, NEW a \in Searcher, NEW f, queue' = [queue EXCEPT ![a] = {f[r] : r \in queue[a]}], asks' = asks,
         offers' \in [Cred -> SUBSET Searcher], work' \in [Cred -> SUBSET Searcher],
         \A c \in Cred : work'[c] \subseteq work[c] \cup {a},
         \A r \in queue[a] : /\ f[r] \in QueueRow
                             /\ f[r].status = "done" => f[r].answer = f[r].by
                             /\ f[r].status = "claimed" => f[r].by # "nobody"
                             /\ f[r].by = "nobody" => r.by = "nobody" /\ work' = work,
         queue[a] = {} => work' = work
  PROVE  EmbInv'
<1>1. RowSound(a) /\ GivenOnce(a)
  BY DEF EmbInv
<1>2. queue'[a] = {f[r] : r \in queue[a]} /\ DOMAIN queue' = Searcher /\ \A b \in Searcher \ {a} : queue'[b] = queue[b]
  BY DEF EmbInv
<1>3. RowSound(a)'
  <2>1. queue'[a] \in SUBSET QueueRow /\ \A x, y \in queue'[a] : x = y
    BY <1>1, <1>2 DEF RowSound
  <2>2. queue'[a] # {} => queue[a] # {}
    BY <1>2
  <2>3. \A x \in queue'[a] : (x.status = "done" => x.answer = x.by) /\ (x.status = "claimed" => x.by # "nobody")
    BY <1>2
  <2> QED BY <1>1, <2>1, <2>2, <2>3 DEF RowSound
<1>4. GivenOnce(a)'
  <2> SUFFICES ASSUME NEW c \in Cred, a \in work'[c]
               PROVE  asks'[a] \notin {"idle", "counted"} /\ \A x \in queue'[a] : x.by # "nobody"
    BY DEF GivenOnce
  <2>1. asks'[a] \notin {"idle", "counted"}
    <3>1. CASE queue[a] # {}
      BY <1>1, <3>1 DEF RowSound
    <3>2. CASE queue[a] = {}
      BY <1>1, <3>2 DEF GivenOnce
    <3> QED BY <3>1, <3>2
  <2>2. ASSUME NEW r \in queue[a] PROVE f[r].by # "nobody"
    <3>1. ASSUME f[r].by = "nobody" PROVE FALSE
      <4>1. r.by = "nobody" /\ a \in work[c]
        BY <3>1
      <4> QED BY <1>1, <4>1 DEF GivenOnce
    <3> QED BY <3>1
  <2> QED BY <1>2, <2>1, <2>2
<1> QED BY <1>2, <1>3, <1>4, EmbOne DEF EmbInv

LEMMA EmbInvWorker ==
  ASSUME EmbInv, NEW c \in Cred,
         Srch!ReadQueue(c) \/ Srch!claim_queries(c) \/ Srch!submit_query_result(c) \/ Srch!WorkerDies(c)
  PROVE  EmbInv'
<1>1. CASE Srch!ReadQueue(c)
  <2>1. UNCHANGED <<queue, asks, work>> /\ offers' \in [Cred -> SUBSET Searcher]
    BY <1>1 DEF Srch!ReadQueue, EmbInv
  <2> QED BY <2>1 DEF EmbInv, RowSound, GivenOnce
<1>2. CASE Srch!WorkerDies(c)
  <2>1. UNCHANGED <<queue, asks>> /\ work' = [work EXCEPT ![c] = {}] /\ offers' = [offers EXCEPT ![c] = {}]
    BY <1>2 DEF Srch!WorkerDies
  <2>2. \A d \in Cred : work'[d] \subseteq work[d]
    BY <2>1 DEF EmbInv
  <2>3. work' \in [Cred -> SUBSET Searcher] /\ offers' \in [Cred -> SUBSET Searcher]
    BY <2>1 DEF EmbInv
  <2>4. \A a \in Searcher : RowSound(a)' /\ GivenOnce(a)'
    BY <2>1, <2>2 DEF EmbInv, RowSound, GivenOnce
  <2> QED BY <2>1, <2>3, <2>4 DEF EmbInv
<1>3. CASE Srch!claim_queries(c)
  <2>1. PICK a \in offers[c] :
          /\ offers' = [offers EXCEPT ![c] = @ \ {a}] /\ asks' = asks
          /\ IF Srch!Wins(a)
             THEN /\ queue' = [queue EXCEPT ![a] = {[r EXCEPT !.status = "claimed", !.by = c, !.lapsed = FALSE] : r \in @}]
                  /\ work' = [work EXCEPT ![c] = @ \cup {a}]
             ELSE UNCHANGED <<queue, work>>
    BY <1>3 DEF Srch!claim_queries
  <2>2. a \in Searcher /\ offers' \in [Cred -> SUBSET Searcher]
    BY <2>1 DEF EmbInv
  <2>3. CASE ~ Srch!Wins(a)
    BY <2>1, <2>2, <2>3 DEF EmbInv, RowSound, GivenOnce
  <2>4. CASE Srch!Wins(a)
    <3> DEFINE f == [r \in queue[a] |-> [r EXCEPT !.status = "claimed", !.by = c, !.lapsed = FALSE]]
    <3>1. queue' = [queue EXCEPT ![a] = {f[r] : r \in queue[a]}]
      <4>1. queue' = [queue EXCEPT ![a] = {[r EXCEPT !.status = "claimed", !.by = c, !.lapsed = FALSE] : r \in queue[a]}]
        BY <2>1, <2>2, <2>4 DEF EmbInv
      <4>2. {[r EXCEPT !.status = "claimed", !.by = c, !.lapsed = FALSE] : r \in queue[a]} = {f[r] : r \in queue[a]}
        OBVIOUS
      <4> QED BY <4>1, <4>2, Zenon
    <3>2. work' = [work EXCEPT ![c] = @ \cup {a}]
      BY <2>1, <2>4
    <3>3. work' \in [Cred -> SUBSET Searcher] /\ \A d \in Cred : work'[d] \subseteq work[d] \cup {a}
      BY <2>2, <3>2 DEF EmbInv
    <3>4. ASSUME NEW r \in queue[a] PROVE f[r] \in QueueRow /\ f[r].status = "claimed" /\ f[r].by = c
      <4>1. r \in QueueRow
        BY <2>2 DEF EmbInv, RowSound
      <4> QED BY <4>1 DEF QueueRow
    <3>5. queue[a] # {} /\ c # "nobody"
      BY <2>4, SearchAssumption DEF Srch!Wins
    <3> HIDE DEF f
    <3> QED BY <2>1, <2>2, <3>1, <3>3, <3>4, <3>5, EmbRewrite
  <2> QED BY <2>3, <2>4
<1>4. CASE Srch!submit_query_result(c)
  <2>1. PICK a \in work[c], status \in {"done", "error"} :
          /\ work' = [work EXCEPT ![c] = @ \ {a}]
          /\ queue' = [queue EXCEPT ![a] =
                         {IF Srch!Accepts(r, c) THEN [r EXCEPT !.status = status, !.answer = c] ELSE r : r \in @}]
          /\ UNCHANGED <<asks, offers>>
    BY <1>4 DEF Srch!submit_query_result
  <2>2. a \in Searcher /\ RowSound(a) /\ GivenOnce(a)
    BY <2>1 DEF EmbInv
  <2> DEFINE f == [r \in queue[a] |-> IF Srch!Accepts(r, c) THEN [r EXCEPT !.status = status, !.answer = c] ELSE r]
  <2>3. queue' = [queue EXCEPT ![a] = {f[r] : r \in queue[a]}]
    BY <2>1, <2>2 DEF EmbInv
  <2>4. work' \in [Cred -> SUBSET Searcher] /\ \A d \in Cred : work'[d] \subseteq work[d]
    BY <2>1 DEF EmbInv
  <2>5. ASSUME NEW r \in queue[a]
        PROVE  /\ f[r] \in QueueRow /\ f[r].by = r.by /\ r.by # "nobody"
               /\ f[r].status = "done" => f[r].answer = f[r].by
               /\ f[r].status = "claimed" => f[r].by # "nobody"
    <3>1. r \in QueueRow /\ r.by # "nobody" /\ (r.status = "done" => r.answer = r.by)
      BY <2>1, <2>2 DEF RowSound, GivenOnce
    <3>2. CASE Srch!Accepts(r, c)
      <4>1. r.by = c
        BY <3>1, <3>2 DEF Srch!Accepts, Srch!Nobody
      <4>2. f[r] = [r EXCEPT !.status = status, !.answer = c]
        BY <3>2
      <4> QED BY <3>1, <4>1, <4>2 DEF QueueRow
    <3>3. CASE ~ Srch!Accepts(r, c)
      BY <3>1, <3>3
    <3> QED BY <3>2, <3>3
  <2> HIDE DEF f
  <2>6. offers' \in [Cred -> SUBSET Searcher] /\ asks' = asks
    BY <2>1 DEF EmbInv
  <2>7. DOMAIN queue' = Searcher /\ queue'[a] = {f[r] : r \in queue[a]} /\ \A b \in Searcher \ {a} : queue'[b] = queue[b]
    BY <2>2, <2>3 DEF EmbInv
  <2>8. RowSound(a)'
    <3>1. queue'[a] \in SUBSET QueueRow /\ \A x, y \in queue'[a] : x = y
      BY <2>2, <2>5, <2>7 DEF RowSound
    <3>2. \A x \in queue'[a] : (x.status = "done" => x.answer = x.by) /\ (x.status = "claimed" => x.by # "nobody")
      BY <2>5, <2>7
    <3>3. queue'[a] # {} => queue[a] # {}
      BY <2>7
    <3> QED BY <2>2, <2>6, <3>1, <3>2, <3>3 DEF RowSound
  <2>9. GivenOnce(a)'
    <3>1. \A x \in queue'[a] : x.by # "nobody"
      BY <2>5, <2>7
    <3> QED BY <2>1, <2>2, <2>6, <3>1 DEF GivenOnce
  <2> QED BY <2>2, <2>4, <2>6, <2>7, <2>8, <2>9, EmbOne DEF EmbInv
<1> QED BY <1>1, <1>2, <1>3, <1>4

LEMMA EmbInvTime ==
  ASSUME EmbInv, (\E a \in Searcher : Srch!LeaseRunsOut(a) \/ Srch!GrowsStale(a)) \/ Srch!prune_queries
  PROVE  EmbInv'
<1>1. ASSUME NEW a \in Searcher, Srch!LeaseRunsOut(a) \/ Srch!GrowsStale(a) PROVE EmbInv'
  <2>1. UNCHANGED <<asks, offers, work>>
    BY <1>1 DEF Srch!LeaseRunsOut, Srch!GrowsStale
  <2>2. ASSUME NEW f, queue' = [queue EXCEPT ![a] = {f[r] : r \in queue[a]}],
               \A r \in queue[a] : /\ f[r] \in QueueRow /\ f[r].status = r.status /\ f[r].by = r.by /\ f[r].answer = r.answer
        PROVE  EmbInv'
    <3>1. \A r \in queue[a] : (r.status = "done" => r.answer = r.by) /\ (r.status = "claimed" => r.by # "nobody")
      BY DEF EmbInv, RowSound
    <3>2. offers' \in [Cred -> SUBSET Searcher] /\ work' \in [Cred -> SUBSET Searcher]
      BY <2>1 DEF EmbInv
    <3> QED BY <2>1, <2>2, <3>1, <3>2, EmbRewrite, SMTT(60)
  <2>3. \A r \in queue[a] : r \in QueueRow
    BY DEF EmbInv, RowSound
  <2>4. CASE Srch!LeaseRunsOut(a)
    <3> DEFINE f == [r \in queue[a] |-> [r EXCEPT !.lapsed = TRUE]]
    <3>1. queue' = [queue EXCEPT ![a] = {f[r] : r \in queue[a]}]
      BY <2>4 DEF Srch!LeaseRunsOut, EmbInv
    <3>2. \A r \in queue[a] : /\ f[r] \in QueueRow /\ f[r].status = r.status /\ f[r].by = r.by /\ f[r].answer = r.answer
      BY <2>3, ZenonT(60) DEF QueueRow
    <3> HIDE DEF f
    <3> QED BY <2>2, <3>1, <3>2
  <2>5. CASE Srch!GrowsStale(a)
    <3> DEFINE f == [r \in queue[a] |-> [r EXCEPT !.stale = TRUE]]
    <3>1. queue' = [queue EXCEPT ![a] = {f[r] : r \in queue[a]}]
      BY <2>5 DEF Srch!GrowsStale, EmbInv
    <3>2. \A r \in queue[a] : /\ f[r] \in QueueRow /\ f[r].status = r.status /\ f[r].by = r.by /\ f[r].answer = r.answer
      BY <2>3, ZenonT(60) DEF QueueRow
    <3> HIDE DEF f
    <3> QED BY <2>2, <3>1, <3>2
  <2> QED BY <1>1, <2>4, <2>5
<1>2. CASE Srch!prune_queries
  <2>1. PICK a \in Searcher : queue' = [queue EXCEPT ![a] = {}] /\ UNCHANGED <<asks, offers, work>>
    BY <1>2 DEF Srch!prune_queries
  <2>2. queue'[a] = {} /\ DOMAIN queue' = Searcher /\ \A b \in Searcher \ {a} : queue'[b] = queue[b]
    BY <2>1 DEF EmbInv
  <2>3. RowSound(a)' /\ GivenOnce(a)'
    BY <2>1, <2>2 DEF RowSound, GivenOnce, EmbInv
  <2> QED BY <2>1, <2>2, <2>3, EmbOne DEF EmbInv
<1> QED BY <1>1, <1>2

LEMMA EmbInvAlways == AppsSpec => [](part = "queue" => EmbInv)
<1>1. AppsInit => (part = "queue" => EmbInv)
  BY DEF AppsInit, Srch!EmbInit, EmbInv, RowSound, GivenOnce
<1>2. ASSUME part = "queue" => EmbInv, [AppsNext]_appsVars PROVE (part = "queue" => EmbInv)'
  <2>1. ASSUME UNCHANGED embVars PROVE EmbInv' = EmbInv
    BY <2>1 DEF embVars, EmbInv, RowSound, GivenOnce
  <2>2. UNCHANGED part /\ (part = "queue" => Srch!EmbNext \/ UNCHANGED embVars)
    BY <1>2 DEF AppsNext, appsVars
  <2>3. ASSUME EmbInv, Srch!EmbNext PROVE EmbInv'
    BY <2>3, EmbInvSearch, EmbInvWorker, EmbInvTime DEF Srch!EmbNext
  <2> QED BY <1>2, <2>1, <2>2, <2>3
<1> QED BY <1>1, <1>2, PTL DEF AppsSpec

(* A step that changes other columns leaves a row with whom it had. *)
LEMMA EmbStays ==
  ASSUME EmbInv, NEW b \in Searcher, NEW f, queue' = [queue EXCEPT ![b] = {f[x] : x \in queue[b]}],
         \A x \in queue[b] : f[x].by = x.by,
         NEW a \in Searcher, NEW r \in queue[a], NEW s \in queue'[a]
  PROVE  s.by = r.by
<1>1. DOMAIN queue = Searcher /\ \A x \in queue[a] : x = r
  BY DEF EmbInv, RowSound
<1>2. CASE a = b
  <2>1. queue'[a] = {f[x] : x \in queue[a]}
    BY <1>1, <1>2
  <2> QED BY <1>1, <1>2, <2>1
<1>3. CASE a # b
  BY <1>1, <1>3
<1> QED BY <1>2, <1>3

(* A step hands a row over only when it is pending or its claimant's lease has run out. *)
LEMMA EmbHandsOver ==
  ASSUME EmbInv, Srch!EmbNext \/ UNCHANGED embVars
  PROVE  Srch!ClaimsRespected
<1> SUFFICES ASSUME NEW a \in Searcher, NEW r \in queue[a], NEW s \in queue'[a], s.by # r.by
             PROVE  r.status = "pending" \/ r.lapsed
  BY DEF Srch!ClaimsRespected
<1>1. RowSound(a) /\ DOMAIN queue = Searcher /\ r \in QueueRow /\ \A x \in queue[a] : x = r
  BY DEF EmbInv, RowSound
<1>2. CASE UNCHANGED queue
  BY <1>1, <1>2
<1>3. ASSUME NEW b \in Searcher, Srch!enqueue_query(b) PROVE r.status = "pending" \/ r.lapsed
  BY <1>1, <1>3 DEF Srch!enqueue_query, RowSound
<1>4. ASSUME NEW b \in Searcher, queue' = [queue EXCEPT ![b] = {}] PROVE r.status = "pending" \/ r.lapsed
  BY <1>1, <1>4
<1>5. ASSUME NEW c \in Cred, Srch!claim_queries(c) PROVE r.status = "pending" \/ r.lapsed
  <2>1. PICK b : \/ UNCHANGED queue
                 \/ Srch!Wins(b) /\ queue' = [queue EXCEPT ![b] = {[x EXCEPT !.status = "claimed", !.by = c, !.lapsed = FALSE] : x \in @}]
    BY <1>5 DEF Srch!claim_queries
  <2>2. CASE b = a /\ Srch!Wins(a)
    BY <1>1, <2>2 DEF Srch!Wins, Srch!Claimable
  <2> QED BY <1>1, <1>2, <2>1, <2>2
<1>6. ASSUME NEW c \in Cred, Srch!submit_query_result(c) PROVE r.status = "pending" \/ r.lapsed
  <2>1. PICK b \in work[c], status \in {"done", "error"} :
          queue' = [queue EXCEPT ![b] = {IF Srch!Accepts(x, c) THEN [x EXCEPT !.status = status, !.answer = c] ELSE x : x \in @}]
    BY <1>6 DEF Srch!submit_query_result
  <2> DEFINE f == [x \in queue[b] |-> IF Srch!Accepts(x, c) THEN [x EXCEPT !.status = status, !.answer = c] ELSE x]
  <2>2. b \in Searcher /\ queue[b] \subseteq QueueRow
    BY <2>1 DEF EmbInv, RowSound
  <2>3. queue' = [queue EXCEPT ![b] = {f[x] : x \in queue[b]}]
    BY <1>1, <2>1, <2>2
  <2>4. \A x \in queue[b] : f[x].by = x.by
    BY <2>2 DEF QueueRow
  <2> HIDE DEF f
  <2> QED BY EmbStays, <2>2, <2>3, <2>4
<1>7. ASSUME NEW b \in Searcher, Srch!LeaseRunsOut(b) \/ Srch!GrowsStale(b) PROVE r.status = "pending" \/ r.lapsed
  <2>1. queue[b] \subseteq QueueRow
    BY DEF EmbInv, RowSound
  <2>2. CASE Srch!LeaseRunsOut(b)
    <3> DEFINE f == [x \in queue[b] |-> [x EXCEPT !.lapsed = TRUE]]
    <3>1. queue' = [queue EXCEPT ![b] = {f[x] : x \in queue[b]}]
      BY <1>1, <2>2, ZenonT(60) DEF Srch!LeaseRunsOut
    <3>2. \A x \in queue[b] : f[x].by = x.by
      BY <2>1 DEF QueueRow
    <3> HIDE DEF f
    <3> QED BY EmbStays, <3>1, <3>2
  <2>3. CASE Srch!GrowsStale(b)
    <3> DEFINE f == [x \in queue[b] |-> [x EXCEPT !.stale = TRUE]]
    <3>1. queue' = [queue EXCEPT ![b] = {f[x] : x \in queue[b]}]
      BY <1>1, <2>3, ZenonT(60) DEF Srch!GrowsStale
    <3>2. \A x \in queue[b] : f[x].by = x.by
      BY <2>1 DEF QueueRow
    <3> HIDE DEF f
    <3> QED BY EmbStays, <3>1, <3>2
  <2> QED BY <1>7, <2>2, <2>3
<1>8. \/ UNCHANGED queue
      \/ \E b \in Searcher : Srch!enqueue_query(b) \/ Srch!LeaseRunsOut(b) \/ Srch!GrowsStale(b) \/ queue' = [queue EXCEPT ![b] = {}]
      \/ \E c \in Cred : Srch!claim_queries(c) \/ Srch!submit_query_result(c)
  BY DEF Srch!EmbNext, Srch!CountQueue, Srch!await_query, Srch!delete_query, Srch!Abandon, Srch!ReadQueue, Srch!WorkerDies,
         Srch!prune_queries, embVars
<1> QED BY <1>2, <1>3, <1>4, <1>5, <1>6, <1>7, <1>8

-----------------------------------------------------------------------------
(* Vectors: the crops.                                                     *)

LEMMA VecCards == ASSUME NEW S PROVE Vec!Cardinality(S) = Cardinality(S)
BY Zenon DEF Vec!Cardinality, Cardinality

(* The members of a finite set of numbers, numbered from one in their order. *)
Rank(t, S) == Cardinality({u \in S : u <= t})

LEMMA RankBounds ==
  ASSUME NEW S, IsFiniteSet(S), S \subseteq Int, NEW t \in S
  PROVE  Rank(t, S) \in 1..Cardinality(S)
<1> DEFINE T == {u \in S : u <= t}
<1>1. t \in T
  <2>1. t \in Int
    OBVIOUS
  <2> QED BY <2>1
<1>2. IsFiniteSet(T) /\ Cardinality(T) <= Cardinality(S)
  BY FS_Subset
<1>3. Cardinality(T) \in Nat /\ Cardinality(S) \in Nat /\ Cardinality(T) # 0
  BY <1>1, <1>2, FS_CardinalityType, FS_EmptySet
<1> QED BY <1>2, <1>3 DEF Rank

LEMMA RanksApart ==
  ASSUME NEW S, IsFiniteSet(S), S \subseteq Int, NEW t \in S, NEW u \in S, Rank(t, S) = Rank(u, S)
  PROVE  t = u
<1>1. ASSUME NEW x \in S, NEW y \in S, x < y PROVE Rank(x, S) # Rank(y, S)
  <2> DEFINE X == {z \in S : z <= x}
             Y == {z \in S : z <= y}
  <2>1. x \in Int /\ y \in Int
    OBVIOUS
  <2>2. X \subseteq Y
    <3>1. ASSUME NEW z \in S, z <= x PROVE z <= y
      <4>1. z \in Int
        OBVIOUS
      <4> QED BY <1>1, <2>1, <3>1, <4>1
    <3> QED BY <3>1
  <2>3. y \in Y /\ y \notin X
    BY <1>1, <2>1
  <2>4. IsFiniteSet(Y)
    BY FS_Subset
  <2>5. Cardinality(X) # Cardinality(Y)
    BY <2>2, <2>3, <2>4, FS_Subset
  <2> QED BY <2>5 DEF Rank
<1>2. t \in Int /\ u \in Int
  OBVIOUS
<1> QED BY <1>1, <1>2

VecRow == [id : Nat, cam : VecCam, frame : VecFrame \cup {Vec!NoFrame}, track : Vec!VecTrack, live : BOOLEAN]
VecCall == [pc : {"idle", "thumbs", "attribute"}, cam : VecCam \cup {"none"}, todo : SUBSET (Nat \ {0}), cur : Nat]

(* The rows are numbered from one on, each with a number of its own. *)
RowsNumbered ==
    /\ rows \in SUBSET VecRow /\ IsFiniteSet(rows)
    /\ \A r \in rows : r.id \in 1..Cardinality(rows)
    /\ \A r, s \in rows : r.id = s.id => r = s

HasRow(S, i, c) == \E r \in S : r.id = i /\ r.cam = c

(* The crops a request is about. *)
InHand(v) == calls[v].todo \cup ({calls[v].cur} \ {0})

CallsSound ==
    /\ calls \in [VecCaller -> VecCall]
    /\ \A v \in VecCaller :
          /\ calls[v].pc # "attribute" => calls[v].cur = 0
          /\ calls[v].pc = "attribute" => calls[v].cur # 0
          /\ calls[v].pc = "idle" => calls[v].todo = {}
          /\ \A i \in InHand(v) : HasRow(rows, i, calls[v].cam)

PrunerSound == pruner \in [pc : {"idle", "unlink", "delete"}, batch : SUBSET (1..Cardinality(rows))]

(* Nothing failed: no crop without a row, none without its owner but those in hand. *)
CropsWhole ==
    vecErrs = 0 =>
        /\ crops \subseteq Vec!LiveIds
        /\ \A v \in VecCaller : InHand(v) \subseteq Vec!LiveIds
        /\ pruner.pc # "idle" => \A v \in VecCaller : pruner.batch \cap InHand(v) = {}
        /\ pruner.pc = "delete" => pruner.batch \cap crops = {}
        /\ \A i \in crops : (\E o \in owners : o.id = i) \/ \E v \in VecCaller : i \in InHand(v)

CropInv ==
    /\ RowsNumbered /\ CallsSound /\ PrunerSound /\ CropsWhole
    /\ \A o \in owners : HasRow(rows, o.id, o.cam)
    /\ vecErrs \in Nat

LEMMA LiveIdsAre == \A i : i \in Vec!LiveIds <=> \E r \in rows : r.live /\ r.id = i
BY DEF Vec!LiveIds, Vec!Live

LEMMA YoungAre == \A i \in Nat \ {0} : i \in Vec!Young <=> \E v \in VecCaller : i \in InHand(v)
BY DEF Vec!Young, InHand

(* A batch comes in: its rows have the numbers after the last. *)
LEMMA CropInvIngest ==
  ASSUME CropInv, NEW v \in VecCaller, Vec!ingest_batch(v)
  PROVE  CropInv'
<1> USE DEF CropInv
<1>1. PICK cam \in VecCam, fr \in VecFrame \cup {Vec!NoFrame}, ts \in SUBSET Vec!VecTrack, display \in BOOLEAN :
        LET n == Vec!Cardinality(rows)
            ids == [t \in ts |-> n + Vec!Cardinality({u \in ts : u <= t})]
            new == {[id |-> ids[t], cam |-> cam, frame |-> fr, track |-> t, live |-> ~ Vec!Known(cam, fr, t)] : t \in ts}
        IN /\ ts # {} /\ n + Vec!Cardinality(ts) <= MaxStored
           /\ rows' = rows \cup new
           /\ calls' = [calls EXCEPT ![v] = [pc |-> "thumbs", cam |-> cam, cur |-> 0,
                                             todo |-> IF display THEN {ids[t] : t \in Vec!Inserted(cam, fr, ts)} ELSE {}]]
  BY Zenon DEF Vec!ingest_batch
<1>2. calls[v].pc = "idle" /\ UNCHANGED <<crops, owners, pruner, vecErrs>>
  BY DEF Vec!ingest_batch, Vec!VecFine
<1> DEFINE n == Cardinality(rows)
           ids == [t \in ts |-> n + Rank(t, ts)]
           row == [t \in ts |-> [id |-> ids[t], cam |-> cam, frame |-> fr, track |-> t, live |-> ~ Vec!Known(cam, fr, t)]]
           new == {row[t] : t \in ts}
           todo == IF display THEN {ids[t] : t \in Vec!Inserted(cam, fr, ts)} ELSE {}
<1>3. rows' = rows \cup new
  BY <1>1, VecCards DEF Rank
<1>4. calls' = [calls EXCEPT ![v] = [pc |-> "thumbs", cam |-> cam, cur |-> 0, todo |-> todo]]
  BY <1>1, VecCards, ZenonT(60) DEF Rank
<1>5. IsFiniteSet(ts) /\ ts \subseteq Int
  <2>1. IsFiniteSet(1..2)
    <3>1. 1 \in Int /\ 2 \in Int
      OBVIOUS
    <3> QED BY <3>1, FS_Interval
  <2>2. ts \subseteq 1..2
    BY DEF Vec!VecTrack
  <2>3. IsFiniteSet(ts)
    BY <2>1, <2>2, FS_Subset
  <2> QED BY <2>2, <2>3
<1>6. n \in Nat /\ IsFiniteSet(rows) /\ Cardinality(ts) \in Nat
  BY <1>5, FS_CardinalityType DEF RowsNumbered
<1>7. \A t \in ts : Rank(t, ts) \in 1..Cardinality(ts)
  BY <1>5, RankBounds
<1>8. \A t, u \in ts : Rank(t, ts) = Rank(u, ts) => t = u
  BY <1>5, RanksApart
<1>9. \A t \in ts : ids[t] \in (n + 1)..(n + Cardinality(ts)) /\ ids[t] \in Nat \ {0}
  BY <1>6, <1>7
<1>10. \A t, u \in ts : ids[t] = ids[u] => t = u
  <2>1. ASSUME NEW t \in ts, NEW u \in ts, ids[t] = ids[u] PROVE t = u
    <3>1. n + Rank(t, ts) = n + Rank(u, ts) /\ Rank(t, ts) \in Int /\ Rank(u, ts) \in Int
      BY <1>7, <1>6, <2>1
    <3>2. Rank(t, ts) = Rank(u, ts)
      BY <1>6, <3>1
    <3> QED BY <1>8, <3>2
  <2> QED BY <2>1
<1> HIDE DEF n, ids
<1>11. \A t \in ts : /\ row[t] \in VecRow /\ row[t].id = ids[t] /\ row[t].cam = cam /\ row[t].track = t
                         /\ row[t].live = ~ Vec!Known(cam, fr, t)
  BY <1>9 DEF VecRow
<1> HIDE DEF row
<1>12. IsFiniteSet(new) /\ Cardinality(new) = Cardinality(ts)
  <2> DEFINE f == [t \in ts |-> row[t]]
  <2>1. f \in Surjection(ts, new)
    BY DEF Surjection
  <2>2. \A t, u \in ts : row[t] = row[u] => t = u
    BY <1>11
  <2>3. f \in Injection(ts, new)
    BY <2>2 DEF Injection, IsInjective
  <2> QED BY <1>5, <2>1, <2>3, FS_Surjection
<1>13. rows \cap new = {}
  <2>1. \A r \in rows : r.id <= n /\ r.id \in Nat
    BY <1>6 DEF RowsNumbered, n
  <2>2. \A t \in ts : ids[t] > n
    BY <1>6, <1>9
  <2>3. \A r \in rows, t \in ts : r.id # ids[t]
    BY <1>6, <1>9, <2>1, <2>2
  <2> QED BY <1>11, <2>3
<1>14. IsFiniteSet(rows') /\ Cardinality(rows') = n + Cardinality(ts)
  <2>1. Cardinality(rows \cap new) = 0
    BY <1>13, FS_EmptySet, ZenonT(60)
  <2>2. IsFiniteSet(rows \cup new) /\ Cardinality(rows \cup new) = Cardinality(rows) + Cardinality(new) - Cardinality(rows \cap new)
    BY <1>6, <1>12, FS_Union
  <2> QED BY <1>3, <1>6, <1>12, <1>13, <2>1, <2>2 DEF n
<1>15. RowsNumbered'
  <2>1. rows' \in SUBSET VecRow
    BY <1>3, <1>11 DEF RowsNumbered
  <2>2. ASSUME NEW r \in rows' PROVE r.id \in 1..Cardinality(rows')
    <3>1. CASE r \in rows
      BY <1>6, <1>14, <3>1 DEF RowsNumbered, n
    <3>2. CASE r \in new
      BY <1>6, <1>9, <1>11, <1>14, <3>2
    <3> QED BY <1>3, <3>1, <3>2
  <2>3. ASSUME NEW r \in rows', NEW s \in rows', r.id = s.id PROVE r = s
    <3>1. \A x \in rows : x.id \notin (n + 1)..(n + Cardinality(ts))
      BY <1>6 DEF RowsNumbered, n
    <3>2. \A x \in new : x.id \in (n + 1)..(n + Cardinality(ts))
      BY <1>9, <1>11
    <3>3. \A x, y \in new : x.id = y.id => x = y
      BY <1>10, <1>11
    <3>4. \A x, y \in rows : x.id = y.id => x = y
      BY DEF RowsNumbered
    <3> QED BY <1>3, <2>3, <3>1, <3>2, <3>3, <3>4
  <2> QED BY <1>14, <2>1, <2>2, <2>3 DEF RowsNumbered
<1>16. \A i, c : HasRow(rows, i, c) => HasRow(rows', i, c)
  BY <1>3 DEF HasRow
<1>17. \A i \in todo : i \in Nat \ {0} /\ HasRow(rows', i, cam) /\ i \in Vec!LiveIds'
  <2>1. ASSUME NEW t \in Vec!Inserted(cam, fr, ts)
        PROVE  ids[t] \in Nat \ {0} /\ HasRow(rows', ids[t], cam) /\ ids[t] \in Vec!LiveIds'
    <3>1. t \in ts /\ ~ Vec!Known(cam, fr, t)
      BY DEF Vec!Inserted
    <3>2. row[t] \in rows' /\ row[t].id = ids[t] /\ row[t].cam = cam /\ row[t].live
      BY <1>3, <1>11, <3>1
    <3>3. ids[t] \in Vec!LiveIds'
      BY <3>2 DEF Vec!LiveIds, Vec!Live
    <3> QED BY <1>9, <3>1, <3>2, <3>3 DEF HasRow
  <2> QED BY <2>1
<1>18. \A i \in todo : i \in (n + 1)..(n + Cardinality(ts))
  <2>1. \A t \in Vec!Inserted(cam, fr, ts) : t \in ts
    BY DEF Vec!Inserted
  <2> QED BY <1>9, <2>1
<1> HIDE DEF todo
<1>19. calls'[v] = [pc |-> "thumbs", cam |-> cam, cur |-> 0, todo |-> todo] /\ \A u \in VecCaller \ {v} : calls'[u] = calls[u]
  BY <1>4 DEF CallsSound
<1>20. InHand(v)' = todo /\ \A u \in VecCaller \ {v} : InHand(u)' = InHand(u)
  BY <1>19 DEF InHand
<1>21. CallsSound'
  <2>1. todo \subseteq Nat \ {0}
    BY <1>17
  <2>2. [pc |-> "thumbs", cam |-> cam, cur |-> 0, todo |-> todo] \in VecCall
    BY <2>1 DEF VecCall
  <2>3. calls' \in [VecCaller -> VecCall]
    BY <1>4, <2>2 DEF CallsSound
  <2>4. \A i \in InHand(v)' : HasRow(rows', i, cam)
    BY <1>17, <1>20
  <2>5. ASSUME NEW u \in VecCaller \ {v}, NEW i \in InHand(u)' PROVE HasRow(rows', i, calls'[u].cam)
    BY <1>16, <1>19, <1>20, <2>5 DEF CallsSound
  <2> QED BY <1>19, <2>3, <2>4, <2>5 DEF CallsSound
<1>22. PrunerSound'
  <2>1. 1..Cardinality(rows) \subseteq 1..Cardinality(rows')
    BY <1>6, <1>14 DEF n
  <2> QED BY <1>2, <2>1 DEF PrunerSound
<1>23. CropsWhole'
  <2> SUFFICES ASSUME vecErrs = 0
               PROVE  /\ crops \subseteq Vec!LiveIds'
                      /\ \A u \in VecCaller : InHand(u)' \subseteq Vec!LiveIds'
                      /\ pruner.pc # "idle" => \A u \in VecCaller : pruner.batch \cap InHand(u)' = {}
                      /\ pruner.pc = "delete" => pruner.batch \cap crops = {}
                      /\ \A i \in crops : (\E o \in owners : o.id = i) \/ \E u \in VecCaller : i \in InHand(u)'
    BY <1>2 DEF CropsWhole
  <2>1. Vec!LiveIds \subseteq Vec!LiveIds'
    BY <1>3 DEF Vec!LiveIds, Vec!Live
  <2>2. InHand(v) = {} \/ pruner.pc = pruner.pc
    OBVIOUS
  <2>3. \A i \in pruner.batch : i \in Nat /\ i <= n
    BY <1>6 DEF PrunerSound, n
  <2>4. pruner.batch \cap todo = {}
    BY <1>6, <1>18, <2>3
  <2>5. \A u \in VecCaller : InHand(u)' \subseteq Vec!LiveIds'
    BY <1>17, <1>20, <2>1 DEF CropsWhole
  <2>6. pruner.pc # "idle" => \A u \in VecCaller : pruner.batch \cap InHand(u)' = {}
    BY <1>20, <2>4 DEF CropsWhole
  <2>7. \A i \in crops : (\E o \in owners : o.id = i) \/ \E u \in VecCaller : i \in InHand(u)'
    <3>1. ASSUME NEW i \in InHand(v) PROVE FALSE
      BY <1>2, <3>1 DEF CallsSound, InHand, VecCall
    <3> QED BY <1>20, <3>1 DEF CropsWhole
  <2> QED BY <2>1, <2>5, <2>6, <2>7 DEF CropsWhole
<1> QED BY <1>2, <1>15, <1>16, <1>21, <1>22, <1>23

HandOf(c) == c.todo \cup ({c.cur} \ {0})

LEMMA CallWith ==
  ASSUME NEW c \in VecCall, NEW p, NEW t, NEW k
  PROVE  /\ [c EXCEPT !.pc = p, !.cur = k] = [pc |-> p, cam |-> c.cam, todo |-> c.todo, cur |-> k]
         /\ [c EXCEPT !.todo = t] = [pc |-> c.pc, cam |-> c.cam, todo |-> t, cur |-> c.cur]
<1> DEFINE y == [c EXCEPT !.pc = p, !.cur = k]
           z == [c EXCEPT !.todo = t]
<1>2. y \in [pc : {p}, cam : {c.cam}, todo : {c.todo}, cur : {k}]
  BY DEF VecCall
<1>3. z \in [pc : {c.pc}, cam : {c.cam}, todo : {t}, cur : {c.cur}]
  BY DEF VecCall
<1> HIDE DEF y, z
<1>5. y = [pc |-> p, cam |-> c.cam, todo |-> c.todo, cur |-> k]
  BY <1>2
<1>6. z = [pc |-> c.pc, cam |-> c.cam, todo |-> t, cur |-> c.cur]
  BY <1>3
<1> QED BY <1>5, <1>6 DEF y, z

(* One request goes on, and the rows stay. *)
LEMMA CallGoesOn ==
  ASSUME CallsSound, UNCHANGED rows, NEW v \in VecCaller, NEW c \in VecCall,
         calls' = [calls EXCEPT ![v] = c],
         c.pc # "attribute" => c.cur = 0, c.pc = "attribute" => c.cur # 0, c.pc = "idle" => c.todo = {},
         \A i \in HandOf(c) : HasRow(rows, i, c.cam)
  PROVE  CallsSound' /\ InHand(v)' = HandOf(c) /\ \A u \in VecCaller \ {v} : InHand(u)' = InHand(u)
<1>1. calls'[v] = c /\ \A u \in VecCaller \ {v} : calls'[u] = calls[u]
  BY DEF CallsSound
<1>2. InHand(v)' = HandOf(c) /\ \A u \in VecCaller \ {v} : InHand(u)' = InHand(u)
  BY <1>1 DEF InHand, HandOf
<1>3. calls' \in [VecCaller -> VecCall]
  BY DEF CallsSound
<1>4. ASSUME NEW u \in VecCaller
      PROVE  /\ calls'[u].pc # "attribute" => calls'[u].cur = 0
             /\ calls'[u].pc = "attribute" => calls'[u].cur # 0
             /\ calls'[u].pc = "idle" => calls'[u].todo = {}
             /\ \A i \in InHand(u)' : HasRow(rows', i, calls'[u].cam)
  <2>1. CASE u = v
    BY <1>1, <1>2, <2>1
  <2>2. CASE u # v
    BY <1>1, <1>2, <2>2 DEF CallsSound
  <2> QED BY <2>1, <2>2
<1> QED BY <1>2, <1>3, <1>4 DEF CallsSound

LEMMA CropInvThumb ==
  ASSUME CropInv, NEW v \in VecCaller, Vec!WriteThumb(v)
  PROVE  CropInv'
<1> USE DEF CropInv
<1> DEFINE c == calls[v]
<1>1. c \in VecCall /\ c.pc = "thumbs" /\ c.cur = 0 /\ UNCHANGED <<rows, owners, pruner>>
  BY DEF Vec!WriteThumb, CallsSound
<1>2. InHand(v) = c.todo /\ c.todo \subseteq Nat \ {0}
  BY <1>1 DEF InHand, VecCall
<1>3. \A i \in c.todo : HasRow(rows, i, c.cam)
  BY <1>2 DEF CallsSound
<1>4. RowsNumbered' /\ PrunerSound' /\ (\A o \in owners' : HasRow(rows', o.id, o.cam)) /\ UNCHANGED Vec!LiveIds
  BY <1>1 DEF RowsNumbered, PrunerSound, Vec!LiveIds, Vec!Live
<1>5. CASE c.todo = {} /\ calls' = [calls EXCEPT ![v] = Vec!NoCall] /\ UNCHANGED crops /\ Vec!VecFine
  <2>1. Vec!NoCall \in VecCall /\ HandOf(Vec!NoCall) = {} /\ Vec!NoCall.cur = 0 /\ Vec!NoCall.todo = {} /\ Vec!NoCall.pc = "idle"
    BY DEF VecCall, Vec!NoCall, HandOf
  <2>2. CallsSound' /\ InHand(v)' = {} /\ \A u \in VecCaller \ {v} : InHand(u)' = InHand(u)
    BY <1>1, <1>5, <2>1, CallGoesOn
  <2>3. \A u \in VecCaller : InHand(u)' = InHand(u)
    BY <1>2, <1>5, <2>2, SMTT(60)
  <2>4. CropsWhole'
    BY <1>1, <1>4, <1>5, <2>3 DEF CropsWhole, Vec!VecFine
  <2> QED BY <1>4, <1>5, <2>2, <2>4 DEF Vec!VecFine
<1>6. ASSUME NEW i \in c.todo, crops' = crops \cup {i}, Vec!VecFine,
             calls' = [calls EXCEPT ![v] = [c EXCEPT !.pc = "attribute", !.todo = @ \ {i}, !.cur = i]]
      PROVE  CropInv'
  <2> DEFINE d == [pc |-> "attribute", cam |-> c.cam, todo |-> c.todo \ {i}, cur |-> i]
  <2>1. [c EXCEPT !.pc = "attribute", !.todo = c.todo \ {i}, !.cur = i] = d
    <3> DEFINE x == [c EXCEPT !.pc = "attribute", !.todo = c.todo \ {i}, !.cur = i]
    <3>1. x \in [pc : {"attribute"}, cam : {c.cam}, todo : {c.todo \ {i}}, cur : {i}]
      BY <1>1 DEF VecCall
    <3> HIDE DEF x, c
    <3>2. x = d
      BY <3>1
    <3> QED BY <3>2 DEF x
  <2>2. d \in VecCall /\ HandOf(d) = c.todo /\ d.cur # 0
    BY <1>1, <1>2, <1>6 DEF VecCall, HandOf
  <2>3. CallsSound' /\ InHand(v)' = c.todo /\ \A u \in VecCaller \ {v} : InHand(u)' = InHand(u)
    <3>1. calls' = [calls EXCEPT ![v] = d]
      BY <1>6, <2>1, ZenonT(60)
    <3> HIDE DEF d, c
    <3>2. d.pc = "attribute" /\ d.cam = c.cam
      BY DEF d
    <3>3. \A j \in HandOf(d) : HasRow(rows, j, d.cam)
      BY <1>3, <2>2, <3>2
    <3> QED BY <1>1, <2>2, <3>1, <3>2, <3>3, CallGoesOn
  <2>4. \A u \in VecCaller : InHand(u)' = InHand(u)
    BY <1>2, <2>3
  <2>5. CropsWhole'
    <3>1. vecErrs = 0 => i \in Vec!LiveIds /\ (pruner.pc = "delete" => i \notin pruner.batch)
      BY <1>2, <1>6 DEF CropsWhole
    <3> QED BY <1>1, <1>2, <1>4, <1>6, <2>4, <3>1 DEF CropsWhole, Vec!VecFine
  <2> QED BY <1>4, <1>6, <2>3, <2>5 DEF Vec!VecFine
<1>7. ASSUME NEW lost, Vec!VecFails, calls' = [calls EXCEPT ![v].todo = @ \ lost], UNCHANGED crops
      PROVE  CropInv'
  <2> DEFINE d == [pc |-> "thumbs", cam |-> c.cam, todo |-> c.todo \ lost, cur |-> 0]
  <2>1. calls' = [calls EXCEPT ![v] = d]
    <3>1. [c EXCEPT !.todo = c.todo \ lost] = d
      BY <1>1, CallWith
    <3>2. calls' = [calls EXCEPT ![v] = [c EXCEPT !.todo = c.todo \ lost]]
      BY <1>7
    <3> QED BY <3>1, <3>2
  <2>2. d \in VecCall /\ HandOf(d) = c.todo \ lost
    BY <1>1, <1>2 DEF VecCall, HandOf
  <2>3. CallsSound'
    <3> HIDE DEF d, c
    <3>1. d.pc = "thumbs" /\ d.cur = 0 /\ d.cam = c.cam
      BY DEF d
    <3>2. \A j \in HandOf(d) : HasRow(rows, j, d.cam)
      BY <1>3, <2>2, <3>1
    <3> QED BY <1>1, <2>1, <2>2, <3>1, <3>2, CallGoesOn
  <2>4. CropsWhole' /\ vecErrs' \in Nat
    BY <1>7 DEF CropsWhole, Vec!VecFails
  <2> QED BY <1>4, <2>3, <2>4
<1> QED BY <1>5, <1>6, <1>7 DEF Vec!WriteThumb

LEMMA CropInvAttribute ==
  ASSUME CropInv, NEW v \in VecCaller, Vec!attribute(v)
  PROVE  CropInv'
<1> USE DEF CropInv
<1> DEFINE c == calls[v]
           d == [pc |-> "thumbs", cam |-> c.cam, todo |-> c.todo, cur |-> 0]
<1>1. c \in VecCall /\ c.pc = "attribute" /\ c.cur \in Nat \ {0} /\ UNCHANGED <<rows, crops, pruner>>
  BY DEF Vec!attribute, CallsSound, VecCall
<1>2. InHand(v) = c.todo \cup {c.cur} /\ c.todo \subseteq Nat \ {0}
  BY <1>1 DEF InHand, VecCall
<1>3. \A i \in c.todo \cup {c.cur} : HasRow(rows, i, c.cam)
  BY <1>2 DEF CallsSound
<1>4. RowsNumbered' /\ PrunerSound' /\ UNCHANGED Vec!LiveIds
  BY <1>1 DEF RowsNumbered, PrunerSound, Vec!LiveIds, Vec!Live
<1>5. calls' = [calls EXCEPT ![v] = d]
  <2>1. [c EXCEPT !.pc = "thumbs", !.cur = 0] = d
    BY <1>1, CallWith
  <2>2. calls' = [calls EXCEPT ![v] = [c EXCEPT !.pc = "thumbs", !.cur = 0]]
    BY DEF Vec!attribute
  <2> QED BY <2>1, <2>2
<1>6. d \in VecCall /\ HandOf(d) = c.todo
  BY <1>1, <1>2 DEF VecCall, HandOf
<1>7. CallsSound' /\ InHand(v)' = c.todo /\ \A u \in VecCaller \ {v} : InHand(u)' = InHand(u)
  <2>1. d.pc = "thumbs" /\ d.cur = 0 /\ d.cam = c.cam
    OBVIOUS
  <2> HIDE DEF d, c
  <2>2. \A j \in HandOf(d) : HasRow(rows, j, d.cam)
    BY <1>3, <1>6, <2>1
  <2> QED BY <1>1, <1>5, <1>6, <2>1, <2>2, CallGoesOn
<1>8. CASE owners' = owners \cup {[id |-> c.cur, cam |-> c.cam]} /\ Vec!VecFine
  <2>1. \A o \in owners' : HasRow(rows', o.id, o.cam)
    BY <1>1, <1>3, <1>8
  <2>2. CropsWhole'
    <3> SUFFICES ASSUME vecErrs = 0
                 PROVE  /\ crops \subseteq Vec!LiveIds
                        /\ \A u \in VecCaller : InHand(u)' \subseteq Vec!LiveIds
                        /\ pruner.pc # "idle" => \A u \in VecCaller : pruner.batch \cap InHand(u)' = {}
                        /\ pruner.pc = "delete" => pruner.batch \cap crops = {}
                        /\ \A i \in crops : (\E o \in owners' : o.id = i) \/ \E u \in VecCaller : i \in InHand(u)'
      BY <1>1, <1>4, <1>8 DEF CropsWhole, Vec!VecFine
    <3>1. \A u \in VecCaller : InHand(u)' \subseteq InHand(u)
      BY <1>2, <1>7
    <3>2. ASSUME NEW i \in crops PROVE (\E o \in owners' : o.id = i) \/ \E u \in VecCaller : i \in InHand(u)'
      <4>1. CASE i = c.cur
        <5>1. [id |-> c.cur, cam |-> c.cam] \in owners' /\ [id |-> c.cur, cam |-> c.cam].id = c.cur
          BY <1>8
        <5> QED BY <4>1, <5>1
      <4>2. CASE i # c.cur
        BY <1>2, <1>7, <1>8, <4>2 DEF CropsWhole
      <4> QED BY <4>1, <4>2
    <3> QED BY <3>1, <3>2 DEF CropsWhole
  <2> QED BY <1>4, <1>7, <1>8, <2>1, <2>2 DEF Vec!VecFine
<1>9. CASE UNCHANGED owners /\ Vec!VecFails
  <2>1. CropsWhole' /\ vecErrs' \in Nat
    BY <1>9 DEF CropsWhole, Vec!VecFails
  <2> QED BY <1>1, <1>4, <1>7, <1>9, <2>1
<1> QED BY <1>8, <1>9 DEF Vec!attribute

(* What the steps of the sweeps leave alone. *)
LEMMA CallsStay ==
  ASSUME CallsSound, UNCHANGED calls, \A i, c : HasRow(rows, i, c) => HasRow(rows', i, c)
  PROVE  CallsSound' /\ \A v \in VecCaller : InHand(v)' = InHand(v)
<1>1. \A v \in VecCaller : InHand(v)' = InHand(v)
  BY DEF InHand
<1>2. ASSUME NEW v \in VecCaller, NEW i \in InHand(v)' PROVE HasRow(rows', i, calls'[v].cam)
  BY <1>1, <1>2 DEF CallsSound
<1> QED BY <1>1, <1>2 DEF CallsSound

LEMMA CropInvSelect ==
  ASSUME CropInv, Vec!SelectRows
  PROVE  CropInv'
<1> USE DEF CropInv
<1>1. PICK k \in Vec!LiveIds :
        LET batch == {i \in Vec!LiveIds : i <= k}
        IN /\ pruner' = [pc |-> "unlink", batch |-> batch]
           /\ IF batch \cap Vec!Young = {} THEN Vec!VecFine ELSE Vec!VecFails
  BY Zenon DEF Vec!SelectRows
<1> DEFINE batch == {i \in Vec!LiveIds : i <= k}
<1>2. UNCHANGED <<rows, crops, owners, calls>>
  BY DEF Vec!SelectRows
<1>3. batch \subseteq 1..Cardinality(rows) /\ Cardinality(rows) \in Nat
  BY FS_CardinalityType DEF RowsNumbered, Vec!LiveIds, Vec!Live
<1>4. PrunerSound'
  BY <1>1, <1>2, <1>3 DEF PrunerSound
<1>5. CallsSound' /\ \A v \in VecCaller : InHand(v)' = InHand(v)
  <2>1. \A i, c : HasRow(rows, i, c) => HasRow(rows', i, c)
    BY <1>2
  <2> QED BY <1>2, <2>1, CallsStay
<1>6. RowsNumbered' /\ (\A o \in owners' : HasRow(rows', o.id, o.cam)) /\ UNCHANGED Vec!LiveIds
  BY <1>2 DEF RowsNumbered, Vec!LiveIds, Vec!Live
<1>7. CASE batch \cap Vec!Young = {}
  <2>1. UNCHANGED vecErrs
    BY <1>1, <1>7 DEF Vec!VecFine
  <2>2. \A v \in VecCaller : batch \cap InHand(v) = {}
    <3>1. \A i \in batch : i \in Nat \ {0}
      BY <1>3
    <3> HIDE DEF batch
    <3> QED BY <1>7, <3>1, YoungAre
  <2>3. CropsWhole'
    BY <1>1, <1>2, <1>5, <1>6, <2>1, <2>2 DEF CropsWhole
  <2> QED BY <1>4, <1>5, <1>6, <2>1, <2>3
<1>8. CASE batch \cap Vec!Young # {}
  <2>1. CropsWhole' /\ vecErrs' \in Nat
    BY <1>1, <1>8 DEF CropsWhole, Vec!VecFails
  <2> QED BY <1>4, <1>5, <1>6, <2>1
<1> QED BY <1>7, <1>8

LEMMA CropInvUnlink ==
  ASSUME CropInv, Vec!UnlinkCrops
  PROVE  CropInv'
<1> USE DEF CropInv
<1>1. pruner.pc = "unlink" /\ pruner' = [pruner EXCEPT !.pc = "delete"] /\ UNCHANGED <<rows, owners, calls>>
  BY DEF Vec!UnlinkCrops
<1>2. pruner'.pc = "delete" /\ pruner'.batch = pruner.batch /\ PrunerSound'
  BY <1>1 DEF PrunerSound
<1>3. CallsSound' /\ \A v \in VecCaller : InHand(v)' = InHand(v)
  <2>1. \A i, c : HasRow(rows, i, c) => HasRow(rows', i, c)
    BY <1>1
  <2> QED BY <1>1, <2>1, CallsStay
<1>4. RowsNumbered' /\ (\A o \in owners' : HasRow(rows', o.id, o.cam)) /\ UNCHANGED Vec!LiveIds
  BY <1>1 DEF RowsNumbered, Vec!LiveIds, Vec!Live
<1>5. CASE crops' = crops \ pruner.batch /\ Vec!VecFine
  <2>1. CropsWhole'
    BY <1>1, <1>2, <1>3, <1>4, <1>5 DEF CropsWhole, Vec!VecFine
  <2> QED BY <1>2, <1>3, <1>4, <1>5, <2>1 DEF Vec!VecFine
<1>6. CASE Vec!VecFails
  <2>1. CropsWhole' /\ vecErrs' \in Nat
    BY <1>6 DEF CropsWhole, Vec!VecFails
  <2> QED BY <1>2, <1>3, <1>4, <2>1
<1> QED BY <1>5, <1>6 DEF Vec!UnlinkCrops

LEMMA CropInvDelete ==
  ASSUME CropInv, Vec!DeleteRows
  PROVE  CropInv'
<1> USE DEF CropInv
<1>1. pruner.pc = "delete" /\ pruner' = Vec!NoPrune /\ UNCHANGED <<crops, owners, calls>>
  BY DEF Vec!DeleteRows
<1>2. pruner'.pc = "idle" /\ PrunerSound'
  BY <1>1 DEF PrunerSound, Vec!NoPrune
<1>3. CASE rows' = {[r EXCEPT !.live = r.live /\ r.id \notin pruner.batch] : r \in rows} /\ Vec!VecFine
  <2> DEFINE f == [r \in rows |-> [r EXCEPT !.live = r.live /\ r.id \notin pruner.batch]]
  <2>1. \A r \in rows : /\ f[r] \in VecRow /\ f[r].id = r.id /\ f[r].cam = r.cam
                        /\ f[r].live = (r.live /\ r.id \notin pruner.batch)
    <3>1. ASSUME NEW r \in rows
          PROVE  /\ f[r] \in VecRow /\ f[r].id = r.id /\ f[r].cam = r.cam
                 /\ f[r].live = (r.live /\ r.id \notin pruner.batch)
      <4>1. r \in VecRow
        BY DEF RowsNumbered
      <4> QED BY <4>1 DEF VecRow
    <3> QED BY <3>1, ZenonT(60)
  <2>2. rows' = {f[r] : r \in rows}
    BY <1>3
  <2> HIDE DEF f
  <2>3. IsFiniteSet(rows') /\ Cardinality(rows') = Cardinality(rows)
    <3> DEFINE g == [r \in rows |-> f[r]]
    <3>1. \A r, s \in rows : f[r] = f[s] => r = s
      BY <2>1 DEF RowsNumbered
    <3>2. g \in Surjection(rows, rows')
      BY <2>2 DEF Surjection
    <3>3. g \in Injection(rows, rows')
      BY <2>2, <3>1 DEF Injection, IsInjective
    <3>4. IsFiniteSet(rows)
      BY DEF RowsNumbered
    <3> QED BY <3>2, <3>3, <3>4, FS_Surjection
  <2>4. RowsNumbered'
    <3>1. \A r \in rows' : r.id \in 1..Cardinality(rows')
      BY <2>1, <2>2, <2>3 DEF RowsNumbered
    <3>2. \A r, s \in rows' : r.id = s.id => r = s
      <4>1. ASSUME NEW r \in rows, NEW s \in rows, f[r].id = f[s].id PROVE f[r] = f[s]
        BY <2>1, <4>1 DEF RowsNumbered
      <4> QED BY <2>2, <4>1
    <3> QED BY <2>1, <2>2, <2>3, <3>1, <3>2 DEF RowsNumbered
  <2>5. \A i, c : HasRow(rows, i, c) => HasRow(rows', i, c)
    BY <2>1, <2>2 DEF HasRow
  <2>6. CallsSound' /\ \A v \in VecCaller : InHand(v)' = InHand(v)
    BY <1>1, <2>5, CallsStay
  <2>7. \A i \in Vec!LiveIds : i \notin pruner.batch => i \in Vec!LiveIds'
    <3>1. ASSUME NEW r \in rows, r.live, r.id \notin pruner.batch PROVE r.id \in Vec!LiveIds'
      <4>1. f[r] \in rows' /\ f[r].live /\ f[r].id = r.id
        BY <2>1, <2>2, <3>1
      <4> QED BY <4>1 DEF Vec!LiveIds, Vec!Live
    <3> QED BY <3>1 DEF Vec!LiveIds, Vec!Live
  <2>8. CropsWhole'
    BY <1>1, <1>2, <1>3, <2>6, <2>7 DEF CropsWhole, Vec!VecFine
  <2>9. \A o \in owners' : HasRow(rows', o.id, o.cam)
    BY <1>1, <2>5
  <2> QED BY <1>2, <1>3, <2>4, <2>6, <2>8, <2>9 DEF Vec!VecFine
<1>4. CASE UNCHANGED rows /\ Vec!VecFails
  <2>1. CropsWhole' /\ vecErrs' \in Nat
    BY <1>4 DEF CropsWhole, Vec!VecFails
  <2>2. \A i, c : HasRow(rows, i, c) => HasRow(rows', i, c)
    BY <1>4
  <2>3. CallsSound'
    BY <1>1, <2>2, CallsStay
  <2>4. RowsNumbered' /\ \A o \in owners' : HasRow(rows', o.id, o.cam)
    BY <1>1, <1>4 DEF RowsNumbered
  <2> QED BY <1>2, <2>1, <2>3, <2>4
<1> QED BY <1>3, <1>4 DEF Vec!DeleteRows

LEMMA CropInvSweep ==
  ASSUME CropInv, Vec!sweep_orphans
  PROVE  CropInv'
<1> USE DEF CropInv
<1>1. PICK o \in owners : o.id \notin crops /\ owners' = {p \in owners : p.id # o.id}
  BY DEF Vec!sweep_orphans
<1>2. UNCHANGED <<rows, crops, calls, pruner, vecErrs>>
  BY DEF Vec!sweep_orphans, Vec!VecFine
<1>3. CallsSound' /\ \A v \in VecCaller : InHand(v)' = InHand(v)
  <2>1. \A i, c : HasRow(rows, i, c) => HasRow(rows', i, c)
    BY <1>2
  <2> QED BY <1>2, <2>1, CallsStay
<1>4. RowsNumbered' /\ PrunerSound' /\ (\A p \in owners' : HasRow(rows', p.id, p.cam)) /\ UNCHANGED Vec!LiveIds
  BY <1>1, <1>2 DEF RowsNumbered, PrunerSound, Vec!LiveIds, Vec!Live
<1>5. \A i \in crops : (\E p \in owners : p.id = i) => \E p \in owners' : p.id = i
  BY <1>1
<1>6. CropsWhole'
  BY <1>2, <1>3, <1>4, <1>5 DEF CropsWhole
<1> QED BY <1>2, <1>3, <1>4, <1>6

LEMMA CropInvCrash ==
  ASSUME CropInv, Vec!Crash
  PROVE  CropInv'
<1> USE DEF CropInv
<1>1. Vec!VecFails /\ calls' = [u \in VecCaller |-> Vec!NoCall] /\ pruner' = Vec!NoPrune /\ UNCHANGED <<rows, crops, owners>>
  BY DEF Vec!Crash
<1>2. CallsSound'
  <2>1. Vec!NoCall \in VecCall
    BY DEF VecCall, Vec!NoCall
  <2>2. \A u \in VecCaller : calls'[u] = Vec!NoCall
    BY <1>1
  <2>3. \A u \in VecCaller : InHand(u)' = {}
    BY <2>2 DEF InHand, Vec!NoCall
  <2> QED BY <1>1, <2>1, <2>2, <2>3 DEF CallsSound, Vec!NoCall
<1>3. RowsNumbered' /\ (\A o \in owners' : HasRow(rows', o.id, o.cam))
  BY <1>1 DEF RowsNumbered
<1>4. PrunerSound'
  BY <1>1 DEF PrunerSound, Vec!NoPrune
<1>5. CropsWhole' /\ vecErrs' \in Nat
  BY <1>1 DEF CropsWhole, Vec!VecFails
<1> QED BY <1>2, <1>3, <1>4, <1>5

LEMMA CropInvStep ==
  ASSUME CropInv, Vec!Crops
  PROVE  CropInv'
<1>1. ASSUME NEW v \in VecCaller, Vec!ingest_batch(v) \/ Vec!WriteThumb(v) \/ Vec!attribute(v) PROVE CropInv'
  BY <1>1, CropInvIngest, CropInvThumb, CropInvAttribute
<1> QED BY <1>1, CropInvSelect, CropInvUnlink, CropInvDelete, CropInvSweep, CropInvCrash DEF Vec!Crops

LEMMA CropInvScoped ==
  ASSUME CropInv
  PROVE  Vec!CropsScoped
<1> USE DEF CropInv
<1>1. ASSUME NEW i \in crops PROVE Vec!OwnersOf(i) \subseteq {r.cam : r \in {x \in rows : x.id = i}}
  <2>1. ASSUME NEW o \in owners, o.id = i PROVE o.cam \in {r.cam : r \in {x \in rows : x.id = i}}
    BY <2>1 DEF HasRow
  <2> QED BY <2>1 DEF Vec!OwnersOf
<1>2. ASSUME vecErrs = 0, NEW i \in crops PROVE i \in Vec!LiveIds /\ (Vec!OwnersOf(i) # {} \/ i \in Vec!Young)
  <2>1. i \in Vec!LiveIds /\ ((\E o \in owners : o.id = i) \/ \E v \in VecCaller : i \in InHand(v))
    BY <1>2 DEF CropsWhole
  <2>2. i \in Nat \ {0}
    <3>1. Cardinality(rows) \in Nat
      BY FS_CardinalityType DEF RowsNumbered
    <3> QED BY <2>1, <3>1 DEF RowsNumbered, Vec!LiveIds, Vec!Live
  <2> QED BY <2>1, <2>2, YoungAre DEF Vec!OwnersOf
<1> QED BY <1>1, <1>2 DEF Vec!CropsScoped

-----------------------------------------------------------------------------
(* Vectors: the ranking.                                                   *)

SeenBy(model) == {r \in Vec!Live : model \in {r.model, "any"}}
FitOf(poly, S) == {r \in S : Vec!Score(r) # 0 /\ (poly # 0 => poly \in r.inside)}

(* The k best of the rows of a set that fit. *)
RankedOf(h, poly, k, S) ==
    /\ h \subseteq FitOf(poly, S)
    /\ Cardinality(h) = IF Cardinality(FitOf(poly, S)) < k THEN Cardinality(FitOf(poly, S)) ELSE k
    /\ \A x \in h, r \in FitOf(poly, S) \ h : Vec!Score(r) <= Vec!Score(x)

(* Every row of one set is newer than every row of the other. *)
Newer(S, T) == \A r \in S, x \in T : r.id > x.id

NewestOf(S, n) == {r \in S : Cardinality({x \in S : x.id > r.id}) < n}

SearchRow == [id : Nat, angle : Nat, model : VecModel, inside : {{}, {1}}, live : {TRUE}]

IdsApart(S) == \A r, s \in S : r.id = s.id => r = s

RowsSearched == rows \in SUBSET SearchRow /\ IsFiniteSet(rows) /\ IdsApart(rows)

QueryRec == [pc : {"idle", "embed", "scan"}, k : Nat, poly : Nat, model : VecModel \cup {"any"},
             left : SUBSET rows, n : Nat, heap : SUBSET rows, truncated : BOOLEAN]

Scanned(q) == SeenBy(q.model) \ q.left

QuerySound ==
    /\ query \in QueryRec /\ zone \in Nat
    /\ query.pc # "scan" => query.n = 0 /\ query.heap = {} /\ query.truncated = FALSE
    /\ query.pc = "scan" /\ ~ query.truncated =>
          /\ query.left \subseteq SeenBy(query.model)
          /\ Newer(Scanned(query), query.left) /\ query.n = Cardinality(Scanned(query))
          /\ query.n <= SCAN_CAP
          /\ RankedOf(query.heap, query.poly, query.k, Scanned(query))
    /\ query.pc = "scan" /\ query.truncated =>
          /\ query.left = {}
          /\ RankedOf(query.heap, query.poly, query.k, NewestOf(SeenBy(query.model), SCAN_CAP))

(* What is said of an answer, about the rows there are. *)
BestOf(f, L) ==
        LET within == {r \in L : f.model \in {r.model, "any"}}
            pool == IF f.truncated THEN {r \in within : Vec!Cardinality({x \in within : x.id > r.id}) < SCAN_CAP} ELSE within
            fits == {r \in pool : Vec!Candidate(f, r)}
        IN /\ f.hits \subseteq fits
           /\ Vec!Cardinality(f.hits) = (IF Vec!Cardinality(fits) < f.k THEN Vec!Cardinality(fits) ELSE f.k)
           /\ \A h \in f.hits, r \in fits \ f.hits : Vec!Score(r) <= Vec!Score(h)

BestAmong(F, L) == \A f \in F : BestOf(f, L)

LEMMA BestIsAmong == (Vec!BestRanked <=> BestAmong(found, Vec!Live)) /\ (Vec!BestRanked' <=> BestAmong(found', Vec!Live'))
BY Zenon DEF BestAmong, BestOf, Vec!BestRanked

RankInv == RowsSearched /\ QuerySound /\ Vec!BestRanked

LEMMA NewestAre ==
  ASSUME NEW S, IsFiniteSet(S), \A r \in S : r.id \in Nat, NEW T, T \subseteq S, Newer(T, S \ T)
  PROVE  NewestOf(S, Cardinality(T)) = T
<1>1. IsFiniteSet(T) /\ Cardinality(T) \in Nat
  BY FS_Subset, FS_CardinalityType
<1>2. ASSUME NEW r \in T PROVE Cardinality({x \in S : x.id > r.id}) < Cardinality(T)
  <2> DEFINE X == {x \in S : x.id > r.id}
  <2>1. ASSUME NEW x \in X PROVE x \in T \ {r}
    <3>1. x.id \in Nat /\ r.id \in Nat /\ x.id > r.id
      OBVIOUS
    <3>2. x # r
      BY <3>1
    <3>3. CASE x \notin T
      <4>1. r.id > x.id
        BY <3>3 DEF Newer
      <4> QED BY <3>1, <4>1
    <3> QED BY <3>2, <3>3
  <2>2. X \subseteq T /\ X # T
    BY <2>1
  <2>3. IsFiniteSet(X) /\ Cardinality(X) <= Cardinality(T) /\ Cardinality(X) # Cardinality(T)
    BY <1>1, <2>2, FS_Subset
  <2>4. Cardinality(X) \in Nat
    BY <2>3, FS_CardinalityType
  <2> QED BY <1>1, <2>3, <2>4
<1>3. ASSUME NEW r \in S, r \notin T PROVE ~ Cardinality({x \in S : x.id > r.id}) < Cardinality(T)
  <2> DEFINE X == {x \in S : x.id > r.id}
  <2>1. T \subseteq X
    BY <1>3 DEF Newer
  <2>2. IsFiniteSet(X)
    BY FS_Subset
  <2>3. Cardinality(T) <= Cardinality(X) /\ Cardinality(X) \in Nat
    BY <2>1, <2>2, FS_Subset, FS_CardinalityType
  <2> QED BY <1>1, <2>3
<1> QED BY <1>2, <1>3 DEF NewestOf

LEMMA ScoreIs == ASSUME NEW r, r.angle \in Nat PROVE Vec!Score(r) \in Int
<1>1. MaxAngle \in Nat
  BY VectorsAssumption
<1> QED BY <1>1 DEF Vec!Score, Vec!cosine

(* One row more, and the k best are the k best again. *)
LEMMA RankedGrows ==
  ASSUME NEW S, IsFiniteSet(S), NEW r, r \notin S, \A x \in S \cup {r} : x.angle \in Nat,
         NEW k \in Nat, NEW poly, NEW h, RankedOf(h, poly, k, S),
         NEW g, g \in Vec!Trimmed(h \cup (IF r \in FitOf(poly, {r}) THEN {r} ELSE {}), k)
  PROVE  RankedOf(g, poly, k, S \cup {r})
<1> DEFINE F == FitOf(poly, S)
           G == FitOf(poly, S \cup {r})
<1>1. IsFiniteSet(F) /\ Cardinality(F) \in Nat /\ IsFiniteSet(h) /\ Cardinality(h) \in Nat /\ h \subseteq F /\ F \subseteq S
  <2>1. F \subseteq S /\ h \subseteq F
    BY DEF FitOf, RankedOf
  <2>2. IsFiniteSet(F)
    BY <2>1, FS_Subset
  <2>3. IsFiniteSet(h)
    BY <2>1, <2>2, FS_Subset
  <2> QED BY <2>1, <2>2, <2>3, FS_CardinalityType
<1>2. Cardinality(h) = IF Cardinality(F) < k THEN Cardinality(F) ELSE k
  BY DEF RankedOf
<1>3. \A x \in h, z \in F \ h : Vec!Score(z) <= Vec!Score(x)
  BY DEF RankedOf
<1>4. \A x \in S \cup {r} : Vec!Score(x) \in Int
  BY ScoreIs
<1>5. CASE r \notin FitOf(poly, {r})
  <2>1. G = F
    BY <1>5 DEF FitOf
  <2>2. g \in Vec!Trimmed(h, k)
    <3>1. h \cup {} = h
      OBVIOUS
    <3> QED BY <1>5, <3>1
  <2>3. Cardinality(h) <= k
    BY <1>1, <1>2
  <2>4. g = h
    BY <2>2, <2>3, VecCards DEF Vec!Trimmed
  <2> QED BY <2>1, <2>4 DEF RankedOf
<1>6. CASE r \in FitOf(poly, {r})
  <2> DEFINE m == h \cup {r}
  <2>1. G = F \cup {r}
    BY <1>6 DEF FitOf
  <2>2. r \notin F /\ r \notin h
    BY <1>1
  <2> HIDE DEF F, G
  <2>3. IsFiniteSet(G) /\ Cardinality(G) = Cardinality(F) + 1
    BY <1>1, <2>1, <2>2, FS_AddElement
  <2>4. IsFiniteSet(m) /\ Cardinality(m) = Cardinality(h) + 1
    BY <1>1, <2>2, FS_AddElement
  <2>5. g \in Vec!Trimmed(m, k)
    BY <1>6
  <2>6. CASE Cardinality(m) <= k
    <3>1. g = m
      BY <2>5, <2>6, VecCards DEF Vec!Trimmed
    <3>2. Cardinality(h) = Cardinality(F)
      BY <1>1, <1>2, <2>4, <2>6
    <3>3. h = F
      BY <1>1, <3>2, FS_Subset
    <3>4. g = G
      BY <2>1, <3>1, <3>3
    <3>5. Cardinality(G) <= k /\ Cardinality(G) \in Nat
      BY <1>1, <2>3, <2>4, <2>6, <3>2
    <3>6. Cardinality(g) = IF Cardinality(G) < k THEN Cardinality(G) ELSE k
      BY <3>4, <3>5
    <3> QED BY <3>4, <3>6 DEF RankedOf, G
  <2>7. CASE ~ Cardinality(m) <= k
    <3>1. PICK y \in m : g = m \ {y} /\ \A z \in m : Vec!Score(y) <= Vec!Score(z)
      <4>1. g \in {m \ {y} : y \in {x \in m : \A z \in m : Vec!Score(x) <= Vec!Score(z)}}
        BY <2>5, <2>7, VecCards DEF Vec!Trimmed
      <4> QED BY <4>1
    <3>2. Cardinality(h) = k /\ ~ Cardinality(F) < k
      BY <1>1, <1>2, <2>4, <2>7
    <3>3. Cardinality(g) = k
      <4>1. Cardinality(g) = Cardinality(m) - 1
        BY <2>4, <3>1, FS_RemoveElement
      <4> QED BY <1>1, <2>4, <3>2, <4>1
    <3>4. Cardinality(g) = IF Cardinality(G) < k THEN Cardinality(G) ELSE k
      BY <1>1, <2>3, <3>2, <3>3
    <3>5. g \subseteq G
      BY <1>1, <2>1, <3>1
    <3>6. ASSUME NEW x \in g, NEW z \in G \ g PROVE Vec!Score(z) <= Vec!Score(x)
      <4>1. x \in m /\ x # y /\ m \subseteq S \cup {r} /\ G \subseteq S \cup {r}
        BY <1>1, <2>1, <3>1
      <4>2. Vec!Score(x) \in Int /\ Vec!Score(z) \in Int /\ Vec!Score(y) \in Int
        BY <1>4, <4>1
      <4>3. CASE z = y
        BY <3>1, <4>1, <4>3
      <4>4. CASE z # y
        <5>1. z \in F \ h
          BY <2>1, <3>1, <4>4
        <5>2. CASE x \in h
          BY <1>3, <5>1, <5>2
        <5>3. CASE x = r
          <6>1. y \in h
            BY <3>1, <4>1, <5>3
          <6>2. Vec!Score(z) <= Vec!Score(y) /\ Vec!Score(y) <= Vec!Score(x)
            BY <1>3, <3>1, <4>1, <5>1, <6>1
          <6> QED BY <4>2, <6>2
        <5> QED BY <4>1, <5>2, <5>3
      <4> QED BY <4>3, <4>4
    <3> QED BY <3>4, <3>5, <3>6 DEF RankedOf, G
  <2> QED BY <2>6, <2>7
<1> QED BY <1>5, <1>6

LEMMA FitOfIs == \A q, S : FitOf(q.poly, S) = {r \in S : Vec!Candidate(q, r)}
BY DEF FitOf, Vec!Candidate

LEMMA FitOne == ASSUME NEW q, NEW r PROVE r \in FitOf(q.poly, {r}) <=> Vec!Candidate(q, r)
BY DEF FitOf, Vec!Candidate

LEMMA QueryScanAdvances ==
  ASSUME RankInv, Vec!ScanRow
  PROVE  QuerySound'
<1> USE DEF RankInv
<1>1. query.pc = "scan" /\ query.left # {} /\ UNCHANGED <<rows, zone, found>>
  BY DEF Vec!ScanRow
<1>2. query \in QueryRec /\ ~ query.truncated /\ IsFiniteSet(rows) /\ SCAN_CAP \in Nat
  BY <1>1, VectorsAssumption DEF QuerySound, RowsSearched
<1>3. /\ query.left \subseteq SeenBy(query.model)
      /\ Newer(Scanned(query), query.left) /\ query.n = Cardinality(Scanned(query))
      /\ query.n <= SCAN_CAP
      /\ RankedOf(query.heap, query.poly, query.k, Scanned(query))
  BY <1>1, <1>2 DEF QuerySound
<1>4. SeenBy(query.model) \subseteq rows /\ IsFiniteSet(SeenBy(query.model))
  <2>1. SeenBy(query.model) \subseteq rows
    BY DEF SeenBy, Vec!Live
  <2> QED BY <1>2, <2>1, FS_Subset
<1>5. \A r \in rows : r.id \in Nat /\ r.angle \in Nat
  BY DEF RowsSearched, SearchRow
<1>6. zone' \in Nat /\ QueryRec' = QueryRec /\ \A m : SeenBy(m)' = SeenBy(m)
  BY <1>1 DEF QuerySound, QueryRec, SeenBy, Vec!Live
<1>7. CASE query.n >= SCAN_CAP
  <2> DEFINE x == [query EXCEPT !.left = {}, !.truncated = TRUE]
  <2>1. query' = x
    BY <1>7 DEF Vec!ScanRow
  <2>2. x \in [pc : {"scan"}, k : {query.k}, poly : {query.poly}, model : {query.model},
              left : {{}}, n : {query.n}, heap : {query.heap}, truncated : {TRUE}]
    BY <1>1, <1>2 DEF QueryRec
  <2> HIDE DEF x
  <2>3. /\ x.pc = "scan" /\ x.k = query.k /\ x.poly = query.poly /\ x.model = query.model
        /\ x.left = {} /\ x.n = query.n /\ x.heap = query.heap /\ x.truncated = TRUE
    BY <2>2
  <2>4. x \in QueryRec
    <3>1. /\ query.k \in Nat /\ query.poly \in Nat /\ query.model \in VecModel \cup {"any"}
          /\ query.n \in Nat /\ query.heap \in SUBSET rows
      BY <1>2 DEF QueryRec
    <3> QED BY <2>2, <3>1 DEF QueryRec
  <2>5. query.n = SCAN_CAP
    <3>1. query.n \in Nat
      BY <1>2 DEF QueryRec
    <3> QED BY <1>2, <1>3, <1>7, <3>1
  <2>6. NewestOf(SeenBy(query.model), SCAN_CAP) = Scanned(query)
    <3> DEFINE S == SeenBy(query.model)
               T == Scanned(query)
    <3>1. T \subseteq S /\ S \ T = query.left
      BY <1>3 DEF Scanned
    <3>2. \A r \in S : r.id \in Nat
      BY <1>4, <1>5
    <3>3. Newer(T, S \ T)
      BY <1>3, <3>1
    <3> HIDE DEF S, T
    <3>4. NewestOf(S, Cardinality(T)) = T
      BY <1>4, <3>1, <3>2, <3>3, NewestAre DEF S
    <3> QED BY <1>3, <2>5, <3>4 DEF S, T
  <2>7. RankedOf(x.heap, x.poly, x.k, NewestOf(SeenBy(x.model), SCAN_CAP))
    BY <1>3, <2>3, <2>6
  <2> QED BY <1>6, <2>1, <2>3, <2>4, <2>7 DEF QuerySound, NewestOf
<1>8. CASE ~ query.n >= SCAN_CAP
  <2>1. PICK r \in query.left :
          /\ \A x \in query.left : x.id <= r.id
          /\ \E h \in Vec!Trimmed(query.heap \cup (IF Vec!Candidate(query, r) THEN {r} ELSE {}), query.k) :
                query' = [query EXCEPT !.left = @ \ {r}, !.n = @ + 1, !.heap = h]
    BY <1>8 DEF Vec!ScanRow
  <2>2. PICK h \in Vec!Trimmed(query.heap \cup (IF Vec!Candidate(query, r) THEN {r} ELSE {}), query.k) :
                query' = [query EXCEPT !.left = query.left \ {r}, !.n = query.n + 1, !.heap = h]
    BY <2>1
  <2> DEFINE S == Scanned(query)
             x == [query EXCEPT !.left = query.left \ {r}, !.n = query.n + 1, !.heap = h]
  <2>3. r \in SeenBy(query.model) /\ r \notin S /\ r \in rows /\ S \subseteq rows /\ IsFiniteSet(S)
    <3>1. r \in SeenBy(query.model) /\ r \notin S /\ S \subseteq SeenBy(query.model)
      BY <1>3 DEF Scanned
    <3>2. IsFiniteSet(S)
      BY <1>4, <3>1, FS_Subset
    <3> QED BY <1>4, <3>1, <3>2
  <2>4. x \in [pc : {"scan"}, k : {query.k}, poly : {query.poly}, model : {query.model},
              left : {query.left \ {r}}, n : {query.n + 1}, heap : {h}, truncated : {FALSE}]
    <3>1. query.truncated = FALSE
      BY <1>2 DEF QueryRec
    <3> QED BY <1>1, <1>2, <3>1 DEF QueryRec
  <2>5. query' = x
    BY <2>2
  <2> HIDE DEF x
  <2>6. /\ x.pc = "scan" /\ x.k = query.k /\ x.poly = query.poly /\ x.model = query.model
        /\ x.left = query.left \ {r} /\ x.n = query.n + 1 /\ x.heap = h /\ x.truncated = FALSE
    BY <2>4
  <2>7. query.k \in Nat /\ query.n \in Nat /\ query.poly \in Nat /\ query.model \in VecModel \cup {"any"}
        /\ query.left \in SUBSET rows /\ query.heap \in SUBSET rows
    BY <1>2 DEF QueryRec
  <2>8. RankedOf(h, query.poly, query.k, S \cup {r})
    <3>1. h \in Vec!Trimmed(query.heap \cup (IF r \in FitOf(query.poly, {r}) THEN {r} ELSE {}), query.k)
      BY <2>2, FitOne
    <3>2. \A y \in S \cup {r} : y.angle \in Nat
      BY <1>5, <2>3
    <3>3. RankedOf(query.heap, query.poly, query.k, S)
      BY <1>3
    <3> HIDE DEF S
    <3> QED BY <2>3, <2>7, <3>1, <3>2, <3>3, RankedGrows
  <2>9. Scanned(x) = S \cup {r}
    BY <2>3, <2>6 DEF Scanned
  <2>10. h \in SUBSET rows
    <3>1. h \subseteq S \cup {r}
      BY <2>8 DEF RankedOf, FitOf
    <3> QED BY <2>3, <3>1
  <2>11. x \in QueryRec
    <3>1. query.left \ {r} \in SUBSET rows /\ query.n + 1 \in Nat
      BY <2>7
    <3> DEFINE left == query.left \ {r}
               n == query.n + 1
    <3>2. x \in [pc : {"scan"}, k : {query.k}, poly : {query.poly}, model : {query.model},
                left : {left}, n : {n}, heap : {h}, truncated : {FALSE}]
      BY <2>4
    <3>3. left \in SUBSET rows /\ n \in Nat
      BY <3>1
    <3> HIDE DEF left, n
    <3> QED BY <2>7, <2>10, <3>2, <3>3 DEF QueryRec
  <2>12. x.n = Cardinality(S \cup {r}) /\ x.n <= SCAN_CAP
    <3>1. Cardinality(S \cup {r}) = Cardinality(S) + 1
      BY <2>3, FS_AddElement, ZenonT(60)
    <3> QED BY <1>2, <1>3, <1>8, <2>6, <2>7, <3>1
  <2>13. Newer(S \cup {r}, query.left \ {r})
    <3>1. ASSUME NEW y \in query.left \ {r} PROVE r.id > y.id
      <4>1. y \in rows /\ r \in rows /\ y.id <= r.id /\ y # r
        BY <2>1, <2>3, <2>7
      <4>2. y.id # r.id
        BY <4>1 DEF RowsSearched, IdsApart
      <4> QED BY <1>5, <4>1, <4>2
    <3> QED BY <1>3, <3>1 DEF Newer
  <2>14. x.left \subseteq SeenBy(x.model)
    BY <1>3, <2>6
  <2> HIDE DEF S
  <2>15. Newer(Scanned(x), x.left) /\ x.n = Cardinality(Scanned(x)) /\ RankedOf(x.heap, x.poly, x.k, Scanned(x))
    BY <2>6, <2>8, <2>9, <2>12, <2>13
  <2>16. query' \in QueryRec /\ (Scanned(query))' = Scanned(x)
    BY <1>6, <2>5, <2>11 DEF Scanned
  <2> QED BY <1>6, <2>5, <2>6, <2>12, <2>14, <2>15, <2>16 DEF QuerySound
<1> QED BY <1>7, <1>8


LEMMA NoQueryIs ==
  /\ Vec!NoQuery \in QueryRec /\ Vec!NoQuery.pc = "idle" /\ Vec!NoQuery.heap = {} /\ Vec!NoQuery.left = {}
  /\ Vec!NoQuery.truncated = FALSE /\ Vec!NoQuery.n = 0
BY DEF Vec!NoQuery, QueryRec

LEMMA RankInvStep ==
  ASSUME RankInv, Vec!Searches
  PROVE  RankInv'
<1> USE DEF RankInv
<1>1. UNCHANGED rows
  BY DEF Vec!Searches, Vec!search_semantic, Vec!update_zone, Vec!search_similar, Vec!ScanRow, Vec!semantic_proof
<1>2. RowsSearched' /\ QueryRec' = QueryRec /\ UNCHANGED Vec!Live
  BY <1>1 DEF RowsSearched, QueryRec, Vec!Live
<1>3. \A m : SeenBy(m)' = SeenBy(m)
  BY <1>2 DEF SeenBy
<1>4. UNCHANGED found => Vec!BestRanked'
  BY <1>2, ZenonT(60) DEF Vec!BestRanked
<1>5. CASE Vec!search_semantic
  <2>1. PICK k \in 1..MAX_K, zoned \in BOOLEAN :
          query' = [Vec!NoQuery EXCEPT !.pc = "embed", !.k = k, !.poly = IF zoned THEN zone ELSE 0]
    BY <1>5 DEF Vec!search_semantic
  <2> DEFINE poly == IF zoned THEN zone ELSE 0
             x == [Vec!NoQuery EXCEPT !.pc = "embed", !.k = k, !.poly = poly]
  <2>2. query' = x
    BY <2>1
  <2>3. poly \in Nat /\ k \in Nat
    BY VectorsAssumption DEF QuerySound
  <2> HIDE DEF poly
  <2>4. x \in [pc : {"embed"}, k : {k}, poly : {poly}, model : {"any"},
              left : {{}}, n : {0}, heap : {{}}, truncated : {FALSE}]
    BY DEF Vec!NoQuery
  <2> HIDE DEF x
  <2>6. x \in QueryRec /\ x.pc = "embed" /\ x.n = 0 /\ x.heap = {} /\ x.truncated = FALSE
    <3>1. x.pc = "embed" /\ x.n = 0 /\ x.heap = {} /\ x.truncated = FALSE
      BY <2>4
    <3>2. {} \in SUBSET rows /\ 0 \in Nat /\ "any" \in VecModel \cup {"any"}
      OBVIOUS
    <3>3. x \in QueryRec
      BY <2>3, <2>4, <3>2 DEF QueryRec
    <3> QED BY <3>1, <3>3
  <2>5. QuerySound'
    <3>1. UNCHANGED zone
      BY <1>5 DEF Vec!search_semantic
    <3> QED BY <1>2, <2>2, <2>6, <3>1 DEF QuerySound
  <2> QED BY <1>2, <1>4, <1>5, <2>5 DEF Vec!search_semantic
<1>6. CASE Vec!update_zone
  <2>1. zone' = 2 /\ UNCHANGED <<query, found>> /\ query.pc = "embed"
    BY <1>6 DEF Vec!update_zone
  <2>2. QuerySound'
    BY <1>2, <2>1 DEF QuerySound
  <2> QED BY <1>2, <1>4, <2>1, <2>2
<1>7. CASE Vec!search_similar
  <2>1. query.pc = "embed" /\ UNCHANGED <<zone, found>> /\ query \in QueryRec /\ zone \in Nat
    BY <1>7 DEF Vec!search_similar, QuerySound
  <2>2. CASE query' = Vec!NoQuery
    <3>1. QuerySound'
      BY <1>2, <2>1, <2>2, NoQueryIs DEF QuerySound
    <3> QED BY <1>2, <1>4, <2>1, <3>1
  <2>3. ASSUME NEW model \in VecModel \cup {"any"},
               query' = [query EXCEPT !.pc = "scan", !.model = model, !.left = {r \in Vec!Live : model \in {r.model, "any"}}]
        PROVE  RankInv'
    <3> DEFINE left == SeenBy(model)
               x == [query EXCEPT !.pc = "scan", !.model = model, !.left = left]
    <3>1. query' = x
      BY <2>3 DEF SeenBy
    <3>2. left \in SUBSET rows
      BY DEF SeenBy, Vec!Live
    <3>3. query.k \in Nat /\ query.poly \in Nat
      BY <2>1 DEF QueryRec
    <3> HIDE DEF left
    <3>4. x \in [pc : {"scan"}, k : {query.k}, poly : {query.poly}, model : {model},
                left : {left}, n : {query.n}, heap : {query.heap}, truncated : {query.truncated}]
      BY <2>1 DEF QueryRec
    <3> HIDE DEF x
    <3>5. /\ x.pc = "scan" /\ x.k = query.k /\ x.poly = query.poly /\ x.model = model
          /\ x.left = left /\ x.n = query.n /\ x.heap = query.heap /\ x.truncated = query.truncated
      BY <3>4
    <3>6. query.n = 0 /\ query.heap = {} /\ query.truncated = FALSE
      BY <2>1 DEF QuerySound
    <3>7. x \in QueryRec
      <4>1. query.n \in Nat /\ query.heap \in SUBSET rows /\ query.truncated \in BOOLEAN
        BY <2>1 DEF QueryRec
      <4> QED BY <3>2, <3>3, <3>4, <4>1 DEF QueryRec
    <3>8. Scanned(x) = {} /\ x.left \subseteq SeenBy(x.model)
      BY <3>5 DEF Scanned, left
    <3>9. Cardinality({}) = 0 /\ SCAN_CAP \in Nat
      BY FS_EmptySet, VectorsAssumption
    <3>10. RankedOf({}, x.poly, x.k, {})
      <4>1. FitOf(x.poly, {}) = {}
        BY DEF FitOf
      <4>2. Cardinality({}) = IF Cardinality({}) < x.k THEN Cardinality({}) ELSE x.k
        BY <3>3, <3>5, <3>9
      <4> QED BY <4>1, <4>2 DEF RankedOf
    <3>11. Newer(Scanned(x), x.left) /\ x.n = Cardinality(Scanned(x)) /\ x.n <= SCAN_CAP
           /\ RankedOf(x.heap, x.poly, x.k, Scanned(x))
      BY <3>5, <3>6, <3>8, <3>9, <3>10 DEF Newer
    <3>12. (Scanned(query))' = Scanned(x)
      BY <1>3, <3>1 DEF Scanned
    <3>13. QuerySound'
      BY <1>2, <1>3, <2>1, <3>1, <3>5, <3>6, <3>7, <3>8, <3>11, <3>12 DEF QuerySound
    <3> QED BY <1>2, <1>4, <2>1, <3>13
  <2> QED BY <1>7, <2>2, <2>3 DEF Vec!search_similar
<1>8. CASE Vec!ScanRow
  <2>1. UNCHANGED found
    BY <1>8 DEF Vec!ScanRow
  <2> QED BY <1>2, <1>4, <1>8, <2>1, QueryScanAdvances, SMTT(60)
<1>9. CASE Vec!semantic_proof
  <2>1. query.pc = "scan" /\ query.left = {} /\ query' = Vec!NoQuery /\ UNCHANGED zone
    BY <1>9 DEF Vec!semantic_proof
  <2> DEFINE f == [k |-> query.k, poly |-> query.poly, model |-> query.model, hits |-> query.heap, truncated |-> query.truncated]
             pool == IF query.truncated THEN NewestOf(SeenBy(query.model), SCAN_CAP) ELSE SeenBy(query.model)
  <2>2. found' = {f}
    BY <1>9 DEF Vec!semantic_proof
  <2>3. RankedOf(f.hits, f.poly, f.k, pool)
    <3>1. query.truncated \in BOOLEAN
      BY DEF QuerySound, QueryRec
    <3>2. ~ query.truncated => Scanned(query) = SeenBy(query.model)
      BY <2>1 DEF Scanned
    <3> QED BY <2>1, <3>1, <3>2 DEF QuerySound
  <2>4. Vec!BestRanked'
    <3> DEFINE within == {r \in Vec!Live : f.model \in {r.model, "any"}}
               pl == IF f.truncated THEN {r \in within : Vec!Cardinality({x \in within : x.id > r.id}) < SCAN_CAP} ELSE within
               fits == {r \in pl : Vec!Candidate(f, r)}
    <3>1. within = SeenBy(f.model)
      BY DEF SeenBy
    <3>2. pl = pool
      <4>1. within = SeenBy(query.model)
        BY <3>1
      <4> HIDE DEF within
      <4> QED BY <4>1, VecCards DEF NewestOf
    <3> HIDE DEF within, pool, f
    <3>3. fits = FitOf(f.poly, pool)
      BY <3>2, FitOfIs
    <3> HIDE DEF pl
    <3>4. /\ f.hits \subseteq fits
          /\ Vec!Cardinality(f.hits) = (IF Vec!Cardinality(fits) < f.k THEN Vec!Cardinality(fits) ELSE f.k)
          /\ \A h \in f.hits, r \in fits \ f.hits : Vec!Score(r) <= Vec!Score(h)
      <4> HIDE DEF fits
      <4> QED BY <2>3, <3>3, VecCards DEF RankedOf
    <3>5. \A e \in found' : e = f
      BY <2>2
    <3>6. BestAmong({f}, Vec!Live)
      <4>1. BestOf(f, Vec!Live)
        BY Zenon, <3>4 DEF BestOf, fits, pl, within
      <4> QED BY <4>1 DEF BestAmong
    <3>7. BestAmong(found', Vec!Live')
      BY <1>2, <2>2, <3>6
    <3> QED BY <3>7, BestIsAmong
  <2>5. QuerySound'
    BY <1>2, <2>1, NoQueryIs DEF QuerySound
  <2> QED BY <1>2, <2>4, <2>5
<1> QED BY <1>5, <1>6, <1>7, <1>8, <1>9 DEF Vec!Searches

-----------------------------------------------------------------------------
(* Vectors: two appearances.                                               *)

PairRec == [pc : {pair.pc}, a : {pair.a}, b : {pair.b}, score : {pair.score}]

PairInv == pair \in PairRec /\ Vec!NotOneCrop

LEMMA NotOneCropIs == Vec!NotOneCrop <=> (pair.score # 0 => Vec!SharedModels(pair.a, pair.b) # {})
BY VecCards DEF Vec!NotOneCrop, Vec!SharedModels, Vec!OfModel

LEMMA BestShared == ASSUME NEW a, NEW b, Vec!Best(a, b) # 0 PROVE Vec!SharedModels(a, b) # {}
<1>1. {p \in a \X b : p[1].model = p[2].model /\ p[1].model \in Vec!SharedModels(a, b)} # {}
  BY DEF Vec!Best
<1> QED BY <1>1

LEMMA PairInvStep ==
  ASSUME PairInv, Vec!Comparison
  PROVE  PairInv'
<1> USE DEF PairInv
<1>1. CASE Vec!NearFirst
  <2>1. PICK a : pair' = [Vec!NoPair EXCEPT !.pc = "done"] \/ pair' = [Vec!NoPair EXCEPT !.pc = "second", !.a = a]
    BY <1>1 DEF Vec!NearFirst
  <2>2. pair' \in [pc : {"done"}, a : {{}}, b : {{}}, score : {0}] \/ pair' \in [pc : {"second"}, a : {a}, b : {{}}, score : {0}]
    BY <2>1 DEF Vec!NoPair
  <2>3. pair'.score = 0
    BY <2>2
  <2>4. (pair \in PairRec)'
    BY <2>2 DEF PairRec
  <2>5. Vec!NotOneCrop'
    BY <2>3 DEF Vec!NotOneCrop
  <2> QED BY <2>4, <2>5
<1>2. CASE Vec!appearance_similarity
  <2>1. PICK b : pair' = [pair EXCEPT !.pc = "done", !.b = b,
                          !.score = IF Vec!Cardinality(b) < APPEARANCE_MIN_VECTORS THEN 0 ELSE Vec!Best(pair.a, b)]
    BY <1>2 DEF Vec!appearance_similarity
  <2> DEFINE s == IF Vec!Cardinality(b) < APPEARANCE_MIN_VECTORS THEN 0 ELSE Vec!Best(pair.a, b)
  <2>2. pair' = [pair EXCEPT !.pc = "done", !.b = b, !.score = s]
    BY <2>1
  <2>3. s # 0 => Vec!SharedModels(pair.a, b) # {}
    BY BestShared
  <2> HIDE DEF s
  <2>4. pair' \in [pc : {"done"}, a : {pair.a}, b : {b}, score : {s}]
    BY <2>2 DEF PairRec
  <2>5. pair'.a = pair.a /\ pair'.b = b /\ pair'.score = s
    BY <2>4
  <2>6. (pair \in PairRec)'
    BY <2>4 DEF PairRec
  <2>7. Vec!NotOneCrop'
    <3>1. Vec!NotOneCrop' <=> (pair'.score # 0 => Vec!SharedModels(pair'.a, pair'.b) # {})
      BY VecCards DEF Vec!NotOneCrop, Vec!SharedModels, Vec!OfModel
    <3> QED BY <2>3, <2>5, <3>1
  <2> QED BY <2>6, <2>7
<1>3. CASE Vec!OldestGoes
  <2>1. UNCHANGED pair
    BY <1>3 DEF Vec!OldestGoes
  <2> QED BY <2>1 DEF PairRec, Vec!NotOneCrop
<1> QED BY <1>1, <1>2, <1>3 DEF Vec!Comparison

-----------------------------------------------------------------------------
VecInv ==
    /\ PairInv
    /\ vecPart = "crops" => CropInv
    /\ vecPart = "search" => RankInv
    /\ vecPart # "search" => found = {}

LEMMA VecInvInit == Vec!VecInit => VecInv
<1> SUFFICES ASSUME Vec!VecInit PROVE VecInv
  OBVIOUS
<1>1. crops = {} /\ owners = {} /\ calls = [u \in VecCaller |-> Vec!NoCall] /\ pruner = Vec!NoPrune
      /\ zone = 1 /\ query = Vec!NoQuery /\ found = {} /\ pair = Vec!NoPair /\ vecErrs = 0
  BY DEF Vec!VecInit
<1>2. PairInv
  BY <1>1 DEF PairInv, PairRec, Vec!NoPair, Vec!NotOneCrop
<1>3. ASSUME vecPart = "crops" PROVE CropInv
  <2>1. rows = {} /\ IsFiniteSet(rows) /\ Cardinality(rows) = 0
    BY <1>3, FS_EmptySet DEF Vec!VecInit
  <2>2. \A u \in VecCaller : calls[u] = Vec!NoCall
    BY <1>1
  <2>3. Vec!NoCall \in VecCall
    BY DEF VecCall, Vec!NoCall
  <2>4. \A u \in VecCaller : InHand(u) = {}
    BY <2>2 DEF InHand, Vec!NoCall
  <2>5. RowsNumbered
    BY <2>1 DEF RowsNumbered
  <2>6. CallsSound
    BY <1>1, <2>2, <2>3, <2>4 DEF CallsSound, Vec!NoCall
  <2>7. PrunerSound
    BY <1>1 DEF PrunerSound, Vec!NoPrune
  <2>8. CropsWhole
    BY <1>1, <2>4 DEF CropsWhole, Vec!NoPrune
  <2> QED BY <1>1, <2>5, <2>6, <2>7, <2>8 DEF CropInv
<1>4. ASSUME vecPart = "search" PROVE RankInv
  <2>1. PICK f \in [1..MaxVec -> [angle : 0..MaxAngle, model : VecModel, inside : {{}, {1}}]] :
          rows = {[id |-> i, angle |-> f[i].angle, model |-> f[i].model, inside |-> f[i].inside, live |-> TRUE] : i \in 1..MaxVec}
    BY <1>4 DEF Vec!VecInit
  <2> DEFINE row == [i \in 1..MaxVec |-> [id |-> i, angle |-> f[i].angle, model |-> f[i].model, inside |-> f[i].inside, live |-> TRUE]]
  <2>2. MaxVec \in Nat /\ MaxAngle \in Nat
    BY VectorsAssumption
  <2>3. \A i \in 1..MaxVec : row[i] \in SearchRow /\ row[i].id = i
    <3>1. \A i \in 1..MaxVec : f[i] \in [angle : 0..MaxAngle, model : VecModel, inside : {{}, {1}}] /\ i \in Nat
      BY <2>2
    <3> QED BY <2>2, <3>1 DEF SearchRow
  <2>4. rows = {row[i] : i \in 1..MaxVec}
    BY <2>1
  <2> HIDE DEF row
  <2>5. IsFiniteSet(rows)
    <3>1. IsFiniteSet(1..MaxVec)
      <4>1. 1 \in Int /\ MaxVec \in Int
        BY <2>2
      <4> QED BY <4>1, FS_Interval
    <3> DEFINE g == [i \in 1..MaxVec |-> row[i]]
    <3>2. g \in Surjection(1..MaxVec, rows)
      BY <2>4 DEF Surjection
    <3> QED BY <3>1, <3>2, FS_Surjection
  <2>6. RowsSearched
    BY <2>3, <2>4, <2>5 DEF RowsSearched, IdsApart
  <2>7. QuerySound
    BY <1>1, NoQueryIs DEF QuerySound
  <2>8. Vec!BestRanked
    BY <1>1 DEF Vec!BestRanked
  <2> QED BY <2>6, <2>7, <2>8 DEF RankInv
<1> QED BY <1>1, <1>2, <1>3, <1>4 DEF VecInv

LEMMA VecInvStep ==
  ASSUME VecInv, Vec!VecNext
  PROVE  VecInv'
<1> USE DEF VecInv
<1>1. UNCHANGED vecPart
  BY DEF Vec!VecNext
<1>2. UNCHANGED pair => PairInv'
  BY DEF PairInv, PairRec, Vec!NotOneCrop
<1>3. CASE vecPart = "crops" /\ Vec!Crops /\ UNCHANGED <<Vec!queryVars, pair>>
  <2>1. UNCHANGED found
    BY <1>3 DEF Vec!queryVars
  <2> QED BY <1>1, <1>2, <1>3, <2>1, CropInvStep
<1>4. CASE vecPart = "search" /\ Vec!Searches /\ UNCHANGED <<Vec!cropVars, pair, vecErrs>>
  BY <1>1, <1>2, <1>4, RankInvStep
<1>5. CASE vecPart = "pair" /\ Vec!Comparison /\ UNCHANGED <<Vec!cropVars, Vec!queryVars, vecErrs>>
  <2>1. UNCHANGED found
    BY <1>5 DEF Vec!queryVars
  <2> QED BY <1>1, <1>5, <2>1, PairInvStep
<1> QED BY <1>3, <1>4, <1>5 DEF Vec!VecNext

LEMMA VecInvStays ==
  ASSUME VecInv, UNCHANGED vecVars
  PROVE  VecInv'
<1>1. UNCHANGED <<vecPart, rows, crops, owners, calls, pruner, zone, query, found, pair, vecErrs>>
  BY DEF vecVars
<1>2. PairInv'
  BY <1>1 DEF VecInv, PairInv, PairRec, Vec!NotOneCrop
<1>3. CropInv => CropInv'
  <2>1. ASSUME CropInv PROVE CropInv'
    <3>1. CallsSound' /\ \A v \in VecCaller : InHand(v)' = InHand(v)
      BY <1>1, <2>1, CallsStay DEF CropInv
    <3>2. UNCHANGED Vec!LiveIds
      BY <1>1 DEF Vec!LiveIds, Vec!Live
    <3>3. CropsWhole'
      BY <1>1, <2>1, <3>1, <3>2 DEF CropInv, CropsWhole
    <3> QED BY <1>1, <2>1, <3>1, <3>3 DEF CropInv, RowsNumbered, PrunerSound
  <2> QED BY <2>1
<1>4. RankInv => RankInv'
  <2>1. ASSUME RankInv PROVE RankInv'
    <3>1. RowsSearched' /\ QueryRec' = QueryRec /\ UNCHANGED Vec!Live
      BY <1>1, <2>1 DEF RankInv, RowsSearched, QueryRec, Vec!Live
    <3>2. \A m : SeenBy(m)' = SeenBy(m)
      BY <3>1 DEF SeenBy
    <3>3. (Scanned(query))' = Scanned(query)
      BY <1>1, <3>2 DEF Scanned
    <3>4. QuerySound'
      BY <1>1, <2>1, <3>1, <3>2, <3>3 DEF RankInv, QuerySound, NewestOf
    <3>5. Vec!BestRanked'
      BY <1>1, <2>1, <3>1, ZenonT(60) DEF RankInv, Vec!BestRanked
    <3> QED BY <3>1, <3>4, <3>5 DEF RankInv
  <2> QED BY <2>1
<1> QED BY <1>1, <1>2, <1>3, <1>4 DEF VecInv

LEMMA VecInvTrue ==
  ASSUME VecInv
  PROVE  Vec!BestRanked /\ Vec!CropsScoped /\ Vec!NotOneCrop
<1>1. Vec!BestRanked
  BY DEF VecInv, RankInv, Vec!BestRanked
<1>2. Vec!CropsScoped
  BY CropInvScoped DEF VecInv, Vec!CropsScoped
<1> QED BY <1>1, <1>2 DEF VecInv, PairInv

LEMMA VecInvAlways == AppsSpec => [](part = "vectors" => VecInv)
<1>1. AppsInit => (part = "vectors" => VecInv)
  BY VecInvInit DEF AppsInit
<1>2. ASSUME part = "vectors" => VecInv, [AppsNext]_appsVars PROVE (part = "vectors" => VecInv)'
  <2>1. CASE AppsNext
    <3>1. UNCHANGED part
      BY <2>1 DEF AppsNext
    <3> SUFFICES ASSUME part = "vectors" PROVE VecInv'
      BY <3>1
    <3>2. Vec!VecNext
      BY <2>1 DEF AppsNext
    <3> QED BY <1>2, <3>2, VecInvStep
  <2>2. CASE UNCHANGED appsVars
    <3>1. UNCHANGED part /\ UNCHANGED vecVars
      BY <2>2 DEF appsVars
    <3> QED BY <1>2, <3>1, VecInvStays
  <2> QED BY <1>2, <2>1, <2>2
<1> QED BY <1>1, <1>2, PTL DEF AppsSpec

-----------------------------------------------------------------------------
(* The structured search.                                                  *)

LEMMA SrchCards == ASSUME NEW S PROVE Srch!Cardinality(S) = Cardinality(S)
BY Zenon DEF Srch!Cardinality, Cardinality

(* Every set of numbers has a least one. *)
LEMMA Least ==
  ASSUME NEW T \in SUBSET Nat, T # {}
  PROVE  \E n \in T : \A m \in T : n <= m
<1> DEFINE Less == {p \in Nat \X Nat : p[1] < p[2]}
<1>1. IsWellFoundedOn(Less, Nat)
  BY NatLessThanWellFounded DEF OpToRel
<1>2. PICK n \in T : \A m \in T : ~ (<<m, n>> \in Less)
  BY <1>1, WFMin
<1>3. ASSUME NEW m \in T PROVE n <= m
  <2>1. m \in Nat /\ n \in Nat /\ ~ (m < n)
    BY <1>2
  <2> QED BY <2>1
<1> QED BY <1>3

NewestRows(S, n) == {r \in S : Cardinality({x \in S : x.ts > r.ts}) < n}

(* A page that is not full holds every row there was. *)
LEMMA NotFullIsAll ==
  ASSUME NEW S, IsFiniteSet(S), NEW N \in Nat, \A r \in S : r.ts \in Nat /\ r.ts < N,
         NEW n \in Nat, Cardinality(NewestRows(S, n)) < n
  PROVE  NewestRows(S, n) = S
<1> DEFINE Out == S \ NewestRows(S, n)
<1> SUFFICES ASSUME Out # {} PROVE FALSE
  BY DEF NewestRows
<1> DEFINE left == [r \in Out |-> N - r.ts]
<1>1. \A r \in Out : r \in S /\ r.ts \in Nat /\ left[r] \in Nat
  OBVIOUS
<1>2. {left[r] : r \in Out} \in SUBSET Nat /\ {left[r] : r \in Out} # {}
  BY <1>1
<1>3. PICK m \in {left[r] : r \in Out} : \A k \in {left[r] : r \in Out} : m <= k
  BY <1>2, Least
<1>4. PICK r \in Out : m = left[r]
  BY <1>3
<1>5. \A x \in Out : x.ts <= r.ts
  <2>1. ASSUME NEW x \in Out PROVE x.ts <= r.ts
    <3>1. left[r] <= left[x]
      BY <1>3, <1>4
    <3> QED BY <1>1, <3>1
  <2> QED BY <2>1
<1> DEFINE X == {x \in S : x.ts > r.ts}
<1>6. X \subseteq NewestRows(S, n)
  <2>1. ASSUME NEW x \in X, x \notin NewestRows(S, n) PROVE FALSE
    <3>1. x \in Out /\ x.ts > r.ts
      BY <2>1
    <3>2. x.ts <= r.ts /\ x.ts \in Nat /\ r.ts \in Nat
      BY <1>1, <1>5, <3>1
    <3> QED BY <3>1, <3>2
  <2> QED BY <2>1
<1>7. IsFiniteSet(NewestRows(S, n))
  <2>1. NewestRows(S, n) \subseteq S
    BY DEF NewestRows
  <2> QED BY <2>1, FS_Subset
<1>8. IsFiniteSet(X) /\ Cardinality(X) <= Cardinality(NewestRows(S, n))
  BY <1>6, <1>7, FS_Subset
<1>9. Cardinality(X) \in Nat /\ Cardinality(NewestRows(S, n)) \in Nat
  BY <1>7, <1>8, FS_CardinalityType
<1>10. Cardinality(X) < n
  BY <1>8, <1>9
<1>11. r \in NewestRows(S, n)
  BY <1>1, <1>10 DEF NewestRows
<1> QED BY <1>11

-----------------------------------------------------------------------------
(* The hours of a window, and the hours met going forward.                 *)

LEMMA ModIs ==
  ASSUME NEW H \in Nat \ {0}, NEW x \in Nat, x < 2 * H
  PROVE  x % H = IF x < H THEN x ELSE x - H
<1>1. x = H * (x \div H) + (x % H) /\ x % H \in 0..(H - 1) /\ x \div H \in Int
  OBVIOUS
<1> DEFINE q == x \div H
           m == x % H
<1>2. x = H * q + m /\ m \in 0..(H - 1) /\ q \in Int
  BY <1>1
<1> HIDE DEF q, m
<1>3. q \in {0, 1}
  <2>1. CASE q < 0
    <3>1. H * q <= -H
      BY <1>2, <2>1
    <3> QED BY <1>2, <3>1
  <2>2. CASE q > 1
    <3>1. H * q >= 2 * H
      BY <1>2, <2>2
    <3> QED BY <1>2, <3>1
  <2> QED BY <1>2, <2>1, <2>2
<1>4. m = IF x < H THEN x ELSE x - H
  BY <1>2, <1>3
<1> QED BY <1>4 DEF m

LEMMA HoursMet ==
  ASSUME NEW lo \in 0..(Hours - 1), NEW hi \in 0..(Hours - 1), NEW hr \in 0..(Hours - 1)
  PROVE  Srch!Going(lo, hi, hr) <=> IF lo > hi THEN hr >= lo \/ hr <= hi ELSE hr >= lo /\ hr <= hi
<1>1. Hours \in Nat \ {0}
  BY SearchAssumption
<1> DEFINE far == hi + Hours - lo
<1>2. far \in Nat /\ far < 2 * Hours
  BY <1>1
<1>3. far % Hours = IF lo > hi THEN hi + Hours - lo ELSE hi - lo
  <2> HIDE DEF far
  <2>1. far % Hours = IF far < Hours THEN far ELSE far - Hours
    BY <1>1, <1>2, ModIs
  <2> QED BY <1>1, <2>1 DEF far
<1> DEFINE span == IF lo > hi THEN hi + Hours - lo ELSE hi - lo
<1>4. Srch!Going(lo, hi, hr) <=> \E k \in 0..span : hr = (lo + k) % Hours
  BY <1>3 DEF Srch!Going
<1>5. \A k \in 0..span : (lo + k) % Hours = IF lo + k < Hours THEN lo + k ELSE lo + k - Hours
  <2>1. ASSUME NEW k \in 0..span PROVE (lo + k) % Hours = IF lo + k < Hours THEN lo + k ELSE lo + k - Hours
    <3>1. PICK x \in Nat : x = lo + k
      BY <1>1
    <3>2. x < 2 * Hours
      BY <1>1, <3>1
    <3>3. x % Hours = IF x < Hours THEN x ELSE x - Hours
      BY <1>1, <3>2, ModIs
    <3> HIDE DEF far, span
    <3> QED BY <1>1, <3>1, <3>3
  <2> QED BY <2>1
<1>6. Srch!Going(lo, hi, hr) <=> \E k \in 0..span : hr = IF lo + k < Hours THEN lo + k ELSE lo + k - Hours
  BY <1>4, <1>5
<1>7. CASE lo > hi
  <2>1. ASSUME NEW k \in 0..span, hr = IF lo + k < Hours THEN lo + k ELSE lo + k - Hours PROVE hr >= lo \/ hr <= hi
    BY <1>1, <1>7, <2>1
  <2>2. ASSUME hr >= lo PROVE \E k \in 0..span : hr = IF lo + k < Hours THEN lo + k ELSE lo + k - Hours
    <3>1. hr - lo \in 0..span /\ lo + (hr - lo) = hr /\ hr < Hours
      BY <1>1, <1>7, <2>2
    <3> QED BY <3>1
  <2>3. ASSUME hr <= hi PROVE \E k \in 0..span : hr = IF lo + k < Hours THEN lo + k ELSE lo + k - Hours
    <3> DEFINE k == hr + Hours - lo
    <3>1. k \in 0..span
      BY <1>1, <1>7, <2>3, SMTT(60)
    <3>2. lo + k = hr + Hours /\ ~ (lo + k < Hours) /\ lo + k - Hours = hr
      BY <1>1, <1>7, <2>3
    <3> HIDE DEF k
    <3> QED BY <3>1, <3>2
  <2> QED BY <1>6, <1>7, <2>1, <2>2, <2>3
<1>8. CASE ~ lo > hi
  <2>1. ASSUME NEW k \in 0..span, hr = IF lo + k < Hours THEN lo + k ELSE lo + k - Hours PROVE hr >= lo /\ hr <= hi
    BY <1>1, <1>8, <2>1
  <2>2. ASSUME hr >= lo, hr <= hi PROVE \E k \in 0..span : hr = IF lo + k < Hours THEN lo + k ELSE lo + k - Hours
    <3>1. hr - lo \in 0..span /\ lo + (hr - lo) = hr /\ hr < Hours
      BY <1>1, <1>8, <2>2
    <3> QED BY <3>1
  <2> QED BY <1>6, <1>8, <2>1, <2>2
<1> QED BY <1>7, <1>8

LEMMA HoursAsked ==
  ASSUME NEW p, p.lo \in 0..Hours, p.hi \in 0..Hours, NEW hr \in 0..(Hours - 1)
  PROVE  Srch!InHours(p, hr) <=> Srch!InWindow(p, hr)
<1>1. Hours \in Nat \ {0}
  BY SearchAssumption
<1>2. CASE p.lo # Hours /\ p.hi # Hours
  <2>1. p.lo \in 0..(Hours - 1) /\ p.hi \in 0..(Hours - 1)
    BY <1>1, <1>2
  <2>2. Srch!InWindow(p, hr) <=> Srch!Going(p.lo, p.hi, hr)
    BY <1>2 DEF Srch!InWindow, Srch!NoHour
  <2>3. Srch!InHours(p, hr) <=> IF p.lo > p.hi THEN hr >= p.lo \/ hr <= p.hi ELSE hr >= p.lo /\ hr <= p.hi
    BY <1>2 DEF Srch!InHours, Srch!NoHour
  <2> QED BY <2>1, <2>2, <2>3, HoursMet
<1>3. CASE p.lo = Hours \/ p.hi = Hours
  <2> DEFINE lo == IF p.lo = Hours THEN 0 ELSE p.lo
             hi == IF p.hi = Hours THEN Hours - 1 ELSE p.hi
  <2>1. Srch!InWindow(p, hr) <=> hr \in lo..hi
    BY <1>3 DEF Srch!InWindow, Srch!NoHour
  <2>2. Srch!InHours(p, hr) <=> (p.lo # Hours => hr >= p.lo) /\ (p.hi # Hours => hr <= p.hi)
    BY <1>3 DEF Srch!InHours, Srch!NoHour
  <2> QED BY <1>1, <2>1, <2>2
<1> QED BY <1>2, <1>3

-----------------------------------------------------------------------------
(* Structured search: what is on the pages.                                *)

FactRec == [src : SrchSource, ts : Nat, cam : SrchCamera]

FactsSound ==
    /\ facts \in SUBSET FactRec /\ IsFiniteSet(facts)
    /\ \A f \in facts : f.ts < Cardinality(facts)

(* A page was read from the facts there were at some moment since the search began. *)
PageOf(p, s, page) ==
    \E F \in SUBSET facts : began \subseteq F /\ page = Srch!Fetch(p, s, F)

PagesSound ==
    /\ fetched \in [SrchSource -> SUBSET SUBSET facts]
    /\ \A s \in SrchSource : \A page \in fetched[s] : \E p \in plan : Srch!want(p, s) /\ PageOf(p, s, page)

SearchInv ==
    /\ FactsSound /\ PagesSound
    /\ plan \subseteq Srch!Plans /\ \A p, r \in plan : p = r
    /\ began \subseteq facts
    /\ \A a \in answer : a.p \in Srch!Plans
    /\ Srch!AnswersAll /\ Srch!OwnCapOnly

LEMMA PlanIs ==
  ASSUME NEW p \in Srch!Plans
  PROVE  /\ p.cams \subseteq SrchCamera /\ p.lo \in 0..Hours /\ p.hi \in 0..Hours
         /\ p.limit \in Nat /\ Srch!Limit(p) \in Nat
         /\ IsFiniteSet(p.cams) /\ Cardinality(p.cams) \in Nat
<1>1. max_results \in Nat /\ IsFiniteSet(SrchCamera)
  BY SearchAssumption
<1>2. p.cams \subseteq SrchCamera /\ p.lo \in 0..Hours /\ p.hi \in 0..Hours /\ p.limit \in {1, max_results + 1}
  BY DEF Srch!Plans
<1>3. IsFiniteSet(p.cams)
  BY <1>1, <1>2, FS_Subset
<1> QED BY <1>1, <1>2, <1>3, FS_CardinalityType DEF Srch!Limit

LEMMA NewestIs == ASSUME NEW S, NEW n PROVE Srch!Newest(S, n) = NewestRows(S, n)
BY SrchCards DEF Srch!Newest, NewestRows

(* What a plan's predicate leaves of a source. *)
Matching(p, s, F) == {r \in F : r.src = s /\ Srch!camera_pred(p, r)}

LEMMA FetchIs == ASSUME NEW p, NEW s, NEW F PROVE Srch!Fetch(p, s, F) = NewestRows(Matching(p, s, F), fetch_cap)
BY NewestIs DEF Srch!Fetch, Matching

LEMMA PageWithin ==
  ASSUME FactsSound, NEW p, NEW s, NEW page, PageOf(p, s, page)
  PROVE  page \subseteq Matching(p, s, facts) /\ IsFiniteSet(page) /\ Cardinality(page) \in Nat
<1>1. PICK F \in SUBSET facts : page = NewestRows(Matching(p, s, F), fetch_cap)
  BY FetchIs DEF PageOf
<1>2. page \subseteq Matching(p, s, facts) /\ page \subseteq facts
  BY <1>1 DEF NewestRows, Matching
<1>3. IsFiniteSet(page)
  BY <1>2, FS_Subset DEF FactsSound
<1> QED BY <1>2, <1>3, FS_CardinalityType

(* A page that was not cut has every fact the search found when it began. *)
LEMMA PageWhole ==
  ASSUME FactsSound, began \subseteq facts, NEW p, NEW s, NEW page, PageOf(p, s, page), Cardinality(page) < fetch_cap
  PROVE  Matching(p, s, began) \subseteq page
<1>1. PICK F \in SUBSET facts : began \subseteq F /\ page = NewestRows(Matching(p, s, F), fetch_cap)
  BY FetchIs DEF PageOf
<1> DEFINE S == Matching(p, s, F)
<1>2. S \subseteq facts
  BY DEF Matching
<1>3. IsFiniteSet(S) /\ Cardinality(facts) \in Nat /\ fetch_cap \in Nat
  BY <1>2, FS_Subset, FS_CardinalityType, SearchAssumption DEF FactsSound
<1>4. \A r \in S : r.ts \in Nat /\ r.ts < Cardinality(facts)
  BY <1>2 DEF FactsSound, FactRec
<1> HIDE DEF S
<1>5. NewestRows(S, fetch_cap) = S
  BY <1>1, <1>3, <1>4, NotFullIsAll DEF S
<1> QED BY <1>1, <1>5 DEF S, Matching

-----------------------------------------------------------------------------
(* Structured search: the answer.                                          *)

(* What is said of one answer. *)
AnswerAll(a) ==
    /\ a.hits \subseteq Srch!Asked(a.p, facts)
    /\ a.complete /\ Srch!Cardinality(a.hits) < Srch!Limit(a.p) => Srch!Asked(a.p, began) \subseteq a.hits
CapOwn(a) ==
    ~ a.complete => \/ a.p.cams = {} \/ Srch!Cardinality(a.p.cams) > CAMERA_PRED_MAX
                    \/ \E src \in SrchSource :
                          Srch!Cardinality({r \in facts : r.src = src /\ r.cam \in a.p.cams}) >= fetch_cap

LEMMA AnswersAre ==
  /\ Srch!AnswersAll <=> \A a \in answer : AnswerAll(a)
  /\ Srch!OwnCapOnly <=> \A a \in answer : CapOwn(a)
BY Zenon DEF Srch!AnswersAll, Srch!OwnCapOnly, AnswerAll, CapOwn

RowsRead == UNION UNION {fetched[s] : s \in SrchSource}

LEMMA FactAsked ==
  ASSUME FactsSound, NEW p \in Srch!Plans, NEW f \in facts
  PROVE  Srch!InHours(p, f.ts % Hours) <=> Srch!InWindow(p, f.ts % Hours)
<1>1. f.ts \in Nat /\ Hours \in Nat \ {0}
  BY SearchAssumption DEF FactsSound, FactRec
<1>2. f.ts % Hours \in 0..(Hours - 1)
  BY <1>1
<1> QED BY <1>2, PlanIs, HoursAsked

LEMMA AnswerSound ==
  ASSUME SearchInv, NEW p \in plan, Srch!Due(p) = {}
  PROVE  LET a == [p |-> p, hits |-> Srch!Hits(p, fetched), complete |-> ~ Srch!Truncated(fetched)]
         IN AnswerAll(a) /\ CapOwn(a)
<1> USE DEF SearchInv
<1> DEFINE R == Srch!Retained(p, RowsRead)
           hits == Srch!Hits(p, fetched)
           complete == ~ Srch!Truncated(fetched)
           a == [p |-> p, hits |-> hits, complete |-> complete]
<1>1. p \in Srch!Plans /\ Srch!Limit(p) \in Nat
  BY PlanIs
<1>2. hits = NewestRows(R, Srch!Limit(p))
  BY NewestIs DEF Srch!Hits, RowsRead
<1>3. \A s \in SrchSource : \A page \in fetched[s] : Srch!want(p, s) /\ PageOf(p, s, page)
  BY DEF PagesSound
<1>4. ASSUME NEW r \in RowsRead
      PROVE  r \in facts /\ Srch!want(p, r.src) /\ Srch!camera_pred(p, r)
  <2>0. PICK s \in SrchSource : \E page \in fetched[s] : r \in page
    BY DEF RowsRead
  <2>1. PICK page \in fetched[s] : r \in page
    BY <2>0
  <2>2. r \in Matching(p, s, facts)
    BY <1>3, <2>1, PageWithin
  <2> QED BY <1>3, <2>1, <2>2 DEF Matching
<1>5. ASSUME NEW r \in R PROVE r \in Srch!Asked(p, facts)
  <2>1. r \in RowsRead /\ (p.cams # {} => r.cam \in p.cams) /\ Srch!InHours(p, r.ts % Hours)
    BY DEF Srch!Retained
  <2>2. r \in facts /\ Srch!want(p, r.src)
    BY <1>4, <2>1
  <2>3. Srch!InWindow(p, r.ts % Hours)
    BY <1>1, <2>1, <2>2, FactAsked
  <2> QED BY <2>1, <2>2, <2>3 DEF Srch!Asked, Srch!want
<1>6. hits \subseteq R
  BY <1>2 DEF NewestRows
<1>7. R \subseteq facts /\ IsFiniteSet(R)
  <2>1. R \subseteq facts
    BY <1>4 DEF Srch!Retained
  <2> QED BY <2>1, FS_Subset DEF FactsSound
<1>8. ASSUME complete, Cardinality(hits) < Srch!Limit(p), NEW r \in Srch!Asked(p, began) PROVE r \in hits
  <2>1. /\ r \in facts /\ r \in began /\ (p.want = {} \/ r.src \in p.want) /\ (p.cams = {} \/ r.cam \in p.cams)
        /\ Srch!InWindow(p, r.ts % Hours)
    BY <1>8 DEF Srch!Asked
  <2>2. r.src \in SrchSource
    BY <2>1 DEF FactsSound, FactRec
  <2>3. PICK page \in fetched[r.src] : TRUE
    BY <2>1, <2>2 DEF Srch!Due, Srch!want, Srch!Unread
  <2>4. PageOf(p, r.src, page)
    BY <1>3, <2>2, <2>3
  <2>5. Cardinality(page) < fetch_cap
    <3>1. ~ (Cardinality(page) >= fetch_cap)
      BY <1>8, <2>2, <2>3, SrchCards DEF Srch!Truncated
    <3>2. Cardinality(page) \in Nat /\ fetch_cap \in Nat
      BY <2>4, PageWithin, SearchAssumption
    <3> QED BY <3>1, <3>2
  <2>6. r \in Matching(p, r.src, began)
    BY <2>1 DEF Matching, Srch!camera_pred
  <2>7. r \in page
    BY <2>4, <2>5, <2>6, PageWhole
  <2>8. r \in RowsRead
    BY <2>2, <2>7 DEF RowsRead
  <2>9. Srch!InHours(p, r.ts % Hours)
    BY <1>1, <2>1, FactAsked
  <2>10. r \in R
    BY <2>1, <2>8, <2>9 DEF Srch!Retained
  <2>11. hits = R
    <3>1. \A x \in R : x.ts \in Nat /\ x.ts < Cardinality(facts)
      BY <1>7, SMTT(60) DEF FactsSound, FactRec
    <3>2. Cardinality(facts) \in Nat
      BY FS_CardinalityType DEF FactsSound
    <3> HIDE DEF R, hits
    <3> QED BY <1>1, <1>2, <1>7, <1>8, <3>1, <3>2, NotFullIsAll
  <2> QED BY <2>10, <2>11
<1>9. ASSUME ~ complete, p.cams # {}, ~ (Cardinality(p.cams) > CAMERA_PRED_MAX)
      PROVE  \E s \in SrchSource : Cardinality({r \in facts : r.src = s /\ r.cam \in p.cams}) >= fetch_cap
  <2>1. PICK s \in SrchSource : \E page \in fetched[s] : Cardinality(page) >= fetch_cap
    BY <1>9, SrchCards DEF Srch!Truncated
  <2>2. PICK page \in fetched[s] : Cardinality(page) >= fetch_cap
    BY <2>1
  <2>3. page \subseteq Matching(p, s, facts) /\ Cardinality(page) \in Nat
    BY <1>3, PageWithin
  <2> DEFINE own == {r \in facts : r.src = s /\ r.cam \in p.cams}
  <2>4. Cardinality(p.cams) <= CAMERA_PRED_MAX
    <3>1. Cardinality(p.cams) \in Nat /\ CAMERA_PRED_MAX \in Nat
      BY <1>1, PlanIs, SearchAssumption
    <3> QED BY <1>9, <3>1
  <2>5. page \subseteq own
    BY <1>9, <2>3, <2>4, SrchCards DEF Matching, Srch!camera_pred
  <2>6. IsFiniteSet(own)
    <3>1. own \subseteq facts
      OBVIOUS
    <3> QED BY <3>1, FS_Subset DEF FactsSound
  <2>7. Cardinality(page) <= Cardinality(own) /\ Cardinality(own) \in Nat
    BY <2>5, <2>6, FS_Subset, FS_CardinalityType
  <2>8. Cardinality(own) >= fetch_cap
    BY <2>2, <2>3, <2>7, SearchAssumption
  <2> QED BY <2>8
<1> HIDE DEF hits, complete, R
<1>10. a.p = p /\ a.hits = hits /\ a.complete = complete
  OBVIOUS
<1> HIDE DEF a
<1>11. AnswerAll(a)
  BY <1>5, <1>6, <1>8, <1>10, SrchCards DEF AnswerAll
<1>12. CapOwn(a)
  BY <1>9, <1>10, SrchCards DEF CapOwn
<1> QED BY <1>11, <1>12 DEF a, hits, complete

LEMMA AnswersNext ==
  /\ Srch!AnswersAll' <=> \A a \in answer' : AnswerAll(a)'
  /\ Srch!OwnCapOnly' <=> \A a \in answer' : CapOwn(a)'
BY Zenon DEF Srch!AnswersAll, Srch!OwnCapOnly, AnswerAll, CapOwn

(* An answer stays right while facts are recorded. *)
LEMMA AnswersKept ==
  ASSUME SearchInv, facts \subseteq facts', IsFiniteSet(facts'), UNCHANGED began, UNCHANGED answer
  PROVE  Srch!AnswersAll' /\ Srch!OwnCapOnly'
<1>1. ASSUME NEW a \in answer PROVE AnswerAll(a)' /\ CapOwn(a)'
  <2>1. AnswerAll(a) /\ CapOwn(a)
    BY AnswersAre DEF SearchInv
  <2>2. AnswerAll(a)'
    <3>1. Srch!Asked(a.p, facts) \subseteq Srch!Asked(a.p, facts')
      BY DEF Srch!Asked
    <3> QED BY <2>1, <3>1 DEF AnswerAll
  <2>3. ASSUME NEW s \in SrchSource, Srch!Cardinality({r \in facts : r.src = s /\ r.cam \in a.p.cams}) >= fetch_cap
        PROVE  Srch!Cardinality({r \in facts' : r.src = s /\ r.cam \in a.p.cams}) >= fetch_cap
    <3> DEFINE S == {r \in facts : r.src = s /\ r.cam \in a.p.cams}
               T == {r \in facts' : r.src = s /\ r.cam \in a.p.cams}
    <3>1. S \subseteq T /\ T \subseteq facts'
      OBVIOUS
    <3>2. IsFiniteSet(T)
      BY <3>1, FS_Subset
    <3>3. IsFiniteSet(S) /\ Cardinality(S) <= Cardinality(T)
      BY <3>1, <3>2, FS_Subset
    <3>4. Cardinality(S) \in Nat /\ Cardinality(T) \in Nat /\ fetch_cap \in Nat
      BY <3>2, <3>3, FS_CardinalityType, SearchAssumption
    <3>5. Cardinality(S) >= fetch_cap
      BY <2>3, SrchCards
    <3> HIDE DEF S, T
    <3>6. Cardinality(T) >= fetch_cap
      BY <3>3, <3>4, <3>5
    <3> QED BY <3>6, SrchCards DEF T
  <2>4. CapOwn(a)'
    BY <2>1, <2>3 DEF CapOwn
  <2> QED BY <2>2, <2>4
<1> QED BY <1>1, AnswersNext

LEMMA SearchInvRecord ==
  ASSUME SearchInv, Srch!RecordFact
  PROVE  SearchInv'
<1> USE DEF SearchInv
<1>1. PICK s \in SrchSource, cam \in SrchCamera : facts' = facts \cup {[src |-> s, ts |-> Cardinality(facts), cam |-> cam]}
  BY SrchCards, SMTT(60) DEF Srch!RecordFact
<1>2. UNCHANGED <<plan, fetched, began, answer>>
  BY DEF Srch!RecordFact
<1> DEFINE n == Cardinality(facts)
           new == [src |-> s, ts |-> n, cam |-> cam]
<1>3. n \in Nat /\ IsFiniteSet(facts)
  BY FS_CardinalityType DEF FactsSound
<1>4. new \in FactRec /\ new.ts = n
  BY <1>3 DEF FactRec
<1>5. facts' = facts \cup {new}
  BY <1>1
<1> HIDE DEF new, n
<1>6. new \notin facts
  BY <1>3, <1>4 DEF FactsSound, n
<1>7. IsFiniteSet(facts') /\ Cardinality(facts') = n + 1
  BY <1>3, <1>5, <1>6, FS_AddElement DEF n
<1>8. FactsSound'
  <2>1. ASSUME NEW f \in facts' PROVE f \in FactRec /\ f.ts < Cardinality(facts')
    <3>1. CASE f \in facts
      <4>1. f \in FactRec /\ f.ts < n
        BY <3>1 DEF FactsSound, n
      <4>2. f.ts \in Nat
        BY <4>1 DEF FactRec
      <4> QED BY <1>3, <1>7, <4>1, <4>2
    <3>2. CASE f = new
      BY <1>3, <1>4, <1>7, <3>2
    <3> QED BY <1>5, <3>1, <3>2
  <2> QED BY <1>7, <2>1 DEF FactsSound
<1>9. PagesSound'
  <2>1. facts \subseteq facts'
    BY <1>5
  <2>2. \A p, r, page : PageOf(p, r, page) => PageOf(p, r, page)'
    BY <1>2, <2>1 DEF PageOf
  <2> QED BY <1>2, <2>1, <2>2 DEF PagesSound
<1>10. Srch!AnswersAll' /\ Srch!OwnCapOnly'
  BY <1>2, <1>5, <1>7, AnswersKept
<1> QED BY <1>2, <1>5, <1>8, <1>9, <1>10

LEMMA SearchInvExecute ==
  ASSUME SearchInv, Srch!execute_in
  PROVE  SearchInv'
<1> USE DEF SearchInv
<1>1. PICK p \in Srch!Plans : plan' = {p}
  BY DEF Srch!execute_in
<1>2. plan = {} /\ answer = {} /\ began' = facts /\ UNCHANGED <<facts, fetched, answer>>
  BY DEF Srch!execute_in
<1>3. \A s \in SrchSource : fetched[s] = {}
  BY <1>2 DEF PagesSound
<1>4. FactsSound' /\ PagesSound'
  BY <1>2, <1>3 DEF FactsSound, PagesSound
<1>5. Srch!AnswersAll' /\ Srch!OwnCapOnly'
  BY <1>2, AnswersNext
<1> QED BY <1>1, <1>2, <1>4, <1>5

LEMMA SearchInvFetch ==
  ASSUME SearchInv, Srch!FetchSource
  PROVE  SearchInv'
<1> USE DEF SearchInv
<1>1. PICK p \in plan : Srch!Due(p) # {} /\ \E s \in Srch!Due(p) : fetched' = [fetched EXCEPT ![s] = {Srch!Fetch(p, s, facts)}]
  BY DEF Srch!FetchSource
<1>2. PICK s \in Srch!Due(p) : fetched' = [fetched EXCEPT ![s] = {Srch!Fetch(p, s, facts)}]
  BY <1>1
<1>3. UNCHANGED <<facts, plan, began, answer>>
  BY DEF Srch!FetchSource
<1>4. s \in SrchSource /\ Srch!want(p, s)
  BY DEF Srch!Due
<1> DEFINE page == Srch!Fetch(p, s, facts)
<1>5. PageOf(p, s, page)
  BY DEF PageOf
<1>6. page \subseteq facts
  <2>1. page \subseteq Matching(p, s, facts)
    BY <1>5, PageWithin
  <2> QED BY <2>1 DEF Matching
<1>7. fetched' = [fetched EXCEPT ![s] = {page}]
  BY <1>2
<1> HIDE DEF page
<1>8. \A q, r, x : PageOf(q, r, x)' = PageOf(q, r, x)
  BY <1>3 DEF PageOf
<1>9. PagesSound'
  <2>1. fetched' \in [SrchSource -> SUBSET SUBSET facts]
    BY <1>4, <1>6, <1>7 DEF PagesSound
  <2>2. ASSUME NEW r \in SrchSource, NEW x \in fetched'[r] PROVE \E q \in plan : Srch!want(q, r) /\ PageOf(q, r, x)
    <3>1. CASE r = s
      <4>1. x = page
        BY <1>4, <1>7, <3>1 DEF PagesSound
      <4> QED BY <1>4, <1>5, <3>1, <4>1
    <3>2. CASE r # s
      BY <1>7, <3>2 DEF PagesSound
    <3> QED BY <3>1, <3>2
  <2> QED BY <1>3, <1>8, <2>1, <2>2 DEF PagesSound
<1>10. Srch!AnswersAll' /\ Srch!OwnCapOnly'
  BY <1>3, AnswersKept DEF FactsSound
<1> QED BY <1>3, <1>9, <1>10 DEF FactsSound

LEMMA SearchInvBuild ==
  ASSUME SearchInv, Srch!build
  PROVE  SearchInv'
<1> USE DEF SearchInv
<1>1. PICK p \in plan :
        /\ Srch!Due(p) = {}
        /\ answer' = {[p |-> p, hits |-> Srch!Hits(p, fetched), complete |-> ~ Srch!Truncated(fetched)]}
        /\ plan' = {} /\ fetched' = [src \in SrchSource |-> {}]
        /\ UNCHANGED <<facts, began>>
  BY DEF Srch!build, Srch!Unread
<1> DEFINE a == [p |-> p, hits |-> Srch!Hits(p, fetched), complete |-> ~ Srch!Truncated(fetched)]
<1>2. AnswerAll(a) /\ CapOwn(a)
  BY <1>1, AnswerSound
<1>3. answer' = {a} /\ a.p = p
  BY <1>1
<1> HIDE DEF a
<1>4. ASSUME NEW b \in answer' PROVE AnswerAll(b)' /\ CapOwn(b)'
  <2>1. AnswerAll(b) /\ CapOwn(b)
    BY <1>2, <1>3
  <2> QED BY <1>1, <2>1 DEF AnswerAll, CapOwn, Srch!Asked
<1>5. Srch!AnswersAll' /\ Srch!OwnCapOnly'
  BY <1>4, AnswersNext
<1>6. FactsSound' /\ PagesSound'
  BY <1>1 DEF FactsSound, PagesSound
<1> QED BY <1>1, <1>3, <1>5, <1>6

LEMMA SearchInvAlways == AppsSpec => [](part = "search" => SearchInv)
<1>1. AppsInit => (part = "search" => SearchInv)
  <2> SUFFICES ASSUME AppsInit, part = "search" PROVE SearchInv
    OBVIOUS
  <2>1. facts = {} /\ plan = {} /\ began = {} /\ answer = {} /\ fetched = [s \in SrchSource |-> {}]
    BY DEF AppsInit, Srch!SrchInit, Srch!Unread
  <2>2. FactsSound /\ PagesSound
    BY <2>1, FS_EmptySet DEF FactsSound, PagesSound
  <2>3. Srch!AnswersAll /\ Srch!OwnCapOnly
    BY <2>1, AnswersAre
  <2> QED BY <2>1, <2>2, <2>3 DEF SearchInv
<1>2. ASSUME part = "search" => SearchInv, [AppsNext]_appsVars PROVE (part = "search" => SearchInv)'
  <2>1. ASSUME SearchInv, UNCHANGED srchVars PROVE SearchInv'
    <3>1. UNCHANGED <<facts, plan, fetched, began, answer>>
      BY <2>1 DEF srchVars
    <3>2. Srch!AnswersAll' /\ Srch!OwnCapOnly'
      BY <2>1, <3>1, AnswersKept DEF SearchInv, FactsSound
    <3>3. FactsSound' /\ PagesSound'
      BY <2>1, <3>1 DEF SearchInv, FactsSound, PagesSound, PageOf
    <3> QED BY <2>1, <3>1, <3>2, <3>3 DEF SearchInv
  <2>2. UNCHANGED part /\ (part = "search" => Srch!RecordFact \/ Srch!SearchStep \/ UNCHANGED srchVars)
    BY <1>2 DEF AppsNext, appsVars
  <2>3. ASSUME SearchInv, Srch!RecordFact \/ Srch!SearchStep PROVE SearchInv'
    BY <2>3, SearchInvRecord, SearchInvExecute, SearchInvFetch, SearchInvBuild DEF Srch!SearchStep
  <2> QED BY <1>2, <2>1, <2>2, <2>3
<1> QED BY <1>1, <1>2, PTL DEF AppsSpec

-----------------------------------------------------------------------------
(* Whatever is asked and recorded, and whichever workers die: a structured search answers with all that was
   asked for and nothing else, and is cut short for its own cameras' sake only; what a semantic search goes
   on with was computed by the worker its row was last given to; its ranking has the best of what fits, a
   crop is shown for its own camera only, and no likeness rests on one crop (query.rs, semantic.rs,
   embeddings.rs). *)
THEOREM AnswersStayTrue == AppsSpec => []AnswersTrue
<1>1. ASSUME part = "search" => SearchInv, part = "queue" => EmbInv, part = "vectors" => VecInv
      PROVE  AnswersTrue
  <2>1. SearchInv => Srch!AnswersAll /\ Srch!OwnCapOnly
    BY DEF SearchInv
  <2>2. EmbInv => Srch!AnswerIsClaimants /\ Srch!RowsWanted
    BY DEF EmbInv, RowSound, Srch!AnswerIsClaimants, Srch!RowsWanted
  <2>3. VecInv => Vec!BestRanked /\ Vec!CropsScoped /\ Vec!NotOneCrop
    BY VecInvTrue
  <2> QED BY <1>1, <2>1, <2>2, <2>3 DEF AnswersTrue
<1> QED BY <1>1, SearchInvAlways, EmbInvAlways, VecInvAlways, PTL

=============================================================================
