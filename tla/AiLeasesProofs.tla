---------------------------- MODULE AiLeasesProofs ----------------------------
(* Machine-checked proofs about AiLeases, for any number of tasks,
   credentials, workers and calls, and any clock. *)
EXTENDS AiLeases, TLAPS

Calm == {"overlap", "late_put"} \cap Faults = {}

(* No lease starts in the future, and a call that is running started last. *)
ClockInv ==
  /\ \A c \in Call : call[c].at <= now
  /\ \A c, d \in Call : SameHolder(c, d) /\ call[d].pc = "busy" => call[c].at <= call[d].at

InCall(c) == call[c].pc \in {"busy", "deleting"}

(* A worker has one call in progress, and only a running call has a lease to
   mirror, one at a time. *)
CallInv ==
  /\ \A c, d \in Call : SameHolder(c, d) /\ InCall(c) /\ InCall(d) => c = d
  /\ \A c \in Call : call[c].pc # "busy" => call[c].put = {}
  /\ \A c \in Call : \A t, u \in call[c].put : t = u

(* A row that is still c's, or a lease c that is of no use any more. *)
HoldsOrLapsed(c, t) == row[t] = c \/ ~Live(c)

(* Which calls the table, the mirror and the lookups can refer to. *)
RefInv ==
  /\ \A t \in Task : row[t] # None => call[row[t]].pc \in {"busy", "done", "lost"}
  /\ \A t \in Task, k \in Key : cache[t][k] # None =>
        call[cache[t][k]].key = k /\ call[cache[t][k]].pc \in {"busy", "done", "deleting", "lost"}
  /\ \A l \in look : /\ call[l[3]].key = l[1]
                     /\ call[l[3]].pc \in {"busy", "done", "lost"}
                     /\ HoldsOrLapsed(l[3], l[2])
  /\ \A c \in Call : \A t \in call[c].put : HoldsOrLapsed(c, t)

(* The row of t is a renewal of c that is about to be mirrored, or that was
   cut off before it was. *)
Renewed(c, t) ==
  /\ row[t] # None /\ SameHolder(c, row[t])
  /\ \/ call[row[t]].pc = "busy" /\ t \in call[row[t]].put
     \/ call[row[t]].pc = "lost"
  /\ call[c].at <= call[row[t]].at

(* A live lease in the mirror is the one in the table, unless it is being
   released or has just been renewed. *)
MirrorInv ==
  \A t \in Task, k \in Key, e \in Call : cache[t][k] = e /\ Live(e) =>
     call[e].pc = "deleting" \/ row[t] = e \/ Renewed(e, t)

IInv == TypeOK /\ ClockInv /\ CallInv /\ RefInv /\ MirrorInv
-----------------------------------------------------------------------------
CallRecord == [pc : CallPc, key : Key, worker : Worker, at : Nat,
               todo : SUBSET Task, put : SUBSET Task]

(* A step that changes one call's record. *)
Only(c) == \A d \in Call \ {c} : call'[d] = call[d]

(* What each action does to the call it belongs to. *)
LEMMA BeginEffect ==
  ASSUME TypeOK, NEW c \in Call, NEW S \in SUBSET Task, AcquireBegin(c, S)
  PROVE  /\ Only(c) /\ call' \in [Call -> CallRecord]
         /\ call'[c].pc = "busy" /\ call'[c].at = now /\ call'[c].put = call[c].put
         /\ call'[c].key = call[c].key /\ call'[c].worker = call[c].worker
BY DEF AcquireBegin, TypeOK, Only, CallRecord, CallPc

(* The INSERT of one task. *)
LEMMA InsertEffect ==
  ASSUME TypeOK, NEW c \in Call, NEW t \in Task, AcquireInsert(c, t)
  PROVE  /\ Only(c) /\ call' \in [Call -> CallRecord]
         /\ call'[c].pc = "busy" /\ call'[c].at = call[c].at
         /\ call'[c].key = call[c].key /\ call'[c].worker = call[c].worker
         /\ \/ Claimable(c, t) /\ row' = [row EXCEPT ![t] = c] /\ call'[c].put = {t}
            \/ ~Claimable(c, t) /\ row' = row /\ call'[c].put = {}
<1>1. CASE Claimable(c, t)
  <2>1. call' = [call EXCEPT ![c].todo = @ \ {t}, ![c].put = {t}] /\ row' = [row EXCEPT ![t] = c]
    BY <1>1 DEF AcquireInsert
  <2>2. call[c].pc = "busy"
    BY DEF AcquireInsert
  <2> QED BY <1>1, <2>1, <2>2, ZenonT(60) DEF TypeOK, Only, CallRecord
<1>2. CASE ~Claimable(c, t)
  <2>1. call' = [call EXCEPT ![c].todo = @ \ {t}] /\ row' = row
    BY <1>2 DEF AcquireInsert
  <2>2. call[c].pc = "busy" /\ call[c].put = {}
    BY DEF AcquireInsert
  <2> QED BY <1>2, <2>1, <2>2 DEF TypeOK, Only, CallRecord
<1> QED BY <1>1, <1>2

(* The other actions of a call. *)
LEMMA CallEffect ==
  ASSUME TypeOK, NEW c \in Call,
         (\E t \in Task : AcquirePut(c, t)) \/ AcquireEnd(c) \/ AcquireFail(c) \/ Release(c)
  PROVE  /\ Only(c) /\ call' \in [Call -> CallRecord]
         /\ call'[c].at = call[c].at
         /\ call'[c].key = call[c].key /\ call'[c].worker = call[c].worker
<1>1. ASSUME NEW t \in Task, AcquirePut(c, t)
      PROVE  /\ Only(c) /\ call' \in [Call -> CallRecord]
             /\ call'[c].at = call[c].at
             /\ call'[c].key = call[c].key /\ call'[c].worker = call[c].worker
  BY <1>1, ZenonT(60) DEF AcquirePut, TypeOK, Only, CallRecord
<1>2. CASE AcquireEnd(c)
  BY <1>2, ZenonT(60) DEF AcquireEnd, TypeOK, Only, CallRecord, CallPc
<1>3. CASE ReleaseDelete(c)
  BY <1>3, ZenonT(60) DEF ReleaseDelete, TypeOK, Only, CallRecord, CallPc
<1>4. CASE ReleaseEvict(c)
  BY <1>4, ZenonT(60) DEF ReleaseEvict, TypeOK, Only, CallRecord, CallPc
<1>5. CASE AcquireFail(c)
  <2>1. [call[c] EXCEPT !.pc = "lost", !.todo = {}, !.put = {}] \in CallRecord
    BY DEF TypeOK, CallRecord, CallPc
  <2>2. PICK r \in CallRecord : /\ r = [call[c] EXCEPT !.pc = "lost", !.todo = {}, !.put = {}]
                                /\ call' = [call EXCEPT ![c] = r]
    BY <1>5, <2>1 DEF AcquireFail
  <2>3. call \in [Call -> CallRecord]
    BY DEF TypeOK, CallRecord
  <2>4. Only(c) /\ call' \in [Call -> CallRecord] /\ call'[c] = r
    BY ONLY <2>2, <2>3, c \in Call DEF Only
  <2>5. r.at = call[c].at /\ r.key = call[c].key /\ r.worker = call[c].worker
    BY <2>2, <2>3 DEF CallRecord
  <2> QED BY <2>4, <2>5
<1> QED BY <1>1, <1>2, <1>3, <1>4, <1>5 DEF Release

(* ... and where they leave it. *)
LEMMA CallEnd ==
  ASSUME TypeOK, NEW c \in Call
  PROVE  /\ \A t \in Task : AcquirePut(c, t) => call'[c].pc = "busy" /\ call'[c].put = {}
         /\ AcquireEnd(c) => call'[c].pc = "done" /\ call'[c].put = {}
         /\ AcquireFail(c) => call'[c].pc = "lost" /\ call'[c].put = {}
         /\ ReleaseDelete(c) => call'[c].pc = "deleting" /\ call'[c].put = call[c].put
         /\ ReleaseEvict(c) => call'[c].pc = "released" /\ call'[c].put = call[c].put
<1>1. \A t \in Task : AcquirePut(c, t) => call'[c].pc = "busy" /\ call'[c].put = {}
  BY DEF AcquirePut, TypeOK
<1>2. AcquireEnd(c) => call'[c].pc = "done" /\ call'[c].put = {}
  BY DEF AcquireEnd, TypeOK
<1>3. ReleaseDelete(c) => call'[c].pc = "deleting" /\ call'[c].put = call[c].put
  BY DEF ReleaseDelete, TypeOK
<1>4. ReleaseEvict(c) => call'[c].pc = "released" /\ call'[c].put = call[c].put
  BY DEF ReleaseEvict, TypeOK
<1>5. AcquireFail(c) => call'[c].pc = "lost" /\ call'[c].put = {}
  BY DEF AcquireFail, TypeOK
<1> QED BY <1>1, <1>2, <1>3, <1>4, <1>5

(* A restart forgets the calls in progress. *)
LEMMA RestartEffect ==
  ASSUME TypeOK, Restart
  PROVE  /\ call' \in [Call -> CallRecord]
         /\ \A c \in Call : /\ call'[c].at = call[c].at
                            /\ call'[c].key = call[c].key /\ call'[c].worker = call[c].worker
                            /\ IF InCall(c) THEN call'[c].pc = "lost" /\ call'[c].put = {}
                               ELSE call'[c] = call[c]
<1>1. ASSUME NEW c \in Call
      PROVE  [call[c] EXCEPT !.pc = "lost", !.todo = {}, !.put = {}] \in CallRecord
  BY DEF TypeOK, CallRecord, CallPc
<1>2. ASSUME NEW c \in Call
      PROVE  call'[c] = IF InCall(c) THEN [call[c] EXCEPT !.pc = "lost", !.todo = {}, !.put = {}]
                        ELSE call[c]
  BY DEF Restart, InCall
<1>3. ASSUME NEW c \in Call PROVE call[c] \in CallRecord
  BY DEF TypeOK, CallRecord
<1>4. ASSUME NEW c \in Call PROVE call'[c] \in CallRecord
  BY <1>1, <1>2, <1>3
<1>5. call' = [c \in Call |-> call'[c]]
  BY DEF Restart
<1>6. call' \in [Call -> CallRecord]
  BY ONLY <1>4, <1>5
<1>7. ASSUME NEW c \in Call
      PROVE  /\ call'[c].at = call[c].at
             /\ call'[c].key = call[c].key /\ call'[c].worker = call[c].worker
             /\ IF InCall(c) THEN call'[c].pc = "lost" /\ call'[c].put = {}
                ELSE call'[c] = call[c]
  <2>1. call[c] \in CallRecord
    BY <1>3
  <2>2. CASE InCall(c)
    <3>1. call'[c] = [call[c] EXCEPT !.pc = "lost", !.todo = {}, !.put = {}]
      BY <1>2, <2>2
    <3> QED BY ONLY <2>1, <2>2, <3>1 DEF CallRecord
  <2>3. CASE ~InCall(c)
    BY <1>2, <2>3
  <2> QED BY ONLY <2>2, <2>3
<1> QED BY ONLY <1>6, <1>7

(* Types are preserved. *)
LEMMA TypeStep == TypeOK /\ [Next]_vars => TypeOK'
<1> SUFFICES ASSUME TypeOK, [Next]_vars PROVE TypeOK'
  OBVIOUS
<1>0. call \in [Call -> CallRecord]
  BY DEF TypeOK, CallRecord
<1>1. CASE Tick
  BY <1>1 DEF Tick, TypeOK
<1>2. CASE Lookup
  <2>1. ASSUME NEW k \in Key, NEW t \in Task, LookupRead(k, t) PROVE TypeOK'
    BY <2>1 DEF LookupRead, RowLive, TypeOK
  <2>2. ASSUME NEW l \in look, LookupPut(l) PROVE TypeOK'
    <3>1. l[1] \in Key /\ l[2] \in Task /\ l[3] \in Call
      BY DEF TypeOK
    <3>2. cache' \in [Task -> [Key -> Call \cup {None}]]
      BY <2>2, <3>1 DEF LookupPut, TypeOK
    <3> QED BY <2>2, <3>2 DEF LookupPut, TypeOK
  <2> QED BY <1>2, <2>1, <2>2 DEF Lookup
<1>3. CASE Restart
  BY <1>3, RestartEffect DEF Restart, TypeOK, CallRecord
<1>4. ASSUME NEW c \in Call, Acquire(c) PROVE TypeOK'
  <2>1. ASSUME NEW S \in SUBSET Task, AcquireBegin(c, S) PROVE TypeOK'
    BY <2>1, BeginEffect DEF AcquireBegin, TypeOK, CallRecord
  <2>2. ASSUME NEW t \in Task, AcquireInsert(c, t) PROVE TypeOK'
    <3>1. row' \in [Task -> Call \cup {None}] /\ call' \in [Call -> CallRecord]
      BY <2>2, InsertEffect DEF TypeOK
    <3> QED BY <2>2, <3>1 DEF AcquireInsert, TypeOK, CallRecord
  <2>3. ASSUME NEW t \in Task, AcquirePut(c, t) PROVE TypeOK'
    <3>1. call' \in [Call -> CallRecord]
      BY <2>3, CallEffect
    <3> QED BY <2>3, <3>1 DEF AcquirePut, TypeOK, CallRecord
  <2>4. CASE AcquireEnd(c)
    BY <2>4, CallEffect DEF AcquireEnd, TypeOK, CallRecord
  <2>5. CASE AcquireFail(c)
    BY <2>5, CallEffect DEF AcquireFail, TypeOK, CallRecord
  <2> QED BY <1>4, <2>1, <2>2, <2>3, <2>4, <2>5 DEF Acquire
<1>5. ASSUME NEW c \in Call, Release(c) PROVE TypeOK'
  <2>1. call' \in [Call -> CallRecord]
    BY <1>5, CallEffect
  <2> QED BY <1>5, <2>1 DEF Release, ReleaseDelete, ReleaseEvict, TypeOK, CallRecord
<1>6. CASE UNCHANGED vars
  BY <1>6 DEF vars, TypeOK
<1> QED BY <1>1, <1>2, <1>3, <1>4, <1>5, <1>6 DEF Next

-----------------------------------------------------------------------------
(* A step of call c that keeps its credential, worker and start, and the
   clock. *)
Steady(c) ==
  /\ Only(c) /\ now' = now
  /\ call'[c].key = call[c].key /\ call'[c].worker = call[c].worker
  /\ call'[c].at = call[c].at

(* Such a step changes neither who a lease belongs to nor whether it lives. *)
LEMMA SteadyFacts ==
  ASSUME NEW c \in Call, Steady(c)
  PROVE  /\ \A d, e \in Call : SameHolder(d, e)' = SameHolder(d, e)
         /\ \A d \in Call : Live(d)' = Live(d) /\ call'[d].at = call[d].at /\ call'[d].key = call[d].key
BY DEF Steady, Only, SameHolder, Live, Expiry

(* The clock moves: leases lapse and nothing else happens. *)
LEMMA TickStep == IInv /\ Tick => ClockInv' /\ CallInv' /\ RefInv' /\ MirrorInv'
<1> SUFFICES ASSUME IInv, Tick PROVE ClockInv' /\ CallInv' /\ RefInv' /\ MirrorInv'
  OBVIOUS
<1> USE DEF Tick
<1>1. now \in Nat /\ now' = now + 1 /\ \A c \in Call : call[c].at \in Nat
  BY DEF IInv, TypeOK
<1>2. \A c \in Call : Live(c)' => Live(c)
  BY <1>1, LeaseAssumption DEF Live, Expiry
<1>3. ClockInv'
  BY <1>1 DEF IInv, ClockInv, SameHolder
<1>4. CallInv'
  BY DEF IInv, CallInv, InCall, SameHolder
<1>5. RefInv'
  BY <1>2 DEF IInv, RefInv, HoldsOrLapsed, TypeOK
<1>6. MirrorInv'
  BY <1>2 DEF IInv, MirrorInv, CacheLive, Renewed, SameHolder, TypeOK
<1> QED BY <1>3, <1>4, <1>5, <1>6

(* An acquire begins: its call is idle, so nothing refers to it yet. *)
LEMMA BeginStep ==
  ASSUME IInv, Calm, NEW c \in Call, NEW S \in SUBSET Task, AcquireBegin(c, S)
  PROVE  ClockInv' /\ CallInv' /\ RefInv' /\ MirrorInv'
<1>0. TypeOK
  BY DEF IInv
<1>1. /\ Only(c) /\ call'[c].pc = "busy" /\ call'[c].at = now /\ call'[c].put = call[c].put
      /\ call'[c].key = call[c].key /\ call'[c].worker = call[c].worker
  BY <1>0, BeginEffect
<1>2. /\ call[c].pc = "idle" /\ now' = now /\ row' = row /\ cache' = cache /\ look' = look
      /\ \A d \in Call : SameHolder(c, d) => ~InCall(d)
  BY DEF AcquireBegin, OneCall, Calm, InCall
<1>3. \A d, e \in Call : SameHolder(d, e)' = SameHolder(d, e)
  BY <1>1 DEF SameHolder, Only
<1>4. \A d \in Call \ {c} : Live(d)' = Live(d) /\ call'[d] = call[d]
  BY <1>1, <1>2 DEF Live, Expiry, Only
<1>5. ClockInv'
  <2>1. \A d \in Call : call'[d].at <= now' /\ call[d].at <= now /\ call[d].at \in Nat /\ now \in Nat
    BY <1>0, <1>1, <1>2, <1>4 DEF IInv, ClockInv, TypeOK
  <2>2. ASSUME NEW d \in Call, NEW e \in Call, SameHolder(d, e), call'[e].pc = "busy"
        PROVE  call'[d].at <= call'[e].at
    <3>1. CASE e = c
      BY <1>1, <1>2, <2>1, <3>1
    <3>2. CASE e # c /\ d # c
      BY <1>4, <2>2, <3>2 DEF IInv, ClockInv
    <3>3. CASE e # c /\ d = c
      BY <1>2, <1>4, <2>2, <3>3 DEF InCall
    <3> QED BY <3>1, <3>2, <3>3
  <2> QED BY <1>3, <2>1, <2>2 DEF ClockInv
<1>6. CallInv'
  <2>1. ASSUME NEW d \in Call, NEW e \in Call, SameHolder(d, e), InCall(d)', InCall(e)'
        PROVE  d = e
    <3>1. CASE d # c /\ e # c
      BY <1>4, <2>1, <3>1 DEF IInv, CallInv, InCall
    <3>2. CASE d = c /\ e # c
      BY <1>2, <1>4, <2>1, <3>2 DEF InCall
    <3>3. CASE d # c /\ e = c
      BY <1>2, <1>4, <2>1, <3>3 DEF InCall, SameHolder
    <3> QED BY <3>1, <3>2, <3>3
  <2>2. \A d \in Call : call'[d].pc # "busy" => call'[d].put = {}
    BY <1>1, <1>4 DEF IInv, CallInv
  <2>3. \A d \in Call : \A t, u \in call'[d].put : t = u
    BY <1>1, <1>4 DEF IInv, CallInv
  <2> QED BY <1>3, <2>1, <2>2, <2>3 DEF CallInv
<1>7. /\ \A t \in Task : row[t] # c
      /\ \A t \in Task, k \in Key : cache[t][k] # c
      /\ \A l \in look : l[3] # c
      /\ call[c].put = {}
  BY <1>0, <1>2, LeaseAssumption DEF IInv, RefInv, CallInv
<1>8. RefInv'
  BY <1>0, <1>1, <1>2, <1>4, <1>7, SMTT(60) DEF IInv, RefInv, HoldsOrLapsed, TypeOK
<1>9. MirrorInv'
  BY <1>0, <1>2, <1>3, <1>4, <1>7 DEF IInv, MirrorInv, CacheLive, Renewed, TypeOK
<1> QED BY <1>5, <1>6, <1>8, <1>9

(* The INSERT of one task: a lease it replaces has lapsed or is the worker's
   own, and the worker has no other call that could still mirror it. *)
LEMMA InsertStep ==
  ASSUME IInv, Calm, NEW c \in Call, NEW t \in Task, AcquireInsert(c, t)
  PROVE  ClockInv' /\ CallInv' /\ RefInv' /\ MirrorInv'
<1>0. TypeOK
  BY DEF IInv
<1>1. /\ Only(c) /\ call'[c].pc = "busy" /\ call'[c].at = call[c].at
      /\ call'[c].key = call[c].key /\ call'[c].worker = call[c].worker
      /\ \/ Claimable(c, t) /\ row' = [row EXCEPT ![t] = c] /\ call'[c].put = {t}
         \/ ~Claimable(c, t) /\ row' = row /\ call'[c].put = {}
  BY <1>0, InsertEffect
<1>2. /\ call[c].pc = "busy" /\ call[c].put = {} /\ now' = now /\ cache' = cache /\ look' = look
      /\ \A l \in look : l[1] # call[c].key
  BY DEF AcquireInsert, NoLookup, Calm
<1>3. /\ \A d, e \in Call : SameHolder(d, e)' = SameHolder(d, e)
      /\ \A d \in Call : Live(d)' = Live(d) /\ call'[d].at = call[d].at /\ call'[d].key = call[d].key
  BY <1>1, <1>2, SteadyFacts DEF Steady
<1>4. \A d \in Call : /\ call'[d].pc = call[d].pc
                      /\ d # c => call'[d].put = call[d].put
  BY <1>1, <1>2 DEF Only
<1>5. ClockInv'
  BY <1>2, <1>3, <1>4 DEF IInv, ClockInv
<1>6. CallInv'
  BY <1>1, <1>2, <1>3, <1>4 DEF IInv, CallInv, InCall
<1>7. CASE row' = row /\ call'[c].put = {}
  <2>1. \A d \in Call : call'[d].put = call[d].put
    BY <1>2, <1>4, <1>7
  <2>2. RefInv'
    BY <1>0, <1>2, <1>3, <1>4, <1>7, <2>1 DEF IInv, RefInv, HoldsOrLapsed, TypeOK
  <2>3. MirrorInv'
    BY <1>0, <1>2, <1>3, <1>4, <1>7, <2>1, SMTT(60) DEF IInv, MirrorInv, CacheLive, Renewed, TypeOK
  <2> QED BY <1>5, <1>6, <2>2, <2>3
<1>8. CASE Claimable(c, t) /\ row' = [row EXCEPT ![t] = c] /\ call'[c].put = {t}
  <2>1. row'[t] = c /\ \A u \in Task : u # t => row'[u] = row[u]
    BY <1>0, <1>8 DEF TypeOK
  <2>2. ASSUME row[t] # None, Live(row[t]) PROVE SameHolder(row[t], c)
    <3>1. /\ row[t] \in Call /\ call[c].at \in Nat /\ now \in Nat /\ Expiry(row[t]) \in Nat
      BY <1>0, <2>2, LeaseAssumption DEF TypeOK, Expiry
    <3>2. call[c].at <= now /\ Expiry(row[t]) > now
      BY <2>2 DEF IInv, ClockInv, Live
    <3> QED BY <1>8, <2>2, <3>1, <3>2 DEF Claimable
  <2>3. ASSUME NEW d \in Call, SameHolder(d, c), InCall(d) PROVE d = c
    BY <1>2, <2>3 DEF IInv, CallInv, InCall
  <2>4. RefInv'
    <3>1. \A u \in Task : row'[u] # None => call'[row'[u]].pc \in {"busy", "done", "lost"}
      BY <1>0, <1>1, <1>4, <2>1 DEF IInv, RefInv, TypeOK
    <3>2. \A u \in Task, k \in Key : cache'[u][k] # None =>
            call'[cache'[u][k]].key = k /\ call'[cache'[u][k]].pc \in {"busy", "done", "deleting", "lost"}
      BY <1>0, <1>2, <1>3, <1>4 DEF IInv, RefInv, TypeOK
    <3>3. ASSUME NEW l \in look
          PROVE  /\ call'[l[3]].key = l[1] /\ call'[l[3]].pc \in {"busy", "done", "lost"}
                 /\ HoldsOrLapsed(l[3], l[2])'
      <4>1. /\ l[1] \in Key /\ l[2] \in Task /\ l[3] \in Call
            /\ call[l[3]].key = l[1] /\ call[l[3]].pc \in {"busy", "done", "lost"}
            /\ HoldsOrLapsed(l[3], l[2]) /\ l[1] # call[c].key
        BY <1>0, <1>2 DEF TypeOK, IInv, RefInv
      <4>2. ~SameHolder(l[3], c)
        BY <4>1 DEF SameHolder
      <4>3. HoldsOrLapsed(l[3], l[2])'
        BY <1>3, <2>1, <2>2, <4>1, <4>2, LeaseAssumption DEF HoldsOrLapsed
      <4> QED BY <1>3, <1>4, <4>1, <4>3
    <3>4. ASSUME NEW d \in Call, NEW u \in call'[d].put PROVE HoldsOrLapsed(d, u)'
      <4>1. CASE d = c
        BY <1>8, <2>1, <3>4, <4>1 DEF HoldsOrLapsed
      <4>2. CASE d # c
        <5>1. u \in call[d].put /\ call[d].pc = "busy" /\ HoldsOrLapsed(d, u)
          BY <1>4, <3>4, <4>2 DEF IInv, CallInv, RefInv
        <5>2. u \in Task
          BY <1>0, <5>1 DEF TypeOK
        <5> QED BY <1>3, <2>1, <2>2, <2>3, <4>2, <5>1, <5>2, LeaseAssumption
                DEF HoldsOrLapsed, InCall
      <4> QED BY <4>1, <4>2
    <3> QED BY <1>2, <3>1, <3>2, <3>3, <3>4 DEF RefInv
  <2>5. MirrorInv'
    <3> SUFFICES ASSUME NEW u \in Task, NEW k \in Key, NEW e \in Call,
                        cache'[u][k] = e, Live(e)'
                 PROVE  call'[e].pc = "deleting" \/ row'[u] = e \/ Renewed(e, u)'
      BY DEF MirrorInv
    <3>1. e \in Call /\ Live(e) /\ cache[u][k] = e
      BY <1>2, <1>3
    <3>2. call[e].pc = "deleting" \/ row[u] = e \/ Renewed(e, u)
      BY <3>1 DEF IInv, MirrorInv
    <3>3. CASE call[e].pc = "deleting"
      BY <1>4, <3>1, <3>3
    <3>4. CASE u # t /\ row[u] = e
      BY <2>1, <3>1, <3>4
    <3>5. CASE u # t /\ Renewed(e, u)
      <4>1. row[u] \in Call
        BY <1>0, <3>5 DEF Renewed, TypeOK
      <4>2. row[u] # c
        BY <1>2, <3>5 DEF Renewed
      <4>3. Renewed(e, u)'
        BY <1>3, <1>4, <2>1, <3>1, <3>5, <4>1, <4>2 DEF Renewed
      <4> QED BY <3>1, <4>3
    <3>6. CASE u = t /\ row[t] = e
      <4>1. SameHolder(e, c) /\ call[e].at <= call[c].at
        BY <1>2, <2>2, <3>1, <3>6, LeaseAssumption DEF IInv, ClockInv
      <4>2. Renewed(e, t)'
        BY <1>1, <1>3, <1>8, <2>1, <3>1, <4>1, LeaseAssumption DEF Renewed
      <4> QED BY <3>1, <3>6, <4>2
    <3>7. CASE u = t /\ Renewed(e, t)
      <4>1. /\ row[t] \in Call /\ row[t] # None /\ call[row[t]].pc \in {"busy", "lost"}
            /\ call[e].at <= call[row[t]].at /\ SameHolder(e, row[t]) /\ row[t] # c
        BY <1>0, <1>2, <3>7 DEF Renewed, TypeOK
      <4>2. Live(row[t])
        <5>1. call[e].at \in Nat /\ call[row[t]].at \in Nat /\ now \in Nat
          BY <1>0, <3>1, <4>1 DEF TypeOK
        <5> QED BY <3>1, <4>1, <5>1, LeaseAssumption DEF Live, Expiry
      <4>3. SameHolder(e, c)
        BY <2>2, <4>1, <4>2 DEF SameHolder
      <4>4. call[e].at <= call[c].at
        BY <1>2, <4>3 DEF IInv, ClockInv
      <4>5. Renewed(e, t)'
        BY <1>1, <1>3, <1>8, <2>1, <3>1, <4>3, <4>4, LeaseAssumption DEF Renewed
      <4> QED BY <3>7, <4>5
    <3> QED BY <3>2, <3>3, <3>4, <3>5, <3>6, <3>7
  <2> QED BY <1>5, <1>6, <2>4, <2>5
<1> QED BY <1>1, <1>7, <1>8

(* The new lease is mirrored: its row is still the call's own, or it lapsed
   while the call was at it. *)
LEMMA PutStep ==
  ASSUME IInv, NEW c \in Call, NEW t \in Task, AcquirePut(c, t)
  PROVE  ClockInv' /\ CallInv' /\ RefInv' /\ MirrorInv'
<1>0. TypeOK
  BY DEF IInv
<1>1. /\ Only(c) /\ call'[c].at = call[c].at
      /\ call'[c].key = call[c].key /\ call'[c].worker = call[c].worker
      /\ call'[c].pc = "busy" /\ call'[c].put = {}
  BY <1>0, CallEffect, CallEnd
<1>2. call[c].pc = "busy" /\ t \in call[c].put /\ now' = now /\ row' = row /\ look' = look
  BY DEF AcquirePut
<1>3. /\ \A d, e \in Call : SameHolder(d, e)' = SameHolder(d, e)
      /\ \A d \in Call : Live(d)' = Live(d) /\ call'[d].at = call[d].at /\ call'[d].key = call[d].key
  BY <1>1, <1>2, SteadyFacts DEF Steady
<1>4. \A d \in Call : call'[d].pc = call[d].pc /\ (d # c => call'[d].put = call[d].put)
  BY <1>1, <1>2 DEF Only
<1>5. \A u \in Task, k \in Key :
        cache'[u][k] = IF u = t /\ k = call[c].key THEN c ELSE cache[u][k]
  BY <1>0 DEF AcquirePut, TypeOK
<1>6. ClockInv'
  BY <1>2, <1>3, <1>4 DEF IInv, ClockInv
<1>7. CallInv'
  BY <1>1, <1>2, <1>3, <1>4 DEF IInv, CallInv, InCall
<1>8. RefInv'
  <2>1. \A u \in Task, k \in Key : cache'[u][k] # None =>
          call'[cache'[u][k]].key = k /\ call'[cache'[u][k]].pc \in {"busy", "done", "deleting", "lost"}
    BY <1>0, <1>1, <1>3, <1>4, <1>5 DEF IInv, RefInv, TypeOK
  <2>2. \A u \in Task : row'[u] # None => call'[row'[u]].pc \in {"busy", "done", "lost"}
    BY <1>0, <1>2, <1>4 DEF IInv, RefInv, TypeOK
  <2>3. \A l \in look : /\ call'[l[3]].key = l[1]
                        /\ call'[l[3]].pc \in {"busy", "done", "lost"}
                        /\ HoldsOrLapsed(l[3], l[2])'
    BY <1>0, <1>2, <1>3, <1>4 DEF IInv, RefInv, HoldsOrLapsed, TypeOK
  <2>4. \A d \in Call : \A u \in call'[d].put : HoldsOrLapsed(d, u)'
    BY <1>1, <1>2, <1>3, <1>4 DEF IInv, RefInv, HoldsOrLapsed
  <2> QED BY <1>2, <2>1, <2>2, <2>3, <2>4 DEF RefInv
<1>9. MirrorInv'
  <2> SUFFICES ASSUME NEW u \in Task, NEW k \in Key, NEW e \in Call, cache'[u][k] = e, Live(e)'
               PROVE  call'[e].pc = "deleting" \/ row'[u] = e \/ Renewed(e, u)'
    BY DEF MirrorInv
  <2>1. CASE u = t /\ k = call[c].key
    BY <1>2, <1>3, <1>5, <2>1 DEF IInv, RefInv, HoldsOrLapsed
  <2>2. CASE ~(u = t /\ k = call[c].key)
    <3>1. cache[u][k] = e /\ Live(e)
      BY <1>3, <1>5, <2>2
    <3>2. call[e].pc = "deleting" \/ row[u] = e \/ Renewed(e, u)
      BY <3>1 DEF IInv, MirrorInv
    <3>3. CASE Renewed(e, u)
      <4>1. row[u] \in Call
        BY <1>0, <3>3 DEF Renewed, TypeOK
      <4>2. row[u] # c
        <5> SUFFICES ASSUME row[u] = c PROVE FALSE
          OBVIOUS
        <5>1. u = t
          BY <1>2, <3>3 DEF Renewed, IInv, CallInv
        <5>2. call[e].key = call[c].key /\ call[e].key = k
          BY <3>1, <3>3, LeaseAssumption DEF Renewed, SameHolder, IInv, RefInv
        <5> QED BY <2>2, <5>1, <5>2
      <4> QED BY <1>2, <1>3, <1>4, <3>3, <4>1, <4>2 DEF Renewed
    <3> QED BY <1>2, <1>4, <3>2, <3>3
  <2> QED BY <2>1, <2>2
<1> QED BY <1>6, <1>7, <1>8, <1>9

(* An acquire returns with nothing left to mirror. *)
LEMMA EndStep ==
  ASSUME IInv, NEW c \in Call, AcquireEnd(c)
  PROVE  ClockInv' /\ CallInv' /\ RefInv' /\ MirrorInv'
<1>0. TypeOK
  BY DEF IInv
<1>1. /\ Only(c) /\ call'[c].at = call[c].at
      /\ call'[c].key = call[c].key /\ call'[c].worker = call[c].worker
      /\ call'[c].pc = "done" /\ call'[c].put = {}
  BY <1>0, CallEffect, CallEnd
<1>2. /\ call[c].pc = "busy" /\ call[c].put = {}
      /\ now' = now /\ row' = row /\ cache' = cache /\ look' = look
  BY DEF AcquireEnd
<1>3. /\ \A d, e \in Call : SameHolder(d, e)' = SameHolder(d, e)
      /\ \A d \in Call : Live(d)' = Live(d) /\ call'[d].at = call[d].at /\ call'[d].key = call[d].key
  BY <1>1, <1>2, SteadyFacts DEF Steady
<1>4. \A d \in Call : call'[d].put = call[d].put /\ (d # c => call'[d].pc = call[d].pc)
  BY <1>1, <1>2 DEF Only
<1>5. ClockInv'
  BY <1>1, <1>2, <1>3, <1>4 DEF IInv, ClockInv
<1>6. CallInv'
  BY <1>1, <1>2, <1>3, <1>4 DEF IInv, CallInv, InCall
<1>7. RefInv'
  <2>1. \A t \in Task : row'[t] # None => call'[row'[t]].pc \in {"busy", "done", "lost"}
    BY <1>0, <1>1, <1>2, <1>4 DEF IInv, RefInv, TypeOK
  <2>2. \A t \in Task, k \in Key : cache'[t][k] # None =>
          call'[cache'[t][k]].key = k /\ call'[cache'[t][k]].pc \in {"busy", "done", "deleting", "lost"}
    BY <1>0, <1>1, <1>2, <1>3, <1>4 DEF IInv, RefInv, TypeOK
  <2>3. \A l \in look : /\ call'[l[3]].key = l[1]
                        /\ call'[l[3]].pc \in {"busy", "done", "lost"}
                        /\ HoldsOrLapsed(l[3], l[2])'
    BY <1>0, <1>1, <1>2, <1>3, <1>4, SMTT(60) DEF IInv, RefInv, HoldsOrLapsed, TypeOK
  <2>4. \A d \in Call : \A t \in call'[d].put : HoldsOrLapsed(d, t)'
    BY <1>2, <1>3, <1>4 DEF IInv, RefInv, HoldsOrLapsed
  <2> QED BY <1>2, <2>1, <2>2, <2>3, <2>4 DEF RefInv
<1>8. MirrorInv'
  <2> SUFFICES ASSUME NEW u \in Task, NEW k \in Key, NEW e \in Call, cache'[u][k] = e, Live(e)'
               PROVE  call'[e].pc = "deleting" \/ row'[u] = e \/ Renewed(e, u)'
    BY DEF MirrorInv
  <2>1. call[e].pc = "deleting" \/ row[u] = e \/ Renewed(e, u)
    BY <1>2, <1>3 DEF IInv, MirrorInv
  <2>2. CASE Renewed(e, u)
    <3>1. row[u] \in Call /\ row[u] # c
      BY <1>0, <1>2, <2>2 DEF Renewed, TypeOK
    <3> QED BY <1>2, <1>3, <1>4, <2>2, <3>1 DEF Renewed
  <2> QED BY <1>1, <1>2, <1>4, <2>1, <2>2
<1> QED BY <1>5, <1>6, <1>7, <1>8

(* An acquire is cut off: a renewal it has not mirrored stays in the table. *)
LEMMA FailStep ==
  ASSUME IInv, NEW c \in Call, AcquireFail(c)
  PROVE  ClockInv' /\ CallInv' /\ RefInv' /\ MirrorInv'
<1>0. TypeOK
  BY DEF IInv
<1>1. /\ Only(c) /\ call'[c].at = call[c].at
      /\ call'[c].key = call[c].key /\ call'[c].worker = call[c].worker
      /\ call'[c].pc = "lost" /\ call'[c].put = {}
  BY <1>0, CallEffect, CallEnd
<1>2. /\ call[c].pc = "busy"
      /\ now' = now /\ row' = row /\ cache' = cache /\ look' = look
  BY DEF AcquireFail
<1>3. /\ \A d, e \in Call : SameHolder(d, e)' = SameHolder(d, e)
      /\ \A d \in Call : Live(d)' = Live(d) /\ call'[d].at = call[d].at /\ call'[d].key = call[d].key
  BY <1>1, <1>2, SteadyFacts DEF Steady
<1>4. \A d \in Call \ {c} : call'[d].put = call[d].put /\ call'[d].pc = call[d].pc
  BY <1>1 DEF Only
<1>5. ClockInv'
  BY <1>1, <1>2, <1>3, <1>4 DEF IInv, ClockInv
<1>6. CallInv'
  BY <1>1, <1>2, <1>3, <1>4 DEF IInv, CallInv, InCall
<1>7. RefInv'
  <2>1. \A t \in Task : row'[t] # None => call'[row'[t]].pc \in {"busy", "done", "lost"}
    BY <1>0, <1>1, <1>2, <1>4 DEF IInv, RefInv, TypeOK
  <2>2. \A t \in Task, k \in Key : cache'[t][k] # None =>
          call'[cache'[t][k]].key = k /\ call'[cache'[t][k]].pc \in {"busy", "done", "deleting", "lost"}
    BY <1>0, <1>1, <1>2, <1>3, <1>4 DEF IInv, RefInv, TypeOK
  <2>3. \A l \in look : /\ call'[l[3]].key = l[1]
                        /\ call'[l[3]].pc \in {"busy", "done", "lost"}
                        /\ HoldsOrLapsed(l[3], l[2])'
    BY <1>0, <1>1, <1>2, <1>3, <1>4 DEF IInv, RefInv, HoldsOrLapsed, TypeOK
  <2>4. \A d \in Call : \A t \in call'[d].put : HoldsOrLapsed(d, t)'
    BY <1>1, <1>2, <1>3, <1>4 DEF IInv, RefInv, HoldsOrLapsed
  <2> QED BY <1>2, <2>1, <2>2, <2>3, <2>4 DEF RefInv
<1>8. MirrorInv'
  BY <1>0, <1>1, <1>2, <1>3, <1>4, SMTT(60) DEF IInv, MirrorInv, Renewed, TypeOK
<1> QED BY <1>5, <1>6, <1>7, <1>8

(* A release deletes its rows; what the mirror still says of them is marked
   as being released. *)
LEMMA DeleteStep ==
  ASSUME IInv, Calm, NEW c \in Call, ReleaseDelete(c)
  PROVE  ClockInv' /\ CallInv' /\ RefInv' /\ MirrorInv'
<1>0. TypeOK
  BY DEF IInv
<1>1. /\ Only(c) /\ call'[c].at = call[c].at
      /\ call'[c].key = call[c].key /\ call'[c].worker = call[c].worker
      /\ call'[c].pc = "deleting" /\ call'[c].put = call[c].put
  BY <1>0, CallEffect, CallEnd DEF Release
<1>2. /\ call[c].pc = "done" /\ now' = now /\ cache' = cache /\ look' = look
      /\ \A d \in Call : SameHolder(c, d) => ~InCall(d)
      /\ \A l \in look : l[1] # call[c].key
      /\ \A t \in Task : row'[t] = IF row[t] = c THEN None ELSE row[t]
  BY DEF ReleaseDelete, OneCall, NoLookup, InCall, Calm
<1>3. /\ \A d, e \in Call : SameHolder(d, e)' = SameHolder(d, e)
      /\ \A d \in Call : Live(d)' = Live(d) /\ call'[d].at = call[d].at /\ call'[d].key = call[d].key
  BY <1>1, <1>2, SteadyFacts DEF Steady
<1>4. \A d \in Call : call'[d].put = call[d].put /\ (d # c => call'[d].pc = call[d].pc)
  BY <1>1 DEF Only
<1>5. ClockInv'
  BY <1>1, <1>2, <1>3, <1>4 DEF IInv, ClockInv
<1>6. CallInv'
  BY <1>1, <1>2, <1>3, <1>4 DEF IInv, CallInv, InCall, SameHolder
<1>7. RefInv'
  <2>1. \A t \in Task : row'[t] # None => call'[row'[t]].pc \in {"busy", "done", "lost"}
    BY <1>0, <1>2, <1>4 DEF IInv, RefInv, TypeOK
  <2>2. \A t \in Task, k \in Key : cache'[t][k] # None =>
          call'[cache'[t][k]].key = k /\ call'[cache'[t][k]].pc \in {"busy", "done", "deleting", "lost"}
    BY <1>0, <1>1, <1>2, <1>3, <1>4 DEF IInv, RefInv, TypeOK
  <2>3. ASSUME NEW l \in look
        PROVE  /\ call'[l[3]].key = l[1] /\ call'[l[3]].pc \in {"busy", "done", "lost"}
               /\ HoldsOrLapsed(l[3], l[2])'
    <3>1. /\ l[2] \in Task /\ l[3] \in Call /\ l[1] # call[c].key
          /\ call[l[3]].key = l[1] /\ call[l[3]].pc \in {"busy", "done", "lost"}
          /\ HoldsOrLapsed(l[3], l[2])
      BY <1>0, <1>2 DEF TypeOK, IInv, RefInv
    <3> QED BY <1>2, <1>3, <1>4, <3>1 DEF HoldsOrLapsed
  <2>4. ASSUME NEW d \in Call, NEW t \in call'[d].put PROVE HoldsOrLapsed(d, t)'
    <3>1. t \in Task /\ t \in call[d].put /\ d # c /\ HoldsOrLapsed(d, t)
      BY <1>0, <1>2, <1>4, <2>4 DEF TypeOK, IInv, CallInv, RefInv
    <3> QED BY <1>2, <1>3, <3>1 DEF HoldsOrLapsed
  <2> QED BY <1>2, <2>1, <2>2, <2>3, <2>4 DEF RefInv
<1>8. MirrorInv'
  <2> SUFFICES ASSUME NEW u \in Task, NEW k \in Key, NEW e \in Call, cache'[u][k] = e, Live(e)',
                      e # c
               PROVE  call'[e].pc = "deleting" \/ row'[u] = e \/ Renewed(e, u)'
    BY <1>1 DEF MirrorInv
  <2>1. call[e].pc = "deleting" \/ row[u] = e \/ Renewed(e, u)
    BY <1>2, <1>3 DEF IInv, MirrorInv
  <2>2. CASE Renewed(e, u)
    <3>1. row[u] \in Call /\ row[u] # c /\ row'[u] = row[u]
      BY <1>0, <1>2, <2>2 DEF Renewed, TypeOK
    <3> QED BY <1>3, <1>4, <2>2, <3>1 DEF Renewed
  <2> QED BY <1>2, <1>4, <2>1, <2>2
<1> QED BY <1>5, <1>6, <1>7, <1>8

(* A release evicts its lease from the mirror: nothing refers to it any
   more. *)
LEMMA EvictStep ==
  ASSUME IInv, NEW c \in Call, ReleaseEvict(c)
  PROVE  ClockInv' /\ CallInv' /\ RefInv' /\ MirrorInv'
<1>0. TypeOK
  BY DEF IInv
<1>1. /\ Only(c) /\ call'[c].at = call[c].at
      /\ call'[c].key = call[c].key /\ call'[c].worker = call[c].worker
      /\ call'[c].pc = "released" /\ call'[c].put = call[c].put
  BY <1>0, CallEffect, CallEnd DEF Release
<1>2. /\ call[c].pc = "deleting" /\ now' = now /\ row' = row /\ look' = look
      /\ \A t \in Task, k \in Key : cache'[t][k] = IF cache[t][k] = c THEN None ELSE cache[t][k]
  BY DEF ReleaseEvict
<1>3. /\ \A d, e \in Call : SameHolder(d, e)' = SameHolder(d, e)
      /\ \A d \in Call : Live(d)' = Live(d) /\ call'[d].at = call[d].at /\ call'[d].key = call[d].key
  BY <1>1, <1>2, SteadyFacts DEF Steady
<1>4. \A d \in Call : call'[d].put = call[d].put /\ (d # c => call'[d].pc = call[d].pc)
  BY <1>1 DEF Only
<1>5. ClockInv'
  BY <1>1, <1>2, <1>3, <1>4 DEF IInv, ClockInv
<1>6. CallInv'
  BY <1>1, <1>2, <1>3, <1>4 DEF IInv, CallInv, InCall
<1>7. /\ \A t \in Task : row[t] # c
      /\ \A l \in look : l[3] # c
  BY <1>2, LeaseAssumption DEF IInv, RefInv
<1>8. RefInv'
  BY <1>0, <1>2, <1>3, <1>4, <1>7 DEF IInv, RefInv, HoldsOrLapsed, TypeOK
<1>9. MirrorInv'
  <2> SUFFICES ASSUME NEW u \in Task, NEW k \in Key, NEW e \in Call, cache'[u][k] = e, Live(e)'
               PROVE  call'[e].pc = "deleting" \/ row'[u] = e \/ Renewed(e, u)'
    BY DEF MirrorInv
  <2>1. e # c /\ cache[u][k] = e /\ Live(e)
    BY <1>2, <1>3, LeaseAssumption
  <2>2. call[e].pc = "deleting" \/ row[u] = e \/ Renewed(e, u)
    BY <2>1 DEF IInv, MirrorInv
  <2>3. CASE Renewed(e, u)
    <3>1. row[u] \in Call /\ row[u] # c
      BY <1>0, <1>7, <2>3 DEF Renewed, TypeOK
    <3> QED BY <1>2, <1>3, <1>4, <2>3, <3>1 DEF Renewed
  <2> QED BY <1>2, <1>4, <2>1, <2>2, <2>3
<1> QED BY <1>5, <1>6, <1>8, <1>9

(* A lookup that missed the mirror reads the row. *)
LEMMA ReadStep ==
  ASSUME IInv, NEW k \in Key, NEW t \in Task, LookupRead(k, t)
  PROVE  ClockInv' /\ CallInv' /\ RefInv' /\ MirrorInv'
<1>0. TypeOK
  BY DEF IInv
<1>1. /\ now' = now /\ row' = row /\ cache' = cache /\ call' = call
      /\ look' = look \cup {<<k, t, row[t]>>}
      /\ row[t] \in Call /\ call[row[t]].key = k
  BY <1>0 DEF LookupRead, RowLive, TypeOK
<1>2. ClockInv' /\ CallInv' /\ MirrorInv'
  BY <1>1 DEF IInv, ClockInv, CallInv, MirrorInv, SameHolder, InCall, Live, Expiry, Renewed
<1>3. RefInv'
  <2>1. ASSUME NEW l \in look'
        PROVE  /\ call[l[3]].key = l[1] /\ call[l[3]].pc \in {"busy", "done", "lost"}
               /\ HoldsOrLapsed(l[3], l[2])
    <3>1. CASE l \in look
      BY <3>1 DEF IInv, RefInv
    <3>2. CASE l = <<k, t, row[t]>>
      BY <1>1, <3>2, LeaseAssumption DEF IInv, RefInv, HoldsOrLapsed
    <3> QED BY <1>1, <3>1, <3>2
  <2> QED BY <1>1, <2>1 DEF IInv, RefInv, HoldsOrLapsed, Live, Expiry
<1> QED BY <1>2, <1>3

(* A lookup mirrors what it read: the row is still the same one, or that
   lease has lapsed. *)
LEMMA MirrorStep ==
  ASSUME IInv, NEW l \in look, LookupPut(l)
  PROVE  ClockInv' /\ CallInv' /\ RefInv' /\ MirrorInv'
<1>0. TypeOK
  BY DEF IInv
<1>1. /\ l[1] \in Key /\ l[2] \in Task /\ l[3] \in Call
      /\ call[l[3]].key = l[1] /\ call[l[3]].pc \in {"busy", "done", "lost"}
      /\ HoldsOrLapsed(l[3], l[2])
  BY <1>0 DEF TypeOK, IInv, RefInv
<1>2. /\ now' = now /\ row' = row /\ call' = call /\ look' = look \ {l}
      /\ \A t \in Task, k \in Key :
           cache'[t][k] = IF t = l[2] /\ k = l[1] THEN l[3] ELSE cache[t][k]
  BY <1>0, <1>1 DEF LookupPut, TypeOK
<1>3. ClockInv' /\ CallInv'
  BY <1>2 DEF IInv, ClockInv, CallInv, SameHolder, InCall
<1>4. RefInv'
  BY <1>1, <1>2 DEF IInv, RefInv, HoldsOrLapsed, Live, Expiry
<1>5. MirrorInv'
  <2> SUFFICES ASSUME NEW u \in Task, NEW k \in Key, NEW e \in Call, cache'[u][k] = e, Live(e)
               PROVE  call[e].pc = "deleting" \/ row[u] = e \/ Renewed(e, u)
    BY <1>2 DEF MirrorInv, Live, Expiry, Renewed, SameHolder
  <2>1. CASE u = l[2] /\ k = l[1]
    BY <1>1, <1>2, <2>1 DEF HoldsOrLapsed
  <2>2. CASE ~(u = l[2] /\ k = l[1])
    BY <1>2, <2>2 DEF IInv, MirrorInv
  <2> QED BY <2>1, <2>2
<1> QED BY <1>3, <1>4, <1>5

(* A restart empties the mirror and forgets the calls in progress; the rows
   stay. *)
LEMMA RestartStep ==
  ASSUME IInv, Restart
  PROVE  ClockInv' /\ CallInv' /\ RefInv' /\ MirrorInv'
<1>0. TypeOK
  BY DEF IInv
<1>1. \A c \in Call : /\ call'[c].at = call[c].at
                      /\ call'[c].key = call[c].key /\ call'[c].worker = call[c].worker
                      /\ IF InCall(c) THEN call'[c].pc = "lost" /\ call'[c].put = {}
                         ELSE call'[c] = call[c]
  BY <1>0, RestartEffect
<1>2. /\ now' = now /\ row' = row /\ look' = {}
      /\ \A t \in Task, k \in Key : cache'[t][k] = None
  BY DEF Restart
<1>3. \A c \in Call : ~InCall(c)' /\ call'[c].put = {} /\ call'[c].pc # "busy"
  BY <1>1 DEF InCall, IInv, CallInv
<1>4. ClockInv'
  BY <1>1, <1>2, <1>3 DEF IInv, ClockInv
<1>5. CallInv'
  BY <1>3 DEF CallInv
<1>6. \A t \in Task : row'[t] # None => call'[row'[t]].pc \in {"busy", "done", "lost"}
  BY <1>0, <1>1, <1>2 DEF IInv, RefInv, TypeOK
<1>7. RefInv'
  BY <1>2, <1>3, <1>6 DEF RefInv
<1>8. MirrorInv'
  BY <1>2, LeaseAssumption DEF MirrorInv
<1> QED BY <1>4, <1>5, <1>7, <1>8

(* The inductive invariant is preserved. *)
LEMMA InvStep == Calm /\ IInv /\ [Next]_vars => IInv'
<1> SUFFICES ASSUME Calm, IInv, [Next]_vars PROVE IInv'
  OBVIOUS
<1>1. TypeOK'
  BY TypeStep DEF IInv
<1>2. CASE Lookup
  BY <1>1, <1>2, ReadStep, MirrorStep DEF Lookup, IInv
<1>3. ASSUME NEW c \in Call, Acquire(c) PROVE IInv'
  BY <1>1, <1>3, BeginStep, InsertStep, PutStep, EndStep, FailStep DEF Acquire, IInv
<1>4. ASSUME NEW c \in Call, Release(c) PROVE IInv'
  BY <1>1, <1>4, DeleteStep, EvictStep DEF Release, IInv
<1>5. CASE UNCHANGED vars
  BY <1>1, <1>5 DEF vars, IInv, ClockInv, CallInv, RefInv, MirrorInv, SameHolder, InCall,
                    HoldsOrLapsed, Live, Expiry, Renewed
<1>6. CASE Tick \/ Restart
  BY <1>1, <1>6, TickStep, RestartStep DEF IInv
<1> QED BY <1>2, <1>3, <1>4, <1>5, <1>6 DEF Next

(* It holds initially: no call has begun. *)
LEMMA InvInit == Init => IInv
<1> SUFFICES ASSUME Init PROVE IInv
  OBVIOUS
<1>1. TypeOK
  BY DEF Init, TypeOK, CallPc
<1>2. \A c \in Call : call[c].pc = "idle" /\ call[c].at = 0 /\ call[c].put = {}
  BY DEF Init
<1>3. ClockInv /\ CallInv
  BY <1>2 DEF Init, ClockInv, CallInv, InCall
<1>4. RefInv /\ MirrorInv
  BY <1>2, LeaseAssumption DEF Init, RefInv, MirrorInv
<1> QED BY <1>1, <1>3, <1>4 DEF IInv

(* IInv holds in every reachable state when no worker repeats a call that is
   still running and lookups finish before a renewal or a release. *)
LEMMA InvAlways == ASSUME Calm PROVE Spec => []IInv
<1>1. IInv /\ [Next]_vars => IInv'
  BY InvStep
<1> QED BY <1>1, InvInit, PTL DEF Spec

(* Whom is_live confirms, the table confirms, unless a release of theirs is
   half done. *)
LEMMA ServedIsHolder ==
  ASSUME IInv, NEW t \in Task, NEW k \in Key, Served(t, k), ~Releasing(k)
  PROVE  row[t] # None /\ call[row[t]].key = k
<1>1. CASE RowLive(t, k)
  BY <1>1 DEF RowLive
<1>2. CASE CacheLive(t, k)
  <2>1. PICK e \in Call : cache[t][k] = e /\ Live(e)
    BY <1>2 DEF CacheLive, IInv, TypeOK
  <2>2. call[e].key = k
    BY <2>1, LeaseAssumption DEF IInv, RefInv
  <2>3. call[e].pc # "deleting"
    BY <2>2 DEF Releasing
  <2>4. row[t] = e \/ Renewed(e, t)
    BY <2>1, <2>3 DEF IInv, MirrorInv
  <2> QED BY <2>2, <2>4, LeaseAssumption DEF Renewed, SameHolder
<1> QED BY <1>1, <1>2 DEF Served

(* For any number of tasks, credentials, workers and calls, and across
   restarts, is_live confirms one credential per task (OneHolder). *)
THEOREM OneHolderAlways == ASSUME Calm PROVE Spec => []OneHolder
<1>1. IInv => OneHolder
  BY ServedIsHolder DEF OneHolder
<1> QED BY <1>1, InvAlways, PTL

(* A lease that has been released is never confirmed again
   (ReleasedNotServed). *)
THEOREM ReleasedAlways == ASSUME Calm PROVE Spec => []ReleasedNotServed
<1>1. IInv => ReleasedNotServed
  <2> SUFFICES ASSUME IInv, NEW c \in Call, NEW t \in Task, NEW k \in Key,
                      call[c].pc = "released", cache[t][k] = c
               PROVE  FALSE
    BY DEF ReleasedNotServed
  <2> QED BY LeaseAssumption DEF IInv, RefInv
<1> QED BY <1>1, InvAlways, PTL

(* What may happen to a live lease in one step. *)
Honoured(t) ==
  row[t] # None /\ Live(row[t]) /\ row'[t] # row[t] =>
     \/ row'[t] = None /\ call'[row[t]].pc = "deleting"
     \/ row'[t] # None /\ SameHolder(row[t], row'[t])

(* No step takes a live lease from its worker. *)
LEMMA HonouredStep ==
  ASSUME IInv, [Next]_vars, NEW t \in Task
  PROVE  Honoured(t)
<1>0. TypeOK
  BY DEF IInv
<1>1. ASSUME NEW c \in Call, NEW u \in Task, AcquireInsert(c, u) PROVE Honoured(t)
  <2>1. row' = row \/ (Claimable(c, u) /\ row' = [row EXCEPT ![u] = c])
    BY <1>0, <1>1, InsertEffect
  <2>2. CASE row' = row
    BY <2>2 DEF Honoured
  <2>3. CASE Claimable(c, u) /\ row' = [row EXCEPT ![u] = c]
    <3> SUFFICES ASSUME row[t] # None, Live(row[t]), row'[t] # row[t]
                 PROVE  row'[t] # None /\ SameHolder(row[t], row'[t])
      BY DEF Honoured
    <3>1. t = u /\ row'[t] = c /\ row[t] \in Call
      BY <1>0, <2>3 DEF TypeOK
    <3>2. /\ call[c].at \in Nat /\ now \in Nat /\ Expiry(row[t]) \in Nat
          /\ call[c].at <= now /\ Expiry(row[t]) > now
      BY <1>0, <3>1, LeaseAssumption DEF TypeOK, Expiry, IInv, ClockInv, Live
    <3> QED BY <2>3, <3>1, <3>2, LeaseAssumption DEF Claimable
  <2> QED BY <2>1, <2>2, <2>3
<1>2. ASSUME NEW c \in Call, ReleaseDelete(c) PROVE Honoured(t)
  <2>1. call'[c].pc = "deleting"
    BY <1>0, <1>2, CallEnd
  <2> QED BY <1>2, <2>1 DEF ReleaseDelete, Honoured
<1>3. \/ row' = row
      \/ \E c \in Call, u \in Task : AcquireInsert(c, u)
      \/ \E c \in Call : ReleaseDelete(c)
  <2>1. Tick \/ Lookup \/ Restart \/ UNCHANGED vars => row' = row
    BY DEF Tick, Lookup, LookupRead, LookupPut, Restart, vars
  <2>2. ASSUME NEW c \in Call, Acquire(c) \/ Release(c)
        PROVE  row' = row \/ (\E u \in Task : AcquireInsert(c, u)) \/ ReleaseDelete(c)
    BY <2>2 DEF Acquire, AcquireBegin, AcquirePut, AcquireEnd, AcquireFail, Release, ReleaseEvict
  <2> QED BY <2>1, <2>2 DEF Next
<1>4. CASE row' = row
  BY <1>4 DEF Honoured
<1> QED BY <1>1, <1>2, <1>3, <1>4

(* A worker keeps a task until its lease lapses or it gives it up
   (LeaseHonoured). *)
THEOREM HonouredAlways == ASSUME Calm PROVE Spec => LeaseHonoured
<1>1. ASSUME IInv, [Next]_vars PROVE \A t \in Task : Honoured(t)
  BY <1>1, HonouredStep
<1>2. IInv /\ [Next]_vars =>
        [\A t \in Task : row[t] # None /\ Live(row[t]) /\ row'[t] # row[t] =>
            \/ row'[t] = None /\ call'[row[t]].pc = "deleting"
            \/ row'[t] # None /\ SameHolder(row[t], row'[t])]_vars
  BY <1>1 DEF Honoured
<1> QED BY <1>2, InvAlways, PTL DEF Spec, LeaseHonoured
=============================================================================
