---------------------------- MODULE FootageProofs ----------------------------
(***************************************************************************)
(* Event windows, live sessions, publishers, backup jobs, mirrors,         *)
(* samplers, the process and its sealed credentials keep what they promise *)
(* for any number of viewers, requests, jobs, cameras and starts, any      *)
(* durations and any number of failing statements.                         *)
(***************************************************************************)
EXTENDS MCFootage, Sequences, FiniteSetTheorems, NaturalsInduction, WellFoundedInduction, TLAPS

LEMMA Durations ==
  /\ Posts \subseteq Nat /\ CHECK_INTERVAL \in Nat /\ GRACE \in Nat /\ BackoffMax \in Nat /\ SpawnRetry \in Nat
  /\ StaleAge \in Nat /\ RECHECK \in Nat /\ FileTime \in Nat
BY FootageAssumption, SMTT(60)

(* One part is under way, for good, and the others have no state. *)
LEMMA OnePart == FootageNext => UNCHANGED part
BY DEF FootageNext

-----------------------------------------------------------------------------
(* EventRecorder.                                                          *)

EvTypeOK ==
  /\ post \in Posts /\ open \in BOOLEAN /\ changed \in BOOLEAN
  /\ window \in Nat /\ owed \in Nat /\ closed \in Nat /\ evNow \in Nat /\ evNow > 0
  /\ sup \in [pc : {"top", "eval", "armed", "run", "check", "closing", "sleep"}, want : BOOLEAN,
              wake : Nat, since : Nat, backoff : Nat]

(* The window the supervisor looks at is the one that was promised; what it
   decided on is still so, or it will be told of the change before it waits. *)
LooksTrue ==
  /\ window = owed
  /\ sup.pc = "eval" => sup.want \/ changed \/ owed < evNow
  /\ sup.pc \in {"eval", "check"} /\ sup.want => evNow <= owed
  /\ sup.pc = "armed" => changed \/ owed < evNow

(* A deadline lies within the windows, or within a tick of the schedule's end. *)
DeadlinesTrue ==
  sup.pc = "run" =>
    /\ sup.wake <= evNow + CHECK_INTERVAL
    /\ sup.wake <= owed + 1 \/ open \/ (closed # 0 /\ sup.wake <= closed + CHECK_INTERVAL)
    /\ changed /\ ~ open /\ owed < evNow => closed = evNow

RecInv == EvTypeOK /\ LooksTrue /\ DeadlinesTrue

LEMMA MinIs ==
  ASSUME NEW a \in Nat, NEW b \in Nat
  PROVE  Evr!Min({a, b}) \in {a, b} /\ Evr!Min({a, b}) <= a /\ Evr!Min({a, b}) <= b
BY DEF Evr!Min

LEMMA MaxIs ==
  ASSUME NEW a \in Nat, NEW b \in Nat
  PROVE  Evr!Max({a, b}) = IF a > b THEN a ELSE b
BY DEF Evr!Max

LEMMA RecheckIs ==
  ASSUME RecInv
  PROVE  /\ Evr!event_recheck_secs(window) \in Nat /\ Evr!event_recheck_secs(window) <= CHECK_INTERVAL
         /\ evNow <= owed => evNow + Evr!event_recheck_secs(window) <= owed + 1
<1>1. evNow \in Nat /\ window \in Nat /\ window = owed
  BY DEF RecInv, EvTypeOK, LooksTrue
<1>2. CASE window >= evNow
  <2>1. window - evNow + 1 \in Nat
    BY <1>1, <1>2
  <2>2. Evr!event_recheck_secs(window) = Evr!Min({CHECK_INTERVAL, window - evNow + 1})
    BY <1>2 DEF Evr!event_recheck_secs
  <2>3. PICK m : m = Evr!Min({CHECK_INTERVAL, window - evNow + 1})
    OBVIOUS
  <2>4. m \in {CHECK_INTERVAL, window - evNow + 1} /\ m <= CHECK_INTERVAL /\ m <= window - evNow + 1
    BY <2>1, <2>3, MinIs, Durations
  <2> QED BY <1>1, <2>1, <2>2, <2>3, <2>4, Durations
<1>3. CASE ~ (window >= evNow)
  BY <1>1, <1>3, Durations DEF Evr!event_recheck_secs
<1> QED BY <1>2, <1>3

LEMMA RecInvInit == Evr!EvInit => RecInv
<1> SUFFICES ASSUME Evr!EvInit PROVE RecInv
  OBVIOUS
<1>1. /\ post \in Posts /\ open \in BOOLEAN /\ window = 0 /\ changed = FALSE /\ owed = 0 /\ closed = 0 /\ evNow = 1
      /\ sup = [pc |-> "top", want |-> FALSE, wake |-> 0, since |-> 0, backoff |-> 1]
  BY DEF Evr!EvInit
<1>2. EvTypeOK
  <2>1. sup \in [pc : {"top", "eval", "armed", "run", "check", "closing", "sleep"}, want : BOOLEAN,
                wake : Nat, since : Nat, backoff : Nat]
    BY <1>1
  <2>2. window \in Nat /\ owed \in Nat /\ closed \in Nat /\ evNow \in Nat /\ evNow > 0
    BY <1>1
  <2>3. post \in Posts /\ open \in BOOLEAN /\ changed \in BOOLEAN
    BY <1>1
  <2> QED BY <2>1, <2>2, <2>3 DEF EvTypeOK
<1>3. LooksTrue
  BY <1>1 DEF LooksTrue
<1>4. DeadlinesTrue
  BY <1>1 DEF DeadlinesTrue
<1> QED BY <1>2, <1>3, <1>4 DEF RecInv

LEMMA TriggerKeeps == ASSUME RecInv, Evr!trigger PROVE RecInv'
<1> DEFINE end == evNow + post
<1>1. post \in Nat /\ evNow \in Nat /\ window \in Nat /\ window = owed /\ end \in Nat /\ end >= evNow
  BY Durations DEF RecInv, EvTypeOK, LooksTrue
<1>2. /\ window' = Evr!extend_trigger_window(window, end) /\ changed' = TRUE /\ owed' = Evr!Max({owed, end})
      /\ UNCHANGED <<post, open, closed, sup, evNow>>
  BY DEF Evr!trigger
<1> HIDE DEF end
<1>3. owed' = IF owed > end THEN owed ELSE end
  BY <1>1, <1>2, MaxIs
<1>4. window' = owed' /\ owed' \in Nat /\ owed' >= owed /\ evNow' <= owed'
  BY <1>1, <1>2, <1>3 DEF Evr!extend_trigger_window
<1>5. EvTypeOK'
  BY <1>2, <1>4 DEF RecInv, EvTypeOK
<1>6. LooksTrue'
  BY <1>1, <1>2, <1>4 DEF RecInv, LooksTrue
<1>7. DeadlinesTrue'
  <2>1. sup.wake \in Nat
    BY DEF RecInv, EvTypeOK
  <2> QED BY <1>1, <1>2, <1>4, <2>1 DEF RecInv, DeadlinesTrue
<1> QED BY <1>5, <1>6, <1>7 DEF RecInv

(* A step of the supervisor that leaves the world alone. *)
LEMMA SupKeeps ==
  ASSUME RecInv, UNCHANGED Evr!World, changed' = changed,
         NEW p \in {"top", "eval", "armed", "run", "check", "closing", "sleep"}, NEW w \in BOOLEAN,
         NEW k \in Nat, NEW n \in Nat, NEW b \in Nat,
         sup' = [pc |-> p, want |-> w, wake |-> k, since |-> n, backoff |-> b],
         p = "eval" => w \/ changed \/ owed < evNow,
         p \in {"eval", "check"} /\ w => evNow <= owed,
         p = "armed" => changed \/ owed < evNow,
         p = "run" => /\ k <= evNow + CHECK_INTERVAL
                      /\ k <= owed + 1 \/ open \/ (closed # 0 /\ k <= closed + CHECK_INTERVAL)
                      /\ changed /\ ~ open /\ owed < evNow => closed = evNow
  PROVE  RecInv'
<1>1. UNCHANGED <<post, open, window, owed, closed, evNow>>
  BY DEF Evr!World
<1>2. sup'.pc = p /\ sup'.want = w /\ sup'.wake = k
  OBVIOUS
<1>3. EvTypeOK'
  BY <1>1 DEF RecInv, EvTypeOK
<1>4. LooksTrue'
  BY <1>1, <1>2 DEF RecInv, LooksTrue
<1>5. DeadlinesTrue'
  BY <1>1, <1>2 DEF RecInv, DeadlinesTrue
<1> QED BY <1>3, <1>4, <1>5 DEF RecInv

LEMMA SupIs ==
  ASSUME RecInv
  PROVE  /\ sup = [pc |-> sup.pc, want |-> sup.want, wake |-> sup.wake, since |-> sup.since, backoff |-> sup.backoff]
         /\ sup.want \in BOOLEAN /\ sup.wake \in Nat /\ sup.since \in Nat /\ sup.backoff \in Nat
         /\ post \in Nat /\ open \in BOOLEAN /\ changed \in BOOLEAN /\ window = owed
         /\ owed \in Nat /\ closed \in Nat /\ evNow \in Nat /\ evNow > 0
         /\ sup.pc \in {"top", "eval", "armed", "run", "check", "closing", "sleep"}
BY Durations DEF RecInv, EvTypeOK, LooksTrue

LEMMA LookKeeps == ASSUME RecInv, Evr!Look PROVE RecInv'
<1>1. UNCHANGED Evr!World /\ changed' = changed
  BY DEF Evr!Look
<1>2. CASE sup' = [sup EXCEPT !.pc = "eval", !.want = Evr!TriggerActive]
  <2>1. PICK w \in BOOLEAN : w = (window # 0 /\ evNow <= window)
    OBVIOUS
  <2>2. sup' = [pc |-> "eval", want |-> w, wake |-> sup.wake, since |-> sup.since, backoff |-> sup.backoff]
    BY <1>2, <2>1, SupIs DEF Evr!TriggerActive
  <2>3. ~ (window # 0 /\ evNow <= window) => owed < evNow
    BY SupIs
  <2>5. w \/ changed \/ owed < evNow
    BY <2>1, <2>3
  <2>4. w => evNow <= owed
    BY <2>1, SupIs
  <2> QED BY <1>1, <2>2, <2>4, <2>5, SupIs, SupKeeps
<1>3. CASE sup' = [sup EXCEPT !.pc = "sleep", !.wake = evNow + SpawnRetry]
  <2>1. sup' = [pc |-> "sleep", want |-> sup.want, wake |-> evNow + SpawnRetry, since |-> sup.since, backoff |-> sup.backoff]
    BY <1>3, SupIs
  <2>2. evNow + SpawnRetry \in Nat
    BY SupIs, Durations
  <2> QED BY <1>1, <2>1, <2>2, SupIs, SupKeeps
<1> QED BY <1>2, <1>3 DEF Evr!Look

LEMMA ArmKeeps == ASSUME RecInv, Evr!Arm PROVE RecInv'
<1>1. /\ UNCHANGED Evr!World /\ changed' = changed /\ sup.pc = "eval" /\ ~ sup.want
      /\ sup' = [sup EXCEPT !.pc = "armed", !.wake = evNow + CHECK_INTERVAL]
  BY DEF Evr!Arm
<1>2. sup' = [pc |-> "armed", want |-> sup.want, wake |-> evNow + CHECK_INTERVAL, since |-> sup.since, backoff |-> sup.backoff]
  BY <1>1, SupIs
<1>3. evNow + CHECK_INTERVAL \in Nat
  BY SupIs, Durations
<1>4. changed \/ owed < evNow
  BY <1>1 DEF RecInv, LooksTrue
<1>5. sup.want \in BOOLEAN /\ sup.since \in Nat /\ sup.backoff \in Nat
  BY SupIs
<1>6. UNCHANGED Evr!World /\ changed' = changed
  BY <1>1
<1> QED BY <1>2, <1>3, <1>4, <1>5, <1>6, SupKeeps

(* FFmpeg runs until the next look, for a reason. *)
LEMMA RunKeeps ==
  ASSUME RecInv, UNCHANGED Evr!World, changed' = changed, NEW w \in BOOLEAN, NEW n \in Nat, NEW b \in Nat,
         w \/ open, w => evNow <= owed,
         sup' = [pc |-> "run", want |-> w, wake |-> evNow + Evr!event_recheck_secs(window), since |-> n, backoff |-> b]
  PROVE  RecInv'
<1>1. PICK k : k = evNow + Evr!event_recheck_secs(window)
  OBVIOUS
<1>2. k \in Nat /\ k <= evNow + CHECK_INTERVAL /\ (evNow <= owed => k <= owed + 1)
  BY <1>1, RecheckIs, SupIs, Durations
<1>3. k <= owed + 1 \/ open
  BY <1>2
<1>4. changed /\ ~ open /\ owed < evNow => closed = evNow
  BY SupIs
<1>5. sup' = [pc |-> "run", want |-> w, wake |-> k, since |-> n, backoff |-> b]
  BY <1>1
<1> QED BY <1>2, <1>3, <1>4, <1>5, SupKeeps

LEMMA StartKeeps == ASSUME RecInv, Evr!Start PROVE RecInv'
<1>1. UNCHANGED Evr!World /\ changed' = changed /\ sup.pc = "eval" /\ (sup.want \/ open)
  BY DEF Evr!Start
<1>2. sup.want => evNow <= owed
  BY <1>1 DEF RecInv, LooksTrue
<1>3. CASE sup' = [sup EXCEPT !.pc = "run", !.since = evNow, !.wake = evNow + Evr!event_recheck_secs(window)]
  <2>1. sup' = [pc |-> "run", want |-> sup.want, wake |-> evNow + Evr!event_recheck_secs(window),
                since |-> evNow, backoff |-> sup.backoff]
    BY <1>3, SupIs
  <2> QED BY <1>1, <1>2, <2>1, SupIs, RunKeeps
<1>4. CASE sup' = [sup EXCEPT !.pc = "sleep", !.wake = evNow + SpawnRetry]
  <2>1. sup' = [pc |-> "sleep", want |-> sup.want, wake |-> evNow + SpawnRetry, since |-> sup.since, backoff |-> sup.backoff]
    BY <1>4, SupIs
  <2>2. evNow + SpawnRetry \in Nat
    BY SupIs, Durations
  <2> QED BY <1>1, <2>1, <2>2, SupIs, SupKeeps
<1> QED BY <1>3, <1>4 DEF Evr!Start

LEMMA ExtendedKeeps == ASSUME RecInv, Evr!Extended PROVE RecInv'
<1>1. /\ UNCHANGED <<post, open, window, owed, closed, evNow>> /\ changed' = FALSE /\ sup.pc = "run" /\ changed
      /\ sup' = [sup EXCEPT !.wake = evNow + Evr!event_recheck_secs(window)]
  BY DEF Evr!Extended, Evr!World
<1>2. PICK k : k = evNow + Evr!event_recheck_secs(window)
  OBVIOUS
<1>3. k \in Nat /\ k <= evNow + CHECK_INTERVAL /\ (evNow <= owed => k <= owed + 1)
  BY <1>2, RecheckIs, SupIs, Durations
<1>4. sup' = [pc |-> "run", want |-> sup.want, wake |-> k, since |-> sup.since, backoff |-> sup.backoff]
  BY <1>1, <1>2, SupIs
<1>5. changed /\ ~ open /\ owed < evNow => closed = evNow
  BY <1>1 DEF RecInv, DeadlinesTrue
<1>6. k <= owed + 1 \/ open \/ (closed # 0 /\ k <= closed + CHECK_INTERVAL)
  BY <1>1, <1>3, <1>5, SupIs, Durations
<1>7. EvTypeOK'
  <2>1. sup' \in [pc : {"top", "eval", "armed", "run", "check", "closing", "sleep"}, want : BOOLEAN,
                 wake : Nat, since : Nat, backoff : Nat]
    BY <1>3, <1>4, SupIs
  <2> QED BY <1>1, <2>1 DEF RecInv, EvTypeOK
<1>8. LooksTrue'
  BY <1>1, <1>4, SupIs DEF LooksTrue
<1>9. DeadlinesTrue'
  BY <1>1, <1>3, <1>4, <1>6 DEF DeadlinesTrue
<1> QED BY <1>7, <1>8, <1>9 DEF RecInv

LEMMA RecheckKeeps == ASSUME RecInv, Evr!Recheck PROVE RecInv'
<1>1. UNCHANGED Evr!World /\ changed' = changed
  BY DEF Evr!Recheck
<1>2. CASE sup.pc = "run" /\ sup' = [sup EXCEPT !.pc = "check", !.want = Evr!TriggerActive]
  <2>1. PICK w \in BOOLEAN : w = (window # 0 /\ evNow <= window)
    OBVIOUS
  <2>2. sup' = [pc |-> "check", want |-> w, wake |-> sup.wake, since |-> sup.since, backoff |-> sup.backoff]
    BY <1>2, <2>1, SupIs DEF Evr!TriggerActive
  <2>3. w => evNow <= owed
    BY <2>1, SupIs
  <2> QED BY <1>1, <2>2, <2>3, SupIs, SupKeeps
<1>3. CASE /\ sup.pc = "check" /\ (sup.want \/ open)
           /\ sup' = [sup EXCEPT !.pc = "run", !.wake = evNow + Evr!event_recheck_secs(window)]
  <2>1. sup' = [pc |-> "run", want |-> sup.want, wake |-> evNow + Evr!event_recheck_secs(window),
                since |-> sup.since, backoff |-> sup.backoff]
    BY <1>3, SupIs
  <2>2. sup.want => evNow <= owed
    BY <1>3 DEF RecInv, LooksTrue
  <2> QED BY <1>1, <1>3, <2>1, <2>2, SupIs, RunKeeps
<1>4. CASE sup' = [sup EXCEPT !.pc = "closing", !.wake = evNow + GRACE]
  <2>1. sup' = [pc |-> "closing", want |-> sup.want, wake |-> evNow + GRACE, since |-> sup.since, backoff |-> sup.backoff]
    BY <1>4, SupIs
  <2>2. evNow + GRACE \in Nat
    BY SupIs, Durations
  <2> QED BY <1>1, <2>1, <2>2, SupIs, SupKeeps
<1> QED BY <1>2, <1>3, <1>4 DEF Evr!Recheck

LEMMA BackoffIs ==
  ASSUME NEW b \in Nat, NEW r \in Int
  PROVE  Evr!next_backoff(b, r) \in Nat
<1>1. b * 2 \in Nat
  OBVIOUS
<1>2. Evr!Min({b * 2, BackoffMax}) \in {b * 2, BackoffMax}
  BY <1>1, MinIs, Durations
<1>3. Evr!Min({b * 2, BackoffMax}) \in Nat
  BY <1>1, <1>2, Durations
<1> QED BY <1>3 DEF Evr!next_backoff

LEMMA RestKeeps ==
  ASSUME RecInv, Evr!finish_and_stop \/ Evr!Exited \/ Evr!Slept
  PROVE  RecInv'
<1>1. UNCHANGED Evr!World /\ changed' = changed
  BY DEF Evr!finish_and_stop, Evr!Exited, Evr!Slept
<1>2. CASE Evr!finish_and_stop
  <2>1. sup' = [pc |-> "top", want |-> sup.want, wake |-> sup.wake, since |-> sup.since, backoff |-> 1]
    BY <1>2, SupIs DEF Evr!finish_and_stop
  <2> QED BY <1>1, <2>1, SupIs, SupKeeps
<1>3. CASE Evr!Exited
  <2>1. PICK b : b = Evr!next_backoff(sup.backoff, evNow - sup.since)
    OBVIOUS
  <2>2. evNow - sup.since \in Int
    BY SupIs
  <2>3. b \in Nat
    BY <2>1, <2>2, SupIs, BackoffIs
  <2>4. sup' = [sup EXCEPT !.pc = "sleep", !.backoff = b, !.wake = evNow + b]
    BY <1>3, <2>1 DEF Evr!Exited
  <2>5. sup' = [pc |-> "sleep", want |-> sup.want, wake |-> evNow + b, since |-> sup.since, backoff |-> b]
    BY <2>4, SupIs
  <2>6. evNow + b \in Nat
    BY <2>3, SupIs
  <2> QED BY <1>1, <2>3, <2>5, <2>6, SupIs, SupKeeps
<1>4. CASE Evr!Slept
  <2>1. sup' = [pc |-> "top", want |-> sup.want, wake |-> sup.wake, since |-> sup.since, backoff |-> sup.backoff]
    BY <1>4, SupIs DEF Evr!Slept
  <2> QED BY <1>1, <2>1, SupIs, SupKeeps
<1> QED BY <1>2, <1>3, <1>4

(* The supervisor has seen a change of the window, or has none to see. *)
LEMMA TopKeeps ==
  ASSUME RecInv, Evr!Wake \/ Evr!reconcile
  PROVE  RecInv'
<1>1. /\ UNCHANGED <<post, open, closed, evNow>> /\ changed' = FALSE /\ sup'.pc = "top" /\ window' = owed' /\ owed' \in Nat
      /\ sup' \in [pc : {"top", "eval", "armed", "run", "check", "closing", "sleep"}, want : BOOLEAN,
                   wake : Nat, since : Nat, backoff : Nat]
  <2>1. CASE Evr!Wake
    <3>1. sup' = [pc |-> "top", want |-> sup.want, wake |-> sup.wake, since |-> sup.since, backoff |-> sup.backoff]
      BY <2>1, SupIs DEF Evr!Wake
    <3>2. sup' \in [pc : {"top", "eval", "armed", "run", "check", "closing", "sleep"}, want : BOOLEAN,
                   wake : Nat, since : Nat, backoff : Nat]
      BY <3>1, SupIs
    <3> QED BY <2>1, <3>1, <3>2, SupIs DEF Evr!Wake, Evr!World
  <2>2. CASE Evr!reconcile
    BY <2>2 DEF Evr!reconcile
  <2> QED BY <2>1, <2>2
<1>2. EvTypeOK'
  BY <1>1 DEF RecInv, EvTypeOK
<1>3. LooksTrue'
  BY <1>1 DEF LooksTrue
<1>4. DeadlinesTrue'
  BY <1>1 DEF DeadlinesTrue
<1> QED BY <1>2, <1>3, <1>4 DEF RecInv

LEMMA EditKeeps == ASSUME RecInv, Evr!Edit PROVE RecInv'
<1>1. /\ UNCHANGED <<window, changed, sup, owed, evNow>> /\ post' \in Posts /\ open' \in BOOLEAN
      /\ \/ UNCHANGED <<open, closed>>
         \/ open' = ~ open /\ closed' = IF open THEN evNow ELSE closed
  BY DEF Evr!Edit, RecInv, EvTypeOK
<1>2. EvTypeOK'
  BY <1>1, SupIs DEF RecInv, EvTypeOK
<1>3. LooksTrue'
  BY <1>1 DEF RecInv, LooksTrue
<1>4. DeadlinesTrue'
  BY <1>1, SupIs DEF RecInv, DeadlinesTrue
<1> QED BY <1>2, <1>3, <1>4 DEF RecInv

LEMMA EvTickKeeps ==
  ASSUME RecInv, Evr!EvTick
  PROVE  RecInv' /\ Evr!PostRollKept /\ Evr!StopsOnTime
<1>1. /\ evNow' = evNow + 1 /\ UNCHANGED <<post, open, window, changed, sup, owed, closed>>
      /\ \/ sup.pc = "armed" /\ ~ changed
         \/ sup.pc = "run" /\ ~ changed /\ sup.wake > evNow
         \/ sup.pc \in {"sleep", "closing"}
  BY DEF Evr!EvTick, Evr!Waits, Evr!Woken
<1>2. EvTypeOK'
  BY <1>1, SupIs DEF RecInv, EvTypeOK
<1>3. LooksTrue'
  BY <1>1, SupIs DEF RecInv, LooksTrue
<1>4. DeadlinesTrue'
  BY <1>1, SupIs, Durations DEF RecInv, DeadlinesTrue
<1>5. sup.pc = "armed" => owed < evNow
  BY <1>1 DEF RecInv, LooksTrue
<1>6. Evr!PostRollKept
  BY <1>1, <1>5, SupIs DEF Evr!PostRollKept
<1>7. Evr!StopsOnTime
  BY <1>1, SupIs, Durations DEF RecInv, DeadlinesTrue, Evr!StopsOnTime
<1> QED BY <1>2, <1>3, <1>4, <1>6, <1>7 DEF RecInv

LEMMA EvStep ==
  ASSUME RecInv, Evr!EvNext
  PROVE  RecInv' /\ Evr!PostRollKept /\ Evr!StopsOnTime
<1>1. CASE Evr!EvTick
  BY <1>1, EvTickKeeps
<1>2. CASE ~ Evr!EvTick
  <2>1. evNow' = evNow
    BY <1>2 DEF Evr!EvNext, Evr!trigger, Evr!Look, Evr!Arm, Evr!Start, Evr!Wake, Evr!Extended, Evr!Recheck,
                Evr!finish_and_stop, Evr!Exited, Evr!Slept, Evr!reconcile, Evr!Edit, Evr!World
  <2>2. Evr!PostRollKept /\ Evr!StopsOnTime
    BY <2>1 DEF Evr!PostRollKept, Evr!StopsOnTime
  <2>3. RecInv'
    BY <1>2, TriggerKeeps, LookKeeps, ArmKeeps, StartKeeps, TopKeeps, ExtendedKeeps, RecheckKeeps, RestKeeps,
       EditKeeps DEF Evr!EvNext
  <2> QED BY <2>2, <2>3
<1> QED BY <1>1, <1>2

-----------------------------------------------------------------------------
(* Live: the publisher.                                                    *)

ActorPc == {"rest", "demand", "hook", "ensure", "give", "decide", "visit", "look", "seen", "unseen",
            "spawn", "insert", "stop", "gone"}
CamRec == [there : BOOLEAN, enabled : BOOLEAN, warm : BOOLEAN, config : Nat]
ActRec == [pc : ActorPc, cam : CamRec, at : Nat]

PubTypeOK ==
  /\ cam \in CamRec /\ act \in [Liv!Actor -> ActRec] /\ pub \in [on : BOOLEAN, config : Nat, idle : BOOLEAN]
  /\ edits \in [made : Nat, settled : Nat] /\ edits.settled <= edits.made
  /\ down \in BOOLEAN /\ fails \in Nat

(* Between taking the camera's lock and giving it back; what then acts on the
   row it read, and what acts on a row that was enabled. *)
Locked == {"ensure", "give", "decide", "look", "seen", "unseen", "spawn", "insert"}
Acting == Locked \ {"give"}
Starting == {"ensure", "seen", "unseen", "spawn", "insert"}

Guarded == \A a \in Liv!Actor : act[a].pc \in Locked => lock = a

(* The row an actor acts on is the row as it is, unless a change of it is not settled yet. *)
Fresh ==
  \A a \in Liv!Actor : act[a].pc \in Acting =>
    \/ act[a].cam = cam \/ edits.settled < edits.made
    \/ act[a].cam = Liv!NoCam /\ fails > 0

StartsEnabled == \A a \in Liv!Actor : act[a].pc \in Starting => act[a].cam.enabled

(* A hook settles the changes that had been made when it read the row. *)
HooksTrue ==
  \A e \in Editor : act[e].pc \in Locked =>
    /\ act[e].pc # "give" /\ act[e].at <= edits.made
    /\ act[e].at = edits.made => act[e].cam = cam \/ (act[e].cam = Liv!NoCam /\ fails > 0)

GoingDown == act[Liv!Shutdown].pc = "stop" => down

PubInv == PubTypeOK /\ Guarded /\ Fresh /\ StartsEnabled /\ HooksTrue /\ GoingDown /\ Liv!NoResurrection

LEMMA ActorsAre ==
  /\ Watcher \subseteq Liv!Actor /\ Editor \subseteq Liv!Actor /\ Liv!Loop \in Liv!Actor /\ Liv!Shutdown \in Liv!Actor
  /\ Liv!Loop \notin Editor /\ Liv!Shutdown \notin Editor /\ Liv!Loop # Liv!Shutdown
  /\ Watcher \cap Editor = {} /\ Liv!Loop \notin Watcher /\ Liv!Shutdown \notin Watcher
  /\ "none" \notin Liv!Actor
BY FootageAssumption, SMTT(60) DEF Liv!Actor, Liv!Loop, Liv!Shutdown

LEMMA NoCamIs == Liv!NoCam \in CamRec /\ ~ Liv!NoCam.enabled
BY DEF Liv!NoCam, CamRec

LEMMA AtRestIs == Liv!AtRest \in ActRec /\ Liv!AtRest.pc = "rest"
BY NoCamIs DEF Liv!AtRest, ActRec, ActorPc

LEMMA PubInvInit == Liv!PubInit => PubInv
<1> SUFFICES ASSUME Liv!PubInit PROVE PubInv
  OBVIOUS
<1>1. /\ cam = [there |-> TRUE, enabled |-> TRUE, warm |-> FALSE, config |-> 0]
      /\ act = [a \in Liv!Actor |-> Liv!AtRest] /\ pub = Liv!NoPub /\ down = FALSE
      /\ edits = [made |-> 0, settled |-> 0] /\ fails = 0
  BY DEF Liv!PubInit
<1>2. \A a \in Liv!Actor : act[a] = Liv!AtRest
  BY <1>1
<1>3. \A a \in Liv!Actor : act[a].pc = "rest"
  BY <1>2, AtRestIs
<1>4. act \in [Liv!Actor -> ActRec]
  BY <1>1, AtRestIs
<1>5. cam \in CamRec
  BY <1>1 DEF CamRec
<1>6. pub \in [on : BOOLEAN, config : Nat, idle : BOOLEAN] /\ ~ pub.on
  BY <1>1 DEF Liv!NoPub
<1>7. edits \in [made : Nat, settled : Nat] /\ edits.settled <= edits.made
  BY <1>1
<1>8. PubTypeOK
  BY <1>1, <1>4, <1>5, <1>6, <1>7 DEF PubTypeOK
<1>9. Guarded /\ Fresh /\ StartsEnabled
  BY <1>3 DEF Guarded, Fresh, StartsEnabled, Locked, Acting, Starting
<1>10. HooksTrue /\ GoingDown
  BY <1>3, ActorsAre DEF HooksTrue, GoingDown, Locked
<1>11. Liv!NoResurrection
  BY <1>6 DEF Liv!NoResurrection
<1> QED BY <1>8, <1>9, <1>10, <1>11 DEF PubInv

(* One actor takes a step, and the row stays. *)
LEMMA ActorSteps ==
  ASSUME PubInv, NEW a \in Liv!Actor, NEW r \in ActRec, act' = [act EXCEPT ![a] = r],
         cam' = cam, fails' \in Nat, fails' >= fails, down' \in BOOLEAN, down => down',
         pub' \in [on : BOOLEAN, config : Nat, idle : BOOLEAN],
         r.pc \in Locked => lock' = a,
         lock' = lock \/ lock \in {"none", a},
         r.pc \in Acting => \/ r.cam = cam \/ edits.settled < edits.made
                            \/ r.cam = Liv!NoCam /\ fails' > 0,
         r.pc \in Starting => r.cam.enabled,
         a \in Editor /\ r.pc \in Locked =>
           /\ r.pc # "give" /\ r.at <= edits.made
           /\ r.at = edits.made => r.cam = cam \/ (r.cam = Liv!NoCam /\ fails' > 0),
         a = Liv!Shutdown /\ r.pc = "stop" => down',
         \/ edits' = edits
         \/ /\ edits' = [edits EXCEPT !.settled = act[a].at] /\ act[a].at <= edits.made
            /\ lock = a /\ r.pc \notin Locked,
         edits'.settled = edits'.made /\ pub'.on => cam.enabled /\ (pub'.config = cam.config \/ down')
  PROVE  PubInv'
<1>1. act' \in [Liv!Actor -> ActRec] /\ act'[a] = r /\ \A b \in Liv!Actor : b # a => act'[b] = act[b]
  BY DEF PubInv, PubTypeOK
<1>2. /\ edits' \in [made : Nat, settled : Nat] /\ edits'.settled <= edits'.made /\ edits'.made = edits.made
      /\ edits'.settled = edits.settled \/ (lock = a /\ r.pc \notin Locked)
  <2>1. edits \in [made : Nat, settled : Nat] /\ act[a].at \in Nat /\ edits.settled <= edits.made
    BY DEF PubInv, PubTypeOK, ActRec
  <2>2. CASE edits' = edits
    BY <2>1, <2>2
  <2>3. CASE edits' = [edits EXCEPT !.settled = act[a].at] /\ act[a].at <= edits.made /\ lock = a /\ r.pc \notin Locked
    BY <2>1, <2>3
  <2> QED BY <2>2, <2>3
<1>3. PubTypeOK'
  BY <1>1, <1>2 DEF PubInv, PubTypeOK
<1>4. ASSUME NEW b \in Liv!Actor, b # a, act[b].pc \in Locked
      PROVE  lock = b /\ lock' = lock /\ edits'.settled = edits.settled
  BY <1>2, <1>4, ActorsAre DEF PubInv, Guarded
<1>5. Guarded'
  BY <1>1, <1>4 DEF Guarded
<1>6. Acting \subseteq Locked
  BY DEF Acting
<1>7. Fresh'
  <2> SUFFICES ASSUME NEW b \in Liv!Actor, act'[b].pc \in Acting
               PROVE  \/ act'[b].cam = cam \/ edits'.settled < edits'.made
                      \/ act'[b].cam = Liv!NoCam /\ fails' > 0
    BY DEF Fresh
  <2>1. CASE b = a
    BY <1>1, <1>2, <1>6, <2>1
  <2>2. CASE b # a
    <3>1. act[b].pc \in Acting /\ act'[b] = act[b] /\ edits'.settled = edits.settled
      BY <1>1, <1>4, <1>6, <2>2
    <3>2. fails \in Nat
      BY DEF PubInv, PubTypeOK
    <3> QED BY <1>2, <3>1, <3>2 DEF PubInv, Fresh
  <2> QED BY <2>1, <2>2
<1>8. StartsEnabled'
  BY <1>1 DEF PubInv, StartsEnabled
<1>9. HooksTrue'
  <2> SUFFICES ASSUME NEW e \in Editor, act'[e].pc \in Locked
               PROVE  /\ act'[e].pc # "give" /\ act'[e].at <= edits'.made
                      /\ act'[e].at = edits'.made => act'[e].cam = cam \/ (act'[e].cam = Liv!NoCam /\ fails' > 0)
    BY DEF HooksTrue
  <2>1. CASE e = a
    BY <1>1, <1>2, <2>1
  <2>2. CASE e # a
    <3>1. act'[e] = act[e] /\ fails \in Nat
      BY <1>1, <2>2, ActorsAre DEF PubInv, PubTypeOK
    <3> QED BY <1>2, <3>1 DEF PubInv, HooksTrue
  <2> QED BY <2>1, <2>2
<1>10. GoingDown'
  BY <1>1, ActorsAre DEF PubInv, GoingDown
<1>11. Liv!NoResurrection'
  BY DEF Liv!NoResurrection
<1> QED BY <1>3, <1>5, <1>7, <1>8, <1>9, <1>10, <1>11 DEF PubInv

(* Nobody takes a step. *)
LEMMA WorldSteps ==
  ASSUME PubInv, UNCHANGED <<cam, act, lock, edits, fails, down>>,
         pub' \in [on : BOOLEAN, config : Nat, idle : BOOLEAN], pub'.on => pub.on, pub'.config = pub.config
  PROVE  PubInv'
<1>1. PubTypeOK'
  BY DEF PubInv, PubTypeOK
<1>2. Guarded' /\ Fresh' /\ StartsEnabled' /\ HooksTrue' /\ GoingDown'
  BY DEF PubInv, Guarded, Fresh, StartsEnabled, HooksTrue, GoingDown
<1>3. Liv!NoResurrection'
  BY DEF PubInv, Liv!NoResurrection
<1> QED BY <1>1, <1>2, <1>3 DEF PubInv

LEMMA PubTypes ==
  ASSUME PubInv, NEW a \in Liv!Actor
  PROVE  /\ cam \in CamRec /\ pub \in [on : BOOLEAN, config : Nat, idle : BOOLEAN] /\ fails \in Nat /\ down \in BOOLEAN
         /\ act[a] \in ActRec /\ act[a].cam \in CamRec /\ act[a].at \in Nat /\ act[a].pc \in ActorPc
         /\ edits.made \in Nat /\ edits.settled \in Nat
BY DEF PubInv, PubTypeOK, ActRec

LEMMA GoIs ==
  ASSUME PubInv, NEW a \in Liv!Actor, NEW p \in ActorPc, Liv!Go(a, p)
  PROVE  \E r \in ActRec : /\ act' = [act EXCEPT ![a] = r] /\ r.pc = p /\ r.cam = act[a].cam /\ r.at = act[a].at
<1>1. act' = [act EXCEPT ![a] = [act[a] EXCEPT !.pc = p]]
  BY DEF Liv!Go
<1>2. PICK r : r = [act[a] EXCEPT !.pc = p]
  OBVIOUS
<1>3. r \in ActRec /\ r.pc = p /\ r.cam = act[a].cam /\ r.at = act[a].at
  BY <1>2, PubTypes DEF ActRec
<1> QED BY <1>1, <1>2, <1>3

(* What an actor at work under the lock may take for granted. *)
LEMMA AtWork ==
  ASSUME PubInv, NEW a \in Liv!Actor, act[a].pc \in Locked
  PROVE  /\ lock = a
         /\ act[a].pc \in Acting =>
              \/ act[a].cam = cam \/ edits.settled < edits.made
              \/ act[a].cam = Liv!NoCam /\ fails > 0
         /\ act[a].pc \in Starting => act[a].cam.enabled
         /\ a \in Editor =>
              /\ act[a].pc # "give" /\ act[a].at <= edits.made
              /\ act[a].at = edits.made => act[a].cam = cam \/ (act[a].cam = Liv!NoCam /\ fails > 0)
         /\ edits.settled = edits.made /\ pub.on => cam.enabled /\ (pub.config = cam.config \/ down)
BY DEF PubInv, Guarded, Fresh, StartsEnabled, HooksTrue, Liv!NoResurrection

(* An actor gives the lock back; what it leaves running, if anything, is for the row it acted on. *)
LEMMA ReleaseKeeps ==
  ASSUME PubInv, NEW a \in Liv!Actor, act[a].pc \in Locked, Liv!Release(a),
         UNCHANGED <<cam, fails, down>>, pub' \in [on : BOOLEAN, config : Nat, idle : BOOLEAN],
         \/ ~ pub'.on
         \/ pub'.on /\ act[a].cam.enabled /\ act[a].pc \in Acting /\ (pub'.config = act[a].cam.config \/ down)
         \/ a \notin Editor /\ pub'.on = pub.on /\ pub'.config = pub.config
  PROVE  PubInv'
<1>1. /\ act' = [act EXCEPT ![a] = Liv!AtRest] /\ lock' = "none" /\ lock = a
      /\ edits' = IF a \in Editor THEN [edits EXCEPT !.settled = act[a].at] ELSE edits
  BY AtWork DEF Liv!Release, Liv!Rest
<1>2. Liv!AtRest \in ActRec /\ Liv!AtRest.pc = "rest"
  BY AtRestIs
<1>3. ASSUME edits'.settled = edits'.made, pub'.on
      PROVE  cam.enabled /\ (pub'.config = cam.config \/ down')
  <2>1. edits \in [made : Nat, settled : Nat]
    BY DEF PubInv, PubTypeOK
  <2>2. CASE a \in Editor
    <3>1. act[a].at = edits.made
      BY <1>1, <1>3, <2>1, <2>2
    <3>2. act[a].cam.enabled /\ (pub'.config = act[a].cam.config \/ down)
      BY <1>3, <2>2
    <3> QED BY <2>2, <3>1, <3>2, AtWork, NoCamIs
  <2>3. CASE a \notin Editor
    <3>1. edits.settled = edits.made
      BY <1>1, <1>3, <2>3
    <3>2. CASE pub'.on = pub.on /\ pub'.config = pub.config
      BY <1>3, <3>1, <3>2, AtWork
    <3>3. CASE act[a].cam.enabled /\ act[a].pc \in Acting /\ (pub'.config = act[a].cam.config \/ down)
      <4>1. edits.made \in Nat /\ ~ (edits.settled < edits.made)
        BY <2>1, <3>1
      <4> QED BY <3>3, <4>1, AtWork, NoCamIs
    <3> QED BY <1>3, <2>3, <3>2, <3>3
  <2> QED BY <2>2, <2>3
<1>4. "rest" \notin Locked /\ "rest" \notin Acting /\ "rest" \notin Starting
  BY DEF Locked, Acting, Starting
<1>5. \/ edits' = edits
      \/ /\ edits' = [edits EXCEPT !.settled = act[a].at] /\ act[a].at <= edits.made
         /\ lock = a /\ Liv!AtRest.pc \notin Locked
  BY <1>1, <1>2, <1>4, AtWork
<1>6. fails' \in Nat /\ fails' >= fails /\ down' \in BOOLEAN
  BY PubTypes
<1>7. lock' = lock \/ lock \in {"none", a}
  BY <1>1
<1> QED BY <1>1, <1>2, <1>3, <1>4, <1>5, <1>6, <1>7, ActorSteps

(* An actor goes on under the lock, with the row it has. *)
LEMMA GoesOn ==
  ASSUME PubInv, NEW a \in Liv!Actor, NEW p \in Acting, act[a].pc \in Acting, Liv!Go(a, p), Liv!Keep,
         p \in Starting => act[a].cam.enabled, UNCHANGED <<cam, fails, down>>,
         pub' \in [on : BOOLEAN, config : Nat, idle : BOOLEAN],
         pub'.on => pub.on /\ pub'.config = pub.config
  PROVE  PubInv'
<1>1. p \in ActorPc /\ p \in Locked /\ p # "give" /\ p # "stop" /\ act[a].pc \in Locked
  BY SMTT(60) DEF Acting, Locked, ActorPc
<1>2. PICK r \in ActRec : act' = [act EXCEPT ![a] = r] /\ r.pc = p /\ r.cam = act[a].cam /\ r.at = act[a].at
  BY <1>1, GoIs
<1>3. lock' = lock /\ edits' = edits /\ lock = a
  BY <1>1, AtWork DEF Liv!Keep
<1>4. fails' \in Nat /\ fails' >= fails /\ down' \in BOOLEAN
  BY PubTypes
<1>5. r.pc \in Acting =>
        \/ r.cam = cam \/ edits.settled < edits.made
        \/ r.cam = Liv!NoCam /\ fails' > 0
  BY <1>1, <1>2, AtWork
<1>6. a \in Editor /\ r.pc \in Locked =>
           /\ r.pc # "give" /\ r.at <= edits.made
           /\ r.at = edits.made => r.cam = cam \/ (r.cam = Liv!NoCam /\ fails' > 0)
  BY <1>1, <1>2, AtWork
<1>7. edits'.settled = edits'.made /\ pub'.on => cam.enabled /\ (pub'.config = cam.config \/ down')
  BY <1>1, <1>3, AtWork
<1>8. r.pc \in Starting => r.cam.enabled
  BY <1>2
<1> QED BY <1>1, <1>2, <1>3, <1>4, <1>5, <1>6, <1>7, <1>8, ActorSteps

(* A publisher for the row somebody acts on is not cut, unless the row has changed. *)
LEMMA KeptIs ==
  ASSUME PubInv, NEW a \in Liv!Actor, act[a].pc \in Acting, edits.settled = edits.made, ~ down, fails = 0, pub.on
  PROVE  act[a].cam.enabled /\ pub.config = act[a].cam.config
<1>1. act[a].pc \in Locked
  BY DEF Acting
<1>2. edits.made \in Nat /\ ~ (edits.settled < edits.made)
  BY PubTypes
<1>3. act[a].cam = cam
  BY <1>1, <1>2, AtWork
<1> QED BY <1>1, <1>3, AtWork

LEMMA NoPubIs == Liv!NoPub \in [on : BOOLEAN, config : Nat, idle : BOOLEAN] /\ ~ Liv!NoPub.on
BY DEF Liv!NoPub

LEMMA NotCutIf ==
  ASSUME PubInv,
         ASSUME pub.on, ~ pub.idle, edits.settled = edits.made, ~ down, fails = 0 PROVE pub'.on
  PROVE  Liv!NotCut
<1>1. fails \in Nat
  BY DEF PubInv, PubTypeOK
<1> QED BY <1>1 DEF Liv!NotCut

LEMMA EnsureInner ==
  ASSUME PubInv, NEW a \in Liv!Actor, act[a].pc \in Acting, act[a].cam.enabled, NEW touch \in BOOLEAN,
         Liv!ensure_running_inner(a, touch), UNCHANGED <<cam, fails, down>>
  PROVE  PubInv' /\ Liv!NotCut
<1>1. pub \in [on : BOOLEAN, config : Nat, idle : BOOLEAN] /\ act[a].pc \in Locked
  BY PubTypes DEF Acting
<1>2. CASE down
  <2>1. Liv!Release(a) /\ pub' = pub
    BY <1>2 DEF Liv!ensure_running_inner
  <2>2. PubInv'
    BY <1>1, <1>2, <2>1, ReleaseKeeps
  <2> QED BY <1>2, <2>2, NotCutIf
<1>3. CASE ~ down /\ pub.on /\ pub.config = act[a].cam.config
  <2>1. Liv!Release(a) /\ pub' = [pub EXCEPT !.idle = IF touch THEN FALSE ELSE @]
    BY <1>3 DEF Liv!ensure_running_inner, Liv!desired_args
  <2>2. pub' \in [on : BOOLEAN, config : Nat, idle : BOOLEAN] /\ pub'.on /\ pub'.config = act[a].cam.config
    BY <1>1, <1>3, <2>1
  <2>3. PubInv'
    BY <1>1, <2>1, <2>2, ReleaseKeeps
  <2> QED BY <2>2, <2>3, NotCutIf
<1>4. CASE ~ down /\ ~ (pub.on /\ pub.config = act[a].cam.config)
  <2>1. Liv!Go(a, "spawn") /\ pub' = Liv!NoPub /\ Liv!Keep
    BY <1>4 DEF Liv!ensure_running_inner, Liv!desired_args
  <2>2. "spawn" \in Acting
    BY DEF Acting, Locked
  <2>3. PubInv'
    BY <2>1, <2>2, NoPubIs, GoesOn
  <2> QED BY <1>4, <2>3, KeptIs, NotCutIf
<1> QED BY <1>2, <1>3, <1>4

LEMMA ReconcileLocked ==
  ASSUME PubInv, NEW a \in Liv!Actor, act[a].pc \in Acting,
         Liv!reconcile_locked(a), UNCHANGED <<cam, fails, down>>
  PROVE  PubInv' /\ Liv!NotCut
<1>1. pub \in [on : BOOLEAN, config : Nat, idle : BOOLEAN] /\ act[a].pc \in Locked
  BY PubTypes DEF Acting
<1>2. CASE ~ act[a].cam.enabled /\ pub' = Liv!NoPub /\ Liv!Release(a)
  <2>1. PubInv'
    BY <1>1, <1>2, NoPubIs, ReleaseKeeps
  <2> QED BY <1>2, <2>1, KeptIs, NotCutIf
<1>3. CASE act[a].cam.enabled /\ Liv!ensure_running_inner(a, FALSE)
  BY <1>3, EnsureInner
<1>4. CASE act[a].cam.enabled /\ ~ pub.on /\ Liv!Release(a) /\ pub' = pub
  <2>1. PubInv'
    BY <1>1, <1>4, ReleaseKeeps
  <2> QED BY <1>4, <2>1, NotCutIf
<1> QED BY <1>2, <1>3, <1>4 DEF Liv!reconcile_locked

(* An actor goes where it needs no lock. *)
LEMMA GoesQuietly ==
  ASSUME PubInv, NEW a \in Liv!Actor, NEW p \in ActorPc \ Locked, Liv!Go(a, p),
         UNCHANGED <<cam, lock, edits, fails>>, down' \in BOOLEAN, down => down', a = Liv!Shutdown /\ p = "stop" => down',
         pub' \in [on : BOOLEAN, config : Nat, idle : BOOLEAN], pub'.on => pub.on /\ pub'.config = pub.config
  PROVE  PubInv'
<1>1. PICK r \in ActRec : act' = [act EXCEPT ![a] = r] /\ r.pc = p
  BY GoIs
<1>2. r.pc \notin Locked /\ r.pc \notin Acting /\ r.pc \notin Starting
  BY <1>1 DEF Acting, Locked, Starting
<1>3. fails' \in Nat /\ fails' >= fails
  BY PubTypes
<1>4. edits'.settled = edits'.made /\ pub'.on => cam.enabled /\ (pub'.config = cam.config \/ down')
  BY DEF PubInv, Liv!NoResurrection
<1> QED BY <1>1, <1>2, <1>3, <1>4, ActorSteps

(* An actor that has no lock rests. *)
LEMMA DropKeeps ==
  ASSUME PubInv, NEW a \in Liv!Actor, Liv!Drop(a)
  PROVE  PubInv' /\ Liv!NotCut
<1>1. act' = [act EXCEPT ![a] = Liv!AtRest] /\ UNCHANGED <<cam, lock, pub, down, fails, edits>>
  BY DEF Liv!Drop, Liv!Rest
<1>2. Liv!AtRest.pc \notin Locked /\ Liv!AtRest.pc \notin Acting /\ Liv!AtRest.pc \notin Starting /\ Liv!AtRest.pc # "stop"
  BY AtRestIs DEF Acting, Locked, Starting
<1>3. fails' \in Nat /\ fails' >= fails /\ down' \in BOOLEAN /\ pub' \in [on : BOOLEAN, config : Nat, idle : BOOLEAN]
  BY <1>1, PubTypes
<1>4. edits'.settled = edits'.made /\ pub'.on => cam.enabled /\ (pub'.config = cam.config \/ down')
  BY <1>1 DEF PubInv, Liv!NoResurrection
<1>5. PubInv'
  BY <1>1, <1>2, <1>3, <1>4, AtRestIs, ActorSteps
<1>6. Liv!NotCut
  BY <1>1, NotCutIf
<1> QED BY <1>5, <1>6

(* An actor takes the lock and reads the row. *)
LEMMA TakesLock ==
  ASSUME PubInv, NEW a \in Liv!Actor, NEW r \in ActRec, Liv!Acquire(a), act' = [act EXCEPT ![a] = r],
         r.pc \in Locked, r.pc = "give" => a \notin Editor, r.pc # "stop", r.pc \in Starting => r.cam.enabled,
         a \in Editor => r.at = edits.made,
         r.pc # "give" => r.cam = cam \/ (r.cam = Liv!NoCam /\ fails' > 0),
         fails' \in Nat, fails' >= fails, UNCHANGED <<cam, pub, down, edits>>
  PROVE  PubInv' /\ Liv!NotCut
<1>1. lock = "none" /\ lock' = a
  BY DEF Liv!Acquire
<1>2. down' \in BOOLEAN /\ pub' \in [on : BOOLEAN, config : Nat, idle : BOOLEAN]
  BY PubTypes
<1>3. edits'.settled = edits'.made /\ pub'.on => cam.enabled /\ (pub'.config = cam.config \/ down')
  BY DEF PubInv, Liv!NoResurrection
<1>4. edits.made \in Nat
  BY PubTypes
<1>5. r.pc \in Acting =>
        \/ r.cam = cam \/ edits.settled < edits.made
        \/ r.cam = Liv!NoCam /\ fails' > 0
  BY DEF Acting
<1>7. a \in Editor /\ r.pc \in Locked =>
        /\ r.pc # "give" /\ r.at <= edits.made
        /\ r.at = edits.made => r.cam = cam \/ (r.cam = Liv!NoCam /\ fails' > 0)
  BY <1>4
<1>8. PubInv'
  BY <1>1, <1>2, <1>3, <1>5, <1>7, ActorSteps
<1>6. Liv!NotCut
  BY NotCutIf
<1> QED BY <1>6, <1>8

LEMMA ReadsIs ==
  ASSUME PubInv, NEW r \in {cam, Liv!NoCam}, Liv!Reads(r)
  PROVE  fails' \in Nat /\ fails' >= fails /\ r \in CamRec /\ (r = cam \/ (r = Liv!NoCam /\ fails' > 0))
<1>1. fails \in Nat /\ cam \in CamRec
  BY DEF PubInv, PubTypeOK
<1> QED BY <1>1, NoCamIs DEF Liv!Reads

LEMMA DemandKeeps ==
  ASSUME PubInv, NEW w \in Watcher, Liv!demand(w)
  PROVE  PubInv' /\ Liv!NotCut
<1>1. PICK c \in {cam, Liv!NoCam} :
        /\ Liv!Reads(c)
        /\ act' = [act EXCEPT ![w] = [pc |-> IF c.enabled THEN "ensure" ELSE "give", cam |-> c, at |-> 0]]
  BY ZenonT(60) DEF Liv!demand
<1>2. w \in Liv!Actor /\ w \notin Editor
  BY ActorsAre
<1>3. PICK r : r = [pc |-> IF c.enabled THEN "ensure" ELSE "give", cam |-> c, at |-> 0]
  OBVIOUS
<1>4. r \in ActRec /\ r.cam = c /\ r.pc \in Locked /\ r.pc # "stop" /\ (r.pc \in Starting => c.enabled)
  BY <1>1, <1>3, ReadsIs DEF ActRec, ActorPc, Locked, Starting
<1>5. Liv!Acquire(w) /\ UNCHANGED <<cam, pub, down, edits>>
  BY DEF Liv!demand
<1>6. act' = [act EXCEPT ![w] = r]
  BY <1>1, <1>3
<1> QED BY <1>1, <1>2, <1>4, <1>5, <1>6, ReadsIs, TakesLock

LEMMA HookKeeps ==
  ASSUME PubInv, NEW e \in Editor, Liv!reconcile(e)
  PROVE  PubInv' /\ Liv!NotCut
<1>1. PICK c \in {cam, Liv!NoCam} :
        Liv!Reads(c) /\ act' = [act EXCEPT ![e] = [pc |-> "decide", cam |-> c, at |-> edits.made]]
  BY ZenonT(60) DEF Liv!reconcile
<1>2. e \in Liv!Actor /\ edits.made \in Nat
  BY ActorsAre, PubTypes
<1>3. PICK r : r = [pc |-> "decide", cam |-> c, at |-> edits.made]
  OBVIOUS
<1>4. r \in ActRec /\ r.cam = c /\ r.at = edits.made /\ r.pc = "decide"
  BY <1>1, <1>2, <1>3, ReadsIs DEF ActRec, ActorPc
<1>5. "decide" \in Locked /\ "decide" \notin Starting
  BY DEF Locked, Starting
<1>6. Liv!Acquire(e) /\ UNCHANGED <<cam, pub, down, edits>>
  BY DEF Liv!reconcile
<1>7. act' = [act EXCEPT ![e] = r]
  BY <1>1, <1>3
<1> QED BY <1>1, <1>2, <1>4, <1>5, <1>6, <1>7, ReadsIs, TakesLock

LEMMA VisitKeeps ==
  ASSUME PubInv, Liv!Visit
  PROVE  PubInv' /\ Liv!NotCut
<1>1. Liv!Acquire(Liv!Loop) /\ UNCHANGED <<cam, pub, down, fails, edits>>
  BY DEF Liv!Visit
<1>2. Liv!Loop \in Liv!Actor /\ Liv!Loop \notin Editor /\ fails' \in Nat /\ fails' >= fails
  BY <1>1, ActorsAre, PubTypes
<1>3. CASE act' = [act EXCEPT ![Liv!Loop] = [pc |-> "look", cam |-> cam, at |-> 0]]
  <2>1. PICK r : r = [pc |-> "look", cam |-> cam, at |-> 0]
    OBVIOUS
  <2>2. r \in ActRec /\ r.cam = cam /\ r.pc = "look"
    BY <1>2, <2>1, PubTypes DEF ActRec, ActorPc
  <2>3. "look" \in Locked /\ "look" \notin Starting
    BY DEF Locked, Starting
  <2>4. act' = [act EXCEPT ![Liv!Loop] = r]
    BY <1>3, <2>1
  <2> QED BY <1>1, <1>2, <2>2, <2>3, <2>4, TakesLock
<1>4. CASE Liv!Go(Liv!Loop, "give")
  <2>1. "give" \in ActorPc /\ "give" \in Locked /\ "give" \notin Starting
    BY DEF ActorPc, Locked, Starting
  <2>2. PICK r \in ActRec : act' = [act EXCEPT ![Liv!Loop] = r] /\ r.pc = "give"
    BY <1>2, <1>4, <2>1, GoIs
  <2> QED BY <1>1, <1>2, <2>1, <2>2, TakesLock
<1> QED BY <1>3, <1>4 DEF Liv!Visit

LEMMA LookStep ==
  ASSUME PubInv, Liv!Look
  PROVE  PubInv' /\ Liv!NotCut
<1>1. act[Liv!Loop].pc = "look" /\ UNCHANGED <<cam, down, fails>>
  BY DEF Liv!Look
<1>2. Liv!Loop \in Liv!Actor /\ Liv!Loop \notin Editor
  BY ActorsAre
<1>3. act[Liv!Loop].pc \in Acting /\ act[Liv!Loop].pc \in Locked /\ "seen" \in Acting /\ "unseen" \in Acting
  BY <1>1 DEF Acting, Locked
<1>4. CASE Liv!reconcile_locked(Liv!Loop)
  BY <1>1, <1>2, <1>3, <1>4, ReconcileLocked
<1>5. CASE /\ act[Liv!Loop].cam.enabled /\ Liv!Keep /\ pub' = pub
           /\ Liv!Go(Liv!Loop, "seen") \/ Liv!Go(Liv!Loop, "unseen")
  <2>1. PubInv'
    BY <1>1, <1>2, <1>3, <1>5, PubTypes, GoesOn
  <2> QED BY <1>5, <2>1, NotCutIf
<1>6. CASE Liv!Release(Liv!Loop) /\ pub' = pub
  <2>1. PubInv'
    BY <1>1, <1>2, <1>3, <1>6, PubTypes, ReleaseKeeps
  <2> QED BY <1>6, <2>1, NotCutIf
<1> QED BY <1>4, <1>5, <1>6 DEF Liv!Look

LEMMA LoopKeeps ==
  ASSUME PubInv, Liv!reconcile_all \/ Liv!Seen \/ Liv!stop_if_idle
  PROVE  PubInv' /\ Liv!NotCut
<1>1. Liv!Loop \in Liv!Actor /\ Liv!Loop \notin Editor /\ Liv!Loop # Liv!Shutdown
  BY ActorsAre
<1>2. pub \in [on : BOOLEAN, config : Nat, idle : BOOLEAN] /\ down \in BOOLEAN
  BY <1>1, PubTypes
<1>3. CASE Liv!reconcile_all
  <2>1. Liv!Go(Liv!Loop, "visit") /\ UNCHANGED <<cam, lock, pub, down, fails, edits>>
    BY <1>3 DEF Liv!reconcile_all
  <2>2. "visit" \in ActorPc \ Locked
    BY DEF ActorPc, Locked
  <2>3. PubInv'
    BY <1>1, <1>2, <2>1, <2>2, GoesQuietly
  <2> QED BY <2>1, <2>3, NotCutIf
<1>4. ASSUME act[Liv!Loop].pc \in {"seen", "unseen"}
      PROVE  act[Liv!Loop].pc \in Acting /\ act[Liv!Loop].pc \in Locked /\ "ensure" \in Acting /\ act[Liv!Loop].cam.enabled
  BY <1>1, <1>4, AtWork DEF Acting, Locked, Starting
<1>5. CASE Liv!Seen
  <2>1. /\ act[Liv!Loop].pc = "seen" /\ Liv!Go(Liv!Loop, "ensure") /\ pub' = [pub EXCEPT !.idle = FALSE]
        /\ UNCHANGED <<cam, lock, down, fails, edits>>
    BY <1>5 DEF Liv!Seen
  <2>2. pub' \in [on : BOOLEAN, config : Nat, idle : BOOLEAN] /\ pub'.on = pub.on /\ pub'.config = pub.config
    BY <1>2, <2>1
  <2>3. Liv!Keep
    BY <2>1 DEF Liv!Keep
  <2>4. PubInv'
    BY <1>1, <1>4, <2>1, <2>2, <2>3, GoesOn
  <2> QED BY <2>2, <2>4, NotCutIf
<1>6. CASE Liv!stop_if_idle
  <2>1. act[Liv!Loop].pc = "unseen" /\ UNCHANGED <<cam, down, fails>>
    BY <1>6 DEF Liv!stop_if_idle
  <2>2. CASE pub.idle
    <3>1. pub' = Liv!NoPub /\ Liv!Release(Liv!Loop)
      BY <1>6, <2>2 DEF Liv!stop_if_idle
    <3>2. PubInv'
      BY <1>1, <1>4, <2>1, <3>1, NoPubIs, ReleaseKeeps
    <3> QED BY <2>2, <3>2, NotCutIf
  <2>3. CASE ~ pub.idle
    <3>1. Liv!Go(Liv!Loop, "ensure") /\ Liv!Keep /\ pub' = pub
      BY <1>6, <2>3 DEF Liv!stop_if_idle
    <3>2. PubInv'
      BY <1>1, <1>2, <1>4, <2>1, <3>1, GoesOn
    <3> QED BY <3>1, <3>2, NotCutIf
  <2> QED BY <2>2, <2>3
<1> QED BY <1>3, <1>5, <1>6

(* The steps an actor takes under the lock, whoever it is. *)
LEMMA UnderLock ==
  ASSUME PubInv, NEW a \in Liv!Actor, Liv!Ensure(a) \/ Liv!GiveUp(a) \/ Liv!spawn(a) \/ Liv!Insert(a)
  PROVE  PubInv' /\ Liv!NotCut
<1>1. pub \in [on : BOOLEAN, config : Nat, idle : BOOLEAN] /\ act[a].cam \in CamRec
  BY PubTypes
<1>2. CASE Liv!Ensure(a)
  <2>1. act[a].pc = "ensure" /\ Liv!ensure_running_inner(a, a \in Watcher) /\ UNCHANGED <<cam, down, fails>>
    BY <1>2 DEF Liv!Ensure
  <2>2. act[a].pc \in Acting /\ act[a].cam.enabled
    BY <2>1, AtWork DEF Acting, Locked, Starting
  <2>3. (a \in Watcher) \in BOOLEAN
    OBVIOUS
  <2> QED BY <2>1, <2>2, <2>3, EnsureInner
<1>3. CASE Liv!GiveUp(a)
  <2>1. act[a].pc = "give" /\ Liv!Release(a) /\ UNCHANGED <<cam, pub, down, fails>>
    BY <1>3 DEF Liv!GiveUp
  <2>2. act[a].pc \in Locked
    BY <2>1 DEF Locked
  <2>3. a \notin Editor
    BY <2>1, <2>2, AtWork
  <2>4. PubInv'
    BY <1>1, <2>1, <2>2, <2>3, ReleaseKeeps
  <2> QED BY <2>1, <2>4, NotCutIf
<1>4. CASE Liv!spawn(a)
  <2>1. act[a].pc = "spawn" /\ UNCHANGED <<cam, pub, down, fails>>
    BY <1>4 DEF Liv!spawn
  <2>2. act[a].pc \in Acting /\ act[a].pc \in Locked /\ act[a].cam.enabled /\ "insert" \in Acting
    BY <2>1, AtWork DEF Acting, Locked, Starting
  <2>3. CASE down
    <3>1. Liv!Release(a)
      BY <1>4, <2>3 DEF Liv!spawn
    <3>2. PubInv'
      BY <1>1, <2>1, <2>2, <2>3, <3>1, ReleaseKeeps
    <3> QED BY <2>1, <3>2, NotCutIf
  <2>4. CASE ~ down
    <3>1. Liv!Go(a, "insert") /\ Liv!Keep
      BY <1>4, <2>4 DEF Liv!spawn
    <3>2. PubInv'
      BY <1>1, <2>1, <2>2, <3>1, GoesOn
    <3> QED BY <2>1, <3>2, NotCutIf
  <2> QED BY <2>3, <2>4
<1>5. CASE Liv!Insert(a)
  <2>1. /\ act[a].pc = "insert" /\ Liv!Release(a) /\ UNCHANGED <<cam, down, fails>>
        /\ pub' = [on |-> TRUE, config |-> act[a].cam.config, idle |-> FALSE]
    BY <1>5 DEF Liv!Insert, Liv!desired_args
  <2>2. act[a].pc \in Acting /\ act[a].pc \in Locked /\ act[a].cam.enabled
    BY <2>1, AtWork DEF Acting, Locked, Starting
  <2>3. act[a].cam.config \in Nat
    BY <1>1 DEF CamRec
  <2>4. pub' \in [on : BOOLEAN, config : Nat, idle : BOOLEAN] /\ pub'.on /\ pub'.config = act[a].cam.config
    BY <2>1, <2>3
  <2>5. PubInv'
    BY <2>1, <2>2, <2>4, ReleaseKeeps
  <2> QED BY <2>4, <2>5, NotCutIf
<1> QED BY <1>2, <1>3, <1>4, <1>5

LEMMA RowChanges ==
  ASSUME PubInv, NEW e \in Editor, Liv!Edit(e)
  PROVE  PubInv' /\ Liv!NotCut
<1>1. /\ UNCHANGED <<lock, pub, down, fails>> /\ edits' = [edits EXCEPT !.made = @ + 1]
      /\ act' = [act EXCEPT ![e].pc = "hook"]
  BY DEF Liv!Edit, Liv!Go
<1>2. e \in Liv!Actor /\ e # Liv!Shutdown
  BY ActorsAre
<1>3. cam \in CamRec /\ edits \in [made : Nat, settled : Nat] /\ edits.settled <= edits.made /\ act \in [Liv!Actor -> ActRec]
  BY DEF PubInv, PubTypeOK
<1>4. cam' \in CamRec
  BY <1>3, NoCamIs DEF Liv!Edit, CamRec
<1>5. edits' \in [made : Nat, settled : Nat] /\ edits'.settled = edits.settled /\ edits'.made = edits.made + 1
  BY <1>1, <1>3
<1>6. edits'.settled < edits'.made
  BY <1>3, <1>5
<1>7. PICK r : r = [act[e] EXCEPT !.pc = "hook"]
  OBVIOUS
<1>8. act' = [act EXCEPT ![e] = r] /\ r \in ActRec /\ r.pc = "hook"
  BY <1>1, <1>2, <1>3, <1>7 DEF ActRec, ActorPc
<1>9. act' \in [Liv!Actor -> ActRec] /\ act'[e].pc = "hook" /\ \A b \in Liv!Actor : b # e => act'[b] = act[b]
  BY <1>2, <1>3, <1>8
<1>10. "hook" \notin Locked /\ "hook" \notin Acting /\ "hook" \notin Starting
  BY DEF Locked, Acting, Starting
<1>11. PubTypeOK'
  BY <1>1, <1>4, <1>5, <1>6, <1>9 DEF PubInv, PubTypeOK
<1>12. Guarded' /\ StartsEnabled'
  BY <1>1, <1>9, <1>10 DEF PubInv, Guarded, StartsEnabled
<1>13. Fresh'
  BY <1>6 DEF Fresh
<1>14. HooksTrue'
  <2> SUFFICES ASSUME NEW b \in Editor, act'[b].pc \in Locked
               PROVE  act'[b].pc # "give" /\ act'[b].at <= edits'.made /\ act'[b].at # edits'.made
    BY DEF HooksTrue
  <2>1. b # e /\ b \in Liv!Actor
    BY <1>9, <1>10, ActorsAre
  <2>2. act[b] = act'[b] /\ act[b].at \in Nat
    BY <1>9, <2>1, PubTypes
  <2>3. act[b].pc # "give" /\ act[b].at <= edits.made
    BY <2>2 DEF PubInv, HooksTrue
  <2> QED BY <1>3, <1>5, <2>2, <2>3
<1>15. GoingDown'
  BY <1>1, <1>2, <1>9, ActorsAre DEF PubInv, GoingDown
<1>16. Liv!NoResurrection'
  BY <1>3, <1>5, <1>6 DEF Liv!NoResurrection
<1>17. Liv!NotCut
  BY <1>1, NotCutIf
<1> QED BY <1>11, <1>12, <1>13, <1>14, <1>15, <1>16, <1>17 DEF PubInv

LEMMA AroundKeeps ==
  ASSUME PubInv, (\E w \in Watcher : Liv!ensure_live(w) \/ Liv!Watch(w)) \/ Liv!Idle \/ Liv!supervise \/ Liv!shutdown
  PROVE  PubInv' /\ Liv!NotCut
<1>1. pub \in [on : BOOLEAN, config : Nat, idle : BOOLEAN] /\ down \in BOOLEAN
  BY DEF PubInv, PubTypeOK
<1>2. ASSUME NEW w \in Watcher, Liv!ensure_live(w)
      PROVE  PubInv' /\ Liv!NotCut
  <2>1. Liv!Go(w, "demand") /\ UNCHANGED <<cam, lock, pub, down, fails, edits>>
    BY <1>2 DEF Liv!ensure_live
  <2>2. "demand" \in ActorPc \ Locked /\ w \in Liv!Actor
    BY ActorsAre DEF ActorPc, Locked
  <2>3. PubInv'
    BY <1>1, <2>1, <2>2, GoesQuietly
  <2> QED BY <2>1, <2>3, NotCutIf
<1>3. ASSUME NEW w \in Watcher, Liv!Watch(w)
      PROVE  PubInv' /\ Liv!NotCut
  <2>1. UNCHANGED <<cam, lock, act, pub, down, fails, edits>>
    BY <1>3 DEF Liv!Watch
  <2> QED BY <1>1, <2>1, WorldSteps, NotCutIf
<1>4. CASE Liv!Idle
  <2>1. pub' = [pub EXCEPT !.idle = TRUE] /\ UNCHANGED <<cam, lock, act, down, fails, edits>>
    BY <1>4 DEF Liv!Idle
  <2>2. pub' \in [on : BOOLEAN, config : Nat, idle : BOOLEAN] /\ pub'.on = pub.on /\ pub'.config = pub.config
    BY <1>1, <2>1
  <2> QED BY <2>1, <2>2, WorldSteps, NotCutIf
<1>5. CASE Liv!supervise
  <2>1. UNCHANGED <<cam, lock, act, pub, down, fails, edits>>
    BY <1>5 DEF Liv!supervise
  <2> QED BY <1>1, <2>1, WorldSteps, NotCutIf
<1>6. CASE Liv!shutdown
  <2>1. UNCHANGED <<cam, lock, fails, edits>> /\ Liv!Shutdown \in Liv!Actor /\ "stop" \in ActorPc \ Locked /\ "gone" \in ActorPc \ Locked
    BY <1>6, ActorsAre DEF Liv!shutdown, ActorPc, Locked
  <2>2. CASE down' = TRUE /\ Liv!Go(Liv!Shutdown, "stop") /\ pub' = pub
    <3>1. PubInv'
      BY <1>1, <2>1, <2>2, GoesQuietly
    <3> QED BY <2>2, <3>1, NotCutIf
  <2>3. CASE act[Liv!Shutdown].pc = "stop" /\ pub' = Liv!NoPub /\ Liv!Go(Liv!Shutdown, "gone") /\ down' = down
    <3>1. down
      BY <2>3 DEF PubInv, GoingDown
    <3>2. PubInv'
      BY <1>1, <2>1, <2>3, NoPubIs, GoesQuietly
    <3> QED BY <3>1, <3>2, NotCutIf
  <2> QED BY <1>6, <2>2, <2>3 DEF Liv!shutdown
<1> QED BY <1>2, <1>3, <1>4, <1>5, <1>6

LEMMA PubStep ==
  ASSUME PubInv, Liv!PubNext
  PROVE  PubInv' /\ Liv!NotCut
<1>1. ASSUME NEW e \in Editor, act[e].pc = "decide", Liv!reconcile_locked(e), UNCHANGED <<cam, viewers, down, fails>>
      PROVE  PubInv' /\ Liv!NotCut
  <2>1. e \in Liv!Actor /\ act[e].pc \in Acting
    BY <1>1, ActorsAre DEF Acting, Locked
  <2> QED BY <1>1, <2>1, ReconcileLocked, SMTT(60)
<1> QED BY <1>1, AroundKeeps, DemandKeeps, RowChanges, HookKeeps, UnderLock, DropKeeps, LoopKeeps, VisitKeeps, LookStep
        DEF Liv!PubNext

-----------------------------------------------------------------------------
(* Live: the sessions of a credential.                                     *)
ReaperRec == [pc : {"waiting", "sweep", "swept"}, todo : SUBSET Viewer, due : SUBSET Viewer, at : Int, failed : BOOLEAN]

LiveTypeOK ==
  /\ stands \in BOOLEAN /\ session \in [Viewer -> {"none", "vetted", "open", "over"}]
  /\ row \in [Viewer -> Int] /\ noted \in [Viewer -> Int] /\ now \in Nat /\ reaper \in ReaperRec /\ liveErrors \in Nat

(* A session recorded so lately that its row is no stale one. *)
Recent(v) == v \notin Hls /\ noted[v] # Liv!NoRow /\ now - noted[v] <= StaleAge

DueTrue ==
  /\ reaper.pc = "waiting" => reaper.due = {}
  /\ reaper.due # {} => ~ stands
  /\ \A v \in reaper.due : Recent(v) /\ session[v] \in {"open", "over"}

(* A sweep that got all its answers has still to judge what it has to end. *)
SweepTrue ==
  ~ reaper.failed => \A v \in reaper.due : session[v] = "open" => reaper.pc = "sweep" /\ v \in reaper.todo

(* The row of an open session is there to be found. *)
RowsTrue ==
  \A v \in Viewer \ Hls :
    /\ session[v] \in {"none", "vetted"} => noted[v] = Liv!NoRow
    /\ session[v] = "open" /\ Recent(v) => row[v] = noted[v]

LiveInv == LiveTypeOK /\ DueTrue /\ SweepTrue /\ RowsTrue

LEMMA LiveEnds == LiveInv => Liv!WithdrawnEnds
BY DEF LiveInv, SweepTrue, Liv!WithdrawnEnds

LEMMA WaitingIs ==
  /\ Liv!Waiting \in ReaperRec /\ Liv!Waiting.pc = "waiting" /\ Liv!Waiting.due = {} /\ Liv!Waiting.todo = {}
  /\ Liv!Waiting.failed = FALSE
BY DEF Liv!Waiting, ReaperRec

LEMMA LiveInvInit == Liv!LiveInit => LiveInv
<1> SUFFICES ASSUME Liv!LiveInit PROVE LiveInv
  OBVIOUS
<1>1. /\ stands = TRUE /\ session = [v \in Viewer |-> "none"] /\ row = [v \in Viewer |-> Liv!NoRow] /\ noted = row
      /\ reaper = Liv!Waiting /\ now = 0 /\ liveErrors = 0
  BY DEF Liv!LiveInit
<1>2. Liv!NoRow \in Int
  BY DEF Liv!NoRow
<1>3. LiveTypeOK
  BY <1>1, <1>2, WaitingIs DEF LiveTypeOK
<1>4. DueTrue /\ SweepTrue
  BY <1>1, WaitingIs DEF DueTrue, SweepTrue
<1>5. RowsTrue
  BY <1>1 DEF RowsTrue, Recent
<1> QED BY <1>3, <1>4, <1>5 DEF LiveInv

(* Sessions come and go while the sweep stands still. *)
LEMMA SessionSteps ==
  ASSUME LiveInv, UNCHANGED <<stands, now>>, reaper' \in ReaperRec,
         reaper'.pc = reaper.pc, reaper'.due = reaper.due, reaper'.todo = reaper.todo, reaper.failed => reaper'.failed,
         session' \in [Viewer -> {"none", "vetted", "open", "over"}],
         row' \in [Viewer -> Int], noted' \in [Viewer -> Int], liveErrors' \in Nat,
         \A u \in Viewer \ Hls :
           \/ session'[u] = session[u] /\ row'[u] = row[u] /\ noted'[u] = noted[u]
           \/ session'[u] = session[u] /\ session[u] # "open" /\ noted'[u] = noted[u]
           \/ session[u] = "open" /\ session'[u] = "over"  /\ noted'[u] = noted[u]
           \/ session[u] \in {"none", "vetted"} /\ noted'[u] = noted[u]
           \/ session[u] = "vetted" /\ session'[u] = "open" /\ row'[u] = noted'[u]
  PROVE  LiveInv'
<1>1. LiveTypeOK'
  BY DEF LiveInv, LiveTypeOK
<1>2. ASSUME NEW v \in reaper.due
      PROVE  /\ v \in Viewer \ Hls /\ noted'[v] = noted[v] /\ session'[v] \in {"open", "over"}
             /\ session'[v] = "open" => session[v] = "open"
             /\ Recent(v)
  <2>1. v \in Viewer \ Hls /\ session[v] \in {"open", "over"} /\ Recent(v)
    BY <1>2 DEF LiveInv, LiveTypeOK, ReaperRec, DueTrue, Recent
  <2> QED BY <2>1
<1>3. DueTrue'
  BY <1>2 DEF LiveInv, DueTrue, Recent
<1>4. SweepTrue'
  BY <1>2 DEF LiveInv, SweepTrue
<1>5. RowsTrue'
  BY DEF LiveInv, RowsTrue, Recent
<1> QED BY <1>1, <1>3, <1>4, <1>5 DEF LiveInv

LEMMA LiveTypes ==
  ASSUME LiveInv
  PROVE  /\ stands \in BOOLEAN /\ session \in [Viewer -> {"none", "vetted", "open", "over"}]
         /\ row \in [Viewer -> Int] /\ noted \in [Viewer -> Int] /\ now \in Nat /\ reaper \in ReaperRec /\ liveErrors \in Nat
         /\ Liv!NoRow \in Int
BY DEF LiveInv, LiveTypeOK, Liv!NoRow

(* A call that fails only marks the sweep. *)
LEMMA MarkedIs ==
  ASSUME LiveInv, NEW f \in BOOLEAN, reaper' = [reaper EXCEPT !.failed = f], reaper.failed => f
  PROVE  /\ reaper' \in ReaperRec /\ reaper'.pc = reaper.pc /\ reaper'.due = reaper.due /\ reaper'.todo = reaper.todo
         /\ reaper.failed => reaper'.failed
BY LiveTypes DEF ReaperRec

LEMMA FineOrErrs ==
  ASSUME LiveInv, Liv!Fine \/ Liv!Errs
  PROVE  /\ reaper' \in ReaperRec /\ reaper'.pc = reaper.pc /\ reaper'.due = reaper.due /\ reaper'.todo = reaper.todo
         /\ (reaper.failed => reaper'.failed) /\ liveErrors' \in Nat
<1>1. CASE Liv!Fine
  BY <1>1, LiveTypes DEF Liv!Fine
<1>2. CASE Liv!Errs
  <2>1. liveErrors' \in Nat
    BY <1>2, LiveTypes DEF Liv!Errs
  <2>2. PICK f \in BOOLEAN : f = TRUE
    OBVIOUS
  <2>3. reaper' = [reaper EXCEPT !.failed = f] /\ (reaper.failed => f)
    BY <1>2, <2>2 DEF Liv!Errs
  <2> QED BY <2>1, <2>3, MarkedIs
<1> QED BY <1>1, <1>2

LEMMA OpeningKeeps ==
  ASSUME LiveInv, NEW v \in Viewer, Liv!mint(v) \/ Liv!authorize(v) \/ Liv!record_live_session(v) \/ Liv!Leave(v)
  PROVE  LiveInv'
<1>1. CASE Liv!mint(v)
  BY <1>1, LiveTypes, SessionSteps DEF Liv!mint
<1>2. CASE Liv!authorize(v)
  <2>1. PICK s \in {"vetted", "over"} : session' = [session EXCEPT ![v] = s]
    BY <1>2, ZenonT(60) DEF Liv!authorize
  <2>2. Liv!Fine \/ Liv!Errs
    BY <1>2 DEF Liv!authorize, Liv!subject_still_stands
  <2>3. /\ session[v] \in {"none", "open"} /\ (session[v] = "open" => v \in Hls)
        /\ UNCHANGED <<stands, row, noted, now>>
    BY <1>2 DEF Liv!authorize
  <2>4. session' \in [Viewer -> {"none", "vetted", "open", "over"}]
    BY <2>1, LiveTypes
  <2>5. \A u \in Viewer \ Hls : session'[u] = session[u] \/ session[u] \in {"none", "vetted"}
    BY <2>1, <2>3, LiveTypes
  <2> QED BY <2>2, <2>3, <2>4, <2>5, FineOrErrs, LiveTypes, SessionSteps
<1>3. CASE Liv!record_live_session(v)
  <2>1. session[v] = "vetted" /\ session' = [session EXCEPT ![v] = "open"] /\ UNCHANGED <<stands, now>>
    BY <1>3 DEF Liv!record_live_session
  <2>2. session' \in [Viewer -> {"none", "vetted", "open", "over"}] /\ session'[v] = "open" /\ \A u \in Viewer : u # v => session'[u] = session[u]
    BY <2>1, LiveTypes
  <2>3. CASE row' = [row EXCEPT ![v] = now] /\ noted' = [noted EXCEPT ![v] = now] /\ Liv!Fine
    <3>1. /\ row' \in [Viewer -> Int] /\ noted' \in [Viewer -> Int] /\ row'[v] = noted'[v]
          /\ \A u \in Viewer : u # v => row'[u] = row[u] /\ noted'[u] = noted[u]
      BY <2>3, LiveTypes
    <3> QED BY <2>1, <2>2, <2>3, <3>1, FineOrErrs, SessionSteps
  <2>4. CASE Liv!Errs /\ UNCHANGED <<row, noted>>
    BY <2>1, <2>2, <2>4, FineOrErrs, LiveTypes, SessionSteps
  <2> QED BY <1>3, <2>3, <2>4 DEF Liv!record_live_session
<1>4. CASE Liv!Leave(v)
  <2>1. session[v] = "open" /\ session' = [session EXCEPT ![v] = "over"] /\ UNCHANGED <<stands, row, noted, now, reaper, liveErrors>>
    BY <1>4 DEF Liv!Leave
  <2>2. session' \in [Viewer -> {"none", "vetted", "open", "over"}] /\ session'[v] = "over" /\ \A u \in Viewer : u # v => session'[u] = session[u]
    BY <2>1, LiveTypes
  <2> QED BY <2>1, <2>2, LiveTypes, SessionSteps
<1> QED BY <1>1, <1>2, <1>3, <1>4

(* A kick ends the session before its row goes, or leaves both. *)
LEMMA KickIs ==
  ASSUME LiveInv, NEW v \in Viewer, Liv!Kick(v)
  PROVE  /\ session' \in [Viewer -> {"none", "vetted", "open", "over"}] /\ row' \in [Viewer -> Int] /\ liveErrors' \in Nat
         /\ \A u \in Viewer : u # v => session'[u] = session[u] /\ row'[u] = row[u]
         /\ \/ session'[v] = session[v] /\ row'[v] = row[v] /\ liveErrors' # liveErrors
            \/ session'[v] = session[v] /\ session[v] # "open"
            \/ session[v] = "open" /\ session'[v] = "over"
<1>1. CASE /\ session' = [session EXCEPT ![v] = IF @ = "open" THEN "over" ELSE @]
           /\ row' = [row EXCEPT ![v] = Liv!NoRow] /\ liveErrors' = liveErrors
  BY <1>1, LiveTypes
<1>2. CASE liveErrors < MaxLiveErrors /\ liveErrors' = liveErrors + 1 /\ UNCHANGED <<session, row>>
  BY <1>2, LiveTypes
<1> QED BY <1>1, <1>2 DEF Liv!Kick

LEMMA WithdrawOneKeeps ==
  ASSUME LiveInv, NEW v \in Viewer, Liv!WithdrawOne(v)
  PROVE  LiveInv'
<1>1. /\ UNCHANGED <<stands, noted, now>>
      /\ reaper' = [reaper EXCEPT !.failed = @ \/ liveErrors' # liveErrors]
  BY DEF Liv!WithdrawOne
<1>2. PICK f \in BOOLEAN : f = (reaper.failed \/ liveErrors' # liveErrors)
  OBVIOUS
<1>3. reaper' = [reaper EXCEPT !.failed = f] /\ (reaper.failed => f)
  BY <1>1, <1>2
<1>4. CASE UNCHANGED <<session, row, liveErrors>>
  BY <1>1, <1>3, <1>4, MarkedIs, LiveTypes, SessionSteps
<1>5. CASE Liv!Kick(v)
  <2>1. /\ session' \in [Viewer -> {"none", "vetted", "open", "over"}] /\ row' \in [Viewer -> Int] /\ liveErrors' \in Nat
        /\ \A u \in Viewer : \/ session'[u] = session[u] /\ row'[u] = row[u]
                             \/ session'[u] = session[u] /\ session[u] # "open"
                             \/ session[u] = "open" /\ session'[u] = "over"
    BY <1>5, KickIs
  <2>2. noted' \in [Viewer -> Int] /\ \A u \in Viewer : noted'[u] = noted[u]
    BY <1>1, LiveTypes
  <2> QED BY <1>1, <1>3, <2>1, <2>2, MarkedIs, SessionSteps
<1> QED BY <1>4, <1>5 DEF Liv!WithdrawOne

LEMMA SweepKeeps ==
  ASSUME LiveInv, NEW v \in Viewer, Liv!sweep(v)
  PROVE  LiveInv'
<1>1. reaper.pc = "sweep" /\ v \in reaper.todo /\ UNCHANGED <<stands, noted, now>>
  BY DEF Liv!sweep
<1>2. PICK f \in BOOLEAN :
        /\ reaper' = [reaper EXCEPT !.todo = @ \ {v}, !.failed = f] /\ (reaper.failed => f)
        /\ session' \in [Viewer -> {"none", "vetted", "open", "over"}] /\ row' \in [Viewer -> Int] /\ liveErrors' \in Nat
        /\ \A u \in Viewer : u # v => session'[u] = session[u] /\ row'[u] = row[u]
        /\ \/ session'[v] = session[v] /\ row'[v] = row[v] /\ (f \/ row[v] = Liv!NoRow \/ stands)
           \/ session'[v] = session[v] /\ session[v] # "open"
           \/ session[v] = "open" /\ session'[v] = "over"
  <2>1. CASE /\ row[v] = Liv!NoRow \/ stands
             /\ reaper' = [reaper EXCEPT !.todo = @ \ {v}] /\ UNCHANGED <<session, row, liveErrors>>
    <3>1. reaper.failed \in BOOLEAN /\ reaper' = [reaper EXCEPT !.todo = @ \ {v}, !.failed = reaper.failed]
      BY <2>1, LiveTypes DEF ReaperRec
    <3> QED BY <2>1, <3>1, LiveTypes
  <2>2. CASE /\ Liv!Kick(v)
             /\ reaper' = [reaper EXCEPT !.todo = @ \ {v}, !.failed = @ \/ liveErrors' # liveErrors]
    <3>1. PICK f \in BOOLEAN : f = (reaper.failed \/ liveErrors' # liveErrors)
      OBVIOUS
    <3>2. reaper' = [reaper EXCEPT !.todo = @ \ {v}, !.failed = f]
      BY <2>2, <3>1
    <3> QED BY <2>2, <3>1, <3>2, KickIs
  <2>3. CASE /\ liveErrors' = liveErrors + 1 /\ UNCHANGED <<session, row>>
             /\ reaper' = [reaper EXCEPT !.todo = @ \ {v}, !.failed = TRUE]
    <3>1. PICK f \in BOOLEAN : f = TRUE
      OBVIOUS
    <3>2. reaper' = [reaper EXCEPT !.todo = @ \ {v}, !.failed = f] /\ f
      BY <2>3, <3>1
    <3>3. /\ session' \in [Viewer -> {"none", "vetted", "open", "over"}] /\ row' \in [Viewer -> Int] /\ liveErrors' \in Nat
          /\ \A u \in Viewer : session'[u] = session[u] /\ row'[u] = row[u]
      BY <2>3, LiveTypes
    <3> QED BY <3>2, <3>3
  <2> QED BY <2>1, <2>2, <2>3 DEF Liv!sweep
<1>3. /\ reaper' \in ReaperRec /\ reaper'.pc = "sweep" /\ reaper'.due = reaper.due /\ reaper'.todo = reaper.todo \ {v}
      /\ reaper'.failed = f
  BY <1>1, <1>2, LiveTypes DEF ReaperRec
<1>4. LiveTypeOK'
  BY <1>1, <1>2, <1>3, LiveTypes DEF LiveTypeOK
<1>5. DueTrue'
  <2>1. \A u \in reaper.due : u \in Viewer /\ session'[u] \in {"open", "over"}
    <3>1. ASSUME NEW u \in reaper.due PROVE u \in Viewer /\ session[u] \in {"open", "over"}
      BY <3>1, LiveTypes DEF LiveInv, DueTrue, ReaperRec
    <3> QED BY <1>2, <3>1
  <2> QED BY <1>1, <1>3, <2>1 DEF LiveInv, DueTrue, Recent
<1>6. SweepTrue'
  <2> SUFFICES ASSUME ~ f, NEW u \in reaper.due, session'[u] = "open" PROVE u \in reaper.todo \ {v}
    BY <1>3 DEF SweepTrue
  <2>1. u \in Viewer \ Hls /\ Recent(u) /\ ~ stands /\ ~ reaper.failed
    BY <1>2, LiveTypes DEF LiveInv, DueTrue, ReaperRec, Recent
  <2>2. session[u] = "open"
    BY <1>2, <2>1
  <2>3. u \in reaper.todo
    BY <2>1, <2>2 DEF LiveInv, SweepTrue
  <2>4. row[u] # Liv!NoRow
    BY <2>1, <2>2 DEF LiveInv, RowsTrue, Recent
  <2> QED BY <1>2, <2>1, <2>2, <2>3, <2>4
<1>7. RowsTrue'
  BY <1>1, <1>2 DEF LiveInv, RowsTrue, Recent
<1> QED BY <1>4, <1>5, <1>6, <1>7 DEF LiveInv

LEMMA ListKeeps == ASSUME LiveInv, Liv!list_sessions PROVE LiveInv'
<1>1. UNCHANGED <<stands, session, row, token, prompt, noted, now>> /\ liveErrors' \in Nat
  BY LiveTypes DEF Liv!list_sessions
<1>2. RowsTrue'
  BY <1>1 DEF LiveInv, RowsTrue, Recent
<1>3. CASE reaper' = [Liv!Waiting EXCEPT !.pc = "sweep", !.failed = TRUE]
  <2>1. reaper' \in ReaperRec /\ reaper'.pc = "sweep" /\ reaper'.due = {} /\ reaper'.failed
    BY <1>3, WaitingIs DEF ReaperRec
  <2>2. LiveTypeOK'
    BY <1>1, <2>1, LiveTypes DEF LiveTypeOK
  <2>3. DueTrue' /\ SweepTrue'
    BY <2>1 DEF DueTrue, SweepTrue
  <2> QED BY <1>2, <2>2, <2>3 DEF LiveInv
<1>4. CASE reaper' = [Liv!Waiting EXCEPT !.pc = "sweep", !.todo = {v \in Viewer \ Hls : session[v] = "open"},
                                         !.due = Liv!Due, !.at = now]
  <2>1. Liv!Due \subseteq Viewer /\ {v \in Viewer \ Hls : session[v] = "open"} \subseteq Viewer /\ now \in Int
    BY LiveTypes DEF Liv!Due
  <2>2. /\ reaper' \in ReaperRec /\ reaper'.pc = "sweep" /\ reaper'.due = Liv!Due
        /\ reaper'.todo = {v \in Viewer \ Hls : session[v] = "open"}
    BY <1>4, <2>1, WaitingIs DEF ReaperRec
  <2>3. LiveTypeOK'
    BY <1>1, <2>2, LiveTypes DEF LiveTypeOK
  <2>4. DueTrue'
    BY <1>1, <2>2 DEF DueTrue, Liv!Due, Recent
  <2>5. SweepTrue'
    BY <1>1, <2>2 DEF SweepTrue, Liv!Due
  <2> QED BY <1>2, <2>3, <2>4, <2>5 DEF LiveInv
<1> QED BY <1>3, <1>4 DEF Liv!list_sessions

LEMMA PruneKeeps ==
  ASSUME LiveInv, Liv!prune_stale
  PROVE  LiveInv'
<1>1. /\ reaper.pc = "sweep" /\ reaper.todo = {} /\ UNCHANGED <<stands, session, noted, now, liveErrors>>
      /\ row' = [v \in Viewer |-> IF row[v] # Liv!NoRow /\ row[v] < now - StaleAge THEN Liv!NoRow ELSE row[v]]
      /\ reaper' = [reaper EXCEPT !.pc = "swept"]
  BY DEF Liv!prune_stale
<1>2. /\ reaper' \in ReaperRec /\ reaper'.pc = "swept" /\ reaper'.due = reaper.due /\ reaper'.failed = reaper.failed
  BY <1>1, LiveTypes DEF ReaperRec
<1>3. row' \in [Viewer -> Int]
  BY <1>1, LiveTypes
<1>4. LiveTypeOK'
  BY <1>1, <1>2, <1>3, LiveTypes DEF LiveTypeOK
<1>5. DueTrue'
  BY <1>1, <1>2 DEF LiveInv, DueTrue, Recent
<1>6. SweepTrue'
  BY <1>1, <1>2 DEF LiveInv, SweepTrue
<1>7. RowsTrue'
  <2> SUFFICES ASSUME NEW v \in Viewer \ Hls
               PROVE  /\ session[v] \in {"none", "vetted"} => noted[v] = Liv!NoRow
                      /\ session[v] = "open" /\ Recent(v) => row'[v] = noted[v]
    BY <1>1 DEF RowsTrue, Recent
  <2>1. session[v] \in {"none", "vetted"} => noted[v] = Liv!NoRow
    BY DEF LiveInv, RowsTrue
  <2>2. ASSUME session[v] = "open", Recent(v) PROVE row'[v] = noted[v]
    <3>1. row[v] = noted[v]
      BY <2>2 DEF LiveInv, RowsTrue
    <3>2. noted[v] \in Int /\ now \in Int /\ now - noted[v] <= StaleAge
      BY <2>2, LiveTypes DEF Recent
    <3>3. ~ (row[v] < now - StaleAge)
      BY <3>1, <3>2, Durations
    <3> QED BY <1>1, <3>1, <3>3
  <2> QED BY <2>1, <2>2
<1> QED BY <1>4, <1>5, <1>6, <1>7 DEF LiveInv

LEMMA SubjectKeeps ==
  ASSUME LiveInv, Liv!NextSweep \/ Liv!Change \/ Liv!withdraw_now
  PROVE  LiveInv'
<1>1. UNCHANGED <<session, row, noted, now, liveErrors>>
  BY DEF Liv!NextSweep, Liv!Change, Liv!withdraw_now
<1>2. RowsTrue'
  BY <1>1 DEF LiveInv, RowsTrue, Recent
<1>3. CASE Liv!NextSweep
  <2>1. reaper' = Liv!Waiting /\ stands' = stands
    BY <1>3 DEF Liv!NextSweep
  <2>2. LiveTypeOK'
    BY <1>1, <2>1, LiveTypes, WaitingIs DEF LiveTypeOK
  <2>3. DueTrue' /\ SweepTrue'
    BY <2>1, WaitingIs DEF DueTrue, SweepTrue
  <2> QED BY <1>2, <2>2, <2>3 DEF LiveInv
<1>4. CASE Liv!Change
  <2>1. reaper' = [reaper EXCEPT !.due = {}] /\ stands' = ~ stands
    BY <1>4 DEF Liv!Change
  <2>2. reaper' \in ReaperRec /\ reaper'.due = {}
    BY <2>1, LiveTypes DEF ReaperRec
  <2>3. LiveTypeOK'
    BY <1>1, <2>1, <2>2, LiveTypes DEF LiveTypeOK
  <2>4. DueTrue' /\ SweepTrue'
    BY <2>2 DEF DueTrue, SweepTrue
  <2> QED BY <1>2, <2>3, <2>4 DEF LiveInv
<1>5. CASE Liv!withdraw_now
  <2>1. stands /\ stands' = FALSE /\ reaper' = reaper
    BY <1>5 DEF Liv!withdraw_now
  <2>2. LiveTypeOK'
    BY <1>1, <2>1, LiveTypes DEF LiveTypeOK
  <2>3. DueTrue' /\ SweepTrue'
    BY <1>1, <2>1 DEF LiveInv, DueTrue, SweepTrue
  <2> QED BY <1>2, <2>2, <2>3 DEF LiveInv
<1> QED BY <1>3, <1>4, <1>5

LEMMA LiveTickKeeps ==
  ASSUME LiveInv, Liv!Tick
  PROVE  LiveInv'
<1>1. reaper.pc = "waiting" /\ now' = now + 1 /\ UNCHANGED <<stands, session, row, reaper, noted, liveErrors>>
  BY DEF Liv!Tick
<1>2. LiveTypeOK'
  BY <1>1, LiveTypes DEF LiveTypeOK
<1>3. reaper.due = {}
  BY <1>1 DEF LiveInv, DueTrue
<1>4. DueTrue' /\ SweepTrue'
  BY <1>1, <1>3 DEF DueTrue, SweepTrue
<1>5. ASSUME NEW v \in Viewer, Recent(v)' PROVE Recent(v)
  <2>1. noted[v] \in Int /\ now \in Int
    BY LiveTypes
  <2> QED BY <1>1, <1>5, <2>1, Durations DEF Recent
<1>6. RowsTrue'
  BY <1>1, <1>5 DEF LiveInv, RowsTrue
<1> QED BY <1>2, <1>4, <1>6 DEF LiveInv

LEMMA LiveStep == ASSUME LiveInv, Liv!LiveNext PROVE LiveInv'
BY OpeningKeeps, WithdrawOneKeeps, SweepKeeps, ListKeeps, PruneKeeps, SubjectKeeps, LiveTickKeeps DEF Liv!LiveNext

-----------------------------------------------------------------------------
(* BackupJobs.                                                             *)
TaskPc == {"off", "queued", "started", "vet", "copy", "check", "asked", "measure", "zip"}
TaskRec == [pc : TaskPc, cams : SUBSET Cam, by : {"scheduler", "key"}, segs : SUBSET Cam, todo : SUBSET Cam,
            checked : Nat, since : Nat]
PolicyRec == [cams : SUBSET Cam, due : BOOLEAN]

BkTypeOK ==
  /\ task \in [Job -> TaskRec] /\ footage \subseteq Cam /\ withdrawn \in [Cam -> Int] /\ policy \in PolicyRec
  /\ bkNow \in Nat /\ dbFailures \in Nat

Vetted == {"copy", "check"}

(* What a transfer knows of its creator: at the last check it held every camera
   whose footage is being moved, and the check is no older than it may be. *)
Transfer(t) ==
  /\ t.pc \in Vetted \cup {"vet"} => t.todo \subseteq t.segs /\ (t.cams = {} \/ t.segs \subseteq t.cams)
  /\ t.pc \in Vetted =>
       /\ t.checked <= bkNow
       /\ t.by = "key" /\ dbFailures = 0 =>
            \A c \in t.segs : withdrawn[c] = Bk!Holds \/ withdrawn[c] >= t.checked
  /\ t.pc = "copy" => t.since <= bkNow /\ bkNow <= t.since + FileTime /\ t.since <= t.checked + RECHECK
  /\ t.pc = "check" => t.since = bkNow

BkInv == BkTypeOK /\ (\A j \in Job : Transfer(task[j])) /\ shipped = {}

LEMMA BkEnds == BkInv => Bk!WithdrawalStops
BY DEF BkInv, Bk!WithdrawalStops

LEMMA OffIs == Bk!Off \in TaskRec /\ Bk!Off.pc = "off"
BY DEF Bk!Off, TaskRec, TaskPc

LEMMA BkInvInit ==
  ASSUME NEW used, Bk!BkInit(used)
  PROVE  BkInv
<1>1. /\ task = [j \in Job |-> Bk!Off] /\ footage = Cam /\ shipped = {} /\ bkNow = 0 /\ dbFailures = 0
      /\ withdrawn \in [Cam -> {Bk!Holds, Bk!Never}]
      /\ policy \in [cams : {{}} \cup {{c} : c \in Cam}, due : BOOLEAN]
  BY DEF Bk!BkInit
<1>2. withdrawn \in [Cam -> Int]
  BY <1>1 DEF Bk!Holds, Bk!Never
<1>3. policy \in PolicyRec
  BY <1>1 DEF PolicyRec
<1>4. task \in [Job -> TaskRec] /\ \A j \in Job : task[j].pc = "off"
  BY <1>1, OffIs
<1>5. BkTypeOK
  BY <1>1, <1>2, <1>3, <1>4 DEF BkTypeOK
<1>6. \A j \in Job : Transfer(task[j])
  BY <1>4 DEF Transfer, Vetted
<1> QED BY <1>1, <1>5, <1>6 DEF BkInv

LEMMA BkTypes ==
  ASSUME BkInv
  PROVE  /\ task \in [Job -> TaskRec] /\ footage \subseteq Cam /\ withdrawn \in [Cam -> Int] /\ policy \in PolicyRec
         /\ policy.cams \subseteq Cam /\ bkNow \in Nat /\ dbFailures \in Nat /\ shipped = {}
BY DEF BkInv, BkTypeOK, PolicyRec

LEMMA TaskTypes ==
  ASSUME BkInv, NEW j \in Job
  PROVE  /\ task[j] \in TaskRec /\ task[j].pc \in TaskPc /\ task[j].cams \subseteq Cam /\ task[j].by \in {"scheduler", "key"}
         /\ task[j].segs \subseteq Cam /\ task[j].todo \subseteq Cam /\ task[j].checked \in Nat /\ task[j].since \in Nat
         /\ Transfer(task[j])
BY BkTypes DEF TaskRec, BkInv

LEMMA PolicyIs ==
  ASSUME BkInv, policy' = policy \/ (\E b \in BOOLEAN : policy' = [policy EXCEPT !.due = b])
  PROVE  policy' \in PolicyRec
<1>1. policy \in PolicyRec
  BY BkTypes
<1>2. ASSUME NEW b \in BOOLEAN, policy' = [policy EXCEPT !.due = b] PROVE policy' \in PolicyRec
  BY <1>1, <1>2 DEF PolicyRec
<1> QED BY <1>1, <1>2

LEMMA StillIs ==
  ASSUME BkInv, UNCHANGED <<footage, policy, dbFailures>>
  PROVE  footage' \subseteq Cam /\ policy' \in PolicyRec /\ dbFailures' \in Nat /\ dbFailures' >= dbFailures
BY BkTypes

(* A job takes a step, as the clock and the key stand still. *)
LEMMA JobSteps ==
  ASSUME BkInv, UNCHANGED <<withdrawn, bkNow>>, footage' \subseteq Cam, policy' \in PolicyRec, shipped' = shipped,
         dbFailures' \in Nat, dbFailures' >= dbFailures,
         NEW j \in Job, NEW r \in TaskRec, task' = [task EXCEPT ![j] = r], Transfer(r)'
  PROVE  BkInv'
<1>1. task' \in [Job -> TaskRec] /\ task'[j] = r /\ \A k \in Job : k # j => task'[k] = task[k]
  BY BkTypes
<1>2. BkTypeOK'
  BY <1>1, BkTypes DEF BkTypeOK
<1>3. ASSUME NEW k \in Job PROVE Transfer(task[k])'
  <2>1. CASE k = j
    BY <1>1, <2>1 DEF Transfer
  <2>2. CASE k # j
    <3>1. task'[k] = task[k] /\ (dbFailures' = 0 => dbFailures = 0)
      BY <1>1, <2>2, BkTypes
    <3> QED BY <3>1, TaskTypes DEF Transfer
  <2> QED BY <2>1, <2>2
<1> QED BY <1>2, <1>3, BkTypes DEF BkInv

LEMMA QuietSteps ==
  ASSUME BkInv, UNCHANGED <<withdrawn, bkNow>>, footage' \subseteq Cam, policy' \in PolicyRec, shipped' = shipped,
         dbFailures' \in Nat, dbFailures' >= dbFailures,
         NEW j \in Job, NEW r \in TaskRec, task' = [task EXCEPT ![j] = r], r.pc \notin {"vet", "copy", "check"}
  PROVE  BkInv'
<1>1. Transfer(r)'
  BY DEF Transfer, Vetted
<1> QED BY <1>1, JobSteps

LEMMA OtherSteps ==
  ASSUME BkInv, UNCHANGED <<task, withdrawn, bkNow>>, footage' \subseteq Cam, policy' \in PolicyRec, shipped' = shipped,
         dbFailures' \in Nat, dbFailures' >= dbFailures
  PROVE  BkInv'
<1>1. BkTypeOK'
  BY BkTypes DEF BkTypeOK
<1>2. dbFailures' = 0 => dbFailures = 0
  BY BkTypes
<1>3. ASSUME NEW k \in Job PROVE Transfer(task[k])'
  BY <1>2, TaskTypes DEF Transfer
<1> QED BY <1>1, <1>3, BkTypes DEF BkInv

LEMMA EndKeeps ==
  ASSUME BkInv, NEW j \in Job, Bk!End(j), UNCHANGED <<withdrawn, bkNow, footage, policy, shipped>>,
         dbFailures' \in Nat, dbFailures' >= dbFailures
  PROVE  BkInv'
<1>1. task' = [task EXCEPT ![j] = Bk!Off]
  BY DEF Bk!End
<1> QED BY <1>1, BkTypes, OffIs, QuietSteps

LEMMA PcKeeps ==
  ASSUME BkInv, NEW j \in Job, NEW p \in TaskPc, p \notin {"vet", "copy", "check"}, task' = [task EXCEPT ![j].pc = p],
         UNCHANGED <<withdrawn, bkNow, footage, policy, shipped, dbFailures>>
  PROVE  BkInv'
<1>1. PICK r : r = [task[j] EXCEPT !.pc = p]
  OBVIOUS
<1>2. r \in TaskRec /\ r.pc = p /\ task' = [task EXCEPT ![j] = r]
  BY <1>1, TaskTypes DEF TaskRec
<1>3. dbFailures' \in Nat /\ dbFailures' >= dbFailures /\ footage' \subseteq Cam /\ policy' \in PolicyRec
  BY BkTypes
<1> QED BY <1>2, <1>3, QuietSteps

LEMMA CreateKeeps ==
  ASSUME BkInv, NEW j \in Job, NEW cams \in SUBSET Cam, NEW by \in {"scheduler", "key"}, Bk!create_policy_job(j, cams, by)
  PROVE  BkInv'
<1>1. UNCHANGED <<footage, withdrawn, shipped, bkNow>>
  BY DEF Bk!create_policy_job
<1>2. CASE /\ policy' = [policy EXCEPT !.due = FALSE] /\ dbFailures' = dbFailures
           /\ task' = [task EXCEPT ![j] = [Bk!Off EXCEPT !.pc = "queued", !.cams = cams, !.by = by]]
  <2>1. PICK r : r = [Bk!Off EXCEPT !.pc = "queued", !.cams = cams, !.by = by]
    OBVIOUS
  <2>2. r \in TaskRec /\ r.pc = "queued"
    BY <2>1, OffIs DEF TaskRec, TaskPc
  <2>3. footage' \subseteq Cam /\ dbFailures' \in Nat /\ dbFailures' >= dbFailures
    BY <1>1, <1>2, BkTypes
  <2>4. policy' \in PolicyRec
    BY <1>2, PolicyIs
  <2>5. task' = [task EXCEPT ![j] = r]
    BY <1>2, <2>1
  <2> QED BY <1>1, <2>2, <2>3, <2>4, <2>5, QuietSteps
<1>3. CASE Bk!DbFails /\ UNCHANGED <<policy, task>>
  <2>1. dbFailures' \in Nat /\ dbFailures' >= dbFailures /\ policy' \in PolicyRec /\ footage' \subseteq Cam
    BY <1>1, <1>3, BkTypes DEF Bk!DbFails
  <2> QED BY <1>1, <1>3, <2>1, OtherSteps
<1> QED BY <1>2, <1>3 DEF Bk!create_policy_job

LEMMA ExecuteKeeps == ASSUME BkInv, NEW j \in Job, Bk!execute_job(j) PROVE BkInv'
<1>1. task[j].pc = "started" /\ UNCHANGED <<footage, withdrawn, policy, shipped, bkNow, dbFailures>>
  BY DEF Bk!execute_job
<1>2. CASE Bk!End(j)
  BY <1>1, <1>2, BkTypes, EndKeeps
<1>3. PICK sel : sel = Bk!resolve_segments(task[j].cams)
  OBVIOUS
<1>4. CASE task' = [task EXCEPT ![j] = [@ EXCEPT !.pc = "vet", !.segs = sel, !.todo = sel]]
  <2>1. sel \subseteq Cam /\ (task[j].cams = {} \/ sel \subseteq task[j].cams)
    BY <1>3, BkTypes DEF Bk!resolve_segments
  <2>2. PICK r : r = [task[j] EXCEPT !.pc = "vet", !.segs = sel, !.todo = sel]
    OBVIOUS
  <2>3. r \in TaskRec /\ r.pc = "vet" /\ r.segs = sel /\ r.todo = sel /\ r.cams = task[j].cams
    BY <2>1, <2>2, TaskTypes DEF TaskRec, TaskPc
  <2>4. Transfer(r)'
    BY <2>1, <2>3 DEF Transfer, Vetted
  <2>5. task' = [task EXCEPT ![j] = r]
    BY <1>4, <2>2
  <2>6. footage' \subseteq Cam /\ policy' \in PolicyRec /\ dbFailures' \in Nat /\ dbFailures' >= dbFailures
    BY <1>1, StillIs
  <2> QED BY <1>1, <2>3, <2>4, <2>5, <2>6, JobSteps
<1> QED BY <1>2, <1>3, <1>4 DEF Bk!execute_job

(* A creator that stands holds what the job moves. *)
LEMMA StandingIs ==
  ASSUME BkInv, NEW j \in Job, NEW yes \in BOOLEAN, Bk!creator_standing(j, yes), yes,
         task[j].pc \in {"vet", "copy", "check"}
  PROVE  /\ dbFailures' \in Nat /\ dbFailures' >= dbFailures
         /\ task[j].by = "key" /\ dbFailures' = 0 => \A c \in task[j].segs : withdrawn[c] = Bk!Holds
<1>1. dbFailures \in Nat
  BY BkTypes
<1>2. CASE Bk!Stands(j) /\ dbFailures' = dbFailures
  <2>1. task[j].cams = {} \/ task[j].segs \subseteq task[j].cams
    BY TaskTypes DEF Transfer, Vetted
  <2>2. task[j].segs \subseteq Cam /\ task[j].cams \subseteq Cam
    BY TaskTypes
  <2>3. task[j].by = "key" => task[j].segs \subseteq Bk!Held
    BY <1>2, <2>1, <2>2 DEF Bk!Stands
  <2> QED BY <1>1, <1>2, <2>3 DEF Bk!Held
<1>3. CASE dbFailures' = dbFailures + 1
  BY <1>1, <1>3
<1> QED BY <1>2, <1>3 DEF Bk!creator_standing, Bk!DbFails

LEMMA NotStandingIs ==
  ASSUME BkInv, NEW j \in Job, NEW yes \in BOOLEAN, Bk!creator_standing(j, yes)
  PROVE  dbFailures' \in Nat /\ dbFailures' >= dbFailures
BY BkTypes DEF Bk!creator_standing, Bk!DbFails

LEMMA VetKeeps == ASSUME BkInv, NEW j \in Job, Bk!Vet(j) PROVE BkInv'
<1>1. task[j].pc = "vet" /\ UNCHANGED <<footage, withdrawn, policy, shipped, bkNow>>
  BY DEF Bk!Vet
<1>2. PICK yes \in BOOLEAN :
        /\ Bk!creator_standing(j, yes)
        /\ yes => task' = [task EXCEPT ![j] = [@ EXCEPT !.pc = "copy", !.checked = bkNow, !.since = bkNow]]
        /\ ~ yes => Bk!End(j)
  BY DEF Bk!Vet
<1>3. CASE ~ yes
  BY <1>1, <1>2, <1>3, NotStandingIs, EndKeeps
<1>4. CASE yes
  <2>1. /\ dbFailures' \in Nat /\ dbFailures' >= dbFailures
        /\ task[j].by = "key" /\ dbFailures' = 0 => \A c \in task[j].segs : withdrawn[c] = Bk!Holds
    BY <1>1, <1>2, <1>4, StandingIs, ZenonT(60)
  <2>2. PICK r : r = [task[j] EXCEPT !.pc = "copy", !.checked = bkNow, !.since = bkNow]
    OBVIOUS
  <2>3. /\ r \in TaskRec /\ r.pc = "copy" /\ r.checked = bkNow /\ r.since = bkNow /\ r.segs = task[j].segs
        /\ r.todo = task[j].todo /\ r.cams = task[j].cams /\ r.by = task[j].by
    BY <2>2, TaskTypes, BkTypes, ZenonT(60) DEF TaskRec, TaskPc
  <2>4. r.todo \subseteq r.segs /\ (r.cams = {} \/ r.segs \subseteq r.cams)
    BY <1>1, <2>3, TaskTypes DEF Transfer, Vetted
  <2>5. Transfer(r)'
    BY <1>1, <2>1, <2>3, <2>4, BkTypes, Durations DEF Transfer, Vetted
  <2>6. task' = [task EXCEPT ![j] = r]
    BY <1>2, <1>4, <2>2
  <2> QED BY <1>1, <2>1, <2>3, <2>5, <2>6, BkTypes, JobSteps
<1> QED BY <1>3, <1>4

LEMMA CopyKeeps == ASSUME BkInv, NEW j \in Job, Bk!CopyFile(j) PROVE BkInv'
<1>1. task[j].pc = "copy" /\ UNCHANGED <<footage, withdrawn, policy, bkNow, dbFailures>>
  BY DEF Bk!CopyFile
<1>2. CASE Bk!End(j) /\ shipped' = shipped
  BY <1>1, <1>2, BkTypes, EndKeeps
<1>3. ASSUME NEW c \in task[j].todo,
             task' = [task EXCEPT ![j] = [@ EXCEPT !.pc = "check", !.todo = task[j].todo \ {c}, !.since = bkNow]],
             shipped' = IF c \in footage /\ Bk!Overdue(j, c) THEN shipped \cup {<<j, c>>} ELSE shipped
      PROVE  BkInv'
  <2>1. /\ task[j].todo \subseteq task[j].segs /\ (task[j].cams = {} \/ task[j].segs \subseteq task[j].cams)
        /\ task[j].checked <= bkNow
        /\ task[j].by = "key" /\ dbFailures = 0 =>
             \A d \in task[j].segs : withdrawn[d] = Bk!Holds \/ withdrawn[d] >= task[j].checked
        /\ bkNow <= task[j].since + FileTime /\ task[j].since <= task[j].checked + RECHECK
    BY <1>1, TaskTypes DEF Transfer, Vetted
  <2>2. ~ Bk!Overdue(j, c)
    <3>1. c \in Cam /\ withdrawn[c] \in Int /\ bkNow \in Nat /\ task[j].checked \in Nat /\ task[j].since \in Nat
      BY <1>3, TaskTypes, BkTypes
    <3>2. RECHECK \in Nat /\ FileTime \in Nat
      BY Durations
    <3>3. SUFFICES ASSUME task[j].by = "key", dbFailures = 0, withdrawn[c] >= task[j].checked
                   PROVE  ~ (bkNow - withdrawn[c] > RECHECK + FileTime)
      BY <1>3, <2>1 DEF Bk!Overdue
    <3> QED BY <2>1, <3>1, <3>2, <3>3
  <2>3. shipped' = shipped
    BY <1>3, <2>2
  <2>4. PICK r : r = [task[j] EXCEPT !.pc = "check", !.todo = task[j].todo \ {c}, !.since = bkNow]
    OBVIOUS
  <2>5. /\ r \in TaskRec /\ r.pc = "check" /\ r.checked = task[j].checked /\ r.since = bkNow /\ r.segs = task[j].segs
        /\ r.todo = task[j].todo \ {c} /\ r.cams = task[j].cams /\ r.by = task[j].by
    BY <2>4, TaskTypes, BkTypes, ZenonT(60) DEF TaskRec, TaskPc
  <2>6. Transfer(r)'
    BY <1>1, <2>1, <2>5 DEF Transfer, Vetted
  <2>7. task' = [task EXCEPT ![j] = r]
    BY <1>3, <2>4
  <2>8. footage' \subseteq Cam /\ policy' \in PolicyRec /\ dbFailures' \in Nat /\ dbFailures' >= dbFailures
    BY <1>1, StillIs
  <2> QED BY <1>1, <2>3, <2>5, <2>6, <2>7, <2>8, JobSteps
<1> QED BY <1>2, <1>3 DEF Bk!CopyFile

LEMMA CheckKeeps == ASSUME BkInv, NEW j \in Job, Bk!CheckCreator(j) PROVE BkInv'
<1>1. task[j].pc = "check" /\ UNCHANGED <<footage, withdrawn, policy, shipped, bkNow>>
  BY DEF Bk!CheckCreator
<1>2. /\ task[j].todo \subseteq task[j].segs /\ (task[j].cams = {} \/ task[j].segs \subseteq task[j].cams)
      /\ task[j].checked <= bkNow /\ task[j].since = bkNow
      /\ task[j].by = "key" /\ dbFailures = 0 =>
           \A d \in task[j].segs : withdrawn[d] = Bk!Holds \/ withdrawn[d] >= task[j].checked
  BY <1>1, TaskTypes DEF Transfer, Vetted
<1>3. bkNow \in Nat /\ RECHECK \in Nat /\ FileTime \in Nat /\ task[j].checked \in Nat
  BY BkTypes, TaskTypes, Durations
<1>4. CASE ~ Bk!Due(j) /\ task' = [task EXCEPT ![j].pc = "copy"] /\ dbFailures' = dbFailures
  <2>1. PICK r : r = [task[j] EXCEPT !.pc = "copy"]
    BY ZenonT(60)
  <2>2. /\ r \in TaskRec /\ r.pc = "copy" /\ r.checked = task[j].checked /\ r.since = task[j].since /\ r.segs = task[j].segs
        /\ r.todo = task[j].todo /\ r.cams = task[j].cams /\ r.by = task[j].by
    BY <2>1, TaskTypes DEF TaskRec, TaskPc
  <2>3. r.since <= r.checked + RECHECK
    BY <1>2, <1>3, <1>4, <2>2 DEF Bk!Due
  <2>4. Transfer(r)'
    BY <1>1, <1>2, <1>3, <1>4, <2>2, <2>3 DEF Transfer, Vetted
  <2>5. task' = [task EXCEPT ![j] = r]
    BY <1>4, <2>1
  <2>6. footage' \subseteq Cam /\ policy' \in PolicyRec /\ dbFailures' \in Nat /\ dbFailures' >= dbFailures
    BY <1>1, <1>4, StillIs
  <2> QED BY <1>1, <2>2, <2>4, <2>5, <2>6, JobSteps
<1>5. ASSUME NEW yes \in BOOLEAN, Bk!creator_standing(j, yes), ~ yes, Bk!End(j)
      PROVE  BkInv'
  BY <1>1, <1>5, NotStandingIs, EndKeeps
<1>6. ASSUME NEW yes \in BOOLEAN, Bk!creator_standing(j, yes), yes,
             task' = [task EXCEPT ![j] = [@ EXCEPT !.pc = "copy", !.checked = bkNow]]
      PROVE  BkInv'
  <2>1. /\ dbFailures' \in Nat /\ dbFailures' >= dbFailures
        /\ task[j].by = "key" /\ dbFailures' = 0 => \A c \in task[j].segs : withdrawn[c] = Bk!Holds
    BY <1>1, <1>6, StandingIs, ZenonT(60)
  <2>2. PICK r : r = [task[j] EXCEPT !.pc = "copy", !.checked = bkNow]
    OBVIOUS
  <2>3. /\ r \in TaskRec /\ r.pc = "copy" /\ r.checked = bkNow /\ r.since = bkNow /\ r.segs = task[j].segs
        /\ r.todo = task[j].todo /\ r.cams = task[j].cams /\ r.by = task[j].by
    BY <1>2, <2>2, TaskTypes, BkTypes, ZenonT(60) DEF TaskRec, TaskPc
  <2>4. Transfer(r)'
    BY <1>1, <1>2, <1>3, <2>1, <2>3 DEF Transfer, Vetted
  <2>5. task' = [task EXCEPT ![j] = r]
    BY <1>6, <2>2
  <2> QED BY <1>1, <2>1, <2>3, <2>4, <2>5, BkTypes, JobSteps
<1> QED BY <1>4, <1>5, <1>6 DEF Bk!CheckCreator

LEMMA WithdrawKeeps == ASSUME BkInv, Bk!Withdraw PROVE BkInv'
<1>1. UNCHANGED <<task, footage, policy, shipped, bkNow, dbFailures>>
  BY DEF Bk!Withdraw
<1>2. PICK cs \in SUBSET Bk!Held : withdrawn' = [c \in Cam |-> IF c \in cs THEN bkNow ELSE withdrawn[c]]
  BY DEF Bk!Withdraw
<1>3. withdrawn' \in [Cam -> Int]
  BY <1>2, BkTypes
<1>4. BkTypeOK'
  BY <1>1, <1>3, BkTypes DEF BkTypeOK
<1>5. ASSUME NEW k \in Job PROVE Transfer(task[k])'
  <2>1. \A c \in Cam : withdrawn'[c] = bkNow \/ withdrawn'[c] = withdrawn[c]
    BY <1>2
  <2>2. task[k].segs \subseteq Cam /\ Transfer(task[k])
    BY TaskTypes
  <2>3. ASSUME task[k].pc \in Vetted, task[k].by = "key", dbFailures = 0, NEW c \in task[k].segs
        PROVE  withdrawn'[c] = Bk!Holds \/ withdrawn'[c] >= task[k].checked
    BY <2>1, <2>2, <2>3, BkTypes DEF Transfer
  <2> QED BY <1>1, <2>2, <2>3 DEF Transfer
<1> QED BY <1>1, <1>4, <1>5, BkTypes DEF BkInv

LEMMA BkTickKeeps == ASSUME BkInv, Bk!Tick PROVE BkInv'
<1>1. /\ bkNow' = bkNow + 1 /\ UNCHANGED <<task, footage, withdrawn, policy, shipped, dbFailures>>
      /\ \A j \in Job : task[j].pc = "copy" => bkNow < task[j].since + FileTime
      /\ \A j \in Job : task[j].pc # "check"
  BY DEF Bk!Tick
<1>2. BkTypeOK'
  BY <1>1, BkTypes DEF BkTypeOK
<1>3. ASSUME NEW k \in Job PROVE Transfer(task[k])'
  <2>1. bkNow \in Nat /\ FileTime \in Nat /\ task[k].since \in Nat /\ task[k].checked \in Nat /\ Transfer(task[k])
    BY BkTypes, TaskTypes, Durations
  <2>2. task[k].pc \in Vetted => task[k].checked <= bkNow'
    BY <1>1, <2>1 DEF Transfer
  <2>3. task[k].pc = "copy" => task[k].since <= bkNow' /\ bkNow' <= task[k].since + FileTime
    BY <1>1, <2>1 DEF Transfer
  <2> QED BY <1>1, <2>1, <2>2, <2>3 DEF Transfer
<1> QED BY <1>1, <1>2, <1>3, BkTypes DEF BkInv

LEMMA CrashKeeps == ASSUME BkInv, Bk!Crash PROVE BkInv'
<1>1. task' = [j \in Job |-> Bk!Off] /\ UNCHANGED <<footage, withdrawn, policy, shipped, bkNow, dbFailures>>
  BY DEF Bk!Crash
<1>2. task' \in [Job -> TaskRec] /\ \A j \in Job : task'[j].pc = "off"
  BY <1>1, OffIs
<1>3. BkTypeOK'
  BY <1>1, <1>2, BkTypes DEF BkTypeOK
<1>4. \A j \in Job : Transfer(task[j])'
  BY <1>2 DEF Transfer, Vetted
<1> QED BY <1>1, <1>3, <1>4, BkTypes DEF BkInv

LEMMA AroundBackups ==
  ASSUME BkInv, (\E j \in Job : Bk!delete_job(j)) \/ Bk!Vanish \/ Bk!PolicyDue
  PROVE  BkInv'
<1>1. /\ UNCHANGED <<task, withdrawn, shipped, bkNow, dbFailures>> /\ footage' \subseteq footage
      /\ policy' = policy \/ policy' = [policy EXCEPT !.due = TRUE]
  BY DEF Bk!delete_job, Bk!Vanish, Bk!PolicyDue
<1>2. footage' \subseteq Cam /\ dbFailures' \in Nat /\ dbFailures' >= dbFailures
  BY <1>1, BkTypes
<1>3. policy' \in PolicyRec
  BY <1>1, PolicyIs
<1> QED BY <1>1, <1>2, <1>3, OtherSteps

LEMMA PolicyKeeps == ASSUME BkInv, Bk!PolicyStep PROVE BkInv'
<1>1. ASSUME NEW j \in Job, Bk!sweep(j) \/ Bk!trigger_policy(j) PROVE BkInv'
  <2>1. CASE Bk!sweep(j)
    BY <2>1, BkTypes, CreateKeeps DEF Bk!sweep
  <2>2. CASE Bk!trigger_policy(j)
    <3>1. PICK cams : /\ cams = IF policy.cams = {} /\ Bk!Held # Cam THEN Bk!Held ELSE policy.cams
                      /\ Bk!create_policy_job(j, cams, "key")
      BY <2>2 DEF Bk!trigger_policy
    <3>2. cams \in SUBSET Cam
      BY <3>1, BkTypes DEF Bk!Held
    <3> QED BY <3>1, <3>2, CreateKeeps
  <2> QED BY <1>1, <2>1, <2>2, SMTT(60)
<1>2. ASSUME NEW j \in Job, Bk!spawn_job(j) PROVE BkInv'
  <2>1. /\ task' = [task EXCEPT ![j].pc = "started"] /\ "started" \in TaskPc
        /\ UNCHANGED <<withdrawn, bkNow, footage, policy, shipped, dbFailures>>
    BY <1>2 DEF Bk!spawn_job, Bk!TakePermit, TaskPc
  <2> QED BY <2>1, PcKeeps
<1>3. ASSUME NEW j \in Job, Bk!Finish(j) PROVE BkInv'
  <2>1. Bk!End(j) /\ UNCHANGED <<footage, withdrawn, policy, shipped, bkNow, dbFailures>>
    BY <1>3 DEF Bk!Finish
  <2> QED BY <2>1, BkTypes, EndKeeps
<1> QED BY <1>1, <1>2, <1>3, ExecuteKeeps, VetKeeps, CopyKeeps, CheckKeeps, WithdrawKeeps, BkTickKeeps, CrashKeeps,
           AroundBackups DEF Bk!PolicyStep

LEMMA ArchiveKeeps == ASSUME BkInv, Bk!ArchiveStep PROVE BkInv'
<1>1. ASSUME NEW j \in Job, NEW cams \in {{}} \cup {{c} : c \in Cam}, Bk!create_archive(j, cams) PROVE BkInv'
  <2>1. PICK r : r = [Bk!Off EXCEPT !.pc = "asked", !.cams = cams, !.segs = Bk!resolve_segments(cams)]
    OBVIOUS
  <2>2. task' = [task EXCEPT ![j] = r] /\ UNCHANGED <<footage, withdrawn, policy, shipped, bkNow, dbFailures>>
    BY <1>1, <2>1 DEF Bk!create_archive
  <2>3. cams \subseteq Cam /\ Bk!resolve_segments(cams) \subseteq Cam
    BY <1>1, BkTypes DEF Bk!resolve_segments
  <2>4. r \in TaskRec /\ r.pc = "asked"
    BY <2>1, <2>3, OffIs DEF TaskRec, TaskPc
  <2>5. footage' \subseteq Cam /\ policy' \in PolicyRec /\ dbFailures' \in Nat /\ dbFailures' >= dbFailures
    BY <2>2, StillIs
  <2> QED BY <2>2, <2>4, <2>5, QuietSteps
<1>2. ASSUME NEW j \in Job, Bk!ArchivePermit(j) PROVE BkInv'
  <2>1. /\ task' = [task EXCEPT ![j].pc = "measure"] /\ "measure" \in TaskPc
        /\ UNCHANGED <<withdrawn, bkNow, footage, policy, shipped, dbFailures>>
    BY <1>2 DEF Bk!ArchivePermit, Bk!TakePermit, TaskPc
  <2> QED BY <2>1, PcKeeps
<1>3. ASSUME NEW j \in Job, Bk!MeasureArchive(j) PROVE BkInv'
  <2>1. /\ Bk!End(j) \/ task' = [task EXCEPT ![j].pc = "zip"]
        /\ "zip" \in TaskPc /\ UNCHANGED <<withdrawn, bkNow, footage, policy, shipped, dbFailures>>
    BY <1>3 DEF Bk!MeasureArchive, TaskPc
  <2> QED BY <2>1, BkTypes, PcKeeps, EndKeeps
<1>4. ASSUME NEW j \in Job, Bk!build_archive_zip(j) \/ Bk!DropRequest(j) PROVE BkInv'
  <2>1. Bk!End(j) /\ UNCHANGED <<footage, withdrawn, policy, shipped, bkNow, dbFailures>>
    BY <1>4 DEF Bk!build_archive_zip, Bk!DropRequest
  <2> QED BY <2>1, BkTypes, EndKeeps
<1> QED BY <1>1, <1>2, <1>3, <1>4, AroundBackups DEF Bk!ArchiveStep

-----------------------------------------------------------------------------
(* Mirror.                                                                 *)

LEMMA MirActors ==
  /\ Mir!Actor = MirEditor \cup {"boot", "quit"}
  /\ "boot" \notin MirEditor /\ "quit" \notin MirEditor
BY FootageAssumption DEF Mir!Actor, Mir!Boot, Mir!Quit

MirrorPc == {"look", "record", "sleep", "end"}

MirTypeOK ==
  /\ mirRow \in [on : BOOLEAN, rev : Nat]
  /\ mirReq \in [Mir!Actor -> [pc : {"rest", "stop", "await", "read", "spawn", "up", "down"}, gen : Nat]]
  /\ entry \in Nat /\ nextGen \in Nat /\ mirCut \in BOOLEAN
  /\ mirrors \subseteq [gen : Nat, pc : MirrorPc, rev : Int, stop : BOOLEAN]

(* Generations are handed out once, each to one request, which gives it to one supervisor. *)
GensTrue ==
  /\ entry < nextGen /\ 0 < nextGen
  /\ \A m \in mirrors : 0 < m.gen /\ m.gen < nextGen
  /\ \A m, n \in mirrors : m.gen = n.gen => m = n
  /\ \A a \in Mir!Actor : mirReq[a].pc = "spawn" =>
       /\ 0 < mirReq[a].gen /\ mirReq[a].gen < nextGen /\ mirReq[a].gen # entry
       /\ \A m \in mirrors : m.gen # mirReq[a].gen
       /\ \A b \in Mir!Actor : mirReq[b].pc = "spawn" /\ mirReq[b].gen = mirReq[a].gen => b = a

(* What the table names has not been told to end. *)
EntryKept == \A m \in mirrors : m.stop => m.gen # entry

Whole == ~ mirCut /\ mirReq["quit"].pc = "up"
Stopping == \E a \in Mir!Actor : mirReq[a].pc = "stop"
Reconciling == \E a \in MirEditor \cup {"boot"} : mirReq[a].pc # "rest"

(* Whatever a change of the row has made untrue is going to be stopped. *)
RowFollowed ==
  Whole =>
    /\ \A m \in mirrors : m.pc = "record" /\ ~ m.stop => (mirRow.on /\ m.rev = mirRow.rev) \/ Stopping
    /\ mirRow.on => \A m \in mirrors : m.pc = "end" /\ m.gen = entry => Stopping
    /\ mirRow.on => (\E m \in mirrors : m.gen = entry) \/ Reconciling

MirInv == MirTypeOK /\ GensTrue /\ Mir!MirrorTracked /\ EntryKept /\ RowFollowed

LEMMA MirInvInit == Mir!MirInit => MirInv
<1> SUFFICES ASSUME Mir!MirInit PROVE MirInv
  OBVIOUS
<1>1. /\ mirRow \in [on : BOOLEAN, rev : {0}] /\ entry = 0 /\ mirrors = {} /\ nextGen = 1 /\ mirCut = FALSE
  BY DEF Mir!MirInit
<1>2. /\ mirReq \in [Mir!Actor -> [pc : {"rest", "read", "up"}, gen : Nat]]
      /\ mirReq["boot"].pc = "read"
  BY MirActors DEF Mir!MirInit, Mir!Boot, Mir!Quit
<1>3. MirTypeOK
  <2>1. mirRow \in [on : BOOLEAN, rev : Nat]
    BY <1>1
  <2>2. mirReq \in [Mir!Actor -> [pc : {"rest", "stop", "await", "read", "spawn", "up", "down"}, gen : Nat]]
    BY MirActors DEF Mir!MirInit, Mir!Boot, Mir!Quit
  <2> QED BY <1>1, <2>1, <2>2 DEF MirTypeOK
<1>4. GensTrue
  BY <1>1, <1>2 DEF GensTrue
<1>5. Reconciling
  BY <1>2 DEF Reconciling
<1> QED BY <1>1, <1>3, <1>4, <1>5 DEF MirInv, Mir!MirrorTracked, EntryKept, RowFollowed

LEMMA MirrorEnds == MirInv => Mir!MirrorTracked /\ Mir!MirrorSettled
<1> SUFFICES ASSUME MirInv PROVE Mir!MirrorSettled
  BY DEF MirInv
<1> SUFFICES ASSUME ~ mirCut, \A a \in MirEditor \cup {"boot"} : mirReq[a].pc = "rest", mirReq["quit"].pc = "up"
             PROVE  /\ mirRow.on => \E m \in mirrors : m.gen = entry
                    /\ \A m \in mirrors : m.pc = "record" /\ ~ m.stop => mirRow.on /\ m.rev = mirRow.rev
  BY DEF Mir!MirrorSettled, Mir!Boot, Mir!Quit
<1>1. Whole /\ ~ Stopping /\ ~ Reconciling
  BY MirActors DEF Whole, Stopping, Reconciling
<1> QED BY <1>1 DEF MirInv, RowFollowed

(* Requests and rows. *)
LEMMA AtActor ==
  ASSUME MirTypeOK, NEW a \in Mir!Actor, NEW pc, Mir!At(a, pc)
  PROVE  /\ mirReq'[a].pc = pc /\ mirReq'[a].gen = mirReq[a].gen
         /\ \A b \in Mir!Actor \ {a} : mirReq'[b] = mirReq[b]
         /\ mirReq' = [mirReq EXCEPT ![a].pc = pc]
BY DEF Mir!At, MirTypeOK

LEMMA ChangeRowKeeps ==
  ASSUME MirInv, NEW e \in MirEditor, Mir!ChangeRow(e)
  PROVE  MirInv'
<1>1. e \in Mir!Actor /\ e # "quit" /\ Mir!At(e, "stop") /\ UNCHANGED <<entry, mirrors, nextGen, mirCut>>
  BY MirActors DEF Mir!ChangeRow
<1>2. PICK b \in BOOLEAN : mirRow' = [on |-> b, rev |-> mirRow.rev + 1]
  BY DEF Mir!ChangeRow
<1>3. /\ mirReq'[e].pc = "stop" /\ \A a \in Mir!Actor \ {e} : mirReq'[a] = mirReq[a]
      /\ mirReq' = [mirReq EXCEPT ![e].pc = "stop"]
  BY <1>1, AtActor DEF MirInv
<1>4. MirTypeOK'
  BY <1>1, <1>2, <1>3 DEF MirInv, MirTypeOK
<1>5. GensTrue'
  BY <1>1, <1>3 DEF MirInv, GensTrue
<1>6. Stopping' /\ Reconciling'
  BY <1>1, <1>3, MirActors DEF Stopping, Reconciling
<1> QED BY <1>1, <1>4, <1>5, <1>6 DEF MirInv, Mir!MirrorTracked, EntryKept, RowFollowed

LEMMA MirStopKeeps ==
  ASSUME MirInv, NEW a \in Mir!Actor, Mir!stop(a)
  PROVE  MirInv'
<1>1. /\ mirReq[a].pc = "stop" /\ entry' = 0 /\ UNCHANGED <<mirRow, nextGen, mirCut>>
      /\ mirrors' = {[m EXCEPT !.stop = m.stop \/ m.gen = entry] : m \in mirrors}
      /\ mirReq' = [mirReq EXCEPT ![a] = [pc |-> "await", gen |-> entry]]
  BY DEF Mir!stop
<1>2. mirReq'[a].pc = "await" /\ \A b \in Mir!Actor \ {a} : mirReq'[b] = mirReq[b]
  BY <1>1 DEF MirInv, MirTypeOK
<1> DEFINE To(m) == [m EXCEPT !.stop = m.stop \/ m.gen = entry]
<1>3. \A m \in mirrors : /\ To(m) \in [gen : Nat, pc : MirrorPc, rev : Int, stop : BOOLEAN]
                         /\ To(m).gen = m.gen /\ To(m).pc = m.pc /\ To(m).rev = m.rev
                         /\ To(m).stop <=> (m.stop \/ m.gen = entry)
  BY DEF MirInv, MirTypeOK
<1>4. \A n \in mirrors' : \E m \in mirrors : n = To(m)
  BY <1>1
<1> HIDE DEF To
<1>5. MirTypeOK'
  <2>1. mirrors' \subseteq [gen : Nat, pc : MirrorPc, rev : Int, stop : BOOLEAN]
    BY <1>3, <1>4
  <2>2. mirReq' \in [Mir!Actor -> [pc : {"rest", "stop", "await", "read", "spawn", "up", "down"}, gen : Nat]]
    BY <1>1 DEF MirInv, MirTypeOK
  <2> QED BY <1>1, <2>1, <2>2 DEF MirInv, MirTypeOK
<1>6. GensTrue'
  <2>1. \A m \in mirrors' : 0 < m.gen /\ m.gen < nextGen
    BY <1>3, <1>4 DEF MirInv, GensTrue
  <2>2. \A m, n \in mirrors' : m.gen = n.gen => m = n
    BY <1>3, <1>4 DEF MirInv, GensTrue
  <2>3. ASSUME NEW b \in Mir!Actor, mirReq'[b].pc = "spawn"
        PROVE  /\ 0 < mirReq'[b].gen /\ mirReq'[b].gen < nextGen /\ mirReq'[b].gen # 0
               /\ \A m \in mirrors' : m.gen # mirReq'[b].gen
               /\ \A c \in Mir!Actor : mirReq'[c].pc = "spawn" /\ mirReq'[c].gen = mirReq'[b].gen => c = b
    BY <2>3, <1>2, <1>3, <1>4 DEF MirInv, GensTrue, MirTypeOK
  <2> QED BY <1>1, <2>1, <2>2, <2>3 DEF MirInv, GensTrue, MirTypeOK
<1>7. \A n \in mirrors' : n.stop \/ n.pc = "end"
  BY <1>3, <1>4 DEF MirInv, Mir!MirrorTracked
<1>8. Mir!MirrorTracked' /\ EntryKept'
  BY <1>1, <1>6, <1>7 DEF Mir!MirrorTracked, EntryKept, GensTrue
<1>9. RowFollowed'
  <2> SUFFICES ASSUME Whole' PROVE RowFollowed'
    BY DEF RowFollowed
  <2>1. a # "quit"
    BY <1>2, MirActors DEF Whole
  <2>2. Reconciling'
    BY <2>1, <1>2, MirActors DEF Reconciling
  <2>3. \A n \in mirrors' : n.gen # entry'
    BY <1>1, <1>6 DEF GensTrue, MirInv, MirTypeOK
  <2> QED BY <1>7, <2>2, <2>3 DEF RowFollowed
<1> QED BY <1>5, <1>6, <1>8, <1>9 DEF MirInv

LEMMA MirAwaitKeeps ==
  ASSUME MirInv, NEW a \in Mir!Actor, Mir!Await(a)
  PROVE  MirInv'
<1>1. PICK pc \in {"down", "read"} :
         Mir!At(a, pc) /\ mirReq[a].pc = "await" /\ UNCHANGED <<mirRow, entry, mirrors, nextGen, mirCut>>
  BY DEF Mir!Await
<1>2. /\ mirReq'[a].pc = pc /\ \A b \in Mir!Actor \ {a} : mirReq'[b] = mirReq[b]
      /\ mirReq' = [mirReq EXCEPT ![a].pc = pc]
  BY <1>1, AtActor DEF MirInv
<1>3. MirTypeOK'
  BY <1>1, <1>2 DEF MirInv, MirTypeOK
<1>4. GensTrue'
  BY <1>1, <1>2 DEF MirInv, GensTrue
<1>5. (Whole' => Whole) /\ (Stopping => Stopping') /\ (Reconciling => Reconciling')
  BY <1>1, <1>2, MirActors DEF Whole, Stopping, Reconciling
<1> QED BY <1>1, <1>3, <1>4, <1>5 DEF MirInv, Mir!MirrorTracked, EntryKept, RowFollowed

LEMMA MirReconcileKeeps ==
  ASSUME MirInv, NEW a \in Mir!Actor, Mir!reconcile(a)
  PROVE  MirInv'
<1>0. mirReq[a].pc = "read" /\ UNCHANGED <<mirRow, entry, mirrors>> /\ a \in Mir!Actor
  BY DEF Mir!reconcile
<1>1. CASE mirRow.on /\ mirReq' = [mirReq EXCEPT ![a] = [pc |-> "spawn", gen |-> nextGen]]
           /\ nextGen' = nextGen + 1 /\ UNCHANGED <<mirErrs, mirCut>>
  <2>1. /\ mirReq'[a] = [pc |-> "spawn", gen |-> nextGen] /\ \A b \in Mir!Actor \ {a} : mirReq'[b] = mirReq[b]
    BY <1>1 DEF MirInv, MirTypeOK
  <2>2. MirTypeOK'
    BY <1>0, <1>1 DEF MirInv, MirTypeOK
  <2>3. GensTrue'
    <3>1. entry < nextGen' /\ 0 < nextGen' /\ \A m \in mirrors : 0 < m.gen /\ m.gen < nextGen'
      BY <1>1 DEF MirInv, GensTrue, MirTypeOK
    <3>2. ASSUME NEW b \in Mir!Actor, mirReq'[b].pc = "spawn"
          PROVE  /\ 0 < mirReq'[b].gen /\ mirReq'[b].gen < nextGen' /\ mirReq'[b].gen # entry
                 /\ \A m \in mirrors : m.gen # mirReq'[b].gen
                 /\ \A c \in Mir!Actor : mirReq'[c].pc = "spawn" /\ mirReq'[c].gen = mirReq'[b].gen => c = b
      BY <1>1, <2>1, <3>2 DEF MirInv, GensTrue, MirTypeOK
    <3> QED BY <1>0, <3>1, <3>2 DEF MirInv, GensTrue
  <2>4. (Whole' => Whole) /\ (Stopping => Stopping') /\ (Reconciling => Reconciling')
    BY <1>0, <1>1, <2>1, MirActors DEF Whole, Stopping, Reconciling
  <2> QED BY <1>0, <2>2, <2>3, <2>4 DEF MirInv, Mir!MirrorTracked, EntryKept, RowFollowed
<1>2. CASE (~ mirRow.on \/ mirCut') /\ Mir!At(a, "rest") /\ nextGen' = nextGen /\ (mirCut' = mirCut \/ mirCut')
           /\ mirCut' \in BOOLEAN
  <2>1. /\ mirReq'[a].pc = "rest" /\ \A b \in Mir!Actor \ {a} : mirReq'[b] = mirReq[b]
        /\ mirReq' = [mirReq EXCEPT ![a].pc = "rest"]
    BY <1>2, AtActor DEF MirInv
  <2>2. MirTypeOK'
    BY <1>0, <1>2, <2>1 DEF MirInv, MirTypeOK
  <2>3. GensTrue'
    BY <1>0, <1>2, <2>1 DEF MirInv, GensTrue
  <2>4. (Whole' => Whole /\ ~ mirRow.on) /\ (Stopping => Stopping')
    BY <1>0, <1>2, <2>1, MirActors DEF Whole, Stopping
  <2> QED BY <1>0, <2>2, <2>3, <2>4 DEF MirInv, Mir!MirrorTracked, EntryKept, RowFollowed
<1> QED BY <1>1, <1>2 DEF Mir!reconcile, MirInv, MirTypeOK

LEMMA MirSpawnKeeps ==
  ASSUME MirInv, NEW a \in Mir!Actor, Mir!spawn(a)
  PROVE  MirInv'
<1> DEFINE new == [gen |-> mirReq[a].gen, pc |-> "look", rev |-> -1, stop |-> FALSE]
<1>1. /\ mirReq[a].pc = "spawn" /\ entry' = mirReq[a].gen /\ UNCHANGED <<mirRow, nextGen, mirCut>>
      /\ mirrors' = {m \in mirrors : m.gen # entry} \cup {new} /\ Mir!At(a, "rest")
  BY DEF Mir!spawn
<1>2. /\ mirReq'[a].pc = "rest" /\ \A b \in Mir!Actor \ {a} : mirReq'[b] = mirReq[b]
      /\ mirReq' = [mirReq EXCEPT ![a].pc = "rest"]
  BY <1>1, AtActor DEF MirInv
<1>3. /\ new \in [gen : Nat, pc : MirrorPc, rev : Int, stop : BOOLEAN] /\ new.gen = mirReq[a].gen
      /\ new.pc = "look" /\ new.stop = FALSE
  BY DEF MirInv, MirTypeOK, MirrorPc
<1>4. \A n \in mirrors' : n = new \/ (n \in mirrors /\ n.gen # entry)
  BY <1>1
<1>5. new \in mirrors'
  BY <1>1
<1> HIDE DEF new
<1>6. MirTypeOK'
  BY <1>1, <1>2, <1>3, <1>4 DEF MirInv, MirTypeOK
<1>7. \A n \in mirrors : n.gen # new.gen
  BY <1>1, <1>3 DEF MirInv, GensTrue
<1>8. GensTrue'
  <2>1. entry' < nextGen /\ 0 < nextGen /\ \A n \in mirrors' : 0 < n.gen /\ n.gen < nextGen
    BY <1>1, <1>3, <1>4 DEF MirInv, GensTrue
  <2>2. \A m, n \in mirrors' : m.gen = n.gen => m = n
    BY <1>4, <1>7 DEF MirInv, GensTrue
  <2>3. ASSUME NEW b \in Mir!Actor, mirReq'[b].pc = "spawn"
        PROVE  /\ 0 < mirReq'[b].gen /\ mirReq'[b].gen < nextGen /\ mirReq'[b].gen # entry'
               /\ \A m \in mirrors' : m.gen # mirReq'[b].gen
               /\ \A c \in Mir!Actor : mirReq'[c].pc = "spawn" /\ mirReq'[c].gen = mirReq'[b].gen => c = b
    <3>1. b # a /\ mirReq'[b] = mirReq[b] /\ mirReq[b].gen # mirReq[a].gen
      BY <1>1, <1>2, <2>3 DEF MirInv, GensTrue
    <3> QED BY <1>1, <1>2, <1>3, <1>4, <3>1, <2>3 DEF MirInv, GensTrue
  <2> QED BY <1>1, <2>1, <2>2, <2>3 DEF GensTrue
<1>9. Mir!MirrorTracked' /\ EntryKept'
  BY <1>1, <1>3, <1>4, <1>7 DEF MirInv, Mir!MirrorTracked, EntryKept
<1>10. RowFollowed'
  <2> SUFFICES ASSUME Whole' PROVE RowFollowed'
    BY DEF RowFollowed
  <2>1. Whole /\ (Stopping => Stopping')
    BY <1>1, <1>2, MirActors DEF Whole, Stopping
  <2>2. \E n \in mirrors' : n.gen = entry'
    BY <1>1, <1>3, <1>5
  <2>3. \A n \in mirrors' : n.gen = entry' => n.pc = "look"
    BY <1>1, <1>3, <1>4, <1>7
  <2>4. \A n \in mirrors' : n.pc = "record" => n \in mirrors
    BY <1>3, <1>4
  <2> QED BY <1>1, <2>1, <2>2, <2>3, <2>4 DEF MirInv, RowFollowed
<1> QED BY <1>6, <1>8, <1>9, <1>10 DEF MirInv

LEMMA MirOutside ==
  ASSUME MirInv, Mir!shutdown \/ \E e \in MirEditor : Mir!HangUp(e)
  PROVE  MirInv'
<1>1. PICK a \in Mir!Actor, pc \in {"stop", "rest"} :
         /\ Mir!At(a, pc) /\ UNCHANGED <<mirRow, entry, mirrors, nextGen>> /\ mirCut' \in BOOLEAN
         /\ mirCut' \/ (mirCut' = mirCut /\ a = "quit")
  BY MirActors DEF Mir!shutdown, Mir!HangUp, MirInv, MirTypeOK, Mir!Quit
<1>2. /\ mirReq'[a].pc = pc /\ \A b \in Mir!Actor \ {a} : mirReq'[b] = mirReq[b]
      /\ mirReq' = [mirReq EXCEPT ![a].pc = pc]
  BY <1>1, AtActor DEF MirInv
<1>3. MirTypeOK'
  BY <1>1, <1>2 DEF MirInv, MirTypeOK
<1>4. GensTrue'
  BY <1>1, <1>2 DEF MirInv, GensTrue
<1>5. ~ Whole'
  BY <1>1, <1>2 DEF Whole
<1> QED BY <1>1, <1>3, <1>4, <1>5 DEF MirInv, Mir!MirrorTracked, EntryKept, RowFollowed

(* A supervisor moves on: what it records with is the row as it is, and it ends by itself only when
   the row wants no mirror. *)
LEMMA BecomeKeeps ==
  ASSUME MirInv, NEW m \in mirrors, NEW pc \in MirrorPc, NEW rev \in Int, Mir!Become(m, pc, rev),
         UNCHANGED <<mirRow, mirReq, entry, nextGen, mirCut>>,
         pc = "record" => mirRow.on /\ rev = mirRow.rev,
         pc = "end" => m.stop \/ ~ mirRow.on,
         m.pc = "end" => pc = "end"
  PROVE  MirInv'
<1> DEFINE new == [m EXCEPT !.pc = pc, !.rev = rev]
<1>1. mirrors' = (mirrors \ {m}) \cup {new}
  BY DEF Mir!Become
<1>2. /\ new \in [gen : Nat, pc : MirrorPc, rev : Int, stop : BOOLEAN]
      /\ new.gen = m.gen /\ new.pc = pc /\ new.rev = rev /\ new.stop = m.stop
  BY DEF MirInv, MirTypeOK
<1> HIDE DEF new
<1>3. MirTypeOK'
  BY <1>1, <1>2 DEF MirInv, MirTypeOK
<1>4. GensTrue'
  <2>1. \A n \in mirrors' : 0 < n.gen /\ n.gen < nextGen
    BY <1>1, <1>2 DEF MirInv, GensTrue
  <2>2. \A k, n \in mirrors' : k.gen = n.gen => k = n
    BY <1>1, <1>2 DEF MirInv, GensTrue
  <2>3. \A a \in Mir!Actor : mirReq[a].pc = "spawn" => \A n \in mirrors' : n.gen # mirReq[a].gen
    BY <1>1, <1>2 DEF MirInv, GensTrue
  <2> QED BY <2>1, <2>2, <2>3 DEF MirInv, GensTrue
<1>5. Mir!MirrorTracked' /\ EntryKept'
  BY <1>1, <1>2 DEF MirInv, Mir!MirrorTracked, EntryKept
<1>6. RowFollowed'
  <2> SUFFICES ASSUME Whole PROVE RowFollowed'
    BY DEF RowFollowed, Whole
  <2>1. Stopping' = Stopping /\ Reconciling' = Reconciling
    BY DEF Stopping, Reconciling
  <2>2. ASSUME NEW n \in mirrors', n.pc = "record", ~ n.stop
        PROVE  (mirRow.on /\ n.rev = mirRow.rev) \/ Stopping
    BY <2>2, <1>1, <1>2 DEF MirInv, RowFollowed
  <2>3. ASSUME mirRow.on, NEW n \in mirrors', n.pc = "end", n.gen = entry
        PROVE  Stopping
    BY <2>3, <1>1, <1>2 DEF MirInv, RowFollowed, EntryKept
  <2>4. (\E n \in mirrors : n.gen = entry) => \E n \in mirrors' : n.gen = entry
    BY <1>1, <1>2
  <2> QED BY <2>1, <2>2, <2>3, <2>4 DEF MirInv, RowFollowed
<1> QED BY <1>3, <1>4, <1>5, <1>6 DEF MirInv

LEMMA MirRunKeeps ==
  ASSUME MirInv, NEW m \in mirrors, Mir!run_mirror(m) \/ Mir!sleep_or_stop(m)
  PROVE  MirInv'
<1>1. mirRow.rev \in Int /\ -1 \in Int /\ MirrorPc = {"look", "record", "sleep", "end"}
  BY DEF MirInv, MirTypeOK, MirrorPc
<1>2. PICK pc \in MirrorPc, rev \in Int :
        /\ Mir!Become(m, pc, rev) /\ UNCHANGED <<mirRow, mirReq, entry, nextGen, mirCut>>
        /\ pc = "record" => mirRow.on /\ rev = mirRow.rev
        /\ pc = "end" => m.stop \/ ~ mirRow.on
        /\ m.pc # "end"
  BY <1>1 DEF Mir!run_mirror, Mir!sleep_or_stop
<1> QED BY <1>2, BecomeKeeps

LEMMA MirLeaveKeeps ==
  ASSUME MirInv, NEW m \in mirrors, Mir!supervise(m)
  PROVE  MirInv'
<1>1. /\ m.pc = "end" /\ mirrors' = mirrors \ {m} /\ UNCHANGED <<mirRow, mirReq, nextGen, mirCut>>
      /\ entry' = IF entry = m.gen THEN 0 ELSE entry
  BY DEF Mir!supervise
<1>2. MirTypeOK'
  BY <1>1 DEF MirInv, MirTypeOK
<1>3. \A n \in mirrors' : n.gen # m.gen /\ n \in mirrors /\ n.gen # 0
  BY <1>1 DEF MirInv, GensTrue, MirTypeOK
<1>4. GensTrue'
  BY <1>1, <1>3 DEF MirInv, GensTrue, MirTypeOK
<1>5. Mir!MirrorTracked' /\ EntryKept'
  BY <1>1, <1>3 DEF MirInv, Mir!MirrorTracked, EntryKept
<1>6. RowFollowed'
  <2> SUFFICES ASSUME Whole PROVE RowFollowed'
    BY <1>1 DEF RowFollowed, Whole
  <2>1. Stopping' = Stopping /\ Reconciling' = Reconciling
    BY <1>1 DEF Stopping, Reconciling
  <2>2. mirRow.on /\ m.gen = entry => Reconciling
    <3> SUFFICES ASSUME mirRow.on, m.gen = entry PROVE Reconciling
      OBVIOUS
    <3>1. PICK a \in Mir!Actor : mirReq[a].pc = "stop"
      BY <1>1 DEF MirInv, RowFollowed, Stopping
    <3> QED BY <3>1, MirActors DEF Reconciling, Whole
  <2>3. \A n \in mirrors' : n.gen = entry' => entry' = entry
    BY <1>1, <1>3
  <2>4. entry # m.gen => entry' = entry /\ \A n \in mirrors : n.gen = entry => n \in mirrors'
    BY <1>1
  <2> QED BY <1>1, <1>3, <2>1, <2>2, <2>3, <2>4 DEF MirInv, RowFollowed
<1> QED BY <1>2, <1>4, <1>5, <1>6 DEF MirInv

LEMMA MirStep == MirInv /\ Mir!MirNext => MirInv'
BY ChangeRowKeeps, MirStopKeeps, MirAwaitKeeps, MirReconcileKeeps, MirSpawnKeeps, MirOutside, MirRunKeeps, MirLeaveKeeps
   DEF Mir!MirNext

-----------------------------------------------------------------------------
(* Sampler: the decoders that run are the table's, and their grants the    *)
(* last pass's.                                                            *)

Passing == {"stop", "await", "spawn"}
Asks == Wanted \cup {Sam!None}
Rows == [Sam!Camera -> Asks]
PassRec == [pc : {"rest", "lock", "run", "done"} \cup Passing, ids : SUBSET Sam!Camera, on : Nat \X Nat,
            rows : Rows \cup {<<>>}, read : Int]
SupRec == [cam : Sam!Camera, id : Nat \ {0}, grant : {Sam!Share(w, c) : w \in Rows, c \in Sam!Camera},
           asked : {w[2] : w \in Asks}, stop : BOOLEAN, pc : {"look", "run", "sleep"}]

SamTypeOK ==
  /\ want \in Rows /\ edited \in Nat /\ editor \in [Sam!Actor -> PassRec] /\ guard \in Sam!Actor \cup {"none"}
  /\ tasks \in [Sam!Camera -> Nat] /\ IsFiniteSet(sups) /\ sups \subseteq SupRec /\ settled \in Int /\ hung \in BOOLEAN

(* A supervisor has a number of its own, and one that is not told to end is the table's. *)
Numbered == \A s, t \in sups : s.cam = t.cam /\ s.id = t.id => s = t
Tabled == \A s \in sups : s.stop \/ s.id = tasks[s.cam]

(* A pass holds the lock. *)
OnePass == \A e \in Sam!Actor : editor[e].pc \in Passing => guard = e

(* The one told to end is the one its pass waits for, whose camera has no task meanwhile. *)
StoppedAwaited ==
  /\ ~ hung => \A s \in sups : s.stop => \E e \in Sam!Actor : editor[e].pc = "await" /\ editor[e].on = <<s.cam, s.id>>
  /\ \A e \in Sam!Actor : editor[e].pc = "await" => editor[e].on[1] \in Sam!Camera /\ tasks[editor[e].on[1]] = 0

(* What a pass has done so far. *)
SpawnTrue(p) ==
  /\ p.rows \in Rows
  /\ \A s \in sups : s.stop \/ (s.cam \in p.ids /\ s.grant = Sam!Share(p.rows, s.cam))
  /\ \A c \in p.ids : Sam!Share(p.rows, c) # Sam!None
  /\ p.read = edited => p.rows = want /\ \A c \in p.ids : \E s \in sups : ~ s.stop /\ s.cam = c

PassTrue(p) ==
  /\ p.pc \in {"stop", "await"} => \A s \in sups : s.stop \/ s.cam \in p.ids
  /\ p.pc = "spawn" => SpawnTrue(p)
  /\ p.read <= edited /\ (p.pc # "spawn" => p.read = -1)

PassesTrue == \A e \in Sam!Actor : PassTrue(editor[e])

SettledTrue ==
  /\ settled <= edited /\ (guard # "none" => settled = -1)
  /\ settled = edited => /\ \A s \in sups : s.stop \/ (s.grant = Sam!Share(want, s.cam) /\ s.grant # Sam!None)
                         /\ \A c \in Sam!Camera : Sam!Share(want, c) # Sam!None => \E s \in sups : ~ s.stop /\ s.cam = c

SamInv == SamTypeOK /\ Numbered /\ Tabled /\ OnePass /\ StoppedAwaited /\ PassesTrue /\ SettledTrue

LEMMA SamActors ==
  /\ Sam!Boot \in Sam!Actor /\ Sam!Stop \in Sam!Actor /\ "none" \notin Sam!Actor /\ SamEditor \subseteq Sam!Actor
  /\ Sam!Boot # Sam!Stop /\ Sam!Boot \notin SamEditor /\ Sam!Stop \notin SamEditor
BY FootageAssumption, SMTT(60) DEF Sam!Boot, Sam!Stop, Sam!Actor

LEMMA ShareNone == ASSUME NEW w, NEW c, w[c] = Sam!None PROVE Sam!Share(w, c) = Sam!None
BY DEF Sam!Share

LEMMA IdleIs == Sam!Idle \in PassRec /\ Sam!Idle.pc = "rest" /\ Sam!Idle.read = -1
BY DEF Sam!Idle, PassRec

(* Of the decoders of a camera one is meant to run, and one that is told to end is waited for. *)
LEMMA Alone == ASSUME SamInv, ~ hung, NEW s \in sups, NEW t \in sups, s.cam = t.cam PROVE s = t
<1> USE DEF SamInv
<1>1. ASSUME NEW a \in sups, NEW b \in sups, a.cam = b.cam, a.stop, ~ b.stop PROVE FALSE
  <2>1. PICK e \in Sam!Actor : editor[e].pc = "await" /\ editor[e].on = <<a.cam, a.id>>
    BY <1>1 DEF StoppedAwaited
  <2>2. tasks[a.cam] = 0
    BY <2>1 DEF StoppedAwaited
  <2>3. b.id = tasks[b.cam] /\ b.id # 0
    BY <1>1 DEF Tabled, SamTypeOK, SupRec
  <2> QED BY <1>1, <2>2, <2>3
<1>2. CASE ~ s.stop /\ ~ t.stop
  BY <1>2 DEF Tabled, Numbered
<1>3. CASE s.stop /\ t.stop
  <2>1. PICK d \in Sam!Actor : editor[d].pc = "await" /\ editor[d].on = <<s.cam, s.id>>
    BY <1>3 DEF StoppedAwaited
  <2>2. PICK e \in Sam!Actor : editor[e].pc = "await" /\ editor[e].on = <<t.cam, t.id>>
    BY <1>3 DEF StoppedAwaited
  <2>3. d = e
    BY <2>1, <2>2 DEF OnePass, Passing
  <2>4. s.id = t.id
    BY <2>1, <2>2, <2>3
  <2> QED BY <2>4 DEF Numbered
<1> QED BY <1>1, <1>2, <1>3

LEMMA SamCards == ASSUME NEW S PROVE Sam!Cardinality(S) = Cardinality(S)
BY DEF Sam!Cardinality, Cardinality

LEMMA SamplersExact == SamInv => Sam!OneDecoder /\ Sam!Settled
<1> SUFFICES ASSUME SamInv PROVE Sam!OneDecoder /\ Sam!Settled
  OBVIOUS
<1>1. Sam!OneDecoder
  <2> SUFFICES ASSUME ~ hung, NEW c \in Sam!Camera PROVE Cardinality({s \in sups : s.cam = c /\ s.pc = "run"}) <= 1
    <3>1. \A c \in Sam!Camera :
            Sam!Cardinality({s \in sups : s.cam = c /\ s.pc = "run"}) = Cardinality({s \in sups : s.cam = c /\ s.pc = "run"})
      BY SamCards
    <3> QED BY <3>1 DEF Sam!OneDecoder
  <2> DEFINE R == {s \in sups : s.cam = c /\ s.pc = "run"}
  <2>1. CASE R = {}
    BY <2>1, FS_EmptySet
  <2>2. CASE R # {}
    <3>1. PICK r \in R : TRUE
      BY <2>2
    <3>2. R = {r}
      BY <3>1, Alone
    <3>3. Cardinality({r}) = 1
      BY FS_Singleton
    <3> QED BY <3>2, <3>3
  <2> QED BY <2>1, <2>2
<1>2. Sam!Settled
  <2> SUFFICES ASSUME settled = edited, NEW c \in Sam!Camera
               PROVE {s.grant : s \in {t \in Sam!Kept : t.cam = c}} = {Sam!Share(want, c)} \ {Sam!None}
    BY DEF Sam!Settled
  <2>1. \A s \in sups : s.stop \/ (s.grant = Sam!Share(want, s.cam) /\ s.grant # Sam!None)
    BY DEF SamInv, SettledTrue
  <2>2. Sam!Share(want, c) # Sam!None => \E s \in sups : ~ s.stop /\ s.cam = c
    BY DEF SamInv, SettledTrue
  <2> QED BY <2>1, <2>2 DEF Sam!Kept
<1> QED BY <1>1, <1>2

(* There is always a number that no supervisor of the camera has. *)
LEMMA FreshIs ==
  ASSUME SamTypeOK, NEW c
  PROVE  Sam!Fresh(c) \in Nat \ {0} /\ \A s \in sups : <<s.cam, s.id>> # <<c, Sam!Fresh(c)>>
<1> DEFINE N == Cardinality(sups)
<1>1. IsFiniteSet(sups) /\ N \in Nat
  BY FS_CardinalityType DEF SamTypeOK
<1>2. \E n \in 1 .. (N + 1) : \A s \in sups : <<s.cam, s.id>> # <<c, n>>
  <2> SUFFICES ASSUME \A n \in 1 .. (N + 1) : \E s \in sups : <<s.cam, s.id>> = <<c, n>> PROVE FALSE
    OBVIOUS
  <2> DEFINE f == [n \in 1 .. (N + 1) |-> CHOOSE s \in sups : <<s.cam, s.id>> = <<c, n>>]
  <2>1. \A n \in 1 .. (N + 1) : f[n] \in sups /\ f[n].id = n
    <3> SUFFICES ASSUME NEW n \in 1 .. (N + 1) PROVE f[n] \in sups /\ f[n].id = n
      OBVIOUS
    <3>1. \E s \in sups : <<s.cam, s.id>> = <<c, n>>
      OBVIOUS
    <3>2. f[n] \in sups /\ <<f[n].cam, f[n].id>> = <<c, n>>
      BY <3>1
    <3> QED BY <3>2
  <2>2. f \in [1 .. (N + 1) -> sups]
    BY <2>1
  <2>3. IsFiniteSet(1 .. (N + 1)) /\ Cardinality(1 .. (N + 1)) = N + 1
    BY <1>1, FS_Interval, SMTT(60)
  <2> HIDE DEF f, N
  <2>4. Cardinality(sups) < Cardinality(1 .. (N + 1))
    BY <1>1, <2>3 DEF N
  <2>5. PICK x, y \in 1 .. (N + 1) : x # y /\ f[x] = f[y]
    BY <1>1, <2>2, <2>3, <2>4, FS_PigeonHole
  <2> QED BY <2>1, <2>5
<1>3. /\ Sam!Fresh(c) \in 1 .. (N + 1)
      /\ \A s \in sups : <<s.cam, s.id>> # <<c, Sam!Fresh(c)>>
  <2>1. Sam!Fresh(c) = CHOOSE n \in 1 .. (N + 1) : \A s \in sups : <<s.cam, s.id>> # <<c, n>>
    BY SamCards DEF Sam!Fresh, N
  <2> QED BY <1>2, <2>1
<1> QED BY <1>1, <1>3

LEMMA SamInvInit == Sam!SamInit => SamInv
<1> SUFFICES ASSUME Sam!SamInit PROVE SamInv
  OBVIOUS
<1>1. /\ want \in Rows /\ edited = 0 /\ guard = "none" /\ tasks = [c \in Sam!Camera |-> 0] /\ sups = {} /\ settled = -1
      /\ hung = FALSE
      /\ editor = [e \in Sam!Actor |-> [Sam!Idle EXCEPT !.pc = CASE e = Sam!Boot -> "lock" [] e = Sam!Stop -> "run" [] OTHER -> "rest"]]
  BY DEF Sam!SamInit, Rows, Asks
<1>2. \A e \in Sam!Actor : editor[e] \in PassRec /\ editor[e].pc \in {"lock", "run", "rest"} /\ editor[e].read = -1
  <2> TAKE e \in Sam!Actor
  <2>1. PICK pc \in {"lock", "run", "rest"} : editor[e] = [Sam!Idle EXCEPT !.pc = pc]
    BY <1>1
  <2>2. Sam!Idle = [pc |-> "rest", ids |-> {}, on |-> <<0, 0>>, rows |-> <<>>, read |-> -1]
    BY DEF Sam!Idle
  <2>3. editor[e] = [pc |-> pc, ids |-> {}, on |-> <<0, 0>>, rows |-> <<>>, read |-> -1]
    BY <2>1, <2>2
  <2> QED BY <2>3 DEF PassRec
<1>3. SamTypeOK
  <2>1. editor \in [Sam!Actor -> PassRec]
    BY <1>1, <1>2
  <2>2. IsFiniteSet(sups)
    BY <1>1, FS_EmptySet
  <2>3. edited \in Nat /\ sups \subseteq SupRec /\ settled \in Int
    BY <1>1
  <2>4. tasks \in [Sam!Camera -> Nat]
    BY <1>1
  <2>5. hung \in BOOLEAN
    BY <1>1
  <2> QED BY <1>1, <2>1, <2>2, <2>3, <2>4, <2>5 DEF SamTypeOK
<1>4. Numbered /\ Tabled /\ OnePass /\ StoppedAwaited
  BY <1>1, <1>2 DEF Numbered, Tabled, OnePass, StoppedAwaited, Passing
<1>5. PassesTrue
  BY <1>1, <1>2 DEF PassesTrue, PassTrue
<1>6. SettledTrue
  BY <1>1 DEF SettledTrue
<1> QED BY <1>3, <1>4, <1>5, <1>6 DEF SamInv

-----------------------------------------------------------------------------
(* The steps of a supervisor. *)
LEMMA OnlyHolder == ASSUME OnePass, NEW e \in Sam!Actor, guard = e PROVE \A a \in Sam!Actor \ {e} : editor[a].pc \notin Passing
BY DEF OnePass

LEMMA BecomesKeeps ==
  ASSUME SamInv, NEW s \in sups, NEW pc \in {"look", "run", "sleep"}, Sam!Becomes(s, pc),
         UNCHANGED <<want, edited, editor, guard, tasks, settled, hung>>
  PROVE  SamInv'
<1> USE DEF SamInv
<1> DEFINE n == [s EXCEPT !.pc = pc]
<1>1. n \in SupRec /\ n.cam = s.cam /\ n.id = s.id /\ n.grant = s.grant /\ n.stop = s.stop
  <2>1. s \in SupRec
    BY DEF SamTypeOK
  <2> QED BY <2>1 DEF SupRec
<1>2. sups' = (sups \ {s}) \cup {n}
  BY DEF Sam!Becomes
<1> HIDE DEF n
<1>3. \A t \in sups' : \E u \in sups : t.cam = u.cam /\ t.id = u.id /\ t.grant = u.grant /\ t.stop = u.stop
  BY <1>1, <1>2
<1>4. \A u \in sups : \E t \in sups' : t.cam = u.cam /\ t.id = u.id /\ t.grant = u.grant /\ t.stop = u.stop
  BY <1>1, <1>2
<1>5. SamTypeOK'
  <2>1. IsFiniteSet(sups')
    BY <1>2, FS_RemoveElement, FS_AddElement DEF SamTypeOK
  <2>2. sups' \subseteq SupRec
    BY <1>1, <1>2 DEF SamTypeOK
  <2> QED BY <2>1, <2>2 DEF SamTypeOK
<1>6. Numbered'
  BY <1>1, <1>2 DEF Numbered
<1>7. Tabled' /\ OnePass' /\ StoppedAwaited'
  <2>1. Tabled'
    BY <1>3 DEF Tabled
  <2>2. OnePass'
    BY DEF OnePass
  <2>3. editor' = editor /\ tasks' = tasks /\ hung' = hung
    OBVIOUS
  <2>4. ~ hung' => \A t \in sups' : t.stop => \E e \in Sam!Actor : editor'[e].pc = "await" /\ editor'[e].on = <<t.cam, t.id>>
    <3> SUFFICES ASSUME ~ hung', NEW t \in sups', t.stop
                 PROVE  \E e \in Sam!Actor : editor'[e].pc = "await" /\ editor'[e].on = <<t.cam, t.id>>
      OBVIOUS
    <3>1. PICK u \in sups : t.cam = u.cam /\ t.id = u.id /\ t.stop = u.stop
      BY <1>3
    <3>2. ~ hung /\ u.stop
      BY <2>3, <3>1
    <3>3. PICK e \in Sam!Actor : editor[e].pc = "await" /\ editor[e].on = <<u.cam, u.id>>
      BY <3>2 DEF StoppedAwaited
    <3>4. editor'[e].pc = "await" /\ editor'[e].on = <<t.cam, t.id>>
      BY <2>3, <3>1, <3>3
    <3> QED BY <3>4
  <2>5. \A e \in Sam!Actor : editor'[e].pc = "await" => editor'[e].on[1] \in Sam!Camera /\ tasks'[editor'[e].on[1]] = 0
    BY <2>3 DEF StoppedAwaited
  <2>6. StoppedAwaited'
    BY <2>4, <2>5 DEF StoppedAwaited
  <2> QED BY <2>1, <2>2, <2>6
<1>8. PassesTrue'
  <2> SUFFICES ASSUME NEW e \in Sam!Actor PROVE PassTrue(editor[e])'
    BY DEF PassesTrue
  <2>1. PassTrue(editor[e])
    BY DEF PassesTrue
  <2>2. ASSUME SpawnTrue(editor[e]) PROVE SpawnTrue(editor[e])'
    <3>1. \A t \in sups' : t.stop \/ (t.cam \in editor[e].ids /\ t.grant = Sam!Share(editor[e].rows, t.cam))
      BY <2>2, <1>3 DEF SpawnTrue
    <3>2. editor[e].read = edited => editor[e].rows = want /\ \A c \in editor[e].ids : \E t \in sups' : ~ t.stop /\ t.cam = c
      BY <2>2, <1>4 DEF SpawnTrue
    <3> QED BY <2>2, <3>1, <3>2 DEF SpawnTrue
  <2>3. editor[e].pc \in {"stop", "await"} => \A t \in sups' : t.stop \/ t.cam \in editor[e].ids
    BY <2>1, <1>3 DEF PassTrue
  <2> QED BY <2>1, <2>2, <2>3 DEF PassTrue
<1>9. SettledTrue'
  <2>1. settled = edited => \A t \in sups' : t.stop \/ (t.grant = Sam!Share(want, t.cam) /\ t.grant # Sam!None)
    BY <1>3 DEF SettledTrue
  <2>2. settled = edited => \A c \in Sam!Camera : Sam!Share(want, c) # Sam!None => \E t \in sups' : ~ t.stop /\ t.cam = c
    BY <1>4 DEF SettledTrue
  <2> QED BY <2>1, <2>2 DEF SettledTrue
<1> QED BY <1>5, <1>6, <1>7, <1>8, <1>9

(* It ends as it was told to, or as its camera wants nothing. *)
LEMMA GoneKeeps ==
  ASSUME SamInv, NEW s \in sups, sups' = sups \ {s}, UNCHANGED <<want, edited, editor, guard, settled, hung>>,
         \/ s.stop /\ UNCHANGED tasks
         \/ ~ s.stop /\ want[s.cam] = Sam!None /\ tasks' = [tasks EXCEPT ![s.cam] = 0]
  PROVE  SamInv'
<1> USE DEF SamInv
<1>1. s \in SupRec /\ s.cam \in Sam!Camera
  BY DEF SamTypeOK, SupRec
<1>2. tasks' \in [Sam!Camera -> Nat] /\ \A c \in Sam!Camera : tasks'[c] \in {tasks[c], 0}
  BY <1>1 DEF SamTypeOK
<1>3. SamTypeOK'
  <2>1. IsFiniteSet(sups')
    BY FS_RemoveElement DEF SamTypeOK
  <2> QED BY <1>2, <2>1 DEF SamTypeOK
<1>4. Numbered' /\ OnePass'
  BY DEF Numbered, OnePass
<1>5. Tabled'
  <2> SUFFICES ASSUME NEW t \in sups, t # s, ~ t.stop PROVE t.id = tasks'[t.cam]
    BY DEF Tabled
  <2>1. t.id = tasks[t.cam] /\ t.cam \in Sam!Camera
    BY DEF Tabled, SamTypeOK, SupRec
  <2>2. ~ s.stop => s.cam # t.cam
    BY <2>1 DEF Tabled, Numbered
  <2> QED BY <1>1, <2>1, <2>2 DEF SamTypeOK
<1>6. StoppedAwaited'
  BY <1>2 DEF StoppedAwaited
<1>7. ASSUME NEW w, NEW c, \E u \in sups : ~ u.stop /\ u.cam = c, Sam!Share(w, c) # Sam!None, w = want
      PROVE \E t \in sups' : ~ t.stop /\ t.cam = c
  <2>1. PICK u \in sups : ~ u.stop /\ u.cam = c
    BY <1>7
  <2>2. u # s
    BY <1>7, <2>1, ShareNone
  <2> QED BY <2>1, <2>2
<1>8. PassesTrue'
  <2> SUFFICES ASSUME NEW e \in Sam!Actor PROVE PassTrue(editor[e])'
    BY DEF PassesTrue
  <2>1. PassTrue(editor[e])
    BY DEF PassesTrue
  <2>2. ASSUME SpawnTrue(editor[e]) PROVE SpawnTrue(editor[e])'
    <3>1. \A t \in sups' : t.stop \/ (t.cam \in editor[e].ids /\ t.grant = Sam!Share(editor[e].rows, t.cam))
      BY <2>2 DEF SpawnTrue
    <3>2. editor[e].read = edited => editor[e].rows = want /\ \A c \in editor[e].ids : \E t \in sups' : ~ t.stop /\ t.cam = c
      BY <2>2, <1>7 DEF SpawnTrue
    <3> QED BY <2>2, <3>1, <3>2 DEF SpawnTrue
  <2> QED BY <2>1, <2>2 DEF PassTrue
<1>9. SettledTrue'
  <2>1. settled = edited => \A c \in Sam!Camera : Sam!Share(want, c) # Sam!None => \E t \in sups' : ~ t.stop /\ t.cam = c
    BY <1>7 DEF SettledTrue
  <2> QED BY <2>1 DEF SettledTrue
<1> QED BY <1>3, <1>4, <1>5, <1>6, <1>8, <1>9

LEMMA SupervisorKeeps ==
  ASSUME SamInv, NEW s \in sups,
         Sam!supervise(s) \/ Sam!Offline(s) \/ Sam!sleep_or_stop(s) \/ Sam!Ends(s)
  PROVE  SamInv'
<1>1. CASE Sam!supervise(s)
  <2>1. ~ s.stop /\ UNCHANGED <<want, edited, editor, guard, settled, hung>>
    BY <1>1 DEF Sam!supervise
  <2>2. \/ want[s.cam] = Sam!None /\ sups' = sups \ {s} /\ tasks' = [tasks EXCEPT ![s.cam] = 0]
        \/ Sam!Becomes(s, "run") /\ UNCHANGED tasks
        \/ Sam!Becomes(s, "sleep") /\ UNCHANGED tasks
    BY <1>1 DEF Sam!supervise, Sam!cleanup_self
  <2> QED BY <2>1, <2>2, BecomesKeeps, GoneKeeps
<1>2. CASE Sam!Offline(s)
  BY <1>2, BecomesKeeps DEF Sam!Offline
<1>3. CASE Sam!sleep_or_stop(s)
  BY <1>3, BecomesKeeps DEF Sam!sleep_or_stop
<1>4. CASE Sam!Ends(s)
  BY <1>4, GoneKeeps DEF Sam!Ends
<1> QED BY <1>1, <1>2, <1>3, <1>4

-----------------------------------------------------------------------------
(* The steps of a pass. *)
LEMMA PassGoes ==
  ASSUME SamTypeOK, NEW e \in Sam!Actor, NEW pc \in {"rest", "lock", "run", "done"} \cup Passing, Sam!Step(e, pc)
  PROVE  /\ editor' \in [Sam!Actor -> PassRec] /\ \A a \in Sam!Actor \ {e} : editor'[a] = editor[a]
         /\ editor'[e].pc = pc /\ editor'[e].ids = editor[e].ids /\ editor'[e].on = editor[e].on
         /\ editor'[e].rows = editor[e].rows /\ editor'[e].read = editor[e].read
<1>1. editor[e] \in PassRec
  BY DEF SamTypeOK
<1>2. editor' = [editor EXCEPT ![e] = [editor[e] EXCEPT !.pc = pc]]
  BY DEF Sam!Step
<1>3. [editor[e] EXCEPT !.pc = pc] \in PassRec
  BY <1>1 DEF PassRec
<1> QED BY <1>1, <1>2, <1>3 DEF SamTypeOK, PassRec

(* A step that leaves the supervisors and the rows alone keeps what the other passes have done. *)
LEMMA PassesKeep ==
  ASSUME PassesTrue, UNCHANGED <<sups, want, edited>>, NEW e \in Sam!Actor,
         \A a \in Sam!Actor \ {e} : editor'[a] = editor[a], PassTrue(editor[e])'
  PROVE  PassesTrue'
<1> SUFFICES ASSUME NEW a \in Sam!Actor, a # e PROVE PassTrue(editor[a])'
  BY DEF PassesTrue
<1>1. PassTrue(editor[a]) /\ editor'[a] = editor[a]
  BY DEF PassesTrue
<1>2. SpawnTrue(editor[a]) => SpawnTrue(editor[a])'
  BY <1>1 DEF SpawnTrue
<1> QED BY <1>1, <1>2 DEF PassTrue

(* And where they change, the holder of the lock is alone at work. *)
LEMMA HolderKeeps ==
  ASSUME SamTypeOK, PassesTrue, OnePass, UNCHANGED edited, NEW e \in Sam!Actor, guard = e,
         \A a \in Sam!Actor \ {e} : editor'[a] = editor[a], PassTrue(editor[e])'
  PROVE  PassesTrue'
<1> SUFFICES ASSUME NEW a \in Sam!Actor, a # e PROVE PassTrue(editor[a])'
  BY DEF PassesTrue
<1>1. PassTrue(editor[a]) /\ editor'[a] = editor[a] /\ editor[a].pc \notin Passing
  BY OnlyHolder DEF PassesTrue
<1> QED BY <1>1 DEF PassTrue, Passing

LEMMA ChangeKeeps == ASSUME SamInv, NEW e \in SamEditor, Sam!Change(e) PROVE SamInv'
<1> USE DEF SamInv
<1>1. /\ editor[e].pc = "rest" /\ edited' = edited + 1 /\ Sam!Step(e, "lock") /\ e \in Sam!Actor
      /\ UNCHANGED <<guard, tasks, sups, settled, hung>>
  BY SamActors DEF Sam!Change
<1>2. want' \in Rows
  <2>1. PICK c \in Sam!Camera, w \in Asks : want' = [want EXCEPT ![c] = w]
    BY DEF Sam!Change, Asks
  <2> QED BY <2>1 DEF SamTypeOK, Rows
<1>3. /\ editor' \in [Sam!Actor -> PassRec] /\ \A a \in Sam!Actor \ {e} : editor'[a] = editor[a]
      /\ editor'[e].pc = "lock" /\ editor'[e].read = editor[e].read /\ editor'[e].on = editor[e].on
  BY <1>1, PassGoes
<1>4. edited \in Nat /\ edited' \in Nat /\ settled \in Int /\ \A a \in Sam!Actor : editor[a].read \in Int
  BY <1>1 DEF SamTypeOK, PassRec
<1>5. SamTypeOK'
  BY <1>1, <1>2, <1>3, <1>4 DEF SamTypeOK
<1>6. Numbered' /\ Tabled' /\ OnePass' /\ StoppedAwaited'
  <2>1. Numbered' /\ Tabled'
    BY <1>1 DEF Numbered, Tabled
  <2>2. OnePass'
    BY <1>1, <1>3 DEF OnePass, Passing
  <2>3. StoppedAwaited'
    BY <1>1, <1>3, ZenonT(60) DEF StoppedAwaited
  <2> QED BY <2>1, <2>2, <2>3
<1>7. PassesTrue'
  <2> SUFFICES ASSUME NEW a \in Sam!Actor PROVE PassTrue(editor[a])'
    BY DEF PassesTrue
  <2>1. PassTrue(editor[a])
    BY DEF PassesTrue
  <2>2. editor'[a].read = editor[a].read /\ editor[a].read <= edited /\ editor[a].read < edited'
    BY <1>1, <1>3, <1>4, <2>1 DEF PassTrue
  <2>3. CASE a = e
    BY <1>1, <1>3, <1>4, <2>1, <2>2, <2>3 DEF PassTrue
  <2>4. CASE a # e
    <3>1. editor'[a] = editor[a]
      BY <1>3, <2>4
    <3>2. SpawnTrue(editor[a]) => SpawnTrue(editor[a])'
      BY <1>1, <1>4, <2>2, <3>1 DEF SpawnTrue
    <3>3. editor[a].read <= edited'
      BY <1>4, <2>2
    <3> QED BY <1>1, <2>1, <3>1, <3>2, <3>3, SMTT(60) DEF PassTrue
  <2> QED BY <2>3, <2>4
<1>8. SettledTrue'
  <2>1. settled <= edited /\ settled # edited'
    BY <1>1, <1>4 DEF SettledTrue
  <2> QED BY <1>1, <1>4, <2>1 DEF SettledTrue
<1> QED BY <1>5, <1>6, <1>7, <1>8

LEMMA RebalanceKeeps == ASSUME SamInv, NEW e \in Sam!Actor, Sam!rebalance(e) PROVE SamInv'
<1> USE DEF SamInv
<1> DEFINE r == [editor[e] EXCEPT !.pc = "stop", !.ids = {c \in Sam!Camera : tasks[c] # 0}]
<1>1. /\ editor[e].pc = "lock" /\ guard = "none" /\ guard' = e /\ settled' = -1
      /\ UNCHANGED <<want, edited, tasks, sups, hung>>
  BY DEF Sam!rebalance
<1>2. editor' = [editor EXCEPT ![e] = r]
  BY DEF Sam!rebalance
<1>3. /\ r \in PassRec /\ r.pc = "stop" /\ r.ids = {c \in Sam!Camera : tasks[c] # 0} /\ r.read = editor[e].read
  <2>1. editor[e] \in PassRec
    BY DEF SamTypeOK
  <2> QED BY <2>1 DEF PassRec, Passing
<1> HIDE DEF r
<1>4. editor' \in [Sam!Actor -> PassRec] /\ editor'[e] = r /\ \A a \in Sam!Actor \ {e} : editor'[a] = editor[a]
  BY <1>2, <1>3 DEF SamTypeOK
<1>5. SamTypeOK'
  BY <1>1, <1>4 DEF SamTypeOK
<1>6. \A a \in Sam!Actor : editor[a].pc \notin Passing
  BY <1>1, SamActors DEF OnePass
<1>7. Numbered' /\ Tabled' /\ OnePass'
  <2>1. Numbered' /\ Tabled'
    BY <1>1 DEF Numbered, Tabled
  <2>2. OnePass'
    BY <1>1, <1>4, <1>6 DEF OnePass
  <2> QED BY <2>1, <2>2
<1>8. StoppedAwaited'
  <2>1. \A a \in Sam!Actor : editor[a].pc # "await" /\ editor'[a].pc # "await"
    BY <1>3, <1>4, <1>6 DEF Passing
  <2> QED BY <1>1, <2>1 DEF StoppedAwaited
<1>9. PassesTrue'
  <2>1. PassTrue(editor[e])
    BY DEF PassesTrue
  <2>2. \A s \in sups : s.stop \/ s.cam \in r.ids
    <3> SUFFICES ASSUME NEW s \in sups, ~ s.stop PROVE s.cam \in r.ids
      OBVIOUS
    <3>1. s.id = tasks[s.cam] /\ s.id # 0 /\ s.cam \in Sam!Camera
      BY DEF Tabled, SamTypeOK, SupRec
    <3> QED BY <1>3, <3>1
  <2>3. PassTrue(editor[e])'
    BY <1>1, <1>3, <1>4, <2>1, <2>2 DEF PassTrue
  <2> QED BY <1>1, <1>4, <2>3, PassesKeep
<1>10. SettledTrue'
  BY <1>1 DEF SettledTrue, SamTypeOK
<1> QED BY <1>5, <1>7, <1>8, <1>9, <1>10

LEMMA StopTaskKeeps == ASSUME SamInv, NEW e \in Sam!Actor, Sam!stop(e) PROVE SamInv'
<1> USE DEF SamInv
<1>1. editor[e].pc = "stop" /\ UNCHANGED <<want, edited, guard, settled, hung>> /\ guard = e
  BY SMTT(60) DEF Sam!stop, OnePass, Passing
<1>2. PICK c \in editor[e].ids :
        /\ tasks' = [tasks EXCEPT ![c] = 0]
        /\ sups' = {[s EXCEPT !.stop = s.stop \/ (s.cam = c /\ s.id = tasks[c])] : s \in sups}
        /\ editor' = [editor EXCEPT ![e].pc = "await", ![e].ids = @ \ {c}, ![e].on = <<c, tasks[c]>>]
  BY DEF Sam!stop
<1> DEFINE Told(s) == s.stop \/ (s.cam = c /\ s.id = tasks[c])
           After(s) == [s EXCEPT !.stop = Told(s)]
           r == [editor[e] EXCEPT !.pc = "await", !.ids = editor[e].ids \ {c}, !.on = <<c, tasks[c]>>]
<1>3. /\ editor[e] \in PassRec /\ c \in Sam!Camera /\ tasks[c] \in Nat
  BY DEF SamTypeOK, PassRec
<1>4. /\ r \in PassRec /\ r.pc = "await" /\ r.ids = editor[e].ids \ {c} /\ r.on = <<c, tasks[c]>> /\ r.read = editor[e].read
  <2>1. c \in Nat
    BY <1>3, FootageAssumption DEF Sam!Camera
  <2> QED BY <1>3, <2>1 DEF PassRec, Passing
<1>5. editor' = [editor EXCEPT ![e] = r]
  BY <1>2
<1> HIDE DEF r
<1>6. editor' \in [Sam!Actor -> PassRec] /\ editor'[e] = r /\ \A a \in Sam!Actor \ {e} : editor'[a] = editor[a]
  BY <1>4, <1>5 DEF SamTypeOK
<1>7. tasks' \in [Sam!Camera -> Nat] /\ tasks'[c] = 0 /\ \A d \in Sam!Camera \ {c} : tasks'[d] = tasks[d]
  BY <1>2, <1>3 DEF SamTypeOK
<1>8. \A s \in sups : /\ After(s) \in SupRec /\ After(s).cam = s.cam /\ After(s).id = s.id /\ After(s).grant = s.grant
                      /\ (After(s).stop <=> Told(s))
  <2> SUFFICES ASSUME NEW s \in sups
               PROVE  /\ After(s) \in SupRec /\ After(s).cam = s.cam /\ After(s).id = s.id /\ After(s).grant = s.grant
                      /\ (After(s).stop <=> Told(s))
    OBVIOUS
  <2>1. s \in SupRec /\ Told(s) \in BOOLEAN
    BY DEF SamTypeOK, SupRec
  <2> HIDE DEF Told
  <2> QED BY <2>1 DEF SupRec
<1>9. sups' = {After(s) : s \in sups}
  BY <1>2
<1>10. IsFiniteSet(sups')
  <2> DEFINE f == [s \in sups |-> After(s)]
  <2>1. f \in [sups -> sups'] /\ \A t \in sups' : \E s \in sups : f[s] = t
    BY <1>9
  <2> HIDE DEF f
  <2>2. f \in Surjection(sups, sups')
    BY <2>1 DEF Surjection
  <2> QED BY <2>2, FS_Surjection DEF SamTypeOK
<1> HIDE DEF After
<1>11. SamTypeOK'
  <2>1. sups' \subseteq SupRec
    BY <1>8, <1>9
  <2> QED BY <1>1, <1>6, <1>7, <1>10, <2>1 DEF SamTypeOK
<1>12. Numbered'
  BY <1>8, <1>9 DEF Numbered
(* The camera has no task left that is not told to end. *)
<1>13. \A t \in sups' : t.stop \/ \E s \in sups : ~ s.stop /\ t.cam = s.cam /\ t.id = s.id /\ t.cam # c /\ t.cam \in Sam!Camera
  <2> SUFFICES ASSUME NEW s \in sups, ~ Told(s) PROVE ~ s.stop /\ s.cam # c /\ s.cam \in Sam!Camera
    BY <1>8, <1>9
  <2>1. s.id = tasks[s.cam] /\ s.cam \in Sam!Camera
    BY DEF Tabled, SamTypeOK, SupRec
  <2> QED BY <2>1
<1>14. Tabled'
  BY <1>7, <1>13 DEF Tabled
<1>15. OnePass'
  BY <1>1, <1>6 DEF OnePass
<1>16. \A a \in Sam!Actor \ {e} : editor[a].pc \notin Passing
  BY <1>1, OnlyHolder
<1>17. StoppedAwaited'
  <2>1. ASSUME ~ hung, NEW s \in sups, Told(s) PROVE s.cam = c /\ s.id = tasks[c]
    <3>1. ~ s.stop
      <4> SUFFICES ASSUME s.stop PROVE FALSE
        OBVIOUS
      <4>1. PICK a \in Sam!Actor : editor[a].pc = "await"
        BY <2>1 DEF StoppedAwaited
      <4> QED BY <1>1, <1>16, <4>1 DEF Passing
    <3> QED BY <2>1, <3>1
  <2>2. ~ hung' => \A t \in sups' : t.stop => \E a \in Sam!Actor : editor'[a].pc = "await" /\ editor'[a].on = <<t.cam, t.id>>
    BY <1>1, <1>4, <1>6, <1>8, <1>9, <2>1
  <2>3. \A a \in Sam!Actor : editor'[a].pc = "await" => a = e
    BY <1>6, <1>16 DEF Passing
  <2>4. editor'[e].on[1] = c
    BY <1>4, <1>6
  <2> QED BY <1>3, <1>7, <2>2, <2>3, <2>4 DEF StoppedAwaited
<1>18. PassesTrue'
  <2>1. PassTrue(editor[e])
    BY DEF PassesTrue
  <2>2. \A t \in sups' : t.stop \/ t.cam \in r.ids
    BY <1>1, <1>4, <1>13, <2>1 DEF PassTrue
  <2>3. PassTrue(editor[e])'
    BY <1>1, <1>4, <1>6, <2>1, <2>2 DEF PassTrue
  <2> QED BY <1>1, <1>6, <2>3, HolderKeeps
<1>19. SettledTrue'
  <2>1. settled = -1 /\ edited \in Nat
    BY <1>1, SamActors DEF SettledTrue, SamTypeOK
  <2> QED BY <1>1, <2>1 DEF SettledTrue
<1> QED BY <1>11, <1>12, <1>14, <1>15, <1>17, <1>18, <1>19

LEMMA AwaitEndKeeps == ASSUME SamInv, NEW e \in Sam!Actor, Sam!Await(e) PROVE SamInv'
<1> USE DEF SamInv
<1>1. /\ editor[e].pc = "await" /\ (\A s \in sups : <<s.cam, s.id>> # editor[e].on) /\ Sam!Step(e, "stop")
      /\ UNCHANGED <<want, edited, guard, tasks, sups, settled, hung>>
  BY DEF Sam!Await
<1>2. /\ editor' \in [Sam!Actor -> PassRec] /\ \A a \in Sam!Actor \ {e} : editor'[a] = editor[a]
      /\ editor'[e].pc = "stop" /\ editor'[e].ids = editor[e].ids /\ editor'[e].read = editor[e].read
  BY <1>1, PassGoes DEF Passing
<1>3. SamTypeOK' /\ Numbered' /\ Tabled' /\ SettledTrue'
  BY <1>1, <1>2 DEF SamTypeOK, Numbered, Tabled, SettledTrue
<1>4. OnePass'
  BY <1>1, <1>2 DEF OnePass, Passing
<1>5. StoppedAwaited'
  BY <1>1, <1>2, ZenonT(60) DEF StoppedAwaited
<1>6. PassTrue(editor[e])'
  <2>1. PassTrue(editor[e])
    BY DEF PassesTrue
  <2> QED BY <1>1, <1>2, <2>1 DEF PassTrue
<1>7. PassesTrue'
  BY <1>1, <1>2, <1>6, PassesKeep
<1> QED BY <1>3, <1>4, <1>5, <1>7

LEMMA ReadRowsKeeps == ASSUME SamInv, NEW e \in Sam!Actor, Sam!ReadRows(e) PROVE SamInv'
<1>1. /\ editor[e].pc = "stop" /\ editor[e].ids = {} /\ UNCHANGED <<want, edited, guard, tasks, sups, settled, hung>>
  BY Zenon DEF Sam!ReadRows
<1> USE DEF SamInv
<1>2. PICK rows \in Rows, read \in {editor[e].read, edited} :
        /\ editor' = [editor EXCEPT ![e] = [editor[e] EXCEPT !.pc = "spawn", !.rows = rows, !.read = read]]
        /\ rows = want \/ read = editor[e].read
  <2>1. CASE editor' = [editor EXCEPT ![e].pc = "spawn", ![e].rows = want, ![e].read = edited]
    <3>1. want \in Rows
      BY DEF SamTypeOK
    <3>2. editor' = [editor EXCEPT ![e] = [editor[e] EXCEPT !.pc = "spawn", !.rows = want, !.read = edited]]
      BY <2>1
    <3> QED BY <3>1, <3>2
  <2>2. CASE editor' = [editor EXCEPT ![e].pc = "spawn", ![e].rows = [c \in Sam!Camera |-> Sam!None]]
    <3> DEFINE none == [c \in Sam!Camera |-> Sam!None]
    <3>1. none \in Rows
      BY DEF Rows, Asks
    <3>2. editor' = [editor EXCEPT ![e] = [editor[e] EXCEPT !.pc = "spawn", !.rows = none]]
      BY <2>2
    <3> HIDE DEF none
    <3>3. editor[e] \in PassRec
      BY DEF SamTypeOK
    <3>4. [editor[e] EXCEPT !.pc = "spawn", !.rows = none] = [editor[e] EXCEPT !.pc = "spawn", !.rows = none, !.read = editor[e].read]
      BY <3>3 DEF PassRec
    <3> QED BY <3>1, <3>2, <3>4
  <2> HIDE DEF SamInv
  <2> QED BY Zenon, <2>1, <2>2 DEF Sam!ReadRows
<1> DEFINE r == [editor[e] EXCEPT !.pc = "spawn", !.rows = rows, !.read = read]
<1>3. PassTrue(editor[e]) /\ editor[e].read = -1 /\ edited \in Nat
  BY <1>1 DEF PassesTrue, PassTrue, SamTypeOK
<1>4. r \in PassRec /\ r.pc = "spawn" /\ r.rows = rows /\ r.read = read /\ r.ids = {}
  <2>1. editor[e] \in PassRec /\ read \in Int
    BY <1>3 DEF SamTypeOK
  <2> QED BY <1>1, <2>1 DEF PassRec, Passing
<1> HIDE DEF r
<1>5. editor' \in [Sam!Actor -> PassRec] /\ editor'[e] = r /\ \A a \in Sam!Actor \ {e} : editor'[a] = editor[a]
  <2>1. editor' = [editor EXCEPT ![e] = r]
    BY <1>2 DEF r
  <2> QED BY <1>4, <2>1 DEF SamTypeOK
<1>6. SamTypeOK' /\ Numbered' /\ Tabled' /\ SettledTrue'
  BY <1>1, <1>5 DEF SamTypeOK, Numbered, Tabled, SettledTrue
<1>7. OnePass'
  BY <1>1, <1>5 DEF OnePass, Passing
<1>8. StoppedAwaited'
  <2>1. \A a \in Sam!Actor : (editor'[a].pc = "await" <=> editor[a].pc = "await")
                             /\ (editor'[a].pc = "await" => editor'[a] = editor[a])
    BY <1>1, <1>4, <1>5
  <2> QED BY <1>1, <2>1, ZenonT(60) DEF StoppedAwaited
<1>9. PassTrue(editor[e])'
  <2>1. \A s \in sups : s.stop
    BY <1>1, <1>3 DEF PassTrue
  <2>2. SpawnTrue(editor[e])'
    <3>1. read = edited => rows = want
      BY <1>2, <1>3
    <3> QED BY <1>1, <1>4, <1>5, <2>1, <3>1 DEF SpawnTrue
  <2>3. read <= edited
    BY <1>3
  <2> QED BY <1>1, <1>4, <1>5, <2>2, <2>3 DEF PassTrue
<1>10. PassesTrue'
  BY <1>1, <1>5, <1>9, PassesKeep
<1> QED BY <1>6, <1>7, <1>8, <1>10

LEMMA SpawnKeeps == ASSUME SamInv, NEW e \in Sam!Actor, Sam!spawn(e) PROVE SamInv'
<1> USE DEF SamInv
<1>1. editor[e].pc = "spawn" /\ UNCHANGED <<want, edited, guard, settled, hung>> /\ guard = e
  BY SMTT(60) DEF Sam!spawn, OnePass, Passing
<1> DEFINE p == editor[e]
<1>2. PICK c \in Sam!Unserved(e) :
        /\ tasks' = [tasks EXCEPT ![c] = Sam!Fresh(c)]
        /\ sups' = {s \in sups : s.cam # c \/ s.id # tasks[c]} \cup
                   {[cam |-> c, id |-> Sam!Fresh(c), grant |-> Sam!Share(p.rows, c), asked |-> p.rows[c][2],
                     stop |-> FALSE, pc |-> "look"]}
        /\ editor' = [editor EXCEPT ![e].ids = @ \cup {c}]
  BY DEF Sam!spawn
<1>3. PassTrue(p) /\ SpawnTrue(p) /\ p \in PassRec
  BY <1>1 DEF PassesTrue, PassTrue, SamTypeOK
<1>4. c \in Sam!Camera /\ c \notin p.ids /\ Sam!Share(p.rows, c) # Sam!None
  BY DEF Sam!Unserved
<1> DEFINE n == [cam |-> c, id |-> Sam!Fresh(c), grant |-> Sam!Share(p.rows, c), asked |-> p.rows[c][2],
                 stop |-> FALSE, pc |-> "look"]
           old == {s \in sups : s.cam # c \/ s.id # tasks[c]}
           r == [p EXCEPT !.ids = p.ids \cup {c}]
<1>5. Sam!Fresh(c) \in Nat \ {0} /\ \A s \in sups : s.cam = c => s.id # Sam!Fresh(c)
  BY FreshIs
<1>6. /\ n \in SupRec /\ n.cam = c /\ n.id = Sam!Fresh(c) /\ n.grant = Sam!Share(p.rows, c) /\ ~ n.stop
  <2>1. p.rows \in Rows /\ p.rows[c][2] \in {w[2] : w \in Asks}
    BY <1>3, <1>4 DEF SpawnTrue, Rows
  <2> QED BY <1>4, <1>5, <2>1 DEF SupRec
<1>7. /\ r \in PassRec /\ r.pc = "spawn" /\ r.ids = p.ids \cup {c} /\ r.rows = p.rows /\ r.read = p.read /\ r.on = p.on
  BY <1>1, <1>3, <1>4 DEF PassRec
<1>8. editor' \in [Sam!Actor -> PassRec] /\ editor'[e] = r /\ \A a \in Sam!Actor \ {e} : editor'[a] = editor[a]
  <2>1. editor' = [editor EXCEPT ![e] = r]
    BY <1>2
  <2> HIDE DEF r
  <2> QED BY <1>7, <2>1 DEF SamTypeOK
<1>9. sups' = old \cup {n} /\ old \subseteq sups
  BY <1>2
<1>10. tasks' \in [Sam!Camera -> Nat] /\ tasks'[c] = Sam!Fresh(c) /\ \A d \in Sam!Camera \ {c} : tasks'[d] = tasks[d]
  BY <1>2, <1>4, <1>5 DEF SamTypeOK
<1>11. \A s \in old : ~ s.stop => s.cam # c
  BY DEF Tabled
<1> HIDE DEF n, old, r
<1>12. SamTypeOK'
  <2>1. IsFiniteSet(old)
    BY <1>9, FS_Subset DEF SamTypeOK
  <2>2. IsFiniteSet(sups')
    BY <1>9, <2>1, FS_AddElement
  <2>3. sups' \subseteq SupRec
    BY <1>6, <1>9 DEF SamTypeOK
  <2> QED BY <1>1, <1>8, <1>10, <2>2, <2>3 DEF SamTypeOK
<1>13. Numbered'
  BY <1>5, <1>6, <1>9 DEF Numbered
<1>14. Tabled'
  <2> SUFFICES ASSUME NEW s \in sups', ~ s.stop PROVE s.id = tasks'[s.cam]
    BY DEF Tabled
  <2>1. CASE s = n
    BY <1>6, <1>10, <2>1
  <2>2. CASE s \in old
    <3>1. s.cam # c /\ s.cam \in Sam!Camera /\ s.id = tasks[s.cam]
      BY <1>9, <1>11, <2>2 DEF Tabled, SamTypeOK, SupRec
    <3> QED BY <1>10, <3>1
  <2> QED BY <1>9, <2>1, <2>2
<1>15. \A a \in Sam!Actor \ {e} : editor[a].pc \notin Passing
  BY <1>1, OnlyHolder
<1>16. OnePass'
  BY <1>1, <1>8, <1>15 DEF OnePass
<1>17. StoppedAwaited'
  <2>1. \A a \in Sam!Actor : editor[a].pc # "await" /\ editor'[a].pc # "await"
    BY <1>1, <1>7, <1>8, <1>15 DEF Passing
  <2>2. ~ hung => \A s \in sups' : ~ s.stop
    BY <1>6, <1>9, <2>1 DEF StoppedAwaited
  <2> QED BY <1>1, <2>1, <2>2 DEF StoppedAwaited
<1>18. PassesTrue'
  <2>1. \A s \in sups' : s.stop \/ (s.cam \in r.ids /\ s.grant = Sam!Share(r.rows, s.cam))
    BY <1>3, <1>6, <1>7, <1>9 DEF SpawnTrue
  <2>2. \A d \in r.ids : Sam!Share(r.rows, d) # Sam!None
    BY <1>3, <1>4, <1>7 DEF SpawnTrue
  <2>3. r.read = edited => r.rows = want /\ \A d \in r.ids : \E s \in sups' : ~ s.stop /\ s.cam = d
    <3> SUFFICES ASSUME r.read = edited, NEW d \in r.ids PROVE r.rows = want /\ \E s \in sups' : ~ s.stop /\ s.cam = d
      BY <1>3, <1>7 DEF SpawnTrue
    <3>1. CASE d = c
      BY <1>3, <1>6, <1>7, <1>9, <3>1 DEF SpawnTrue
    <3>2. CASE d # c
      <4>1. PICK s \in sups : ~ s.stop /\ s.cam = d
        BY <1>3, <1>7, <3>2 DEF SpawnTrue
      <4>2. s \in old
        BY <3>2, <4>1 DEF old
      <4> QED BY <1>3, <1>7, <1>9, <4>1, <4>2 DEF SpawnTrue
    <3> QED BY <3>1, <3>2
  <2>4. SpawnTrue(editor[e])'
    BY <1>1, <1>3, <1>7, <1>8, <2>1, <2>2, <2>3 DEF SpawnTrue
  <2>5. PassTrue(editor[e])'
    BY <1>1, <1>3, <1>7, <1>8, <2>4, SMTT(60) DEF PassTrue
  <2> QED BY <1>1, <1>8, <2>5, HolderKeeps
<1>19. SettledTrue'
  <2>1. settled = -1 /\ edited \in Nat
    BY <1>1, SamActors DEF SettledTrue, SamTypeOK
  <2> QED BY <1>1, <2>1 DEF SettledTrue
<1> QED BY <1>12, <1>13, <1>14, <1>16, <1>17, <1>18, <1>19

(* A pass is over, by itself or as its request is dropped. *)
LEMMA OverKeeps ==
  ASSUME SamInv, NEW e \in Sam!Actor, editor' = [editor EXCEPT ![e] = Sam!Idle], UNCHANGED <<want, edited, tasks, sups>>,
         guard' = IF guard = e THEN "none" ELSE guard, hung' \in BOOLEAN, hung' = (hung \/ editor[e].pc = "await"),
         SettledTrue', settled' \in Int
  PROVE  SamInv'
<1> USE DEF SamInv
<1>1. editor' \in [Sam!Actor -> PassRec] /\ editor'[e] = Sam!Idle /\ \A a \in Sam!Actor \ {e} : editor'[a] = editor[a]
  BY IdleIs DEF SamTypeOK
<1>2. SamTypeOK' /\ Numbered' /\ Tabled'
  BY <1>1 DEF SamTypeOK, Numbered, Tabled
<1>3. OnePass'
  BY <1>1, IdleIs DEF OnePass, Passing
<1>4. StoppedAwaited'
  <2>1. ~ hung' => \A s \in sups : s.stop => \E a \in Sam!Actor : editor'[a].pc = "await" /\ editor'[a].on = <<s.cam, s.id>>
    <3> SUFFICES ASSUME ~ hung, editor[e].pc # "await", NEW s \in sups, s.stop
                 PROVE  \E a \in Sam!Actor : editor'[a].pc = "await" /\ editor'[a].on = <<s.cam, s.id>>
      OBVIOUS
    <3>1. PICK a \in Sam!Actor : editor[a].pc = "await" /\ editor[a].on = <<s.cam, s.id>>
      BY DEF StoppedAwaited
    <3> QED BY <1>1, <3>1
  <2>2. \A a \in Sam!Actor : editor'[a].pc = "await" => editor'[a].on[1] \in Sam!Camera /\ tasks[editor'[a].on[1]] = 0
    BY <1>1, IdleIs DEF StoppedAwaited
  <2> QED BY <2>1, <2>2 DEF StoppedAwaited
<1>5. PassTrue(editor[e])'
  <2>1. edited \in Nat
    BY DEF SamTypeOK
  <2> QED BY <1>1, <2>1, IdleIs DEF PassTrue
<1>6. PassesTrue'
  BY <1>1, <1>5, PassesKeep
<1> QED BY <1>2, <1>3, <1>4, <1>6

LEMMA DoneKeeps == ASSUME SamInv, NEW e \in Sam!Actor, Sam!Done(e) PROVE SamInv'
<1> USE DEF SamInv
<1>1. /\ editor[e].pc = "spawn" /\ Sam!Unserved(e) = {} /\ guard' = (IF guard = e THEN "none" ELSE guard)
      /\ settled' = editor[e].read /\ editor' = [editor EXCEPT ![e] = Sam!Idle]
      /\ UNCHANGED <<want, edited, tasks, sups, hung>>
  BY DEF Sam!Done
<1>2. guard' = "none" /\ SpawnTrue(editor[e]) /\ editor[e].read <= edited /\ editor[e].read \in Int
  BY <1>1 DEF OnePass, Passing, PassesTrue, PassTrue, SamTypeOK, PassRec
<1>3. SettledTrue'
  <2>1. editor[e].read = edited => \A s \in sups : s.stop \/ (s.grant = Sam!Share(want, s.cam) /\ s.grant # Sam!None)
    BY <1>2 DEF SpawnTrue
  <2>2. ASSUME editor[e].read = edited, NEW c \in Sam!Camera, Sam!Share(want, c) # Sam!None
        PROVE \E s \in sups : ~ s.stop /\ s.cam = c
    <3>1. editor[e].rows = want /\ \A d \in editor[e].ids : \E s \in sups : ~ s.stop /\ s.cam = d
      BY <1>2, <2>2 DEF SpawnTrue
    <3>2. c \in editor[e].ids
      BY <1>1, <2>2, <3>1 DEF Sam!Unserved
    <3> QED BY <3>1, <3>2
  <2> QED BY <1>1, <1>2, <2>1, <2>2 DEF SettledTrue
<1>4. hung' \in BOOLEAN /\ hung' = (hung \/ editor[e].pc = "await")
  BY <1>1 DEF SamTypeOK
<1> HIDE DEF SamInv
<1> QED BY <1>1, <1>2, <1>3, <1>4, OverKeeps

LEMMA HangUpKeeps == ASSUME SamInv, NEW e \in SamEditor, Sam!HangUp(e) PROVE SamInv'
<1> USE DEF SamInv
<1>1. /\ guard' = (IF guard = e THEN "none" ELSE guard) /\ editor' = [editor EXCEPT ![e] = Sam!Idle]
      /\ hung' = (hung \/ editor[e].pc = "await") /\ UNCHANGED <<want, edited, tasks, sups, settled>> /\ e \in Sam!Actor
  BY SamActors DEF Sam!HangUp
<1>2. SettledTrue'
  <2>1. guard' # "none" => guard # "none"
    BY <1>1
  <2> QED BY <1>1, <2>1 DEF SettledTrue
<1>3. hung' \in BOOLEAN /\ settled' \in Int
  BY <1>1 DEF SamTypeOK
<1> HIDE DEF SamInv
<1> QED BY <1>1, <1>2, <1>3, OverKeeps

LEMMA ShutdownKeeps == ASSUME SamInv, Sam!shutdown PROVE SamInv'
<1> USE DEF SamInv
<1> DEFINE e == Sam!Stop
<1>1. UNCHANGED <<want, edited, tasks, sups, settled, hung>> /\ e \in Sam!Actor
  BY SamActors DEF Sam!shutdown
<1>2. PICK pc \in {"lock", "done"} :
        /\ Sam!Step(e, pc) /\ editor[e].pc \in {"run", "stop"}
        /\ \/ guard' = guard /\ editor[e].pc = "run"
           \/ guard' = "none" /\ editor[e].pc = "stop"
  BY DEF Sam!shutdown
<1>3. /\ editor' \in [Sam!Actor -> PassRec] /\ \A a \in Sam!Actor \ {e} : editor'[a] = editor[a]
      /\ editor'[e].pc = pc /\ editor'[e].read = editor[e].read
  BY <1>1, <1>2, PassGoes
<1> HIDE DEF e
<1>4. SamTypeOK' /\ Numbered' /\ Tabled' /\ SettledTrue'
  BY <1>1, <1>2, <1>3 DEF SamTypeOK, Numbered, Tabled, SettledTrue
<1>5. OnePass'
  <2>1. editor[e].pc = "stop" => guard = e
    BY <1>1 DEF OnePass, Passing
  <2>2. editor'[e].pc \notin Passing
    BY <1>3 DEF Passing
  <2> QED BY <1>1, <1>2, <1>3, <2>1, <2>2 DEF OnePass
<1>6. StoppedAwaited'
  BY <1>1, <1>2, <1>3, ZenonT(60) DEF StoppedAwaited
<1>7. PassTrue(editor[e])'
  <2>1. PassTrue(editor[e])
    BY <1>1 DEF PassesTrue
  <2> QED BY <1>1, <1>2, <1>3, <2>1 DEF PassTrue
<1>8. PassesTrue'
  BY <1>1, <1>3, <1>7, PassesKeep
<1> QED BY <1>4, <1>5, <1>6, <1>8

LEMMA SamStep == SamInv /\ [Sam!SamNext]_(Sam!samVars) => SamInv'
<1> SUFFICES ASSUME SamInv, [Sam!SamNext]_(Sam!samVars) PROVE SamInv'
  OBVIOUS
<1>1. CASE Sam!SamNext
  <2>1. \/ \E e \in SamEditor : Sam!Change(e) \/ Sam!HangUp(e)
        \/ \E e \in Sam!Actor : \/ Sam!rebalance(e) \/ Sam!stop(e) \/ Sam!Await(e) \/ Sam!ReadRows(e) \/ Sam!spawn(e)
                                \/ Sam!Done(e)
        \/ Sam!shutdown
        \/ \E s \in sups : Sam!supervise(s) \/ Sam!Offline(s) \/ Sam!sleep_or_stop(s) \/ Sam!Ends(s)
    BY <1>1, SMTT(60) DEF Sam!SamNext
  <2> QED BY <2>1, ChangeKeeps, HangUpKeeps, RebalanceKeeps, StopTaskKeeps, AwaitEndKeeps, ReadRowsKeeps, SpawnKeeps,
             DoneKeeps, ShutdownKeeps, SupervisorKeeps
<1>2. CASE UNCHANGED Sam!samVars
  <2>1. UNCHANGED <<want, edited, editor, guard, tasks, sups, settled, hung>>
    BY <1>2 DEF Sam!samVars
  <2>2. SamTypeOK' /\ Numbered' /\ Tabled' /\ OnePass'
    BY <2>1 DEF SamInv, SamTypeOK, Numbered, Tabled, OnePass
  <2>3. StoppedAwaited' /\ SettledTrue'
    BY <2>1 DEF SamInv, StoppedAwaited, SettledTrue
  <2>4. PassesTrue'
    BY <2>1 DEF SamInv, PassesTrue, PassTrue, SpawnTrue
  <2> QED BY <2>2, <2>3, <2>4 DEF SamInv
<1> QED BY <1>1, <1>2

-----------------------------------------------------------------------------
(* Server: the life of the process.                                        *)

LEMMA Starts == Proc \subseteq Nat /\ 0 \notin Proc
BY FootageAssumption

Manager == {"recorder", "live", "mirror", "sampler"}
Stage == {"off", "config", "prepared", "cleared", "counted", "composed", "started", "spawned", "serving",
          "drain", "gone"} \cup Manager

LfTypeOK ==
  /\ proc \in [Proc -> [pc : Stage, seen : Nat]] /\ users \in Nat
  /\ ffmpegs \in [Proc -> SUBSET Manager] /\ late \in [Proc -> SUBSET Manager]
  /\ loop \in [Proc -> {"none", "up", "down"}]
  /\ port \in Proc \cup {0} /\ cut \subseteq Proc

(* A start comes after the end of the one before. *)
OneAtATime == \A p, q \in Proc : q < p /\ proc[p].pc # "off" => proc[q].pc = "gone"

(* Exports are run by the process that listens, and what listens has cleared the locks it found. *)
Unready == {"off", "config", "prepared", "gone"}
LocksTrue ==
  /\ port \in Proc => proc[port].pc \notin Unready
  /\ \A j \in jobs : port \in Proc /\ j.proc = port
  /\ \A p \in Proc : proc[p].pc \notin Unready => locks \subseteq jobs

LoopsTrue == \A p \in Proc : loop[p] # "none" => Srv!Spawned(looked)

(* What has been stopped by then, in the order of the stop. *)
StoppedAt(pc) ==
  CASE pc = "live" -> {"recorder"}
    [] pc = "mirror" -> {"recorder", "live"}
    [] pc = "sampler" -> {"recorder", "live", "mirror"}
    [] pc = "drain" -> Manager
    [] OTHER -> {}

StopsTrue ==
  \A p \in Proc : /\ ffmpegs[p] \cap StoppedAt(proc[p].pc) \subseteq late[p]
                  /\ ffmpegs[p] \subseteq Srv!Managers

LfInv == LfTypeOK /\ OneAtATime /\ LocksTrue /\ LoopsTrue /\ StopsTrue /\ Srv!NoChurn /\ Srv!NothingCut

LEMMA LfInvInit == Srv!LfInit => LfInv
<1> SUFFICES ASSUME Srv!LfInit PROVE LfInv
  OBVIOUS
<1>1. /\ proc = [p \in Proc |-> [pc |-> "off", seen |-> 0]] /\ users = 0 /\ locks = {} /\ jobs = {}
      /\ ffmpegs = [p \in Proc |-> {}] /\ late = [p \in Proc |-> {}] /\ loop = [p \in Proc |-> "none"]
      /\ churn = {} /\ cut = {} /\ port = 0
  BY DEF Srv!LfInit, Srv!Off
<1>2. LfTypeOK
  BY <1>1 DEF LfTypeOK, Stage
<1>3. OneAtATime /\ LocksTrue /\ LoopsTrue
  BY <1>1, Starts DEF OneAtATime, LocksTrue, LoopsTrue, Unready
<1>4. StopsTrue /\ Srv!NoChurn /\ Srv!NothingCut
  BY <1>1 DEF StopsTrue, Srv!NoChurn, Srv!NothingCut
<1> QED BY <1>2, <1>3, <1>4 DEF LfInv

LEMMA ProcessEnds == LfInv => Srv!LocksLive /\ Srv!NoChurn /\ Srv!NothingCut
BY DEF LfInv, LocksTrue, Srv!LocksLive

(* A stage follows another: the process is alive before and after. *)
LEMMA GoesFacts ==
  ASSUME LfTypeOK, NEW p \in Proc, NEW from, NEW to, Srv!Goes(p, from, to)
  PROVE  /\ proc[p].pc = from /\ proc'[p].pc = to /\ proc'[p].seen = proc[p].seen
         /\ \A q \in Proc \ {p} : proc'[q] = proc[q]
         /\ to \in Stage => proc' \in [Proc -> [pc : Stage, seen : Nat]]
BY DEF Srv!Goes, LfTypeOK

(* The steps of one start, that do not end it: what they leave alone, and when they may be taken. *)
LEMMA StageKeeps ==
  ASSUME LfInv, NEW p \in Proc, LfTypeOK',
         \A q \in Proc \ {p} : proc'[q] = proc[q],
         proc[p].pc # "gone", proc'[p].pc \notin {"off", "gone"},
         proc[p].pc = "off" => \A q \in Proc : q < p => proc[q].pc = "gone",
         proc[p].pc \in Unready => proc'[p].pc \in Unready \/ locks' = {},
         proc[p].pc \notin Unready => proc'[p].pc \notin Unready,
         UNCHANGED <<features, looked, jobs, late, churn, cut>>,
         locks' \in {locks, {}}, port' \in {port, p}, port' = p /\ port # p => port = 0 /\ proc'[p].pc \notin Unready,
         \A q \in Proc : loop'[q] # "none" => loop[q] # "none" \/ Srv!Spawned(looked),
         \A q \in Proc \ {p} : ffmpegs'[q] = ffmpegs[q],
         ffmpegs'[p] \cap StoppedAt(proc'[p].pc) \subseteq late[p], ffmpegs'[p] \subseteq Srv!Managers
  PROVE  LfInv'
<1>1. OneAtATime'
  <2> SUFFICES ASSUME NEW a \in Proc, NEW b \in Proc, b < a, proc'[a].pc # "off" PROVE proc'[b].pc = "gone"
    BY DEF OneAtATime
  <2>1. b # p
    <3> SUFFICES ASSUME b = p PROVE FALSE
      OBVIOUS
    <3>1. a # p /\ proc[a].pc # "off"
      BY Starts
    <3> QED BY <3>1 DEF LfInv, OneAtATime
  <2>2. CASE a = p
    BY <2>1, <2>2 DEF LfInv, OneAtATime
  <2>3. CASE a # p
    BY <2>1, <2>3 DEF LfInv, OneAtATime
  <2> QED BY <2>2, <2>3
<1>2. LocksTrue'
  <2>1. port' \in Proc => proc'[port'].pc \notin Unready
    <3>1. CASE port' = p /\ port # p
      BY <3>1
    <3>2. CASE port' = p /\ port = p
      BY <3>2 DEF LfInv, LocksTrue
    <3>3. CASE port' # p
      BY <3>3 DEF LfInv, LocksTrue
    <3> QED BY <3>1, <3>2, <3>3
  <2>2. \A j \in jobs' : port' \in Proc /\ j.proc = port'
    <3>1. CASE port' = port
      BY <3>1 DEF LfInv, LocksTrue
    <3>2. CASE port' # port
      <4>1. jobs = {}
        BY <3>2, Starts DEF LfInv, LocksTrue
      <4> QED BY <4>1
    <3> QED BY <3>1, <3>2
  <2>3. ASSUME NEW q \in Proc, proc'[q].pc \notin Unready PROVE locks' \subseteq jobs'
    <3>1. CASE q # p \/ proc[p].pc \notin Unready
      <4>1. proc[q].pc \notin Unready
        BY <2>3, <3>1
      <4>2. locks \subseteq jobs
        BY <4>1 DEF LfInv, LocksTrue
      <4> QED BY <4>2
    <3>2. CASE q = p /\ proc[p].pc \in Unready
      BY <2>3, <3>2
    <3> QED BY <3>1, <3>2
  <2> QED BY <2>1, <2>2, <2>3 DEF LocksTrue
<1>3. LoopsTrue'
  BY DEF LfInv, LoopsTrue, Srv!Spawned
<1>4. StopsTrue'
  <2> SUFFICES ASSUME NEW q \in Proc
               PROVE  /\ ffmpegs'[q] \cap StoppedAt(proc'[q].pc) \subseteq late'[q]
                      /\ ffmpegs'[q] \subseteq Srv!Managers'
    BY DEF StopsTrue
  <2>1. Srv!Managers' = Srv!Managers
    BY DEF Srv!Managers
  <2>2. CASE q = p
    BY <2>1, <2>2
  <2>3. CASE q # p
    BY <2>1, <2>3 DEF LfInv, StopsTrue
  <2> QED BY <2>2, <2>3
<1>5. Srv!NoChurn' /\ Srv!NothingCut'
  BY DEF LfInv, Srv!NoChurn, Srv!NothingCut
<1> QED BY <1>1, <1>2, <1>3, <1>4, <1>5 DEF LfInv

(* The boot. *)
LEMMA BootKeeps ==
  ASSUME LfInv, Overlap = FALSE, NEW p \in Proc,
         \/ Srv!Start(p) \/ Srv!Prepare(p) \/ Srv!clear_segment_read_locks(p) \/ Srv!CountUsers(p)
         \/ Srv!ensure_bootstrap(p) \/ Srv!start_all(p) \/ Srv!spawn_loops(p) \/ Srv!Bind(p)
  PROVE  LfInv'
<1> USE DEF LfInv
<1>a. proc[p].pc # "gone" /\ proc[p].pc \in Stage /\ LfTypeOK
  <2>1. proc[p].pc # "gone"
    BY DEF Srv!Start, Srv!Prepare, Srv!clear_segment_read_locks, Srv!CountUsers, Srv!ensure_bootstrap,
           Srv!start_all, Srv!spawn_loops, Srv!Bind, Srv!Goes
  <2> QED BY <2>1, SMTT(60) DEF LfTypeOK
<1>b. /\ ffmpegs[p] \cap StoppedAt(proc[p].pc) \subseteq late[p] /\ ffmpegs[p] \subseteq Srv!Managers
  BY DEF StopsTrue
<1>c. \A to \in {"config", "prepared", "cleared", "counted", "composed", "started", "spawned", "serving"} :
        StoppedAt(to) = {}
  BY DEF StoppedAt
<1>1. CASE Srv!Start(p)
  <2>1. Srv!Goes(p, "off", "config") /\ UNCHANGED <<features, looked, users, locks, jobs, ffmpegs, late, loop, churn, cut, port>>
    BY <1>1, SMTT(60) DEF Srv!Start, Srv!Rest, Srv!Work
  <2>2. \A q \in Proc : q < p => proc[q].pc = "gone"
    BY <1>1 DEF Srv!Start
  <2>3. LfTypeOK'
    BY <2>1, <1>a, GoesFacts DEF LfTypeOK, Stage
  <2>4. proc[p].pc = "off" /\ proc'[p].pc = "config" /\ \A q \in Proc \ {p} : proc'[q] = proc[q]
    BY <2>1, <1>a, GoesFacts
  <2> QED BY <2>1, <2>2, <2>3, <2>4, <1>a, <1>b, <1>c, StageKeeps DEF Unready
<1>2. CASE Srv!Prepare(p)
  <2>1. Srv!Goes(p, "config", "prepared") /\ UNCHANGED <<features, looked, users, locks, jobs, ffmpegs, late, loop, churn, cut, port>>
    BY <1>2, SMTT(60) DEF Srv!Prepare, Srv!Rest, Srv!Work
  <2>3. LfTypeOK'
    BY <2>1, <1>a, GoesFacts DEF LfTypeOK, Stage
  <2>4. proc[p].pc = "config" /\ proc'[p].pc = "prepared" /\ \A q \in Proc \ {p} : proc'[q] = proc[q]
    BY <2>1, <1>a, GoesFacts
  <2> QED BY <2>1, <2>3, <2>4, <1>a, <1>b, <1>c, StageKeeps DEF Unready
<1>3. CASE Srv!clear_segment_read_locks(p)
  <2>1. /\ Srv!Goes(p, "prepared", "cleared") /\ locks' = {}
        /\ UNCHANGED <<features, looked, users, jobs, ffmpegs, late, loop, churn, cut, port>>
    BY <1>3, SMTT(60) DEF Srv!clear_segment_read_locks, Srv!Rest, Srv!Cleared
  <2>3. LfTypeOK'
    BY <2>1, <1>a, GoesFacts DEF LfTypeOK, Stage
  <2>4. proc[p].pc = "prepared" /\ proc'[p].pc = "cleared" /\ \A q \in Proc \ {p} : proc'[q] = proc[q]
    BY <2>1, <1>a, GoesFacts
  <2> QED BY <2>1, <2>3, <2>4, <1>a, <1>b, <1>c, StageKeeps DEF Unready
<1>4. CASE Srv!CountUsers(p)
  <2>1. /\ proc[p].pc = "cleared" /\ proc' = [proc EXCEPT ![p] = [pc |-> "counted", seen |-> users]]
        /\ UNCHANGED <<features, looked, users, locks, jobs, ffmpegs, late, loop, churn, cut, port>>
    BY <1>4, SMTT(60) DEF Srv!CountUsers, Srv!Rest, Srv!Work
  <2>2. [pc |-> "counted", seen |-> users] \in [pc : Stage, seen : Nat]
    BY <1>a DEF LfTypeOK, Stage
  <2>3. LfTypeOK'
    BY <2>1, <2>2, <1>a DEF LfTypeOK
  <2>4. proc'[p].pc = "counted" /\ \A q \in Proc \ {p} : proc'[q] = proc[q]
    BY <2>1, <1>a DEF LfTypeOK
  <2> QED BY <2>1, <2>3, <2>4, <1>a, <1>b, <1>c, StageKeeps DEF Unready
<1>5. CASE Srv!ensure_bootstrap(p)
  <2>1. /\ Srv!Goes(p, "counted", "composed") /\ users' \in {1, users}
        /\ UNCHANGED <<features, looked, locks, jobs, ffmpegs, late, loop, churn, cut, port>>
    BY <1>5, SMTT(60) DEF Srv!ensure_bootstrap, Srv!Rest, Srv!Work
  <2>3. LfTypeOK'
    BY <2>1, <1>a, GoesFacts DEF LfTypeOK, Stage
  <2>4. proc[p].pc = "counted" /\ proc'[p].pc = "composed" /\ \A q \in Proc \ {p} : proc'[q] = proc[q]
    BY <2>1, <1>a, GoesFacts
  <2> QED BY <2>1, <2>3, <2>4, <1>a, <1>b, <1>c, StageKeeps DEF Unready
<1>6. CASE Srv!start_all(p)
  <2>1. /\ Srv!Goes(p, "composed", "started") /\ ffmpegs' = [ffmpegs EXCEPT ![p] = Srv!Managers]
        /\ UNCHANGED <<features, looked, users, locks, jobs, late, loop, churn, cut, port>>
    BY <1>6 DEF Srv!start_all, Srv!Rest
  <2>2. Srv!Managers \subseteq Manager
    BY DEF Srv!Managers, Manager
  <2>3. LfTypeOK'
    BY <2>1, <2>2, <1>a, GoesFacts DEF LfTypeOK, Stage
  <2>4. proc[p].pc = "composed" /\ proc'[p].pc = "started" /\ \A q \in Proc \ {p} : proc'[q] = proc[q]
    BY <2>1, <1>a, GoesFacts
  <2>5. ffmpegs'[p] = Srv!Managers /\ \A q \in Proc \ {p} : ffmpegs'[q] = ffmpegs[q]
    BY <2>1, <1>a DEF LfTypeOK
  <2> QED BY <2>1, <2>3, <2>4, <2>5, <1>a, <1>c, StageKeeps DEF Unready
<1>7. CASE Srv!spawn_loops(p)
  <2>1. /\ Srv!Goes(p, "started", "spawned") /\ loop' = [loop EXCEPT ![p] = IF Srv!Spawned(looked) THEN "up" ELSE "none"]
        /\ UNCHANGED <<features, looked, users, locks, jobs, ffmpegs, late, churn, cut, port>>
    BY <1>7, SMTT(60) DEF Srv!spawn_loops, Srv!Rest
  <2>3. LfTypeOK'
    BY <2>1, <1>a, GoesFacts DEF LfTypeOK, Stage
  <2>4. proc[p].pc = "started" /\ proc'[p].pc = "spawned" /\ \A q \in Proc \ {p} : proc'[q] = proc[q]
    BY <2>1, <1>a, GoesFacts
  <2>5. \A q \in Proc : loop'[q] # "none" => loop[q] # "none" \/ Srv!Spawned(looked)
    BY <2>1, <1>a DEF LfTypeOK
  <2> QED BY <2>1, <2>3, <2>4, <2>5, <1>a, <1>b, <1>c, StageKeeps DEF Unready
<1>8. CASE Srv!Bind(p)
  <2>1. /\ Srv!Goes(p, "spawned", "serving") /\ port = 0 /\ port' = p
        /\ UNCHANGED <<features, looked, users, locks, jobs, ffmpegs, late, loop, churn, cut>>
    BY <1>8, SMTT(60) DEF Srv!Bind, Srv!Rest, Srv!Work
  <2>3. LfTypeOK'
    BY <2>1, <1>a, GoesFacts DEF LfTypeOK, Stage
  <2>4. proc[p].pc = "spawned" /\ proc'[p].pc = "serving" /\ \A q \in Proc \ {p} : proc'[q] = proc[q]
    BY <2>1, <1>a, GoesFacts
  <2> QED BY <2>1, <2>3, <2>4, <1>a, <1>b, <1>c, StageKeeps DEF Unready
<1> QED BY <1>1, <1>2, <1>3, <1>4, <1>5, <1>6, <1>7, <1>8

(* The end of a process, orderly or not. *)
LEMMA ProcessGoneKeeps ==
  ASSUME LfInv, NEW p \in Proc, NEW finished \in BOOLEAN, proc[p].pc \notin {"off", "gone"},
         finished => proc[p].pc = "drain", Srv!Ends(p, finished)
  PROVE  LfInv'
<1> USE DEF LfInv
<1>1. /\ proc' = [proc EXCEPT ![p] = [@ EXCEPT !.pc = "gone"]] /\ jobs' = {j \in jobs : j.proc # p}
      /\ loop' = [loop EXCEPT ![p] = "none"] /\ ffmpegs' = [ffmpegs EXCEPT ![p] = {}]
      /\ cut' = (IF finished /\ ffmpegs[p] # {} THEN cut \cup {p} ELSE cut)
      /\ port' = (IF port = p THEN 0 ELSE port) /\ UNCHANGED <<features, looked, users, locks, late, churn>>
  BY DEF Srv!Ends, Srv!Rest
<1>2. LfTypeOK'
  <2>1. [proc[p] EXCEPT !.pc = "gone"] \in [pc : Stage, seen : Nat]
    BY DEF LfTypeOK, Stage
  <2> QED BY <1>1, <2>1 DEF LfTypeOK
<1>3. proc'[p].pc = "gone" /\ \A q \in Proc \ {p} : proc'[q] = proc[q]
  BY <1>1 DEF LfTypeOK
<1>4. OneAtATime'
  BY <1>3 DEF OneAtATime
<1>5. LocksTrue'
  <2>1. CASE proc[p].pc \in Unready
    <3>1. port # p
      BY <2>1 DEF LocksTrue
    <3>2. jobs' = jobs /\ port' = port
      BY <1>1, <3>1 DEF LocksTrue
    <3>3. \A q \in Proc : proc'[q].pc \notin Unready => proc[q].pc \notin Unready
      BY <1>3 DEF Unready
    <3>4. port' \in Proc => proc'[port'].pc \notin Unready
      BY <3>1, <3>2, <1>3 DEF LocksTrue
    <3> QED BY <1>1, <3>2, <3>3, <3>4 DEF LocksTrue
  <2>2. CASE proc[p].pc \notin Unready
    <3>1. ASSUME NEW q \in Proc, proc'[q].pc \notin Unready PROVE FALSE
      <4>1. q # p /\ proc[q].pc \notin Unready
        BY <3>1, <1>3 DEF Unready
      <4>2. q < p \/ p < q
        BY <4>1, Starts
      <4> QED BY <4>1, <4>2, <2>2 DEF OneAtATime, Unready
    <3>2. port \in Proc => port = p
      <4> SUFFICES ASSUME port \in Proc, port # p PROVE FALSE
        OBVIOUS
      <4>1. proc[port].pc \notin Unready
        BY DEF LocksTrue
      <4>2. proc'[port].pc \notin Unready
        BY <4>1, <1>3
      <4> QED BY <4>2, <3>1
    <3>3. port' = 0
      BY <3>2, <1>1 DEF LfTypeOK
    <3>4. jobs' = {}
      BY <3>2, <1>1 DEF LocksTrue
    <3> QED BY <3>1, <3>3, <3>4, Starts DEF LocksTrue
  <2> QED BY <2>1, <2>2
<1>6. LoopsTrue'
  BY <1>1 DEF LoopsTrue, LfTypeOK, Srv!Spawned
<1>7. StopsTrue'
  <2> SUFFICES ASSUME NEW q \in Proc
               PROVE  /\ ffmpegs'[q] \cap StoppedAt(proc'[q].pc) \subseteq late'[q]
                      /\ ffmpegs'[q] \subseteq Srv!Managers'
    BY DEF StopsTrue
  <2>1. Srv!Managers' = Srv!Managers
    BY <1>1 DEF Srv!Managers
  <2>2. CASE q = p
    BY <1>1, <2>2 DEF LfTypeOK
  <2>3. CASE q # p
    BY <1>1, <1>3, <2>1, <2>3 DEF LfTypeOK, StopsTrue
  <2> QED BY <2>2, <2>3
<1>8. Srv!NoChurn' /\ Srv!NothingCut'
  <2>1. finished => ffmpegs[p] \subseteq late[p]
    <3> SUFFICES ASSUME finished PROVE ffmpegs[p] \subseteq late[p]
      OBVIOUS
    <3>1. StoppedAt(proc[p].pc) = Manager
      BY DEF StoppedAt
    <3>2. ffmpegs[p] \subseteq Manager
      BY DEF LfTypeOK
    <3> QED BY <3>1, <3>2 DEF StopsTrue
  <2> QED BY <1>1, <2>1 DEF Srv!NoChurn, Srv!NothingCut
<1> QED BY <1>2, <1>4, <1>5, <1>6, <1>7, <1>8

(* Serving. *)
LEMMA LfLoopKeeps ==
  ASSUME LfInv, NEW p \in Proc, Srv!spawn_supervised(p)
  PROVE  LfInv'
<1> USE DEF LfInv
<1>1. UNCHANGED <<features, looked, proc, users, locks, jobs, ffmpegs, late, cut, port>> /\ loop[p] # "none"
  BY DEF Srv!spawn_supervised, Srv!Rest
<1>2. Srv!Spawned(looked)
  BY <1>1 DEF LoopsTrue
<1>3. UNCHANGED churn /\ loop' \in [Proc -> {"none", "up", "down"}]
      /\ \A q \in Proc \ {p} : loop'[q] = loop[q]
  <2>1. ~ (looked \in DOMAIN Srv!Returning /\ Srv!Returning[looked] \notin features)
    BY <1>2 DEF Srv!Spawned, Srv!Returning, Srv!Guard
  <2>2. UNCHANGED churn /\ \E v \in {"up", "down"} : loop' = [loop EXCEPT ![p] = v]
    BY <2>1 DEF Srv!spawn_supervised
  <2> QED BY <2>2 DEF LfTypeOK
<1>4. LfTypeOK' /\ OneAtATime' /\ LocksTrue'
  BY <1>1, <1>3 DEF LfTypeOK, OneAtATime, LocksTrue
<1>5. LoopsTrue'
  BY <1>1, <1>2, <1>3 DEF LoopsTrue, Srv!Spawned
<1>6. StopsTrue' /\ Srv!NoChurn' /\ Srv!NothingCut'
  BY <1>1, <1>3 DEF StopsTrue, Srv!Managers, Srv!NoChurn, Srv!NothingCut
<1> QED BY <1>4, <1>5, <1>6

LEMMA ExportKeeps ==
  ASSUME LfInv, NEW p \in Proc, Srv!Export(p)
  PROVE  LfInv'
<1> USE DEF LfInv
<1>1. UNCHANGED <<features, looked, proc, users, ffmpegs, late, loop, churn, cut, port>> /\ port = p
  BY DEF Srv!Export, Srv!Rest
<1>2. PICK s \in LfSegment :
        LET j == [proc |-> p, seg |-> s]
        IN \/ jobs' = jobs \cup {j} /\ locks' = locks \cup {j}
           \/ jobs' = jobs \ {j} /\ locks' = locks \ {j}
  BY DEF Srv!Export
<1>3. LocksTrue'
  BY <1>1, <1>2 DEF LocksTrue
<1>4. LfTypeOK' /\ OneAtATime' /\ LoopsTrue'
  BY <1>1 DEF LfTypeOK, OneAtATime, LoopsTrue, Srv!Spawned
<1>5. StopsTrue' /\ Srv!NoChurn' /\ Srv!NothingCut'
  BY <1>1 DEF StopsTrue, Srv!Managers, Srv!NoChurn, Srv!NothingCut
<1> QED BY <1>3, <1>4, <1>5

LEMMA RequestKeeps ==
  ASSUME LfInv, NEW p \in Proc, Srv!Request(p)
  PROVE  LfInv'
<1> USE DEF LfInv
<1>1. UNCHANGED <<features, looked, proc, users, locks, jobs, loop, churn, cut, port>>
  BY DEF Srv!Request, Srv!Rest
<1>2. PICK m \in Srv!Managers : ffmpegs' = [ffmpegs EXCEPT ![p] = @ \cup {m}] /\ late' = [late EXCEPT ![p] = @ \cup {m}]
  BY DEF Srv!Request
<1>3. m \in Manager
  BY DEF Srv!Managers, Manager
<1>4. LfTypeOK'
  BY <1>1, <1>2, <1>3 DEF LfTypeOK
<1>5. OneAtATime' /\ LocksTrue' /\ LoopsTrue'
  BY <1>1 DEF OneAtATime, LocksTrue, LoopsTrue, Srv!Spawned
<1>6. /\ ffmpegs'[p] = ffmpegs[p] \cup {m} /\ late'[p] = late[p] \cup {m}
      /\ \A q \in Proc \ {p} : ffmpegs'[q] = ffmpegs[q] /\ late'[q] = late[q]
  BY <1>2 DEF LfTypeOK
<1>7. StopsTrue'
  <2> SUFFICES ASSUME NEW q \in Proc
               PROVE  /\ ffmpegs'[q] \cap StoppedAt(proc[q].pc) \subseteq late'[q]
                      /\ ffmpegs'[q] \subseteq Srv!Managers
    BY <1>1 DEF StopsTrue, Srv!Managers
  <2> QED BY <1>6 DEF StopsTrue
<1>8. Srv!NoChurn' /\ Srv!NothingCut'
  <2>1. \A q \in Proc : late[q] # {} => late'[q] # {}
    BY <1>6
  <2>2. cut \subseteq Proc
    BY DEF LfTypeOK
  <2> QED BY <1>1, <2>1, <2>2 DEF Srv!NoChurn, Srv!NothingCut
<1> QED BY <1>4, <1>5, <1>7, <1>8

(* The stop: a manager after another, in the order they are stopped. *)
LEMMA StopOrder ==
  /\ Srv!Stops[1] = "recorder" /\ DOMAIN Srv!Stops \in {1 .. 3, 1 .. 4}
  /\ \A i \in DOMAIN Srv!Stops :
       LET m == Srv!Stops[i]
           n == Srv!NextStop(m)
       IN /\ m \in Manager /\ n \in {"live", "mirror", "sampler", "drain"}
          /\ StoppedAt(n) \cap Srv!Managers \subseteq StoppedAt(m) \cup {m}
<1>1. CASE "mirror" \in features
  <2>1. Srv!Stops = <<"recorder", "live", "mirror", "sampler">>
    BY <1>1 DEF Srv!Stops
  <2>2. /\ Srv!NextStop("recorder") = "live" /\ Srv!NextStop("live") = "mirror"
        /\ Srv!NextStop("mirror") = "sampler" /\ Srv!NextStop("sampler") = "drain"
    BY <2>1 DEF Srv!NextStop
  <2> QED BY <2>1, <2>2 DEF Manager, StoppedAt, Srv!Managers
<1>2. CASE "mirror" \notin features
  <2>1. Srv!Stops = <<"recorder", "live", "sampler">>
    BY <1>2 DEF Srv!Stops
  <2>2. /\ Srv!NextStop("recorder") = "live" /\ Srv!NextStop("live") = "sampler" /\ Srv!NextStop("sampler") = "drain"
    BY <2>1 DEF Srv!NextStop
  <2>3. Srv!Managers = {"recorder", "live", "sampler"}
    BY <1>2 DEF Srv!Managers
  <2> QED BY <2>1, <2>2, <2>3 DEF Manager, StoppedAt
<1> QED BY <1>1, <1>2

LEMMA StopKeeps ==
  ASSUME LfInv, NEW p \in Proc, Srv!shutdown_signal(p)
  PROVE  LfInv'
<1> USE DEF LfInv
<1>a. UNCHANGED <<features, looked, users, locks, jobs, late, loop, churn, cut, port>> /\ LfTypeOK
  BY DEF Srv!shutdown_signal, Srv!Rest
<1>b. /\ ffmpegs[p] \cap StoppedAt(proc[p].pc) \subseteq late[p] /\ ffmpegs[p] \subseteq Srv!Managers
  BY DEF StopsTrue
<1>1. CASE Srv!Goes(p, "serving", Srv!Stops[1]) /\ UNCHANGED ffmpegs
  <2>1. Srv!Goes(p, "serving", "recorder")
    BY <1>1, StopOrder
  <2>2. LfTypeOK'
    BY <2>1, <1>1, <1>a, GoesFacts DEF LfTypeOK, Stage, Manager
  <2>3. proc[p].pc = "serving" /\ proc'[p].pc = "recorder" /\ \A q \in Proc \ {p} : proc'[q] = proc[q]
    BY <2>1, <1>a, GoesFacts
  <2>4. StoppedAt("recorder") = {}
    BY DEF StoppedAt
  <2> QED BY <1>1, <1>a, <1>b, <2>2, <2>3, <2>4, StageKeeps DEF Unready
<1>2. CASE \E i \in DOMAIN Srv!Stops :
             /\ Srv!Goes(p, Srv!Stops[i], Srv!NextStop(Srv!Stops[i]))
             /\ ffmpegs' = [ffmpegs EXCEPT ![p] = @ \ {Srv!Stops[i]}]
  <2> PICK i \in DOMAIN Srv!Stops :
        /\ Srv!Goes(p, Srv!Stops[i], Srv!NextStop(Srv!Stops[i]))
        /\ ffmpegs' = [ffmpegs EXCEPT ![p] = @ \ {Srv!Stops[i]}]
    BY <1>2, ZenonT(60)
  <2> DEFINE m == Srv!Stops[i]
             n == Srv!NextStop(m)
  <2>1. /\ Srv!Goes(p, m, n) /\ ffmpegs' = [ffmpegs EXCEPT ![p] = @ \ {m}]
        /\ StoppedAt(n) \cap Srv!Managers \subseteq StoppedAt(m) \cup {m}
        /\ m \in Manager /\ n \in {"live", "mirror", "sampler", "drain"}
    BY StopOrder
  <2> HIDE DEF m, n
  <2>2. LfTypeOK'
    BY <2>1, <1>a, GoesFacts DEF LfTypeOK, Stage, Manager
  <2>3. proc[p].pc = m /\ proc'[p].pc = n /\ \A q \in Proc \ {p} : proc'[q] = proc[q]
    BY <2>1, <1>a, GoesFacts
  <2>4. ffmpegs'[p] = ffmpegs[p] \ {m} /\ \A q \in Proc \ {p} : ffmpegs'[q] = ffmpegs[q]
    BY <2>1 DEF LfTypeOK
  <2>5. m \notin Unready \cup {"off", "gone"} /\ n \notin Unready \cup {"off", "gone"}
    BY <2>1 DEF Manager, Unready
  <2> QED BY <1>a, <1>b, <2>1, <2>2, <2>3, <2>4, <2>5, StageKeeps
<1> QED BY <1>1, <1>2 DEF Srv!shutdown_signal

LEMMA LfStep == LfInv /\ Overlap = FALSE /\ [Srv!LfNext]_(Srv!lfVars) => LfInv'
<1> SUFFICES ASSUME LfInv, Overlap = FALSE, [Srv!LfNext]_(Srv!lfVars) PROVE LfInv'
  OBVIOUS
<1>1. CASE Srv!LfNext
  <2> PICK p \in Proc :
        \/ Srv!Start(p) \/ Srv!Prepare(p) \/ Srv!clear_segment_read_locks(p) \/ Srv!CountUsers(p) \/ Srv!ensure_bootstrap(p)
        \/ Srv!start_all(p) \/ Srv!spawn_loops(p) \/ Srv!Bind(p) \/ Srv!BootFails(p)
        \/ Srv!spawn_supervised(p) \/ Srv!Export(p) \/ Srv!Request(p) \/ Srv!shutdown_signal(p) \/ Srv!Exit(p) \/ Srv!Crash(p)
    BY <1>1, SMTT(60) DEF Srv!LfNext
  <2>1. CASE Srv!BootFails(p)
    <3>1. proc[p].pc \notin {"off", "gone"} /\ Srv!Ends(p, FALSE)
      BY <2>1 DEF Srv!BootFails
    <3> QED BY <3>1, ProcessGoneKeeps
  <2>2. CASE Srv!Exit(p)
    <3>1. proc[p].pc = "drain" /\ Srv!Ends(p, TRUE)
      BY <2>2 DEF Srv!Exit
    <3> QED BY <3>1, ProcessGoneKeeps
  <2>3. CASE Srv!Crash(p)
    <3>1. proc[p].pc \notin {"off", "gone"} /\ Srv!Ends(p, FALSE)
      BY <2>3 DEF Srv!Crash
    <3> QED BY <3>1, ProcessGoneKeeps
  <2> QED BY <2>1, <2>2, <2>3, BootKeeps, LfLoopKeeps, ExportKeeps, RequestKeeps, StopKeeps
<1>2. CASE UNCHANGED Srv!lfVars
  <2>1. UNCHANGED <<features, looked, proc, users, locks, jobs, ffmpegs, late, loop, churn, cut, port>>
    BY <1>2 DEF Srv!lfVars
  <2>2. LfTypeOK' /\ OneAtATime' /\ LocksTrue' /\ LoopsTrue'
    BY <2>1 DEF LfInv, LfTypeOK, OneAtATime, LocksTrue, LoopsTrue, Srv!Spawned
  <2>3. StopsTrue' /\ Srv!NoChurn' /\ Srv!NothingCut'
    BY <2>1 DEF LfInv, StopsTrue, Srv!Managers, Srv!NoChurn, Srv!NothingCut
  <2> QED BY <2>2, <2>3 DEF LfInv
<1> QED BY <1>1, <1>2

-----------------------------------------------------------------------------
(* Server: the credentials at rest.                                        *)

AnyKey == Key \cup {NoKey}
Text == {<<>>} \cup {<<k>> : k \in Key}

SecTypeOK ==
  /\ seals \in [Srv!Item -> Text] /\ inforce \in AnyKey /\ overlap \in BOOLEAN
  /\ server \in [pc : {"down", "seal", "serve"}, key : AnyKey, at : 1 .. 3]
  /\ patch = Srv!NoPatch \/ patch \in [item : Srv!Item, text : Text]
  /\ rekey = Srv!Resting
     \/ rekey \in [pc : {"reading", "writing"}, old : AnyKey, new : Key, at : 1 .. 4,
                   base : [Srv!Item -> Text], copy : [Srv!Item -> Text]]

(* What is read to be written back is sealed as what is stored. *)
PatchSealed ==
  patch # Srv!NoPatch => /\ server.pc = "serve" /\ (server.key # NoKey => patch.text # <<>>)
                         /\ (~ overlap => Srv!Opens(inforce, patch.text))

(* The rows a boot has passed are sealed. *)
SealedSoFar ==
  server.pc = "seal" /\ server.key # NoKey => \A n \in 1 .. 3 : n < server.at => seals[Srv!Order[n]] # <<>>

(* The rows a rotation has passed are under the new key. *)
RotatedSoFar ==
  rekey.pc # "rest" => \A n \in 1 .. 3 : n < rekey.at => rekey.copy[Srv!Order[n]] = <<rekey.new>>

RunsOnInforce == ~ overlap /\ server.pc # "down" => server.key = inforce

SecInv ==
  /\ SecTypeOK /\ PatchSealed /\ SealedSoFar /\ RotatedSoFar /\ RunsOnInforce
  /\ Srv!OneKeyOpens /\ Srv!SealedWhenServing

LEMMA OrderIs == /\ Len(Srv!Order) = 3 /\ \A n \in 1 .. 3 : Srv!Order[n] \in Srv!Item
                 /\ \A i \in Srv!Item : \E n \in 1 .. 3 : i = Srv!Order[n]
                 /\ \A m, n \in 1 .. 3 : Srv!Order[m] = Srv!Order[n] => m = n
BY DEF Srv!Order, Srv!Item

LEMMA EncryptIs == /\ \A k \in Key : Srv!encrypt(k, <<>>) = <<k>> /\ Srv!Opens(k, <<k>>) /\ <<k>> # <<>> /\ <<k>> \in Text
                   /\ Srv!encrypt(NoKey, <<>>) = <<>> /\ \A k \in AnyKey : Srv!Opens(k, <<>>)
                   /\ \A k \in AnyKey : Srv!encrypt(k, <<>>) \in Text /\ Srv!Opens(k, Srv!encrypt(k, <<>>))
                                        /\ (k # NoKey => Srv!encrypt(k, <<>>) # <<>>)
<1>1. \A k \in Key : Srv!encrypt(k, <<>>) = <<k>> /\ Srv!Opens(k, <<k>>) /\ <<k>> # <<>> /\ <<k>> \in Text
  BY FootageAssumption DEF Srv!encrypt, Srv!Opens, Text
<1>2. Srv!encrypt(NoKey, <<>>) = <<>> /\ \A k \in AnyKey : Srv!Opens(k, <<>>)
  BY DEF Srv!encrypt, Srv!Opens
<1> QED BY <1>1, <1>2 DEF AnyKey, Text

LEMMA NoPatchIs == \A i \in Srv!Item : \A t \in Text : [item |-> i, text |-> t] # Srv!NoPatch
BY DEF Srv!Item, Srv!NoPatch

LEMMA SecInvInit == Srv!SecInit => SecInv
<1> SUFFICES ASSUME Srv!SecInit PROVE SecInv
  OBVIOUS
<1>1. /\ seals \in [Srv!Item -> {<<>>}] /\ inforce = NoKey /\ server = [pc |-> "down", key |-> NoKey, at |-> 1]
      /\ patch = Srv!NoPatch /\ rekey = Srv!Resting /\ overlap = FALSE
  BY DEF Srv!SecInit
<1>2. SecTypeOK
  <2>1. seals \in [Srv!Item -> Text] /\ inforce \in AnyKey /\ NoKey \in AnyKey
    BY <1>1 DEF AnyKey, Text
  <2>2. server \in [pc : {"down", "seal", "serve"}, key : AnyKey, at : 1 .. 3]
    BY <1>1, <2>1
  <2>3. overlap \in BOOLEAN
    BY <1>1
  <2> QED BY <1>1, <2>1, <2>2, <2>3 DEF SecTypeOK
<1>3. PatchSealed /\ SealedSoFar /\ RunsOnInforce /\ Srv!SealedWhenServing
  BY <1>1 DEF PatchSealed, SealedSoFar, RunsOnInforce, Srv!SealedWhenServing
<1>4. RotatedSoFar
  BY <1>1 DEF RotatedSoFar, Srv!Resting
<1>5. Srv!OneKeyOpens
  BY <1>1 DEF Srv!OneKeyOpens, Srv!Opens
<1> QED BY <1>2, <1>3, <1>4, <1>5 DEF SecInv

LEMMA SetKeyKeeps == ASSUME SecInv, Srv!SetKey PROVE SecInv'
<1> USE DEF SecInv
<1>1. /\ server.pc = "down" /\ inforce = NoKey /\ inforce' \in Key
      /\ UNCHANGED <<seals, server, patch, rekey, overlap>>
  BY DEF Srv!SetKey
<1>2. SecTypeOK' /\ SealedSoFar' /\ RotatedSoFar' /\ Srv!SealedWhenServing'
  BY <1>1 DEF SecTypeOK, AnyKey, SealedSoFar, RotatedSoFar, Srv!SealedWhenServing
<1>3. PatchSealed' /\ RunsOnInforce'
  BY <1>1 DEF PatchSealed, RunsOnInforce
<1>4. Srv!OneKeyOpens'
  BY <1>1 DEF Srv!OneKeyOpens, Srv!Opens
<1> QED BY <1>2, <1>3, <1>4

LEMMA InitKeyKeeps == ASSUME SecInv, Srv!init_key PROVE SecInv'
<1> USE DEF SecInv
<1>1. /\ server.pc = "down" /\ server' = [pc |-> "seal", key |-> inforce, at |-> 1]
      /\ UNCHANGED <<seals, inforce, patch, rekey, overlap>>
  BY DEF Srv!init_key
<1>2. SecTypeOK'
  BY <1>1 DEF SecTypeOK
<1>3. SealedSoFar' /\ RotatedSoFar' /\ Srv!SealedWhenServing' /\ PatchSealed' /\ RunsOnInforce'
  BY <1>1 DEF SealedSoFar, RotatedSoFar, Srv!SealedWhenServing, PatchSealed, RunsOnInforce
<1>4. Srv!OneKeyOpens'
  BY <1>1 DEF Srv!OneKeyOpens, Srv!Opens
<1> QED BY <1>2, <1>3, <1>4

(* The server writes one row: what it writes opens under the key in force, and is sealed if it has a key. *)
LEMMA WritesOne ==
  ASSUME SecInv, NEW i \in Srv!Item, NEW t \in Text, seals' = [seals EXCEPT ![i] = t],
         server.pc # "down", server.key # NoKey => t # <<>>, ~ overlap => Srv!Opens(inforce, t),
         UNCHANGED <<inforce, rekey, overlap>>
  PROVE  /\ seals' \in [Srv!Item -> Text] /\ RotatedSoFar' /\ Srv!OneKeyOpens'
         /\ server.key # NoKey => \A j \in Srv!Item : j = i \/ seals[j] # <<>> => seals'[j] # <<>>
<1> USE DEF SecInv
<1>1. seals' \in [Srv!Item -> Text]
  BY DEF SecTypeOK
<1>2. seals'[i] = t /\ \A j \in Srv!Item \ {i} : seals'[j] = seals[j]
  BY DEF SecTypeOK
<1>3. RotatedSoFar'
  BY DEF RotatedSoFar
<1>4. Srv!OneKeyOpens'
  BY <1>2 DEF Srv!OneKeyOpens, Srv!Opens
<1> QED BY <1>1, <1>2, <1>3, <1>4

LEMMA SealKeeps == ASSUME SecInv, Srv!reencrypt PROVE SecInv'
<1> USE DEF SecInv
<1> DEFINE i == Srv!Order[server.at]
           t == IF server.key # NoKey /\ seals[i] = <<>> THEN <<server.key>> ELSE seals[i]
<1>1. server.pc = "seal" /\ UNCHANGED <<inforce, patch, rekey, overlap>> /\ patch = Srv!NoPatch
      /\ server.at \in 1 .. 3 /\ server.key \in AnyKey /\ i \in Srv!Item
  BY OrderIs DEF Srv!reencrypt, SecTypeOK, PatchSealed
<1>2. seals' = [seals EXCEPT ![i] = t]
  <2>1. seals' = [seals EXCEPT ![i] = IF server.key # NoKey /\ Srv!Unsealed(@) THEN Srv!encrypt(server.key, @) ELSE @]
    BY DEF Srv!reencrypt
  <2>2. Srv!Unsealed(seals[i]) <=> seals[i] = <<>>
    BY DEF Srv!Unsealed, Srv!is_encrypted
  <2> QED BY <2>1, <2>2, <1>1, EncryptIs DEF AnyKey
<1>3. t \in Text /\ (server.key # NoKey => t # <<>>) /\ (~ overlap => Srv!Opens(inforce, t))
  <2>1. t \in Text /\ (server.key # NoKey => t # <<>>)
    BY <1>1, EncryptIs DEF SecTypeOK, AnyKey
  <2>2. ~ overlap => Srv!Opens(inforce, seals[i]) /\ server.key = inforce
    BY <1>1 DEF Srv!OneKeyOpens, RunsOnInforce
  <2>3. server.key # NoKey => Srv!Opens(server.key, <<server.key>>)
    BY <1>1, EncryptIs DEF AnyKey
  <2> QED BY <2>1, <2>2, <2>3
<1> HIDE DEF t
<1>4. /\ seals' \in [Srv!Item -> Text] /\ RotatedSoFar' /\ Srv!OneKeyOpens'
      /\ server.key # NoKey => \A j \in Srv!Item : j = i \/ seals[j] # <<>> => seals'[j] # <<>>
  <2> HIDE DEF i, SecInv
  <2> QED BY <1>1, <1>2, <1>3, WritesOne
<1>5. server' = IF server.at = 3 THEN [server EXCEPT !.pc = "serve"] ELSE [server EXCEPT !.at = @ + 1]
  BY OrderIs DEF Srv!reencrypt
<1>6. server.key # NoKey => \A n \in 1 .. 3 : n <= server.at => seals'[Srv!Order[n]] # <<>>
  <2> SUFFICES ASSUME server.key # NoKey, NEW n \in 1 .. 3, n <= server.at PROVE seals'[Srv!Order[n]] # <<>>
    OBVIOUS
  <2>1. CASE n = server.at
    BY <1>1, <1>4, <2>1
  <2>2. CASE n # server.at
    <3>1. n < server.at
      BY <1>1, <2>2
    <3>2. seals[Srv!Order[n]] # <<>>
      BY <1>1, <3>1 DEF SealedSoFar
    <3> QED BY <1>4, <3>2, OrderIs
  <2> QED BY <2>1, <2>2
<1>7. CASE server.at = 3
  <2>1. server' = [server EXCEPT !.pc = "serve"]
    BY <1>5, <1>7
  <2>2. server'.pc = "serve" /\ server'.key = server.key /\ server' \in [pc : {"down", "seal", "serve"}, key : AnyKey, at : 1 .. 3]
    BY <2>1 DEF SecTypeOK
  <2>3. SecTypeOK'
    BY <1>1, <1>4, <2>2 DEF SecTypeOK
  <2>4. PatchSealed' /\ SealedSoFar' /\ RunsOnInforce'
    BY <1>1, <2>2 DEF PatchSealed, SealedSoFar, RunsOnInforce
  <2>5. Srv!SealedWhenServing'
    <3> SUFFICES ASSUME server.key # NoKey, NEW j \in Srv!Item PROVE seals'[j] # <<>>
      BY <2>2 DEF Srv!SealedWhenServing, Srv!is_encrypted
    <3>1. PICK n \in 1 .. 3 : j = Srv!Order[n]
      BY OrderIs
    <3> QED BY <3>1, <1>6, <1>7
  <2> QED BY <1>4, <2>3, <2>4, <2>5
<1>8. CASE server.at # 3
  <2>1. server' = [server EXCEPT !.at = server.at + 1]
    BY <1>5, <1>8
  <2>2. server'.pc = "seal" /\ server'.key = server.key /\ server'.at = server.at + 1
        /\ server' \in [pc : {"down", "seal", "serve"}, key : AnyKey, at : 1 .. 3]
    BY <1>1, <1>8, <2>1 DEF SecTypeOK
  <2>3. SecTypeOK'
    BY <1>1, <1>4, <2>2 DEF SecTypeOK
  <2>4. PatchSealed' /\ RunsOnInforce' /\ Srv!SealedWhenServing'
    BY <1>1, <2>2 DEF PatchSealed, RunsOnInforce, Srv!SealedWhenServing
  <2>5. SealedSoFar'
    BY <1>1, <1>6, <2>2 DEF SealedSoFar
  <2> QED BY <1>4, <2>3, <2>4, <2>5
<1> QED BY <1>7, <1>8

LEMMA ServesKeeps ==
  ASSUME SecInv, NEW i \in Srv!Item, NEW t \in Text, seals' = [seals EXCEPT ![i] = t],
         server.pc = "serve", server.key # NoKey => t # <<>>, ~ overlap => Srv!Opens(inforce, t),
         UNCHANGED <<inforce, server, rekey, overlap>>, patch' \in {patch, Srv!NoPatch}
  PROVE  SecInv'
<1>1. /\ seals' \in [Srv!Item -> Text] /\ RotatedSoFar' /\ Srv!OneKeyOpens'
      /\ server.key # NoKey => \A j \in Srv!Item : j = i \/ seals[j] # <<>> => seals'[j] # <<>>
  BY WritesOne
<1>2. SecTypeOK'
  BY <1>1 DEF SecInv, SecTypeOK
<1>3. PatchSealed' /\ SealedSoFar' /\ RunsOnInforce'
  BY DEF SecInv, PatchSealed, SealedSoFar, RunsOnInforce
<1>4. Srv!SealedWhenServing'
  BY <1>1 DEF SecInv, Srv!SealedWhenServing, Srv!is_encrypted
<1> QED BY <1>1, <1>2, <1>3, <1>4 DEF SecInv

LEMMA SaveKeeps == ASSUME SecInv, Srv!Save PROVE SecInv'
<1>1. server.pc = "serve" /\ UNCHANGED <<inforce, server, patch, rekey, overlap>>
  BY DEF Srv!Save
<1>2. PICK i \in Srv!Item : seals' = [seals EXCEPT ![i] = Srv!encrypt(server.key, <<>>)]
  BY DEF Srv!Save
<1>3. server.key \in AnyKey /\ (~ overlap => server.key = inforce)
  BY <1>1 DEF SecInv, SecTypeOK, RunsOnInforce
<1>4. /\ Srv!encrypt(server.key, <<>>) \in Text /\ Srv!Opens(server.key, Srv!encrypt(server.key, <<>>))
      /\ (server.key # NoKey => Srv!encrypt(server.key, <<>>) # <<>>)
  BY <1>3, EncryptIs
<1>5. ~ overlap => Srv!Opens(inforce, Srv!encrypt(server.key, <<>>))
  BY <1>3, <1>4
<1> QED BY <1>1, <1>2, <1>4, <1>5, ServesKeeps

LEMMA WriteBackKeeps == ASSUME SecInv, Srv!WriteBack PROVE SecInv'
<1> USE DEF SecInv
<1>1. server.pc = "serve" /\ UNCHANGED <<inforce, server, rekey, overlap>>
  BY DEF Srv!WriteBack
<1>2. CASE patch = Srv!NoPatch
  <2>1. UNCHANGED seals
    BY <1>2 DEF Srv!WriteBack
  <2>2. PICK i \in Srv!Item : patch' = [item |-> i, text |-> seals[i]]
    BY <1>2 DEF Srv!WriteBack
  <2>3. seals[i] \in Text /\ patch' \in [item : Srv!Item, text : Text] /\ patch'.text = seals[i]
    BY <2>2 DEF SecTypeOK
  <2>4. SecTypeOK'
    BY <1>1, <2>1, <2>3 DEF SecTypeOK
  <2>5. PatchSealed'
    <3>1. server.key # NoKey => seals[i] # <<>>
      BY <1>1 DEF Srv!SealedWhenServing, Srv!is_encrypted
    <3>2. ~ overlap => Srv!Opens(inforce, seals[i])
      BY DEF Srv!OneKeyOpens
    <3> QED BY <1>1, <2>3, <3>1, <3>2 DEF PatchSealed, Srv!Opens
  <2>6. SealedSoFar' /\ RotatedSoFar' /\ RunsOnInforce'
    BY <1>1, <2>1 DEF SealedSoFar, RotatedSoFar, RunsOnInforce
  <2>7. Srv!OneKeyOpens' /\ Srv!SealedWhenServing'
    BY <1>1, <2>1 DEF Srv!OneKeyOpens, Srv!SealedWhenServing, Srv!Opens
  <2> QED BY <2>4, <2>5, <2>6, <2>7
<1>3. CASE patch # Srv!NoPatch
  <2>1. seals' = [seals EXCEPT ![patch.item] = patch.text] /\ patch' = Srv!NoPatch
    BY <1>3 DEF Srv!WriteBack
  <2>2. patch.item \in Srv!Item /\ patch.text \in Text
    BY <1>3 DEF SecTypeOK
  <2>3. (server.key # NoKey => patch.text # <<>>) /\ (~ overlap => Srv!Opens(inforce, patch.text))
    BY <1>3 DEF PatchSealed
  <2> HIDE DEF SecInv
  <2> QED BY <1>1, <2>1, <2>2, <2>3, ServesKeeps
<1> QED BY <1>2, <1>3

LEMMA ServerEndsKeeps == ASSUME SecInv, Srv!ServerEnds PROVE SecInv'
<1> USE DEF SecInv
<1>1. server' = [server EXCEPT !.pc = "down"] /\ patch' = Srv!NoPatch /\ UNCHANGED <<seals, inforce, rekey, overlap>>
  BY DEF Srv!ServerEnds
<1>2. server'.pc = "down" /\ server' \in [pc : {"down", "seal", "serve"}, key : AnyKey, at : 1 .. 3]
  BY <1>1 DEF SecTypeOK
<1>3. SecTypeOK'
  BY <1>1, <1>2 DEF SecTypeOK
<1>4. PatchSealed' /\ SealedSoFar' /\ RotatedSoFar' /\ RunsOnInforce' /\ Srv!SealedWhenServing'
  BY <1>1, <1>2 DEF PatchSealed, SealedSoFar, RotatedSoFar, RunsOnInforce, Srv!SealedWhenServing
<1>5. Srv!OneKeyOpens'
  BY <1>1 DEF Srv!OneKeyOpens, Srv!Opens
<1> QED BY <1>3, <1>4, <1>5

(* A step of a rotation that does not commit. *)
LEMMA RotationKeeps ==
  ASSUME SecInv, UNCHANGED <<seals, inforce, server, patch, overlap>>,
         rekey' = Srv!Resting
         \/ rekey' \in [pc : {"reading", "writing"}, old : AnyKey, new : Key, at : 1 .. 4,
                        base : [Srv!Item -> Text], copy : [Srv!Item -> Text]],
         RotatedSoFar'
  PROVE  SecInv'
<1> USE DEF SecInv
<1>1. SecTypeOK'
  BY DEF SecTypeOK
<1>2. PatchSealed' /\ SealedSoFar' /\ RunsOnInforce'
  BY DEF PatchSealed, SealedSoFar, RunsOnInforce, Srv!Opens
<1>3. Srv!OneKeyOpens' /\ Srv!SealedWhenServing'
  BY DEF Srv!OneKeyOpens, Srv!SealedWhenServing, Srv!Opens
<1> QED BY <1>1, <1>2, <1>3

LEMMA RekeyRowKeeps == ASSUME SecInv, Srv!rekey_row PROVE SecInv'
<1> USE DEF SecInv
<1> DEFINE i == Srv!Order[rekey.at]
           t == Srv!Rotated(rekey.copy[i])
<1>1. /\ rekey.pc \in {"reading", "writing"} /\ rekey.at <= 3 /\ UNCHANGED <<seals, inforce, server, patch, overlap>>
      /\ rekey' = [rekey EXCEPT !.pc = "writing", !.at = @ + 1, !.copy[i] = Srv!Rotated(@)]
  BY OrderIs DEF Srv!rekey_row
<1>2. rekey # Srv!Resting
  BY <1>1 DEF Srv!Resting
<1>3. /\ rekey.new \in Key /\ rekey.at \in 1 .. 3 /\ rekey.copy \in [Srv!Item -> Text] /\ i \in Srv!Item
      /\ rekey.old \in AnyKey /\ rekey.base \in [Srv!Item -> Text]
  BY <1>1, <1>2, OrderIs DEF SecTypeOK
<1>4. t = <<rekey.new>> /\ t \in Text
  <2>1. rekey.copy[i] \in Text
    BY <1>3
  <2>2. Srv!is_encrypted(rekey.copy[i]) /\ Srv!Opens(rekey.new, rekey.copy[i]) => rekey.copy[i] = <<rekey.new>>
    BY DEF Srv!is_encrypted, Srv!Opens
  <2> QED BY <1>3, <2>2, EncryptIs, ZenonT(60) DEF Srv!Rotated
<1> HIDE DEF i, t
<1>5. /\ rekey'.pc = "writing" /\ rekey'.new = rekey.new /\ rekey'.at = rekey.at + 1
      /\ rekey'.copy = [rekey.copy EXCEPT ![i] = t]
      /\ rekey' \in [pc : {"reading", "writing"}, old : AnyKey, new : Key, at : 1 .. 4,
                     base : [Srv!Item -> Text], copy : [Srv!Item -> Text]]
  <2>1. [rekey.copy EXCEPT ![i] = t] \in [Srv!Item -> Text]
    BY <1>3, <1>4
  <2>2. rekey' = [rekey EXCEPT !.pc = "writing", !.at = rekey.at + 1, !.copy = [rekey.copy EXCEPT ![i] = t]]
    BY <1>1 DEF t
  <2>3. rekey.at + 1 \in 1 .. 4
    BY <1>3
  <2>4. rekey \in [pc : {"reading", "writing"}, old : AnyKey, new : Key, at : 1 .. 4,
                   base : [Srv!Item -> Text], copy : [Srv!Item -> Text]]
    BY <1>2 DEF SecTypeOK
  <2> QED BY <2>1, <2>2, <2>3, <2>4
<1>6. RotatedSoFar'
  <2> SUFFICES ASSUME NEW n \in 1 .. 3, n < rekey.at + 1 PROVE rekey'.copy[Srv!Order[n]] = <<rekey.new>>
    BY <1>5 DEF RotatedSoFar
  <2>1. CASE n = rekey.at
    BY <1>3, <1>4, <1>5, <2>1 DEF i
  <2>2. CASE n # rekey.at
    <3>1. n < rekey.at
      BY <1>3, <2>2
    <3>2. rekey.copy[Srv!Order[n]] = <<rekey.new>>
      BY <1>1, <3>1 DEF RotatedSoFar
    <3>3. Srv!Order[n] # i /\ Srv!Order[n] \in Srv!Item
      BY <1>3, <2>2, OrderIs DEF i
    <3> QED BY <1>3, <1>5, <3>2, <3>3
  <2> QED BY <2>1, <2>2
<1> HIDE DEF SecInv
<1> QED BY <1>1, <1>5, <1>6, RotationKeeps

LEMMA RekeyCommitKeeps == ASSUME SecInv, Srv!rekey_commit PROVE SecInv'
<1> USE DEF SecInv
<1>1. /\ rekey.pc = "writing" /\ rekey.at > 3 /\ seals' = rekey.copy /\ inforce' = rekey.new /\ rekey' = Srv!Resting
      /\ overlap' = (overlap \/ server.pc # "down") /\ UNCHANGED <<server, patch>>
  BY OrderIs DEF Srv!rekey_commit
<1>2. rekey # Srv!Resting
  BY <1>1 DEF Srv!Resting
<1>3. rekey.new \in Key /\ rekey.at \in 1 .. 4 /\ rekey.copy \in [Srv!Item -> Text]
  BY <1>2 DEF SecTypeOK
<1>4. \A i \in Srv!Item : seals'[i] = <<rekey.new>>
  <2> SUFFICES ASSUME NEW i \in Srv!Item PROVE seals'[i] = <<rekey.new>>
    OBVIOUS
  <2>1. PICK n \in 1 .. 3 : i = Srv!Order[n]
    BY OrderIs
  <2>2. n < rekey.at
    BY <1>1, <1>3
  <2> QED BY <1>1, <2>1, <2>2 DEF RotatedSoFar
<1>5. Srv!Opens(rekey.new, <<rekey.new>>) /\ <<rekey.new>> # <<>>
  BY <1>3, EncryptIs
<1>6. SecTypeOK'
  BY <1>1, <1>3 DEF SecTypeOK, AnyKey
<1>7. PatchSealed' /\ RunsOnInforce'
  BY <1>1 DEF PatchSealed, RunsOnInforce
<1>8. RotatedSoFar'
  BY <1>1 DEF RotatedSoFar, Srv!Resting
<1>9. SealedSoFar' /\ Srv!SealedWhenServing'
  BY <1>1, <1>4, <1>5, OrderIs DEF SealedSoFar, Srv!SealedWhenServing, Srv!is_encrypted
<1>10. Srv!OneKeyOpens'
  BY <1>1, <1>4, <1>5 DEF Srv!OneKeyOpens, Srv!Opens
<1> QED BY <1>6, <1>7, <1>8, <1>9, <1>10

LEMMA SecStep == SecInv /\ [Srv!SecNext]_(Srv!secVars) => SecInv'
<1> SUFFICES ASSUME SecInv, [Srv!SecNext]_(Srv!secVars) PROVE SecInv'
  BY SMTT(60)
<1>1. CASE Srv!rekey_all
  <2>1. UNCHANGED <<seals, inforce, server, patch, overlap>>
    BY <1>1 DEF Srv!rekey_all
  <2>2. PICK k \in Key : rekey' = [pc |-> "reading", old |-> inforce, new |-> k, at |-> 1, base |-> seals, copy |-> seals]
    BY <1>1 DEF Srv!rekey_all
  <2>3. rekey' \in [pc : {"reading", "writing"}, old : AnyKey, new : Key, at : 1 .. 4,
                    base : [Srv!Item -> Text], copy : [Srv!Item -> Text]]
    BY <2>2 DEF SecInv, SecTypeOK
  <2>4. RotatedSoFar'
    BY <2>2 DEF RotatedSoFar
  <2> QED BY <2>1, <2>3, <2>4, RotationKeeps
<1>2. CASE Srv!rekey_fails
  <2>1. UNCHANGED <<seals, inforce, server, patch, overlap>> /\ rekey' = Srv!Resting
    BY <1>2 DEF Srv!rekey_fails
  <2>2. RotatedSoFar'
    BY <2>1 DEF RotatedSoFar, Srv!Resting
  <2> QED BY <2>1, <2>2, RotationKeeps
<1>3. CASE UNCHANGED Srv!secVars
  <2>1. UNCHANGED <<seals, inforce, server, patch, rekey, overlap>>
    BY <1>3 DEF Srv!secVars
  <2>2. RotatedSoFar'
    BY <2>1 DEF SecInv, RotatedSoFar
  <2> QED BY <2>1, <2>2, RotationKeeps DEF SecInv, SecTypeOK
<1> QED BY <1>1, <1>2, <1>3, SetKeyKeeps, InitKeyKeeps, SealKeeps, SaveKeeps, WriteBackKeeps, ServerEndsKeeps,
           RekeyRowKeeps, RekeyCommitKeeps DEF Srv!SecNext

-----------------------------------------------------------------------------
(* The parts together.                                                     *)

RunsInv == (part = "events" => RecInv) /\ (part = "publisher" => PubInv)
EndsInv == (part = "live" => LiveInv) /\ (part \in {"backup", "archive"} => BkInv)
ExactInv ==
  /\ part = "mirror" => MirInv
  /\ part = "sampler" => SamInv
  /\ part = "publisher" => PubInv
  /\ part = "process" => LfInv
  /\ part = "secrets" => SecInv

LEMMA PartInit ==
  ASSUME FootageInit
  PROVE  /\ part = "events" => Evr!EvInit
         /\ part = "publisher" => Liv!PubInit
         /\ part = "live" => Liv!LiveInit
         /\ part \in {"backup", "archive"} => \E used : Bk!BkInit(used)
         /\ part = "mirror" => Mir!MirInit
         /\ part = "sampler" => Sam!SamInit
         /\ part = "process" => Srv!LfInit
         /\ part = "secrets" => Srv!SecInit
BY DEF FootageInit

LEMMA PartNext ==
  ASSUME FootageNext
  PROVE  /\ part' = part
         /\ part = "events" => Evr!EvNext
         /\ part = "publisher" => Liv!PubNext
         /\ part = "live" => Liv!LiveNext
         /\ part = "backup" => Bk!PolicyStep
         /\ part = "archive" => Bk!ArchiveStep
         /\ part = "mirror" => Mir!MirNext
         /\ part = "sampler" => Sam!SamNext
         /\ part = "process" => Srv!LfNext
         /\ part = "secrets" => Srv!SecNext
BY DEF FootageNext

(* No step of an event recording or of a publisher ends it too early or too late, for any durations,
   any viewers and requests and any failing statements. *)
THEOREM RunsAsOwedAlways == FootageSpec => RunsAsOwed
<1>1. FootageInit => RunsInv
  BY PartInit, RecInvInit, PubInvInit DEF RunsInv
<1>2. ASSUME RunsInv, [FootageNext]_footageVars
      PROVE  /\ RunsInv'
             /\ [/\ part = "events" => Evr!PostRollKept /\ Evr!StopsOnTime
                 /\ part = "publisher" => Liv!NotCut]_footageVars
  <2>1. CASE FootageNext
    <3>1. part = "events" => RecInv' /\ Evr!PostRollKept /\ Evr!StopsOnTime
      BY <1>2, <2>1, PartNext, EvStep DEF RunsInv
    <3>2. part = "publisher" => PubInv' /\ Liv!NotCut
      BY <1>2, <2>1, PartNext, PubStep DEF RunsInv
    <3>3. RunsInv'
      BY <2>1, <3>1, <3>2, PartNext DEF RunsInv
    <3> QED BY <3>1, <3>2, <3>3
  <2>2. CASE UNCHANGED footageVars
    <3>1. part' = part /\ UNCHANGED recVars /\ UNCHANGED pubVars
      BY <2>2 DEF footageVars
    <3>2. part = "events" => RecInv'
      BY <1>2, <3>1 DEF RunsInv, RecInv, EvTypeOK, LooksTrue, DeadlinesTrue, recVars
    <3>3. part = "publisher" => PubInv'
      <4> SUFFICES ASSUME part = "publisher" PROVE PubInv'
        OBVIOUS
      <4>1. PubInv /\ UNCHANGED <<cam, act, lock, edits, fails, down, pub>>
        BY <1>2, <3>1 DEF RunsInv, pubVars
      <4>2. pub' \in [on : BOOLEAN, config : Nat, idle : BOOLEAN]
        BY <4>1 DEF PubInv, PubTypeOK
      <4> QED BY <4>1, <4>2, WorldSteps
    <3>4. RunsInv'
      BY <3>1, <3>2, <3>3 DEF RunsInv
    <3> QED BY <2>2, <3>4
  <2> QED BY <1>2, <2>1, <2>2
<1> QED BY <1>1, <1>2, PTL DEF FootageSpec, RunsAsOwed

(* A withdrawn credential's sessions and transfers end within the time the code gives itself, for any
   number of viewers and jobs, any durations and any failing statements that are told of. *)
THEOREM WithdrawalAlwaysEnds == FootageSpec => []WithdrawalEnds
<1>1. FootageInit => EndsInv
  BY PartInit, LiveInvInit, BkInvInit DEF EndsInv
<1>2. EndsInv /\ [FootageNext]_footageVars => EndsInv'
  <2> SUFFICES ASSUME EndsInv, [FootageNext]_footageVars PROVE EndsInv'
    OBVIOUS
  <2>1. CASE FootageNext
    <3>1. part = "live" => LiveInv'
      BY <2>1, PartNext, LiveStep DEF EndsInv
    <3>2. part \in {"backup", "archive"} => BkInv'
      BY <2>1, PartNext, PolicyKeeps, ArchiveKeeps DEF EndsInv
    <3> QED BY <2>1, <3>1, <3>2, PartNext DEF EndsInv
  <2>2. CASE UNCHANGED footageVars
    <3>1. part' = part /\ UNCHANGED liveVars /\ UNCHANGED bkVars
      BY <2>2 DEF footageVars
    <3>2. part = "live" => LiveInv'
      BY <3>1 DEF EndsInv, LiveInv, LiveTypeOK, DueTrue, SweepTrue, RowsTrue, Recent, liveVars
    <3>3. part \in {"backup", "archive"} => BkInv'
      BY <3>1, BkTypes, OtherSteps DEF EndsInv, bkVars
    <3> QED BY <3>1, <3>2, <3>3 DEF EndsInv
  <2> QED BY <2>1, <2>2
<1>3. EndsInv => WithdrawalEnds
  BY LiveEnds, BkEnds DEF EndsInv, WithdrawalEnds
<1> QED BY <1>1, <1>2, <1>3, PTL DEF FootageSpec

(* The mirrors, samplers and publishers alive are those meant to run, a start finds no lock of a dead
   process, cuts no recording and keeps its loops, and what is served is sealed under the key in force:
   for any cameras, requests, starts, keys and failures, if a start waits for the end of the one before. *)
THEOREM ProcessesStayExact == ASSUME Overlap = FALSE PROVE FootageSpec => []ProcessesExact
<1>1. FootageInit => ExactInv
  BY PartInit, MirInvInit, SamInvInit, PubInvInit, LfInvInit, SecInvInit DEF ExactInv
<1>2. ExactInv /\ [FootageNext]_footageVars => ExactInv'
  <2> SUFFICES ASSUME ExactInv, [FootageNext]_footageVars PROVE ExactInv'
    OBVIOUS
  <2>1. CASE FootageNext
    <3>1. part = "mirror" => MirInv'
      BY <2>1, PartNext, MirStep DEF ExactInv
    <3>2. part = "sampler" => SamInv'
      BY <2>1, PartNext, SamStep DEF ExactInv
    <3>3. part = "publisher" => PubInv'
      BY <2>1, PartNext, PubStep DEF ExactInv
    <3>4. part = "process" => LfInv'
      BY <2>1, PartNext, LfStep DEF ExactInv
    <3>5. part = "secrets" => SecInv'
      BY <2>1, PartNext, SecStep DEF ExactInv
    <3> QED BY <2>1, <3>1, <3>2, <3>3, <3>4, <3>5, PartNext DEF ExactInv
  <2>2. CASE UNCHANGED footageVars
    <3>1. /\ part' = part /\ UNCHANGED mirVars /\ UNCHANGED samVars /\ UNCHANGED pubVars /\ UNCHANGED lfVars
          /\ UNCHANGED secVars
      BY <2>2 DEF footageVars
    <3>2. part = "mirror" => MirInv'
      <4>1. UNCHANGED <<mirRow, mirReq, entry, mirrors, nextGen, mirCut>>
        BY <3>1 DEF mirVars
      <4>2. MirInv => MirTypeOK' /\ GensTrue' /\ Mir!MirrorTracked' /\ EntryKept'
        BY <4>1 DEF MirInv, MirTypeOK, GensTrue, Mir!MirrorTracked, EntryKept
      <4>3. MirInv => RowFollowed'
        BY <4>1 DEF MirInv, RowFollowed, Whole, Stopping, Reconciling
      <4> QED BY <4>2, <4>3 DEF ExactInv, MirInv
    <3>3. part = "sampler" => SamInv'
      BY <3>1, SamStep DEF ExactInv, samVars, Sam!samVars
    <3>4. part = "publisher" => PubInv'
      <4> SUFFICES ASSUME part = "publisher" PROVE PubInv'
        OBVIOUS
      <4>1. PubInv /\ UNCHANGED <<cam, act, lock, edits, fails, down, pub>>
        BY <3>1 DEF ExactInv, pubVars
      <4>2. pub' \in [on : BOOLEAN, config : Nat, idle : BOOLEAN]
        BY <4>1 DEF PubInv, PubTypeOK
      <4> QED BY <4>1, <4>2, WorldSteps
    <3>5. part = "process" => LfInv'
      BY <3>1, LfStep DEF ExactInv, lfVars, Srv!lfVars
    <3>6. part = "secrets" => SecInv'
      BY <3>1, SecStep DEF ExactInv, secVars, Srv!secVars
    <3> QED BY <3>1, <3>2, <3>3, <3>4, <3>5, <3>6 DEF ExactInv
  <2> QED BY <2>1, <2>2
<1>3. ExactInv => ProcessesExact
  <2>1. PubInv => Liv!NoResurrection
    BY DEF PubInv
  <2>2. SecInv => Srv!OneKeyOpens /\ Srv!SealedWhenServing
    BY DEF SecInv
  <2> QED BY <2>1, <2>2, MirrorEnds, SamplersExact, ProcessEnds DEF ExactInv, ProcessesExact
<1> QED BY <1>1, <1>2, <1>3, PTL DEF FootageSpec

-----------------------------------------------------------------------------
(* Folds.  A fold is a function on the subsets of what it folds, defined by *)
(* itself: that there is one, for any finite set, any step and any order.   *)

LEMMA Least ==
  ASSUME NEW T \in SUBSET Nat, T # {}
  PROVE  \E n \in T : \A m \in T : n <= m
<1> DEFINE Less == {p \in Nat \X Nat : p[1] < p[2]}
<1>1. IsWellFoundedOn(Less, Nat)
  BY NatLessThanWellFounded DEF OpToRel
<1>2. PICK n \in T : \A m \in T : ~ (<<m, n>> \in Less)
  BY <1>1, WFMin
<1>3. ASSUME NEW m \in T PROVE n <= m
  <2>1. m \in Nat /\ n \in Nat /\ ~ (m < n)
    BY <1>2
  <2> QED BY <2>1
<1> QED BY <1>3

(* What holds of the start and passes from each number to the next holds up to n. *)
LEMMA UpTo ==
  ASSUME NEW n \in Nat, NEW T, 0 \in T, \A k \in 1..n : k - 1 \in T => k \in T
  PROVE  \A k \in 0..n : k \in T
<1> DEFINE Out == {k \in Nat : k <= n /\ k \notin T}
<1> SUFFICES ASSUME Out # {} PROVE FALSE
  OBVIOUS
<1>1. PICK k \in Out : \A m \in Out : k <= m
  BY Least
<1>2. k \in 1..n
  BY <1>1
<1>3. k - 1 \in Nat /\ k - 1 <= n /\ ~ (k <= k - 1)
  BY <1>2
<1>4. k - 1 \notin Out
  BY <1>1, <1>3
<1>5. k - 1 \in T
  BY <1>3, <1>4
<1>6. k \in T
  BY <1>2, <1>5
<1> QED BY <1>1, <1>6

IsFold(g, S, base, step, pick) ==
    \A T \in SUBSET S : g[T] = IF T = {} THEN base ELSE step[<<pick[T], g[T \ {pick[T]}]>>]

LEMMA FoldExists ==
  ASSUME NEW S, IsFiniteSet(S), NEW V, NEW base \in V, NEW step \in [S \X V -> V],
         NEW pick \in [(SUBSET S) \ {{}} -> S], \A T \in (SUBSET S) \ {{}} : pick[T] \in T
  PROVE  \E g \in [SUBSET S -> V] : IsFold(g, S, base, step, pick)
<1> DEFINE Next(g, T) == IF T = {} THEN base ELSE step[<<pick[T], g[T \ {pick[T]}]>>]
           Upto(g, n) == \A T \in SUBSET S : Cardinality(T) <= n => g[T] = Next(g, T)
           Good == {n \in Nat : \E g \in [SUBSET S -> V] : Upto(g, n)}
<1>1. ASSUME NEW T \in SUBSET S PROVE IsFiniteSet(T) /\ Cardinality(T) \in Nat /\ Cardinality(T) <= Cardinality(S)
  BY FS_Subset, FS_CardinalityType
<1>2. ASSUME NEW T \in SUBSET S, T # {}
      PROVE  /\ pick[T] \in T /\ T \ {pick[T]} \in SUBSET S
             /\ Cardinality(T \ {pick[T]}) = Cardinality(T) - 1
  <2>1. pick[T] \in T
    <3>1. T \in (SUBSET S) \ {{}}
      BY <1>2
    <3> QED BY <3>1
  <2>2. IsFiniteSet(T)
    BY <1>1
  <2>3. \A x \in T : Cardinality(T \ {x}) = Cardinality(T) - 1
    BY <2>2, FS_RemoveElement
  <2>4. Cardinality(T \ {pick[T]}) = Cardinality(T) - 1
    BY <2>1, <2>3
  <2> QED BY <2>1, <2>4
<1>3. 0 \in Good
  <2> DEFINE g == [T \in SUBSET S |-> base]
  <2>1. g \in [SUBSET S -> V]
    OBVIOUS
  <2>2. ASSUME NEW T \in SUBSET S, Cardinality(T) <= 0 PROVE g[T] = Next(g, T)
    <3>1. T = {}
      <4>1. Cardinality(T) = 0
        BY <1>1, <2>2
      <4> QED BY <1>1, <4>1, FS_EmptySet
    <3> QED BY <3>1
  <2>3. Upto(g, 0)
    BY <2>2
  <2> QED BY <2>1, <2>3, ZenonT(60)
<1>4. ASSUME NEW n \in 1..Cardinality(S), n - 1 \in Good PROVE n \in Good
  <2>1. Cardinality(S) \in Nat /\ n \in Nat
    BY <1>1
  <2>2. PICK h \in [SUBSET S -> V] : Upto(h, n - 1)
    BY <1>4
  <2> DEFINE g == [T \in SUBSET S |-> IF Cardinality(T) = n THEN Next(h, T) ELSE h[T]]
  <2>3. ASSUME NEW T \in SUBSET S PROVE Next(h, T) \in V
    <3>1. CASE T = {}
      BY <3>1
    <3>2. CASE T # {}
      <4>1. pick[T] \in S /\ h[T \ {pick[T]}] \in V
        BY <1>2, <3>2
      <4> QED BY <3>2, <4>1
    <3> QED BY <3>1, <3>2
  <2>4. g \in [SUBSET S -> V]
    <3> HIDE DEF Next
    <3> QED BY <2>3
  <2>5. ASSUME NEW T \in SUBSET S, Cardinality(T) <= n PROVE g[T] = Next(g, T)
    <3>1. Next(g, T) = Next(h, T)
      <4>1. CASE T = {}
        BY <4>1
      <4>2. CASE T # {}
        <5> DEFINE R == T \ {pick[T]}
        <5>1. R \in SUBSET S /\ Cardinality(R) = Cardinality(T) - 1 /\ Cardinality(T) \in Nat
          BY <1>1, <1>2, <4>2
        <5>2. Cardinality(R) # n
          BY <2>1, <2>5, <5>1
        <5>3. g[R] = h[R]
          <6> HIDE DEF R, Next
          <6> QED BY <5>1, <5>2
        <5> HIDE DEF g
        <5> QED BY <4>2, <5>3
      <4> QED BY <4>1, <4>2, SMTT(60)
    <3>2. CASE Cardinality(T) = n
      <4> HIDE DEF Next
      <4>1. g[T] = Next(h, T)
        BY <3>2
      <4> QED BY <3>1, <4>1
    <3>3. CASE Cardinality(T) # n
      <4>1. Cardinality(T) <= n - 1
        BY <1>1, <2>1, <2>5, <3>3
      <4>2. h[T] = Next(h, T)
        BY <2>2, <4>1
      <4> HIDE DEF Next
      <4>3. g[T] = h[T]
        BY <3>3
      <4> QED BY <3>1, <4>2, <4>3
    <3> QED BY <3>2, <3>3, SMTT(60)
  <2>6. Upto(g, n)
    <3> HIDE DEF g, Next
    <3> QED BY <2>5
  <2> HIDE DEF g, Upto
  <2> QED BY <2>1, <2>4, <2>6
<1>5. Cardinality(S) \in Nat
  BY <1>1
<1>6. Cardinality(S) \in Good
  <2> HIDE DEF Good
  <2>1. \A k \in 0..Cardinality(S) : k \in Good
    BY <1>3, <1>4, <1>5, UpTo
  <2> QED BY <1>5, <2>1
<1>7. PICK g \in [SUBSET S -> V] : Upto(g, Cardinality(S))
  BY <1>6
<1>8. ASSUME NEW T \in SUBSET S PROVE g[T] = Next(g, T)
  BY <1>1, <1>7
<1>9. IsFold(g, S, base, step, pick)
  BY <1>8 DEF IsFold
<1> QED BY <1>9

(* A fold over a sequence goes through its places from the first to the last. *)
LEMMA LastPlace ==
  ASSUME NEW k \in Nat \ {0}
  PROVE  /\ Evi!Max(1..k) = k /\ Line!Max(1..k) = k
         /\ (1..k) \ {k} = 1..(k - 1)
<1>1. k \in 1..k /\ \A m \in 1..k : k >= m
  OBVIOUS
<1>2. ASSUME NEW x \in 1..k, \A m \in 1..k : x >= m PROVE x = k
  <2>1. x >= k /\ k >= x
    BY <1>2
  <2> QED BY <2>1
<1>3. (CHOOSE x \in 1..k : \A m \in 1..k : x >= m) = k
  BY <1>1, <1>2
<1>4. Evi!Max(1..k) = k /\ Line!Max(1..k) = k
  BY <1>3, Zenon DEF Evi!Max, Line!Max
<1> QED BY <1>4

-----------------------------------------------------------------------------
(* Evidence: what the window covers.                                       *)

LEMMA EvCards == ASSUME NEW S PROVE Evi!Cardinality(S) = Cardinality(S)
BY Zenon DEF Evi!Cardinality, Cardinality

(* The rows of a set that no two begin together are told apart by how many begin before. *)
EarlierIn(s, S) == Cardinality({t \in S : t[1] < s[1]})

StartsApart(S) == \A s, t \in S : s # t => s[1] # t[1]

LEMMA EarlierGrows ==
  ASSUME NEW S \in SUBSET (Int \X Int), IsFiniteSet(S), NEW s \in S, NEW t \in S, s[1] < t[1]
  PROVE  EarlierIn(s, S) < EarlierIn(t, S)
<1> DEFINE X == {u \in S : u[1] < s[1]}
           Y == {u \in S : u[1] < t[1]}
<1>1. \A u \in S : u[1] \in Int
  OBVIOUS
<1>2. X \subseteq Y
  BY <1>1
<1>3. s \in Y /\ s \notin X
  BY <1>1
<1>4. IsFiniteSet(Y)
  BY FS_Subset
<1>5. IsFiniteSet(X) /\ Cardinality(X) <= Cardinality(Y) /\ Cardinality(X) # Cardinality(Y)
  BY <1>2, <1>3, <1>4, FS_Subset
<1>6. Cardinality(X) \in Nat /\ Cardinality(Y) \in Nat
  BY <1>4, <1>5, FS_CardinalityType
<1> QED BY <1>5, <1>6 DEF EarlierIn

LEMMA EarlierBelow ==
  ASSUME NEW S \in SUBSET (Int \X Int), IsFiniteSet(S), NEW s \in S
  PROVE  EarlierIn(s, S) \in 0..(Cardinality(S) - 1)
<1> DEFINE X == {u \in S : u[1] < s[1]}
<1>1. IsFiniteSet(X) /\ Cardinality(X) <= Cardinality(S) /\ (Cardinality(S) = Cardinality(X) => S = X)
  BY FS_Subset
<1>2. Cardinality(X) \in Nat /\ Cardinality(S) \in Nat
  BY <1>1, FS_CardinalityType
<1>3. s \notin X
  <2>1. s[1] \in Int
    OBVIOUS
  <2> QED BY <2>1
<1>4. S # X
  BY <1>3
<1> QED BY <1>1, <1>2, <1>4 DEF EarlierIn

LEMMA EarlierTaken ==
  ASSUME NEW S \in SUBSET (Int \X Int), IsFiniteSet(S), StartsApart(S), NEW n \in 0..(Cardinality(S) - 1)
  PROVE  \E s \in S : EarlierIn(s, S) = n
<1> DEFINE T == 0..(Cardinality(S) - 1)
           f == [s \in S |-> EarlierIn(s, S)]
<1>1. Cardinality(S) \in Nat
  BY FS_CardinalityType
<1>2. IsFiniteSet(T) /\ Cardinality(T) = Cardinality(S)
  <2>1. 0 \in Int /\ Cardinality(S) - 1 \in Int
    BY <1>1
  <2>2. IsFiniteSet(T) /\ Cardinality(T) = IF 0 > Cardinality(S) - 1 THEN 0 ELSE (Cardinality(S) - 1) - 0 + 1
    BY <2>1, FS_Interval
  <2> QED BY <1>1, <2>2
<1>3. \A s, t \in S : s # t => EarlierIn(s, S) # EarlierIn(t, S)
  <2>1. ASSUME NEW s \in S, NEW t \in S, s[1] < t[1] PROVE EarlierIn(s, S) # EarlierIn(t, S)
    <3>1. EarlierIn(s, S) < EarlierIn(t, S)
      BY <2>1, EarlierGrows
    <3>2. EarlierIn(s, S) \in 0..(Cardinality(S) - 1) /\ EarlierIn(t, S) \in 0..(Cardinality(S) - 1)
      BY EarlierBelow
    <3> QED BY <3>1, <3>2
  <2>2. \A s, t \in S : s # t => s[1] < t[1] \/ t[1] < s[1]
    <3>1. \A s \in S : s[1] \in Int
      OBVIOUS
    <3> QED BY <3>1 DEF StartsApart
  <2> QED BY <2>1, <2>2
<1>4. f \in Injection(S, T)
  BY <1>3, EarlierBelow DEF Injection, IsInjective
<1>5. f \in Surjection(S, T)
  BY <1>2, <1>4, FS_Injection
<1>6. PICK s \in S : f[s] = n
  BY <1>5 DEF Surjection
<1> QED BY <1>6

Reaching(S, w) == {s \in S : s[1] < w[2] /\ s[2] > w[1]}

(* Sources: intervals in the order of their starts. *)
InOrder(q) == /\ q \in Seq(Evi!Intervals)
              /\ \A i, j \in 1..Len(q) : i < j => q[i][1] < q[j][1]

LEMMA SelectedIs ==
  ASSUME recorded \in SUBSET Evi!Intervals, Horizon \in Nat, IsFiniteSet(recorded), StartsApart(recorded), NEW w
  PROVE  /\ InOrder(Evi!Selected(w))
         /\ \A i \in 1..Len(Evi!Selected(w)) : Evi!Selected(w)[i] \in Reaching(recorded, w)
<1> DEFINE S == Reaching(recorded, w)
           q == [i \in 1..Cardinality(S) |-> CHOOSE s \in S : EarlierIn(s, S) = i - 1]
<1>1. Evi!Selected(w) = q
  BY Zenon DEF Evi!Selected, EarlierIn, Reaching, Evi!Cardinality, Cardinality
<1>2. S \in SUBSET (Int \X Int) /\ S \in SUBSET Evi!Intervals /\ StartsApart(S)
  BY DEF Reaching, StartsApart, Evi!Intervals
<1>3. IsFiniteSet(S)
  BY FS_Subset DEF Reaching
<1>4. Cardinality(S) \in Nat
  BY <1>3, FS_CardinalityType
<1> HIDE DEF S
<1>5. ASSUME NEW i \in 1..Cardinality(S) PROVE q[i] \in S /\ EarlierIn(q[i], S) = i - 1
  <2>1. i - 1 \in 0..(Cardinality(S) - 1)
    BY <1>4
  <2>2. \E s \in S : EarlierIn(s, S) = i - 1
    BY <1>2, <1>3, <2>1, EarlierTaken
  <2> QED BY <2>2
<1>6. ASSUME NEW i \in 1..Cardinality(S), NEW j \in 1..Cardinality(S), i < j PROVE q[i][1] < q[j][1]
  <2>1. q[i] \in S /\ q[j] \in S /\ EarlierIn(q[i], S) = i - 1 /\ EarlierIn(q[j], S) = j - 1
    BY <1>5
  <2>2. q[i] # q[j]
    BY <1>6, <2>1
  <2>3. q[i][1] \in Int /\ q[j][1] \in Int /\ q[i][1] # q[j][1]
    BY <1>2, <2>1, <2>2 DEF StartsApart
  <2>4. ~ (q[j][1] < q[i][1])
    <3>1. q[j][1] < q[i][1] => EarlierIn(q[j], S) < EarlierIn(q[i], S)
      <4> HIDE DEF q
      <4> QED BY <1>2, <1>3, <2>1, EarlierGrows
    <3> HIDE DEF q
    <3> QED BY <1>6, <2>1, <3>1
  <2> HIDE DEF q
  <2> QED BY <2>3, <2>4
<1>7. q \in Seq(Evi!Intervals) /\ Len(q) = Cardinality(S)
  <2>1. q \in [1..Cardinality(S) -> Evi!Intervals]
    <3>1. \A i \in 1..Cardinality(S) : q[i] \in Evi!Intervals
      BY <1>2, <1>5
    <3> QED BY <3>1
  <2> HIDE DEF q
  <2> QED BY <1>4, <2>1
<1> HIDE DEF q
<1> QED BY <1>1, <1>5, <1>6, <1>7 DEF InOrder, S

Pass == [cursor : Int, gaps : SUBSET (Int \X Int)]
Begun(w) == [cursor |-> w[1], gaps |-> {}]
SweepFold(q, w) ==
    CHOOSE f : f = [S \in SUBSET (DOMAIN q) |-> IF S = {} THEN Begun(w)
                                                ELSE Evi!Sweep(w, f[S \ {Evi!Max(S)}], q[Evi!Max(S)])]
GapsOf(pass, w) == pass.gaps \cup (IF w[2] - pass.cursor > GAP_TOLERANCE THEN {<<pass.cursor, w[2]>>} ELSE {})

LEMMA MaxOfPlaces ==
  ASSUME NEW n \in Nat, NEW S \in SUBSET (1..n), S # {}
  PROVE  Evi!Max(S) \in S
<1> DEFINE left == {n - x : x \in S}
<1>1. left \in SUBSET Nat /\ left # {}
  <2>1. \A x \in S : x \in 1..n
    OBVIOUS
  <2>2. \A x \in S : n - x \in Nat
    BY <2>1
  <2> QED BY <2>2
<1>2. PICK m \in left : \A l \in left : m <= l
  BY <1>1, Least
<1>3. PICK x \in S : m = n - x
  BY <1>2
<1>4. ASSUME NEW y \in S PROVE x >= y
  <2>1. n - y \in left
    OBVIOUS
  <2>2. n - x <= n - y
    BY <1>2, <1>3, <2>1
  <2> QED BY <2>2
<1>5. \E x1 \in S : \A y \in S : x1 >= y
  BY <1>4
<1>6. (CHOOSE x1 \in S : \A y \in S : x1 >= y) \in S
  BY <1>5
<1> QED BY <1>6, Zenon DEF Evi!Max

LEMMA SweepIs ==
  ASSUME NEW w \in Int \X Int, NEW r \in Pass, NEW s \in Int \X Int, GAP_TOLERANCE \in Nat
  PROVE  Evi!Sweep(w, r, s) \in Pass
BY DEF Evi!Sweep, Pass, Evi!Later, Evi!Sooner

LEMMA CoverageIs ==
  ASSUME NEW q \in Seq(Evi!Intervals), NEW w \in Int \X Int, GAP_TOLERANCE \in Nat, Horizon \in Nat
  PROVE  \E f :
           /\ f[0] = Begun(w)
           /\ \A k \in 1..Len(q) : f[k] = Evi!Sweep(w, f[k - 1], q[k])
           /\ Evi!coverage_and_gaps(q, w) =
                [gaps |-> GapsOf(f[Len(q)], w),
                 covered |-> w[2] - w[1] - Cardinality(Evi!Recorded(GapsOf(f[Len(q)], w)))]
<1> DEFINE n == Len(q)
           S == 1..n
           Body(f) == [T \in SUBSET S |-> IF T = {} THEN Begun(w) ELSE Evi!Sweep(w, f[T \ {Evi!Max(T)}], q[Evi!Max(T)])]
           step == [p \in S \X Pass |-> Evi!Sweep(w, p[2], q[p[1]])]
           pick == [T \in (SUBSET S) \ {{}} |-> Evi!Max(T)]
<1>1. n \in Nat /\ DOMAIN q = S /\ \A k \in S : q[k] \in Evi!Intervals
  OBVIOUS
<1>2. \A k \in S : q[k] \in Int \X Int
  BY <1>1 DEF Evi!Intervals
<1>3. IsFiniteSet(S)
  BY <1>1, FS_Interval
<1>4. Begun(w) \in Pass
  BY DEF Begun, Pass
<1>5. pick \in [(SUBSET S) \ {{}} -> S] /\ \A T \in (SUBSET S) \ {{}} : pick[T] \in T
  <2>1. ASSUME NEW T \in (SUBSET S) \ {{}} PROVE Evi!Max(T) \in T
    BY <1>1, MaxOfPlaces
  <2> QED BY <2>1
<1>6. \A x \in S, v \in Pass : step[<<x, v>>] = Evi!Sweep(w, v, q[x])
  OBVIOUS
<1>7. step \in [S \X Pass -> Pass]
  <2>1. ASSUME NEW p \in S \X Pass PROVE Evi!Sweep(w, p[2], q[p[1]]) \in Pass
    BY <1>2, SweepIs
  <2> QED BY <2>1
<1>8. PICK g \in [SUBSET S -> Pass] :
         \A T \in SUBSET S : g[T] = IF T = {} THEN Begun(w) ELSE step[<<pick[T], g[T \ {pick[T]}]>>]
  <2> DEFINE base == Begun(w)
  <2>1. base \in Pass
    BY <1>4
  <2> HIDE DEF step, pick, S, n, base
  <2>2. \E g \in [SUBSET S -> Pass] : IsFold(g, S, base, step, pick)
    BY <1>3, <1>5, <1>7, <2>1, FoldExists
  <2> QED BY <2>2 DEF base, IsFold
<1>9. g = Body(g)
  <2>1. ASSUME NEW T \in SUBSET S PROVE g[T] = Body(g)[T]
    <3>1. CASE T = {}
      BY <1>8, <3>1
    <3>2. CASE T # {}
      <4>1. pick[T] \in S /\ pick[T] = Evi!Max(T) /\ T \ {pick[T]} \in SUBSET S
        BY <1>5, <3>2
      <4>2. g[T \ {pick[T]}] \in Pass
        BY <4>1
      <4>3. g[T] = step[<<pick[T], g[T \ {pick[T]}]>>]
        BY <1>8, <3>2
      <4>4. step[<<pick[T], g[T \ {pick[T]}]>>] = Evi!Sweep(w, g[T \ {pick[T]}], q[pick[T]])
        <5> HIDE DEF step, pick
        <5> QED BY <1>6, <4>1, <4>2
      <4> HIDE DEF step, pick
      <4> QED BY <3>2, <4>1, <4>3, <4>4
    <3> QED BY <3>1, <3>2
  <2>2. g \in [SUBSET S -> Pass] /\ Body(g) = [T \in SUBSET S |-> Body(g)[T]]
    OBVIOUS
  <2> HIDE DEF Body
  <2> QED BY <2>1, <2>2
<1> DEFINE c == SweepFold(q, w)
<1>10. c = Body(c)
  <2>1. \E f : f = Body(f)
    BY <1>9
  <2>2. c = CHOOSE f : f = Body(f)
    BY <1>1 DEF SweepFold
  <2> HIDE DEF Body, c
  <2> QED BY <2>1, <2>2
<1>11. Evi!coverage_and_gaps(q, w) =
          [gaps |-> GapsOf(c[S], w), covered |-> w[2] - w[1] - Cardinality(Evi!Recorded(GapsOf(c[S], w)))]
  <2>1. Evi!FoldLeft(LAMBDA r, s : Evi!Sweep(w, r, s), [cursor |-> w[1], gaps |-> {}], q) = c[DOMAIN q]
    BY Zenon DEF Evi!FoldLeft, Evi!MapThenFoldSet, SweepFold, Begun
  <2>2. Evi!coverage_and_gaps(q, w) =
          [gaps |-> GapsOf(c[DOMAIN q], w), covered |-> w[2] - w[1] - Evi!Cardinality(Evi!Recorded(GapsOf(c[DOMAIN q], w)))]
    <3> HIDE DEF c
    <3> QED BY <2>1, Zenon DEF Evi!coverage_and_gaps, GapsOf
  <2> HIDE DEF c
  <2> QED BY <1>1, <2>2, EvCards
<1> DEFINE h == [k \in 0..n |-> c[1..k]]
<1>12. h[0] = Begun(w)
  <2>1. 1..0 = {} /\ 0 \in 0..n
    BY <1>1
  <2>2. c[{}] = Begun(w)
    <3> HIDE DEF c
    <3> QED BY <1>10
  <2> HIDE DEF c
  <2> QED BY <2>1, <2>2
<1>13. ASSUME NEW k \in 1..n PROVE h[k] = Evi!Sweep(w, h[k - 1], q[k])
  <2>1. k \in Nat \ {0} /\ k \in 0..n /\ k - 1 \in 0..n
    BY <1>1
  <2>2. Evi!Max(1..k) = k /\ (1..k) \ {k} = 1..(k - 1)
    BY <2>1, LastPlace
  <2>3. 1..k \in SUBSET S /\ 1..k # {}
    BY <1>1, SMTT(60)
  <2>4. c[1..k] = Evi!Sweep(w, c[1..(k - 1)], q[k])
    <3> HIDE DEF c
    <3> QED BY <1>10, <2>2, <2>3, ZenonT(60)
  <2>5. h[k] = c[1..k] /\ h[k - 1] = c[1..(k - 1)]
    <3> HIDE DEF c
    <3> QED BY <2>1
  <2> HIDE DEF c, h
  <2> QED BY <2>4, <2>5
<1>14. h[n] = c[S]
  <2> HIDE DEF c
  <2> QED BY <1>1
<1> HIDE DEF h, c
<1> QED BY <1>11, <1>12, <1>13, <1>14

Among(q, k, t) == \E i \in 1..k : t \in Evi!Instants(q[i])
RangeOf(q) == {q[i] : i \in DOMAIN q}

(* What a pass knows once it has gone through the first k of the sources. *)
PassOk(q, w, k, r) ==
    /\ r \in Pass /\ w[1] <= r.cursor /\ r.cursor <= w[2]
    /\ r.cursor = w[1] \/ Among(q, k, r.cursor - 1)
    /\ \A i \in 1..k : \A t \in Evi!Instants(q[i]) : t < r.cursor \/ t >= w[2]
    /\ \A g \in r.gaps : /\ w[1] <= g[1] /\ g[2] <= r.cursor
                         /\ \A t \in Evi!Instants(g) : ~ Among(q, Len(q), t)
    /\ \A t \in w[1]..(r.cursor - 1) :
          t \in Evi!Recorded(r.gaps) \/ Among(q, k, t) \/ Evi!Tolerated(t, w, RangeOf(q))

LEMMA AmongIs ==
  ASSUME NEW q \in Seq(Evi!Intervals), NEW t
  PROVE  Among(q, Len(q), t) <=> t \in Evi!Recorded(RangeOf(q))
BY DEF Among, RangeOf, Evi!Recorded

LEMMA Interval ==
  ASSUME NEW s \in Evi!Intervals, Horizon \in Nat
  PROVE  /\ s \in Int \X Int /\ s[1] \in Nat /\ s[2] \in Nat /\ s[1] < s[2] /\ s[2] <= Horizon
         /\ \A t : t \in Evi!Instants(s) <=> t \in Int /\ s[1] <= t /\ t < s[2]
BY DEF Evi!Intervals, Evi!Instants

(* An empty stretch between two ends that are the window's or footage's is told or tolerated. *)
LEMMA Stretch ==
  ASSUME NEW q \in Seq(Evi!Intervals), NEW w \in Evi!Intervals, Horizon \in Nat, GAP_TOLERANCE \in Nat,
         NEW a \in Int, NEW b \in Int, w[1] <= a, a < b, b <= w[2], b - a <= GAP_TOLERANCE,
         \A t \in a..(b - 1) : ~ Among(q, Len(q), t),
         a = w[1] \/ Among(q, Len(q), a - 1), b = w[2] \/ Among(q, Len(q), b),
         NEW t \in a..(b - 1)
  PROVE  Evi!Tolerated(t, w, RangeOf(q))
<1> DEFINE i == <<a, b>>
<1>1. w[1] \in Nat /\ w[2] \in Nat /\ w[2] <= Horizon
  BY Interval
<1>2. i \in Evi!Intervals /\ i[1] = a /\ i[2] = b
  BY <1>1 DEF Evi!Intervals
<1>3. Evi!Instants(i) = a..(b - 1)
  BY DEF Evi!Instants
<1>4. Evi!Instants(i) \cap Evi!Recorded(RangeOf(q)) = {}
  BY <1>3, AmongIs
<1>5. i[1] = w[1] \/ i[1] - 1 \in Evi!Recorded(RangeOf(q))
  BY <1>2, AmongIs
<1>6. i[2] = w[2] \/ i[2] \in Evi!Recorded(RangeOf(q))
  BY <1>2, AmongIs
<1>7. t \in Evi!Instants(i) /\ i[2] - i[1] <= GAP_TOLERANCE
  BY <1>2, <1>3
<1> HIDE DEF i
<1> QED BY <1>2, <1>4, <1>5, <1>6, <1>7 DEF Evi!Tolerated

LEMMA PassBegins ==
  ASSUME NEW q \in Seq(Evi!Intervals), NEW w \in Evi!Intervals, Horizon \in Nat
  PROVE  PassOk(q, w, 0, Begun(w))
<1>1. w[1] \in Nat /\ w[2] \in Nat /\ w[1] < w[2]
  BY Interval
<1>2. Begun(w) \in Pass /\ Begun(w).cursor = w[1] /\ Begun(w).gaps = {}
  BY <1>1 DEF Begun, Pass
<1>3. 1..0 = {} /\ w[1]..(w[1] - 1) = {}
  BY <1>1
<1> QED BY <1>1, <1>2, <1>3 DEF PassOk

LEMMA PassGoesOn ==
  ASSUME NEW q, InOrder(q), NEW w \in Evi!Intervals, Horizon \in Nat, GAP_TOLERANCE \in Nat,
         NEW k \in 1..Len(q), NEW r, PassOk(q, w, k - 1, r)
  PROVE  PassOk(q, w, k, Evi!Sweep(w, r, q[k]))
<1> DEFINE s == q[k]
           cs == Evi!Later(s[1], w[1])
           ce == Evi!Sooner(s[2], w[2])
           c == r.cursor
           n == Evi!Sweep(w, r, s)
<1>1. q \in Seq(Evi!Intervals) /\ Len(q) \in Nat /\ s \in Evi!Intervals
  BY DEF InOrder
<1>2. /\ w[1] \in Nat /\ w[2] \in Nat /\ w[1] < w[2] /\ w \in Int \X Int
      /\ s[1] \in Nat /\ s[2] \in Nat /\ s[1] < s[2] /\ s \in Int \X Int
      /\ \A t : t \in Evi!Instants(s) <=> t \in Int /\ s[1] <= t /\ t < s[2]
  BY <1>1, Interval
<1>3. r \in Pass /\ c \in Int /\ w[1] <= c /\ c <= w[2]
  BY DEF PassOk, Pass
<1>4. /\ cs \in Int /\ s[1] <= cs /\ w[1] <= cs /\ (cs = s[1] \/ cs = w[1])
      /\ ce \in Int /\ ce <= s[2] /\ ce <= w[2] /\ (ce = s[2] \/ ce = w[2])
  BY <1>2 DEF Evi!Later, Evi!Sooner
<1>5. \A t : Among(q, k, t) <=> Among(q, k - 1, t) \/ t \in Evi!Instants(s)
  <2>1. \A i : i \in 1..k <=> i \in 1..(k - 1) \/ i = k
    BY <1>1
  <2> QED BY <2>1 DEF Among
<1>6. CASE ce <= cs
  <2>1. n = r
    BY <1>6, Zenon DEF Evi!Sweep
  <2>2. \A t \in Evi!Instants(s) : t < c \/ t >= w[2]
    BY <1>2, <1>3, <1>4, <1>6
  <2>3. \A i \in 1..k : \A t \in Evi!Instants(q[i]) : t < c \/ t >= w[2]
    <3>1. ASSUME NEW i \in 1..k, NEW t \in Evi!Instants(q[i]) PROVE t < c \/ t >= w[2]
      <4>1. CASE i = k
        BY <2>2, <4>1
      <4>2. CASE i # k
        <5>1. i \in 1..(k - 1)
          BY <1>1, <4>2
        <5> QED BY <5>1 DEF PassOk
      <4> QED BY <4>1, <4>2
    <3> QED BY <3>1
  <2>4. PassOk(q, w, k, r)
    <3> HIDE DEF s
    <3>1. r.cursor = w[1] \/ Among(q, k, r.cursor - 1)
      BY <1>5 DEF PassOk
    <3>2. \A t \in w[1]..(r.cursor - 1) :
             t \in Evi!Recorded(r.gaps) \/ Among(q, k, t) \/ Evi!Tolerated(t, w, RangeOf(q))
      BY <1>5 DEF PassOk
    <3> QED BY <2>3, <3>1, <3>2 DEF PassOk
  <2> QED BY <2>1, <2>4, Zenon
<1>7. CASE cs < ce
  <2> DEFINE new == IF cs - c > GAP_TOLERANCE THEN {<<c, cs>>} ELSE {}
             d == Evi!Later(ce, c)
  <2>1. n = [cursor |-> d, gaps |-> r.gaps \cup new]
    <3>1. ~ (ce <= cs)
      BY <1>4, <1>7
    <3> QED BY <3>1, Zenon DEF Evi!Sweep
  <2>2. d \in Int /\ ce <= d /\ c <= d /\ (d = ce \/ d = c) /\ d <= w[2]
    BY <1>3, <1>4 DEF Evi!Later
  <2>3. n \in Pass /\ n.cursor = d /\ n.gaps = r.gaps \cup new
    <3>1. r.gaps \in SUBSET (Int \X Int)
      BY <1>3 DEF Pass
    <3>2. new \in SUBSET (Int \X Int)
      BY <1>3, <1>4
    <3> HIDE DEF new, d, n
    <3> QED BY <2>1, <2>2, <3>1, <3>2 DEF Pass
  <2>4. ASSUME NEW i \in 1..k, NEW t \in Evi!Instants(q[i]) PROVE t < d \/ t >= w[2]
    <3>1. CASE i = k
      <4>1. t \in Int /\ t < s[2]
        BY <1>2, <2>4, <3>1
      <4> QED BY <1>2, <1>4, <2>2, <4>1
    <3>2. CASE i # k
      <4>1. i \in 1..(k - 1)
        BY <1>1, <3>2
      <4>2. t < c \/ t >= w[2]
        BY <2>4, <4>1 DEF PassOk
      <4>3. q[i] \in Evi!Intervals
        BY <1>1, <2>4
      <4>4. t \in Int
        BY <4>3, <2>4, Interval
      <4> QED BY <1>3, <2>2, <4>2, <4>4
    <3> QED BY <3>1, <3>2
  <2>5. Among(q, k, ce - 1)
    <3>1. ce - 1 \in Evi!Instants(s)
      BY <1>2, <1>4, <1>7
    <3> QED BY <1>5, <3>1
  <2>6. d = w[1] \/ Among(q, k, d - 1)
    <3>1. CASE d = ce
      BY <2>5, <3>1
    <3>2. CASE d = c
      <4>1. c = w[1] \/ Among(q, k - 1, c - 1)
        BY DEF PassOk
      <4> QED BY <1>5, <3>2, <4>1
    <3> QED BY <2>2, <3>1, <3>2
  (* The stretch up to this source is empty. *)
  <2>7. ASSUME c < cs
        PROVE  /\ cs = s[1] /\ cs < w[2] /\ Among(q, Len(q), cs)
               /\ \A t \in c..(cs - 1) : ~ Among(q, Len(q), t)
    <3>1. cs = s[1] /\ cs < w[2]
      <4>1. w[1] < cs
        BY <1>2, <1>3, <1>4, <2>7
      <4> HIDE DEF c, s
      <4> QED BY <1>2, <1>4, <1>7, <4>1
    <3>2. Among(q, Len(q), cs)
      <4>1. cs \in Evi!Instants(s)
        BY <1>2, <3>1
      <4> QED BY <4>1 DEF Among
    <3>3. ASSUME NEW t \in c..(cs - 1), NEW i \in 1..Len(q), t \in Evi!Instants(q[i]) PROVE FALSE
      <4>1. q[i] \in Evi!Intervals
        BY <1>1
      <4>2. t \in Int /\ q[i][1] \in Nat /\ q[i][1] <= t
        BY <3>3, <4>1, Interval
      <4>3. CASE i < k
        <5>1. i \in 1..(k - 1)
          BY <1>1, <4>3, SMTT(60)
        <5>2. t < c \/ t >= w[2]
          BY <3>3, <5>1 DEF PassOk
        <5> QED BY <1>2, <1>3, <1>4, <3>1, <3>3, <5>2
      <4>4. CASE i = k
        BY <1>2, <1>3, <1>4, <3>1, <3>3, <4>2, <4>4
      <4>5. CASE k < i
        <5>1. s[1] < q[i][1]
          BY <1>1, <4>5, SMTT(60) DEF InOrder
        <5> QED BY <1>2, <1>3, <1>4, <3>1, <3>3, <4>2, <5>1
      <4>6. i < k \/ i = k \/ k < i
        BY <1>1
      <4> QED BY <4>3, <4>4, <4>5, <4>6
    <3>4. \A t \in c..(cs - 1) : ~ Among(q, Len(q), t)
      BY <3>3 DEF Among
    <3> QED BY <3>1, <3>2, <3>4
  <2>8. ASSUME NEW g \in n.gaps
        PROVE  w[1] <= g[1] /\ g[2] <= d /\ \A t \in Evi!Instants(g) : ~ Among(q, Len(q), t)
    <3>1. CASE g \in r.gaps
      <4>1. w[1] <= g[1] /\ g[2] <= c /\ \A t \in Evi!Instants(g) : ~ Among(q, Len(q), t)
        BY <3>1 DEF PassOk
      <4>2. g[2] \in Int
        BY <1>3, <3>1 DEF Pass
      <4> QED BY <1>3, <2>2, <4>1, <4>2
    <3>2. CASE g \notin r.gaps
      <4>1. cs - c > GAP_TOLERANCE /\ g = <<c, cs>>
        BY <2>3, <2>8, <3>2
      <4>2. c < cs /\ g[1] = c /\ g[2] = cs /\ Evi!Instants(g) = c..(cs - 1)
        BY <1>3, <1>4, <4>1 DEF Evi!Instants
      <4>3. cs <= d
        BY <1>4, <1>7, <2>2
      <4> QED BY <1>3, <2>7, <4>2, <4>3
    <3> QED BY <3>1, <3>2
  <2>9. ASSUME NEW t \in w[1]..(d - 1)
        PROVE  t \in Evi!Recorded(n.gaps) \/ Among(q, k, t) \/ Evi!Tolerated(t, w, RangeOf(q))
    <3>0. t \in Int /\ w[1] <= t /\ t < d
      BY <1>2, <2>2
    <3>1. CASE t < c
      <4>1. t \in w[1]..(c - 1)
        BY <1>2, <1>3, <3>0, <3>1
      <4>2. t \in Evi!Recorded(r.gaps) \/ Among(q, k - 1, t) \/ Evi!Tolerated(t, w, RangeOf(q))
        BY <4>1 DEF PassOk
      <4>3. t \in Evi!Recorded(r.gaps) => t \in Evi!Recorded(n.gaps)
        BY <2>3 DEF Evi!Recorded
      <4> QED BY <1>5, <4>2, <4>3
    <3>2. CASE c <= t /\ t < cs
      <4>1. t \in c..(cs - 1) /\ c < cs
        BY <1>3, <1>4, <3>0, <3>2
      <4>2. CASE cs - c > GAP_TOLERANCE
        <5>1. <<c, cs>> \in n.gaps
          BY <2>3, <4>2
        <5>2. t \in Evi!Instants(<<c, cs>>)
          BY <4>1 DEF Evi!Instants
        <5> QED BY <5>1, <5>2 DEF Evi!Recorded
      <4>3. CASE ~ (cs - c > GAP_TOLERANCE)
        <5>1. c = w[1] \/ Among(q, Len(q), c - 1)
          <6>1. c = w[1] \/ Among(q, k - 1, c - 1)
            BY DEF PassOk
          <6>2. Among(q, k - 1, c - 1) => Among(q, Len(q), c - 1)
            <7>1. \A i \in 1..(k - 1) : i \in 1..Len(q)
              BY <1>1
            <7> QED BY <7>1 DEF Among
          <6> QED BY <6>1, <6>2
        <5>2. cs - c <= GAP_TOLERANCE /\ cs <= w[2]
          BY <1>2, <1>3, <1>4, <2>7, <4>1, <4>3, SMTT(60)
        <5> HIDE DEF cs, c
        <5> QED BY <1>1, <1>3, <1>4, <2>7, <4>1, <5>1, <5>2, Stretch
      <4> QED BY <4>2, <4>3
    <3>3. CASE cs <= t /\ c <= t
      <4>1. t < ce
        BY <1>3, <1>4, <2>2, <3>0, <3>3
      <4>2. t \in Evi!Instants(s)
        BY <1>2, <1>4, <3>0, <3>3, <4>1
      <4> QED BY <1>5, <4>2
    <3>4. t < c \/ (c <= t /\ t < cs) \/ (cs <= t /\ c <= t)
      BY <1>3, <1>4, <3>0, SMTT(60)
    <3> QED BY <3>1, <3>2, <3>3, <3>4
  <2>10. w[1] <= d
    BY <1>2, <1>3, <2>2
  <2>11. PassOk(q, w, k, n)
    <3> HIDE DEF n, d, c, cs, ce
    <3> QED BY <2>2, <2>3, <2>4, <2>6, <2>8, <2>9, <2>10 DEF PassOk
  <2> QED BY <2>11
<1>8. ce <= cs \/ cs < ce
  BY <1>4, SMTT(60)
<1> QED BY <1>6, <1>7, <1>8

(* What an export says its window covers, of the segments it says it took. *)
Covers(q, w, spaces, covered) ==
    /\ Evi!Recorded(spaces) \subseteq Evi!Instants(w) \ Evi!Recorded(RangeOf(q))
    /\ \A t \in Evi!Instants(w) :
          t \in Evi!Recorded(spaces) \/ t \in Evi!Recorded(RangeOf(q)) \/ Evi!Tolerated(t, w, RangeOf(q))
    /\ covered = Cardinality(Evi!Instants(w) \ Evi!Recorded(spaces))

LEMMA WindowCount ==
  ASSUME NEW w \in Evi!Intervals, Horizon \in Nat, NEW G \in SUBSET Evi!Instants(w)
  PROVE  w[2] - w[1] - Cardinality(G) = Cardinality(Evi!Instants(w) \ G)
<1>1. w[1] \in Nat /\ w[2] \in Nat /\ w[1] < w[2]
  BY Interval
<1>2. w[1] \in Int /\ w[2] - 1 \in Int
  BY <1>1
<1>3. Evi!Instants(w) = w[1]..(w[2] - 1)
  BY DEF Evi!Instants
<1>4. IsFiniteSet(w[1]..(w[2] - 1)) /\ Cardinality(w[1]..(w[2] - 1)) = IF w[1] > w[2] - 1 THEN 0 ELSE (w[2] - 1) - w[1] + 1
  BY <1>2, FS_Interval
<1>5. IsFiniteSet(Evi!Instants(w)) /\ Cardinality(Evi!Instants(w)) = w[2] - w[1]
  BY <1>1, <1>3, <1>4
<1>6. Cardinality(Evi!Instants(w) \ G) = Cardinality(Evi!Instants(w)) - Cardinality(Evi!Instants(w) \cap G)
  BY <1>5, FS_Difference
<1>7. Evi!Instants(w) \cap G = G
  OBVIOUS
<1> QED BY <1>5, <1>6, <1>7

LEMMA PassEnds ==
  ASSUME NEW q, InOrder(q), NEW w \in Evi!Intervals, Horizon \in Nat, GAP_TOLERANCE \in Nat,
         NEW r, PassOk(q, w, Len(q), r)
  PROVE  Covers(q, w, GapsOf(r, w), w[2] - w[1] - Cardinality(Evi!Recorded(GapsOf(r, w))))
<1> DEFINE c == r.cursor
           n == Len(q)
           last == IF w[2] - c > GAP_TOLERANCE THEN {<<c, w[2]>>} ELSE {}
           spaces == r.gaps \cup last
<1>1. q \in Seq(Evi!Intervals) /\ n \in Nat /\ GapsOf(r, w) = spaces
  <2>1. q \in Seq(Evi!Intervals)
    BY DEF InOrder
  <2>2. GapsOf(r, w) = spaces
    BY Zenon DEF GapsOf
  <2> QED BY <2>1, <2>2
<1>2. w[1] \in Nat /\ w[2] \in Nat /\ w[1] < w[2] /\ Evi!Instants(w) = w[1]..(w[2] - 1)
  BY Interval DEF Evi!Instants
<1>3. r \in Pass /\ c \in Int /\ w[1] <= c /\ c <= w[2] /\ r.gaps \in SUBSET (Int \X Int)
  <2>1. r \in Pass /\ w[1] <= c /\ c <= w[2]
    BY DEF PassOk
  <2> QED BY <2>1 DEF Pass
<1>4. \A t \in c..(w[2] - 1) : ~ Among(q, n, t)
  <2>1. ASSUME NEW t \in c..(w[2] - 1), NEW i \in 1..n, t \in Evi!Instants(q[i]) PROVE FALSE
    <3>1. t < c \/ t >= w[2]
      BY <2>1 DEF PassOk
    <3>2. t \in Int /\ c <= t /\ t < w[2]
      BY <1>2, <1>3
    <3> QED BY <1>2, <1>3, <3>1, <3>2
  <2> QED BY <2>1 DEF Among
<1>5. ASSUME NEW g \in spaces
      PROVE  w[1] <= g[1] /\ g[2] <= w[2] /\ g \in Int \X Int /\ \A t \in Evi!Instants(g) : ~ Among(q, n, t)
  <2>1. CASE g \in r.gaps
    <3>1. w[1] <= g[1] /\ g[2] <= c /\ \A t \in Evi!Instants(g) : ~ Among(q, n, t)
      BY <2>1 DEF PassOk
    <3>2. g \in Int \X Int /\ g[2] \in Int
      BY <1>3, <2>1
    <3> QED BY <1>2, <1>3, <3>1, <3>2
  <2>2. CASE g \in last
    <3>1. g = <<c, w[2]>>
      BY <2>2
    <3>2. g[1] = c /\ g[2] = w[2] /\ Evi!Instants(g) = c..(w[2] - 1) /\ g \in Int \X Int
      BY <1>2, <1>3, <3>1 DEF Evi!Instants
    <3> HIDE DEF c, n
    <3> QED BY <1>2, <1>3, <1>4, <3>2
  <2> QED BY <2>1, <2>2
<1>6. Evi!Recorded(spaces) \subseteq Evi!Instants(w) \ Evi!Recorded(RangeOf(q))
  <2>1. ASSUME NEW t \in Evi!Recorded(spaces) PROVE t \in Evi!Instants(w) /\ t \notin Evi!Recorded(RangeOf(q))
    <3>1. PICK g \in spaces : t \in Evi!Instants(g)
      BY Zenon DEF Evi!Recorded
    <3>2. g[1] \in Int /\ g[2] \in Int /\ w[1] <= g[1] /\ g[2] <= w[2] /\ ~ Among(q, n, t)
      BY <1>5, <3>1
    <3>3. t \in g[1]..(g[2] - 1)
      BY <3>1 DEF Evi!Instants
    <3>4. t \in w[1]..(w[2] - 1)
      BY <1>2, <3>2, <3>3
    <3> QED BY <1>1, <1>2, <3>2, <3>4, AmongIs
  <2> QED BY <2>1
<1>7. ASSUME NEW t \in Evi!Instants(w)
      PROVE  t \in Evi!Recorded(spaces) \/ t \in Evi!Recorded(RangeOf(q)) \/ Evi!Tolerated(t, w, RangeOf(q))
  <2>1. t \in Int /\ w[1] <= t /\ t < w[2]
    BY <1>2
  <2>2. CASE t < c
    <3>1. t \in w[1]..(c - 1)
      BY <1>2, <1>3, <2>1, <2>2
    <3>2. t \in Evi!Recorded(r.gaps) \/ Among(q, n, t) \/ Evi!Tolerated(t, w, RangeOf(q))
      BY <3>1 DEF PassOk
    <3>3. t \in Evi!Recorded(r.gaps) => t \in Evi!Recorded(spaces)
      BY DEF Evi!Recorded
    <3> QED BY <1>1, <3>2, <3>3, AmongIs
  <2>3. CASE c <= t
    <3>1. t \in c..(w[2] - 1) /\ c < w[2]
      BY <1>2, <1>3, <2>1, <2>3
    <3>2. CASE w[2] - c > GAP_TOLERANCE
      <4>1. <<c, w[2]>> \in spaces
        BY <3>2
      <4>2. t \in Evi!Instants(<<c, w[2]>>)
        BY <3>1 DEF Evi!Instants
      <4> QED BY <4>1, <4>2 DEF Evi!Recorded
    <3>3. CASE ~ (w[2] - c > GAP_TOLERANCE)
      <4>1. c = w[1] \/ Among(q, n, c - 1)
        BY SMTT(60) DEF PassOk
      <4>2. w[2] - c <= GAP_TOLERANCE /\ w[2] \in Int /\ w[2] <= w[2]
        BY <1>2, <1>3, <3>3
      <4> HIDE DEF c
      <4> QED BY <1>1, <1>3, <1>4, <3>1, <4>1, <4>2, Stretch
    <3> QED BY <3>2, <3>3
  <2> QED BY <1>3, <2>1, <2>2, <2>3
<1>8. Evi!Recorded(spaces) \in SUBSET Evi!Instants(w)
  BY <1>6
<1> HIDE DEF spaces
<1>9. w[2] - w[1] - Cardinality(Evi!Recorded(spaces)) = Cardinality(Evi!Instants(w) \ Evi!Recorded(spaces))
  BY <1>8, WindowCount
<1> QED BY <1>1, <1>6, <1>7, <1>9 DEF Covers

LEMMA CoverageHolds ==
  ASSUME NEW q, InOrder(q), NEW w \in Evi!Intervals, Horizon \in Nat, GAP_TOLERANCE \in Nat
  PROVE  Covers(q, w, Evi!coverage_and_gaps(q, w).gaps, Evi!coverage_and_gaps(q, w).covered)
<1> DEFINE n == Len(q)
           cov == Evi!coverage_and_gaps(q, w)
<1>1. q \in Seq(Evi!Intervals) /\ n \in Nat /\ w \in Int \X Int
  BY Interval DEF InOrder
<1>2. PICK f : /\ f[0] = Begun(w)
               /\ \A k \in 1..n : f[k] = Evi!Sweep(w, f[k - 1], q[k])
               /\ cov = [gaps |-> GapsOf(f[n], w),
                         covered |-> w[2] - w[1] - Cardinality(Evi!Recorded(GapsOf(f[n], w)))]
  BY <1>1, CoverageIs
<1> HIDE DEF cov
<1> DEFINE T == {k \in 0..n : PassOk(q, w, k, f[k])}
<1>3. 0 \in T
  <2>1. PassOk(q, w, 0, f[0])
    BY <1>1, <1>2, PassBegins
  <2> QED BY <1>1, <2>1
<1>4. ASSUME NEW k \in 1..n, k - 1 \in T PROVE k \in T
  <2>1. PassOk(q, w, k - 1, f[k - 1])
    BY <1>4
  <2>2. PassOk(q, w, k, Evi!Sweep(w, f[k - 1], q[k]))
    BY <2>1, PassGoesOn
  <2>3. PassOk(q, w, k, f[k])
    BY <1>2, <2>2
  <2>4. k \in 0..n
    BY <1>1
  <2> QED BY <2>3, <2>4
<1>5. n \in T
  <2> HIDE DEF T, n
  <2>1. \A k \in 0..n : k \in T
    BY <1>1, <1>3, <1>4, UpTo
  <2> QED BY <1>1, <2>1
<1>6. PassOk(q, w, n, f[n])
  BY <1>5
<1>7. Covers(q, w, GapsOf(f[n], w), w[2] - w[1] - Cardinality(Evi!Recorded(GapsOf(f[n], w))))
  BY <1>6, PassEnds
<1>8. cov.gaps = GapsOf(f[n], w) /\ cov.covered = w[2] - w[1] - Cardinality(Evi!Recorded(GapsOf(f[n], w)))
  BY <1>2
<1>9. Covers(q, w, cov.gaps, cov.covered)
  BY <1>7, <1>8
<1> QED BY <1>9 DEF cov

-----------------------------------------------------------------------------
(* Evidence: the clip.                                                     *)

Shown(s) == [i \in 1 .. s[2] - s[1] |-> s[1] + i - 1]
ShowFold(q) ==
    CHOOSE f : f = [S \in SUBSET (DOMAIN q) |-> IF S = {} THEN <<>>
                                                ELSE f[S \ {Evi!Max(S)}] \o Shown(q[Evi!Max(S)])]
InPlay(q) == Evi!FoldLeft(LAMBDA tl, s : tl \o [i \in 1 .. s[2] - s[1] |-> s[1] + i - 1], <<>>, q)

LEMMA ShownIs ==
  ASSUME NEW s \in Evi!Intervals, Horizon \in Nat
  PROVE  /\ Shown(s) \in Seq(Int) /\ Len(Shown(s)) = s[2] - s[1]
         /\ \A t \in Evi!Instants(s) : t - s[1] + 1 \in 1..Len(Shown(s)) /\ Shown(s)[t - s[1] + 1] = t
<1>1. s[1] \in Nat /\ s[2] \in Nat /\ s[1] < s[2] /\ \A t : t \in Evi!Instants(s) <=> t \in Int /\ s[1] <= t /\ t < s[2]
  BY Interval
<1> DEFINE n == s[2] - s[1]
<1>2. n \in Nat
  BY <1>1
<1>3. Shown(s) \in [1..n -> Int]
  BY <1>1, <1>2 DEF Shown
<1>4. Shown(s) \in Seq(Int) /\ Len(Shown(s)) = n
  <2> HIDE DEF n
  <2> QED BY <1>2, <1>3
<1>5. ASSUME NEW t \in Evi!Instants(s) PROVE t - s[1] + 1 \in 1..n /\ Shown(s)[t - s[1] + 1] = t
  <2>1. t - s[1] + 1 \in 1..n
    BY <1>1
  <2>2. \A i \in 1..n : Shown(s)[i] = s[1] + i - 1
    BY DEF Shown
  <2>3. Shown(s)[t - s[1] + 1] = s[1] + (t - s[1] + 1) - 1
    <3> HIDE DEF n
    <3> QED BY <2>1, <2>2
  <2>4. t \in Int /\ s[1] \in Int
    BY <1>1
  <2> HIDE DEF n
  <2> QED BY <2>1, <2>3, <2>4
<1> QED BY <1>4, <1>5

LEMMA InPlayIs ==
  ASSUME NEW q \in Seq(Evi!Intervals), Horizon \in Nat
  PROVE  \E f : f[0] = <<>> /\ (\A k \in 1..Len(q) : f[k] = f[k - 1] \o Shown(q[k])) /\ InPlay(q) = f[Len(q)]
<1> DEFINE n == Len(q)
           S == 1..n
           V == Seq(Int)
           Body(f) == [T \in SUBSET S |-> IF T = {} THEN <<>> ELSE f[T \ {Evi!Max(T)}] \o Shown(q[Evi!Max(T)])]
           step == [p \in S \X V |-> p[2] \o Shown(q[p[1]])]
           pick == [T \in (SUBSET S) \ {{}} |-> Evi!Max(T)]
<1>1. n \in Nat /\ DOMAIN q = S /\ \A k \in S : q[k] \in Evi!Intervals
  OBVIOUS
<1>2. \A k \in S : Shown(q[k]) \in V
  BY <1>1, ShownIs
<1>3. IsFiniteSet(S)
  BY <1>1, FS_Interval
<1>4. <<>> \in V
  OBVIOUS
<1>5. pick \in [(SUBSET S) \ {{}} -> S] /\ \A T \in (SUBSET S) \ {{}} : pick[T] \in T
  <2>1. ASSUME NEW T \in (SUBSET S) \ {{}} PROVE Evi!Max(T) \in T
    BY <1>1, MaxOfPlaces
  <2> QED BY <2>1
<1>6. \A x \in S, v \in V : step[<<x, v>>] = v \o Shown(q[x])
  <2> HIDE DEF V
  <2> QED OBVIOUS
<1>7. step \in [S \X V -> V]
  <2>1. ASSUME NEW p \in S \X V PROVE p[2] \o Shown(q[p[1]]) \in V
    <3>1. p[2] \in V /\ p[1] \in S
      OBVIOUS
    <3> QED BY <1>2, <3>1
  <2> HIDE DEF V
  <2> QED BY <2>1
<1>8. PICK g \in [SUBSET S -> V] :
         \A T \in SUBSET S : g[T] = IF T = {} THEN <<>> ELSE step[<<pick[T], g[T \ {pick[T]}]>>]
  <2> DEFINE base == <<>>
  <2>1. base \in V
    BY <1>4
  <2> HIDE DEF step, pick, S, n, base, V
  <2>2. \E g \in [SUBSET S -> V] : IsFold(g, S, base, step, pick)
    BY <1>3, <1>5, <1>7, <2>1, FoldExists
  <2> QED BY <2>2 DEF base, IsFold
<1>9. g = Body(g)
  <2>1. ASSUME NEW T \in SUBSET S PROVE g[T] = Body(g)[T]
    <3>1. CASE T = {}
      BY <1>8, <3>1
    <3>2. CASE T # {}
      <4>1. pick[T] \in S /\ pick[T] = Evi!Max(T) /\ T \ {pick[T]} \in SUBSET S
        BY <1>5, <3>2
      <4>2. g[T \ {pick[T]}] \in V
        <5> HIDE DEF V
        <5> QED BY <4>1
      <4>3. g[T] = step[<<pick[T], g[T \ {pick[T]}]>>]
        BY <1>8, <3>2
      <4>4. step[<<pick[T], g[T \ {pick[T]}]>>] = g[T \ {pick[T]}] \o Shown(q[pick[T]])
        <5> HIDE DEF step, pick, V
        <5> QED BY <1>6, <4>1, <4>2
      <4> HIDE DEF step, pick
      <4> QED BY <3>2, <4>1, <4>3, <4>4
    <3> QED BY <3>1, <3>2
  <2>2. g \in [SUBSET S -> V] /\ Body(g) = [T \in SUBSET S |-> Body(g)[T]]
    <3> HIDE DEF V
    <3> QED OBVIOUS
  <2> HIDE DEF Body
  <2> QED BY <2>1, <2>2
<1> DEFINE c == ShowFold(q)
<1>10. c = Body(c)
  <2>1. \E f : f = Body(f)
    BY <1>9
  <2>2. c = CHOOSE f : f = Body(f)
    BY <1>1 DEF ShowFold
  <2> HIDE DEF Body, c
  <2> QED BY <2>1, <2>2
<1>11. InPlay(q) = c[S]
  <2>1. InPlay(q) = c[DOMAIN q]
    BY Zenon DEF InPlay, Evi!FoldLeft, Evi!MapThenFoldSet, ShowFold, Shown
  <2> HIDE DEF c
  <2> QED BY <1>1, <2>1
<1> DEFINE h == [k \in 0..n |-> c[1..k]]
<1>12. h[0] = <<>>
  <2>1. 1..0 = {} /\ 0 \in 0..n
    BY <1>1
  <2>2. c[{}] = <<>>
    <3> HIDE DEF c
    <3> QED BY <1>10
  <2> HIDE DEF c
  <2> QED BY <2>1, <2>2
<1>13. ASSUME NEW k \in 1..n PROVE h[k] = h[k - 1] \o Shown(q[k])
  <2>1. k \in Nat \ {0} /\ k \in 0..n /\ k - 1 \in 0..n
    BY <1>1
  <2>2. Evi!Max(1..k) = k /\ (1..k) \ {k} = 1..(k - 1)
    BY <2>1, LastPlace
  <2>3. 1..k \in SUBSET S /\ 1..k # {}
    BY <1>1
  <2>4. c[1..k] = c[1..(k - 1)] \o Shown(q[k])
    <3> HIDE DEF c
    <3> QED BY <1>10, <2>2, <2>3, ZenonT(60)
  <2>5. h[k] = c[1..k] /\ h[k - 1] = c[1..(k - 1)]
    <3> HIDE DEF c
    <3> QED BY <2>1
  <2> QED BY <2>4, <2>5
<1>14. h[n] = c[S]
  <2> HIDE DEF c
  <2> QED BY <1>1
<1> HIDE DEF h, c
<1> QED BY <1>11, <1>12, <1>13, <1>14

ApartIn(q) == \A i, j \in 1..Len(q) : i < j => q[i][2] <= q[j][1]

LEMMA DisjointApart ==
  ASSUME NEW q, InOrder(q), Evi!Disjoint(RangeOf(q)), Horizon \in Nat
  PROVE  ApartIn(q)
<1>1. q \in Seq(Evi!Intervals) /\ DOMAIN q = 1..Len(q)
  BY DEF InOrder
<1>2. ASSUME NEW i \in 1..Len(q), NEW j \in 1..Len(q), i < j, ~ (q[i][2] <= q[j][1]) PROVE FALSE
  <2>1. q[i] \in Evi!Intervals /\ q[j] \in Evi!Intervals /\ q[i] \in RangeOf(q) /\ q[j] \in RangeOf(q)
    BY <1>1 DEF RangeOf
  <2>2. q[i][1] < q[j][1]
    BY <1>2 DEF InOrder
  <2>3. /\ q[i][1] \in Nat /\ q[i][2] \in Nat /\ q[j][1] \in Nat /\ q[j][2] \in Nat /\ q[j][1] < q[j][2]
        /\ \A t : t \in Evi!Instants(q[i]) <=> t \in Int /\ q[i][1] <= t /\ t < q[i][2]
        /\ \A t : t \in Evi!Instants(q[j]) <=> t \in Int /\ q[j][1] <= t /\ t < q[j][2]
    BY <2>1, Interval
  <2>4. q[j][1] \in Evi!Instants(q[i]) /\ q[j][1] \in Evi!Instants(q[j])
    BY <1>2, <2>2, <2>3
  <2>5. q[i] # q[j]
    BY <2>2, <2>3
  <2> QED BY <2>1, <2>4, <2>5 DEF Evi!Disjoint
<1> QED BY <1>2 DEF ApartIn

(* The concatenation of the first k sources: it is no longer than the time they span, the first
   source lies at its beginning, and what comes after lies behind it. *)
PlayOk(q, k, tl) ==
    /\ tl \in Seq(Int)
    /\ k = 0 => Len(tl) = 0
    /\ k >= 1 => Len(tl) <= q[k][2] - q[1][1] /\ Len(tl) >= q[1][2] - q[1][1]
    /\ \A i \in 1..k : \A t \in Evi!Instants(q[i]) :
          \E j \in 1..Len(tl) : /\ tl[j] = t /\ j <= t - q[1][1] + 1
                                /\ j >= t - q[1][1] + 1 \/ j > q[1][2] - q[1][1]

LEMMA PlayGoesOn ==
  ASSUME NEW q, InOrder(q), ApartIn(q), Horizon \in Nat, NEW k \in 1..Len(q), NEW tl, PlayOk(q, k - 1, tl)
  PROVE  PlayOk(q, k, tl \o Shown(q[k]))
<1> DEFINE m == Shown(q[k])
           new == tl \o m
           len == Len(tl)
           len1 == q[1][2] - q[1][1]
<1>1. q \in Seq(Evi!Intervals) /\ Len(q) \in Nat /\ 1 \in 1..Len(q) /\ k \in Nat
  BY DEF InOrder
<1>2. ASSUME NEW i \in 1..Len(q)
      PROVE /\ q[i] \in Evi!Intervals
            /\ q[i][1] \in Nat /\ q[i][2] \in Nat /\ q[i][1] < q[i][2]
            /\ \A t : t \in Evi!Instants(q[i]) <=> t \in Int /\ q[i][1] <= t /\ t < q[i][2]
  BY <1>1, Interval
<1>3. m \in Seq(Int) /\ Len(m) = q[k][2] - q[k][1]
      /\ \A t \in Evi!Instants(q[k]) : t - q[k][1] + 1 \in 1..Len(m) /\ m[t - q[k][1] + 1] = t
  BY <1>2, ShownIs
<1>4. tl \in Seq(Int) /\ len \in Nat
  BY DEF PlayOk
<1> HIDE DEF m
<1>5. new \in Seq(Int) /\ Len(new) = len + Len(m)
      /\ (\A j \in 1..len : new[j] = tl[j]) /\ \A j \in 1..Len(m) : new[len + j] = m[j]
  <2>0. tl \in Seq(Int) /\ m \in Seq(Int)
    BY <1>3, <1>4
  <2>1. new \in Seq(Int) /\ Len(new) = len + Len(m)
    BY <2>0
  <2>2. \A j \in 1..len : new[j] = tl[j]
    BY <1>3, <1>4
  <2>3. Len(m) \in Nat
    BY <1>3
  <2>4. \A j \in 1..Len(m) : new[len + j] = m[j]
    BY <2>0, SMTT(60)
  <2> QED BY <2>1, <2>2, <2>4
<1>6. /\ k = 1 => len = 0
      /\ k > 1 => /\ len <= q[k][1] - q[1][1] /\ len >= len1
  <2>1. CASE k = 1
    BY <2>1 DEF PlayOk
  <2>2. CASE k # 1
    <3>1. k - 1 >= 1 /\ k - 1 \in 1..Len(q) /\ k - 1 < k
      BY <1>1, <2>2, SMTT(60)
    <3>2. len <= q[k - 1][2] - q[1][1] /\ len >= len1
      BY <3>1 DEF PlayOk
    <3>3. q[k - 1][2] <= q[k][1]
      BY <3>1 DEF ApartIn
    <3>4. q[k - 1][2] \in Nat /\ q[k][1] \in Nat /\ q[1][1] \in Nat
      BY <1>1, <1>2, <3>1
    <3> QED BY <1>1, <1>4, <2>2, <3>2, <3>3, <3>4
  <2> QED BY <2>1, <2>2
<1>7. /\ q[1][1] \in Nat /\ q[1][2] \in Nat /\ q[1][1] < q[1][2] /\ len1 \in Nat
      /\ q[k][1] \in Nat /\ q[k][2] \in Nat /\ q[k][1] < q[k][2]
  BY <1>1, <1>2
<1> HIDE DEF new, len
<1>8. Len(new) <= q[k][2] - q[1][1] /\ Len(new) >= len1
  <2>1. Len(new) = len + (q[k][2] - q[k][1])
    BY <1>3, <1>5
  <2>2. len \in Nat
    BY <1>4 DEF len
  <2>3. CASE k = 1
    BY <1>6, <1>7, <2>1, <2>3
  <2>4. CASE k > 1
    <3> HIDE DEF len1
    <3> QED BY <1>6, <1>7, <2>1, <2>2, <2>4, SMTT(60)
  <2> QED BY <1>1, <2>3, <2>4
<1>9. ASSUME NEW i \in 1..k, NEW t \in Evi!Instants(q[i])
      PROVE  \E j \in 1..Len(new) : new[j] = t /\ j <= t - q[1][1] + 1 /\ (j >= t - q[1][1] + 1 \/ j > len1)
  <2>1. CASE i # k
    <3>1. i \in 1..(k - 1)
      BY <1>1, <2>1
    <3>2. PICK j \in 1..len : tl[j] = t /\ j <= t - q[1][1] + 1 /\ (j >= t - q[1][1] + 1 \/ j > len1)
      <4>1. \E j \in 1..Len(tl) : tl[j] = t /\ j <= t - q[1][1] + 1 /\ (j >= t - q[1][1] + 1 \/ j > q[1][2] - q[1][1])
        <5>1. \A i1 \in 1..(k - 1) : \A t1 \in Evi!Instants(q[i1]) :
                 \E j \in 1..Len(tl) : /\ tl[j] = t1 /\ j <= t1 - q[1][1] + 1
                                       /\ j >= t1 - q[1][1] + 1 \/ j > q[1][2] - q[1][1]
          BY Zenon DEF PlayOk
        <5> QED BY <3>1, <5>1
      <4> QED BY <4>1 DEF len
    <3>3. j \in 1..Len(new) /\ new[j] = t
      <4>1. Len(m) \in Nat /\ len \in Nat
        BY <1>3, <1>4 DEF len
      <4> QED BY <1>5, <3>2, <4>1
    <3> QED BY <3>2, <3>3
  <2>2. CASE i = k
    <3> DEFINE d == t - q[k][1] + 1
    <3>1. d \in 1..Len(m) /\ m[d] = t /\ t \in Int /\ q[k][1] <= t
      BY <1>2, <1>3, <2>2
    <3>2. len + d \in 1..Len(new) /\ new[len + d] = t /\ d \in Nat /\ d >= 1
      <4>1. Len(m) \in Nat /\ len \in Nat
        BY <1>3, <1>4 DEF len
      <4> HIDE DEF d
      <4>2. d \in Nat /\ d >= 1 /\ d <= Len(m)
        BY <3>1, <4>1
      <4>3. Len(new) = len + Len(m)
        BY <1>5
      <4>4. len + d \in 1..Len(new)
        BY <4>1, <4>2, <4>3
      <4>5. new[len + d] = m[d]
        <5>1. \A j \in 1..Len(m) : new[len + j] = m[j]
          BY <1>5
        <5> QED BY <3>1, <5>1
      <4> QED BY <3>1, <4>2, <4>4, <4>5
    <3>3. len + d <= t - q[1][1] + 1 /\ (len + d >= t - q[1][1] + 1 \/ len + d > len1)
      <4>0. len \in Nat
        BY <1>4 DEF len
      <4>1. CASE k = 1
        BY <1>6, <1>7, <3>1, <4>0, <4>1
      <4>2. CASE k # 1
        <5>1. k > 1
          BY <1>1, <4>2
        <5>2. len <= q[k][1] - q[1][1] /\ len >= len1
          BY <1>6, <5>1
        <5>3. t \in Int /\ d \in Nat /\ d >= 1 /\ d = t - q[k][1] + 1 /\ q[k][1] \in Nat /\ q[1][1] \in Nat /\ len1 \in Nat
          <6>1. t \in Int
            BY <3>1
          <6>2. d \in Nat /\ d >= 1
            BY <3>2
          <6> QED BY <1>7, <6>1, <6>2
        <5> HIDE DEF len1, d
        <5>4. len + d <= t - q[1][1] + 1
          <6>1. \A a, b, l, x, y \in Int : l <= a - b /\ y = x - a + 1 => l + y <= x - b + 1
            OBVIOUS
          <6>2. q[k][1] \in Int /\ q[1][1] \in Int /\ len \in Int /\ t \in Int /\ d \in Int
            BY <4>0, <5>3
          <6> HIDE DEF len
          <6> QED BY <5>2, <5>3, <6>1, <6>2
        <5>5. len + d > len1
          BY <4>0, <5>2, <5>3, SMTT(60)
        <5> QED BY <5>4, <5>5
      <4> QED BY <4>1, <4>2
    <3> HIDE DEF d
    <3> QED BY <3>2, <3>3
  <2> QED BY <2>1, <2>2
<1>10. PlayOk(q, k, new)
  <2>1. k # 0
    BY <1>1
  <2> QED BY <1>5, <1>8, <1>9, <2>1 DEF PlayOk
<1> QED BY <1>10 DEF new, m

LEMMA PlayHolds ==
  ASSUME NEW q, InOrder(q), ApartIn(q), Horizon \in Nat
  PROVE  PlayOk(q, Len(q), InPlay(q))
<1> DEFINE n == Len(q)
<1>1. q \in Seq(Evi!Intervals) /\ n \in Nat
  BY DEF InOrder
<1>2. PICK f : f[0] = <<>> /\ (\A k \in 1..n : f[k] = f[k - 1] \o Shown(q[k])) /\ InPlay(q) = f[n]
  BY <1>1, InPlayIs
<1> DEFINE T == {k \in 0..n : PlayOk(q, k, f[k])}
<1>3. 0 \in T
  <2>1. <<>> \in Seq(Int) /\ Len(<<>>) = 0 /\ 1..0 = {}
    OBVIOUS
  <2>2. PlayOk(q, 0, f[0])
    BY <1>2, <2>1 DEF PlayOk
  <2> QED BY <1>1, <2>2
<1>4. ASSUME NEW k \in 1..n, k - 1 \in T PROVE k \in T
  <2>1. PlayOk(q, k - 1, f[k - 1])
    BY <1>4
  <2>2. PlayOk(q, k, f[k - 1] \o Shown(q[k]))
    BY <2>1, PlayGoesOn
  <2>3. PlayOk(q, k, f[k])
    BY <1>2, <2>2
  <2>4. k \in 0..n
    BY <1>1
  <2> QED BY <2>3, <2>4
<1>5. n \in T
  <2> HIDE DEF T, n
  <2>1. \A k \in 0..n : k \in T
    BY <1>1, <1>3, <1>4, UpTo
  <2> QED BY <1>1, <2>1
<1> QED BY <1>2, <1>5

(* Sources that are all there are concatenated all. *)
LEMMA TimelineWhole ==
  ASSUME NEW q \in Seq(Evi!Intervals), \A i \in 1..Len(q) : q[i] \in recorded
  PROVE  Evi!Timeline(q) = InPlay(q)
<1> DEFINE n == Len(q)
           lives == {k \in 0..n : \A i \in 1..k : q[i] \in recorded}
           last == CHOOSE m \in lives : \A k \in lives : k <= m
<1>1. n \in Nat
  OBVIOUS
<1>2. n \in lives /\ \A k \in lives : k <= n
  BY <1>1
<1>3. last = n
  <2>1. ASSUME NEW m \in lives, \A k \in lives : k <= m PROVE m = n
    <3>1. m \in Nat /\ m <= n /\ n <= m
      BY <1>1, <1>2, <2>1
    <3> QED BY <1>1, <3>1
  <2> HIDE DEF lives
  <2> QED BY <1>2, <2>1
<1>4. SubSeq(q, 1, n) = q
  OBVIOUS
<1>5. Evi!Timeline(q) = InPlay(SubSeq(q, 1, last))
  BY Zenon DEF Evi!Timeline, InPlay
<1> HIDE DEF last, n
<1> QED BY <1>3, <1>4, <1>5 DEF n

(* What the cut of a window takes from the concatenation. *)
Taken(tl, z) == {tl[i] : i \in {j \in 1..Len(tl) : j > z.ss /\ j <= z.ss + z.t}}

Reaches(q, w) == \A i \in 1..Len(q) : q[i][1] < w[2] /\ w[1] < q[i][2]

LEMMA CutHolds ==
  ASSUME NEW q, InOrder(q), Evi!Disjoint(RangeOf(q)), NEW w \in Evi!Intervals, Reaches(q, w), Horizon \in Nat
  PROVE  Evi!Instants(w) \cap Evi!Recorded(RangeOf(q)) \subseteq Taken(InPlay(q), Evi!Cut(w, q))
<1> DEFINE tl == InPlay(q)
           ss == Evi!Cut(w, q).ss
           d == Evi!Cut(w, q).t
<1>1. ApartIn(q)
  BY DisjointApart
<1>2. PlayOk(q, Len(q), tl)
  BY <1>1, PlayHolds
<1>3. q \in Seq(Evi!Intervals) /\ Len(q) \in Nat
  BY DEF InOrder
<1>4. w[1] \in Nat /\ w[2] \in Nat /\ w[1] < w[2] /\ \A t : t \in Evi!Instants(w) <=> t \in Int /\ w[1] <= t /\ t < w[2]
  BY Interval
<1> HIDE DEF tl
<1>5. ASSUME NEW t \in Evi!Instants(w), t \in Evi!Recorded(RangeOf(q)) PROVE t \in Taken(tl, Evi!Cut(w, q))
  <2>1. PICK i \in 1..Len(q) : t \in Evi!Instants(q[i])
    <3>1. PICK s \in RangeOf(q) : t \in Evi!Instants(s)
      BY <1>5, Zenon DEF Evi!Recorded
    <3>2. PICK i \in DOMAIN q : s = q[i]
      BY <3>1, Zenon DEF RangeOf
    <3>3. DOMAIN q = 1..Len(q)
      BY <1>3
    <3> QED BY <3>1, <3>2, <3>3
  <2>2. PICK j \in 1..Len(tl) : tl[j] = t /\ j <= t - q[1][1] + 1 /\ (j >= t - q[1][1] + 1 \/ j > q[1][2] - q[1][1])
    <3>1. \A i1 \in 1..Len(q) : \A t1 \in Evi!Instants(q[i1]) :
             \E j \in 1..Len(tl) : /\ tl[j] = t1 /\ j <= t1 - q[1][1] + 1
                                   /\ j >= t1 - q[1][1] + 1 \/ j > q[1][2] - q[1][1]
      BY <1>2, Zenon DEF PlayOk
    <3> QED BY <2>1, <3>1
  <2>3. 1 \in 1..Len(q) /\ q[1] \in Evi!Intervals
    BY <1>3, <2>1
  <2>4. q[1][1] \in Int /\ q[1][2] \in Int /\ w[1] < q[1][2]
    BY <2>3, Interval DEF Reaches
  <2>5. ss = Evi!Later(w[1] - q[1][1], 0) /\ d = w[2] - w[1]
    BY DEF Evi!Cut
  <2>6. (w[1] - q[1][1] >= 0 /\ ss = w[1] - q[1][1]) \/ (w[1] - q[1][1] < 0 /\ ss = 0)
    BY <1>4, <2>4, <2>5 DEF Evi!Later
  <2>7. t \in Int /\ w[1] <= t /\ t < w[2]
    BY <1>4, <1>5
  <2>8. j \in Nat /\ j >= 1
    <3>1. tl \in Seq(Int)
      BY <1>2 DEF PlayOk
    <3> QED BY <2>2, <3>1
  <2> HIDE DEF ss, d
  <2>9. PICK a \in Int, b \in Int, c \in Int, e \in Int : a = q[1][1] /\ b = q[1][2] /\ c = w[1] /\ e = w[2]
    BY <1>4, <2>4
  <2>10. /\ c < b /\ t \in Int /\ c <= t /\ t < e /\ j \in Int /\ j >= 1 /\ j <= t - a + 1
         /\ (j >= t - a + 1 \/ j > b - a)
         /\ ((c - a >= 0 /\ ss = c - a) \/ (c - a < 0 /\ ss = 0))
    BY <2>2, <2>4, <2>6, <2>7, <2>8, <2>9
  <2>11. j > ss /\ j <= ss + (w[2] - w[1])
    <3>1. j > ss /\ j <= ss + (e - c)
      BY <2>10
    <3> QED BY <2>9, <3>1
  <2>12. j > ss /\ j <= ss + d
    BY <2>5, <2>11
  <2> QED BY <2>2, <2>12 DEF Taken, ss, d
<1> QED BY <1>5 DEF tl

-----------------------------------------------------------------------------
(* Evidence: an export from its window to its row.                         *)

Fields == {"pc", "window", "sources", "gaps", "covered", "clip", "key", "whole"}
IsExport(x) == DOMAIN x = Fields /\ x = [f \in Fields |-> x[f]]

Pcs == {"off", "measure", "permit", "remux", "key", "create", "write", "pack", "attribute", "index", "done", "dropped"}

(* The manifest's data, which nothing changes once they are gathered. *)
Gathered(x) ==
    /\ x.window \in Evi!Intervals /\ InOrder(x.sources) /\ x.sources # <<>> /\ Reaches(x.sources, x.window)
    /\ Covers(x.sources, x.window, x.gaps, x.covered)

ClipOk(x) ==
    x.whole /\ Evi!Disjoint(RangeOf(x.sources))
       => Evi!Instants(x.window) \cap Evi!Recorded(RangeOf(x.sources)) \subseteq x.clip

Unpacked == {"off", "measure", "permit", "remux", "key", "create", "write", "pack"}

ExportOk(a, x, d, idx, kf) ==
    /\ IsExport(x) /\ x.pc \in Pcs /\ ClipOk(x)
    /\ x.pc = "off" => x = Evi!NoExport
    /\ x.pc # "off" => Gathered(x)
    /\ d # Evi!NoBundle => x.pc \notin Unpacked /\ d = Evi!Manifest(x) /\ x.key = kf /\ kf \in Asker
    /\ x.pc \in {"attribute", "index"} => d # Evi!NoBundle
    /\ x.pc = "pack" => x.key = kf /\ kf \in Asker
    /\ a \in idx => x.pc = "done" /\ d # Evi!NoBundle
    /\ x.pc = "done" /\ d # Evi!NoBundle => a \in idx

RowsInOrder == recorded \in SUBSET Evi!Intervals /\ IsFiniteSet(recorded) /\ StartsApart(recorded)

OneWriter ==
    \A a \in Asker : exports[a].pc = "write" =>
       keyFile = "empty" /\ \A b \in Asker : exports[b].pc = "write" => b = a

ExpInv ==
    /\ RowsInOrder /\ OneWriter /\ indexed \in SUBSET Asker
    /\ exports = [a \in Asker |-> exports[a]] /\ dir = [a \in Asker |-> dir[a]]
    /\ \A a \in Asker : ExportOk(a, exports[a], dir[a], indexed, keyFile)

LEMMA SetPc ==
  ASSUME NEW x, IsExport(x), NEW p
  PROVE  LET y == [x EXCEPT !.pc = p] IN
         /\ IsExport(y) /\ y.pc = p
         /\ y.window = x.window /\ y.sources = x.sources /\ y.gaps = x.gaps /\ y.covered = x.covered
         /\ y.clip = x.clip /\ y.key = x.key /\ y.whole = x.whole
BY DEF IsExport, Fields

LEMMA ManifestIs ==
  ASSUME NEW x
  PROVE  Evi!Manifest(x) = [window |-> x.window, sources |-> x.sources, gaps |-> x.gaps, covered |-> x.covered,
                            clip |-> x.clip, key |-> x.key, whole |-> x.whole]
BY DEF Evi!Manifest, Evi!NoBundle

LEMMA ManifestKeeps ==
  ASSUME NEW x, IsExport(x), NEW p
  PROVE  Evi!Manifest([x EXCEPT !.pc = p]) = Evi!Manifest(x)
BY SetPc, ManifestIs, ZenonT(60)

(* Moving on changes what is said of where the export is, and gives up its bundle or not. *)
LEMMA MovedOn ==
  ASSUME NEW a, NEW x, NEW d, NEW idx, NEW kf, ExportOk(a, x, d, idx, kf), NEW p \in Pcs,
         x.pc # "off", p # "off", x.pc # "done", p # "pack",
         NEW e, e = d \/ e = Evi!NoBundle,
         e # Evi!NoBundle => p \in {"attribute", "index", "dropped"},
         p \in {"attribute", "index"} => e # Evi!NoBundle
  PROVE  ExportOk(a, [x EXCEPT !.pc = p], e, idx, kf)
<1> DEFINE y == [x EXCEPT !.pc = p]
<1>1. IsExport(x)
  BY DEF ExportOk
<1>2. /\ IsExport(y) /\ y.pc = p /\ y.window = x.window /\ y.sources = x.sources /\ y.gaps = x.gaps
      /\ y.covered = x.covered /\ y.clip = x.clip /\ y.key = x.key /\ y.whole = x.whole
  BY <1>1, SetPc
<1>3. Evi!Manifest(y) = Evi!Manifest(x)
  BY <1>1, ManifestKeeps
<1> HIDE DEF y
<1>4. ClipOk(y) /\ Gathered(y)
  BY <1>2 DEF ExportOk, ClipOk, Gathered
<1>5. ExportOk(a, y, e, idx, kf)
  BY <1>2, <1>3, <1>4 DEF ExportOk, Unpacked
<1> QED BY <1>5 DEF y

LEMMA NotYetPacked ==
  ASSUME NEW a, NEW x, NEW d, NEW idx, NEW kf, ExportOk(a, x, d, idx, kf), x.pc \in Unpacked
  PROVE  d = Evi!NoBundle /\ a \notin idx
BY DEF ExportOk, Unpacked

(* One request's step: what is so of the others is so still. *)
LEMMA OneSteps ==
  ASSUME ExpInv, NEW a \in Asker, NEW x, NEW d, RowsInOrder', indexed' \in SUBSET Asker,
         exports' = [exports EXCEPT ![a] = x], dir' = [dir EXCEPT ![a] = d],
         \A b \in Asker \ {a} : b \in indexed' <=> b \in indexed,
         keyFile' = keyFile \/ keyFile \notin Asker, OneWriter',
         ExportOk(a, x, d, indexed', keyFile')
  PROVE  ExpInv'
<1>1. exports = [b \in Asker |-> exports[b]] /\ dir = [b \in Asker |-> dir[b]]
  BY DEF ExpInv
<1>2. /\ exports' = [b \in Asker |-> exports'[b]] /\ dir' = [b \in Asker |-> dir'[b]]
      /\ exports'[a] = x /\ dir'[a] = d
      /\ \A b \in Asker \ {a} : exports'[b] = exports[b] /\ dir'[b] = dir[b]
  BY <1>1
<1>3. ASSUME NEW b \in Asker PROVE ExportOk(b, exports'[b], dir'[b], indexed', keyFile')
  <2>1. CASE b = a
    BY <1>2, <2>1
  <2>2. CASE b # a
    <3>1. ExportOk(b, exports[b], dir[b], indexed, keyFile)
      BY DEF ExpInv
    <3>2. exports'[b] = exports[b] /\ dir'[b] = dir[b] /\ (b \in indexed' <=> b \in indexed)
      BY <1>2, <2>2
    <3> QED BY <3>1, <3>2 DEF ExportOk
  <2> QED BY <2>1, <2>2
<1> QED BY <1>2, <1>3 DEF ExpInv

LEMMA WriterStays ==
  ASSUME ExpInv, NEW a \in Asker, NEW x, exports' = [exports EXCEPT ![a] = x], x.pc # "write", keyFile' = keyFile
  PROVE  OneWriter'
<1>1. exports = [b \in Asker |-> exports[b]] /\ OneWriter
  BY DEF ExpInv
<1>2. \A b \in Asker : exports'[b].pc = "write" => exports[b].pc = "write"
  BY <1>1
<1> QED BY <1>1, <1>2 DEF OneWriter

(* The footage goes by retention alone, and none comes. *)
RowsKept == recorded' \in SUBSET recorded

LEMMA RowsStay == ASSUME RowsInOrder, RowsKept PROVE RowsInOrder'
BY FS_Subset DEF RowsInOrder, RowsKept, StartsApart

LEMMA ExpMoves ==
  ASSUME ExpInv, RowsKept, NEW a \in Asker, NEW p \in Pcs, Evi!Move(a, p), NEW d,
         dir' = [dir EXCEPT ![a] = d], d = dir[a] \/ d = Evi!NoBundle,
         indexed' = indexed, keyFile' = keyFile,
         exports[a].pc \notin {"off", "done"}, p \notin {"off", "pack", "write"},
         d # Evi!NoBundle => p \in {"attribute", "index", "dropped"},
         p \in {"attribute", "index"} => d # Evi!NoBundle
  PROVE  ExpInv'
<1> DEFINE x == [exports[a] EXCEPT !.pc = p]
<1>1. exports' = [exports EXCEPT ![a] = x]
  BY DEF Evi!Move
<1>2. ExportOk(a, exports[a], dir[a], indexed, keyFile) /\ IsExport(exports[a])
  BY DEF ExpInv, ExportOk
<1>3. x.pc = p
  BY <1>2, SetPc
<1>4. ExportOk(a, x, d, indexed, keyFile)
  BY <1>2, MovedOn
<1>5. RowsInOrder' /\ indexed' \in SUBSET Asker
  BY RowsStay DEF ExpInv
<1> HIDE DEF x
<1>6. OneWriter'
  BY <1>1, <1>3, WriterStays
<1> QED BY <1>1, <1>4, <1>5, <1>6, OneSteps

LEMMA SameDir == ASSUME ExpInv, NEW a \in Asker PROVE dir = [dir EXCEPT ![a] = dir[a]]
<1>1. dir = [b \in Asker |-> dir[b]]
  BY DEF ExpInv
<1> QED BY <1>1

LEMMA ExpEnds ==
  ASSUME ExpInv, recorded' = recorded, NEW a \in Asker, Evi!End(a), UNCHANGED <<indexed, keyFile>>,
         exports[a].pc \in Unpacked \ {"off"}, dir' = dir \/ dir' = [dir EXCEPT ![a] = Evi!NoBundle]
  PROVE  ExpInv'
<1>1. dir[a] = Evi!NoBundle
  BY NotYetPacked DEF ExpInv
<1>2. dir' = [dir EXCEPT ![a] = Evi!NoBundle]
  BY <1>1, SameDir
<1>3. "done" \in Pcs /\ exports[a].pc \notin {"off", "done"}
  BY DEF Pcs, Unpacked
<1>4. Evi!Move(a, "done")
  BY DEF Evi!End
<1>5. RowsKept
  BY DEF RowsKept
<1> QED BY <1>2, <1>3, <1>4, <1>5, ExpMoves

LEMMA ExpOn ==
  ASSUME ExpInv, recorded' = recorded, NEW a \in Asker, NEW p \in {"permit", "remux", "create", "key"}, Evi!Move(a, p),
         UNCHANGED <<dir, indexed, keyFile>>, exports[a].pc \in Unpacked \ {"off"}
  PROVE  ExpInv'
<1>1. dir[a] = Evi!NoBundle
  BY NotYetPacked DEF ExpInv
<1>2. dir' = [dir EXCEPT ![a] = Evi!NoBundle]
  BY <1>1, SameDir
<1>3. p \in Pcs /\ exports[a].pc \notin {"off", "done"}
  BY DEF Pcs, Unpacked
<1>4. RowsKept
  BY DEF RowsKept
<1> QED BY <1>2, <1>3, <1>4, ExpMoves

LEMMA SizeStep == ASSUME ExpInv, NEW a \in Asker, Evi!check_size_limits(a) PROVE ExpInv'
<1>1. exports[a].pc \in Unpacked \ {"off"} /\ UNCHANGED <<recorded, dir, indexed, keyFile>>
  BY DEF Evi!check_size_limits, Unpacked
<1>2. Evi!Move(a, "permit") \/ Evi!End(a)
  BY DEF Evi!check_size_limits
<1> QED BY <1>1, <1>2, ExpOn, ExpEnds

LEMMA AcquireStep == ASSUME ExpInv, NEW a \in Asker, Evi!acquire(a) PROVE ExpInv'
<1>1. exports[a].pc \in Unpacked \ {"off"} /\ UNCHANGED <<recorded, dir, indexed, keyFile>>
  BY DEF Evi!acquire, Unpacked
<1>2. Evi!Move(a, "remux") \/ Evi!End(a)
  BY DEF Evi!acquire
<1> QED BY <1>1, <1>2, ExpOn, ExpEnds

LEMMA FailStep ==
  ASSUME ExpInv, NEW a \in Asker, Evi!Fail(a), exports[a].pc \in Unpacked \ {"off"}, UNCHANGED <<recorded, indexed, keyFile>>
  PROVE  ExpInv'
BY ExpEnds DEF Evi!Fail

LEMMA GatherStep ==
  ASSUME ExpInv, NEW a \in Asker, NEW w \in Evi!Intervals, Evi!gather(a, w), Horizon \in Nat, GAP_TOLERANCE \in Nat
  PROVE  ExpInv'
<1> DEFINE q == Evi!Selected(w)
           cov == Evi!coverage_and_gaps(q, w)
           x == [exports[a] EXCEPT !.pc = "measure", !.window = w, !.sources = q, !.gaps = cov.gaps, !.covered = cov.covered]
<1>1. /\ exports[a].pc = "off" /\ q # <<>> /\ exports' = [exports EXCEPT ![a] = x]
      /\ recorded' = recorded /\ dir' = dir /\ indexed' = indexed /\ keyFile' = keyFile
  BY Zenon DEF Evi!gather
<1>2. ExportOk(a, exports[a], dir[a], indexed, keyFile) /\ RowsInOrder
  BY DEF ExpInv
<1>3. exports[a] = Evi!NoExport
  BY <1>1, <1>2 DEF ExportOk
<1>4. dir[a] = Evi!NoBundle /\ a \notin indexed
  <2>1. exports[a].pc \in Unpacked
    BY <1>1 DEF Unpacked
  <2> QED BY <1>2, <2>1, NotYetPacked
<1>5. InOrder(q) /\ \A i \in 1..Len(q) : q[i] \in Reaching(recorded, w)
  BY <1>2, SelectedIs DEF RowsInOrder
<1>6. Covers(q, w, cov.gaps, cov.covered)
  BY <1>5, CoverageHolds
<1> HIDE DEF cov
<1>7. /\ IsExport(x) /\ x.pc = "measure" /\ x.window = w /\ x.sources = q /\ x.gaps = cov.gaps
      /\ x.covered = cov.covered /\ x.whole = FALSE
  <2> DEFINE r == exports[a]  g == cov.gaps  n == cov.covered
  <2>1. x = [r EXCEPT !.pc = "measure", !.window = w, !.sources = q, !.gaps = g, !.covered = n]
    BY Zenon
  <2>2. r = Evi!NoExport
    BY <1>3
  <2> HIDE DEF q, x, r, g, n
  <2>3. /\ IsExport(x) /\ x.pc = "measure" /\ x.window = w /\ x.sources = q /\ x.gaps = g /\ x.covered = n
        /\ x.whole = FALSE
    BY <2>1, <2>2 DEF IsExport, Fields, Evi!NoExport
  <2> QED BY <2>3 DEF g, n
<1> HIDE DEF x
<1>8. Reaches(q, w)
  <2>1. ASSUME NEW i \in 1..Len(q) PROVE q[i][1] < w[2] /\ w[1] < q[i][2]
    <3>1. q[i] \in Reaching(recorded, w)
      BY <1>5
    <3>2. q[i][1] < w[2] /\ q[i][2] > w[1]
      BY <3>1 DEF Reaching
    <3>3. q[i] \in Evi!Intervals
      <4>1. q \in Seq(Evi!Intervals)
        BY <1>5 DEF InOrder
      <4> HIDE DEF q
      <4> QED BY <4>1
    <3>4. q[i][2] \in Nat /\ w[1] \in Nat
      BY <3>3, Interval
    <3> HIDE DEF q
    <3> QED BY <3>2, <3>4
  <2> QED BY <2>1 DEF Reaches
<1> HIDE DEF q
<1>9. Gathered(x) /\ ClipOk(x)
  BY <1>1, <1>5, <1>6, <1>7, <1>8 DEF Gathered, ClipOk
<1>10. ExportOk(a, x, dir[a], indexed', keyFile')
  BY <1>1, <1>4, <1>7, <1>9 DEF ExportOk, Pcs
<1>11. OneWriter'
  BY <1>1, <1>7, WriterStays
<1>12. RowsInOrder' /\ indexed' \in SUBSET Asker
  BY <1>1 DEF ExpInv, RowsInOrder
<1>13. dir' = [dir EXCEPT ![a] = dir[a]]
  BY <1>1, SameDir
<1> QED BY <1>1, <1>10, <1>11, <1>12, <1>13, OneSteps

LEMMA RemuxStep ==
  ASSUME ExpInv, NEW a \in Asker, Evi!remux(a), Horizon \in Nat
  PROVE  ExpInv'
<1> DEFINE x == exports[a]
           q == x.sources
           c == Taken(Evi!Timeline(q), Evi!Cut(x.window, q))
           h == \A i \in 1..Len(q) : q[i] \in recorded
           y == [x EXCEPT !.pc = "key", !.clip = c, !.whole = h]
<1>1. x.pc = "remux" /\ x.pc \in Unpacked \ {"off"} /\ UNCHANGED <<recorded, indexed, keyFile>>
  BY DEF Evi!remux, Unpacked
<1>2. CASE Evi!Fail(a)
  BY <1>1, <1>2, FailStep
<1>3. CASE exports' = [exports EXCEPT ![a] = y] /\ dir' = dir
  <2>1. ExportOk(a, x, dir[a], indexed, keyFile) /\ IsExport(x)
    BY SMTT(60) DEF ExpInv, ExportOk
  <2>2. dir[a] = Evi!NoBundle /\ a \notin indexed
    BY <1>1, <2>1, NotYetPacked
  <2>3. Gathered(x)
    BY <1>1, <2>1 DEF ExportOk
  <2>4. /\ IsExport(y) /\ y.pc = "key" /\ y.clip = c /\ y.whole = h /\ y.window = x.window
        /\ y.sources = q /\ y.gaps = x.gaps /\ y.covered = x.covered /\ y.key = x.key
    <3>1. y = [x EXCEPT !.pc = "key", !.clip = c, !.whole = h]
      OBVIOUS
    <3> HIDE DEF c, h, y, x
    <3>2. IsExport(x)
      BY <2>1
    <3>3. IsExport(y) /\ y.pc = "key" /\ y.clip = c /\ y.whole = h /\ y.key = x.key
      BY <3>1, <3>2 DEF IsExport, Fields
    <3>4. y.window = x.window /\ y.sources = x.sources /\ y.gaps = x.gaps /\ y.covered = x.covered
      BY <3>1, <3>2 DEF IsExport, Fields
    <3> QED BY <3>3, <3>4 DEF q
  <2>5. ASSUME h, Evi!Disjoint(RangeOf(q)) PROVE Evi!Instants(x.window) \cap Evi!Recorded(RangeOf(q)) \subseteq c
    <3>1. InOrder(q) /\ x.window \in Evi!Intervals /\ Reaches(q, x.window)
      BY <2>3 DEF Gathered
    <3>2. q \in Seq(Evi!Intervals)
      BY <3>1 DEF InOrder
    <3>3. Evi!Timeline(q) = InPlay(q)
      BY <2>5, <3>2, TimelineWhole
    <3> HIDE DEF x, q
    <3> QED BY <2>5, <3>1, <3>3, CutHolds
  <2> HIDE DEF y, c, h
  <2>6. ClipOk(y) /\ Gathered(y)
    BY <2>3, <2>4, <2>5 DEF ClipOk, Gathered
  <2>7. ExportOk(a, y, dir[a], indexed', keyFile')
    BY <1>1, <2>2, <2>4, <2>6 DEF ExportOk, Pcs
  <2>8. OneWriter'
    BY <1>1, <1>3, <2>4, WriterStays
  <2>9. RowsInOrder' /\ indexed' \in SUBSET Asker
    BY <1>1 DEF ExpInv, RowsInOrder
  <2>10. dir' = [dir EXCEPT ![a] = dir[a]]
    BY <1>3, SameDir
  <2> QED BY <1>1, <1>3, <2>7, <2>8, <2>9, <2>10, OneSteps
<1>4. Evi!Fail(a) \/ (exports' = [exports EXCEPT ![a] = y] /\ dir' = dir)
  BY Zenon DEF Evi!remux, Taken
<1> QED BY <1>2, <1>3, <1>4

(* With the key that is in the file, the manifest can be signed. *)
LEMMA KeyTaken ==
  ASSUME ExpInv, NEW a \in Asker, exports[a].pc \in {"key", "write"}, NEW k \in Asker, NEW y,
         y = [exports[a] EXCEPT !.pc = "pack", !.key = k]
  PROVE  /\ y.pc = "pack"
         /\ ExportOk(a, y, dir[a], indexed, k)
<1> DEFINE x == exports[a]
<1>1. ExportOk(a, x, dir[a], indexed, keyFile) /\ IsExport(x)
  BY DEF ExpInv, ExportOk
<1>2. dir[a] = Evi!NoBundle /\ a \notin indexed
  BY <1>1, NotYetPacked DEF Unpacked
<1>3. Gathered(x) /\ ClipOk(x)
  BY <1>1 DEF ExportOk
<1>4. IsExport(y) /\ y.pc = "pack" /\ y.key = k /\ y.clip = x.clip /\ y.whole = x.whole
  BY <1>1 DEF IsExport, Fields
<1>5. y.window = x.window /\ y.sources = x.sources /\ y.gaps = x.gaps /\ y.covered = x.covered
  BY <1>1 DEF IsExport, Fields
<1> HIDE DEF x
<1>6. Gathered(y) /\ ClipOk(y)
  BY <1>3, <1>4, <1>5 DEF Gathered, ClipOk
<1> QED BY <1>2, <1>4, <1>6 DEF ExportOk, Pcs

LEMMA KeyStep ==
  ASSUME ExpInv, NEW a \in Asker, Evi!load_or_create(a)
  PROVE  ExpInv'
<1>1. exports[a].pc = "key" /\ exports[a].pc \in Unpacked \ {"off"} /\ UNCHANGED <<recorded, indexed, keyFile>>
  BY DEF Evi!load_or_create, Unpacked
<1>2. CASE Evi!Move(a, "create") /\ UNCHANGED dir
  BY <1>1, <1>2, ExpOn
<1>3. CASE Evi!Fail(a)
  BY <1>1, <1>3, FailStep
<1>4. CASE keyFile \in Asker /\ UNCHANGED dir /\
           exports' = [exports EXCEPT ![a] = [@ EXCEPT !.pc = "pack", !.key = keyFile]]
  <2> DEFINE y == [exports[a] EXCEPT !.pc = "pack", !.key = keyFile]
  <2>1. exports' = [exports EXCEPT ![a] = y]
    BY <1>4
  <2>2. y.pc = "pack" /\ ExportOk(a, y, dir[a], indexed, keyFile)
    BY <1>1, <1>4, KeyTaken
  <2> HIDE DEF y
  <2>3. OneWriter'
    BY <1>1, <2>1, <2>2, WriterStays
  <2>4. RowsInOrder' /\ indexed' \in SUBSET Asker
    BY <1>1 DEF ExpInv, RowsInOrder
  <2>5. dir' = [dir EXCEPT ![a] = dir[a]]
    BY <1>4, SameDir
  <2> QED BY <1>1, <2>1, <2>2, <2>3, <2>4, <2>5, OneSteps
<1> QED BY <1>2, <1>3, <1>4 DEF Evi!load_or_create

LEMMA GenerateStep ==
  ASSUME ExpInv, NEW a \in Asker, Evi!Generate(a), {"none", "empty"} \cap Asker = {}
  PROVE  ExpInv'
<1> DEFINE x == exports[a]
<1>1. UNCHANGED <<recorded, dir, indexed>>
  BY DEF Evi!Generate
<1>2. ExportOk(a, x, dir[a], indexed, keyFile) /\ IsExport(x) /\ OneWriter /\ exports = [b \in Asker |-> exports[b]]
  BY DEF ExpInv, ExportOk
<1>3. RowsInOrder' /\ indexed' \in SUBSET Asker
  BY <1>1 DEF ExpInv, RowsInOrder
<1>4. dir' = [dir EXCEPT ![a] = dir[a]]
  BY <1>1, SameDir
<1>5. CASE x.pc = "create" /\ keyFile = "none" /\ keyFile' = "empty" /\ Evi!Move(a, "write")
  <2> DEFINE y == [x EXCEPT !.pc = "write"]
  <2>1. exports' = [exports EXCEPT ![a] = y]
    BY <1>5, SMTT(60) DEF Evi!Move
  <2>2. dir[a] = Evi!NoBundle
    BY <1>2, <1>5, NotYetPacked DEF Unpacked
  <2>3. ExportOk(a, y, dir[a], indexed, keyFile)
    BY <1>2, <1>5, <2>2, MovedOn DEF Pcs
  <2>4. y.pc = "write"
    BY <1>2, SetPc
  <2>5. ExportOk(a, y, dir[a], indexed', keyFile')
    <3> HIDE DEF y
    <3> QED BY <1>1, <2>2, <2>3, <2>4 DEF ExportOk
  <2>6. OneWriter'
    <3>1. \A b \in Asker : exports[b].pc # "write"
      BY <1>2, <1>5 DEF OneWriter
    <3>2. \A b \in Asker : exports'[b].pc = "write" => b = a
      <4> HIDE DEF y, x
      <4> QED BY <1>2, <2>1, <3>1
    <3> QED BY <1>5, <3>2 DEF OneWriter
  <2> HIDE DEF y
  <2> QED BY <1>1, <1>3, <1>4, <1>5, <2>1, <2>5, <2>6, OneSteps
<1>6. CASE x.pc = "create" /\ Evi!Move(a, "key") /\ UNCHANGED keyFile
  BY <1>1, <1>6, ExpOn DEF Unpacked
<1>7. CASE x.pc = "write" /\ keyFile' = a /\ exports' = [exports EXCEPT ![a] = [@ EXCEPT !.pc = "pack", !.key = a]]
  <2> DEFINE y == [x EXCEPT !.pc = "pack", !.key = a]
  <2>1. exports' = [exports EXCEPT ![a] = y]
    BY <1>7, SMTT(60)
  <2>2. y.pc = "pack" /\ ExportOk(a, y, dir[a], indexed, a)
    BY <1>7, KeyTaken
  <2> HIDE DEF y
  <2>3. keyFile = "empty" /\ \A b \in Asker : exports[b].pc = "write" => b = a
    BY <1>2, <1>7 DEF OneWriter
  <2>4. OneWriter'
    <3>1. \A b \in Asker : exports'[b].pc # "write"
      <4> HIDE DEF x
      <4> QED BY <1>2, <2>1, <2>2, <2>3
    <3> QED BY <3>1 DEF OneWriter
  <2>5. ExportOk(a, y, dir[a], indexed', keyFile')
    BY <1>1, <1>7, <2>2
  <2> QED BY <1>1, <1>3, <1>4, <2>1, <2>3, <2>4, <2>5, OneSteps
<1> QED BY <1>5, <1>6, <1>7 DEF Evi!Generate

LEMMA ZipStep ==
  ASSUME ExpInv, NEW a \in Asker, Evi!zip_dir(a)
  PROVE  ExpInv'
<1> DEFINE x == exports[a]
           y == [x EXCEPT !.pc = "attribute"]
           d == Evi!Manifest(x)
<1>1. x.pc = "pack" /\ x.pc \in Unpacked \ {"off"} /\ UNCHANGED <<recorded, indexed, keyFile>>
  BY DEF Evi!zip_dir, Unpacked
<1>2. ExportOk(a, x, dir[a], indexed, keyFile) /\ IsExport(x)
  BY DEF ExpInv, ExportOk
<1>3. CASE Evi!Fail(a)
  BY <1>1, <1>3, FailStep
<1>4. CASE dir' = [dir EXCEPT ![a] = d] /\ Evi!Move(a, "attribute")
  <2>1. exports' = [exports EXCEPT ![a] = y]
    BY <1>4, SMTT(60) DEF Evi!Move
  <2>2. /\ IsExport(y) /\ y.pc = "attribute" /\ y.window = x.window /\ y.sources = x.sources /\ y.gaps = x.gaps
        /\ y.covered = x.covered /\ y.clip = x.clip /\ y.key = x.key /\ y.whole = x.whole
    BY <1>2, SetPc
  <2>3. Evi!Manifest(y) = d
    BY <1>2, ManifestKeeps
  <2>4. d # Evi!NoBundle
    <3>1. x.sources # <<>>
      BY <1>1, <1>2 DEF ExportOk, Gathered
    <3>2. d.sources = x.sources /\ Evi!NoBundle.sources = <<>>
      BY ManifestIs DEF Evi!NoBundle
    <3> HIDE DEF d
    <3> QED BY <3>1, <3>2
  <2>5. Gathered(x) /\ ClipOk(x) /\ x.key = keyFile /\ keyFile \in Asker /\ a \notin indexed
    BY <1>1, <1>2 DEF ExportOk
  <2> HIDE DEF y, d
  <2>6. Gathered(y) /\ ClipOk(y)
    BY <2>2, <2>5 DEF Gathered, ClipOk
  <2>7. ExportOk(a, y, d, indexed', keyFile')
    BY <1>1, <2>2, <2>3, <2>4, <2>5, <2>6 DEF ExportOk, Pcs, Unpacked
  <2>8. OneWriter'
    BY <1>1, <2>1, <2>2, WriterStays, ZenonT(60)
  <2>9. RowsInOrder' /\ indexed' \in SUBSET Asker
    BY <1>1 DEF ExpInv, RowsInOrder
  <2> QED BY <1>1, <1>4, <2>1, <2>7, <2>8, <2>9, OneSteps
<1> QED BY <1>3, <1>4 DEF Evi!zip_dir

LEMMA AttributeStep ==
  ASSUME ExpInv, NEW a \in Asker, Evi!attribute(a)
  PROVE  ExpInv'
<1>1. exports[a].pc = "attribute" /\ Evi!Move(a, "index") /\ UNCHANGED <<recorded, dir, indexed, keyFile>>
  BY DEF Evi!attribute
<1>2. dir[a] # Evi!NoBundle
  BY <1>1 DEF ExpInv, ExportOk
<1>3. dir' = [dir EXCEPT ![a] = dir[a]] /\ RowsKept /\ "index" \in Pcs
  BY <1>1, SameDir DEF RowsKept, Pcs
<1>4. exports[a].pc \notin {"off", "done"} /\ dir[a] = dir[a]
  BY <1>1
<1> DEFINE p == "index"
<1>5. p \in Pcs /\ Evi!Move(a, p) /\ p \notin {"off", "pack", "write"} /\ p \in {"attribute", "index", "dropped"}
  BY <1>1, <1>3
<1> HIDE DEF p
<1> QED BY <1>1, <1>2, <1>3, <1>4, <1>5, ExpMoves

LEMMA IndexStep ==
  ASSUME ExpInv, NEW a \in Asker, Evi!Index(a)
  PROVE  ExpInv'
<1> DEFINE x == exports[a]
           y == [x EXCEPT !.pc = "done"]
<1>1. x.pc = "index" /\ Evi!End(a) /\ Evi!Move(a, "done") /\ UNCHANGED <<recorded, keyFile>> /\ "done" \in Pcs
  BY DEF Evi!Index, Evi!End, Pcs
<1>2. ExportOk(a, x, dir[a], indexed, keyFile) /\ IsExport(x)
  BY DEF ExpInv, ExportOk
<1>3. CASE indexed' = indexed \cup {a} /\ UNCHANGED dir
  <2>1. exports' = [exports EXCEPT ![a] = y]
    BY <1>1, SMTT(60) DEF Evi!Move
  <2>2. /\ IsExport(y) /\ y.pc = "done" /\ y.window = x.window /\ y.sources = x.sources /\ y.gaps = x.gaps
        /\ y.covered = x.covered /\ y.clip = x.clip /\ y.key = x.key /\ y.whole = x.whole
    BY <1>2, SetPc
  <2>3. Evi!Manifest(y) = Evi!Manifest(x)
    BY <1>2, ManifestKeeps
  <2>4. /\ Gathered(x) /\ ClipOk(x) /\ dir[a] # Evi!NoBundle /\ dir[a] = Evi!Manifest(x)
        /\ x.key = keyFile /\ keyFile \in Asker
    BY <1>1, <1>2 DEF ExportOk
  <2> HIDE DEF y
  <2>5. Gathered(y) /\ ClipOk(y)
    BY <2>2, <2>4 DEF Gathered, ClipOk
  <2>6. ExportOk(a, y, dir[a], indexed', keyFile')
    BY <1>1, <1>3, <2>2, <2>3, <2>4, <2>5 DEF ExportOk, Pcs, Unpacked
  <2>7. OneWriter'
    BY <1>1, <2>1, <2>2, WriterStays, ZenonT(60)
  <2>8. RowsInOrder' /\ indexed' \in SUBSET Asker
    BY <1>1, <1>3 DEF ExpInv, RowsInOrder
  <2>9. dir' = [dir EXCEPT ![a] = dir[a]]
    BY <1>3, SameDir
  <2>10. \A b \in Asker \ {a} : b \in indexed' <=> b \in indexed
    BY <1>3
  <2> QED BY <1>1, <2>1, <2>6, <2>7, <2>8, <2>9, <2>10, OneSteps
<1>4. CASE dir' = [dir EXCEPT ![a] = Evi!NoBundle] /\ UNCHANGED indexed
  <2>1. RowsKept
    BY <1>1 DEF RowsKept
  <2> QED BY <1>1, <1>4, <2>1, ExpMoves
<1> QED BY <1>3, <1>4 DEF Evi!Index

LEMMA HangUpStep ==
  ASSUME ExpInv, NEW a \in Asker, Evi!HangUp(a)
  PROVE  ExpInv'
<1>1. exports[a].pc \notin {"off", "done"} /\ Evi!Move(a, "dropped") /\ UNCHANGED <<recorded, dir, indexed, keyFile>>
  BY DEF Evi!HangUp
<1>2. dir' = [dir EXCEPT ![a] = dir[a]] /\ RowsKept /\ "dropped" \in Pcs
  BY <1>1, SameDir DEF RowsKept, Pcs
<1> QED BY <1>1, <1>2, ExpMoves, ZenonT(60)

LEMMA PruneStep ==
  ASSUME ExpInv, Evi!Prune
  PROVE  ExpInv'
<1>1. RowsKept /\ UNCHANGED <<exports, dir, indexed, keyFile>>
  BY DEF Evi!Prune, RowsKept
<1>2. RowsInOrder'
  BY <1>1, RowsStay DEF ExpInv
<1> QED BY <1>1, <1>2 DEF ExpInv, OneWriter

LEMMA ExportingSteps ==
  ASSUME ExpInv, NEW a \in Asker, Evi!Exporting(a), Horizon \in Nat, {"none", "empty"} \cap Asker = {}
  PROVE  ExpInv'
BY SizeStep, AcquireStep, RemuxStep, KeyStep, GenerateStep, ZipStep, AttributeStep, IndexStep, HangUpStep
   DEF Evi!Exporting

(* What an export says is true. *)
LEMMA ExportsSayTrue ==
  ASSUME ExpInv
  PROVE  Evi!CoverageTrue /\ Evi!ClipComplete /\ Evi!BundleAccounted /\ Evi!OneKey
<1>1. ASSUME NEW a \in Asker PROVE ExportOk(a, exports[a], dir[a], indexed, keyFile)
  BY DEF ExpInv
<1>2. Evi!CoverageTrue
  <2>1. ASSUME NEW a \in Asker, exports[a].pc # "off"
        PROVE  LET x == exports[a]
                   sources == {x.sources[i] : i \in DOMAIN x.sources} IN
               /\ Evi!Recorded(x.gaps) \subseteq Evi!Instants(x.window) \ Evi!Recorded(sources)
               /\ \A t \in Evi!Instants(x.window) :
                     t \in Evi!Recorded(x.gaps) \/ t \in Evi!Recorded(sources) \/ Evi!Tolerated(t, x.window, sources)
               /\ x.covered = Cardinality(Evi!Instants(x.window) \ Evi!Recorded(x.gaps))
    <3>1. Covers(exports[a].sources, exports[a].window, exports[a].gaps, exports[a].covered)
      BY <1>1, <2>1 DEF ExportOk, Gathered
    <3> QED BY <3>1, Zenon DEF Covers, RangeOf
  <2> QED BY <2>1, EvCards, Zenon DEF Evi!CoverageTrue
<1>3. ASSUME NEW a \in Evi!Bundles
      PROVE  /\ a \in Asker /\ dir[a] = Evi!Manifest(exports[a])
             /\ dir[a].window = exports[a].window /\ dir[a].sources = exports[a].sources
             /\ dir[a].clip = exports[a].clip /\ dir[a].whole = exports[a].whole /\ dir[a].key = keyFile
  <2>1. a \in Asker /\ dir[a] # Evi!NoBundle
    BY DEF Evi!Bundles
  <2>2. dir[a] = Evi!Manifest(exports[a]) /\ exports[a].key = keyFile
    BY <1>1, <2>1 DEF ExportOk
  <2> QED BY <2>1, <2>2, ManifestIs
<1>4. Evi!ClipComplete
  <2>1. ASSUME NEW a \in Evi!Bundles
        PROVE  LET sources == {dir[a].sources[i] : i \in DOMAIN dir[a].sources} IN
               dir[a].whole /\ Evi!Disjoint(sources) => Evi!Instants(dir[a].window) \cap Evi!Recorded(sources) \subseteq dir[a].clip
    <3>1. ClipOk(exports[a])
      BY <1>1, <1>3 DEF ExportOk
    <3>2. /\ dir[a].window = exports[a].window /\ dir[a].sources = exports[a].sources
          /\ dir[a].clip = exports[a].clip /\ dir[a].whole = exports[a].whole
      BY <1>3
    <3>3. dir[a].whole /\ Evi!Disjoint(RangeOf(dir[a].sources)) =>
            Evi!Instants(dir[a].window) \cap Evi!Recorded(RangeOf(dir[a].sources)) \subseteq dir[a].clip
      BY <3>1, <3>2, Zenon DEF ClipOk
    <3> QED BY <3>3, Zenon DEF RangeOf
  <2> QED BY <2>1, Zenon DEF Evi!ClipComplete
<1>5. Evi!BundleAccounted
  <2>1. \A a \in indexed : a \in Asker /\ dir[a] # Evi!NoBundle
    BY <1>1 DEF ExportOk, ExpInv
  <2>2. \A a \in Asker : dir[a] # Evi!NoBundle /\ exports[a].pc = "done" => a \in indexed
    BY <1>1 DEF ExportOk
  <2> QED BY <2>1, <2>2 DEF Evi!BundleAccounted, Evi!Bundles
<1>6. Evi!OneKey
  BY <1>3 DEF Evi!OneKey
<1> QED BY <1>2, <1>4, <1>5, <1>6, SMTT(60)

-----------------------------------------------------------------------------
(* Archives.                                                               *)

Pick(T) == CHOOSE x \in T : TRUE
Total(g, S) == CHOOSE f : f = [T \in SUBSET S |-> IF T = {} THEN 0 ELSE f[T \ {Pick(T)}] + g[Pick(T)]]

LEMMA PickIs == ASSUME NEW T, T # {} PROVE Pick(T) \in T
BY DEF Pick

(* What holds of nothing, and of a set when it holds of the rest of it, holds of them all. *)
LEMMA OneByOne ==
  ASSUME NEW S, IsFiniteSet(S), NEW Good, {} \in Good,
         \A T \in SUBSET S : T # {} /\ T \ {Pick(T)} \in Good => T \in Good
  PROVE  \A T \in SUBSET S : T \in Good
<1> DEFINE Upto == {k \in 0..Cardinality(S) : \A T \in SUBSET S : Cardinality(T) = k => T \in Good}
<1>1. ASSUME NEW T \in SUBSET S PROVE IsFiniteSet(T) /\ Cardinality(T) \in Nat /\ Cardinality(T) <= Cardinality(S)
  BY FS_Subset, FS_CardinalityType
<1>2. Cardinality(S) \in Nat
  BY <1>1
<1>3. 0 \in Upto
  <2>1. ASSUME NEW T \in SUBSET S, Cardinality(T) = 0 PROVE T \in Good
    BY <1>1, <2>1, FS_EmptySet, ZenonT(60)
  <2> QED BY <1>2, <2>1
<1>4. ASSUME NEW k \in 1..Cardinality(S), k - 1 \in Upto PROVE k \in Upto
  <2>1. ASSUME NEW T \in SUBSET S, Cardinality(T) = k PROVE T \in Good
    <3>1. T # {}
      <4>1. Cardinality({}) = 0
        BY FS_EmptySet
      <4>2. k # 0
        BY <1>2
      <4> QED BY <2>1, <4>1, <4>2
    <3>2. Pick(T) \in T
      BY <3>1, PickIs
    <3>3. \A x \in T : Cardinality(T \ {x}) = Cardinality(T) - 1
      BY <1>1, FS_RemoveElement
    <3>4. Cardinality(T \ {Pick(T)}) = k - 1
      BY <2>1, <3>2, <3>3
    <3>5. T \ {Pick(T)} \in Good
      BY <1>4, <3>4
    <3> QED BY <3>1, <3>5
  <2>2. k \in 0..Cardinality(S)
    BY <1>2
  <2> QED BY <2>1, <2>2
<1>5. \A k \in 0..Cardinality(S) : k \in Upto
  <2> HIDE DEF Upto
  <2> QED BY <1>2, <1>3, <1>4, UpTo
<1>6. ASSUME NEW T \in SUBSET S PROVE T \in Good
  <2>1. Cardinality(T) \in 0..Cardinality(S)
    BY <1>1, <1>2
  <2> QED BY <1>5, <2>1
<1> QED BY <1>6

LEMMA TotalIs ==
  ASSUME NEW S, IsFiniteSet(S), NEW g \in [S -> Nat]
  PROVE  /\ Total(g, S) \in [SUBSET S -> Nat] /\ Total(g, S)[{}] = 0
         /\ \A T \in SUBSET S : T # {} => Total(g, S)[T] = Total(g, S)[T \ {Pick(T)}] + g[Pick(T)]
<1> DEFINE Body(f) == [T \in SUBSET S |-> IF T = {} THEN 0 ELSE f[T \ {Pick(T)}] + g[Pick(T)]]
           step == [p \in S \X Nat |-> p[2] + g[p[1]]]
           pick == [T \in (SUBSET S) \ {{}} |-> Pick(T)]
           base == 0
<1>1. base \in Nat
  OBVIOUS
<1>2. pick \in [(SUBSET S) \ {{}} -> S] /\ \A T \in (SUBSET S) \ {{}} : pick[T] \in T
  BY PickIs
<1>3. step \in [S \X Nat -> Nat]
  <2>1. ASSUME NEW p \in S \X Nat PROVE p[2] + g[p[1]] \in Nat
    <3>1. p[2] \in Nat /\ g[p[1]] \in Nat
      OBVIOUS
    <3> QED BY <3>1
  <2> QED BY <2>1
<1>4. \A x \in S, n \in Nat : step[<<x, n>>] = n + g[x]
  OBVIOUS
<1>5. PICK f \in [SUBSET S -> Nat] : IsFold(f, S, base, step, pick)
  <2> HIDE DEF step, pick, base
  <2> QED BY <1>1, <1>2, <1>3, FoldExists
<1>6. ASSUME NEW T \in SUBSET S PROVE f[T] = Body(f)[T]
  <2>1. CASE T = {}
    BY <1>5, <2>1 DEF IsFold
  <2>2. CASE T # {}
    <3>1. T \in (SUBSET S) \ {{}}
      BY <2>2
    <3>2. pick[T] \in S /\ pick[T] = Pick(T) /\ T \ {pick[T]} \in SUBSET S
      BY <1>2, <3>1
    <3>3. f[T \ {pick[T]}] \in Nat
      BY <3>2
    <3>4. f[T] = step[<<pick[T], f[T \ {pick[T]}]>>]
      <4> HIDE DEF step, pick, base
      <4> QED BY <1>5, <2>2 DEF IsFold
    <3>5. step[<<pick[T], f[T \ {pick[T]}]>>] = f[T \ {pick[T]}] + g[pick[T]]
      <4> HIDE DEF step, pick
      <4> QED BY <1>4, <3>2, <3>3
    <3> HIDE DEF step, pick
    <3> QED BY <2>2, <3>2, <3>4, <3>5
  <2> QED BY <2>1, <2>2
<1>7. f = Body(f)
  <2>1. f \in [SUBSET S -> Nat] /\ Body(f) = [T \in SUBSET S |-> Body(f)[T]]
    OBVIOUS
  <2> HIDE DEF Body
  <2> QED BY <1>6, <2>1
<1> DEFINE c == Total(g, S)
<1>8. c = Body(c)
  <2>1. \E h : h = Body(h)
    BY <1>7
  <2>2. c = CHOOSE h : h = Body(h)
    BY DEF Total
  <2> HIDE DEF Body, c
  <2> QED BY <2>1, <2>2
<1> HIDE DEF c
<1>9. /\ c[{}] = 0 /\ \A T \in SUBSET S : T # {} => c[T] = c[T \ {Pick(T)}] + g[Pick(T)]
  BY <1>8
<1>10. \A T \in SUBSET S : c[T] \in Nat
  <2> DEFINE Good == {R \in SUBSET S : c[R] \in Nat}
  <2>1. {} \in Good
    BY <1>9
  <2>2. ASSUME NEW T \in SUBSET S, T # {}, T \ {Pick(T)} \in Good PROVE T \in Good
    <3>1. c[T \ {Pick(T)}] \in Nat
      BY <2>2
    <3>2. g[Pick(T)] \in Nat
      BY <2>2, PickIs
    <3>3. c[T] = c[T \ {Pick(T)}] + g[Pick(T)]
      BY <1>9, <2>2
    <3>4. c[T] \in Nat
      BY <3>1, <3>2, <3>3
    <3> QED BY <3>4
  <2>3. \A T \in SUBSET S : T \in Good
    <3> HIDE DEF Good
    <3> QED BY <2>1, <2>2, OneByOne
  <2> QED BY <2>3
<1>11. c \in [SUBSET S -> Nat]
  BY <1>8, <1>10
<1> QED BY <1>9, <1>11 DEF c

LEMMA TotalGrows ==
  ASSUME NEW S, IsFiniteSet(S), NEW g \in [S -> Nat], NEW h \in [S -> Nat], NEW x \in [S -> Nat],
         \A i \in S : g[i] <= h[i] + x[i]
  PROVE  Total(g, S)[S] <= Total(h, S)[S] + Total(x, S)[S]
<1> DEFINE G == Total(g, S)
           H == Total(h, S)
           X == Total(x, S)
           Good == {T \in SUBSET S : G[T] <= H[T] + X[T]}
<1>1. /\ G \in [SUBSET S -> Nat] /\ G[{}] = 0
      /\ \A T \in SUBSET S : T # {} => G[T] = G[T \ {Pick(T)}] + g[Pick(T)]
  BY TotalIs
<1>2. /\ H \in [SUBSET S -> Nat] /\ H[{}] = 0
      /\ \A T \in SUBSET S : T # {} => H[T] = H[T \ {Pick(T)}] + h[Pick(T)]
  BY TotalIs
<1>3. /\ X \in [SUBSET S -> Nat] /\ X[{}] = 0
      /\ \A T \in SUBSET S : T # {} => X[T] = X[T \ {Pick(T)}] + x[Pick(T)]
  BY TotalIs
<1> HIDE DEF G, H, X
<1>4. {} \in Good
  BY <1>1, <1>2, <1>3
<1>5. ASSUME NEW T \in SUBSET S, T # {}, T \ {Pick(T)} \in Good PROVE T \in Good
  <2> DEFINE R == T \ {Pick(T)}
             e == Pick(T)
  <2>1. e \in S /\ R \in SUBSET S
    BY <1>5, PickIs
  <2>2. G[T] = G[R] + g[e] /\ H[T] = H[R] + h[e] /\ X[T] = X[R] + x[e]
    BY <1>1, <1>2, <1>3, <1>5
  <2>3. G[R] <= H[R] + X[R]
    BY <1>5
  <2> HIDE DEF R, e
  <2>4. G[R] \in Nat /\ H[R] \in Nat /\ X[R] \in Nat /\ g[e] \in Nat /\ h[e] \in Nat /\ x[e] \in Nat
    BY <1>1, <1>2, <1>3, <2>1
  <2>5. g[e] <= h[e] + x[e]
    BY <2>1
  <2>6. G[T] <= H[T] + X[T]
    BY <2>2, <2>3, <2>4, <2>5
  <2> QED BY <2>6
<1>6. S \in Good
  <2> HIDE DEF Good
  <2>1. \A T \in SUBSET S : T \in Good
    BY <1>4, <1>5, OneByOne
  <2> QED BY <2>1, SMTT(60)
<1> QED BY <1>6 DEF G, H, X

(* One of them has d, those of W no more than M, and the others nothing. *)
LEMMA TotalFew ==
  ASSUME NEW S, IsFiniteSet(S), NEW x \in [S -> Nat], NEW j, NEW d \in Nat, NEW W \in SUBSET S, NEW M \in Nat, j \notin W,
         \A i \in S : /\ i = j => x[i] <= d
                      /\ i \in W => x[i] <= M
                      /\ i # j /\ i \notin W => x[i] = 0
  PROVE  Total(x, S)[S] <= d + Cardinality(W) * M
<1> DEFINE X == Total(x, S)
           Part(T) == IF j \in T THEN d ELSE 0
           Good == {T \in SUBSET S : X[T] <= Part(T) + Cardinality(T \cap W) * M}
<1>1. /\ X \in [SUBSET S -> Nat] /\ X[{}] = 0
      /\ \A T \in SUBSET S : T # {} => X[T] = X[T \ {Pick(T)}] + x[Pick(T)]
  BY TotalIs
<1> HIDE DEF X
<1>2. ASSUME NEW T \in SUBSET S PROVE IsFiniteSet(T \cap W) /\ Cardinality(T \cap W) \in Nat
  <2>1. T \cap W \in SUBSET S
    OBVIOUS
  <2> QED BY <2>1, FS_Subset, FS_CardinalityType
<1>3. {} \in Good
  <2>1. {} \cap W = {} /\ Cardinality({} \cap W) \in Nat
    BY <1>2
  <2>2. Cardinality({} \cap W) = 0
    BY <2>1, FS_EmptySet
  <2> QED BY <1>1, <2>2
<1>4. ASSUME NEW T \in SUBSET S, T # {}, T \ {Pick(T)} \in Good PROVE T \in Good
  <2> DEFINE R == T \ {Pick(T)}
             e == Pick(T)
             n == Cardinality(R \cap W)
             m == Cardinality(T \cap W)
  <2>1. e \in T /\ e \in S /\ R \in SUBSET S /\ R = T \ {e}
    BY <1>4, PickIs
  <2>2. X[T] = X[R] + x[e] /\ X[R] <= Part(R) + n * M
    BY <1>1, <1>4
  <2>3. n \in Nat /\ m \in Nat
    BY <1>2, <2>1
  <2>4. CASE e \in W
    <3>1. R \cap W = (T \cap W) \ {e} /\ e \in T \cap W
      BY <2>1, <2>4
    <3>2. \A y \in T \cap W : Cardinality((T \cap W) \ {y}) = Cardinality(T \cap W) - 1
      BY <1>2, FS_RemoveElement
    <3>3. n = m - 1
      BY <3>1, <3>2
    <3>4. Part(R) = Part(T) /\ x[e] <= M
      BY <2>1, <2>4
    <3> HIDE DEF n, m, R, e
    <3>5. m * M = n * M + M
      BY <2>3, <3>3
    <3>6. X[R] \in Nat /\ x[e] \in Nat /\ Part(R) \in Nat /\ n * M \in Nat
      BY <1>1, <2>1, <2>3
    <3> HIDE DEF Part
    <3>7. X[T] <= Part(T) + m * M
      BY <2>2, <3>4, <3>5, <3>6
    <3> QED BY <3>7 DEF m
  <2>5. CASE e \notin W
    <3>1. R \cap W = T \cap W
      BY <2>1, <2>5
    <3>2. n = m
      BY <3>1
    <3>3. Part(R) + x[e] <= Part(T)
      <4>1. CASE e = j
        <5>1. Part(R) = 0 /\ Part(T) = d /\ x[e] <= d /\ x[e] \in Nat
          BY <2>1, <4>1
        <5> HIDE DEF Part, e, R
        <5> QED BY <5>1
      <4>2. CASE e # j
        <5>1. Part(R) = Part(T) /\ x[e] = 0 /\ Part(T) \in Nat
          BY <2>1, <2>5, <4>2
        <5> HIDE DEF Part, e, R
        <5> QED BY <5>1
      <4> QED BY <4>1, <4>2
    <3> HIDE DEF n, m, R, e
    <3>4. X[R] \in Nat /\ x[e] \in Nat /\ Part(R) \in Nat /\ Part(T) \in Nat /\ m * M \in Nat
      BY <1>1, <2>1, <2>3
    <3> HIDE DEF Part
    <3>5. X[T] <= Part(T) + m * M
      BY <2>2, <3>2, <3>3, <3>4
    <3> QED BY <3>5 DEF m
  <2> QED BY <2>4, <2>5
<1>5. S \in Good
  <2> HIDE DEF Good
  <2>1. \A T \in SUBSET S : T \in Good
    BY <1>3, <1>4, OneByOne
  <2> QED BY <2>1
<1>6. S \cap W = W /\ X[S] <= Part(S) + Cardinality(S \cap W) * M
  BY <1>5
<1>7. Part(S) \in Nat /\ Part(S) <= d /\ X[S] \in Nat /\ Cardinality(W) * M \in Nat
  <2>1. Cardinality(W) \in Nat
    BY <1>2, <1>6
  <2>2. X[S] \in Nat
    BY <1>1
  <2> QED BY <2>1, <2>2
<1> HIDE DEF Part
<1>8. X[S] <= Part(S) + Cardinality(W) * M
  BY <1>6
<1>9. X[S] <= d + Cardinality(W) * M
  BY <1>7, <1>8
<1> QED BY <1>9 DEF X

BkCounts == IsFiniteSet(Job) /\ IsFiniteSet(Cam) /\ max_concurrent_jobs \in Nat \ {0} /\ archive_dir_max \in Nat

LEMMA BkCards == ASSUME NEW S PROVE Bk!Cardinality(S) = Cardinality(S)
BY Zenon DEF Bk!Cardinality, Cardinality

(* What an archive has, or is about to have. *)
InZip == [j \in Job |-> Cardinality(zips[j])]
Load == [j \in Job |-> Cardinality(zips[j]) + (IF task[j].pc = "zip" THEN Cardinality(task[j].segs) ELSE 0)]

ArcPcs == {"off", "asked", "measure", "zip"}
ArcTasks == [pc : ArcPcs, cams : SUBSET Cam, by : {"scheduler"}, segs : SUBSET Cam, todo : {{}}, checked : {0}, since : {0}]

ArcInv ==
    /\ footage \in SUBSET Cam /\ task \in [Job -> ArcTasks] /\ zips \in [Job -> SUBSET Cam]
    /\ Cardinality(Bk!Working) <= max_concurrent_jobs
    /\ Total(Load, Job)[Job] <= archive_dir_max + (max_concurrent_jobs - 1) * Cardinality(Cam)

LEMMA UsedIs ==
  ASSUME BkCounts
  PROVE  Bk!ArchiveUsed = Total(InZip, Job)[Job]
<1> DEFINE Body(f) == [T \in SUBSET Job |-> IF T = {} THEN 0 ELSE f[T \ {Pick(T)}] + Cardinality(zips[Pick(T)])]
           Body2(f) == [T \in SUBSET Job |-> IF T = {} THEN 0 ELSE f[T \ {Pick(T)}] + InZip[Pick(T)]]
           u == CHOOSE f : f = Body(f)
<1>1. Bk!ArchiveUsed = u[Job]
  BY Zenon DEF Bk!ArchiveUsed, Bk!FoldSet, Bk!MapThenFoldSet, Pick, Bk!Cardinality, Cardinality
<1>2. ASSUME NEW f PROVE Body(f) = Body2(f)
  <2>1. ASSUME NEW T \in SUBSET Job, T # {} PROVE InZip[Pick(T)] = Cardinality(zips[Pick(T)])
    <3>1. Pick(T) \in Job
      BY <2>1, PickIs
    <3> QED BY <3>1 DEF InZip
  <2> QED BY <2>1
<1>3. u = CHOOSE f : f = Body2(f)
  <2> HIDE DEF Body, Body2
  <2> QED BY <1>2
<1>4. u = Total(InZip, Job)
  <2> HIDE DEF u
  <2> QED BY <1>3 DEF Total
<1> HIDE DEF u
<1> QED BY <1>1, <1>4

LEMMA CamCards ==
  ASSUME BkCounts
  PROVE  \A S \in SUBSET Cam : IsFiniteSet(S) /\ Cardinality(S) \in Nat /\ Cardinality(S) <= Cardinality(Cam)
BY FS_Subset, FS_CardinalityType DEF BkCounts

LEMMA LoadsAre ==
  ASSUME BkCounts, task \in [Job -> ArcTasks], zips \in [Job -> SUBSET Cam]
  PROVE  Load \in [Job -> Nat] /\ InZip \in [Job -> Nat] /\ \A j \in Job : InZip[j] <= Load[j]
<1>1. ASSUME NEW j \in Job
      PROVE  /\ Cardinality(zips[j]) \in Nat /\ Cardinality(task[j].segs) \in Nat
             /\ InZip[j] = Cardinality(zips[j])
             /\ Load[j] = Cardinality(zips[j]) + (IF task[j].pc = "zip" THEN Cardinality(task[j].segs) ELSE 0)
  <2>1. zips[j] \in SUBSET Cam /\ task[j].segs \in SUBSET Cam
    BY DEF ArcTasks
  <2> QED BY <2>1, CamCards DEF Load, InZip
<1> QED BY <1>1 DEF Load, InZip

LEMMA TotalLess ==
  ASSUME NEW S, IsFiniteSet(S), NEW g \in [S -> Nat], NEW h \in [S -> Nat], \A i \in S : g[i] <= h[i]
  PROVE  Total(g, S)[S] <= Total(h, S)[S]
<1> DEFINE x == [i \in S |-> 0]
<1>1. x \in [S -> Nat] /\ \A i \in S : x[i] = 0
  OBVIOUS
<1> HIDE DEF x
<1>2. Total(g, S)[S] <= Total(h, S)[S] + Total(x, S)[S]
  <2>1. \A i \in S : g[i] <= h[i] + x[i]
    BY <1>1
  <2> QED BY <1>1, <2>1, TotalGrows
<1>3. Total(x, S)[S] <= 0 + Cardinality({}) * 0
  <2> DEFINE j == CHOOSE j : j \notin S
             W == {}
             d == 0
             M == 0
  <2>1. \A i \in S : /\ i = j => x[i] <= d
                     /\ i \in W => x[i] <= M
                     /\ i # j /\ i \notin W => x[i] = 0
    BY <1>1
  <2>2. d \in Nat /\ W \in SUBSET S /\ M \in Nat /\ j \notin W
    OBVIOUS
  <2>3. Total(x, S)[S] <= d + Cardinality(W) * M
    <3> HIDE DEF j, W, d, M
    <3> QED BY <1>1, <2>1, <2>2, TotalFew
  <2> QED BY <2>3
<1>4. Cardinality({}) = 0
  BY FS_EmptySet
<1>5. Total(g, S)[S] \in Nat /\ Total(h, S)[S] \in Nat /\ Total(x, S)[S] \in Nat
  <2>1. Total(g, S) \in [SUBSET S -> Nat] /\ Total(h, S) \in [SUBSET S -> Nat] /\ Total(x, S) \in [SUBSET S -> Nat]
    BY <1>1, TotalIs
  <2>2. S \in SUBSET S
    OBVIOUS
  <2> QED BY <2>1, <2>2
<1>6. Total(x, S)[S] <= 0
  BY <1>3, <1>4
<1> QED BY <1>2, <1>5, <1>6

LEMMA ArcSays ==
  ASSUME BkCounts, ArcInv
  PROVE  Bk!ArchiveBounded
<1>1. Load \in [Job -> Nat] /\ InZip \in [Job -> Nat] /\ \A j \in Job : InZip[j] <= Load[j]
  BY LoadsAre DEF ArcInv
<1>2. Total(InZip, Job)[Job] <= Total(Load, Job)[Job]
  BY <1>1, TotalLess DEF BkCounts
<1>3. Total(InZip, Job)[Job] \in Nat /\ Total(Load, Job)[Job] \in Nat
  <2>1. Total(InZip, Job) \in [SUBSET Job -> Nat] /\ Total(Load, Job) \in [SUBSET Job -> Nat]
    BY <1>1, TotalIs DEF BkCounts
  <2>2. Job \in SUBSET Job
    OBVIOUS
  <2> QED BY <2>1, <2>2
<1>4. Cardinality(Cam) \in Nat
  BY FS_CardinalityType DEF BkCounts
<1>5. (max_concurrent_jobs - 1) * Cardinality(Cam) \in Nat /\ archive_dir_max \in Nat
  BY <1>4 DEF BkCounts
<1>6. Total(InZip, Job)[Job] <= archive_dir_max + (max_concurrent_jobs - 1) * Cardinality(Cam)
  BY <1>2, <1>3, <1>5 DEF ArcInv
<1> QED BY <1>6, UsedIs, BkCards DEF Bk!ArchiveBounded

(* A step that holds no more permits and adds to no archive what it had not measured. *)
LEMMA ArcKeeps ==
  ASSUME BkCounts, ArcInv, footage' \in SUBSET Cam, task' \in [Job -> ArcTasks], zips' \in [Job -> SUBSET Cam],
         Cardinality(Bk!Working') <= max_concurrent_jobs, \A j \in Job : Load'[j] <= Load[j]
  PROVE  ArcInv'
<1> DEFINE g == Load'
           h == Load
<1>1. h \in [Job -> Nat]
  BY LoadsAre DEF ArcInv
<1>2. g \in [Job -> Nat]
  <2>1. ASSUME NEW j \in Job
        PROVE  Cardinality(zips'[j]) + (IF task'[j].pc = "zip" THEN Cardinality(task'[j].segs) ELSE 0) \in Nat
    <3>1. zips'[j] \in SUBSET Cam /\ task'[j].segs \in SUBSET Cam
      BY DEF ArcTasks
    <3> QED BY <3>1, CamCards
  <2> QED BY <2>1 DEF Load
<1> HIDE DEF g, h
<1>3. Total(g, Job)[Job] <= Total(h, Job)[Job]
  <2>1. \A j \in Job : g[j] <= h[j]
    BY DEF g, h
  <2> QED BY <1>1, <1>2, <2>1, TotalLess DEF BkCounts
<1>4. Total(g, Job)[Job] \in Nat /\ Total(h, Job)[Job] \in Nat
  <2>1. Total(g, Job) \in [SUBSET Job -> Nat] /\ Total(h, Job) \in [SUBSET Job -> Nat]
    BY <1>1, <1>2, TotalIs DEF BkCounts
  <2>2. Job \in SUBSET Job
    OBVIOUS
  <2> QED BY <2>1, <2>2
<1>5. Total(h, Job)[Job] <= archive_dir_max + (max_concurrent_jobs - 1) * Cardinality(Cam)
  BY DEF ArcInv, h
<1>6. (max_concurrent_jobs - 1) * Cardinality(Cam) \in Nat /\ archive_dir_max \in Nat
  BY FS_CardinalityType DEF BkCounts
<1>7. Total(g, Job)[Job] <= archive_dir_max + (max_concurrent_jobs - 1) * Cardinality(Cam)
  BY <1>3, <1>4, <1>5, <1>6
<1>8. Total(Load, Job)[Job]' = Total(g, Job)[Job]
  BY Zenon DEF Total, Pick, g
<1> QED BY <1>7, <1>8 DEF ArcInv

Held(t) == t.pc \in {"measure", "zip"}
Weight(t, z) == Cardinality(z) + (IF t.pc = "zip" THEN Cardinality(t.segs) ELSE 0)

LEMMA LoadIs ==
  ASSUME NEW j \in Job
  PROVE  Load[j] = Weight(task[j], zips[j]) /\ Load'[j] = Weight(task'[j], zips'[j])
BY DEF Load, Weight

LEMMA WorkingIs ==
  ASSUME task \in [Job -> ArcTasks]
  PROVE  Bk!Working = {j \in Job : Held(task[j])}
<1>1. \A j \in Job : task[j].pc \in ArcPcs
  BY DEF ArcTasks
<1> QED BY <1>1 DEF Bk!Working, Held, ArcPcs

LEMMA OneJob ==
  ASSUME ArcInv, NEW j \in Job, NEW t \in ArcTasks, NEW z \in SUBSET Cam,
         task' = [task EXCEPT ![j] = t], zips' = [zips EXCEPT ![j] = z]
  PROVE  /\ task' \in [Job -> ArcTasks] /\ zips' \in [Job -> SUBSET Cam]
         /\ task'[j] = t /\ zips'[j] = z
         /\ \A i \in Job \ {j} : task'[i] = task[i] /\ zips'[i] = zips[i] /\ Load'[i] = Load[i]
         /\ Bk!Working' = {i \in Job : Held(task'[i])}
<1>1. task \in [Job -> ArcTasks] /\ zips \in [Job -> SUBSET Cam]
  BY DEF ArcInv
<1>2. /\ task' \in [Job -> ArcTasks] /\ zips' \in [Job -> SUBSET Cam] /\ task'[j] = t /\ zips'[j] = z
      /\ \A i \in Job \ {j} : task'[i] = task[i] /\ zips'[i] = zips[i]
  BY <1>1
<1>3. \A i \in Job \ {j} : Load'[i] = Load[i]
  BY <1>2, LoadIs
<1>4. Bk!Working' = {i \in Job : Held(task'[i])}
  <2>1. \A i \in Job : task'[i].pc \in ArcPcs
    BY <1>2 DEF ArcTasks
  <2> QED BY <2>1 DEF Bk!Working, Held, ArcPcs
<1> QED BY <1>2, <1>3, <1>4

LEMMA ArcLighter ==
  ASSUME BkCounts, ArcInv, footage' \in SUBSET Cam, NEW j \in Job, NEW t \in ArcTasks, NEW z \in SUBSET Cam,
         task' = [task EXCEPT ![j] = t], zips' = [zips EXCEPT ![j] = z],
         Held(t) => Held(task[j]), Weight(t, z) <= Weight(task[j], zips[j])
  PROVE  ArcInv'
<1>1. /\ task' \in [Job -> ArcTasks] /\ zips' \in [Job -> SUBSET Cam] /\ task'[j] = t /\ zips'[j] = z
      /\ \A i \in Job \ {j} : task'[i] = task[i] /\ zips'[i] = zips[i] /\ Load'[i] = Load[i]
      /\ Bk!Working' = {i \in Job : Held(task'[i])}
  BY OneJob, ZenonT(60)
<1>2. Bk!Working = {i \in Job : Held(task[i])}
  BY WorkingIs DEF ArcInv
<1>3. Bk!Working' \subseteq Bk!Working
  BY <1>1, <1>2
<1>4. IsFiniteSet(Bk!Working) /\ Cardinality(Bk!Working) \in Nat
  BY <1>2, FS_Subset, FS_CardinalityType DEF BkCounts
<1>5. Cardinality(Bk!Working') \in Nat /\ Cardinality(Bk!Working') <= Cardinality(Bk!Working)
  BY <1>3, <1>4, FS_Subset, FS_CardinalityType
<1>6. Cardinality(Bk!Working') <= max_concurrent_jobs
  BY <1>4, <1>5 DEF ArcInv, BkCounts
<1>7. ASSUME NEW i \in Job PROVE Load'[i] <= Load[i]
  <2>1. CASE i = j
    BY <1>1, <2>1, LoadIs
  <2>2. CASE i # j
    <3>1. Load[i] \in Nat
      BY LoadsAre DEF ArcInv
    <3> QED BY <1>1, <2>2, <3>1
  <2> QED BY <2>1, <2>2
<1> QED BY <1>1, <1>6, <1>7, ArcKeeps

LEMMA SetsAre ==
  ASSUME ArcInv, NEW j \in Job
  PROVE  /\ task[j] \in ArcTasks /\ zips[j] \in SUBSET Cam /\ task[j].segs \in SUBSET Cam
         /\ task = [task EXCEPT ![j] = task[j]] /\ zips = [zips EXCEPT ![j] = zips[j]]
         /\ Bk!Off \in ArcTasks /\ Bk!Off.pc = "off"
BY DEF ArcInv, ArcTasks, ArcPcs, Bk!Off

LEMMA Weights ==
  ASSUME BkCounts, ArcInv, NEW j \in Job
  PROVE  /\ Cardinality(zips[j]) \in Nat /\ Cardinality(task[j].segs) \in Nat
         /\ Cardinality(task[j].segs) <= Cardinality(Cam) /\ Cardinality(Cam) \in Nat
BY SetsAre, CamCards, FS_CardinalityType DEF BkCounts

LEMMA ArcEnds ==
  ASSUME BkCounts, ArcInv, footage' = footage, NEW j \in Job, Bk!End(j),
         zips' = zips \/ (task[j].pc = "zip" /\ zips' = [zips EXCEPT ![j] = task[j].segs \cap footage])
  PROVE  ArcInv'
<1>1. task' = [task EXCEPT ![j] = Bk!Off] /\ Bk!Off \in ArcTasks /\ ~ Held(Bk!Off) /\ footage' \in SUBSET Cam
  BY SetsAre DEF Bk!End, Held, ArcInv
<1>2. Weight(Bk!Off, zips[j]) = Cardinality(zips[j])
  BY SetsAre, Weights DEF Weight
<1>3. Cardinality(zips[j]) <= Weight(task[j], zips[j])
  BY Weights DEF Weight
<1>4. CASE zips' = zips
  <2>1. zips' = [zips EXCEPT ![j] = zips[j]] /\ zips[j] \in SUBSET Cam
    BY <1>4, SetsAre
  <2> QED BY <1>1, <1>2, <1>3, <2>1, ArcLighter, ZenonT(60)
<1>5. CASE task[j].pc = "zip" /\ zips' = [zips EXCEPT ![j] = task[j].segs \cap footage]
  <2> DEFINE z == task[j].segs \cap footage
  <2>1. z \in SUBSET Cam /\ z \in SUBSET task[j].segs /\ task[j].segs \in SUBSET Cam
    BY SetsAre
  <2>2. Cardinality(z) \in Nat /\ Cardinality(z) <= Cardinality(task[j].segs)
    <3>1. IsFiniteSet(task[j].segs)
      BY <2>1, CamCards
    <3> QED BY <2>1, <3>1, FS_Subset, FS_CardinalityType
  <2>3. Weight(Bk!Off, z) = Cardinality(z)
    BY SetsAre, <2>2 DEF Weight
  <2>4. Weight(task[j], zips[j]) = Cardinality(zips[j]) + Cardinality(task[j].segs)
    BY <1>5 DEF Weight
  <2>5. Weight(Bk!Off, z) <= Weight(task[j], zips[j])
    BY <2>2, <2>3, <2>4, Weights
  <2> HIDE DEF z
  <2> QED BY <1>1, <1>5, <2>1, <2>5, ArcLighter DEF z
<1> QED BY <1>4, <1>5

LEMMA CreateStep ==
  ASSUME BkCounts, ArcInv, NEW j \in Job, NEW cs \in {{}} \cup {{c} : c \in Cam}, Bk!create_archive(j, cs)
  PROVE  ArcInv'
<1> DEFINE t == [Bk!Off EXCEPT !.pc = "asked", !.cams = cs, !.segs = Bk!resolve_segments(cs)]
<1>1. task' = [task EXCEPT ![j] = t] /\ footage' = footage /\ zips' = zips /\ task[j] = Bk!Off
  BY DEF Bk!create_archive, Bk!Free
<1>2. Bk!resolve_segments(cs) \in SUBSET Cam /\ cs \in SUBSET Cam
  BY DEF Bk!resolve_segments, ArcInv
<1>3. t \in ArcTasks /\ t.pc = "asked"
  BY <1>2 DEF ArcTasks, ArcPcs, Bk!Off
<1> HIDE DEF t
<1>4. Weight(t, zips[j]) <= Weight(task[j], zips[j]) /\ ~ Held(t)
  BY <1>1, <1>3, SetsAre, Weights DEF Weight, Held
<1> QED BY <1>1, <1>3, <1>4, SetsAre, ArcLighter, ZenonT(60) DEF ArcInv

LEMMA PermitStep ==
  ASSUME BkCounts, ArcInv, NEW j \in Job, Bk!ArchivePermit(j)
  PROVE  ArcInv'
<1> DEFINE t == [task[j] EXCEPT !.pc = "measure"]
<1>1. /\ task' = [task EXCEPT ![j] = t] /\ footage' = footage /\ zips' = zips /\ task[j].pc = "asked"
      /\ Cardinality(Bk!Working) < max_concurrent_jobs
  BY BkCards DEF Bk!ArchivePermit, Bk!TakePermit
<1>2. t \in ArcTasks /\ t.pc = "measure" /\ t.segs = task[j].segs
  BY SetsAre DEF ArcTasks, ArcPcs
<1> HIDE DEF t
<1>3. zips' = [zips EXCEPT ![j] = zips[j]] /\ zips[j] \in SUBSET Cam
  BY <1>1, SetsAre
<1>4. /\ task' \in [Job -> ArcTasks] /\ zips' \in [Job -> SUBSET Cam] /\ task'[j] = t /\ zips'[j] = zips[j]
      /\ \A i \in Job \ {j} : task'[i] = task[i] /\ zips'[i] = zips[i] /\ Load'[i] = Load[i]
      /\ Bk!Working' = {i \in Job : Held(task'[i])}
  BY <1>1, <1>2, <1>3, OneJob, ZenonT(60)
<1>5. Bk!Working = {i \in Job : Held(task[i])}
  BY WorkingIs DEF ArcInv
<1>6. Bk!Working' = Bk!Working \cup {j}
  <2>1. Held(t)
    BY <1>2 DEF Held
  <2> QED BY <1>4, <1>5, <2>1
<1>7. IsFiniteSet(Bk!Working) /\ Cardinality(Bk!Working) \in Nat /\ j \notin Bk!Working
  BY <1>1, <1>5, FS_Subset, FS_CardinalityType DEF BkCounts, Held
<1>8. Cardinality(Bk!Working \cup {j}) = Cardinality(Bk!Working) + 1
  BY <1>7, FS_AddElement, ZenonT(60)
<1>9. Cardinality(Bk!Working') <= max_concurrent_jobs
  BY <1>1, <1>6, <1>7, <1>8 DEF BkCounts
<1>10. ASSUME NEW i \in Job PROVE Load'[i] <= Load[i]
  <2>1. Load[i] \in Nat
    BY LoadsAre DEF ArcInv
  <2>2. CASE i = j
    <3>1. Weight(t, zips[j]) = Weight(task[j], zips[j])
      BY <1>1, <1>2 DEF Weight
    <3>2. Load'[j] = Load[j]
      BY <1>4, <3>1, LoadIs
    <3> QED BY <2>1, <2>2, <3>2
  <2>3. CASE i # j
    BY <1>4, <2>1, <2>3
  <2> QED BY <2>2, <2>3
<1> QED BY <1>1, <1>4, <1>9, <1>10, ArcKeeps DEF ArcInv

(* The room is what the directory holds when it is measured: what the other permits' archives have
   measured and not yet written comes on top. *)
LEMMA MeasureStep ==
  ASSUME BkCounts, ArcInv, NEW j \in Job, Bk!MeasureArchive(j)
  PROVE  ArcInv'
<1>1. task[j].pc = "measure" /\ footage' = footage /\ zips' = zips
  BY DEF Bk!MeasureArchive
<1>2. CASE Bk!End(j)
  BY <1>1, <1>2, ArcEnds
<1>3. CASE Bk!Fits(j) /\ task' = [task EXCEPT ![j].pc = "zip"]
  <2> DEFINE t == [task[j] EXCEPT !.pc = "zip"]
  <2>1. task' = [task EXCEPT ![j] = t]
    BY <1>3
  <2>2. t \in ArcTasks /\ t.pc = "zip" /\ t.segs = task[j].segs
    BY SetsAre DEF ArcTasks, ArcPcs
  <2> HIDE DEF t
  <2>3. zips' = [zips EXCEPT ![j] = zips[j]] /\ zips[j] \in SUBSET Cam
    BY <1>1, SetsAre
  <2>4. /\ task' \in [Job -> ArcTasks] /\ zips' \in [Job -> SUBSET Cam] /\ task'[j] = t /\ zips'[j] = zips[j]
        /\ \A i \in Job \ {j} : task'[i] = task[i] /\ zips'[i] = zips[i] /\ Load'[i] = Load[i]
        /\ Bk!Working' = {i \in Job : Held(task'[i])}
    BY <2>1, <2>2, <2>3, OneJob, ZenonT(60)
  <2>5. Bk!Working = {i \in Job : Held(task[i])}
    BY WorkingIs DEF ArcInv
  <2>6. Held(t) /\ Held(task[j]) /\ j \in Bk!Working /\ Bk!Working' = Bk!Working
    <3>1. Held(t) /\ Held(task[j])
      BY <1>1, <2>2 DEF Held
    <3> QED BY <2>4, <2>5, <3>1
  <2> DEFINE W == Bk!Working \ {j}
             d == Cardinality(task[j].segs)
             M == Cardinality(Cam)
             g == Load'
             x == [i \in Job |-> IF i = j THEN d ELSE IF i \in W THEN M ELSE 0]
  <2>7. IsFiniteSet(Bk!Working) /\ Cardinality(Bk!Working) \in Nat /\ Cardinality(Bk!Working) <= max_concurrent_jobs
    BY <2>5, FS_Subset, FS_CardinalityType DEF BkCounts, ArcInv
  <2>8. Cardinality(W) = Cardinality(Bk!Working) - 1
    BY <2>6, <2>7, FS_RemoveElement
  <2>9. d \in Nat /\ M \in Nat /\ W \in SUBSET Job /\ j \notin W
    BY <2>5, Weights
  <2>10. x \in [Job -> Nat]
    <3> HIDE DEF d, M, W
    <3> QED BY <2>9
  <2>11. InZip \in [Job -> Nat] /\ Load \in [Job -> Nat]
    BY LoadsAre DEF ArcInv
  <2>12. ASSUME NEW i \in Job PROVE g[i] \in Nat /\ g[i] <= InZip[i] + x[i]
    <3>1. InZip[i] = Cardinality(zips[i]) /\ InZip[i] \in Nat
      BY <2>11 DEF InZip
    <3>2. CASE i = j
      <4>1. g[i] = Cardinality(zips[j]) + d
        BY <2>2, <2>4, <3>2, LoadIs DEF Weight
      <4>2. x[i] = d
        BY <3>2
      <4> HIDE DEF g, x, d
      <4> QED BY <2>9, <3>1, <3>2, <4>1, <4>2
    <3>3. CASE i # j
      <4>1. g[i] = Weight(task[i], zips[i])
        BY <2>4, <3>3, LoadIs
      <4>2. task[i].pc = "zip" => i \in W
        <5>1. task[i].pc = "zip" => Held(task[i])
          BY DEF Held
        <5> QED BY <2>5, <3>3, <5>1
      <4>3. Cardinality(task[i].segs) \in Nat /\ Cardinality(task[i].segs) <= M
        BY Weights
      <4>4. x[i] = IF i \in W THEN M ELSE 0
        BY <3>3
      <4> HIDE DEF g, x, M, W
      <4>5. CASE task[i].pc = "zip"
        <5>1. g[i] = InZip[i] + Cardinality(task[i].segs)
          BY <3>1, <4>1, <4>5 DEF Weight
        <5>2. x[i] = M
          BY <4>2, <4>4, <4>5
        <5> QED BY <2>9, <3>1, <4>3, <5>1, <5>2
      <4>6. CASE task[i].pc # "zip"
        <5>1. g[i] = InZip[i]
          BY <3>1, <4>1, <4>6 DEF Weight
        <5>2. x[i] \in Nat
          BY <2>10
        <5> QED BY <3>1, <5>1, <5>2
      <4> QED BY <4>5, <4>6
    <3> QED BY <3>2, <3>3
  <2>13. g \in [Job -> Nat]
    <3>1. g = [i \in Job |-> g[i]]
      BY DEF Load
    <3> HIDE DEF g
    <3> QED BY <2>12, <3>1
  <2>14. \A i \in Job : /\ i = j => x[i] <= d
                        /\ i \in W => x[i] <= M
                        /\ i # j /\ i \notin W => x[i] = 0
    <3> HIDE DEF d, M
    <3> QED BY <2>9
  <2>15. Bk!ArchiveUsed + d <= archive_dir_max
    BY <1>3, BkCards DEF Bk!Fits
  <2> HIDE DEF g, x, d, M, W
  <2>16. Total(g, Job)[Job] <= Total(InZip, Job)[Job] + Total(x, Job)[Job]
    BY <2>10, <2>11, <2>12, <2>13, TotalGrows DEF BkCounts
  <2>17. Total(x, Job)[Job] <= d + Cardinality(W) * M
    BY <2>9, <2>10, <2>14, TotalFew DEF BkCounts
  <2>18. Total(g, Job)[Job] \in Nat /\ Total(InZip, Job)[Job] \in Nat /\ Total(x, Job)[Job] \in Nat
    <3>1. Total(g, Job) \in [SUBSET Job -> Nat] /\ Total(InZip, Job) \in [SUBSET Job -> Nat] /\ Total(x, Job) \in [SUBSET Job -> Nat]
      BY <2>10, <2>11, <2>13, TotalIs DEF BkCounts
    <3>2. Job \in SUBSET Job
      OBVIOUS
    <3> QED BY <3>1, <3>2
  <2>19. Cardinality(W) * M <= (max_concurrent_jobs - 1) * M /\ Cardinality(W) * M \in Nat
         /\ (max_concurrent_jobs - 1) * M \in Nat
    <3>1. Cardinality(W) \in Nat /\ max_concurrent_jobs - 1 \in Nat /\ Cardinality(W) <= max_concurrent_jobs - 1
      <4>1. Cardinality(W) \in Nat
        BY <2>7, FS_Subset, FS_CardinalityType DEF W
      <4> QED BY <2>7, <2>8, <4>1 DEF BkCounts
    <3>2. \A a, b, m \in Nat : a <= b => a * m <= b * m /\ a * m \in Nat /\ b * m \in Nat
      OBVIOUS
    <3> QED BY <2>9, <3>1, <3>2
  <2>20. Total(g, Job)[Job] <= archive_dir_max + (max_concurrent_jobs - 1) * M
    <3>1. Total(InZip, Job)[Job] + d <= archive_dir_max
      BY <2>15, UsedIs, SMTT(60)
    <3> QED BY <2>9, <2>16, <2>17, <2>18, <2>19, <3>1 DEF BkCounts
  <2>21. Total(Load, Job)[Job]' = Total(g, Job)[Job]
    BY Zenon DEF Total, Pick, g
  <2>22. Cardinality(Bk!Working') <= max_concurrent_jobs
    BY <2>6, <2>7
  <2>23. footage' \in SUBSET Cam
    BY <1>1 DEF ArcInv
  <2> QED BY <2>4, <2>20, <2>21, <2>22, <2>23 DEF ArcInv, M
<1> QED BY <1>2, <1>3 DEF Bk!MeasureArchive

LEMMA ArcSteps ==
  ASSUME BkCounts, ArcInv, Bk!ArchiveStep
  PROVE  ArcInv'
<1>1. ASSUME NEW j \in Job, NEW cs \in {{}} \cup {{c} : c \in Cam}, Bk!create_archive(j, cs) PROVE ArcInv'
  BY <1>1, CreateStep, SMTT(60)
<1>2. ASSUME NEW j \in Job, Bk!ArchivePermit(j) PROVE ArcInv'
  BY <1>2, PermitStep
<1>3. ASSUME NEW j \in Job, Bk!MeasureArchive(j) PROVE ArcInv'
  BY <1>3, MeasureStep
<1>4. ASSUME NEW j \in Job, Bk!build_archive_zip(j) PROVE ArcInv'
  <2>1. Bk!End(j) /\ footage' = footage
        /\ (zips' = zips \/ (task[j].pc = "zip" /\ zips' = [zips EXCEPT ![j] = task[j].segs \cap footage]))
    BY <1>4 DEF Bk!build_archive_zip
  <2> QED BY <2>1, ArcEnds
<1>5. ASSUME NEW j \in Job, Bk!DropRequest(j) PROVE ArcInv'
  <2>1. Bk!End(j) /\ footage' = footage
        /\ (zips' = zips \/ (task[j].pc = "zip" /\ zips' = [zips EXCEPT ![j] = task[j].segs \cap footage]))
    BY <1>5 DEF Bk!DropRequest
  <2> QED BY <2>1, ArcEnds
<1>6. ASSUME NEW j \in Job, Bk!delete_job(j) PROVE ArcInv'
  <2> DEFINE z == IF jobStatus[j] = "completed" THEN {} ELSE zips[j]
  <2>1. zips' = [zips EXCEPT ![j] = z] /\ task' = task /\ footage' = footage
    BY <1>6 DEF Bk!delete_job
  <2>2. z \in SUBSET Cam /\ task' = [task EXCEPT ![j] = task[j]] /\ task[j] \in ArcTasks
    BY <2>1, SetsAre
  <2>3. Weight(task[j], z) <= Weight(task[j], zips[j])
    <3>1. Cardinality({}) = 0
      BY FS_EmptySet
    <3> QED BY <3>1, Weights DEF Weight
  <2> HIDE DEF z
  <2> QED BY <2>1, <2>2, <2>3, ArcLighter DEF ArcInv
<1>7. CASE Bk!Vanish
  <2>1. footage' \in SUBSET Cam /\ task' = task /\ zips' = zips
    BY <1>7 DEF Bk!Vanish, ArcInv
  <2>2. Load' = Load /\ Bk!Working' = Bk!Working
    BY <2>1 DEF Load, Bk!Working
  <2>3. Load \in [Job -> Nat]
    BY LoadsAre DEF ArcInv
  <2>4. \A j \in Job : Load'[j] <= Load[j]
    BY <2>2, <2>3
  <2> QED BY <2>1, <2>2, <2>4, ArcKeeps DEF ArcInv
<1> QED BY <1>1, <1>2, <1>3, <1>4, <1>5, <1>6, <1>7 DEF Bk!ArchiveStep

LEMMA Counts ==
  /\ Horizon \in Nat /\ Horizon >= 4 /\ GAP_TOLERANCE \in Nat /\ BkCounts
  /\ {"none", "empty"} \cap Asker = {} /\ "a1" \in Asker
BY FootageAssumption DEF BkCounts

LEMMA FootageRows == ASSUME NEW S \in Footage PROVE S \in SUBSET Evi!Intervals /\ IsFiniteSet(S) /\ StartsApart(S)
<1>1. S \in SUBSET Evi!Intervals /\ StartsApart(S)
  BY DEF Footage, StartsApart
<1>2. IsFiniteSet((0..Horizon) \X (0..Horizon))
  <2>1. 0 \in Int /\ Horizon \in Int
    BY Counts
  <2>2. IsFiniteSet(0..Horizon)
    BY <2>1, FS_Interval
  <2> QED BY <2>2, FS_Product
<1>3. S \in SUBSET ((0..Horizon) \X (0..Horizon))
  BY <1>1 DEF Evi!Intervals
<1>4. IsFiniteSet(S)
  BY <1>2, <1>3, FS_Subset
<1> QED BY <1>1, <1>4

LEMMA ExpInvInit ==
  ASSUME Evi!EvInit, recorded \in Footage \/ recorded = {<<0, 2>>, <<2, 4>>}
  PROVE  ExpInv
<1>1. RowsInOrder
  <2>1. CASE recorded \in Footage
    BY <2>1, FootageRows DEF RowsInOrder
  <2>2. CASE recorded = {<<0, 2>>, <<2, 4>>}
    <3>1. IsFiniteSet(recorded)
      <4>1. IsFiniteSet({<<0, 2>>})
        BY FS_Singleton
      <4>2. IsFiniteSet({<<0, 2>>} \cup {<<2, 4>>})
        BY <4>1, FS_AddElement
      <4>3. recorded = {<<0, 2>>} \cup {<<2, 4>>}
        BY <2>2
      <4> QED BY <4>2, <4>3
    <3>2. recorded \in SUBSET Evi!Intervals
      BY <2>2, Counts DEF Evi!Intervals
    <3>3. StartsApart(recorded)
      BY <2>2 DEF StartsApart
    <3> QED BY <3>1, <3>2, <3>3 DEF RowsInOrder
  <2> QED BY <2>1, <2>2
<1>2. ASSUME NEW a \in Asker PROVE exports[a] = Evi!NoExport /\ dir[a] = Evi!NoBundle /\ a \notin indexed
  BY DEF Evi!EvInit
<1>3. IsExport(Evi!NoExport) /\ Evi!NoExport.pc = "off" /\ Evi!NoExport.whole = FALSE
  BY DEF Evi!NoExport, IsExport, Fields
<1>4. ASSUME NEW a \in Asker PROVE ExportOk(a, exports[a], dir[a], indexed, keyFile)
  <2>1. ClipOk(exports[a])
    BY <1>2, <1>3 DEF ClipOk
  <2> QED BY <1>2, <1>3, <2>1 DEF ExportOk, Pcs
<1>5. OneWriter
  BY <1>2, <1>3 DEF OneWriter
<1>6. exports = [a \in Asker |-> exports[a]] /\ dir = [a \in Asker |-> dir[a]] /\ indexed \in SUBSET Asker
  BY DEF Evi!EvInit
<1> QED BY <1>1, <1>4, <1>5, <1>6 DEF ExpInv

LEMMA ArcInvInit ==
  ASSUME NEW used, Bk!BkInit(used)
  PROVE  ArcInv /\ zips = [j \in Job |-> {}]
<1>1. footage = Cam /\ task = [j \in Job |-> Bk!Off] /\ zips = [j \in Job |-> {}]
  BY DEF Bk!BkInit
<1>2. Bk!Off \in ArcTasks /\ Bk!Off.pc = "off"
  BY DEF Bk!Off, ArcTasks, ArcPcs
<1>3. task \in [Job -> ArcTasks] /\ zips \in [Job -> SUBSET Cam] /\ footage \in SUBSET Cam
  BY <1>1, <1>2
<1>4. Bk!Working = {}
  BY <1>1, <1>2 DEF Bk!Working
<1>5. Cardinality({}) = 0
  BY FS_EmptySet
<1>6. ASSUME NEW j \in Job PROVE Load[j] = 0
  BY <1>1, <1>2, <1>5 DEF Load
<1>7. Load \in [Job -> Nat]
  BY <1>3, Counts, LoadsAre
<1> DEFINE j == CHOOSE j : j \notin Job
           W == {}
           d == 0
           M == Cardinality(Cam)
           h == Load
<1>8. d \in Nat /\ M \in Nat /\ W \in SUBSET Job /\ j \notin W /\ Cardinality(W) = 0 /\ d = 0
  BY <1>5, Counts, FS_CardinalityType DEF BkCounts
<1> HIDE DEF j, W, d, M, h
<1>9. Total(h, Job)[Job] <= d + Cardinality(W) * M
  <2>1. h \in [Job -> Nat] /\ \A i \in Job : h[i] = 0
    BY <1>6, <1>7 DEF h
  <2>2. \A i \in Job : /\ i = j => h[i] <= d
                       /\ i \in W => h[i] <= M
                       /\ i # j /\ i \notin W => h[i] = 0
    BY <1>8, <2>1
  <2> QED BY <1>8, <2>1, <2>2, TotalFew, Counts DEF BkCounts
<1>10. (max_concurrent_jobs - 1) * M \in Nat /\ archive_dir_max \in Nat /\ max_concurrent_jobs \in Nat
  BY <1>8, Counts DEF BkCounts
<1>11. Total(h, Job)[Job] \in Nat
  <2>1. Total(h, Job) \in [SUBSET Job -> Nat]
    BY <1>7, TotalIs, Counts DEF BkCounts, h
  <2>2. Job \in SUBSET Job
    OBVIOUS
  <2> QED BY <2>1, <2>2
<1>12. Total(h, Job)[Job] <= 0
  BY <1>8, <1>9
<1>13. Total(h, Job)[Job] <= archive_dir_max + (max_concurrent_jobs - 1) * M
  BY <1>10, <1>11, <1>12
<1>14. Cardinality(Bk!Working) <= max_concurrent_jobs
  BY <1>4, <1>5, <1>10
<1> QED BY <1>1, <1>3, <1>13, <1>14 DEF ArcInv, h, M

(* A policy's jobs make no archive. *)
LEMMA PolicyZips ==
  ASSUME zips = [j \in Job |-> {}], Bk!PolicyStep
  PROVE  zips' = zips
<1>1. ASSUME NEW j \in Job, Bk!delete_job(j) PROVE zips' = zips
  BY <1>1 DEF Bk!delete_job
<1>2. ASSUME NEW j \in Job, Bk!sweep(j) \/ Bk!trigger_policy(j) PROVE zips' = zips
  BY <1>2 DEF Bk!sweep, Bk!trigger_policy, Bk!create_policy_job
<1>3. ASSUME NEW j \in Job, Bk!spawn_job(j) \/ Bk!execute_job(j) \/ Bk!Vet(j) \/ Bk!CopyFile(j) PROVE zips' = zips
  BY <1>3 DEF Bk!spawn_job, Bk!execute_job, Bk!Vet, Bk!CopyFile
<1>4. ASSUME NEW j \in Job, Bk!CheckCreator(j) \/ Bk!Finish(j) PROVE zips' = zips
  BY <1>4 DEF Bk!CheckCreator, Bk!Finish
<1>5. ASSUME Bk!Withdraw \/ Bk!Vanish \/ Bk!PolicyDue \/ Bk!Tick \/ Bk!Crash PROVE zips' = zips
  BY <1>5 DEF Bk!Withdraw, Bk!Vanish, Bk!PolicyDue, Bk!Tick, Bk!Crash
<1> QED BY <1>1, <1>2, <1>3, <1>4, <1>5 DEF Bk!PolicyStep

LEMMA NoArchives ==
  ASSUME BkCounts, zips = [j \in Job |-> {}]
  PROVE  Bk!ArchiveBounded
<1> DEFINE g == InZip
           j == CHOOSE j : j \notin Job
           W == {}
           d == 0
           M == Cardinality(Cam)
<1>1. Cardinality({}) = 0
  BY FS_EmptySet
<1>2. g \in [Job -> Nat] /\ \A i \in Job : g[i] = 0
  BY <1>1 DEF InZip
<1>3. d \in Nat /\ M \in Nat /\ W \in SUBSET Job /\ j \notin W /\ Cardinality(W) = 0 /\ d = 0
  BY <1>1, FS_CardinalityType DEF BkCounts
<1> HIDE DEF j, W, d, M, g
<1>4. Total(g, Job)[Job] <= d + Cardinality(W) * M
  <2>1. \A i \in Job : /\ i = j => g[i] <= d
                       /\ i \in W => g[i] <= M
                       /\ i # j /\ i \notin W => g[i] = 0
    BY <1>2, <1>3
  <2> QED BY <1>2, <1>3, <2>1, TotalFew DEF BkCounts
<1>5. Total(g, Job)[Job] \in Nat
  <2>1. Total(g, Job) \in [SUBSET Job -> Nat]
    BY <1>2, TotalIs DEF BkCounts
  <2>2. Job \in SUBSET Job
    OBVIOUS
  <2> QED BY <2>1, <2>2
<1>6. Total(g, Job)[Job] <= 0
  BY <1>3, <1>4
<1>7. (max_concurrent_jobs - 1) * M \in Nat /\ archive_dir_max \in Nat
  BY <1>3 DEF BkCounts
<1>8. Total(g, Job)[Job] <= archive_dir_max + (max_concurrent_jobs - 1) * M
  BY <1>5, <1>6, <1>7
<1> QED BY <1>8, UsedIs, BkCards DEF Bk!ArchiveBounded, g, M

TrueInv ==
  /\ part \in {"bundle", "key"} => ExpInv
  /\ part = "backup" => zips = [j \in Job |-> {}]
  /\ part = "archive" => ArcInv

LEMMA ExportsNext ==
  ASSUME ExpInv, part \in {"bundle", "key"}, FootageNext
  PROVE  ExpInv'
<1>1. CASE part = "bundle"
  <2>1. Evi!Prune \/ Evi!Exporting("a1") \/ \E s \in Evi!Intervals : Evi!gather("a1", s)
    BY <1>1 DEF FootageNext
  <2> QED BY <2>1, Counts, PruneStep, ExportingSteps, GatherStep
<1>2. CASE part = "key"
  <2>1. PICK a \in Asker : Evi!gather(a, <<1, 4>>) \/ Evi!Exporting(a)
    BY <1>2 DEF FootageNext
  <2>2. <<1, 4>> \in Evi!Intervals
    BY Counts DEF Evi!Intervals
  <2> QED BY <2>1, <2>2, Counts, ExportingSteps, GatherStep
<1> QED BY <1>1, <1>2

(* What an export says of the window, holds of it and lists is so, its key is the one key, and the
   archives are within the cap and what the other permits had measured: for any footage, windows,
   tolerance, requests, jobs and permits. *)
THEOREM ExportsStayTrue == FootageSpec => []ExportsTrue
<1>1. FootageInit => TrueInv
  <2> SUFFICES ASSUME FootageInit PROVE TrueInv
    OBVIOUS
  <2>1. part \in {"bundle", "key"} => ExpInv
    <3>1. part \in {"bundle", "key"} => Evi!EvInit /\ (recorded \in Footage \/ recorded = {<<0, 2>>, <<2, 4>>})
      BY DEF FootageInit
    <3> QED BY <3>1, ExpInvInit
  <2>2. part \in {"backup", "archive"} => \E used : Bk!BkInit(used)
    BY DEF FootageInit
  <2>3. part \in {"backup", "archive"} => ArcInv /\ zips = [j \in Job |-> {}]
    BY <2>2, ArcInvInit
  <2> QED BY <2>1, <2>3 DEF TrueInv
<1>2. TrueInv /\ [FootageNext]_footageVars => TrueInv'
  <2> SUFFICES ASSUME TrueInv, [FootageNext]_footageVars PROVE TrueInv'
    OBVIOUS
  <2>1. CASE FootageNext
    <3>1. part' = part
      BY <2>1 DEF FootageNext
    <3>2. part \in {"bundle", "key"} => ExpInv'
      BY <2>1, ExportsNext DEF TrueInv
    <3>3. part = "backup" => zips' = [j \in Job |-> {}]
      <4>1. part = "backup" => Bk!PolicyStep
        BY <2>1 DEF FootageNext
      <4> QED BY <4>1, PolicyZips DEF TrueInv
    <3>4. part = "archive" => ArcInv'
      <4>1. part = "archive" => Bk!ArchiveStep
        BY <2>1 DEF FootageNext
      <4> QED BY <4>1, ArcSteps, Counts DEF TrueInv
    <3> QED BY <3>1, <3>2, <3>3, <3>4 DEF TrueInv
  <2>2. CASE UNCHANGED footageVars
    <3>1. part' = part /\ UNCHANGED evVars /\ UNCHANGED bkVars
      BY <2>2 DEF footageVars
    <3>2. ExpInv => ExpInv'
      BY <3>1 DEF evVars, ExpInv, RowsInOrder, OneWriter
    <3>3. ArcInv => ArcInv'
      <4>1. UNCHANGED <<task, footage, zips>>
        BY <3>1 DEF bkVars
      <4>2. Load' = Load /\ Bk!Working' = Bk!Working
        BY <4>1 DEF Load, Bk!Working
      <4>3. Total(Load, Job)[Job]' = Total(Load', Job)[Job]
        BY Zenon DEF Total, Pick
      <4> QED BY <4>1, <4>2, <4>3 DEF ArcInv
    <3> QED BY <3>1, <3>2, <3>3 DEF TrueInv, bkVars
  <2> QED BY <2>1, <2>2
<1>3. TrueInv => ExportsTrue
  <2> SUFFICES ASSUME TrueInv PROVE ExportsTrue
    OBVIOUS
  <2>1. part \in {"bundle", "key"} => Evi!CoverageTrue /\ Evi!ClipComplete /\ Evi!BundleAccounted /\ Evi!OneKey
    BY ExportsSayTrue DEF TrueInv
  <2>2. part \in {"backup", "archive"} => Bk!ArchiveBounded
    BY Counts, NoArchives, ArcSays DEF TrueInv
  <2> QED BY <2>1, <2>2 DEF ExportsTrue
<1> QED BY <1>1, <1>2, <1>3, PTL DEF FootageSpec

=============================================================================
