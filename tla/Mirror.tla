------------------------------- MODULE Mirror -------------------------------
(***************************************************************************)
(* The second recorder of a mirrored camera (mirror.rs).  A reconcile      *)
(* stops the camera's task, reads its row and starts another; nothing      *)
(* serialises two of them, and a handler can be dropped at any await.      *)
(* One camera.  A supervisor is known by its generation.                   *)
(***************************************************************************)
EXTENDS Integers, FiniteSets

CONSTANTS MirEditor,    \* requests that change the camera
          MaxMirEdits,  \* changes (bound)
          MaxMirErrors  \* failing statements and processes (bound)

VARIABLES mirRow,  \* the row: [on, rev], on: enabled, record_enabled and mirror_enabled; rev: the changes made
          mirReq,  \* actor -> [pc, gen]: where its reconcile is, and the task it waits for or starts
          entry,   \* the generation the table names, or 0
          mirrors, \* supervisors alive: [gen, pc, rev, stop], rev: the row its process records with
          nextGen, \* next_generation
          mirErrs,
          mirCut   \* a reconcile was dropped, or could not read the row

mirVars == <<mirRow, mirReq, entry, mirrors, nextGen, mirErrs, mirCut>>

Boot == "boot"
Quit == "quit"
Actor == MirEditor \cup {Boot, Quit}
MirFails == mirErrs < MaxMirErrors /\ mirErrs' = mirErrs + 1

MirInit ==
    /\ mirRow \in [on : BOOLEAN, rev : {0}]
    /\ mirReq = [a \in Actor |-> [pc |-> CASE a = Boot -> "read" [] a = Quit -> "up" [] OTHER -> "rest", gen |-> 0]]
    /\ entry = 0 /\ mirrors = {} /\ nextGen = 1 /\ mirErrs = 0 /\ mirCut = FALSE

At(a, pc) == mirReq' = [mirReq EXCEPT ![a].pc = pc]

-----------------------------------------------------------------------------
(* A reconcile.                                                            *)

\* A request changes the row, and reconciles.
ChangeRow(e) ==
    /\ mirReq[e].pc = "rest" /\ mirRow.rev < MaxMirEdits
    /\ \E b \in BOOLEAN : mirRow' = [on |-> b, rev |-> mirRow.rev + 1]
    /\ At(e, "stop")
    /\ UNCHANGED <<entry, mirrors, nextGen, mirErrs, mirCut>>

\* stop: the task is out of the table and told to end; then its end is waited for.
stop(a) ==
    /\ mirReq[a].pc = "stop"
    /\ entry' = 0
    /\ mirrors' = {[m EXCEPT !.stop = m.stop \/ m.gen = entry] : m \in mirrors}
    /\ mirReq' = [mirReq EXCEPT ![a] = [pc |-> "await", gen |-> entry]]
    /\ UNCHANGED <<mirRow, nextGen, mirErrs, mirCut>>

\* It ends by itself, or is aborted after 8 s.
Await(a) ==
    /\ mirReq[a].pc = "await" /\ \A m \in mirrors : m.gen # mirReq[a].gen
    /\ At(a, IF a = Quit THEN "down" ELSE "read")
    /\ UNCHANGED <<mirRow, entry, mirrors, nextGen, mirErrs, mirCut>>

\* The row is read, and a generation taken.  A failing statement reads as no camera.
reconcile(a) ==
    /\ mirReq[a].pc = "read"
    /\ \/ mirRow.on /\ mirReq' = [mirReq EXCEPT ![a] = [pc |-> "spawn", gen |-> nextGen]]
          /\ nextGen' = nextGen + 1 /\ UNCHANGED <<mirErrs, mirCut>>
       \/ ~ mirRow.on /\ At(a, "rest") /\ UNCHANGED <<nextGen, mirErrs, mirCut>>
       \/ MirFails /\ At(a, "rest") /\ mirCut' = TRUE /\ UNCHANGED nextGen
    /\ UNCHANGED <<mirRow, entry, mirrors>>

\* The task is started and put in the table; one already there is told to end and aborted.
spawn(a) ==
    /\ mirReq[a].pc = "spawn"
    /\ entry' = mirReq[a].gen
    /\ mirrors' = {m \in mirrors : m.gen # entry} \cup
                  {[gen |-> mirReq[a].gen, pc |-> "look", rev |-> -1, stop |-> FALSE]}
    /\ At(a, "rest")
    /\ UNCHANGED <<mirRow, nextGen, mirErrs, mirCut>>

\* The process is told to end; requests are still served meanwhile.
shutdown == mirReq[Quit].pc = "up" /\ At(Quit, "stop") /\ UNCHANGED <<mirRow, entry, mirrors, nextGen, mirErrs, mirCut>>

\* The client goes away.
HangUp(e) ==
    /\ mirReq[e].pc # "rest" /\ At(e, "rest") /\ mirCut' = TRUE
    /\ UNCHANGED <<mirRow, entry, mirrors, nextGen, mirErrs>>

-----------------------------------------------------------------------------
(* A supervisor.                                                           *)

Become(m, pc, rev) == mirrors' = (mirrors \ {m}) \cup {[m EXCEPT !.pc = pc, !.rev = rev]}

\* It reads the row and records with it; a row that wants no mirror ends it, a failure sends it to sleep.
run_mirror(m) ==
    /\ m.pc = "look" /\ ~ m.stop
    /\ \/ mirRow.on /\ Become(m, "record", mirRow.rev) /\ UNCHANGED mirErrs
       \/ ~ mirRow.on /\ Become(m, "end", -1) /\ UNCHANGED mirErrs
       \/ MirFails /\ Become(m, "sleep", -1)
    /\ UNCHANGED <<mirRow, mirReq, entry, nextGen, mirCut>>

\* Its process ends, and is started again after a while, or it is told to end.
sleep_or_stop(m) ==
    /\ \/ m.pc = "record" /\ MirFails /\ Become(m, "sleep", -1)
       \/ m.pc = "sleep" /\ ~ m.stop /\ Become(m, "look", -1) /\ UNCHANGED mirErrs
       \/ m.pc \in {"look", "sleep", "record"} /\ m.stop /\ Become(m, "end", -1) /\ UNCHANGED mirErrs
    /\ UNCHANGED <<mirRow, mirReq, entry, nextGen, mirCut>>

\* The last thing a supervisor does is to take itself, and no successor, out of the table.
supervise(m) ==
    /\ m.pc = "end"
    /\ entry' = (IF entry = m.gen THEN 0 ELSE entry) /\ mirrors' = mirrors \ {m}
    /\ UNCHANGED <<mirRow, mirReq, nextGen, mirErrs, mirCut>>

MirNext ==
    \/ \E e \in MirEditor : ChangeRow(e) \/ HangUp(e)
    \/ \E a \in Actor : stop(a) \/ Await(a) \/ reconcile(a) \/ spawn(a)
    \/ shutdown
    \/ \E m \in mirrors : run_mirror(m) \/ sleep_or_stop(m) \/ supervise(m)

-----------------------------------------------------------------------------
(* What must hold.                                                         *)

\* mirror.rs:164: a mirror nobody told to end is in the table, however reconciles and the ends of
\* earlier tasks interleave; one that is not could never be stopped again.
MirrorTracked == \A m \in mirrors : m.stop \/ m.pc = "end" \/ m.gen = entry

\* When no reconcile is under way and none was cut short, the camera is mirrored exactly if its row
\* says so, and with the row as it is now.
MirrorSettled ==
    (~ mirCut /\ (\A a \in MirEditor \cup {Boot} : mirReq[a].pc = "rest") /\ mirReq[Quit].pc = "up")
        => /\ mirRow.on => \E m \in mirrors : m.gen = entry
           /\ \A m \in mirrors : m.pc = "record" /\ ~ m.stop => mirRow.on /\ m.rev = mirRow.rev

=============================================================================
