------------------------------- MODULE Relay -------------------------------
(***************************************************************************)
(* The box dials out (services/webrtc_rendezvous.rs): a pool of pollers    *)
(* takes HTTP requests from the rendezvous and replays them against the    *)
(* local API, one loop takes viewing offers and bridges them to MediaMTX,  *)
(* one programs the ICE servers.  Every poller is respawned when it        *)
(* panics, and the time of the last poll that ended well is the health the *)
(* box reports.  A path is the sequence of its segments as they are sent;  *)
(* "..", and "%2e%2e" which is the same, step up.  Nothing waits longer    *)
(* than its timer: the clock stops at the next one due.                    *)
(***************************************************************************)
EXTENDS Integers, Sequences, FiniteSets, SequencesExt

CONSTANTS Slot,         \* the relay pollers (RELAY_POLLERS)
          Rdv,          \* the loop that takes viewing offers
          Paths,        \* the paths asked for
          MAX_RELAY_BODY,     \* cap on the body of a replayed request and of its answer
          STALE_AFTER_S, BackoffCap, RespawnDelay, LongPoll,
          MaxRelayTime, MaxJobs, MaxRelayErrs \* (bounds)

VARIABLES cameras, \* camera -> "on", "off": one camera is enough
          loop,    \* poller -> [pc, due, backoff, job, off]
          wire,    \* the requests the local API has been sent
          answers, \* the statuses put back to the rendezvous
          last_ok, \* RELAY_LAST_OK_UNIX
          up,      \* does the rendezvous answer; since when
          ice,     \* what MediaMTX uses: the configured servers, the rendezvous' TURN, plain STUN
          relayNow, relayed, relayErrs

relayVars == <<cameras, loop, wire, answers, last_ok, up, ice, relayNow, relayed, relayErrs>>

Loops == Slot \cup {Rdv}
NoJob == [method |-> "", origin |-> "", path |-> <<>>, body |-> 0, answer |-> 0, sized |-> TRUE]
Asked(m, o, p, a, z) == [NoJob EXCEPT !.method = m, !.origin = o, !.path = p, !.answer = a, !.sized = z]
Job == {Asked("POST", "box", p, 1, TRUE) : p \in Paths}
       \cup {Asked("GET", "box", <<"media", "clip">>, MAX_RELAY_BODY + 1, z) : z \in BOOLEAN}
       \cup {Asked("GET", "elsewhere", <<"api", "cameras">>, 1, TRUE)}

-----------------------------------------------------------------------------
(* What may be replayed.                                                   *)

\* The path as the HTTP client sends it: a segment up takes the one before it away.
canonical(path) ==
    FoldLeft(LAMBDA acc, s : CASE s \in {"..", "%2e%2e"} -> IF acc = <<>> THEN acc ELSE Front(acc)
                               [] s = "." -> acc
                               [] OTHER -> Append(acc, s), <<>>, path)
relay_allowed(method, path) ==
    /\ \A i \in DOMAIN path : path[i] \notin {"..", "", "@"}
    /\ ~ \E d \in {<<"api", "relay">>, <<"api", "rendezvous">>, <<"metrics">>} : IsPrefix(d, path)
    /\ path # <<>> /\ path[1] \in {"api", "media", "m"}
    /\ method \in {"GET", "HEAD", "POST", "PUT", "PATCH", "DELETE"}

\* The path is judged as it was asked for.
Judged_Raw(job) == job.path

Judged(job) == canonical(job.path)
Replayable(job) == job.origin = "box" /\ relay_allowed(job.method, Judged(job))
\* Of a request's headers, those that reach the local API; of its answer's, those that reach the client.
forward_request_header(h) == h \in {"authorization", "accept", "content-type", "range", "x-request-id",
                                    "x-heldar-correlation-id", "if-none-match", "if-modified-since"}
forward_response_header(h) == h \in {"content-type", "content-length", "content-range", "accept-ranges",
                                     "cache-control", "etag", "x-request-id", "last-modified"}
Headers == {"authorization", "range", "idempotency-key", "cookie", "set-cookie", "etag"}
\* The answer of a replayed request: too large by its length, 413; too large without one, cut and sent.
Answer(job) == IF job.sized /\ job.answer > MAX_RELAY_BODY THEN 413 ELSE 200
\* The local API may not answer.
Answers(job) == IF ~ Replayable(job) THEN {403} ELSE {Answer(job), 502}

-----------------------------------------------------------------------------
(* The loops.                                                              *)

Poll(now) == [pc |-> "poll", due |-> now + LongPoll, backoff |-> 1, job |-> NoJob, off |-> FALSE]
mark_ok(k) == last_ok' = IF k = Rdv THEN last_ok ELSE relayNow
Parked == [Poll(0) EXCEPT !.pc = "parked"]
\* The relay does not run while the API takes requests without a credential, nor before there is a user
\* to have one; it counts its start as a poll.
run_relay(enforced, users) == IF enforced /\ users > 0 THEN [at |-> Poll(1), ok |-> 1] ELSE [at |-> Parked, ok |-> 0]
\* A behaviour is about the relay, or about a box where it is parked and only offers arrive.
RInit ==
    /\ cameras \in {"on", "off"} /\ wire = {} /\ answers = {}
    /\ \E enforced \in BOOLEAN, users \in 0 .. 1 :
         LET relay == run_relay(enforced, users)
         IN /\ loop = [k \in Loops |-> IF k \in Slot THEN relay.at ELSE IF relay.ok = 0 THEN Poll(1) ELSE Parked]
            /\ last_ok = relay.ok
    /\ up = [is |-> TRUE, since |-> 1] /\ ice = "stun" /\ relayNow = 1 /\ relayed = 0 /\ relayErrs = 0

\* The next poll, with the delay back at one second.
Again(k) == loop' = [loop EXCEPT ![k] = Poll(relayNow)]
\* Each failure doubles the wait, up to the cap.
Doubled(b) == IF b * 2 < BackoffCap THEN b * 2 ELSE BackoffCap
\* The wait that follows a failure, then a poll.
Backs(k) == loop' = [loop EXCEPT ![k] = [@ EXCEPT !.pc = "sleep", !.due = relayNow + loop[k].backoff, !.backoff = Doubled(@), !.job = NoJob]]

Fault == relayErrs < MaxRelayErrs /\ relayErrs' = relayErrs + 1
World == UNCHANGED <<cameras, ice, relayed, relayNow>>

\* Nothing came before the long poll ran out, and that is a healthy poll; or the rendezvous does not
\* answer.
PollEnds(k) ==
    /\ loop[k].pc = "poll" /\ relayNow = loop[k].due
    /\ IF up.is THEN Again(k) /\ mark_ok(k) ELSE Backs(k) /\ UNCHANGED last_ok
    /\ World /\ UNCHANGED <<wire, answers, up, relayErrs>>

\* A job, or an offer, is handed to one of the pollers that wait.
TakeJob(k) ==
    /\ loop[k].pc = "poll" /\ up.is /\ relayed < MaxJobs /\ relayed' = relayed + 1
    /\ \E j \in Job : loop' = [loop EXCEPT ![k] = [@ EXCEPT !.pc = IF k = Rdv THEN "check" ELSE "replay", !.job = IF k = Rdv THEN NoJob ELSE j,
                                                           !.due = relayNow + 1, !.off = (cameras = "off")]]
    /\ UNCHANGED <<cameras, wire, answers, last_ok, up, ice, relayNow, relayErrs>>

\* The request goes to the local API when its path may be replayed, and what comes back is posted.
replay_relay_job(k) ==
    /\ loop[k].pc = "replay"
    /\ LET job == loop[k].job
       IN /\ wire' = IF Replayable(job) THEN wire \cup {[path |-> canonical(job.path), method |-> job.method,
                                                         headers |-> {h \in Headers : forward_request_header(h)},
                                                         body |-> IF job.body <= MAX_RELAY_BODY THEN job.body ELSE 0]} ELSE wire
          /\ \E s \in Answers(job) : /\ (IF s = 502 THEN Fault ELSE UNCHANGED relayErrs)
                                     /\ loop' = [loop EXCEPT ![k] = [@ EXCEPT !.pc = "respond", !.job.answer = s, !.due = relayNow + 1]]
    /\ World /\ UNCHANGED <<answers, last_ok, up>>

\* The answer is posted; a rendezvous that does not take it fails the whole cycle.
Respond(k) ==
    /\ loop[k].pc = "respond"
    /\ IF up.is THEN /\ answers' = answers \cup {[status |-> loop[k].job.answer, headers |-> {h \in Headers : forward_response_header(h)}]}
                     /\ Again(k) /\ mark_ok(k)
       ELSE Backs(k) /\ UNCHANGED <<answers, last_ok>>
    /\ World /\ UNCHANGED <<wire, up, relayErrs>>

\* An offer: the camera is looked up, and only an enabled one is bridged.
Refuse(k) == loop' = [loop EXCEPT ![k] = [@ EXCEPT !.pc = "failed", !.due = relayNow + 1]]
Bridges == cameras = "on"
bridge_to_local_whep(k) ==
    /\ loop[k].pc = "check"
    /\ IF Bridges THEN loop' = [loop EXCEPT ![k] = [@ EXCEPT !.pc = "whep"]] ELSE Refuse(k)
    /\ World /\ UNCHANGED <<wire, answers, last_ok, up, relayErrs>>
Whep(k) ==
    /\ loop[k].pc = "whep"
    /\ \/ loop' = [loop EXCEPT ![k] = [@ EXCEPT !.pc = "answer", !.due = relayNow + 1]] /\ UNCHANGED relayErrs
       \/ Fault /\ Refuse(k)
    /\ World /\ UNCHANGED <<wire, answers, last_ok, up>>
\* The answer or the error is posted; after an error the loop pauses before it polls again.
poll_once(k) ==
    /\ loop[k].pc \in {"answer", "failed"}
    /\ IF ~ up.is THEN Backs(k)
       ELSE IF loop[k].pc = "answer" THEN Again(k)
       ELSE loop' = [loop EXCEPT ![k] = [@ EXCEPT !.pc = "sleep", !.due = relayNow + BackoffCap]]
    /\ World /\ UNCHANGED <<wire, answers, last_ok, up, relayErrs>>

\* A wait is over, or a panicked loop is back after its delay.
Wake(k) ==
    /\ loop[k].pc \in {"sleep", "gone"} /\ relayNow = loop[k].due
    /\ loop' = [loop EXCEPT ![k] = [Poll(relayNow) EXCEPT !.backoff = IF loop[k].pc = "gone" THEN 1 ELSE loop[k].backoff]]
    /\ World /\ UNCHANGED <<wire, answers, last_ok, up, relayErrs>>

Panics(k) == [loop[k] EXCEPT !.pc = "gone", !.due = relayNow + RespawnDelay, !.job = NoJob]
Panic(k) ==
    /\ loop[k].pc \notin {"sleep", "gone", "lost", "parked"} /\ Fault /\ loop' = [loop EXCEPT ![k] = Panics(k)]
    /\ World /\ UNCHANGED <<wire, answers, last_ok, up>>

\* The configured servers win; else the rendezvous' credentials; else STUN alone until the next round.
resolve_ice(static, fetched) == IF static THEN "static" ELSE IF fetched THEN "turn" ELSE "stun"
run_ice ==
    /\ \E taken \in BOOLEAN : ice' = IF taken THEN resolve_ice(FALSE, up.is) ELSE ice
    /\ ice' # ice
    /\ UNCHANGED <<cameras, loop, wire, answers, last_ok, up, relayNow, relayed, relayErrs>>

-----------------------------------------------------------------------------
(* The world.                                                              *)

Toggle ==
    /\ Fault /\ cameras' = IF cameras = "on" THEN "off" ELSE "on"
    /\ loop' = [k \in Loops |-> [loop[k] EXCEPT !.off = @ /\ cameras' = "off"]]
    /\ UNCHANGED <<wire, answers, last_ok, up, ice, relayNow, relayed>>
Network ==
    /\ up' = [is |-> ~ up.is, since |-> relayNow] /\ (IF up.is THEN Fault ELSE UNCHANGED relayErrs)
    /\ UNCHANGED <<cameras, loop, wire, answers, last_ok, ice, relayNow, relayed>>
RTick ==
    /\ relayNow < MaxRelayTime /\ \A k \in Loops : loop[k].pc \notin {"lost", "parked"} => relayNow < loop[k].due
    /\ relayNow' = relayNow + 1
    /\ UNCHANGED <<cameras, loop, wire, answers, last_ok, up, ice, relayed, relayErrs>>

RNext ==
    \/ \E k \in Loops : PollEnds(k) \/ TakeJob(k) \/ Wake(k) \/ Panic(k)
    \/ \E k \in Slot : replay_relay_job(k) \/ Respond(k)
    \/ bridge_to_local_whep(Rdv) \/ Whep(Rdv) \/ poll_once(Rdv)
    \/ run_ice \/ Toggle \/ Network \/ RTick

-----------------------------------------------------------------------------
(* Properties.                                                             *)

\* Whatever the path a client spells, what the local API is sent is on the surface the relay serves:
\* the path authorised is the path sent (replay_relay_job 541-568).
OnSurface ==
    \A r \in wire : /\ r.path # <<>> /\ r.path[1] \in {"api", "media", "m"}
                    /\ ~ (r.path[1] = "api" /\ Len(r.path) > 1 /\ r.path[2] \in {"relay", "rendezvous"})

dialout_stale(now, last) == last = 0 \/ now - last > STALE_AFTER_S
relay_health == ~ dialout_stale(relayNow, last_ok)
\* A relay whose rendezvous has answered for the whole stale window is healthy again, however many of
\* its pollers panicked before, and whatever waits they had fallen into (243-253, 717-743).
SelfHeals == last_ok # 0 /\ up.is /\ relayNow - up.since > STALE_AFTER_S => relay_health

\* An offer is not bridged for a camera that has been disabled since before the offer was taken,
\* whatever the catalogue sent with the poll said (88-103).
NoBridgeOff == loop[Rdv].pc = "whep" => ~ loop[Rdv].off
=============================================================================
