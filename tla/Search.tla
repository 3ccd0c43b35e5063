------------------------------- MODULE Search -------------------------------
(***************************************************************************)
(* What a structured search answers (heldar-search query.rs and proof.rs). *)
(* Each source is fetched newest first up to a cap, the fetched rows are   *)
(* filtered again, sorted and cut to the limit, and the proof says whether *)
(* the answer is complete.  The sources are read one after the other while *)
(* the applications go on recording facts.                                 *)
(***************************************************************************)
EXTENDS Naturals, FiniteSets, FiniteSetsExt

CONSTANTS SrchCamera,      \* cameras
          Source,          \* "entry", "zone", "breach": the fact tables
          MaxFacts,        \* bound: facts recorded
          Hours,           \* hours in a day
          fetch_cap,       \* rows fetched per source
          max_results,     \* the server's limit on hits
          CAMERA_PRED_MAX  \* cameras a SQL predicate may name

VARIABLES facts,    \* rows of the fact tables: [src, ts, cam], ts unique
          plan,     \* the plan being executed: {} or {[cams, want, lo, hi, limit]}
          fetched,  \* per source, the page read: {} or {rows}
          began,    \* facts there were when the search began
          answer    \* the last answer: {} or {[hits, complete]}

srchVars == <<facts, plan, fetched, began, answer>>

Unread == {}
NoHour == Hours          \* an hour bound that is not set

Plans == [cams : SUBSET SrchCamera, want : {{}} \cup {{s} : s \in Source},
          lo : 0..Hours, hi : 0..Hours, limit : {1, max_results + 1}]

Newest(rows, n) == {r \in rows : Cardinality({x \in rows : x.ts > r.ts}) < n}

\* No source named is every source.
want(p, src) == p.want = {} \/ src \in p.want

\* The filter after the fetch only: newer rows of other cameras fill the page.
camera_pred_None(p, r) == TRUE

\* The predicate pushed into SQL: absent when the plan names no camera, or too many.
camera_pred(p, r) ==
    p.cams # {} /\ Cardinality(p.cams) <= CAMERA_PRED_MAX => r.cam \in p.cams

\* An hour window may wrap around midnight.
InHours(p, hr) ==
    IF p.lo # NoHour /\ p.hi # NoHour /\ p.lo > p.hi THEN hr >= p.lo \/ hr <= p.hi
    ELSE (p.lo # NoHour => hr >= p.lo) /\ (p.hi # NoHour => hr <= p.hi)

\* The filters that run on the fetched rows.
Retained(p, rows) ==
    {r \in rows : (p.cams # {} => r.cam \in p.cams) /\ InHours(p, r.ts % Hours)}

Limit(p) == IF p.limit > max_results THEN max_results ELSE p.limit

Fetch(p, src, now) == Newest({r \in now : r.src = src /\ camera_pred(p, r)}, fetch_cap)

Truncated(got) == \E src \in Source : \E page \in got[src] : Cardinality(page) >= fetch_cap

Hits(p, got) ==
    Newest(Retained(p, UNION UNION {got[src] : src \in Source}), Limit(p))

-----------------------------------------------------------------------------
SrchInit ==
    /\ facts = {} /\ plan = {} /\ began = {} /\ answer = {}
    /\ fetched = [src \in Source |-> Unread]

\* An application records a fact, newer than the ones there are.
RecordFact ==
    /\ Cardinality(facts) < MaxFacts
    /\ \E src \in Source, cam \in SrchCamera :
          facts' = facts \cup {[src |-> src, ts |-> Cardinality(facts), cam |-> cam]}
    /\ UNCHANGED <<plan, fetched, began, answer>>

\* Bound: one search per behaviour.
execute_in ==
    /\ plan = {} /\ answer = {} /\ facts # {}
    /\ \E p \in Plans : plan' = {p}
    /\ began' = facts
    /\ UNCHANGED <<facts, fetched, answer>>

Due(p) == {src \in Source : want(p, src) /\ fetched[src] = Unread}

\* Sources are read in a fixed order; which one is first does not matter here.
FetchSource ==
    \E p \in plan :
        /\ Due(p) # {}
        /\ LET src == CHOOSE s \in Due(p) : TRUE IN
           fetched' = [fetched EXCEPT ![src] = {Fetch(p, src, facts)}]
        /\ UNCHANGED <<facts, plan, began, answer>>

\* The hits and, in the proof, whether they are claimed to be all.
build ==
    \E p \in plan :
        /\ Due(p) = {}
        /\ answer' = {[p |-> p, hits |-> Hits(p, fetched), complete |-> ~ Truncated(fetched)]}
        /\ plan' = {} /\ fetched' = [src \in Source |-> Unread]
        /\ UNCHANGED <<facts, began>>

SearchStep == execute_in \/ FetchSource \/ build

-----------------------------------------------------------------------------
(* Properties.                                                             *)

\* The facts of a set that a plan asks for, by their meaning: the hour window is the hours met
\* going forward from lo to hi.
Going(lo, hi, hr) == \E k \in 0..((hi + Hours - lo) % Hours) : hr = (lo + k) % Hours
InWindow(p, hr) ==
    LET lo == IF p.lo = NoHour THEN 0 ELSE p.lo
        hi == IF p.hi = NoHour THEN Hours - 1 ELSE p.hi IN
    IF p.lo = NoHour \/ p.hi = NoHour THEN hr \in lo..hi ELSE Going(lo, hi, hr)
Asked(p, rows) ==
    {r \in rows : (p.want = {} \/ r.src \in p.want) /\ (p.cams = {} \/ r.cam \in p.cams)
                    /\ InWindow(p, r.ts % Hours)}

\* A search answers with nothing the plan did not ask for, and unless a fetch was cut or the limit
\* was reached it answers with every fact there was when it began, however many facts of other
\* cameras are newer and whatever is recorded between two fetches (query.rs: execute_inner).
AnswersAll ==
    \A a \in answer :
        /\ a.hits \subseteq Asked(a.p, facts)
        /\ a.complete /\ Cardinality(a.hits) < Limit(a.p) => Asked(a.p, began) \subseteq a.hits

\* Whether an answer is called cut short depends on the named cameras' own facts only: fetching a
\* page of every camera's rows would tell the caller how busy the others are (query.rs: camera_pred).
OwnCapOnly ==
    \A a \in answer :
        ~ a.complete => \/ a.p.cams = {} \/ Cardinality(a.p.cams) > CAMERA_PRED_MAX
                        \/ \E src \in Source :
                              Cardinality({r \in facts : r.src = src /\ r.cam \in a.p.cams}) >= fetch_cap

\* An answer that is called complete is all there was (proof.rs: "a forensic undercount silently
\* claimed complete is the worst failure for this layer").
CompleteMeansAll == \A a \in answer : a.complete => Asked(a.p, began) \subseteq a.hits

-----------------------------------------------------------------------------
(***************************************************************************)
(* The queue a semantic search puts its query into for a worker to embed   *)
(* (services/embeddings.rs, heldar-search semantic.rs).  The search counts *)
(* the queue and inserts its row, polls it until it is answered or its     *)
(* budget is spent, and deletes it; workers read the eligible rows and     *)
(* claim them one by one, and answer.  Times are flags on a row that may   *)
(* be set at any moment.                                                   *)
(***************************************************************************)

CONSTANTS Searcher,            \* semantic searches; a search and its row have the same name
          Cred,             \* workers, each with a credential of its own
          MAX_QUEUE_DEPTH

VARIABLES queue,   \* Searcher -> {} or {[status, by, lapsed, stale, answer]}: the rows
          asks,    \* Searcher -> where its search is
          got,     \* Searcher -> the answer it went on with: {} or {credential}
          offers,  \* Cred -> rows it has read and not yet claimed
          work     \* Cred -> rows it has been given

embVars == <<queue, asks, got, offers, work>>

Nobody == "nobody"

EmbInit ==
    /\ queue = [a \in Searcher |-> {}] /\ asks = [a \in Searcher |-> "idle"] /\ got = [a \in Searcher |-> {}]
    /\ offers = [w \in Cred |-> {}] /\ work = [w \in Cred |-> {}]

Open(r) == r.status \in {"pending", "claimed"}
InFlight == {a \in Searcher : \E r \in queue[a] : Open(r)}

Row0 == [status |-> "pending", by |-> Nobody, lapsed |-> FALSE, stale |-> FALSE, answer |-> Nobody]

Ask(a, at) == asks' = [asks EXCEPT ![a] = at]

-----------------------------------------------------------------------------
(* The search.                                                             *)

\* enqueue_query: the count, and refused when it is reached ...
CountQueue(a) ==
    /\ asks[a] = "idle"
    /\ IF Cardinality(InFlight) >= MAX_QUEUE_DEPTH THEN Ask(a, "refused") ELSE Ask(a, "counted")
    /\ UNCHANGED <<queue, got, offers, work>>

\* ... then the insert.
enqueue_query(a) ==
    /\ asks[a] = "counted"
    /\ queue' = [queue EXCEPT ![a] = {Row0}]
    /\ Ask(a, "waiting")
    /\ UNCHANGED <<got, offers, work>>

\* A poll that finds an answer, an error, or no row; the budget may be spent after any poll.
await_query(a) ==
    /\ asks[a] = "waiting"
    /\ \/ \E r \in queue[a] : r.status = "done" /\ got' = [got EXCEPT ![a] = {r.answer}]
       \/ (queue[a] = {} \/ \E r \in queue[a] : r.status = "error" \/ Open(r)) /\ UNCHANGED got
    /\ Ask(a, "leaving")
    /\ UNCHANGED <<queue, offers, work>>

\* The row is deleted whether or not the wait succeeded.
delete_query(a) ==
    /\ asks[a] = "leaving"
    /\ queue' = [queue EXCEPT ![a] = {}]
    /\ Ask(a, "over")
    /\ UNCHANGED <<got, offers, work>>

\* The client hangs up and the handler is dropped where it stands.
Abandon(a) ==
    /\ asks[a] \in {"counted", "waiting", "leaving"}
    /\ Ask(a, "abandoned")
    /\ UNCHANGED <<queue, got, offers, work>>

-----------------------------------------------------------------------------
(* Workers.                                                                *)

\* Pending, or claimed by a worker whose lease has run out.
Claimable(r) == r.status = "pending" \/ (r.status = "claimed" /\ r.lapsed)

\* claim_queries: the rows that are eligible and still wanted are read ...
ReadQueue(w) ==
    /\ offers[w] = {}
    /\ LET some == {a \in Searcher : \E r \in queue[a] : Claimable(r) /\ ~ r.stale} IN
       some # {} /\ offers' = [offers EXCEPT ![w] = some]
    /\ UNCHANGED <<queue, asks, got, work>>

\* ... and each is claimed by an UPDATE that asks again.
Wins(a) == \E r \in queue[a] : Claimable(r)

claim_queries(w) ==
    \E a \in offers[w] :
        /\ offers' = [offers EXCEPT ![w] = @ \ {a}]
        /\ IF Wins(a)
           THEN /\ queue' = [queue EXCEPT ![a] = {[r EXCEPT !.status = "claimed", !.by = w, !.lapsed = FALSE] : r \in @}]
                /\ work' = [work EXCEPT ![w] = @ \cup {a}]
           ELSE UNCHANGED <<queue, work>>
        /\ UNCHANGED <<asks, got>>

\* An answer counts while the row is open and is this credential's, or nobody's yet.
Accepts(r, w) == Open(r) /\ r.by \in {w, Nobody}

\* A worker answers a row it was given, once: with a vector or an error.
submit_query_result(w) ==
    \E a \in work[w], status \in {"done", "error"} :
        /\ work' = [work EXCEPT ![w] = @ \ {a}]
        /\ queue' = [queue EXCEPT ![a] =
                       {IF Accepts(r, w) THEN [r EXCEPT !.status = status, !.answer = w] ELSE r : r \in @}]
        /\ UNCHANGED <<asks, got, offers>>

\* A worker dies with what it was given and had read.
WorkerDies(w) ==
    /\ work[w] \cup offers[w] # {}
    /\ work' = [work EXCEPT ![w] = {}] /\ offers' = [offers EXCEPT ![w] = {}]
    /\ UNCHANGED <<queue, asks, got>>

-----------------------------------------------------------------------------
(* Time.                                                                   *)

\* QUERY_CLAIM_LEASE_SECS, and then QUERY_DELIVERY_TTL_SECS, pass.
LeaseRunsOut(a) ==
    /\ \E r \in queue[a] : r.status = "claimed" /\ ~ r.lapsed
    /\ queue' = [queue EXCEPT ![a] = {[r EXCEPT !.lapsed = TRUE] : r \in @}]
    /\ UNCHANGED <<asks, got, offers, work>>

GrowsStale(a) ==
    /\ \E r \in queue[a] : ~ r.stale
    /\ queue' = [queue EXCEPT ![a] = {[r EXCEPT !.stale = TRUE] : r \in @}]
    /\ UNCHANGED <<asks, got, offers, work>>

\* An hour after it was inserted a row is pruned, whatever its status.
prune_queries ==
    \E a \in Searcher :
        /\ \E r \in queue[a] : r.stale
        /\ queue' = [queue EXCEPT ![a] = {}]
        /\ UNCHANGED <<asks, got, offers, work>>

EmbNext ==
    \/ \E a \in Searcher : CountQueue(a) \/ enqueue_query(a) \/ await_query(a) \/ delete_query(a) \/ Abandon(a)
    \/ \E w \in Cred : ReadQueue(w) \/ claim_queries(w) \/ submit_query_result(w) \/ WorkerDies(w)
    \/ \E a \in Searcher : LeaseRunsOut(a) \/ GrowsStale(a)
    \/ prune_queries

-----------------------------------------------------------------------------
(* Properties.                                                             *)

\* What a search goes on with was computed by the credential the row was last given to: an answer
\* that comes after the lease ran out and another worker took the row over changes nothing
\* (claim_queries, submit_query_result).
AnswerIsClaimants ==
    \A a \in Searcher : \A r \in queue[a] : r.status = "done" => r.answer = r.by

\* A row is in the queue only while its search is: a search that ended, answered or not, left none,
\* so that a payload never outlives its request unless the client hung up (semantic.rs).
RowsWanted == \A a \in Searcher : queue[a] # {} => asks[a] \in {"waiting", "leaving", "abandoned"}

\* A step hands a row over only when it is pending or the lease of its claimant has run out.
ClaimsRespected ==
    \A a \in Searcher : \A r \in queue[a], s \in queue'[a] :
        s.by # r.by => r.status = "pending" \/ r.lapsed
=============================================================================
