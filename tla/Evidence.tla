------------------------------ MODULE Evidence ------------------------------
(***************************************************************************)
(* Signed evidence bundles (services/evidence.rs, services/evidence_key.rs *)
(* and the coverage computation of services/clip.rs).  An export selects   *)
(* and hashes the segments of a window, measures the room, waits for a     *)
(* media-job permit, locks the segments, cuts the clip, signs a manifest   *)
(* that says what the clip covers, packs it, attributes it and indexes it. *)
(* Every one of these is an await at which the client may hang up.         *)
(* An instant is a unit of time, an interval <<a, b>> the instants a..b-1. *)
(***************************************************************************)
EXTENDS Integers, FiniteSets, Sequences, SequencesExt

CONSTANTS Asker,            \* requests, which also name their bundles
          Horizon,          \* bound of time
          GAP_TOLERANCE,
          evidence_max, evidence_dir_max, \* in instants of footage
          MaxIndexErrors    \* bound of failing statements

VARIABLES recorded,     \* the camera's segments: a set of intervals
          exports,    \* Asker -> its request
          dir,        \* Asker -> its bundle in evidence_dir, or NoBundle
          stages,     \* askers whose staging tree is left in evidence_dir
          attributed, \* rows of media_artifacts
          indexed,    \* rows of evidence_bundles
          keyFile,    \* of the signing key: "none", "empty", or who generated it
          indexErrors

evVars == <<recorded, exports, dir, stages, attributed, indexed, keyFile, indexErrors>>

NoBundle == [window |-> <<0, 0>>, sources |-> <<>>, gaps |-> {}, covered |-> 0, clip |-> {}, key |-> "none", whole |-> FALSE]
NoExport == [pc |-> "off", window |-> <<0, 0>>, sources |-> <<>>, gaps |-> {}, covered |-> 0, clip |-> {}, key |-> "none",
             whole |-> FALSE]

Instants(i) == i[1] .. i[2] - 1
Recorded(segs) == UNION {Instants(s) : s \in segs}
Later(a, b) == IF a >= b THEN a ELSE b
Sooner(a, b) == IF a <= b THEN a ELSE b

Intervals == {i \in (0 .. Horizon) \X (0 .. Horizon) : i[1] < i[2]}

EvInit ==
    /\ exports = [a \in Asker |-> NoExport] /\ dir = [a \in Asker |-> NoBundle]
    /\ stages = {} /\ attributed = {} /\ indexed = {} /\ keyFile = "none" /\ indexErrors = 0

Move(a, pc) == exports' = [exports EXCEPT ![a].pc = pc]
End(a) == Move(a, "done")

-----------------------------------------------------------------------------
(* What the window covers.                                                 *)

Sweep(w, acc, s) ==
    LET cs == Later(s[1], w[1])  ce == Sooner(s[2], w[2]) IN
    IF ce <= cs THEN acc
    ELSE [cursor |-> Later(ce, acc.cursor),
          gaps |-> acc.gaps \cup (IF cs - acc.cursor > GAP_TOLERANCE THEN {<<acc.cursor, cs>>} ELSE {})]

\* One pass over the segments in the order of their start.
coverage_and_gaps(segs, w) ==
    LET acc == FoldLeft(LAMBDA r, s : Sweep(w, r, s), [cursor |-> w[1], gaps |-> {}], segs)
        gaps == acc.gaps \cup (IF w[2] - acc.cursor > GAP_TOLERANCE THEN {<<acc.cursor, w[2]>>} ELSE {})
    IN [gaps |-> gaps, covered |-> w[2] - w[1] - Cardinality(Recorded(gaps))]

\* The segments that reach into the window, by their start.  No two of a camera start at once.
Selected(w) ==
    LET S == {s \in recorded : s[1] < w[2] /\ s[2] > w[1]} IN
    [i \in 1 .. Cardinality(S) |-> CHOOSE s \in S : Cardinality({t \in S : t[1] < s[1]}) = i - 1]

source_bytes_of(segs) == FoldLeft(LAMBDA n, s : n + s[2] - s[1], 0, segs)

-----------------------------------------------------------------------------
(* An export.                                                              *)

\* gather: rows and hashes, long before they are locked.
gather(a, w) ==
    /\ exports[a].pc = "off"
    /\ LET segs == Selected(w)
           cov == coverage_and_gaps(segs, w) IN
       /\ segs # <<>>
       /\ exports' = [exports EXCEPT ![a] =
              [@ EXCEPT !.pc = "measure", !.window = w, !.sources = segs,
                        !.gaps = cov.gaps, !.covered = cov.covered]]
    /\ UNCHANGED <<recorded, dir, stages, attributed, indexed, keyFile, indexErrors>>

\* dir_size_bytes counts whatever lies in the directory.
DirUsed == FoldLeft(LAMBDA n, a : n + source_bytes_of(dir[a].sources), 0, SetToSeq(Asker))

\* This one, the directory, and the free space, which something else may have used.
check_size_limits(a) ==
    /\ exports[a].pc = "measure"
    /\ \/ /\ source_bytes_of(exports[a].sources) <= evidence_max
          /\ DirUsed + source_bytes_of(exports[a].sources) <= evidence_dir_max
          /\ Move(a, "permit")
       \/ End(a)
    /\ UNCHANGED <<recorded, dir, stages, attributed, indexed, keyFile, indexErrors>>

\* A permit, or 503 when none comes free in time; then the read-locks, on rows that may be gone.
acquire(a) ==
    /\ exports[a].pc = "permit"
    /\ Move(a, "remux") \/ End(a)
    /\ UNCHANGED <<recorded, dir, stages, attributed, indexed, keyFile, indexErrors>>

\* The window is cut at its own offset, as if the first segment started at its beginning.
Cut_NoOffset(w, segs) == [ss |-> 0, t |-> w[2] - w[1]]

\* Where the cut begins on the concatenated timeline, and how long it is.
Cut(w, segs) == [ss |-> Later(w[1] - segs[1][1], 0), t |-> w[2] - w[1]]

\* ffmpeg's concat: the files one after the other, up to the first that cannot be opened.
Timeline(segs) ==
    LET lives == {n \in 0 .. Len(segs) : \A k \in 1 .. n : segs[k] \in recorded}
        n == CHOOSE m \in lives : \A k \in lives : k <= m
    IN FoldLeft(LAMBDA tl, s : tl \o [i \in 1 .. s[2] - s[1] |-> s[1] + i - 1], <<>>, SubSeq(segs, 1, n))

\* A failure at any point of build_bundle removes the staging tree and what was packed.
Fail(a) == End(a) /\ dir' = [dir EXCEPT ![a] = NoBundle]

\* The clip is cut into the staging tree.  An output without a frame is a failure.
remux(a) ==
    /\ exports[a].pc = "remux"
    /\ LET x == exports[a]
           cut == Cut(x.window, x.sources)
           tl == Timeline(x.sources)
           clip == {tl[i] : i \in {j \in 1 .. Len(tl) : j > cut.ss /\ j <= cut.ss + cut.t}} IN
       \/ /\ clip # {}
          /\ exports' = [exports EXCEPT ![a] =
                 [@ EXCEPT !.pc = "key", !.clip = clip, !.whole = \A i \in 1 .. Len(x.sources) : x.sources[i] \in recorded]]
          /\ UNCHANGED dir
       \/ Fail(a)
    /\ UNCHANGED <<recorded, stages, attributed, indexed, keyFile, indexErrors>>

\* generate: the file is created by one alone, and written afterwards; who loses reads the winner's.
Generate(a) ==
    /\ \/ exports[a].pc = "create" /\ keyFile = "none" /\ keyFile' = "empty" /\ Move(a, "write")
       \/ exports[a].pc = "create" /\ keyFile # "none" /\ Move(a, "key") /\ UNCHANGED keyFile
       \/ /\ exports[a].pc = "write" /\ keyFile' = a
          /\ exports' = [exports EXCEPT ![a] = [@ EXCEPT !.pc = "pack", !.key = a]]
    /\ UNCHANGED <<recorded, dir, stages, attributed, indexed, indexErrors>>

\* load_or_create: a file that is empty is not a key, and fails the export.
load_or_create(a) ==
    /\ exports[a].pc = "key"
    /\ \/ keyFile = "none" /\ Move(a, "create") /\ UNCHANGED dir
       \/ keyFile = "empty" /\ Fail(a)
       \/ /\ keyFile \in Asker /\ UNCHANGED dir
          /\ exports' = [exports EXCEPT ![a] = [@ EXCEPT !.pc = "pack", !.key = keyFile]]
    /\ UNCHANGED <<recorded, stages, attributed, indexed, keyFile, indexErrors>>

\* The manifest records the selection and what it covers, as gathered, and the files as hashed; the
\* key signs it.
Manifest(x) == [f \in DOMAIN NoBundle |-> x[f]]

\* zip_dir; the staging tree is removed whatever came of it.
zip_dir(a) ==
    /\ exports[a].pc = "pack"
    /\ \/ /\ dir' = [dir EXCEPT ![a] = Manifest(exports[a])]
          /\ Move(a, "attribute")
       \/ Fail(a)
    /\ UNCHANGED <<recorded, stages, attributed, indexed, keyFile, indexErrors>>

\* A failure to attribute is logged and denies the bundle to a scoped key.
attribute(a) ==
    /\ exports[a].pc = "attribute"
    /\ attributed' \in {attributed, attributed \cup {a}}
    /\ Move(a, "index")
    /\ UNCHANGED <<recorded, dir, stages, indexed, keyFile, indexErrors>>

\* The row, or the removal of the bundle and of its attribution.
Index(a) ==
    /\ exports[a].pc = "index"
    /\ \/ indexed' = indexed \cup {a} /\ UNCHANGED <<dir, attributed, indexErrors>>
       \/ /\ indexErrors < MaxIndexErrors /\ indexErrors' = indexErrors + 1
          /\ dir' = [dir EXCEPT ![a] = NoBundle]
          /\ attributed' = attributed \ {a}
          /\ UNCHANGED indexed
    /\ End(a)
    /\ UNCHANGED <<recorded, stages, keyFile>>

-----------------------------------------------------------------------------
(* Around it.                                                              *)

Locked == UNION {{exports[a].sources[i] : i \in DOMAIN exports[a].sources} :
                    a \in {b \in Asker : exports[b].pc \notin {"off", "measure", "permit", "done", "dropped"}}}

\* Retention takes a segment nobody has locked.
Prune ==
    /\ \E s \in recorded \ Locked : recorded' = recorded \ {s}
    /\ UNCHANGED <<exports, dir, stages, attributed, indexed, keyFile, indexErrors>>

\* The client hangs up or the process dies: nothing after the await happens.
HangUp(a) ==
    /\ exports[a].pc \notin {"off", "done", "dropped"}
    /\ Move(a, "dropped")
    /\ stages' = IF exports[a].pc \in {"key", "create", "write", "pack"} THEN stages \cup {a} ELSE stages
    /\ UNCHANGED <<recorded, dir, attributed, indexed, keyFile, indexErrors>>

Exporting(a) ==
    \/ check_size_limits(a) \/ acquire(a) \/ remux(a) \/ load_or_create(a) \/ Generate(a)
    \/ zip_dir(a) \/ attribute(a) \/ Index(a) \/ HangUp(a)

-----------------------------------------------------------------------------
(* Properties.                                                             *)

Bundles == {a \in Asker : dir[a] # NoBundle}

\* A run of instants of the window without footage, which is no longer than the tolerance.
Tolerated(t, w, segs) ==
    \E i \in Intervals : /\ t \in Instants(i) /\ i[2] - i[1] <= GAP_TOLERANCE
                         /\ Instants(i) \cap Recorded(segs) = {}
                         /\ i[1] = w[1] \/ i[1] - 1 \in Recorded(segs)
                         /\ i[2] = w[2] \/ i[2] \in Recorded(segs)

\* What the manifest says of the window is true of the segments it names, overlapping or nested as
\* they may be: a listed gap holds no footage, an instant outside the gaps has footage or lies in a
\* hole within the tolerance, and covered_seconds is what the gaps leave (coverage_and_gaps).
CoverageTrue ==
    \A a \in Asker : exports[a].pc # "off" =>
       LET x == exports[a]
           segs == {x.sources[i] : i \in DOMAIN x.sources}
           listed == Recorded(x.gaps) IN
       /\ listed \subseteq Instants(x.window) \ Recorded(segs)
       /\ \A t \in Instants(x.window) : t \in listed \/ t \in Recorded(segs) \/ Tolerated(t, x.window, segs)
       /\ x.covered = Cardinality(Instants(x.window) \ listed)

Disjoint(segs) == \A s, t \in segs : s # t => Instants(s) \cap Instants(t) = {}

\* A bundle whose sources were all there when it was cut, none overlapping another, holds every
\* recorded instant of its window: the cut, made on a timeline without the gaps, never loses the tail
\* (remux).
ClipComplete ==
    \A a \in Bundles :
       LET segs == {dir[a].sources[i] : i \in DOMAIN dir[a].sources} IN
       dir[a].whole /\ Disjoint(segs) => Instants(dir[a].window) \cap Recorded(segs) \subseteq dir[a].clip

\* A request that ran to its end leaves a bundle only with its row, and a row only with its bundle,
\* whichever of its statements failed (export: "a bundle the index does not know about must not
\* survive").
BundleAccounted ==
    /\ indexed \subseteq Bundles
    /\ \A a \in Bundles : exports[a].pc = "done" => a \in indexed

\* All bundles of an appliance are signed with one key, though the first exports may generate it at
\* the same time (evidence_key::generate).
OneKey == \A a, b \in Bundles : dir[a].key = dir[b].key

\* What remux's comment promises: the clip is trimmed to the window.
ClipInWindow == \A a \in Bundles : dir[a].clip \subseteq Instants(dir[a].window)

=============================================================================
