------------------------------ MODULE Catalog ------------------------------
(***************************************************************************)
(* The plug-in catalogue (services/registry.rs, registry.rs): one compiled *)
(* in, remote ones fetched with their detached signature, and the sidecars *)
(* registered on the box, merged into one view.  A publisher replaces his  *)
(* catalogue and its signature one after the other; two refreshes, the     *)
(* periodic one and one an administrator asks for, may overlap.  A         *)
(* catalogue is its issue number with the ids it lists.                    *)
(***************************************************************************)
EXTENDS Integers, Sequences, FiniteSets, SequencesExt

CONSTANTS Urls,            \* the configured sources, in their order
          Refresher,       \* the refreshes in progress
          TrustedKey,      \* the keys of the build and of the operator
          allow_unverified,
          MaxIssues, MaxCatTime, MaxCatErrs \* (bounds)

VARIABLES served, \* url -> [issue, ids, expires, sig]: what the publisher serves; sig: [issue, key]
          made,   \* the signatures ever made, [url, issue, key]
          slot,   \* url -> the cached source
          refr,   \* refresher -> [pc, at, raw, sig]
          reg,    \* registered sidecar -> its health
          catNow, catErrs

catVars == <<served, made, slot, refr, reg, catNow, catErrs>>

Id == {"core", "plugin", "other"}
Bundled == {"core"}
NoSig == [issue |-> 0, key |-> "none"]
NoDoc == [issue |-> 0, ids |-> {}, expires |-> 0]
Source == Range(Urls)
NotYet == [verified |-> FALSE, key |-> "none", issue |-> 0, ids |-> {}, error |-> TRUE]
CatInit ==
    /\ served = [u \in Source |-> [doc |-> [issue |-> 1, ids |-> {"core", "plugin"}, expires |-> 1], sig |-> [issue |-> 1, key |-> "build"]]]
    /\ made = {[url |-> u, issue |-> 1, key |-> "build"] : u \in Source}
    /\ slot = [u \in Source |-> NotYet] /\ refr = [r \in Refresher |-> [pc |-> "idle", at |-> 1, raw |-> NoDoc, sig |-> NoSig]]
    /\ reg = <<>> /\ catNow = 1 /\ catErrs = 0
Lost == catErrs < MaxCatErrs /\ catErrs' = catErrs + 1

-----------------------------------------------------------------------------
(* Verification and the cache.                                             *)

\* The signature is of these very bytes, by a key that is trusted, and the catalogue has not expired.
verify_detached(raw, sig) == sig.key \in TrustedKey /\ sig.issue = raw.issue /\ raw.expires >= catNow

\* What a fetch leaves in the cache: an unverified catalogue lists nothing, unless that is allowed.
Fresh(raw, sig) ==
    LET ok == verify_detached(raw, sig)
    IN [verified |-> ok, key |-> IF ok THEN sig.key ELSE "none", issue |-> raw.issue,
        ids |-> IF ok \/ allow_unverified THEN raw.ids ELSE {}, error |-> ~ ok]

\* A source that cannot be fetched keeps its entries and what was known of them.
Failed(s) == [s EXCEPT !.error = TRUE]

Url(r) == Urls[refr[r].at]
Steps(r, f) == refr' = [refr EXCEPT ![r] = f]
NextUrl(r) == [pc |-> IF refr[r].at < Len(Urls) THEN "doc" ELSE "idle", at |-> IF refr[r].at < Len(Urls) THEN refr[r].at + 1 ELSE 1,
               raw |-> NoDoc, sig |-> NoSig]
refresh(r) ==
    /\ refr[r].pc = "idle" /\ Steps(r, [refr[r] EXCEPT !.pc = "doc"])
    /\ UNCHANGED <<served, made, slot, reg, catNow, catErrs>>
\* The catalogue, then its signature; a signature that cannot be had counts as none.
FetchDoc(r) ==
    /\ refr[r].pc = "doc"
    /\ \/ Steps(r, [refr[r] EXCEPT !.pc = "sig", !.raw = served[Url(r)].doc]) /\ UNCHANGED <<slot, catErrs>>
       \/ Lost /\ slot' = [slot EXCEPT ![Url(r)] = Failed(@)] /\ Steps(r, NextUrl(r))
    /\ UNCHANGED <<served, made, reg, catNow>>
FetchSig(r) ==
    /\ refr[r].pc = "sig"
    /\ \/ Steps(r, [refr[r] EXCEPT !.pc = "store", !.sig = served[Url(r)].sig]) /\ UNCHANGED catErrs
       \/ Lost /\ Steps(r, [refr[r] EXCEPT !.pc = "store"])
    /\ UNCHANGED <<served, made, slot, reg, catNow>>
fetch_one(r) ==
    /\ refr[r].pc = "store" /\ slot' = [slot EXCEPT ![Url(r)] = Fresh(refr[r].raw, refr[r].sig)] /\ Steps(r, NextUrl(r))
    /\ UNCHANGED <<served, made, reg, catNow, catErrs>>

-----------------------------------------------------------------------------
(* The merged view.                                                        *)

make_view(id, src, ok) ==
    [id |-> id, source |-> src, verified |-> ok,
     state |-> IF id \in Bundled THEN "included" ELSE IF id \notin DOMAIN reg THEN "available"
               ELSE IF reg[id] = "unreachable" THEN "unreachable" ELSE "installed"]
\* The first source to list an id is the one shown: the build, the remote ones in their order, the box.
Earlier(u, id) == id \in Bundled \/ \E i, j \in DOMAIN Urls : i < j /\ Urls[j] = u /\ id \in slot[Urls[i]].ids
Remote == UNION {{make_view(id, u, slot[u].verified) : id \in {x \in slot[u].ids : ~ Earlier(u, x)}} : u \in Source}

Local == {make_view(id, "local", FALSE) : id \in {x \in DOMAIN reg : x \notin Bundled /\ \A u \in Source : x \notin slot[u].ids}}
view == {make_view(id, "bundled", TRUE) : id \in Bundled} \cup Remote \cup Local

-----------------------------------------------------------------------------
(* The publishers and the box.                                             *)

Publish ==
    /\ \E u \in {Urls[1]}, ids \in {{"core", "other"}, {"plugin", "other"}} :
         /\ served[u].doc.issue < MaxIssues
         /\ served' = [served EXCEPT ![u].doc = [issue |-> @.issue + 1, ids |-> ids, expires |-> catNow]]
    /\ UNCHANGED <<made, slot, refr, reg, catNow, catErrs>>
Sign ==
    /\ \E u \in Source, k \in TrustedKey \cup {"stranger"} :
         LET s == [issue |-> served[u].doc.issue, key |-> k]
         IN /\ served[u].sig.issue # s.issue
            /\ served' = [served EXCEPT ![u].sig = s] /\ made' = made \cup {[url |-> u, issue |-> s.issue, key |-> k]}
    /\ UNCHANGED <<slot, refr, reg, catNow, catErrs>>
Register ==
    /\ \E h \in {"ok", "unreachable"} : reg' = [x \in {"plugin"} |-> h] /\ reg' # reg
    /\ UNCHANGED <<served, made, slot, refr, catNow, catErrs>>
CatTick == catNow < MaxCatTime /\ catNow' = catNow + 1 /\ UNCHANGED <<served, made, slot, refr, reg, catErrs>>

CatNext == Publish \/ Sign \/ Register \/ CatTick \/ \E r \in Refresher : refresh(r) \/ FetchDoc(r) \/ FetchSig(r) \/ fetch_one(r)

-----------------------------------------------------------------------------
(* Properties.                                                             *)

\* An entry shown as verified is compiled in, or a trusted key signed the very issue that lists it:
\* a catalogue and a signature fetched around a publication never pass for each other
\* (registry.rs 214-255, services/registry.rs 106-160).
ShownAsSigned ==
    \A e \in view : e.verified => e.source = "bundled"
                    \/ \E s \in made : s.url = e.source /\ s.issue = slot[e.source].issue /\ s.key \in TrustedKey

\* A sidecar registered on the box is in the view, with the health it has, whichever catalogue lists
\* it or stops listing it; and no id is in it twice (services/registry.rs 192-331).
RegisteredShown ==
    /\ \A id \in DOMAIN reg : \E e \in view : e.id = id /\ e.state = IF reg[id] = "unreachable" THEN "unreachable" ELSE "installed"
    /\ \A e, f \in view : e.id = f.id => e = f

\* A refresh that could not read a source leaves its entries as they were (84-100).
LastGoodKept ==
    \A r \in Refresher : refr[r].pc = "doc" /\ refr'[r] # refr[r] => \A u \in Source : slot'[u].ids = slot[u].ids
=============================================================================
