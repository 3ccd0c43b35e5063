------------------------------ MODULE Hikvision -----------------------------
(***************************************************************************)
(* Writing a camera's own configuration (camera_config/hikvision.rs).  The *)
(* device keeps one document per resource; a write reads the document,     *)
(* splices what was asked into the text it read and puts the whole back,   *)
(* with no lock between the two requests.  A document is the sequence of   *)
(* its leaf elements, each with the block it stands in (<<"", 1>>, the     *)
(* document itself) and the ordinal of that block among those of its name; *)
(* the points of a line or a region are one leaf.  A flag is 0 or 1, a     *)
(* level is at most Pct.                                                   *)
(***************************************************************************)
EXTENDS Integers, Sequences, FiniteSets, SequencesExt

CONSTANTS Writer,       \* requests in hand
          Pct,          \* the highest level a device takes
          MaxAsks,      \* requests made in all (bound)
          MaxDevFaults  \* requests the device refuses, and answers lost (bound)

VARIABLES family, \* which requests arrive in this behaviour
          challenge, \* [asks, params]: does the device ask for a digest, and with which parameters
          docs,   \* path -> document
          users,  \* the ONVIF users of the device, [id, name]
          w,      \* writer -> the request in hand
          last,   \* path -> the request whose write the device took last
          asked, devFaults

devVars == <<family, challenge, docs, users, w, last, asked, devFaults>>

L(b, n, t, x) == [in |-> <<b, n>>, tag |-> t, text |-> x]
Top(t, x) == L("", 1, t, x)

\* The documents of the device (those of the unit tests, shortened).
Line(n, id) == << L("LineItem", n, "id", id), L("LineItem", n, "enabled", 0),
                  L("LineItem", n, "sensitivityLevel", 1), L("LineItem", n, "directionSensitivity", "any"),
                  L("LineItem", n, "CoordinatesList", <<0, 0>>) >>
Region(n, id) == << L("FieldDetectionRegion", n, "id", id), L("FieldDetectionRegion", n, "enabled", 0),
                    L("FieldDetectionRegion", n, "sensitivityLevel", 1), L("FieldDetectionRegion", n, "timeThreshold", 0) >>
VideoTags == <<"videoCodecType", "videoResolutionWidth", "videoResolutionHeight", "videoQualityControlType",
               "constantBitRate", "vbrUpperCap", "maxFrameRate", "GovLength">>
Delivered == [video |-> << Top("id", 101), Top("channelName", "door"), Top("enabled", 1), L("Video", 1, "enabled", 1),
                           L("Video", 1, "videoInputChannelID", 1) >> \o [i \in 1 .. 8 |-> L("Video", 1, VideoTags[i], 1)],
              time  |-> << Top("timeMode", "manual"), Top("localTime", 1), Top("timeZone", 1) >>,
              ntp   |-> << Top("addressingFormatType", "hostname"), Top("hostName", 1), Top("ipAddress", 1), Top("portNo", 1) >>,
              integrate |-> << L("ONVIF", 1, "enable", 0), L("ISAPI", 1, "enable", 1) >>,
              osd   |-> << L("DateTimeOverlay", 1, "enabled", 1), L("DateTimeOverlay", 1, "dateStyle", 1),
                           L("channelNameOverlay", 1, "enabled", 1) >>,
              ircut |-> << Top("IrcutFilterType", "auto"), Top("nightToDayFilterLevel", 1), Top("nightToDayFilterTime", 1) >>,
              color |-> << Top("brightnessLevel", 0), Top("contrastLevel", 0), Top("saturationLevel", 0) >>,
              WDR   |-> << Top("mode", "close"), Top("WDRLevel", 0) >>,
              BLC   |-> << Top("enabled", 0), Top("mode", "up") >>,
              light |-> << Top("supplementLightMode", "irLight"), Top("whiteLightBrightness", 0) >>,
              motion |-> << Top("enabled", 0), Top("sensitivityLevel", 0) >>,
              line  |-> << Top("id", 1), Top("enabled", 0) >> \o Line(1, 1) \o Line(2, 2) \o << Top("recogRuleType", 1) >>,
              field |-> << Top("id", 1), Top("enabled", 0), Top("startTriggerTime", 5) >> \o Region(1, 1) \o Region(2, 2)
                         \o << Top("isSupportMultiScene", 0) >>,
              output |-> << Top("outputState", "low") >>,
              power |-> << Top("boots", 0) >>]
Path == DOMAIN Delivered

-----------------------------------------------------------------------------
(* Finding and replacing elements.                                         *)

\* The first element of that name, in a whole text; 0: none.
find_open(doc, tag) ==
    IF \E i \in DOMAIN doc : doc[i].tag = tag THEN CHOOSE i \in DOMAIN doc : doc[i].tag = tag /\ \A j \in 1 .. i - 1 : doc[j].tag # tag
    ELSE 0
replace_first_text(doc, tag, v) == LET i == find_open(doc, tag) IN IF i = 0 THEN doc ELSE [doc EXCEPT ![i].text = v]
\* The texts of the blocks of a name, in their order.
Blocks(doc, b) == {doc[i].in[2] : i \in {j \in DOMAIN doc : doc[j].in[1] = b}}
Inner(doc, b, n) == SelectSeq(doc, LAMBDA x : x.in = <<b, n>>)
elements(doc, b) == [k \in 1 .. Cardinality(Blocks(doc, b)) |->
                       Inner(doc, b, CHOOSE n \in Blocks(doc, b) : Cardinality({m \in Blocks(doc, b) : m <= n}) = k)]
\* The same text with the block b put back as v.
Around(doc, b, n, v) ==
    LET S == {i \in DOMAIN doc : doc[i].in = <<b, n>>}
        lo == CHOOSE i \in S : \A j \in S : i <= j
        hi == CHOOSE i \in S : \A j \in S : j <= i
    IN SubSeq(doc, 1, lo - 1) \o v \o SubSeq(doc, hi + 1, Len(doc))

replace_in_block(doc, b, tag, v) ==
    IF Blocks(doc, b) = {} THEN doc
    ELSE LET n == elements(doc, b)[1][1].in[2] IN Around(doc, b, n, replace_first_text(Inner(doc, b, n), tag, v))

\* What a text shows of an element, the default where it has none.
first_text(doc, tag, default) == LET i == find_open(doc, tag) IN IF i = 0 THEN default ELSE doc[i].text

clamp_pct(v) == IF v > Pct THEN Pct ELSE IF v < 0 THEN 0 ELSE v
Levels == {"brightnessLevel", "contrastLevel", "saturationLevel", "WDRLevel", "whiteLightBrightness", "sensitivityLevel"}
Sent(tag, v) == IF tag \in Levels THEN clamp_pct(v) ELSE v

\* cfg: <<block, element>> -> what is asked; the keys in the order they are spliced in.
Splice(doc, keys, cfg) ==
    FoldLeft(LAMBDA d, k : IF k \notin DOMAIN cfg THEN d
                           ELSE IF k[1] = "" THEN replace_first_text(d, k[2], Sent(k[2], cfg[k]))
                           ELSE replace_in_block(d, k[1], k[2], Sent(k[2], cfg[k])), doc, keys)
Tops(tags) == [i \in DOMAIN tags |-> <<"", tags[i]>>]

-----------------------------------------------------------------------------
(* The text each write puts back, made from the text it read.              *)

build_video_put_body(doc, cfg) == Splice(doc, [i \in DOMAIN VideoTags |-> <<"Video", VideoTags[i]>>], cfg)
put_time_config(doc, cfg) == Splice(doc, Tops(<<"timeMode", "localTime", "timeZone">>), cfg)
\* A host by address is written to both elements.
put_ntp_config(doc, cfg) ==
    LET host == cfg[<<"", "hostName">>]
        named == Splice(doc, Tops(<<"addressingFormatType", "hostName">>), cfg)
        full == IF cfg[<<"", "addressingFormatType">>] = "ipaddress" THEN replace_first_text(named, "ipAddress", host) ELSE named
    IN Splice(full, Tops(<<"portNo">>), cfg)
put_onvif_settings(doc, cfg) == Splice(doc, << <<"ONVIF", "enable">>, <<"ISAPI", "enable">> >>, cfg)
put_osd_config(doc, cfg) ==
    Splice(doc, << <<"DateTimeOverlay", "enabled">>, <<"channelNameOverlay", "enabled">>, <<"DateTimeOverlay", "dateStyle">> >>, cfg)
put_day_night(doc, cfg) == Splice(doc, Tops(<<"IrcutFilterType", "nightToDayFilterLevel">>), cfg)
put_motion(doc, cfg) == Splice(doc, Tops(<<"enabled", "sensitivityLevel">>), cfg)
set_builtin_detection(doc, cfg) == Splice(doc, Tops(<<"enabled">>), cfg)

\* The four parts of the picture, in the order they are written.
ImageParts == <<"color", "WDR", "BLC", "light">>
ImageTags == [color |-> <<"brightnessLevel", "contrastLevel", "saturationLevel">>, WDR |-> <<"mode", "WDRLevel">>,
              BLC |-> <<"enabled">>, light |-> <<"supplementLightMode", "whiteLightBrightness">>]

\* A line rule as it is read, and as it is written.
parse_line(item) == [id |-> first_text(item, "id", 0), enabled |-> first_text(item, "enabled", 0),
                     sensitivity |-> first_text(item, "sensitivityLevel", 1),
                     direction |-> first_text(item, "directionSensitivity", "any"),
                     points |-> first_text(item, "CoordinatesList", <<>>)]
parse_line_detection(doc) == [i \in DOMAIN elements(doc, "LineItem") |-> parse_line(elements(doc, "LineItem")[i])]
Level1(v) == IF v < 1 THEN 1 ELSE clamp_pct(v)
build_line_item(n, l) == << L("LineItem", n, "id", l.id), L("LineItem", n, "enabled", l.enabled),
                            L("LineItem", n, "sensitivityLevel", Level1(l.sensitivity)),
                            L("LineItem", n, "directionSensitivity", l.direction), L("LineItem", n, "CoordinatesList", l.points) >>
validate_lines(ls) == \A l \in ls : Len(l.points) = 2 /\ l.direction \in {"any", "left-right", "right-left"}

\* The list sent is the list asked for, whatever the device holds in its other slots.
Merged_Asked(current, ls) == SetToSeq(ls)

\* The slots asked for over the slots of the device: a slot it does not have is not added.
Merged(current, ls) ==
    [i \in DOMAIN current |-> IF \E l \in ls : l.id = current[i].id THEN CHOOSE l \in ls : l.id = current[i].id ELSE current[i]]
\* The list is rebuilt whole from what was read of it.
put_line_crossing(doc, enabled, ls) ==
    LET items == Merged(parse_line_detection(doc), ls)
        S == {i \in DOMAIN doc : doc[i].in[1] = "LineItem"}
        lo == CHOOSE i \in S : \A j \in S : i <= j
        hi == CHOOSE i \in S : \A j \in S : j <= i
        list == FlattenSeq([n \in DOMAIN items |-> build_line_item(n, items[n])])
    IN replace_first_text(SubSeq(doc, 1, lo - 1) \o list \o SubSeq(doc, hi + 1, Len(doc)), "enabled", enabled)

\* A region is edited where it stands; its points go to the end of it, or away.
Slot(doc, id) == {n \in Blocks(doc, "FieldDetectionRegion") : first_text(Inner(doc, "FieldDetectionRegion", n), "id", 0) = id}
edit_region_in_place(doc, r) ==
    LET n == CHOOSE m \in Slot(doc, r.id) : \A k \in Slot(doc, r.id) : m <= k
        edited == FoldLeft(LAMBDA d, f : replace_first_text(d, f[1], f[2]), Inner(doc, "FieldDetectionRegion", n),
                           << <<"enabled", r.enabled>>, <<"sensitivityLevel", Level1(r.sensitivity)>>, <<"timeThreshold", clamp_pct(r.threshold)>> >>)
        bare == SelectSeq(edited, LAMBDA x : x.tag # "RegionCoordinatesList")
    IN Around(doc, "FieldDetectionRegion", n,
              IF r.points = <<>> THEN bare ELSE Append(bare, L("FieldDetectionRegion", n, "RegionCoordinatesList", r.points)))
validate_regions(rs) == \A r \in rs : r.points = <<>> \/ Len(r.points) \in 3 .. 10
put_intrusion(doc, enabled, rs) ==
    replace_first_text(FoldLeft(LAMBDA d, r : edit_region_in_place(d, r), doc, SetToSeq(rs)), "enabled", enabled)
parse_region(item) == [id |-> first_text(item, "id", 0), enabled |-> first_text(item, "enabled", 0),
                       sensitivity |-> first_text(item, "sensitivityLevel", 1), threshold |-> first_text(item, "timeThreshold", 0),
                       points |-> first_text(item, "RegionCoordinatesList", <<>>)]
parse_field_detection(doc) == [i \in DOMAIN elements(doc, "FieldDetectionRegion") |-> parse_region(elements(doc, "FieldDetectionRegion")[i])]

-----------------------------------------------------------------------------
(* What a request asks, and what reading a document back shows.            *)

T(t) == <<"", t>>
Ask0 == [op |-> "", path |-> "", cfg |-> <<>>, rules |-> {}, user |-> ""]
Plain(op, p, c) == [Ask0 EXCEPT !.op = op, !.path = p, !.cfg = c]
Rule(id, on, sens, pts) == [id |-> id, enabled |-> on, sensitivity |-> sens, threshold |-> 0, direction |-> "any", points |-> pts]
Square == <<1, 1, 2, 2>>
\* The parts of the picture a patch may set, with the value it sets.
ImagePatch == (T("brightnessLevel") :> Pct + 1) @@ (T("mode") :> "open") @@ (T("enabled") :> 1) @@ (T("supplementLightMode") :> "close")
Requests ==
    CASE family = "plain" ->
           {Plain("video", "video", [i \in {<<"Video", VideoTags[j]>> : j \in 1 .. 8} |-> 2]),
            Plain("time", "time", (T("timeMode") :> "NTP") @@ (T("localTime") :> 2) @@ (T("timeZone") :> 2)), Plain("sync", "time", <<>>),
            Plain("ntp", "ntp", (T("addressingFormatType") :> "ipaddress") @@ (T("hostName") :> 2) @@ (T("portNo") :> 1)),
            Plain("integrate", "integrate", (<<"ONVIF", "enable">> :> 1) @@ (<<"ISAPI", "enable">> :> 0)),
            Plain("osd", "osd", (<<"DateTimeOverlay", "enabled">> :> 1) @@ (<<"channelNameOverlay", "enabled">> :> 0)),
            Plain("ircut", "ircut", T("nightToDayFilterLevel") :> 2), Plain("output", "output", T("outputState") :> "high"),
            Plain("reboot", "power", <<>>)}
      [] family = "image" -> {Plain("image", "color", [k \in D |-> ImagePatch[k]]) : D \in SUBSET DOMAIN ImagePatch \ {{}}}
      [] family = "smart" ->
           {Plain("motion", "motion", (T("enabled") :> 1) @@ (T("sensitivityLevel") :> Pct + 1)), Plain("arm", "line", T("enabled") :> 1),
            Plain("arm", "field", T("enabled") :> 1)}
           \cup {[Plain("lines", "line", T("enabled") :> 0) EXCEPT !.rules = R] : R \in {{Rule(1, 1, 1, <<2, 2>>)}, {Rule(2, 1, 0, <<1, 2>>), Rule(3, 1, 1, <<1, 1>>)}}}
           \cup {[Plain("regions", "field", T("enabled") :> 1) EXCEPT !.rules = R] :
                   R \in {{Rule(1, 1, Pct + 1, Square)}, {Rule(1, 0, 1, <<>>)}, {Rule(2, 1, 1, Square)}, {Rule(3, 1, 1, <<>>)}}}
      [] OTHER -> {[Ask0 EXCEPT !.op = "user", !.path = "users", !.user = u] : u \in {"onvif1", "onvif2"}}

\* The documents a request writes, in their order.
Parts(r) ==
    IF r.op # "image" THEN << r.path >>
    ELSE SelectSeq(ImageParts, LAMBDA p : \E i \in DOMAIN ImageTags[p] : T(ImageTags[p][i]) \in DOMAIN r.cfg)

\* The text put to document p, made from what was read of it.
Put(r, p, doc) ==
    CASE r.op = "video" -> build_video_put_body(doc, r.cfg)
      [] r.op = "time" -> put_time_config(doc, r.cfg)
      [] r.op = "sync" -> replace_first_text(doc, "timeMode", "NTP")
      [] r.op = "ntp" -> put_ntp_config(doc, r.cfg)
      [] r.op = "integrate" -> put_onvif_settings(doc, r.cfg)
      [] r.op = "osd" -> put_osd_config(doc, r.cfg)
      [] r.op = "ircut" -> put_day_night(doc, r.cfg)
      [] r.op = "image" -> Splice(doc, Tops(ImageTags[p]), r.cfg)
      [] r.op = "motion" -> put_motion(doc, r.cfg)
      [] r.op = "arm" -> set_builtin_detection(doc, r.cfg)
      [] r.op = "lines" -> put_line_crossing(doc, r.cfg[T("enabled")], r.rules)
      [] r.op = "regions" -> put_intrusion(doc, r.cfg[T("enabled")], r.rules)
      [] r.op = "output" -> << Top("outputState", r.cfg[T("outputState")]) >>
      [] OTHER -> << Top("boots", docs.power[1].text + 1) >>

Reading(doc, k) == IF k[1] = "" THEN first_text(doc, k[2], "none") ELSE first_text(elements(doc, k[1])[1], k[2], "none")
Show(doc, keys) == [k \in Range(keys) |-> Reading(doc, k)]
parse_streaming_channel(doc) == Show(doc, [i \in DOMAIN VideoTags |-> <<"Video", VideoTags[i]>>])
parse_time(doc) == Show(doc, Tops(<<"timeMode", "localTime", "timeZone">>))
get_ntp_config(doc) ==
    Show(doc, Tops(<<"addressingFormatType", "portNo">>)) @@ (T("hostName") :> first_text(doc, "hostName", first_text(doc, "ipAddress", "")))
get_onvif_settings(doc) == Show(doc, << <<"ONVIF", "enable">>, <<"ISAPI", "enable">> >>)
get_osd_config(doc) ==
    Show(doc, << <<"DateTimeOverlay", "enabled">>, <<"channelNameOverlay", "enabled">>, <<"DateTimeOverlay", "dateStyle">> >>)
parse_day_night(doc) == Show(doc, Tops(<<"IrcutFilterType", "nightToDayFilterLevel">>))
get_motion(doc) == Show(doc, Tops(<<"enabled", "sensitivityLevel">>))
\* One part of the picture.
get_image_config(p, doc) == Show(doc, Tops(ImageTags[p]))
Get(p, doc) ==
    CASE p = "video" -> parse_streaming_channel(doc)
      [] p = "time" -> parse_time(doc)
      [] p = "ntp" -> get_ntp_config(doc)
      [] p = "integrate" -> get_onvif_settings(doc)
      [] p = "osd" -> get_osd_config(doc)
      [] p = "ircut" -> parse_day_night(doc)
      [] p = "motion" -> get_motion(doc)
      [] p \in DOMAIN ImageTags -> get_image_config(p, doc)
      [] p = "output" -> Show(doc, Tops(<<"outputState">>))
      [] OTHER -> Show(doc, Tops(<<"enabled">>))
Has(doc, k) == IF k[1] = "" THEN find_open(doc, k[2]) # 0 ELSE Blocks(doc, k[1]) # {} /\ find_open(elements(doc, k[1])[1], k[2]) # 0
\* A rule read back, with the fields its kind has.
Kept(p, r) == IF p = "line" THEN <<r.enabled, r.sensitivity, r.direction, r.points>> ELSE <<r.enabled, r.sensitivity, r.threshold, r.points>>
Rules(p, doc) == IF p = "line" THEN parse_line_detection(doc) ELSE parse_field_detection(doc)
Clamped(r) == [r EXCEPT !.sensitivity = Level1(@)]
Shows(p, doc, r) ==
    /\ \A k \in DOMAIN r.cfg \cap DOMAIN Get(p, doc) : Has(doc, k) => Get(p, doc)[k] = Sent(k[2], r.cfg[k])
    /\ p \in {"line", "field"} =>
         \A a \in r.rules : \A i \in DOMAIN Rules(p, doc) : Rules(p, doc)[i].id = a.id => Kept(p, Rules(p, doc)[i]) = Kept(p, Clamped(a))

-----------------------------------------------------------------------------
(* The requests to the device.                                             *)

Rest == [pc |-> "idle", req |-> Ask0, at |-> 1, body |-> <<>>, id |-> 0, done |-> {}, spurned |-> FALSE]
DevInit ==
    /\ family \in {"plain", "image", "smart", "user"}
    /\ challenge \in {[asks |-> TRUE, params |-> {"realm", "nonce"}]}
                     \cup {c \in [asks : BOOLEAN, params : {{"realm"}}] : family = "user"}
    /\ docs = Delivered /\ users = {[id |-> 1, name |-> "admin"]}
    /\ w = [k \in Writer |-> Rest] /\ last = [p \in Path |-> Ask0] /\ asked = 0 /\ devFaults = 0

\* A challenge is answered when it names a realm and a nonce.
digest_auth_header(params) == {"realm", "nonce"} \subseteq params
\* One request, sent bare first and again with the digest when the device asks for one: the status
\* that comes back, "none" when nothing does or the challenge cannot be answered.
isapi_request_raw(s) ==
    IF challenge.asks /\ ~ digest_auth_header(challenge.params) THEN s = "none" /\ UNCHANGED devFaults
    ELSE \/ s = "2xx" /\ UNCHANGED devFaults
         \/ s \in {"4xx", "5xx", "none", "lost"} /\ devFaults < MaxDevFaults /\ devFaults' = devFaults + 1

isapi_request(s) == s = "2xx"

\* The device refuses a level it does not have, and a shape its firmware does not take.
Accepts(p, doc) ==
    /\ \A i \in DOMAIN doc : doc[i].tag \in Levels => doc[i].text <= Pct
    /\ p = "field" => \A i \in DOMAIN doc : doc[i].tag = "RegionCoordinatesList" => doc[i].in[2] = 1 /\ Len(doc[i].text) = 4

Still == UNCHANGED <<family, challenge>>
Valid(r) == (r.op = "lines" => validate_lines(r.rules)) /\ (r.op = "regions" => validate_regions(r.rules))
Ask(k) ==
    /\ w[k].pc \in {"idle", "ok", "error"} /\ asked < MaxAsks /\ asked' = asked + 1
    /\ \E r \in Requests : w' = [w EXCEPT ![k] = [Rest EXCEPT !.req = r, !.pc = IF ~ Valid(r) THEN "error"
                                                       ELSE IF r.op \in {"output", "reboot"} THEN "write" ELSE "read"]]
    /\ Still /\ UNCHANGED <<docs, users, last, devFaults>>

Turn(k, pc) == w' = [w EXCEPT ![k].pc = pc]
Here(k) == Parts(w[k].req)[w[k].at]

\* The document as it is now; the write is made from it.
Read(k) ==
    /\ w[k].pc = "read" /\ w[k].req.op # "user"
    /\ \E s \in {"2xx", "5xx", "none"} :
         /\ isapi_request_raw(s)
         /\ LET doc == docs[Here(k)]
            IN IF ~ isapi_request(s) THEN Turn(k, "error")
               ELSE IF w[k].req.op = "sync" /\ first_text(doc, "timeMode", "") # "manual" THEN Turn(k, "ok")
               ELSE IF w[k].req.op = "regions" /\ \E r \in w[k].req.rules : Slot(doc, r.id) = {} THEN Turn(k, "error")
               ELSE w' = [w EXCEPT ![k].body = doc, ![k].pc = "write"]
    /\ Still /\ UNCHANGED <<docs, users, last, asked>>

\* The whole document back; the next part of a picture, or the answer.  A device that takes the
\* document may fail to say so.
Write(k) ==
    /\ w[k].pc = "write" /\ w[k].req.op # "user"
    /\ \E s \in {"2xx", "4xx", "none", "lost"} :
         /\ isapi_request_raw(s)
         /\ LET p == Here(k)
                new == Put(w[k].req, p, w[k].body)
                taken == s \in {"2xx", "lost"} /\ Accepts(p, new)
                status == IF s = "lost" THEN "none" ELSE IF taken \/ s # "2xx" THEN s ELSE "4xx"
                r == w[k].req
            IN /\ IF taken THEN docs' = [docs EXCEPT ![p] = new] /\ last' = [last EXCEPT ![p] = r] ELSE UNCHANGED <<docs, last>>
               /\ w' = [w EXCEPT ![k].done = IF taken THEN @ \cup {p} ELSE @,
                                 ![k].at = IF isapi_request(status) /\ @ < Len(Parts(r)) THEN @ + 1 ELSE @,
                                 ![k].pc = IF ~ isapi_request(status) THEN "error" ELSE IF w[k].at < Len(Parts(r)) THEN "read"
                                           ELSE IF r.op = "sync" THEN "again" ELSE "ok"]
    /\ Still /\ UNCHANGED <<users, asked>>

\* A clock put under NTP is read again for the answer.
ReadAgain(k) ==
    /\ w[k].pc = "again"
    /\ \E s \in {"2xx", "none"} : isapi_request_raw(s) /\ Turn(k, IF isapi_request(s) THEN "ok" ELSE "error")
    /\ Still /\ UNCHANGED <<docs, users, last, asked>>

\* The user is created under the id after the highest one listed.
ensure_onvif_user(k) ==
    /\ w[k].pc = "read" /\ w[k].req.op = "user"
    /\ \E s \in {"2xx", "none"} :
         /\ isapi_request_raw(s)
         /\ IF ~ isapi_request(s) THEN Turn(k, "error")
            ELSE IF \E u \in users : u.name = w[k].req.user THEN Turn(k, "ok")
            ELSE w' = [w EXCEPT ![k].pc = "write", ![k].id = 1 + CHOOSE i \in {u.id : u \in users} : \A u \in users : u.id <= i]
    /\ Still /\ UNCHANGED <<docs, users, last, asked>>

\* A refusal of the creation is taken for a user who is there.
Created(s) == s \in {"2xx", "4xx"}
CreateUser(k) ==
    /\ w[k].pc = "write" /\ w[k].req.op = "user"
    /\ \E s \in {"2xx", "4xx", "5xx", "none", "lost"} :
         /\ isapi_request_raw(s)
         /\ LET new == [id |-> w[k].id, name |-> w[k].req.user]
                clash == \E u \in users : u.id = new.id \/ u.name = new.name
                status == IF s = "lost" THEN "none" ELSE IF clash /\ s = "2xx" THEN "4xx" ELSE s
            IN /\ users' = IF s \in {"2xx", "lost"} /\ ~ clash THEN users \cup {new} ELSE users
               /\ w' = [w EXCEPT ![k].pc = IF Created(status) THEN "ok" ELSE "error", ![k].spurned = (status = "4xx")]
    /\ Still /\ UNCHANGED <<docs, last, asked>>

\* The client goes away in the middle.
HangUp(k) ==
    /\ w[k].pc \in {"read", "write", "again"} /\ devFaults < MaxDevFaults /\ devFaults' = devFaults + 1
    /\ w' = [w EXCEPT ![k] = Rest]
    /\ Still /\ UNCHANGED <<docs, users, last, asked>>

DevNext ==
    \E k \in Writer : Ask(k) \/ Read(k) \/ Write(k) \/ ReadAgain(k) \/ ensure_onvif_user(k) \/ CreateUser(k) \/ HangUp(k)

-----------------------------------------------------------------------------
(* Properties.                                                             *)

\* A document the device last took from a request shows, read back as the code reads it, what that
\* request asked in every element the document has: no value is written to another element of the
\* same name, out of the device's range, or to another slot (splices of hikvision.rs 887-1165).
ReadBack == \A p \in Path : last[p].op \notin {"", "sync", "reboot"} => Shows(p, docs[p], last[p])

\* A write reported done was taken by the device in all its parts, and a user reported ready is on
\* the device unless the device itself refused him (isapi_request 197-213, put_image_config 522-578).
OkMeansAll ==
    \A k \in Writer : w[k].pc = "ok" =>
        IF w[k].req.op = "user" THEN w[k].spurned \/ \E u \in users : u.name = w[k].req.user
        ELSE w[k].req.op = "sync" \/ Range(Parts(w[k].req)) \subseteq w[k].done

\* What a request may change of document p: the elements it names, and the slots it names whole.
Touched(r, p, doc) ==
    {i \in DOMAIN doc :
        \/ <<doc[i].in[1], doc[i].tag>> \in DOMAIN r.cfg /\ doc[i].in[2] = 1
        \/ r.op = "sync" /\ doc[i].tag = "timeMode"
        \/ r.op = "ntp" /\ doc[i].tag = "ipAddress"
        \/ r.op = "reboot"
        \/ \E a \in r.rules : \E j \in DOMAIN doc : doc[j].in = doc[i].in /\ doc[j].tag = "id" /\ doc[j].text = a.id /\ doc[i].in[1] # ""}
Untouched(r, p, doc) == {doc[i] : i \in DOMAIN doc \ Touched(r, p, doc)}

\* A write leaves every element it does not name as the device holds it, the other slots of a list it
\* rebuilds included, unless someone wrote the document after it was read (hikvision.rs 10-12, 671-677).
OthersKept ==
    \A k \in Writer : w[k].pc = "write" /\ w[k].req.op # "user" /\ w'[k].done # w[k].done =>
         LET p == Here(k) IN w[k].body \in {docs[p], <<>>} => Untouched(w[k].req, p, docs[p]) \subseteq Range(docs'[p])

\* Once a user is reported ready he is on the device (what 391-392 takes from a refusal).
EnsuredExists == \A k \in Writer : w[k].pc = "ok" /\ w[k].req.op = "user" => \E u \in users : u.name = w[k].req.user

-----------------------------------------------------------------------------
(***************************************************************************)
(* What a camera recognises by itself.  Plates: one loop asks the device   *)
(* for the reads after a durable cursor and feeds them to the perception   *)
(* pipeline (services/native_anpr.rs).  Alerts: a reader per opted-in      *)
(* camera follows the device's endless stream, logs a burst of active      *)
(* blocks once and extends the recording with each of them                 *)
(* (services/camera_events.rs).  One camera; the clock is the device's and *)
(* the box's.                                                              *)
(***************************************************************************)

CONSTANTS PlateRead,      \* the plate reads of the device
          Alert,     \* the alert types the device posts, as the box names them; "none": not an alert
          Rearm,     \* quiet seconds after which an alert is logged again
          Idle,      \* seconds without a byte that end a stream (IDLE_TIMEOUT_SECS)
          MaxCamTime, MaxCamErrs \* (bounds)

VARIABLES camPart,     \* what the behaviour is about: "plates" or "alerts"
          device,   \* read -> the second it was captured, 0: not yet
          cursor,   \* camera_native_anpr_state.cursor_time, 0: none
          poll,     \* [pc, todo, newest]: the poll in progress
          ingested, \* read -> times it became an event
          failed,   \* reads whose ingest failed
          backlog,  \* reads passed over as older than the box's first poll
          begun,    \* the second of the box's first poll, 0: none
          on,       \* camera: native_events_enabled
          reader,   \* [pc, since, seen]: the reader; since: last byte; seen: alert -> when last active
          burst,    \* alert -> [last, logged]: the activity of the device in this connection
          camNow, camErrs

plateVars == <<device, cursor, poll, ingested, failed, backlog, begun>>
alertVars == <<on, reader, burst>>
camVars == <<camPart, plateVars, alertVars, camNow, camErrs>>

Asleep == [pc |-> "idle", todo |-> {}, newest |-> 0]
NoReader == [pc |-> "none", since |-> 0, seen |-> [a \in Alert |-> 0]]
Quiet == [a \in Alert |-> [last |-> 0, logged |-> 0, lost |-> FALSE]]
CamInit ==
    /\ camPart \in {"plates", "alerts"}
    /\ device \in [PlateRead -> {0, 1}] /\ cursor = 0 /\ poll = Asleep /\ ingested = [r \in PlateRead |-> 0] /\ failed = {} /\ backlog = {}
    /\ begun = 0 /\ on = TRUE /\ reader = NoReader /\ burst = Quiet /\ camNow = 1 /\ camErrs = 0
Errs == camErrs < MaxCamErrs /\ camErrs' = camErrs + 1
NoErr == UNCHANGED camErrs

-----------------------------------------------------------------------------
(* Plates.                                                                 *)

\* The device captures a plate.
Capture ==
    /\ \E r \in PlateRead : device[r] = 0 /\ device' = [device EXCEPT ![r] = camNow]
    /\ UNCHANGED <<cursor, poll, ingested, failed, backlog, begun>> /\ NoErr

Captured == {r \in PlateRead : device[r] # 0}
Newest(S, c) == IF S = {} THEN c ELSE device[CHOOSE r \in S : \A x \in S : device[x] <= device[r]]

\* Nothing is durable before the reads have been ingested.
AtFetch(c, newest) == c

\* The reads after the cursor; a box with no cursor passes over all there is.  Nothing is saved of an
\* empty answer.
Fetch ==
    /\ poll.pc = "idle"
    /\ LET got == {r \in Captured : device[r] > cursor}
           first == cursor = 0
       IN \/ /\ poll' = [pc |-> IF got = {} THEN "idle" ELSE "ingest", newest |-> Newest(got, cursor),
                         todo |-> IF first THEN {} ELSE got]
             /\ cursor' = IF got = {} THEN cursor ELSE AtFetch(cursor, Newest(got, cursor))
             /\ backlog' = IF first THEN backlog \cup got ELSE backlog
             /\ begun' = IF begun = 0 THEN camNow ELSE begun
             /\ UNCHANGED <<device, ingested, failed>> /\ NoErr
          \/ Errs /\ UNCHANGED plateVars

\* The pipeline refuses a second batch of the same picture name, and it names the read.
Duplicate(r) == ingested[r] > 0

\* One read becomes one batch; an ingest that fails is only logged.
ingest_read ==
    /\ poll.pc = "ingest"
    /\ \E r \in poll.todo :
         /\ \/ ingested' = [ingested EXCEPT ![r] = IF Duplicate(r) THEN @ ELSE @ + 1] /\ NoErr /\ UNCHANGED failed
            \/ Errs /\ failed' = failed \cup {r} /\ UNCHANGED ingested
         /\ poll' = [poll EXCEPT !.todo = @ \ {r}]
    /\ UNCHANGED <<device, cursor, backlog, begun>>

\* The cursor goes to the newest read of the poll; if it cannot be saved the reads come again.
poll_camera ==
    /\ poll.pc = "ingest" /\ poll.todo = {} /\ poll' = Asleep
    /\ \/ cursor' = poll.newest /\ NoErr
       \/ Errs /\ UNCHANGED cursor
    /\ UNCHANGED <<device, ingested, failed, backlog, begun>>

\* The process dies and starts again.
PlateCrash ==
    /\ poll.pc # "idle" /\ Errs /\ poll' = Asleep
    /\ UNCHANGED <<device, cursor, ingested, failed, backlog, begun>>

-----------------------------------------------------------------------------
(* Alerts.                                                                 *)

\* Every few seconds: a reader for an opted-in camera, none for another.  A list that cannot be read is
\* an empty one.
Reconcile ==
    /\ burst' = Quiet /\ UNCHANGED on
    /\ \/ on /\ reader.pc = "none" /\ reader' = [NoReader EXCEPT !.pc = "connect"] /\ NoErr
       \/ ~ on /\ reader.pc # "none" /\ reader' = NoReader /\ NoErr
       \/ on /\ reader.pc # "none" /\ reader' = NoReader /\ Errs

\* The row is read and the stream opened; nothing is remembered of an earlier one.
Connect ==
    /\ reader.pc = "connect"
    /\ \/ reader' = [NoReader EXCEPT !.pc = "open", !.since = camNow] /\ burst' = Quiet /\ NoErr
       \/ Errs /\ UNCHANGED <<reader, burst>>
    /\ UNCHANGED on

\* The stream ends, or has been silent too long; the reader waits and opens it again.
Drops ==
    /\ reader.pc = "open"
    /\ \/ camNow - reader.since >= Idle /\ NoErr
       \/ Errs
    /\ reader' = [reader EXCEPT !.pc = "connect"] /\ UNCHANGED <<on, burst>>

\* Every active block puts the quiet time back to its start.
Remember(a, rising) == camNow

\* An active block: the recording is extended, and the first of a burst is logged.
drain_blocks ==
    /\ reader.pc = "open" /\ camNow - reader.since < Idle
    /\ \E a \in Alert :
         LET rising == reader.seen[a] = 0 \/ camNow - reader.seen[a] >= Rearm
             b == burst[a]
             new == b.last = 0 \/ camNow - b.last >= Rearm
         IN /\ a # "none"
            /\ reader' = [reader EXCEPT !.since = camNow, !.seen[a] = Remember(a, rising)]
            /\ \/ burst' = [burst EXCEPT ![a] = [last |-> camNow, lost |-> ~ new /\ b.lost,
                                                 logged |-> (IF new THEN 0 ELSE b.logged) + IF rising THEN 1 ELSE 0]] /\ NoErr
               \/ rising /\ Errs /\ burst' = [burst EXCEPT ![a] = [last |-> camNow, lost |-> TRUE, logged |-> IF new THEN 0 ELSE b.logged]]
    /\ UNCHANGED on

\* A heartbeat: an inactive block, or one of a type that is no alert.
Heartbeat ==
    /\ reader.pc = "open" /\ camNow - reader.since < Idle /\ reader.since # camNow
    /\ reader' = [reader EXCEPT !.since = camNow] /\ UNCHANGED <<on, burst>> /\ NoErr

\* An administrator opts the camera in or out.
Opt == on' = ~ on /\ UNCHANGED <<reader, burst>> /\ NoErr

CamTick == camNow < MaxCamTime /\ camNow' = camNow + 1 /\ UNCHANGED <<camPart, plateVars, alertVars, camErrs>>
CamNext ==
    \/ camPart = "plates" /\ (Capture \/ Fetch \/ ingest_read \/ poll_camera \/ PlateCrash) /\ UNCHANGED <<camPart, alertVars, camNow>>
    \/ camPart = "alerts" /\ (Reconcile \/ Connect \/ Drops \/ drain_blocks \/ Heartbeat \/ Opt) /\ UNCHANGED <<camPart, plateVars, camNow>>
    \/ CamTick

-----------------------------------------------------------------------------
(* Properties.                                                             *)

\* A read becomes at most one event, whatever crash or failed save makes the device tell it again, and
\* a read the cursor has passed became one unless its ingest failed, it was there before the first poll
\* that found anything, or another read of the same second put the cursor on it (native_anpr.rs 93-127).
ReadOnce ==
    \A r \in PlateRead :
        /\ ingested[r] <= 1
        /\ device[r] # 0 /\ device[r] <= cursor /\ poll.pc = "idle" =>
             ingested[r] = 1 \/ r \in failed \cup backlog \/ \E x \in PlateRead \ {r} : device[x] = device[r]

\* A read passed over as backlog was captured before the box first polled the camera
\* (native_anpr.rs 84-85).
BacklogPredates == \A r \in backlog : device[r] <= begun

\* An alert is logged once while it goes on, and it is logged, unless that write failed
\* (camera_events.rs 177-238).
BurstOnce == \A a \in Alert : burst[a].last # 0 => burst[a].logged = 1 \/ (burst[a].lost /\ burst[a].logged = 0)
=============================================================================
