------------------------------- MODULE Enrichment -------------------------------
(***************************************************************************)
(* What a click tells (internal/clicks/enrich.go): the event that a        *)
(* redirect makes of its request's headers, how the recorder writes it to  *)
(* a Redis stream and reads it back, and what the API shows of it.         *)
(*                                                                         *)
(* A User-Agent header is the set of the words in it that matter, in lower *)
(* case and without spaces, and {} if there is none; an Accept-Language    *)
(* header is a sequence of tags and separators; a Referer is <<host,       *)
(* upper>>, the host a number and upper whether it is written in capitals, *)
(* <<>> if it is missing, <<"%">> if it is no URL; a time is counted in    *)
(* ticks.                                                                  *)
(*                                                                         *)
(* Only the words below tell anything: EdgA, EdgiOS, CriOS and FxiOS are   *)
(* none of them, so such browsers count as what they are built on, and an  *)
(* Android tablet that does not say so as a mobile.                        *)
(***************************************************************************)
EXTENDS Integers, Sequences, FiniteSets, FiniteSetsExt

Millisecond == 4
Day == 2 * Millisecond
ZeroTime == -1   \* time.Time{}, before all clicks

Space == " "
Comma == ","
Semicolon == ";"

-------------------------------------------------------------------------------
(* Headers                                                                 *)

botSignatures ==
    {"bot", "crawler", "spider", "slurp", "facebookexternalhit", "bingpreview", "duckduckgo",
     "yandex", "baiduspider", "applebot", "googlebot", "headlesschrome", "curl/", "wget/",
     "python-requests", "go-http-client"}

\* Browsers carry the words of those they are made from: the order decides.
Browsers ==
    <<[words |-> {"edg/"}, name |-> "Edge"], [words |-> {"opr/", "opera"}, name |-> "Opera"],
      [words |-> {"chrome/"}, name |-> "Chrome"], [words |-> {"firefox/"}, name |-> "Firefox"],
      [words |-> {"safari/"}, name |-> "Safari"], [words |-> botSignatures, name |-> "Bot"]>>

Systems ==
    <<[words |-> {"android"}, name |-> "Android"],
      [words |-> {"iphone", "ipad", "ipod"}, name |-> "iOS"],
      [words |-> {"macosx", "macintosh"}, name |-> "macOS"],
      [words |-> {"windows"}, name |-> "Windows"], [words |-> {"linux"}, name |-> "Linux"]>>

Devices ==
    <<[words |-> botSignatures, name |-> "bot"], [words |-> {"ipad", "tablet"}, name |-> "tablet"],
      [words |-> {"mobile", "iphone", "android"}, name |-> "mobile"]>>

\* The first of the rules of which ua has a word.
Classify(rules, ua, other) ==
    LET fit == {i \in DOMAIN rules : rules[i].words \cap ua # {}} IN
    IF fit = {} THEN other ELSE rules[Min(fit)].name

ParseUA(ua) ==
    IF ua = {} THEN [browser |-> "", os |-> "", device |-> "other", is_bot |-> FALSE]
    ELSE [browser |-> Classify(Browsers, ua, "Other"), os |-> Classify(Systems, ua, "Other"),
          device |-> Classify(Devices, ua, "desktop"), is_bot |-> ua \cap botSignatures # {}]

\* strings.Cut keeps what comes before the first sep, TrimSpace what is between the
\* first and the last character that is no space.
Cut(s, sep) ==
    LET at == {i \in DOMAIN s : s[i] = sep} IN
    IF at = {} THEN s ELSE SubSeq(s, 1, Min(at) - 1)
TrimSpace(s) ==
    LET ink == {i \in DOMAIN s : s[i] # Space} IN
    IF ink = {} THEN <<>> ELSE SubSeq(s, Min(ink), Max(ink))

FirstLang(header) == TrimSpace(Cut(Cut(header, Comma), Semicolon))

\* The digest stands for what goes into it.
HashIP(ip, salt) == IF ip = <<>> THEN <<>> ELSE <<"sha256">> \o ip \o <<salt>>

NoHost == 0

\* In lower case.
ReferrerHost(referer) == IF Len(referer) = 2 THEN referer[1] ELSE NoHost

-------------------------------------------------------------------------------
(* Events                                                                  *)

\* recordClick: the event of a visit at a time, without country and city.
EventOf(visit, time, salt) ==
    LET ua == ParseUA(visit.ua) IN
    [ts |-> time, ip_hash |-> HashIP(visit.ip, salt), country |-> "", city |-> "",
     referrer |-> visit.referrer, referrer_host |-> ReferrerHost(visit.referrer),
     user_agent |-> visit.ua, browser |-> ua.browser, os |-> ua.os,
     device |-> ua.device, is_bot |-> ua.is_bot,
     lang |-> FirstLang(visit.languages)]

\* Mutant of Encode: a flag is written the way Go prints it.
EncodeFlag(e) == [e EXCEPT !.ts = @ \div Millisecond, !.is_bot = IF @ THEN "true" ELSE "false"]

\* Times are written in milliseconds, flags as digits.
Encode(e) == [e EXCEPT !.ts = @ \div Millisecond, !.is_bot = IF @ THEN "1" ELSE "0"]

Decode(m) == [m EXCEPT !.ts = @ * Millisecond, !.is_bot = @ = "1"]

\* In Protobuf a time may be missing, in JSON not.
clickToProto(e) == [e EXCEPT !.ts = IF @ = ZeroTime THEN {} ELSE {@}]

toClickEventDTO(e) == [e EXCEPT !.ts = IF @ = {} THEN ZeroTime ELSE CHOOSE t \in @ : TRUE]
===============================================================================
