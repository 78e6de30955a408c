-------------------------------- MODULE MCGateway ------------------------------
(* An instance of Gateway for TLC.                                         *)
EXTENDS Gateway

CONSTANTS Alice, Bob, B1, B2, K1, K2, D1, D2

Cookie(u, e) == [sub |-> u, exp |-> e, signed |-> TRUE]
Forged(u) == [sub |-> u, exp |-> 9, signed |-> FALSE]
MCCookies == {NoCookie, Cookie(Alice, 1), Cookie(Bob, 9), Forged(Alice)}

Google == "accounts.google.com"
Good == [wellFormed |-> TRUE, kid |-> K1, signer |-> K1, iss |-> Google, aud |-> "urlo",
         exp |-> 2, sub |-> Alice]
MCTokens == {Good, [Good EXCEPT !.kid = K2, !.signer = K2, !.exp = 9, !.sub = Bob],
             [Good EXCEPT !.aud = "other"], [Good EXCEPT !.signer = K2]}
MCIssuers == {"accounts.google.com", "https://accounts.google.com"}

Record(o, e) == [owner |-> o, dest |-> D1, expires |-> e, disabled |-> FALSE, visits |-> 0]
MCInitObjects == {Absent, Record(Alice, -1), Record(Alice, 0), Record(NoUser, -1)}

Crawler == [ua |-> {"safari/", "bot"}, ip |-> <<>>, referrer |-> <<"%">>, languages |-> <<>>, moment |-> 7]
Phone == [ua |-> {"edg/", "chrome/", "safari/", "android", "linux"}, ip |-> <<"192.0.2.1">>,
          referrer |-> <<1, TRUE>>, languages |-> <<" ", "fr", ";", "q", ",", "en">>, moment |-> 0]
MCVisits == {NoVisit, Crawler, Phone}

MCQueries == {[type |-> "day", from |-> 1, limit |-> 0],
              [type |-> "referer", from |-> 0, limit |-> 1]}

AliceAndBob == (B1 :> Cookie(Alice, 1)) @@ (B2 :> Cookie(Bob, 9))
AliceAndNobody == (B1 :> Cookie(Alice, 1)) @@ (B2 :> Forged(Alice))
Nobody == (B1 :> NoCookie) @@ (B2 :> NoCookie)

Base == [auth |-> TRUE, recording |-> FALSE, perHour |-> 0, clients |-> Clients,
         jar |-> AliceAndBob, keys |-> Kids, links |-> {Record(Alice, -1)},
         visits |-> {}, maxLen |-> 0, maxStream |-> 0, maxNow |-> 0, requests |-> 3]

MCConfigs ==
    {[ops |-> {"login", "me"}, requests |-> 2, maxNow |-> 2, jar |-> Nobody,
      clients |-> {B1}, keys |-> {K1}] @@ Base,
     [ops |-> {"login", "shorten"}, requests |-> 2, perHour |-> 1,
      jar |-> AliceAndNobody, clients |-> {B1}, keys |-> {K1}, links |-> {Absent}] @@ Base,
     [ops |-> {"redirect", "analytics"}, recording |-> TRUE, visits |-> {Crawler, Phone},
      maxLen |-> 1, maxStream |-> 2, jar |-> Nobody, clients |-> {B1},
      links |-> {Record(NoUser, -1)}] @@ Base,
     [ops |-> {"redirect", "analytics"}, recording |-> TRUE, visits |-> {Phone}, maxNow |-> 1,
      maxLen |-> 1, maxStream |-> 3, requests |-> 2, jar |-> Nobody, clients |-> {B1},
      links |-> {Record(NoUser, -1)}] @@ Base,
     [ops |-> {"redirect", "clicks"}, recording |-> TRUE, visits |-> {Crawler, Phone},
      maxNow |-> 1, maxStream |-> 2, requests |-> 2, jar |-> Nobody, clients |-> {B1},
      links |-> {Record(NoUser, -1)}] @@ Base,
     [ops |-> {"clicks", "shorten", "delete"}] @@ Base,
     [ops |-> {"redirect", "update", "disable"}, clients |-> {B1}] @@ Base,
     [ops |-> {"list", "availability", "shorten", "delete"}, clients |-> {B1}] @@ Base,
     [ops |-> {"resolve", "list", "availability", "logout"}, clients |-> {B1}, maxNow |-> 1,
      links |-> {Record(Alice, 0)}] @@ Base,
     [ops |-> {"update", "disable", "lookup", "stats"}, perHour |-> 1,
      maxNow |-> 1, jar |-> AliceAndNobody, requests |-> 2] @@ Base,
     [ops |-> {"login", "me", "list", "logout"}, auth |-> FALSE] @@ Base}
===============================================================================
