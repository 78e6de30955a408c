-------------------------------- MODULE Gateway --------------------------------
(***************************************************************************)
(* The HTTP API (internal/http) and what it composes: sessions and sign-in *)
(* (SignIn), the rate limiter, the link service over the memory store      *)
(* (LinkService) and the click recorder.  A request passes the session     *)
(* middleware, the limiter and the checks of its handler in one step, then *)
(* accesses the stores step by step among the steps of others.             *)
(*                                                                         *)
(* The recorder is seen through what Redis has of it: an event that was    *)
(* recorded is added to its stream late, again, or never, the stream is    *)
(* trimmed, and List reads what is left.  ClickRecorder has the rest, and  *)
(* Enrichment what events hold.                                            *)
(***************************************************************************)
EXTENDS SignIn, SequencesExt

CONSTANTS
    Codes, Dests, Absent, InitObjects, Attempts,   \* of LinkService
    Hosts,         \* hosts of Referer headers, numbers in alphabetical order
    Visits,        \* what a redirect sees: headers, address, and the moment of the day
    Salt,          \* of the hashed addresses
    Queries,       \* of analytics: [type, from, limit]
    PageSize,      \* of clicks: 500 for analytics
    DefaultLimit,  \* 50 items
    Configs        \* configurations, each with what clients ask for and bounds for TLC

Clicks == INSTANCE Enrichment

\* A visit that tells nothing.
NoVisit == [ua |-> {}, ip |-> <<>>, referrer |-> <<>>, languages |-> <<>>, moment |-> 0]

LinkOps == [shorten |-> "shorten", redirect |-> "resolve", resolve |-> "resolve",
            lookup |-> "resolve", update |-> "update_as", disable |-> "disable_as",
            enable |-> "enable_as", delete |-> "delete_as"]
Reads == {"stats", "get_status", "clicks", "analytics"}
Unlimited == {"logout", "me", "list", "redirect"}
Ops == DOMAIN LinkOps \cup Reads \cup {"availability", "list", "login", "logout", "me"}
Scopes == Ops \ Unlimited

ASSUME GatewayAssumption ==
    /\ Requests \subseteq Nat /\ Clients # {}
    /\ Hosts \subseteq Nat /\ Clicks!NoHost \in Hosts
    /\ \A v \in Visits : /\ v.moment \in 0 .. Clicks!Day - 1
                         /\ Clicks!ReferrerHost(v.referrer) \in Hosts
                         /\ v.ip \in Seq(STRING) /\ v.languages \in Seq(STRING)
    /\ PageSize \in Nat \ {0} /\ DefaultLimit \in Nat \ {0}
    /\ Queries \subseteq [type : {"day", "referer"}, from : Nat, limit : Int]
    /\ \A f \in Configs : /\ f.ops \subseteq Ops /\ f.perHour \in Nat
                          /\ f.auth \in BOOLEAN /\ f.recording \in BOOLEAN
                          /\ f.requests \in Nat /\ f.maxNow \in Nat
                          /\ f.clients \subseteq Clients /\ f.visits \subseteq Visits
                          /\ f.maxLen \in Nat /\ f.maxStream \in Nat

VARIABLES
    log, ptr, req, visited,   \* of LinkService
    config,
    tat,       \* the limiter's state in Redis: when the bucket of a key is full again
    web,       \* web[r]: request r at the HTTP layer
    stream,    \* stream[c]: what was ever added to the stream of code c, oldest first
    trimmed    \* trimmed[c]: how many of that Redis has trimmed

link_vars == <<log, ptr, req, visited>>
click_vars == <<stream, trimmed>>
gateway_vars == <<auth_vars, link_vars, config, tat, web, click_vars>>

Links == INSTANCE LinkService WITH
            Backend <- "memory", Users <- Subs, NoOwner <- NoUser,
            Ops <- {LinkOps[o] : o \in DOMAIN LinkOps}, MaxFailures <- 0, failures <- 0

ASSUME LinksAssumption == Links!SettingsAssumption /\ Links!LinksAssumption

NoQuery == [type |-> "none", from |-> 0, limit |-> 0]
NewRequest == [op |-> "me", client |-> CHOOSE b \in Clients : TRUE,
               code |-> CHOOSE c \in Codes : TRUE, user |-> NoUser,
               since |-> [c \in Codes |-> 1], began |-> 0, stage |-> "new", status |-> 0,
               form |-> "good", visit |-> NoVisit, click |-> <<>>, query |-> NoQuery,
               cursor |-> 0, shown |-> <<>>, first |-> <<>>, gone |-> 0]

GatewayInit ==
    /\ AuthInit /\ Links!Init
    /\ config \in Configs
    /\ jar = config.jar /\ published = config.keys
    /\ \A c \in Codes : log[c][1] \in config.links
    /\ tat = [k \in Scopes \X Clients |-> 0]
    /\ web = [r \in Requests |-> NewRequest]
    /\ stream = [c \in Codes |-> <<>>]
    /\ trimmed = [c \in Codes |-> 0]

-------------------------------------------------------------------------------
(* The middlewares                                                         *)

\* Mutant of Visitor: the signature is not checked.
VisitorOfAnyCookie(b) ==
    IF config.auth /\ jar[b] # NoCookie /\ now < jar[b].exp THEN jar[b].sub ELSE NoUser

\* auth.Middleware, optional on every API route: who sends the request.
Visitor(b) == IF config.auth THEN Decode(jar[b]) ELSE NoUser

\* disable and enable are one endpoint.
Endpoint(op) == IF op = "enable" THEN "disable" ELSE op

\* Mutant of Key: one quota for all endpoints.
KeyOfClient(op, b) == <<"shorten", b>>

\* What the limiter counts by: scope and address.
Key(op, b) == <<Endpoint(op), b>>

Limited(op) == config.perHour > 0 /\ op \notin Unlimited

\* redis_rate is GCRA: one request more fills the bucket for the perHour-th part
\* of an hour, here one unit of time.
Filled(k) == (IF tat[k] > now THEN tat[k] ELSE now) + 1
Exhausted(op, b) == Limited(op) /\ Filled(Key(op, b)) > now + config.perHour

\* A request is admitted: it counts, or Redis fails and it does not.
Admit(op, b) ==
    \/ /\ Limited(op) /\ ~Exhausted(op, b)
       /\ tat' = [tat EXCEPT ![Key(op, b)] = Filled(Key(op, b))]
    \/ UNCHANGED tat

-------------------------------------------------------------------------------
(* Requests arrive                                                         *)

\* The handler refuses malformed arguments before it looks at the link, unusable
\* ones after.
Forms(op) == {"good"}
    \cup (IF op \in {"login", "shorten", "availability", "disable", "enable", "update",
                     "analytics"} THEN {"malformed"} ELSE {})
    \cup (IF op \in {"update", "analytics"} THEN {"unusable"} ELSE {})

Arguments(op) ==
    {[form |-> f, query |-> q] : f \in Forms(op), q \in IF op = "analytics" THEN Queries ELSE {NoQuery}}

Request(op, b, c, x, v) ==
    [op |-> op, client |-> b, code |-> c, user |-> Visitor(b),
     since |-> [d \in Codes |-> Len(log[d])], began |-> now,
     stage |-> "new", status |-> 0, form |-> x.form, visit |-> v, click |-> <<>>,
     query |-> IF x.form = "good" THEN x.query ELSE NoQuery,
     cursor |-> 0, shown |-> <<>>, first |-> <<>>, gone |-> 0]

\* Visits matter where clicks are recorded.
VisitsOf(op) == IF op = "redirect" /\ config.recording THEN config.visits ELSE {NoVisit}

Arrivals ==
    UNION {{Request(op, b, c, x, v) :
              b \in config.clients, c \in Codes, x \in Arguments(op), v \in VisitsOf(op)} :
           op \in config.ops}

\* What the handler answers at once, 0 if it goes on.
AtOnce(a) ==
    CASE a.op \in {"login", "logout", "me"} /\ ~config.auth -> 503
      [] a.op \in {"list", "me"} /\ a.user = NoUser -> 401
      [] a.op = "me" -> 200
      [] a.op = "logout" -> 204
      [] a.form = "malformed" -> 400
      [] OTHER -> 0

\* The request is answered, shows something with that, or goes on.
Answered(a, status) == [a EXCEPT !.stage = "done", !.status = status]
Showing(a, x) == [Answered(a, 200) EXCEPT !.shown = x]
Telling(a, status, x, event) == [Answered(a, status) EXCEPT !.shown = x, !.click = event]
At(a, stage) == [a EXCEPT !.stage = stage]

Finish(r, status) == web' = [web EXCEPT ![r] = Answered(@, status)]
Goto(r, stage) == web' = [web EXCEPT ![r] = At(@, stage)]

\* 429: the quota of this endpoint is used up.
Refuse(r, a) ==
    /\ Exhausted(a.op, a.client)
    /\ web' = [web EXCEPT ![r] = Answered(a, 429)]
    /\ UNCHANGED <<auth_vars, link_vars, config, tat, click_vars>>

AnswerAtOnce(r, a) ==
    /\ AtOnce(a) # 0
    /\ Admit(a.op, a.client)
    /\ web' = [web EXCEPT ![r] = Answered(a, AtOnce(a))]
    /\ IF a.op = "logout" /\ config.auth THEN DropCookie(a.client) ELSE UNCHANGED auth_vars
    /\ UNCHANGED <<link_vars, config, click_vars>>

StartSignIn(r, a) ==
    /\ AtOnce(a) = 0 /\ a.op = "login"
    /\ Admit(a.op, a.client)
    /\ web' = [web EXCEPT ![r] = At(a, "sign_in")]
    /\ \E t \in Tokens : Login(r, t)
    /\ UNCHANGED <<link_vars, config, click_vars>>

\* The link service is called in the name of the session's user.
StartLink(r, a) ==
    /\ AtOnce(a) = 0 /\ a.op \in DOMAIN LinkOps /\ a.form = "good"
    /\ Admit(a.op, a.client)
    /\ web' = [web EXCEPT ![r] = At(a, "link")]
    /\ Links!Begin(r)
    /\ req'[r].op = LinkOps[a.op] /\ req'[r].code = a.code /\ req'[r].by = a.user
    /\ UNCHANGED <<auth_vars, config, click_vars>>

StartRead(r, a) ==
    /\ AtOnce(a) = 0
    /\ a.op \in Reads \cup {"availability", "list"} \/ a.form = "unusable"
    /\ Admit(a.op, a.client)
    /\ web' = [web EXCEPT ![r] =
                   At(a, IF a.op \in {"availability", "list"} THEN a.op ELSE "owned")]
    /\ UNCHANGED <<auth_vars, link_vars, config, click_vars>>

\* Requests are numbered as they arrive.  Bound: their number in the configuration.
Arrive(r) ==
    /\ web[r].stage = "new" /\ \A q \in Requests : q < r => web[q].stage # "new"
    /\ r <= config.requests
    /\ \E a \in Arrivals :
         \/ Refuse(r, a) \/ AnswerAtOnce(r, a) \/ StartSignIn(r, a)
         \/ StartLink(r, a) \/ StartRead(r, a)

-------------------------------------------------------------------------------
(* Sign-ins and the link service                                           *)

SignInRuns(r) ==
    /\ web[r].stage = "sign_in"
    /\ \/ SignInStep(r, web[r].client) /\ UNCHANGED web
       \/ step[r] = "done" /\ Finish(r, outcome[r]) /\ UNCHANGED auth_vars
    /\ UNCHANGED <<link_vars, config, tat, click_vars>>

LinkRuns(r) ==
    /\ web[r].stage = "link" /\ req[r].pc # "done"
    /\ Links!RequestStep(r)
    /\ UNCHANGED <<auth_vars, config, tat, web, click_vars>>

Success(op) == CASE op = "shorten" -> 201
                 [] op = "redirect" -> 302
                 [] op = "delete" -> 204
                 [] OTHER -> 200

\* codeToHTTP
StatusOf(op, answer) ==
    CASE answer \in {"ok", "found"} -> Success(op)
      [] answer = "not_found" -> 404
      [] answer = "conflict" -> 409
      [] answer = "denied" -> 403
      [] OTHER -> 500

\* recordClick: a redirect that found its link hands its event to the recorder.
Recorded(r) ==
    IF config.recording /\ web[r].op = "redirect" /\ req[r].answer = "found"
    THEN <<Clicks!EventOf(web[r].visit, now * Clicks!Day + web[r].visit.moment, Salt)>> ELSE <<>>

\* What the answer shows of the link: a resolution what the visit was counted on, an
\* edit what it wrote.
Content(r) ==
    CASE req[r].answer = "found" -> <<req[r].saw>>
      [] req[r].answer = "ok" /\ web[r].op \in {"update", "disable", "enable"} -> <<req[r].put>>
      [] OTHER -> <<>>

Reply(r) ==
    /\ web[r].stage = "link" /\ req[r].pc = "done"
    /\ web' = [web EXCEPT ![r] =
                   Telling(@, StatusOf(@.op, req[r].answer), Content(r), Recorded(r))]
    /\ UNCHANGED <<auth_vars, link_vars, config, tat, click_vars>>

\* The recorder adds the event to its stream: some time, more than once if a pipeline
\* is sent again, never if the event is dropped.  With a length given, Redis trims,
\* approximately.  Bound: the length of a stream.
Flush(r) ==
    LET c == web[r].code
        length == Len(stream[c]) + 1
    IN
    /\ web[r].click # <<>> /\ Len(stream[c]) < config.maxStream
    /\ stream' = [stream EXCEPT ![c] = Append(@, Clicks!Encode(web[r].click[1]))]
    /\ \/ UNCHANGED trimmed
       \/ \E n \in trimmed[c] .. length - config.maxLen :
            config.maxLen > 0 /\ trimmed' = [trimmed EXCEPT ![c] = n]
    /\ UNCHANGED <<auth_vars, link_vars, config, tat, web>>

-------------------------------------------------------------------------------
(* Reads                                                                   *)

Link(r) == Links!Latest(web[r].code)

\* Expired links keep their codes.
Available(c) == Links!Latest(c) = Absent

Availability(r) ==
    /\ web[r].stage = "availability"
    /\ web' = [web EXCEPT ![r] = Showing(@, <<Available(web[r].code)>>)]
    /\ UNCHANGED <<auth_vars, link_vars, config, tat, click_vars>>

\* The links of a user that have not expired.
Mine(u) == {c \in Codes : LET l == Links!Latest(c) IN
                          l # Absent /\ l.owner = u /\ ~Links!Expired(l)}

\* GET /urls without paging.
ListMine(r) ==
    /\ web[r].stage = "list"
    /\ web' = [web EXCEPT ![r] = Showing(@, Mine(web[r].user))]
    /\ UNCHANGED <<auth_vars, link_vars, config, tat, click_vars>>

ShowLink(r) == web' = [web EXCEPT ![r] = Showing(@, <<Link(r)>>)]

\* Mutant of Owned: the owner is not compared.
OwnedByAnyone(r) ==
    /\ web[r].stage = "owned"
    /\ \/ Link(r) = Absent /\ Finish(r, 404)
       \/ Link(r) # Absent /\ web[r].form = "unusable" /\ Finish(r, 400)
       \/ /\ Link(r) # Absent /\ web[r].form = "good"
          /\ IF web[r].op \in {"clicks", "analytics"} THEN Goto(r, "exists") ELSE ShowLink(r)
    /\ UNCHANGED <<auth_vars, link_vars, config, tat, click_vars>>

\* GetStatsAs, GetStatusAs: the link and its owner.  Links that expired, or are
\* disabled, show.  Some arguments are refused only now.
Owned(r) ==
    /\ web[r].stage = "owned"
    /\ \/ Link(r) = Absent /\ Finish(r, 404)
       \/ Link(r) # Absent /\ ~Links!MayManage(Link(r), web[r].user) /\ Finish(r, 403)
       \/ /\ Link(r) # Absent /\ Links!MayManage(Link(r), web[r].user)
          /\ web[r].form = "unusable" /\ Finish(r, 400)
       \/ /\ Link(r) # Absent /\ Links!MayManage(Link(r), web[r].user)
          /\ web[r].form = "good"
          /\ IF web[r].op \in {"clicks", "analytics"} THEN Goto(r, "exists") ELSE ShowLink(r)
    /\ UNCHANGED <<auth_vars, link_vars, config, tat, click_vars>>

\* ListClicks reads the link again, before every page.
Exists(r) ==
    /\ web[r].stage = "exists"
    /\ IF Link(r) = Absent THEN Finish(r, 404) ELSE Goto(r, "page")
    /\ UNCHANGED <<auth_vars, link_vars, config, tat, click_vars>>

\* What an event counts for, if the query wants it.  Events without a time are none.
TimeOf(e) == CHOOSE t \in e.ts : TRUE
KeyOf(q, e) == IF q.type = "day" THEN TimeOf(e) \div Clicks!Day ELSE e.referrer_host
Wanted(q, e) == e.ts # {} /\ TimeOf(e) >= q.from * Clicks!Day

\* The keys of the events wanted and how often they come up.
Tally(q, events) ==
    LET wanted == {i \in DOMAIN events : Wanted(q, events[i])}
    IN  {[key |-> k, count |-> Cardinality({i \in wanted : KeyOf(q, events[i]) = k})] :
           k \in {KeyOf(q, events[i]) : i \in wanted}}

\* The order of items: by day, or by count.
Above(q, x, y) ==
    IF q.type = "day" THEN x.key < y.key
    ELSE x.count > y.count \/ (x.count = y.count /\ x.key < y.key)

Sorted(q, tally) ==
    CHOOSE s \in SetToSeqs(tally) : \A i, j \in DOMAIN s : i < j => Above(q, s[i], s[j])

\* AnalyticsAs: the items in order; days are not limited.
Items(q, events) ==
    LET sorted == Sorted(q, Tally(q, events))
        limit == IF q.limit <= 0 THEN DefaultLimit ELSE q.limit
    IN  IF q.type = "day" \/ Len(sorted) <= limit THEN sorted ELSE SubSeq(sorted, 1, limit)

\* decode and clickToProto: the events of a stream as they are read.
Held(c) == [i \in DOMAIN stream[c] |-> Clicks!clickToProto(Clicks!Decode(stream[c][i]))]

\* The page that ends there, newest first, of what is not trimmed.
PageTo(c, end) ==
    LET room == IF end > PageSize THEN end - PageSize ELSE 0
        below == IF room > trimmed[c] THEN room ELSE trimmed[c]
    IN  Reverse(SubSeq(Held(c), below + 1, end))

\* Mutant of Older: a page starts at the newest event again, as many further down.
OlderByOffset(r) == PageTo(web[r].code, Len(stream[web[r].code]) - Len(web[r].shown))

\* Recorder.List: the events before the cursor.
Older(r) ==
    PageTo(web[r].code, IF web[r].cursor = 0 THEN Len(stream[web[r].code]) ELSE web[r].cursor - 1)

\* The request after one page more.
Read(a, page) ==
    LET all == Held(a.code) IN
    [a EXCEPT !.shown = @ \o page,
              !.cursor = (IF @ = 0 THEN Len(all) + 1 ELSE @) - Len(page),
              !.first = IF a.cursor = 0 THEN all ELSE @,
              !.gone = IF a.cursor = 0 THEN trimmed[a.code] ELSE @]

\* What clicks shows.
Listed(events) == [i \in DOMAIN events |-> Clicks!toClickEventDTO(events[i])]

\* A page.  One is the answer to clicks; analytics goes on while they are full.
NextPage(r) ==
    LET page == Older(r)
        more == web[r].op = "analytics" /\ Len(page) = PageSize
    IN
    /\ web[r].stage = "page"
    /\ \/ /\ more
          /\ web' = [web EXCEPT ![r] = At(Read(@, page), "exists")]
       \/ /\ ~more /\ web[r].op = "clicks"
          /\ web' = [web EXCEPT ![r] = Showing(Read(@, page), Listed(@.shown \o page))]
       \/ /\ ~more /\ web[r].op = "analytics"
          /\ web' = [web EXCEPT ![r] =
                                      Showing(Read(@, page), Items(@.query, @.shown \o page))]
    /\ UNCHANGED <<auth_vars, link_vars, config, tat, click_vars>>

-------------------------------------------------------------------------------
\* Bound: the time of the configuration.
GatewayTick == /\ now < config.maxNow
               /\ Tick /\ Links!Tick
               /\ UNCHANGED <<config, tat, web, click_vars>>

\* Bound: keys rotate where clients sign in.
GatewayRotate == /\ "login" \in config.ops
                 /\ Rotate
                 /\ UNCHANGED <<link_vars, config, tat, web, click_vars>>

Serve(r) == \/ SignInRuns(r) \/ LinkRuns(r) \/ Reply(r) \/ Availability(r)
            \/ ListMine(r) \/ Owned(r) \/ Exists(r) \/ NextPage(r)

GatewayNext == \/ GatewayTick \/ GatewayRotate
               \/ \E r \in Requests : Arrive(r) \/ Serve(r) \/ Flush(r)

Spec == GatewayInit /\ [][GatewayNext]_gateway_vars

\* Every goroutine goes on, and the read-write lock of the keys starves nobody.  No
\* event need ever be flushed.
FairSpec ==
    /\ Spec
    /\ \A r \in Requests : /\ WF_gateway_vars(Serve(r))
                           /\ SF_gateway_vars(SignInRuns(r))

-------------------------------------------------------------------------------
(* Properties                                                              *)

\* Type correctness.
TypeOK ==
    /\ SignInTypeOK
    /\ config \in Configs
    /\ tat \in [Scopes \X Clients -> Nat]
    /\ \A r \in Requests :
        /\ web[r].op \in Ops /\ web[r].client \in Clients /\ web[r].code \in Codes
        /\ web[r].user \in Subs \cup {NoUser}
        /\ web[r].stage \in {"new", "sign_in", "link", "availability", "list", "owned",
                             "exists", "page", "done"}
        /\ web[r].status \in {0, 200, 201, 204, 302, 400, 401, 403, 404, 409, 429, 503}
        /\ web[r].status # 0 <=> web[r].stage = "done"
    /\ \A c \in Codes : trimmed[c] \in 0 .. Len(stream[c])

\* middleware.go:15: whoever a request acts for has a session at that moment: issued
\* to that user, signed out of or not, and not expired.
ActsWithinSession ==
    [][\A r \in Requests :
           web[r].stage = "new" /\ web'[r].stage # "new" /\ web'[r].user # NoUser =>
           \E s \in issued : s.sub = web'[r].user /\ now < s.exp]_gateway_vars

\* config.go:99: the quota is "per client IP, endpoint scope": nobody is turned away
\* for what others, or other endpoints, were asked.
LimitedByOwnRequests ==
    \A r \in Requests : web[r].status = 429 =>
        Cardinality({q \in Requests : /\ q < r /\ web[q].client = web[r].client
                                      /\ Endpoint(web[q].op) = Endpoint(web[r].op)
                                      /\ web[q].status # 429}) >= config.perHour

\* The requests, and how they are limited.
RequestsOK == TypeOK /\ LimitedByOwnRequests

\* What link c was since the request arrived, by its place in the history.
Span(r, c) == web[r].since[c] .. Len(log[c])
During(r, c) == {log[c][i] : i \in Span(r, c)}

Told(r, statuses, ops) == web[r].status \in statuses /\ web[r].op \in ops

\* Every answer was right at some moment of its request, in what it shows too,
\* although the handlers read the link several times and others change it in between.
\* service.go:487: a redirect shows its link as it was once it could be served, or
\* later: what it reads then is not checked again.
AnswersWereTrue ==
    \A r \in Requests :
        LET c == web[r].code
            shown == web[r].shown
            user == web[r].user
            mine(v) == v # Absent /\ Links!MayManage(v, user)
            live(v) == v # Absent /\ (v.expires = Links!Never \/ web[r].began <= v.expires)
            gone(v) == v = Absent \/ (LinkOps[web[r].op] = "resolve" /\
                           (v.disabled \/ Links!Expired(v)))
        IN
        /\ web[r].status = 403 => \E v \in During(r, c) : v # Absent /\ ~mine(v)
        /\ Told(r, {404}, Reads) => Absent \in During(r, c)
        /\ Told(r, {404}, DOMAIN LinkOps) => \E v \in During(r, c) : gone(v)
        /\ Told(r, {200, 302}, {"redirect", "resolve", "lookup"}) =>
               \E i, j \in Span(r, c) :
                  /\ i <= j /\ live(log[c][i]) /\ ~log[c][i].disabled
                  /\ log[c][j] # Absent /\ shown = <<log[c][j]>>
        /\ Told(r, {200}, {"stats", "get_status", "update", "disable", "enable"}) =>
               \E v \in During(r, c) : mine(v) /\ shown = <<v>>
        /\ Told(r, {200}, {"clicks", "analytics"}) =>
               \E i, j \in Span(r, c) : i <= j /\ mine(log[c][i]) /\ log[c][j] # Absent
        /\ Told(r, {204}, {"delete"}) =>
               \E i, j \in Span(r, c) : i < j /\ mine(log[c][i]) /\ log[c][j] = Absent
        /\ Told(r, {201}, {"shorten"}) =>
               /\ Absent \in During(r, c)
               /\ \E v \in During(r, c) : v # Absent /\ v.owner = user
        /\ web[r].status = 409 => \E v \in During(r, c) : v # Absent
        /\ Told(r, {200}, {"availability"}) =>
               \E v \in During(r, c) : shown = <<v = Absent>>
        /\ Told(r, {200}, {"list"}) => \A d \in Codes :
               IF d \in shown THEN \E v \in During(r, d) : live(v) /\ v.owner = user
               ELSE \E v \in During(r, d) : v = Absent \/ v.owner # user \/ Links!Expired(v)

\* Items are those of events: every item counts all events of its key, none twice, and
\* no item left out comes before one that is shown.
Analyse(items, q, events) ==
    LET count(k) == Cardinality({i \in DOMAIN events :
                        Wanted(q, events[i]) /\ KeyOf(q, events[i]) = k})
        keysOf == {k \in Hosts \cup 0 .. MaxNow : count(k) > 0}
        before(j, k) == IF q.type = "day" THEN j < k
                        ELSE count(j) > count(k) \/ (count(j) = count(k) /\ j < k)
        rank(k) == Cardinality({j \in keysOf : before(j, k)}) + 1
        limit == IF q.limit > 0 THEN q.limit ELSE DefaultLimit
    IN
    /\ \A i \in DOMAIN items : /\ items[i].key \in keysOf
                               /\ items[i].count = count(items[i].key)
                               /\ rank(items[i].key) = i
    /\ \A k \in keysOf : rank(k) \in DOMAIN items <=> q.type = "day" \/ rank(k) <= limit

\* docs/api/clicks.md:57: "Return aggregate click metrics derived from recorded click
\* events": analytics reads page by page while clicks come in and old ones are trimmed,
\* and yet counts the events there were at its first page, each once, but for the
\* oldest, if they were trimmed since.
AnalyticsOfOneMoment ==
    \A r \in Requests : Told(r, {200}, {"analytics"}) =>
        LET first == web[r].first IN
        \E n \in web[r].gone .. trimmed[web[r].code] :
            /\ n <= Len(first)
            /\ Analyse(web[r].shown, web[r].query, SubSeq(first, n + 1, Len(first)))

\* Words by which products are known, and what products are made from.
Marks == [Edge |-> {"edg/"}, Opera |-> {"opr/", "opera"}, Chrome |-> {"chrome/"}]
Descent == {<<"Edge", "Chrome">>, <<"Edge", "Safari">>, <<"Opera", "Chrome">>,
            <<"Opera", "Safari">>, <<"Chrome", "Safari">>}

\* x tells what request q saw: its time to the millisecond, and so the same day; not
\* the address; no product is taken for what it descends from, no Android system for
\* a Linux, no bot for a visitor; the language is the first one of the header.
Understood(x, q) ==
    LET v == web[q].visit
        at == web[q].click[1].ts
        ink == {i \in DOMAIN v.languages : v.languages[i] # Clicks!Space}
        lang == {x.lang[i] : i \in DOMAIN x.lang}
    IN
    /\ x.ts <= at /\ at < x.ts + Clicks!Millisecond
    /\ x.ts \div Clicks!Day = at \div Clicks!Day
    /\ x.ip_hash = v.ip => v.ip = <<>>
    /\ x.user_agent = v.ua /\ x.referrer = v.referrer
    /\ \A d \in Descent : x.browser = d[2] => v.ua \cap Marks[d[1]] = {}
    /\ x.os = "Linux" => "android" \notin v.ua
    /\ x.is_bot <=> v.ua \cap Clicks!botSignatures # {}
    /\ x.device = "bot" <=> x.is_bot
    /\ lang \cap {Clicks!Comma, Clicks!Semicolon} = {}
    /\ x.lang # <<>> => \E i \in ink : /\ \A j \in ink : i <= j
                                        /\ x.lang[1] = v.languages[i]

\* docs/api/clicks.md:9: whatever clicks shows was a redirect of that link, and it
\* shows of it what the redirect saw.
ClicksAreUnderstood ==
    \A r \in Requests : Told(r, {200}, {"clicks"}) =>
        \A i \in DOMAIN web[r].shown : \E q \in Requests :
            /\ Told(q, {302}, {"redirect"}) /\ web[q].code = web[r].code
            /\ web[q].click # <<>> /\ Understood(web[r].shown[i], q)

\* The link service, and sign-in with its sessions, behave here as their own modules
\* say, whatever the other parts do.
LinkServiceRuns == Links!Spec
SignInRunsAlone == AuthSpec

\* Every request is answered, sign-ins too: none waits for the keys for ever.  Each
\* arrives once, so again and again none is under way.
RequestsEnd == []<>(\A r \in Requests : web[r].stage \in {"new", "done"})
===============================================================================
