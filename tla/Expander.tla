------------------------------- MODULE Expander -------------------------------
(***************************************************************************)
(* The URL expander (internal/expander/expander.go) behind POST            *)
(* /api/v1/urls/expand: it requests a URL, follows the redirects it is     *)
(* answered with, and returns where they end.  Servers answer anything;    *)
(* names resolve to something else at every lookup; connections are shared *)
(* between expansions through the idle pool of one HTTP client.            *)
(*                                                                         *)
(* A URL is the record of what the code looks at: its scheme, whether it   *)
(* carries credentials or is too long, its host and how that is written,   *)
(* the page (path and query) and whether a fragment follows.  A Location   *)
(* stands for the URL it resolves to.                                      *)
(***************************************************************************)
EXTENDS Integers, Sequences, FiniteSets

CONSTANTS
    Requests,       \* requests served at a time
    Names,          \* host names that may be looked up
    ReservedNames,  \* localhost, *.internal and the like
    Addresses,      \* IP addresses: records, see IsPublic
    NoHost,         \* the host of a URL that has none
    URLs,           \* what clients and servers send
    Malformed,      \* a text that is no URL
    NoLocation,     \* a response without that header
    Statuses,       \* status codes of responses
    Lookups,        \* what the resolver may answer: sequences of addresses
    DefaultMaxRedirects, MaxSupportedRedirects,   \* 10 and 32 in the code
    Configured,     \* values of Options.MaxRedirects
    MaxExpansions   \* bound

Hosts == Names \cup ReservedNames \cup Addresses \cup {NoHost}

ASSUME ExpanderAssumption ==
    /\ \A a \in Addresses : a.class \in STRING /\ a.mapped \in BOOLEAN
    /\ Names \cap (ReservedNames \cup Addresses) = {} /\ ReservedNames \cap Addresses = {}
    /\ NoHost \notin Names \cup ReservedNames \cup Addresses
    /\ URLs \subseteq [scheme : {"http", "https", "other"}, user : BOOLEAN, long : BOOLEAN,
                       host : Hosts, caps : BOOLEAN, page : STRING, fragment : BOOLEAN]
    /\ {Malformed, NoLocation} \cap URLs = {} /\ Malformed # NoLocation
    /\ Statuses \subseteq Nat /\ Lookups \subseteq Seq(Addresses)
    /\ DefaultMaxRedirects \in Nat /\ MaxSupportedRedirects \in Nat
    /\ 0 < DefaultMaxRedirects /\ DefaultMaxRedirects <= MaxSupportedRedirects
    /\ Configured \subseteq Int /\ MaxExpansions \in Nat

VARIABLES
    limit,      \* Expander.maxRedirects
    idle,       \* idle connections of the client
    step,       \* of each request: "connect", "dial", "wait" or "done"
    input, current, visited, redirects,   \* Expand's variables
    addrs,      \* safeDialContext's addresses left to dial
    answer,     \* what each request was answered last
    served,     \* history: the responses received for the request
    dialled,    \* history: addresses to which a connection was attempted
    begun       \* history: number of expansions begun

chain_vars == <<input, current, visited, redirects>>
vars == <<limit, idle, step, chain_vars, addrs, answer, served, dialled, begun>>

-------------------------------------------------------------------------------
(* Which targets are allowed                                               *)

BlockedClasses == {"invalid", "private", "loopback", "linkLocal", "multicast",
                   "unspecified", "special"}

\* "special" stands for the prefixes listed in blockedPrefixes.  An IPv4 address
\* mapped into IPv6 is judged as what it is.
IsPublic(a) == a.class \notin BlockedClasses

Verdicts == {"ok", "invalid", "blocked"}

ValidateHostName(host) == IF host = NoHost THEN "invalid"
                          ELSE IF host \in ReservedNames THEN "blocked"
                          ELSE "ok"

ValidateTarget(u) ==
    IF u.scheme = "other" \/ u.long \/ u.user THEN "invalid"
    ELSE IF ValidateHostName(u.host) # "ok" THEN ValidateHostName(u.host)
    ELSE IF u.host \in Addresses /\ ~IsPublic(u.host) THEN "blocked"
    ELSE "ok"

ParseTarget(raw) == IF raw = Malformed THEN "invalid" ELSE ValidateTarget(raw)

VisitKey(u) == [u EXCEPT !.caps = FALSE, !.fragment = FALSE]

IsRedirect(status) == status \in {301, 302, 303, 307, 308}

MaxRedirects(n) == IF n <= 0 THEN DefaultMaxRedirects
                   ELSE IF n > MaxSupportedRedirects THEN MaxSupportedRedirects
                   ELSE n

\* The connection a URL is requested on: per scheme and host as written.
Origin(u) == [scheme |-> u.scheme, host |-> u.host, caps |-> u.caps]

-------------------------------------------------------------------------------
(* Requests                                                                *)

Running == {"connect", "dial", "wait"}

NoAnswer == [error |-> "none", code |-> 0]

\* The HTTP status of an error.
WriteExpandError(error) ==
    CASE error \in {"invalid", "invalidRedirect", "tooMany", "loop"} -> 400
      [] error = "blocked" -> 403
      [] error = "timeout" -> 504
      [] error = "fetch"   -> 503

Failed(error) == [error |-> error, code |-> WriteExpandError(error)]

Goes(r, next) == /\ step' = [step EXCEPT ![r] = next]
                 /\ UNCHANGED answer

Answer(r, a) == /\ step' = [step EXCEPT ![r] = "done"]
                /\ answer' = [answer EXCEPT ![r] = a]

Init ==
    /\ \E n \in Configured : limit = MaxRedirects(n)
    /\ idle = {} /\ dialled = {} /\ begun = 0
    /\ step = [r \in Requests |-> "done"]
    /\ input = [r \in Requests |-> Malformed] /\ current = input
    /\ visited = [r \in Requests |-> {}] /\ redirects = [r \in Requests |-> <<>>]
    /\ addrs = [r \in Requests |-> <<>>]
    /\ answer = [r \in Requests |-> NoAnswer]
    /\ served = [r \in Requests |-> <<>>]

\* A request arrives and its URL is checked.
Begin(r, raw) ==
    /\ step[r] = "done" /\ begun < MaxExpansions
    /\ begun' = begun + 1
    /\ served' = [served EXCEPT ![r] = <<>>]
    /\ \/ /\ ParseTarget(raw) = "ok"
          /\ step' = [step EXCEPT ![r] = "connect"]
          /\ answer' = [answer EXCEPT ![r] = NoAnswer]
          /\ input' = [input EXCEPT ![r] = raw]
          /\ current' = [current EXCEPT ![r] = raw]
          /\ visited' = [visited EXCEPT ![r] = {VisitKey(raw)}]
          /\ redirects' = [redirects EXCEPT ![r] = <<>>]
       \/ /\ ParseTarget(raw) # "ok"
          /\ Answer(r, Failed(ParseTarget(raw)))
          /\ UNCHANGED chain_vars
    /\ UNCHANGED <<limit, idle, addrs, dialled>>

\* The client has an idle connection for the URL.
Reuse(r) ==
    /\ step[r] = "connect"
    /\ Origin(current[r]) \in idle
    /\ idle' = idle \ {Origin(current[r])}
    /\ Goes(r, "wait")
    /\ UNCHANGED <<limit, chain_vars, addrs, served, dialled, begun>>

\* What a host stands for: itself if it is an address, else any answer of the
\* resolver.
Resolutions(host) == IF host \in Addresses THEN {<<host>>} ELSE Lookups

\* Why the addresses of a host are not dialled, if they are not: one that is not
\* public spoils them all.
DialVerdict(host, ips) ==
    IF ValidateHostName(host) # "ok" THEN ValidateHostName(host)
    ELSE IF ips = <<>> THEN "fetch"
    ELSE IF \E i \in DOMAIN ips : ~IsPublic(ips[i]) THEN "blocked"
    ELSE "ok"

\* The dialer of the client looks the host up and checks what it finds.
Resolve(r) ==
    /\ step[r] = "connect"
    /\ \E ips \in Resolutions(current[r].host) :
         LET verdict == DialVerdict(current[r].host, ips) IN
         \/ /\ verdict # "ok"
            /\ Answer(r, Failed(verdict))
            /\ UNCHANGED addrs
         \/ /\ verdict = "ok"
            /\ addrs' = [addrs EXCEPT ![r] = ips]
            /\ Goes(r, "dial")
    /\ UNCHANGED <<limit, idle, chain_vars, served, dialled, begun>>

\* An attempt to connect to the address a: it works, or fails at once or in
\* time-out, and then the next address is tried.
DialTo(r, a) ==
    /\ dialled' = dialled \cup {a}
    /\ \/ /\ Goes(r, "wait")
          /\ addrs' = [addrs EXCEPT ![r] = <<>>]
       \/ /\ Len(addrs[r]) > 1
          /\ Goes(r, "dial")
          /\ addrs' = [addrs EXCEPT ![r] = Tail(@)]
       \/ /\ Len(addrs[r]) = 1
          /\ \E error \in {"fetch", "timeout"} : Answer(r, Failed(error))
          /\ addrs' = [addrs EXCEPT ![r] = <<>>]
    /\ UNCHANGED <<limit, idle, chain_vars, served, begun>>

\* Mutant of Dial: the name is looked up once more to connect.
DialByName(r) ==
    /\ step[r] = "dial"
    /\ \E ips \in Resolutions(current[r].host) : ips # <<>> /\ DialTo(r, Head(ips))

Dial(r) == /\ step[r] = "dial"
           /\ DialTo(r, Head(addrs[r]))

\* The response of a hop; a redirect of the result has the same fields.
Hop(r, status, location) == [url |-> current[r], status |-> status, location |-> location]

Reached(r, location) == VisitKey(location) \in visited[r]

\* A redirect is followed.
Advance(r, status, location) ==
    /\ visited' = [visited EXCEPT ![r] = @ \cup {VisitKey(location)}]
    /\ redirects' = [redirects EXCEPT ![r] = Append(@, Hop(r, status, location))]
    /\ current' = [current EXCEPT ![r] = location]
    /\ Goes(r, "connect")
    /\ UNCHANGED input

\* Mutant of TooMany: one redirect more is followed.
TooManyPlusOne(r) == Len(redirects[r]) > limit

TooMany(r) == Len(redirects[r]) >= limit

\* Why a redirect is not followed, if it is not: the order of the checks shows.
Verdict(r, location) ==
    IF TooMany(r) THEN "tooMany"
    ELSE IF location = Malformed THEN "invalidRedirect"
    ELSE IF ValidateTarget(location) # "ok" THEN ValidateTarget(location)
    ELSE IF Reached(r, location) THEN "loop"
    ELSE "ok"

\* Mutant of Result: the URL the expansion began with is reported.
ResultOfInput(r, status) ==
    [error |-> "none", code |-> 200, input |-> input[r], final |-> input[r],
     status |-> status, redirects |-> redirects[r]]

Result(r, status) ==
    [error |-> "none", code |-> 200, input |-> input[r], final |-> current[r],
     status |-> status, redirects |-> redirects[r]]

\* The response arrives; its connection may be kept for reuse.
Respond(r, status, location) ==
    /\ step[r] = "wait"
    /\ served' = [served EXCEPT ![r] = Append(@, Hop(r, status, location))]
    /\ idle' \in {idle, idle \cup {Origin(current[r])}}
    /\ \/ /\ ~IsRedirect(status) \/ location = NoLocation
          /\ Answer(r, Result(r, status))
          /\ UNCHANGED chain_vars
       \/ /\ IsRedirect(status) /\ location # NoLocation
          /\ Verdict(r, location) # "ok"
          /\ Answer(r, Failed(Verdict(r, location)))
          /\ UNCHANGED chain_vars
       \/ /\ IsRedirect(status) /\ location # NoLocation
          /\ Verdict(r, location) = "ok"
          /\ Advance(r, status, location)
    /\ UNCHANGED <<limit, addrs, dialled, begun>>

\* The expansion ends without a response: the exchange breaks off, or the deadline
\* passes.
GiveUp(r, error) ==
    /\ Answer(r, Failed(error))
    /\ addrs' = [addrs EXCEPT ![r] = <<>>]
    /\ UNCHANGED <<limit, idle, chain_vars, served, dialled, begun>>

ExchangeFails(r) == step[r] = "wait" /\ GiveUp(r, "fetch")

\* Mutant of Deadline: connecting does not heed the deadline.
DeadlineOfResponse(r) == step[r] = "wait" /\ GiveUp(r, "timeout")

\* The deadline of the whole expansion passes, at any point of it.
Deadline(r) == step[r] \in Running /\ GiveUp(r, "timeout")

\* An idle connection is closed by either end.
CloseIdle == \E k \in idle :
    /\ idle' = idle \ {k}
    /\ UNCHANGED <<limit, step, chain_vars, addrs, answer, served, dialled, begun>>

Next ==
    \/ \E r \in Requests :
         \/ \E raw \in URLs \cup {Malformed} : Begin(r, raw)
         \/ Reuse(r) \/ Resolve(r) \/ Dial(r) \/ ExchangeFails(r) \/ Deadline(r)
         \/ \E status \in Statuses, location \in URLs \cup {Malformed, NoLocation} :
              Respond(r, status, location)
    \/ CloseIdle

Spec == Init /\ [][Next]_vars

\* The timer of a request fires, and ends what the request waits for.
FairSpec == Spec /\ \A r \in Requests : WF_vars(Deadline(r))

-------------------------------------------------------------------------------
(* Properties                                                              *)

Hops == [url : URLs, status : Statuses, location : URLs \cup {Malformed, NoLocation}]

\* The variables have their types (expander.go:75-204).
TypeOK ==
    /\ limit \in 1 .. MaxSupportedRedirects
    /\ step \in [Requests -> Running \cup {"done"}]
    /\ input \in [Requests -> URLs \cup {Malformed}]
    /\ current \in [Requests -> URLs \cup {Malformed}]
    /\ redirects \in [Requests -> Seq(Hops)] /\ served \in [Requests -> Seq(Hops)]
    /\ DOMAIN visited = Requests /\ DOMAIN answer = Requests
    /\ addrs \in [Requests -> Seq(Addresses)]
    /\ dialled \subseteq Addresses /\ begun \in 0 .. MaxExpansions
    /\ \A r \in Requests :
         /\ step[r] \in Running => input[r] \in URLs /\ current[r] \in URLs
         /\ step[r] = "dial" <=> addrs[r] # <<>>

\* Nothing is requested of a host that is not allowed, be it by redirect, and no
\* connection is even attempted to an address that is not public, whatever a name
\* resolves to at its next lookup and whichever attempt of several it is
\* (expander.go:187-190; safeDialContext dials only what it has checked, 348-383).
OnlyPublicDials ==
    /\ \A a \in dialled : a.class \notin BlockedClasses
    /\ \A r \in Requests : \A i \in DOMAIN served[r] :
         ValidateTarget(served[r][i].url) = "ok"

SamePage(u, v) == u.scheme = v.scheme /\ u.host = v.host /\ u.page = v.page

\* An expansion never requests one page twice, however its host is written and
\* whatever fragment follows (visitKey, expander.go:191-195 and 399-404).
NoPageTwice ==
    \A r \in Requests : \A i, j \in DOMAIN served[r] :
        SamePage(served[r][i].url, served[r][j].url) => i = j

\* At most one request more than the limit in force is made, and the limit is never
\* above the supported one, whatever is configured (expander.go:92-98, 179-181).
RequestsBounded ==
    \A r \in Requests :
        /\ Len(served[r]) <= limit + 1
        /\ Len(served[r]) <= MaxSupportedRedirects + 1

\* An expansion costs third parties a bounded number of requests, and none twice.
RequestsSpent == TypeOK /\ NoPageTwice /\ RequestsBounded

Last(s) == s[Len(s)]

\* What is answered follows from the responses received: the chain reported is the
\* chain that was served, it ends at the URL reported, with the status of its last
\* response; the error of a limit or a loop is given exactly at the response that
\* exceeds the limit, or closes the loop (expander.go:169-203).
AnswersFollowChain ==
    \A r \in Requests : LET s == served[r]  a == answer[r]  n == Len(s) IN
        /\ a.code = 200 =>
             /\ n = Len(a.redirects) + 1 /\ n <= limit + 1
             /\ a.input = s[1].url /\ a.final = s[n].url /\ a.status = s[n].status
             /\ \A i \in 1 .. n - 1 : /\ a.redirects[i] = s[i]
                                     /\ IsRedirect(s[i].status)
                                     /\ s[i].location = s[i + 1].url
             /\ s[n].location = NoLocation \/ ~IsRedirect(s[n].status)
        /\ a.error = "tooMany" => n = limit + 1 /\ s[n].location # NoLocation
        /\ a.error = "loop" => \E i \in 1 .. n : VisitKey(s[i].url) = VisitKey(s[n].location)

\* Every expansion is answered, though no server and no resolver ever need do
\* anything: the deadline spans all of it (expander.go:139).
ExpansionsEnd == \A r \in Requests : step[r] \in Running ~> step[r] = "done"

===============================================================================
