------------------------------ MODULE LinkService ------------------------------
(***************************************************************************)
(* The link service (internal/url) over one of its two stores: the memory  *)
(* store, whose operations are atomic, and the S3 store, whose operations  *)
(* are sequences of S3 requests of which only the Put of Create is         *)
(* conditional.  A request of a client is a small program over the store;  *)
(* requests of any number of clients and processes interleave at each      *)
(* access to it.                                                           *)
(*                                                                         *)
(* log[c] is the sequence of values the link object of code c has had, so  *)
(* that properties can speak of what a request could have seen.            *)
(***************************************************************************)
EXTENDS Integers, Sequences, FiniteSets

CONSTANTS
    Backend,       \* "memory" or "s3"
    Codes,
    Users,         \* signed-in owners
    NoOwner,       \* an anonymous caller, the owner of an anonymous link
    Dests,         \* destinations: Record.LongURL
    Absent,        \* no link object
    Requests,      \* client requests; each is served once
    Ops,           \* the operations clients use in this instance
    Attempts,      \* tries of Shorten without a custom code; 8 in the code
    InitObjects,   \* links stored before the behaviour begins
    MaxNow,        \* bound: clock ticks
    MaxFailures    \* bound: failing S3 requests

Never == -1        \* Record.ExpiresAt of a link that does not expire
Callers == Users \cup {NoOwner}
Records == [owner : Callers, dest : Dests, expires : Int, disabled : BOOLEAN,
            visits : Nat]
Values == Records \cup {Absent}
AllOps == {"shorten", "shorten_random", "resolve", "update_as", "disable_as",
           "enable_as", "delete_as", "delete"}

ASSUME SettingsAssumption ==
    /\ Backend \in {"memory", "s3"}
    /\ Ops \subseteq AllOps
    /\ Attempts \in Nat \ {0} /\ MaxNow \in Nat /\ MaxFailures \in Nat

ASSUME LinksAssumption ==
    /\ Codes # {}
    /\ NoOwner \notin Users
    /\ Absent \notin Records
    /\ InitObjects \subseteq Values

VARIABLES
    log,       \* log[c]: every value object c has had; the last one is current
    ptr,       \* S3 owner pointer objects: pairs <<owner, code>>
    req,       \* req[k]: a request and how far it is
    now,
    visited,   \* history: visited[c]: calls of IncrVisit that read the link
    failures

vars == <<log, ptr, req, now, visited, failures>>

-------------------------------------------------------------------------------
(* Requests                                                                *)

NewRequest == [op |-> "resolve", code |-> CHOOSE c \in Codes : TRUE,
               by |-> NoOwner, pc |-> "new", saw |-> Absent, put |-> Absent,
               left |-> 0, answer |-> "none", since |-> 0, after |-> {}]

Latest(c) == log[c][Len(log[c])]
WriteObject(c, v) == log' = [log EXCEPT ![c] = Append(@, v)]

\* Record.Expired
Expired(r) == r.expires # Never /\ now > r.expires

\* The owner check of every ...As operation: anonymous links are anyone's.
MayManage(r, u) == r.owner \in {NoOwner, u}

Goto(k, pc) == req' = [req EXCEPT ![k].pc = pc]
Finish(k, answer) == req' = [req EXCEPT ![k].pc = "done", ![k].answer = answer]

\* store.Delete has returned; Resolve ignores what.
Deleted(k, answer) ==
    Finish(k, IF req[k].op = "resolve" THEN "not_found" ELSE answer)

\* The answer of a resolved link, as GET /:code redirects to it.
Redirect(k, r) ==
    req' = [req EXCEPT ![k].pc = "done", ![k].answer = "found", ![k].saw = r]

Init ==
    /\ log \in [Codes -> {<<v>> : v \in InitObjects}]
    /\ ptr = {p \in Users \X Codes : Latest(p[2]) # Absent /\ Latest(p[2]).owner = p[1]}
    /\ req = [k \in Requests |-> NewRequest]
    /\ now = 0
    /\ visited = [c \in Codes |-> IF Latest(c) = Absent THEN 0 ELSE Latest(c).visits]
    /\ failures = 0

\* A request arrives.  after remembers the requests already answered.
Begin(k) ==
    /\ req[k].pc = "new"
    /\ \E op \in Ops, c \in Codes, u \in Callers :
         req' = [req EXCEPT ![k] =
             [@ EXCEPT !.op = op, !.code = c, !.by = u, !.since = Len(log[c]),
                       !.after = {j \in Requests : req[j].pc = "done"},
                       !.left = IF op = "shorten_random" THEN Attempts ELSE 1,
                       !.pc = CASE op \in {"shorten", "shorten_random"} -> "create"
                                [] op = "delete" -> "delete"
                                [] OTHER -> "get"]]
    /\ UNCHANGED <<log, ptr, now, visited, failures>>

-------------------------------------------------------------------------------
(* The service: one read, a decision, one write                            *)

\* Destinations and expiry times a caller may ask for.
Expiries == {Never, now + 1}

PatchedBy(op, r) ==
    IF op = "update_as"
    THEN [owner : {r.owner}, dest : Dests, expires : Expiries \cup {r.expires},
          disabled : {r.disabled}, visits : {r.visits}]
    ELSE {[r EXCEPT !.disabled = (op = "disable_as")]}

\* Mutant of GetToResolve: the disabled flag is not looked at.
GetIgnoresDisabled(k) ==
    LET r == Latest(req[k].code) IN
    /\ req[k].pc = "get" /\ req[k].op = "resolve"
    /\ \/ r = Absent /\ Finish(k, "not_found")
       \/ r # Absent /\ Expired(r) /\ Goto(k, "delete")
       \/ r # Absent /\ ~Expired(r) /\ req' = [req EXCEPT ![k].pc = "incr", ![k].saw = r]
    /\ UNCHANGED <<log, ptr, now, visited, failures>>

\* Mutant of GetToResolve: any link with an end is cleaned up.
GetCleansTemporary(k) ==
    LET r == Latest(req[k].code) IN
    /\ req[k].pc = "get" /\ req[k].op = "resolve"
    /\ \/ r = Absent /\ Finish(k, "not_found")
       \/ r # Absent /\ r.expires # Never /\ Goto(k, "delete")
       \/ /\ r # Absent /\ r.expires = Never /\ ~r.disabled
          /\ req' = [req EXCEPT ![k].pc = "incr", ![k].saw = r]
    /\ UNCHANGED <<log, ptr, now, visited, failures>>

\* The store.Get of Resolve and what it leads to.
GetToResolve(k) ==
    LET r == Latest(req[k].code) IN
    /\ req[k].pc = "get" /\ req[k].op = "resolve"
    /\ \/ r = Absent /\ Finish(k, "not_found")
       \/ r # Absent /\ Expired(r) /\ Goto(k, "delete")
       \/ r # Absent /\ ~Expired(r) /\ r.disabled /\ Finish(k, "not_found")
       \/ /\ r # Absent /\ ~Expired(r) /\ ~r.disabled
          /\ req' = [req EXCEPT ![k].pc = "incr", ![k].saw = r]
    /\ UNCHANGED <<log, ptr, now, visited, failures>>

\* The store.Get of DeleteAs, UpdateAs and SetDisabledAs, and the owner check.
GetToManage(k) ==
    LET r == Latest(req[k].code) IN
    /\ req[k].pc = "get" /\ req[k].op # "resolve"
    /\ \/ r = Absent /\ Finish(k, "not_found")
       \/ r # Absent /\ ~MayManage(r, req[k].by) /\ Finish(k, "denied")
       \/ /\ r # Absent /\ MayManage(r, req[k].by) /\ req[k].op = "delete_as"
          /\ Goto(k, "delete")
       \/ /\ r # Absent /\ MayManage(r, req[k].by) /\ req[k].op # "delete_as"
          /\ \E patched \in PatchedBy(req[k].op, r) :
               req' = [req EXCEPT ![k].pc = "update", ![k].put = patched]
    /\ UNCHANGED <<log, ptr, now, visited, failures>>

\* Mutant of HasPointer: links with an end get none.
LastingHasPointer(r) == r # Absent /\ r.owner # NoOwner /\ r.expires = Never

\* Links with an owner have a pointer object.
HasPointer(r) == r # Absent /\ r.owner # NoOwner

\* A new link, as a caller may ask for it.
NewLinks(u) == [owner : {u}, dest : Dests, expires : Expiries,
                disabled : {FALSE}, visits : {0}]

Created(k, link) ==
    /\ WriteObject(req[k].code, link)
    /\ IF Backend = "s3" /\ HasPointer(link) THEN Goto(k, "point") ELSE Finish(k, "ok")

\* Mutant of Create: the Put is unconditional.
CreateOverwrites(k) ==
    /\ req[k].pc = "create"
    /\ \E link \in NewLinks(req[k].by) : Created(k, link)
    /\ UNCHANGED <<ptr, now, visited, failures>>

\* store.Create: the write is conditional in both stores.  A code that is
\* taken answers a custom code; a random one is drawn again.
Create(k) ==
    LET c == req[k].code IN
    /\ req[k].pc = "create"
    /\ \/ Latest(c) = Absent /\ \E link \in NewLinks(req[k].by) : Created(k, link)
       \/ /\ Latest(c) # Absent /\ req[k].left > 1
          /\ \E d \in Codes :
               req' = [req EXCEPT ![k].code = d, ![k].left = @ - 1, ![k].since = Len(log[d])]
          /\ UNCHANGED log
       \/ /\ Latest(c) # Absent /\ req[k].left = 1
          /\ Finish(k, IF req[k].op = "shorten" THEN "conflict" ELSE "error")
          /\ UNCHANGED log
    /\ UNCHANGED <<ptr, now, visited, failures>>

-------------------------------------------------------------------------------
(* The memory store                                                        *)

MemoryDelete(k) ==
    LET c == req[k].code IN
    /\ Backend = "memory" /\ req[k].pc = "delete"
    /\ \/ Latest(c) = Absent /\ Deleted(k, "not_found") /\ UNCHANGED log
       \/ Latest(c) # Absent /\ Deleted(k, "ok") /\ WriteObject(c, Absent)
    /\ UNCHANGED <<ptr, now, visited, failures>>

\* Mutant of MemoryUpdate: it stores the record whether or not there is one.
MemoryUpsert(k) ==
    /\ Backend = "memory" /\ req[k].pc = "update"
    /\ Finish(k, "ok") /\ WriteObject(req[k].code, req[k].put)
    /\ UNCHANGED <<ptr, now, visited, failures>>

MemoryUpdate(k) ==
    LET c == req[k].code IN
    /\ Backend = "memory" /\ req[k].pc = "update"
    /\ \/ Latest(c) = Absent /\ Finish(k, "not_found") /\ UNCHANGED log
       \/ Latest(c) # Absent /\ Finish(k, "ok") /\ WriteObject(c, req[k].put)
    /\ UNCHANGED <<ptr, now, visited, failures>>

MemoryIncrVisit(k) ==
    LET c == req[k].code
        counted == [Latest(c) EXCEPT !.visits = @ + 1]
    IN
    /\ Backend = "memory" /\ req[k].pc = "incr"
    /\ \/ Latest(c) = Absent /\ Redirect(k, req[k].saw) /\ UNCHANGED <<log, visited>>
       \/ /\ Latest(c) # Absent
          /\ WriteObject(c, counted) /\ Redirect(k, counted)
          /\ visited' = [visited EXCEPT ![c] = @ + 1]
    /\ UNCHANGED <<ptr, now, failures>>

-------------------------------------------------------------------------------
(* The S3 store                                                            *)

\* The pointer of a new link.
Point(k) ==
    /\ req[k].pc = "point"
    /\ ptr' = ptr \cup {<<req[k].by, req[k].code>>}
    /\ Finish(k, "ok")
    /\ UNCHANGED <<log, now, visited, failures>>

\* HEAD, the first request of Update and of Delete.
HeadObject(k) ==
    /\ Backend = "s3" /\ req[k].pc \in {"update", "delete"}
    /\ IF Latest(req[k].code) = Absent THEN Deleted(k, "not_found")
       ELSE Goto(k, IF req[k].pc = "update" THEN "put" ELSE "find_owner")
    /\ UNCHANGED <<log, ptr, now, visited, failures>>

PutUpdate(k) ==
    /\ req[k].pc = "put"
    /\ WriteObject(req[k].code, req[k].put)
    /\ Finish(k, "ok")
    /\ UNCHANGED <<ptr, now, visited, failures>>

\* Delete reads the link once more, for the owner whose pointer must go.
FindOwner(k) ==
    /\ req[k].pc = "find_owner"
    /\ req' = [req EXCEPT ![k].pc = "remove", ![k].put = Latest(req[k].code)]
    /\ UNCHANGED <<log, ptr, now, visited, failures>>

\* DeleteObject succeeds on a missing object too.
Remove(k) ==
    LET c == req[k].code IN
    /\ req[k].pc = "remove"
    /\ IF Latest(c) = Absent THEN UNCHANGED log ELSE WriteObject(c, Absent)
    /\ IF HasPointer(req[k].put) THEN Goto(k, "unpoint") ELSE Deleted(k, "ok")
    /\ UNCHANGED <<ptr, now, visited, failures>>

Unpoint(k) ==
    /\ req[k].pc = "unpoint"
    /\ ptr' = ptr \ {<<req[k].put.owner, req[k].code>>}
    /\ Deleted(k, "ok")
    /\ UNCHANGED <<log, now, visited, failures>>

\* Mutant of ReadVisit: the visit is counted by the service and by the store.
ReadVisitTwice(k) ==
    LET r == Latest(req[k].code) IN
    /\ Backend = "s3" /\ req[k].pc = "incr"
    /\ \/ r = Absent /\ Redirect(k, req[k].saw) /\ UNCHANGED visited
       \/ /\ r # Absent
          /\ req' = [req EXCEPT ![k].pc = "incr_put",
                                ![k].put = [r EXCEPT !.visits = @ + 2]]
          /\ visited' = [visited EXCEPT ![req[k].code] = @ + 1]
    /\ UNCHANGED <<log, ptr, now, failures>>

\* IncrVisit reads the link again and puts it back with one more visit.
ReadVisit(k) ==
    LET r == Latest(req[k].code) IN
    /\ Backend = "s3" /\ req[k].pc = "incr"
    /\ \/ r = Absent /\ Redirect(k, req[k].saw) /\ UNCHANGED visited
       \/ /\ r # Absent
          /\ req' = [req EXCEPT ![k].pc = "incr_put",
                                ![k].put = [r EXCEPT !.visits = @ + 1]]
          /\ visited' = [visited EXCEPT ![req[k].code] = @ + 1]
    /\ UNCHANGED <<log, ptr, now, failures>>

PutVisit(k) ==
    /\ req[k].pc = "incr_put"
    /\ WriteObject(req[k].code, req[k].put)
    /\ Redirect(k, req[k].put)
    /\ UNCHANGED <<ptr, now, visited, failures>>

\* A write whose request failed took effect or did not.
Interrupted(k) ==
    \/ UNCHANGED <<log, ptr>>
    \/ req[k].pc \in {"put", "incr_put"} /\ WriteObject(req[k].code, req[k].put)
       /\ UNCHANGED ptr
    \/ /\ req[k].pc = "create" /\ Latest(req[k].code) = Absent
       /\ \E link \in NewLinks(req[k].by) : WriteObject(req[k].code, link)
       /\ UNCHANGED ptr
    \/ /\ req[k].pc = "remove" /\ Latest(req[k].code) # Absent
       /\ WriteObject(req[k].code, Absent)
       /\ UNCHANGED ptr

\* An S3 request fails.  Pointer requests and the read for the owner are best
\* effort, a failing IncrVisit does not fail the Resolve, and Resolve ignores
\* the outcome of its Delete.
Fail(k) ==
    /\ Backend = "s3" /\ req[k].pc \notin {"new", "done"}
    /\ failures < MaxFailures
    /\ failures' = failures + 1
    /\ Interrupted(k)
    /\ \/ req[k].pc = "find_owner" /\ req' = [req EXCEPT ![k].pc = "remove", ![k].put = Absent]
       \/ req[k].pc \in {"point", "unpoint"} /\ Deleted(k, "ok")
       \/ req[k].pc \in {"incr", "incr_put"} /\ Redirect(k, req[k].saw)
       \/ req[k].pc = "get" /\ Finish(k, "error")
       \/ req[k].pc \in {"create", "update", "put", "delete", "remove"} /\ Deleted(k, "error")
    /\ UNCHANGED <<now, visited>>

\* The reply of a write is lost and the S3 client, which retries, will send it again;
\* Create may then find its own link.
Resend(k) ==
    /\ Backend = "s3" /\ failures < MaxFailures
    /\ failures' = failures + 1
    /\ Interrupted(k) /\ log' # log
    /\ UNCHANGED <<req, now, visited>>

-------------------------------------------------------------------------------
Tick ==
    /\ now < MaxNow
    /\ now' = now + 1
    /\ UNCHANGED <<log, ptr, req, visited, failures>>

RequestStep(k) ==
    \/ Begin(k) \/ GetToResolve(k) \/ GetToManage(k) \/ Create(k)
    \/ MemoryDelete(k) \/ MemoryUpdate(k) \/ MemoryIncrVisit(k)
    \/ Point(k) \/ HeadObject(k) \/ PutUpdate(k) \/ FindOwner(k) \/ Remove(k)
    \/ Unpoint(k) \/ ReadVisit(k) \/ PutVisit(k) \/ Fail(k)
    \/ Resend(k)

Next == Tick \/ \E k \in Requests : RequestStep(k)

Spec == Init /\ [][Next]_vars

-------------------------------------------------------------------------------
(* Properties                                                              *)

RequestStates ==
    [op : AllOps, code : Codes, by : Callers,
     pc : {"new", "get", "create", "point", "update", "put", "delete",
           "find_owner", "remove", "unpoint", "incr", "incr_put", "done"},
     saw : Values, put : Values, left : 0 .. Attempts, since : Nat,
     after : SUBSET Requests,
     answer : {"none", "ok", "found", "not_found", "denied", "conflict", "error"}]

\* Type correctness.
TypeOK ==
    /\ log \in [Codes -> Seq(Values)]
    /\ \A c \in Codes : Len(log[c]) >= 1
    /\ ptr \subseteq Users \X Codes
    /\ req \in [Requests -> RequestStates]
    /\ now \in 0 .. MaxNow
    /\ visited \in [Codes -> Nat]
    /\ failures \in 0 .. MaxFailures

Managing == {"update_as", "disable_as", "enable_as", "delete_as"}
Shortening == {"shorten", "shorten_random"}
Answered(k, a) == req[k].pc = "done" /\ req[k].answer = a

\* The request has, or may have, removed its link object.
MayHaveRemoved(k) ==
    /\ req[k].op \in {"resolve", "delete_as", "delete"}
    /\ req[k].pc \in {"unpoint", "done"} \/ (req[k].pc = "remove" /\ failures > 0)

\* A code is given out once: a client is told that it created a link where there
\* was none, and no other client is told the same of that code, unless the link
\* in between was removed.
CodesAreUnique ==
    \A j \in Requests : req[j].op \in Shortening /\ Answered(j, "ok") =>
        \/ /\ log[req[j].code][1] = Absent
           /\ \A k \in Requests \ {j} :
                req[k].op \in Shortening /\ Answered(k, "ok") => req[k].code # req[j].code
        \/ \E k \in Requests : MayHaveRemoved(k) /\ req[k].code = req[j].code

\* A visit counter never exceeds the visits: lost and stale writes undercount.
VisitsNeverOvercounted ==
    \A c \in Codes : Latest(c) # Absent => Latest(c).visits <= visited[c]

\* r entitles k to what it is about to do: the clean-up of a resolution needs an
\* expired link, everything else one that the caller may manage.
Permits(k, r) ==
    /\ r # Absent
    /\ IF req[k].op = "resolve" THEN Expired(r) ELSE MayManage(r, req[k].by)

\* The link did so at some moment of the request.
Authorised(k) ==
    \E i \in req[k].since .. Len(log[req[k].code]) : Permits(k, log[req[k].code][i])

\* Whoever is told that an edit or a deletion was done could manage the link at
\* some moment of the request.
EditsWereAuthorised ==
    \A k \in Requests : req[k].op \in Managing /\ Answered(k, "ok") => Authorised(k)

\* The object of k's code goes away in this step, and it is k's doing.
RemovedBy(k) ==
    /\ req[k].pc \in {"delete", "remove"} /\ (req'[k] # req[k] \/ UNCHANGED req)
    /\ Latest(req[k].code) # Absent /\ Latest(req[k].code)' = Absent

\* DeleteAs removes an object only after the caller could manage the link, the
\* clean-up of Resolve only after the link had expired, both during the request.
\* The object that goes may be a later one: both delete by code.
RemovalsWereJustified ==
    [][\A k \in Requests :
         req[k].op \in {"delete_as", "resolve"} /\ RemovedBy(k) => Authorised(k)]_vars

\* A link that is never removed has one owner, although every write puts back a whole
\* record read some time before.
OwnersStay ==
    \A c \in Codes : (\A i \in 2 .. Len(log[c]) : log[c][i] # Absent) =>
        \A i, j \in 1 .. Len(log[c]) :
            log[c][i] # Absent /\ log[c][j] # Absent => log[c][i].owner = log[c][j].owner

\* Edits, deletions and clean-ups: who is told of success was entitled to it, so was
\* whoever made an object go, and nobody takes over a link but by its removal.
OnlyTheEntitledChange == []EditsWereAuthorised /\ RemovalsWereJustified /\ []OwnersStay

NoneBegan(ops, c) ==
    \A k \in Requests : req[k].op \in ops /\ req[k].code = c => req[k].pc = "new"

\* docs/api/urls.md:162: "Disabled links resolve as `404`": once disabling has
\* been acknowledged, no request that arrives later resolves the link, if nobody
\* enables or recreates it and no other edit was under way, which would write
\* back the whole record.
DisabledLinksResolve404 ==
    \A j, k \in Requests :
        /\ req[j].op = "disable_as" /\ Answered(j, "ok")
        /\ req[k].op = "resolve" /\ req[k].code = req[j].code
        /\ j \in req[k].after
        /\ NoneBegan({"enable_as", "shorten", "shorten_random"}, req[j].code)
        /\ \A e \in Requests :
             req[e].op = "update_as" /\ req[e].code = req[j].code => j \in req[e].after
        => ~Answered(k, "found")

\* docs/api/urls.md:232: DELETE is to "Remove a short link": once it has been
\* acknowledged and nobody creates the code again, there is no such link.
DeletedLinksStayDeleted ==
    \A k \in Requests :
        /\ req[k].op \in {"delete_as", "delete"} /\ Answered(k, "ok")
        /\ NoneBegan(Shortening, req[k].code)
        => Latest(req[k].code) = Absent

\* Store.ListByOwner of the S3 store.
ListByOwner(u) ==
    {c \in Codes : <<u, c>> \in ptr /\ Latest(c) # Absent /\ Latest(c).owner = u}

Overlapped(j, k) == j \notin req[k].after /\ k \notin req[j].after

\* store.go:39: "ListByOwner returns records whose OwnerID matches ownerID": a user's
\* list has all their links, if no request failed and none overlapped another.
OwnedLinksListed ==
    /\ failures = 0
    /\ \A k \in Requests : req[k].pc \in {"new", "done"}
    /\ \A j, k \in Requests :
         j # k /\ req[j].pc = "done" /\ req[k].pc = "done" => ~Overlapped(j, k)
    => \A c \in Codes, u \in Users :
         Latest(c) # Absent /\ Latest(c).owner = u => c \in ListByOwner(u)
===============================================================================
