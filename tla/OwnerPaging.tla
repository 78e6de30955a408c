------------------------------ MODULE OwnerPaging ------------------------------
(***************************************************************************)
(* A client lists the links of one user (GET /urls: internal/relations/    *)
(* paging.go, internal/url/pagination.go), page by page or all at once,    *)
(* while links are created, edited, deleted and reused and their index     *)
(* rows follow when they may.  Pages come from the owner index, which      *)
(* yields candidates, from the pointers of the S3 store, all of which are  *)
(* read for every page, or from the memory store.  Instances may be        *)
(* restarted with another read source.                                     *)
(*                                                                         *)
(* Objects and rows change as Projection says: OwnerIndex implements it.   *)
(* Pointers come after their object, if at all, and may go while it stays: *)
(* LinkService says when they are right.                                   *)
(***************************************************************************)
EXTENDS Integers, Sequences, FiniteSets, FiniteSetsExt, SequencesExt

CONSTANTS
    NCodes,        \* link codes are 1 .. NCodes, in the order of their names
    Owners,
    User,          \* the user whose links are listed
    NoOwner,       \* the owner of an anonymous link
    Absent,
    Stranger,      \* a user whose tokens the client may have
    ReadSources,   \* where instances list from: "index", "s3", "memory"
    LinkSpace,     \* the name of the index's relations, and of its tokens
    Size,          \* PageOptions.Size
    BatchMax,      \* candidates in one query of the index; 100 in the code
    Budget,        \* candidates scanned for one page; max(500, 10 * Size)
    Times,         \* creation times
    InitLinks,     \* links at the beginning, by code
    InitRows,      \* rows at the beginning
    InitPointers,  \* codes with a pointer at the beginning
    MaxChanges, MaxFailures   \* bounds

Codes == 1 .. NCodes
Records == [owner : Owners, born : Nat, expired : BOOLEAN]
Values == Records \cup {Absent}

\* Rows of the index.
Refs == [owner : Owners \ {NoOwner}, born : Nat]

\* What the index keeps of an object: expired links stay in it.
RefOf(v) == IF v = Absent THEN Absent
            ELSE IF v.owner = NoOwner THEN Absent
            ELSE [owner |-> v.owner, born |-> v.born]

ASSUME PagingAssumption ==
    /\ NCodes \in Nat
    /\ {User, NoOwner} \subseteq Owners /\ User # NoOwner /\ Absent \notin Records \cup Refs
    /\ Stranger # User
    /\ ReadSources \subseteq {"index", "s3", "memory"}
    /\ Size \in 1 .. 500 /\ BatchMax \in Nat \ {0}
    /\ Budget \in Nat /\ Budget > Size
    /\ Times \subseteq Nat /\ InitLinks \subseteq [Codes -> Values]
    /\ InitRows \subseteq Refs \cup {Absent}
    /\ MaxChanges \in Nat /\ MaxFailures \in Nat

ASSUME PointersAssumption == InitPointers \subseteq SUBSET Codes

\* The name is required; "legacy" is not refused, but is that of the other sources'
\* tokens.
ASSUME LinkSpaceAssumption == LinkSpace \notin {"", "legacy"}

VARIABLES
    log, row, seen,    \* objects and rows: see Projection
    ptr,               \* codes with a pointer of the user's in S3
    all,               \* the client asks for the whole list, without pages
    source,            \* where the instance that serves the client lists from
    token,             \* the client's next page token
    step,              \* of the request for the next page
    after,             \* position of the last candidate consumed
    refs,              \* the candidates of the query: positions
    recs,              \* what was read for them
    page,              \* links on the page so far
    scanned,           \* candidates consumed for the page
    got,               \* links the client has been given
    steady,            \* history: codes listed properly ever since the listing began
    changes, failures

link_vars == <<log, row, seen, ptr>>
request_vars == <<step, after, refs, recs, page, scanned>>
client_vars == <<all, source, token>>
vars == <<link_vars, client_vars, request_vars, got, steady, changes, failures>>

Index == INSTANCE Projection

-------------------------------------------------------------------------------
(* Positions                                                               *)

\* Links are ordered by creation time and code, newest first.
Position(born, c) == [born |-> born, code |-> c]
Precedes(p, q) == p.born > q.born \/ (p.born = q.born /\ p.code > q.code)

\* The cursor before the first page.
Start == [born |-> -1, code |-> 0]

\* Mutant of Follows: the position of the cursor is included.
FollowsOrIs(p, cursor) == cursor = Start \/ p = cursor \/ Precedes(cursor, p)

Follows(p, cursor) == cursor = Start \/ Precedes(cursor, p)

\* The n foremost of a set of positions.
Foremost(n, S) == {p \in S : Cardinality({q \in S : Precedes(q, p)}) < n}
Hindmost(S) == CHOOSE p \in S : \A q \in S : q = p \/ Precedes(q, p)

\* A set of positions in their order.
Ordered(S) == [i \in 1 .. Cardinality(S) |-> Hindmost(Foremost(i, S))]

Latest(c) == log[c][Len(log[c])]

\* Mutant of Live: the index is trusted for the owner.
LiveOfAnyone(v) == v # Absent /\ ~v.expired

Live(v) == v # Absent /\ v.owner = User /\ ~v.expired

\* Tokens are bound to a source and an owner.
Space == IF source = "index" THEN LinkSpace ELSE "legacy"
NoToken == [space |-> "", owner |-> User, after |-> Start]
EncodeOwnerCursor(p) == [space |-> Space, owner |-> User, after |-> p]

\* Mutant of Accepted: a token of any source is taken.
AcceptedAnywhere(t) == t = NoToken \/ t.owner = User

\* DecodeOwnerCursor takes the token for what it was made for.
Accepted(t) == t = NoToken \/ (t.space = Space /\ t.owner = User)

MaxOwnerPageSize == 500
Validate(size) == size \in 0 .. MaxOwnerPageSize

\* A list that starts now has the link of c.
Listable(c) ==
    /\ Live(Latest(c))
    /\ source = "index" => row[c] = RefOf(Latest(c))
    /\ source = "s3" => c \in ptr

\* No candidate has been read.
NothingRead == [c \in {} |-> Absent]

Init ==
    /\ \E links \in InitLinks : log = [c \in Codes |-> <<links[c]>>]
    /\ row \in [Codes -> InitRows] /\ seen = [c \in Codes |-> 0]
    /\ ptr \in InitPointers
    /\ all \in BOOLEAN /\ source \in ReadSources
    /\ token = NoToken /\ after = Start
    /\ step = "ask" /\ refs = {} /\ recs = NothingRead
    /\ page = <<>> /\ scanned = 0 /\ got = <<>>
    /\ steady = {c \in Codes : Listable(c)}
    /\ changes = 0 /\ failures = 0

-------------------------------------------------------------------------------
(* Links and their rows                                                    *)

\* Creation, at any time as clocks may disagree; deletion; the end of a link and
\* its renewal; and a record of old put back by a stale writer.
NextValues(c) ==
    IF Latest(c) = Absent
    THEN [owner : Owners, born : Times, expired : {FALSE}]
    ELSE {Absent, [Latest(c) EXCEPT !.expired = ~@]} \cup {log[c][i] : i \in 1 .. Len(log[c])}

\* Links that were listed properly so far and still are, at the same position.
StaySteady ==
    steady' = {c \in steady : Listable(c)' /\ Latest(c)'.born = Latest(c).born}

Write(c) ==
    /\ changes < MaxChanges
    /\ changes' = changes + 1
    /\ \E v \in NextValues(c) : log' = [log EXCEPT ![c] = Append(@, v)]
    /\ UNCHANGED <<row, seen, ptr, client_vars, request_vars, got, failures>>
    /\ StaySteady

\* The pointer of a link of the user is written after its object, or not at all.
Point(c) ==
    /\ source # "memory" /\ changes < MaxChanges
    /\ \E i \in 1 .. Len(log[c]) : log[c][i] # Absent /\ log[c][i].owner = User
    /\ ptr' = ptr \cup {c} /\ changes' = changes + 1
    /\ UNCHANGED <<log, row, seen, client_vars, request_vars, got, failures>>
    /\ StaySteady

\* A deletion removes the pointer after its object, though a new link may be there.
Unpoint(c) ==
    /\ c \in ptr /\ source # "memory" /\ changes < MaxChanges
    /\ ptr' = ptr \ {c} /\ changes' = changes + 1
    /\ UNCHANGED <<log, row, seen, client_vars, request_vars, got, failures>>
    /\ StaySteady

\* Some refresh of the owner index, whatever scheduled it.
Refresh(c) ==
    /\ Index!Recompute(c)
    /\ UNCHANGED <<ptr, client_vars, request_vars, got, changes, failures>>
    /\ StaySteady

-------------------------------------------------------------------------------
(* Requests                                                                *)

\* An instance was restarted with the other read source: it serves the client's
\* next request.  The memory store dies with its instance.
SwitchSource ==
    /\ step = "ask" /\ changes < MaxChanges /\ source # "memory"
    /\ source' \in ReadSources \ {source, "memory"}
    /\ changes' = changes + 1
    /\ UNCHANGED <<link_vars, all, token, request_vars, got, failures>>
    /\ StaySteady

\* A client has its own token, and perhaps those of a stranger.
Presented == {token} \cup (IF all THEN {} ELSE
                 {[EncodeOwnerCursor(Position(born, c)) EXCEPT !.owner = Stranger] :
                     born \in Times, c \in Codes})

\* The client asks for the next page, or for all links; a list begins without a
\* token.
Ask ==
    /\ step = "ask"
    /\ \E t \in Presented :
         /\ Accepted(t)
         /\ step' = "query" /\ after' = t.after
         /\ steady' = IF t = NoToken THEN {c \in Codes : Listable(c)} ELSE steady
    /\ UNCHANGED <<link_vars, client_vars, refs, recs, page, scanned, got, changes, failures>>

\* 400: the client's token is of another source, and it starts again; the size of
\* the page is impossible or the token a stranger's, and nothing has happened.
AskRefused ==
    /\ step = "ask"
    /\ \E t \in Presented, size \in {Size, MaxOwnerPageSize + 1} :
         /\ ~Validate(size) \/ ~Accepted(t)
         /\ IF t = token /\ Validate(size) THEN token' = NoToken /\ got' = <<>>
            ELSE UNCHANGED <<token, got>>
    /\ UNCHANGED <<link_vars, all, source, request_vars, steady, changes, failures>>

-------------------------------------------------------------------------------
(* ListByOwnerPage over the index                                          *)

Limit == Min({BatchMax, Size + 1, Budget - scanned})

Candidates == {Position(row[c].born, c) : c \in {d \in Codes : row[d] # Absent /\ row[d].owner = User}}

\* A page is complete; another follows unless next is Start: when the client asks for
\* it, or at once if it asked for all.
Answer(links, next) ==
    /\ got' = got \o links
    /\ step' = IF next = Start THEN "done" ELSE IF all THEN "query" ELSE "ask"
    /\ token' = IF next = Start THEN NoToken ELSE EncodeOwnerCursor(next)
    /\ after' = IF all THEN next ELSE Start
    /\ refs' = {} /\ recs' = NothingRead /\ page' = <<>> /\ scanned' = 0
    /\ UNCHANGED <<link_vars, all, source, steady, changes, failures>>

Query ==
    /\ source = "index" /\ step = "query"
    /\ LET found == Foremost(Limit, {p \in Candidates : Follows(p, after)}) IN
       IF found = {} THEN Answer(page, Start)
       ELSE /\ refs' = found /\ step' = "hydrate"
            /\ UNCHANGED <<link_vars, client_vars, after, recs, page, scanned, got,
                           steady, changes, failures>>

\* The objects of the candidates are read one by one, in any order.
Get(p) ==
    /\ step = "hydrate" /\ p \in refs /\ p.code \notin DOMAIN recs
    /\ recs' = [c \in DOMAIN recs \cup {p.code} |-> IF c = p.code THEN Latest(c) ELSE recs[c]]
    /\ UNCHANGED <<link_vars, client_vars, step, after, refs, page, scanned, got,
                   steady, changes, failures>>

Hydrated == step = "hydrate" /\ DOMAIN recs = {p.code : p \in refs}

LiveRefs == {p \in refs : Live(recs[p.code])}
Entries(S) == [i \in 1 .. Cardinality(S) |->
                  [at |-> Ordered(S)[i], link |-> recs[Ordered(S)[i].code],
                   source |-> source]]

\* Live candidates for which the page has room, the first one for which it has
\* none, and all those before it.
Taken == Foremost(Size - Len(page), LiveRefs)
Lookahead == Foremost(Size - Len(page) + 1, LiveRefs) \ Taken
Consumed == {p \in refs : \A q \in Lookahead : Precedes(p, q)}

\* Mutant of Cursor: only links that are taken move the cursor.
CursorOfTaken == IF Taken = {} THEN after ELSE Hindmost(Taken)

Cursor == IF Consumed = {} THEN after ELSE Hindmost(Consumed)

\* Mutant of Hydrate: the lookahead is consumed.
HydratePastLookahead ==
    /\ source = "index" /\ Hydrated
    /\ IF Lookahead # {} THEN Answer(page \o Entries(Taken), Hindmost(Lookahead))
       ELSE IF Cardinality(refs) < Limit THEN Answer(page \o Entries(Taken), Start)
       ELSE IF scanned + Cardinality(refs) < Budget
       THEN /\ page' = page \o Entries(Taken)
            /\ after' = Cursor /\ scanned' = scanned + Cardinality(refs)
            /\ step' = "query" /\ refs' = {} /\ recs' = NothingRead
            /\ UNCHANGED <<link_vars, client_vars, got, steady, changes, failures>>
       ELSE Answer(page \o Entries(Taken), Cursor)

\* A full page ends before its lookahead, a short batch ends the list, and a
\* spent budget ends the page wherever it is.
Hydrate ==
    /\ source = "index" /\ Hydrated
    /\ IF Lookahead # {} THEN Answer(page \o Entries(Taken), Cursor)
       ELSE IF Cardinality(refs) < Limit THEN Answer(page \o Entries(Taken), Start)
       ELSE IF scanned + Cardinality(refs) < Budget
       THEN /\ page' = page \o Entries(Taken)
            /\ after' = Cursor /\ scanned' = scanned + Cardinality(refs)
            /\ step' = "query" /\ refs' = {} /\ recs' = NothingRead
            /\ UNCHANGED <<link_vars, client_vars, got, steady, changes, failures>>
       ELSE Answer(page \o Entries(Taken), Cursor)

-------------------------------------------------------------------------------
(* PageOwnedRecords over the pointers of S3                                *)

\* A pointer may outlive its link; the order of pointers plays no part.
QueryPointers ==
    /\ source = "s3" /\ step = "query"
    /\ refs' = {Position(0, c) : c \in ptr}
    /\ step' = "hydrate"
    /\ UNCHANGED <<link_vars, client_vars, after, recs, page, scanned, got,
                   steady, changes, failures>>

\* The live links behind the cursor, at their positions.
Owned == {Position(recs[c].born, c) : c \in {d \in DOMAIN recs :
             Live(recs[d]) /\ Follows(Position(recs[d].born, d), after)}}

PagePointers ==
    /\ source # "index" /\ Hydrated /\ ~all
    /\ LET owned == Foremost(Size, Owned)
       IN  Answer(Entries(owned), IF owned = Owned THEN Start ELSE Hindmost(owned))

\* The whole list is not sorted: pointers come in the order of their names, the
\* records of the memory store in any.
AllPointers ==
    /\ source # "index" /\ Hydrated /\ all
    /\ \E codes \in SetToSeqs({p.code : p \in Owned}) :
         /\ source = "s3" => \A i, j \in DOMAIN codes : i < j => codes[i] < codes[j]
         /\ Answer([i \in DOMAIN codes |-> [at |-> Position(recs[codes[i]].born, codes[i]),
                                           link |-> recs[codes[i]], source |-> source]], Start)

\* The memory store reads all records at once, under its lock.
QueryMemory ==
    /\ source = "memory" /\ step = "query"
    /\ LET found == {c \in Codes : Latest(c) # Absent /\ Latest(c).owner = User} IN
       /\ refs' = {Position(0, c) : c \in found}
       /\ recs' = [c \in found |-> Latest(c)]
    /\ step' = "hydrate"
    /\ UNCHANGED <<link_vars, client_vars, after, page, scanned, got, steady, changes, failures>>

-------------------------------------------------------------------------------
\* The index cannot be queried or an object cannot be read: the request fails,
\* the client keeps its token and asks again, in the end for the whole list.
FailPage ==
    /\ step \in {"query", "hydrate"} /\ failures < MaxFailures
    /\ failures' = failures + 1
    /\ step' = "ask" /\ after' = Start
    /\ IF all THEN token' = NoToken /\ got' = <<>> ELSE UNCHANGED <<token, got>>
    /\ refs' = {} /\ recs' = NothingRead /\ page' = <<>> /\ scanned' = 0
    /\ UNCHANGED <<link_vars, all, source, steady, changes>>

Listing == \/ Ask \/ AskRefused \/ Query \/ Hydrate
           \/ QueryPointers \/ QueryMemory \/ PagePointers \/ AllPointers
           \/ \E p \in refs : Get(p)

Next == Listing \/ FailPage \/ SwitchSource \/ \E c \in Codes : Write(c) \/ Refresh(c) \/ Point(c) \/ Unpoint(c)

Spec == Init /\ [][Next]_vars

-------------------------------------------------------------------------------
(* Properties                                                              *)

Positions == [born : Nat, code : Codes]
Listed == [at : Positions, link : Records, source : ReadSources]
Tokens == [space : {LinkSpace, "legacy"}, owner : {User}, after : Positions] \cup {NoToken}

\* Type correctness; a page has at most Size links.
TypeOK ==
    /\ log \in [Codes -> Seq(Values)] /\ \A c \in Codes : Len(log[c]) >= 1
    /\ row \in [Codes -> Refs \cup {Absent}]
    /\ seen \in [Codes -> Nat] /\ ptr \subseteq Codes
    /\ all \in BOOLEAN /\ source \in ReadSources
    /\ token \in Tokens /\ after \in Positions \cup {Start}
    /\ step \in {"ask", "query", "hydrate", "done"}
    /\ refs \subseteq Positions
    /\ DOMAIN recs \subseteq Codes /\ \A c \in DOMAIN recs : recs[c] \in Values
    /\ page \in Seq(Listed) /\ Len(page) <= Size
    /\ scanned \in 0 .. Budget - 1
    /\ got \in Seq(Listed)
    /\ steady \subseteq Codes
    /\ changes \in 0 .. MaxChanges /\ failures \in 0 .. MaxFailures

\* Over all pages no position comes twice, whatever happens to links and rows
\* meanwhile, and failed pages are repeated; and links come newest first, unless all
\* pointers were asked for at once.
EachPositionOnce ==
    \A i, j \in 1 .. Len(got) : i < j =>
        /\ got[i].at # got[j].at
        /\ (all /\ source # "index") \/ Precedes(got[i].at, got[j].at)

\* docs/storage.md, "Cursor tokens are read-source-specific": the pages of a list
\* come from one source, however instances are restarted in between.
OneSourcePerList ==
    \A i, j \in 1 .. Len(got) : got[i].source = got[j].source

\* store.go:39: "ListByOwner returns records whose OwnerID matches ownerID": one that is
\* there all the time, at its place in the index or with its pointer, is listed.
SteadyLinksListed ==
    step = "done" => \A c \in steady : \E i \in 1 .. Len(got) : got[i].at.code = c

\* paging.go:12: "A stale index is never an authorization": whatever the index
\* says, a listed record is one its link has had, the user's and not expired.
OnlyOwnLinks ==
    \A i \in 1 .. Len(got) :
        /\ got[i].link.owner = User /\ ~got[i].link.expired
        /\ \E j \in 1 .. Len(log[got[i].at.code]) : log[got[i].at.code][j] = got[i].link

\* Pages are no longer than asked for, and show the user's own links only.
PagesOK == TypeOK /\ OnlyOwnLinks

\* paging.go:66: "Even an entirely stale candidate page advances its cursor": a
\* page that has a successor moves the list strictly on, so that it visits the
\* finitely many positions behind its cursor at most once.
CursorAdvances ==
    [][step = "hydrate" /\ step' \in {"ask", "query"} /\ scanned' = 0 /\ failures' = failures
       => token'.after # Start /\ Follows(token'.after, token.after)]_vars
===============================================================================
