# urlo in TLA+

A verification project for urlo, a URL shortener written in Go: links live as
JSON objects in S3 (or in memory), an optional PostgreSQL index lists a user's
links, clicks go to Redis streams.

## 1. Inventory

| Component | Source | State | Operations | What is hard | What makes it correct |
|---|---|---|---|---|---|
| Link service | `internal/url/service.go` | none of its own; every request is a few calls to a `Store` | Shorten, Resolve, UpdateAs, SetDisabledAs, DeleteAs, Delete, GetStatsAs, GetStatusAs, AnalyticsAs, Availability, ListByOwner, ListClicks | check-then-act and read-modify-write over a store without transactions | an owner's link is edited and deleted by that owner only; disabled, expired and deleted links do not resolve; visits are counted |
| Memory store | `internal/url/memory.go` | a map under a mutex | the `Store` interface, each call atomic | little by itself | the `Store` contract |
| S3 store | `internal/url/s3store/s3store.go` | one object per code, one empty pointer object per (owner, code) | Create (conditional Put), Get, Update (HEAD, Put), Delete (HEAD, GET, DELETE, pointer DELETE), IncrVisit (GET, Put), ListByOwner, ScanCodes | every call is several S3 requests; only Create is conditional | creations never overwrite; counters never overcount |
| Owner index | `internal/relations/store.go`, `worker.go`, `postgres/index.go` | a bounded queue, a worker, a reconciler in each process; rows and advisory locks in PostgreSQL | schedule, Refresh, Reconcile, Start, Close | dropped notifications, several processes, delayed reads, crashes, failing passes | rows converge to the objects, never go back, never disappear because of an error; link mutations never wait for the index |
| Owner-list paging | `internal/relations/paging.go`, `internal/url/pagination.go` | a cursor held by the client | ListByOwnerPage, PageOwnedRecords, ListByOwner, tokens | lookahead, scan budget, stale candidates, links created and deleted between pages, instances with another read source | every link that stays is returned exactly once; the pages of a list come from one source; the scan makes progress |
| Click recorder | `internal/clicks/redisstream/recorder.go` | a bounded channel, a batch, a stop channel | Record, run, flush, Close, List | Record concurrent with Close, a flush slower than the ticker, failing flushes | every event is stored, dropped visibly, or pending; Close drains |
| Click enrichment | `internal/clicks/enrich.go`, `internal/http/routes.go` | none | ParseUA, FirstLang, ReferrerHost, HashIP, encoding of events | products that carry each other's names, three encodings on the way to the client | what a client reads is what some redirect of the link saw |
| Rate limiter | `internal/ratelimit/limiter.go`, `internal/http/routes.go:236-257` | a cell for each key in Redis, kept by the `redis_rate` library | Allow, the middleware | Redis may fail | nobody is refused for the requests of others |
| Sessions and sign-in | `internal/auth` | signed cookies; a JWKS cache under a read-write lock | Issue, Decode, Verify, getKey | cache refresh on an unknown key id, stale keys, concurrent sign-ins, failing fetches | a withdrawn key stops being accepted; a good token is refused for a reason |
| Link expander | `internal/expander/expander.go` | connections and the idle pool of one client | Expand, the dialer | names that resolve to something else each time, redirect loops, hop limit, reused connections | every address was checked before it is dialled; the loop ends |
| HTTP API | `internal/http/routes.go` | none | middlewares and one handler for each route | handlers that read a link several times while others change it | every answer was true at some moment of its request |
| Process assembly, configuration | `cmd/urlo`, `internal/config` | resources, a signal goroutine | init function, shutdown | failing starts with open resources, two that close at once, signals at any time | what serves is what was configured; what is open is closed, once and in order |
| Migrations, deployment | `cmd/urlo-migrate`, `scripts/deploy-kubernetes.py` | schema version, advisory lock, the Deployment | migrate, deploy | concurrent releases, Jobs that die, lost replies, edits by others | no version runs before its schema; nothing is overwritten |
| Frontend | `front/src` | state of components in the browser | list, availability, analytics loaders | answers that arrive out of order | what is shown belongs to the last request |
| Generated code | `internal/relations/ent`, `pkg/proto` | none | queries, messages | nothing | generated |

How they interact: the HTTP and gRPC layers call the link service; it calls the
store it was given, which is the owner index's `relations.Store` around the S3
store when the index is configured. `relations.Store` passes primary operations
to S3 and schedules the code afterwards; its goroutines read S3 and write
PostgreSQL. Redirects hand a click to the recorder; analytics reads it back page
by page. Requests pass the session middleware and the limiter first. The
frontend pages through the owner list with the cursors it is given. One process
assembles all this from its configuration; Kubernetes runs several and replaces
them when a release patches the Deployment, after its migration.

## 2. Modules

| Module | Models | Kind |
|---|---|---|
| `OwnerIndex` | the owner index of all processes of one link space | state machine, fairness, properties |
| `Projection` | what the owner index promises | abstract specification |
| `LinkService` | requests of the link service over the memory store or the S3 store | state machine, properties |
| `ClickRecorder` | channel, worker, flushes, Close and listing of the click recorder | state machine, fairness, properties |
| `Enrichment` | what a click event says of its request; used by `Gateway` | pure operators |
| `OwnerPaging` | a client that lists a user's links; composes `Projection` | state machine, properties |
| `Expander` | the URL expander behind `POST /expand` | state machine, fairness, properties |
| `SignIn` | Google sign-in and session cookies | state machine, properties |
| `Gateway` | the HTTP API; composes `SignIn`, `LinkService` and `Enrichment` | state machine, fairness, properties |
| `Process` | the server process, from its configuration to its end | state machine, fairness, properties |
| `Release` | the deployment script and the migration command | state machine, properties |
| `Rollout` | a Deployment in operation; composes `Process` and `Release` | state machine, fairness, properties |
| `...Proofs` | theorems about the module of that name | TLAPS proofs |
| `MC...` | instances for TLC | model checking |

A definition whose comment begins with "Mutant of X" is X as a plausible bug
would have it. It is used by no specification; putting it in the place of X makes
the property that `PROJECT.json` names for it fail, which shows that the property
depends on that part of the code.

### 2.1 OwnerIndex

`internal/relations/store.go`, `worker.go`, `postgres/index.go`.

An object is abstracted to the sequence `log[c]` of the values it has had, so
freshness is a position in that sequence; `rowVer[c]` is a history variable with
the position a row was computed from. Actions are: the mutations of
`relations.Store` (`Create`, `Update`, `Delete`, each an S3 write followed by a
separate `Notify`, because the process can die between the two), `IncrVisit`
(which bypasses the wrapper, so it notifies nobody), the repair hint of a list
(`HintStale`), the steps of `Refresh` (`TakeLock`, `ReadSource`, `RefuseSource`,
`Commit`, `FailRefresh`, `CancelRefresh`), the worker (`Dequeue`), the
reconciliation pass (`StartPass`, `ScanSource`, `ScanIndex`, `RefreshNext`,
`EndPass`, `FailScan`) and the process (`Start`, `Close`, `Exit`, `Crash`).

Abstractions: `Update` and `IncrVisit` write back any record the code has had,
because both put a record that was read some time before without a condition.
A transaction that fails is applied or not at the moment it fails. Codes are
numbers in key order. A timeout is a failure at any point.

`Projection` is the abstract specification: objects change, and now and then one
row is recomputed from a value of its object that is no older than the one it
was computed from last. `OwnerIndex` implements it with `seen <- rowVer`
(`ImplementsProjection`).

### 2.2 LinkService

`internal/url/service.go`, `memory.go`, `s3store/s3store.go`.

Each member of `Requests` is one call of a client; `req[k].pc` is the store
access, or on S3 the single S3 request, that comes next, and `saw`, `put` are the
local variables that survive from one to the next. `CONSTANT Backend` chooses
between the memory store, whose accesses are atomic (`Memory...`), and the S3
store: `HeadObject`, `PutUpdate`, `FindOwner`, `Remove`, `Unpoint`, `Point`,
`ReadVisit`, `PutVisit`. `Fail` is a failing S3 request, applied or not, with
what the code does about it: pointer requests are best effort, a failing visit
count does not fail a redirect. `Resend` is a write that took effect and lost its
reply, which the S3 client will send again. `Tick` lets links expire. `log` is as above,
`visited` counts the visits that read the link.

Abstractions: destinations and codes are model values, validation is left out, a
link ends at the next tick or never, and times other than the end are left out.
One code is enough to make requests interfere; the random code of `Shorten` may
be any code.

### 2.3 ClickRecorder

`internal/clicks/redisstream/recorder.go`, `internal/clicks/clicks.go`.

`in` is the channel, `batch` the worker's slice, `worker` the place of the worker
in `run` (`select`, a flush, the drain loop, `exited`). `Receive`, `FlushOnTick`
and `SeeStop` are the branches of the `select`; `ExecOk`, `ExecBroken` and
`ExecRefused` are the outcomes of a pipeline, and `Retransmit` is the Redis
client's own second attempt. An attempt that breaks, or runs out of time, has been
run up to some command; Redis may have received the rest, which is then in `late`
and may run at any time behind it (`ExecLate`), among the pipelines of later batches
and after the process has gone. A stream is the sequence of everything ever
appended, its positions being the ids, and the number of events trimmed; `MAXLEN
~` trims to the cap or not at all. `Listed` is a page of `List`: the ids
older than the exclusive token, newest first, with a next token if the page is
full.

Abstractions: an event is its number and its code; a listing reads the whole
stream (the time range filter is data).

`Enrichment` has what an event holds: `ParseUA` with its tables in their order,
`FirstLang`, `ReferrerHost`, `HashIP`, `EventOf` (the event of a redirect), and
the conversions on the way to the client (`Encode`, `Decode`, `clickToProto`,
`toClickEventDTO`). A user agent is the set of those words in it that the tables
look for, a header the sequence of its tags and separators, a hash is what was
hashed. The tables are the code's and no more: what `EdgA/`, `EdgiOS/`, `CriOS/` and
`FxiOS/` tell is not among their words, nor is "Android without Mobile"; such
visits count as what their other words say. `Gateway` says when events are made, and
has the properties.

### 2.4 OwnerPaging

`internal/relations/paging.go`, `internal/url/pagination.go`.

A client asks for pages until there is no token, or for the whole list at once
(`all`). With `source = "index"` a request runs the loop of `ListByOwnerPage`:
`Query` takes candidates behind the cursor, `Get` reads their objects one by one,
`Hydrate` takes the live ones, keeps the first one too many as lookahead, and
answers, queries again, or gives up at the scan budget. With `source = "s3"` a
request reads what all pointers name (`QueryPointers`) and cuts a page from it
(`PagePointers`) or returns it (`AllPointers`); with `source = "memory"` it reads everything at once
(`QueryMemory`). Tokens are bound to a source and an owner, and refused elsewhere
(`AskRefused`). Meanwhile `Write` changes links; `Point` writes the pointer of a link
that the user has or had, `Unpoint` removes one. These are steps of their own
because `s3store.go` writes a pointer after the object, best effort, and removes it
after the object, whatever is stored by then: a pointer may come late or never, may
be missing though the link is there, and may outlive it. `Listable` says what a list
that starts now can have: the user's live links, with a row that is right if the
index is read, with their pointer if S3 is read. `SwitchSource` restarts the
instance with another read source, and `Refresh` is `Projection`'s `Recompute`:
the module composes the paging with the promise of the owner index, which
`OwnerIndex` is proved to keep, in place of its queues and locks.

Abstractions: a position is a creation time and a code; all pointers are listed
at once; whether a link has expired is part of its value, and the service's
second expiry filter, which uses a later clock, is left out; clocks of the
processes may disagree, so a new link may have any creation time.
`LinkSpaceAssumption` says that nobody names the link space "legacy", which
`relations.go:35` would accept: tokens of the index would then be taken for those of
the other sources. Repair hints are in `OwnerIndex`. The budget is a constant larger than the page size, as
`max(500, 10 * size)` is.

### 2.5 Expander

`internal/expander/expander.go`, `handleExpand` in `internal/http/routes.go`.

A URL is the record of what the code looks at; a `Location` stands for the URL it
resolves to. `step` says where an expansion is: it takes an idle connection or
looks the host up (`connect`), tries the checked addresses one by one (`dial`),
or waits for the response (`wait`). Servers answer anything, the resolver answers
differently each time, every attempt may fail, and the deadline may strike at any
step. `idle` is the pool of connections that expansions share: a connection made
for an earlier expansion is used without a lookup. TLS, HTTP, user agent and
headers are left out.

### 2.6 SignIn

`internal/auth/google.go`, `session.go`, `middleware.go`.

`keys`, `expires` and `writer` are the verifier's cache and its lock. A sign-in
looks under the read lock (`Look`), takes the write lock and looks again (`Lock`),
and fetches holding it (`Fetch`, `FetchFails`); `Verify` checks signature and
claims and issues the session. Google rotates its keys whenever it likes
(`Rotate`). `jar` holds each browser's cookie, `issued` remembers the sessions.

Abstractions: a signature is who made it; a fetch takes no time although it takes
up to ten seconds; the lifetime of cached keys is a number of ticks.

### 2.7 Gateway

`internal/http/routes.go`, `internal/ratelimit/limiter.go`, and the read-only
operations of `internal/url/service.go`.

`Arrive` is one step: session middleware (`Visitor`), limiter (`Refuse`,
`Admit`), and the checks of the handler before it looks at a link (`AtOnce`). Then
the request goes on among others: as a sign-in of `SignIn`, as an operation of
`LinkService` (instantiated as `Links`, memory store), or as a read of its own
(`Availability`, `ListMine`, `Owned`, `Exists`, `NextPage`). `Reply` maps the
link service's answer to a status. What an answer shows is in `shown`: the link that
was resolved, read or written (`Content`, `ShowLink`), whether a code is free, the
codes of a list, the items of analytics, the events of a page of clicks.

A redirect hands the event of its visit (`Recorded`) to the recorder, which is seen
through what Redis has of it in the end: `Flush` adds the event to its stream, some
time after the redirect, again if a pipeline is sent again, or never, since events
may be dropped; and Redis may trim the stream to no less than its cap
(`recorder.go:210-213`). Streams therefore grow and are trimmed between any two steps
of a read. Analytics reads page by page, each behind a new look at the link, and
counts what it read (`Items`); clicks shows a page (`Listed`).

Abstractions: a link is its destination, owner, end, counter and whether it is
disabled; bodies and the other fields of the answers are left out. Each client has an
address of its own.

`config` is one of `Configs`: which endpoints clients use, whether sign-in,
recording and the limiter are configured, the cap of streams, and bounds. It lets
one run check several small situations instead of one that is too large.

### 2.8 Process, Release, Rollout

`Process` (`cmd/urlo/main.go`, `relations.go`, `internal/config/config.go`): the
init function is a step for each part, with the refusals and defaults of its
settings; `open` is what has been opened, `closer` what the deferred function
would close. A signal is noted at any time and acted on once the goroutine waits
for it (`Watch`); main and that goroutine may close at once, the first one does
it and the other waits (`CloseRelations`, `CloseRecorder`, `Exit`). `Die` is the
end of the process at any step.

`Release` (`scripts/deploy-kubernetes.py`, `cmd/urlo-migrate`): a script reads the
Deployment, creates a Job, waits, patches, and watches the rollout; every call may
fail, and those that change something may take effect and lose their reply. A Job
compares versions, takes the advisory lock, applies the missing migrations one
transaction at a time, and checks the version; it may die at any step (`FailJob`),
and then PostgreSQL may still commit what it was about to commit, with the lock
held until the session is gone (`orphan`). `Edit` is what others do to the
Deployment.

`Rollout` composes them: Kubernetes starts processes from the template the
Deployment has at that moment, and `RolledOut` is what `kubectl rollout status`
waits for. Kubernetes, PostgreSQL, goose and the framework (butterfly) are
external.

## 3. Runs

| Run | Instance | Shows |
|---|---|---|
| `owner_index_one_replica` | 2 codes, 1 process, queue 1, 2 versions, 2 failures | a complete pass repairs every row; no error removes one |
| `owner_index_replicas` | 1 code, 2 processes, 2 versions, 1 restart | the lock serializes refreshes and rows are true (`IndexInv`); the index implements `Projection` |
| `owner_index_close` | 1 code, 1 process, 3 versions, 1 failure, 1 restart, fairness | rows converge; `Close` returns |
| `owner_index_poison` | 2 codes, one of them may be invalid, fairness | violation: see section 6 |
| `link_service_s3` | 1 code, a user and an anonymous caller, 3 requests, 1 failure or lost reply, 1 tick | codes are given out once; visits are not overcounted; edits and removals were entitled and owners stay; lists are complete |
| `link_service_memory` | 1 code, 3 requests, 1 tick | disabled links stay disabled, deleted ones deleted |
| `link_service_disable` | 1 code on S3, 3 requests | violation: see section 6 |
| `click_recorder` | 2 codes, 2 clicks, channel 1, batch 2, cap 1, page 1, 1 retransmission, late pipelines, 1 client, fairness | events are settled once, in order and in the end; `Close` drains and returns; listings are complete |
| `owner_paging` | 3 links, page 1, batch 2, budget 3, 2 changes (of links, pointers or the read source), 1 failing request, three read sources | positions come once, in order and from one source; steady links are listed; cursors advance |
| `expander` | 2 expansions over one client, 10 URLs, 3 addresses, limits unset, 1 and clamped (at most 3), fairness | only public addresses are dialled; requests are bounded; answers follow the chain; expansions end |
| `gateway` | 2 users, 2 browsers, 1 code, up to 3 requests and 2 ticks, eleven configurations, fairness | answers were true in what they show, and given; analytics is of one moment; clicks tells what redirects saw; the limiter counts right; sign-ins are right |
| `rollout` | four plans: one process with each configuration of `MCConfigs` and 2 starts; 2 processes, an edit, 3 starts; 2 releases and an edit; 1 process, 1 release and an edit | migrations in order, images behind the schema, processes as configured, shutdown in order, nothing overwritten, everything ends |

Some properties are conjunctions of named parts that belong together:

| Property | Parts |
|---|---|
| `IndexInv` | `TypeOK`, `LocksHeld`, `ReadsFresh`, `RowWasTrue` |
| `OnlyTheEntitledChange` | `EditsWereAuthorised`, `RemovalsWereJustified`, `OwnersStay` |
| `StreamsOK` | `TypeOK`, `SettledMeansStored`, `StreamsKeepOrder` |
| `WorkerGoesOn` | `EventsAreFlushed`, `CloseReturns` |
| `PagesOK` | `TypeOK`, `OnlyOwnLinks` |
| `RequestsSpent` | `TypeOK`, `NoPageTwice`, `RequestsBounded` |
| `RequestsOK` | `TypeOK`, `LimitedByOwnRequests` |
| `SignInsAreRight` | `RejectionsJustified`, `SessionsWereEarned` |
| `ProcessesFit` | `TypeOK`, `ProcessesFindSchema`, `StartsAreRepeatable`, `ServesWhatIsConfigured` |
| `ShutdownInOrder` | `CloserCoversOpen`, `WorkersHaveDatabase`, `ExitsClosed` |
| `ReleasesAreSafe` | `SchemaBeforeImage`, `StoppedReleasesChangeNothing` |
| `EverythingEnds` | `ReleasesEnd`, `SignalEnds` |

Why the bounds are enough. Every limit of the code is reached: a queue, channel or
batch of one or two fills and drops, a page of one has a lookahead behind it, a
batch of two candidates is longer than the page, and a budget of three ends a page
before its third candidate is decided. Three requests are one that acts, one that
interferes and one that observes. Two processes give four refreshing goroutines,
two versions a stale and a fresh read; three versions a link that is deleted and
created again. One failure or restart can hit every point of a behaviour; the
second failure of `owner_index_one_replica` hits the repair of the first. A second
expansion uses the connections that the first has left. A quota of one request an
hour is used up by the first, a page of one click is always full, and a stream
capped at one event is trimmed by its second while analytics is between its pages.
The gateway's configurations take the interferences one by one: sign-ins, the
limiter, analytics over several clicks and over days, clicks, a link that is deleted
and taken by another user while it is read, a redirect among edits and disabling,
lists among creations and deletions, links that end, the limiter for two clients, and
a server without sign-in. Keys live two
ticks, so that a session, a token and the cache expire one without the other. Two
releases are an older and a newer version, in either order and at once; the edit
comes before or after either patch. Each setting takes values on both sides of
its limits (`MCRollout!Variants`), one at a time. Symmetry is used for requests and
processes of safety runs only. `CHECK_DEADLOCK FALSE` stands where clients stop
when they have had their answers and where processes, scripts and Jobs end.

What some bounds leave to the theorems: `owner_index_replicas` has no failing
transaction (`owner_index_one_replica` has, with one process). Waits for a scan of S3
or of the index and for the ticker are single steps of `OwnerIndex`, so
`owner_index_close` exercises cancellation in waits for the lock and in refreshes.
`owner_paging` has no page made of stale candidates only with another page behind it.

### Fairness

`OwnerIndex!FairSpec`: weak fairness of the goroutines' steps and of starting a
stopped process; strong fairness of `TakeLock`, because PostgreSQL grants
a contended advisory lock in arrival order and no waiter is passed over for
ever. Mutations, failures, `Close` and crashes are not fair. `Converges` needs
the mutations to stop, which `MaxVersions` makes them do.

`ClickRecorder!FairSpec`: nothing makes Redis run what is late; weak fairness of
the worker, whose every wait ends (the ticker ticks, a flush has a deadline of two seconds), of the ticker,
and of the return of `Close`; strong fairness of the `select` branches, since Go
chooses uniformly among the ready ones. `Record`, `Close` and its deadline are not
fair.

`Expander!FairSpec`: weak fairness of the deadline of each request, a timer that
spans all its waits; servers, the resolver and the network owe nothing.

`Gateway!FairSpec`: weak fairness of each request's goroutine; strong fairness of
sign-ins, because Go's `RWMutex` passes over no waiter for ever. A fetch ends, with
keys or with an error: its client has a timeout of ten seconds. Clients, Google and
the recorder owe nothing.

`Rollout!FairSpec`: weak fairness of the init function, of closing, and of the end
of a process whose start failed (`ProcessFairness`); weak fairness of the script,
whose calls of kubectl and waits all have deadlines. Jobs, Kubernetes and
PostgreSQL owe nothing.

## 4. Proofs

TLAPS checks these for every value of the constants that meets the assumptions
of the module, which are named `...Assumption` there: any number of codes,
processes, requests, releases, failures and restarts, and any capacity.

Every safety invariant and every action property of the passing runs is proved.

*OwnerIndexProofs.* `IndexInv` is `TypeOK`, `LocksHeld` (a transaction between
its lock and its end holds the lock of its code), `ReadsFresh` (what it read is a
sound value no older than the row) and `RowWasTrue`. Neither
`RefreshesSerialized` nor `RowNeverGoesBack` is inductive: that a commit does not
move a row back follows from the read having been at least as new as the row when
it was made, which stays true because nobody else commits while the lock is held.
From the invariant follow `TypeCorrect`, `RefreshMutualExclusion`, `RowsAreTrue`,
`RowsNeverGoBack`, `OnlyDeletedLinksGo`, and `Refinement`: every step of the
owner index is a step of `Projection` or leaves it unchanged.

`FullPassesRepair` needs to know how far a pass has come. `PassInv` says that a read
that is not `late` is of a value from after the start of the pass
(`PassRemembers`), and of each code the scan in progress has passed what that is
worth (`PassRepairs`). The scan of the source alone repairs only what it finds: a
code it does not find was missing at that moment, but another process may have
written its row since. Then the row is either right or there to be found by
the scan of the index, which refreshes it. `PageReaches` and `LastPage` are the
facts about pages this rests on: a page skips no key up to its token, and one that is
not full leaves no key behind it.

*LinkServiceProofs.* `LinkInv` says that what a request carries from one access
to the next is explained by the history of its link: a check that was passed was
passed by a value in `log` since the request began, and a counter on its way to
the store is at most the visits made. From it follow `TypeCorrect`,
`NeverOvercounted`, `Authorisation` and `RemovalsJustified`, for both stores. A write
that is sent again is applied by a request that stays where it is, so each invariant
has to hold between the two. Six more invariants stand on `LinkInv`:

- `OwnerInv`, for `OwnersAreKept`, over both stores: what a request is about to put
  back has the owner of what is there, as long as no link of the code was removed.
  With it, `Authorisation` and `RemovalsJustified` give `OnlyEntitled`.
- `UniqueInv`, for `CodesGivenOutOnce`, over both stores: unless a request may have
  removed a link of the code, one that created a link found none, is the only
  one, and its link is still there.
- `AcknowledgedInv`, for `MemoryKeepsDisabled` and `MemoryKeepsDeleted`: what was
  disabled stays so, in the store and in what requests under way carry, unless an
  edit that began earlier undoes it; what was deleted is gone unless a request
  created it again. These two are theorems about `Backend = "memory"`. On S3 the
  first is false, which is what `link_service_disable` shows, and a late `PutVisit`
  can bring back a deleted link.
- `Truth`, for `AnswersAreTruthful`, over both stores: every answer was right of some
  value the link had since the request began. Who is redirected was sent where the
  link led, who is told that there is no link found none or an expired or disabled
  one, who created a link found none, and who edited one left it as edited.
- `Path`, what a request over the memory store found in its order, by places in
  `log`: a link that could be served at one place and what is shown at the same or a
  later one; one that its caller could manage, and none behind it, for a deletion.
  `GatewayProofs` builds on this and on `Truth`.
- `ListedInv`, for `S3ListsOwnedLinks`, a theorem about `Backend = "s3"`, since only
  that store has pointers: when requests come one after another and none fails, an
  owned link has its pointer, or the request that will write it is under way.

*ClickRecorderProofs.* `RecorderInv` is `QueueOK`, `EveryEventAccountedFor` (the
settled events, the batch and the channel are, in this order, what was accepted)
and `DrainOK` (after `Close` the events in time are at the front, and behind the
drain loop none of them is left in the channel). From it follow `NoEventLost` and
`CloseIsComplete`. `StreamInv` adds what Redis makes of the flushes: a stream holds
only what is settled or in the batch, whatever part of the batch is in a stream came
behind what the batch has before it, and an event that is settled and not in its
stream is known to have failed. `LateInv` says what Redis may still run: commands of
flushes that are over, whose events are known to have failed unless another attempt
wrote them, or the rest of the batch whose pipeline is being sent again, behind all
that was stored of it. So a stream is in the order of the clicks but for events that
were reported as failed (`StreamsHoldTheClicks`). `ListingInv` says of a
client that pages while clicks come in and streams are trimmed that it has got, newest
first, all that is still there between its token and the id it began at
(`ListingsAreComplete`). `EventsOf`, the events of one code in a batch, is a
recursive function; what it returns is proved by induction on the length, stated for
sets of numbers (`SetInduction`) in place of predicates.

*OwnerPagingProofs.* `PagingInv` is `TypeOK` and `StepInv` (what is left of a request
when none runs), `SourceInv` (what was listed came from the source the token is bound
to, for which that of the index must not be named "legacy"), `OwnInv` (it was the user's and live), `CursorInv` (pages given lie before the
token, the page under way between token and cursor, the candidates behind the
cursor), and `SteadyInv` (a link that was listable all the time, at its place, is on a page
given, on the one under way, or ahead; when S3 is read it has a pointer, so that
`QueryPointers` finds it). They give `PagesStayOwn`, `PagesDoNotOverlap`,
`ListsHaveOneSource`, `SteadyLinksAreListed` and `CursorsAdvance`. A page is taken
by rank: the lemmas about the order of positions say that what has rank at most
`n` in a set is what precedes all the rest of it. The list of all links at once comes in the
order of its store, which is ascending by key for S3 and any order for the memory store
(`AllPointers`).

*ExpanderProofs.* The invariant describes an expansion under way (`Chain`): its
redirects are the responses so far, each of them leads to the next request, and
the keys it has visited are those of its requests, all different. With `Checked`
(what the dialer holds is public) it gives `PublicOnly`, `PagesOnce`, `Bounded`,
`Spent` and `Explains`.

*SignInProofs.* That withdrawn keys stop being accepted is not inductive: `KeysAge`
adds that a cached key was published so recently that the cache ages before the
key is an hour old. `StepsInv` says that a sign-in whose key is not published knows
it (`missed`). From them follow `RejectedForAReason`, `Earned`,
`SignInsDecidedRight` and `RecentKeys`.

*GatewayProofs.* `SignInImplemented` and `LinkServiceImplemented` show that every
step of the API is a step of `SignIn`, or of `LinkService`, or leaves it alone. So
what is proved of `SignIn` holds of the API (`SignInKeepsItsWord`), and so do the
theorems of `LinkServiceProofs` over the memory store, which are taken over with
`INSTANCE`; `LinksAssumption` states that the constants of the API meet the
assumptions of `LinkService`. `JarInv`, that a signed cookie was issued, gives
`NobodyActsWithoutSession`. `GatewayInv` is `RequestsInv` (what a request has, by
stage, and which request of the link service is its own), `OutcomesInv` (a sign-in
that is through has its answer), `QuotaInv` (a bucket holds no more than was
counted) and `StreamInv` (every event of a stream is of a redirect of that link and
of what it saw); it gives `RequestsAreOK`. `WitnessInv` names, by places in the
history of the link, the moments of the request at which its answer was right in what
it shows: for a redirect one at which the link could be served and, there or later,
the one whose destination it follows; for a read behind a check of the owner, the
check and a link behind it. An answer already given stays right, as histories only
grow (`TrueStays`); for requests that the link service answers the witnesses come
from `Truth` and `Path` (`ReplyTrue`). It gives `AnswersHadTheirMoment`.
`ReadsInv` says that what a request has read of the clicks is, newest first, the part
behind its cursor of the events there were at its first page, which are still the
oldest of the stream; every page continues it (`PageContinues`). A page that is not
full ends at the beginning or at what was trimmed by then, so the answer is `Items`
of the events of the first page's moment but for some oldest ones that were trimmed since.
That these are right (`ItemsAnalyse`) rests on two facts: counting does not depend
on the direction (`CountNewest`), and a finite set with a strict total order has
one enumeration, in which every element is at the number of those below it
(`EnumerationExists`, `EnumerationPlaces`). They give `AnalyticsHadItsMoment`.
With `StreamInv`, `ReadsInv` says of every event that clicks shows which redirect it
came from, and `Understands` says what is left of a visit on the way there, for any
words in its user agent, any header of languages, any address and salt: `FirstRule`
(the first rule that fits decides), `LanguageOf`, `ReadBack` and `Hashed` are its
parts. They give `ClicksTellWhatWasSeen`.

*RolloutProofs* is about `Release`, `Process` and both together. `JobsInv` says that
whoever applies migrations, or may still commit one after its death, holds the lock
and applies the one that is missing; hence `MigrationsApplyInOrder`. `ReleaseInv`
says that the schema suffices for every complete Job and for every image the
Deployment has had, and that only scripts whose Job is complete get to their patch;
hence `ReleasesSafe`. Edits that bring back an earlier image are why all past images
are needed. `DeploymentInv` says that the template has one container of the name
released, whatever releases and edits make of it; so a patch changes that container's
image and nothing else (`PatchesReplaceOneImage`). That a Pod has no two containers
of one name is `ContainerAssumption`.

`ReleaseImplemented`: every step of a rollout is a step of `Release` or leaves it
alone, hence `MigrationsStayInOrder`, `ReleasesStaySafe` and
`PatchesOverwriteNothing`. `ProcessInv` says of each process what is open at each
step of its init function and with which settings (`Assembled`), and how far closing
is, whichever of main and the signal's goroutine does it (`Closed`). With
`SchemaIsThere` (what a process runs was an image of the Deployment, so its
migrations are in the database) it gives `ProcessesStayFit` and
`ShutdownStaysInOrder`.

## 5. Model-checked only

- Liveness (`Converges`, `CloseReturns`, `WorkerGoesOn`, `ExpansionsEnd`,
  `RequestsEnd`, `EverythingEnds`): out of the prover's reach, with fairness and
  `ENABLED`.

## 6. Where code and documentation differ

- `owner_index_poison`. `docs/storage.md:117` says that failed refreshes are
  repaired by the next full reconciliation. `Reconcile` returns at the first
  refresh error (`worker.go:98`), so one object that `Refresh` refuses ends each
  pass before the codes after it and before the scan of the index.
- `link_service_disable`. `docs/api/urls.md:162` says that disabled links resolve
  as 404. On S3 `IncrVisit` puts back the record it read (`s3store.go:213`): a
  resolution that read the link before it was disabled enables it again. The memory
  store does not do this (`link_service_memory`).

Met while modelling, without a run of their own:

- `toShortLinkDTO` (`routes.go:37-52`) never sets `Disabled`, which
  `docs/api/conventions.md` describes.
- `config.go:57` says that an empty salt disables the hashing of addresses;
  `HashIP` hashes with the empty salt.
- `auth.go:22` speaks of a verified email; `Verify` (`google.go:88-112`) does not
  look at `EmailVerified`.
- `config.go:86-88` promises at most `PerHour` requests in an hour. The bucket of
  GCRA refills while it is emptied, so an hour may see nearly twice as many, and
  an error of Redis admits everything. `LimitedByOwnRequests` states the other
  side: who is refused has used the quota.
- The codes `health` and `ping` may be taken and never redirect.

Limits that the models show and no document denies; the properties are stated
so as to allow them:

- `FullPassRepairs` excepts a code that another refresh has read and not committed
  when the pass begins; it commits that read behind the pass.
- `DeleteAs` and the clean-up of an expired link delete by code: the object that
  goes may be a later link than the one that was checked, or the renewed one
  (`RemovalsWereJustified` says what remains true).
- A redirect follows the second read of `IncrVisit`, which is not checked again: it
  may lead where a link led that was disabled, or expired, by then, and to a
  destination that was set while it was disabled (`AnswersWereTrue` asks that the link
  could be served before). On S3 its Put can bring back a link that was deleted in
  between.
- Two edits of one link each write the whole record; the later one undoes the
  earlier. If the link is deleted and its code taken by somebody else between read and
  write of an edit, the edit brings the old link and its owner back (`OwnersStay`
  allows a change of owner through a removal only).
- A `Create` whose Put is sent again after its reply was lost finds its own object: the
  caller is told of a conflict, or gets another code and an orphan stays behind.
- On S3 a deletion that overlaps a new creation by the same user may remove the
  new link's pointer, and a pointer that cannot be written is not written later
  (`OwnedLinksListed` excepts overlapping requests and failures). Such a link is not
  in lists read from S3 (`SteadyLinksListed` is about links with a pointer).
- A link space named "legacy" is accepted; tokens of the index would then be valid
  over S3, and the other way round (`LinkSpaceAssumption`).
- A failed flush drops its batch; a retransmitted pipeline stores events
  twice; a pipeline that was given up may still run, so that events reported as lost
  turn up behind later ones; events that were trimmed while analytics paged are
  missing from its numbers; clicks recorded after the drain are lost without a log entry; a click stream
  survives its link, so that a later owner of the code sees earlier clicks.
- A link that is recreated during a listing, and whose row moves ahead of the
  cursor, is not on it (`SteadyLinksListed` is about links that keep their place).
- A failing fetch of keys answers 401, as an invalid token does
  (`RejectionsJustified` excepts it). Signing out removes the cookie; the session
  stays valid until it expires.
- A lost reply of the patch reports a release as stopped that is in effect; a Job
  may complete after its release has stopped, and the schema is then ahead of the
  image (`ReleasesAreSafe` allows that order only).
- A signal during the init function takes effect once that is through.
- User agents that name a product such as "Cubot" are counted as bots. Edge, Chrome
  and Firefox on phones (`EdgA/`, `EdgiOS/`, `CriOS/`, `FxiOS/`) are counted as what
  their other words say: Chrome, Safari or other; Android tablets that do not say
  "tablet" as mobiles (`Understood` asks nothing of these words).
- The limiter takes addresses for clients; those who share one share the quota
  (`LimitedByOwnRequests` has one client for each address).

## 7. Not modelled

- What makes a URL, a code or a lifetime valid, encoding of tokens, response
  formats: data, no control. The refusal itself is modelled where it changes the
  order of answers (`Gateway!Forms`).
- The gRPC transport: the same operations of the link service without the HTTP
  middlewares.
- The algorithm of the limiter: GCRA is the library's, `Gateway!Filled` has what
  the code uses of it.
- JWT, TLS and HTTP as such: cryptography and networking, in libraries.
- Reading YAML and environment variables: the framework's.
- The manifest of the migration Job, the DDL of the migrations.
- The frontend: presentation, and state of single components. Its loaders
  (`Landing.tsx:71`, `Analytics.tsx:274`) show whichever answer comes last; nothing
  in the code orders them and no document promises it.
- Generated code (Ent, protobuf): the queries built with it are modelled by what
  they do.

## 8. What is left

`OwnerPaging` takes a refresh from `Projection`, which `OwnerIndex` is proved to
implement; a module that composes the two with all queues and locks would add how
soon a list is right again. `Gateway` uses the memory store; what is proved of the link
service's answers (`AnswersAreTruthful`) holds over S3 too, what the handlers make of
them there is neither checked nor proved.
