------------------------------ MODULE OwnerIndex ------------------------------
(***************************************************************************)
(* The PostgreSQL owner index of internal/relations: a disposable          *)
(* projection (code, owner, created_at) of the link objects kept in S3.    *)
(*                                                                         *)
(* Every process ("replica") that serves one link space runs a             *)
(* relations.Store: link mutations go to S3 first and then leave a         *)
(* non-blocking notification in a bounded in-process queue; one worker     *)
(* goroutine refreshes the queued codes and one reconciler goroutine       *)
(* repeatedly refreshes every code it finds in S3 and then every code it   *)
(* finds in the index.  Refresh locks the code in PostgreSQL, reads the    *)
(* object, and commits the row.                                            *)
(*                                                                         *)
(* The source is abstracted to the sequence of values each object has had, *)
(* so "how fresh is this row" is a question about positions in that log.   *)
(***************************************************************************)
EXTENDS Integers, Sequences, FiniteSets

CONSTANTS
    NCodes,        \* codes are 1..NCodes, in key order
    Owners,        \* signed-in owners
    NoOwner,       \* the owner of an anonymous link
    Absent,        \* no object in S3, no row in the index
    Broken,        \* an object that Refresh refuses: undecodable or invalid
    Replicas,      \* processes running a relations.Store on one link space
    Requests,      \* concurrent link mutations
    NoRequest,     \* an idle member of Requests
    NoOne,         \* holder of a free advisory lock
    QueueCap,      \* Options.BufferSize
    BatchSize,     \* const batchSize of Reconcile
    InitObjects,   \* the values objects may have before the index is enabled
    InitRows,      \* the rows an earlier deployment may have left behind
    MaxVersions,   \* bound: values one object takes in a behaviour
    MaxFailures,   \* bound: failing refreshes and scans
    MaxRestarts    \* bound: shutdowns and crashes

Codes == 1 .. NCodes
Records == [owner : Owners \cup {NoOwner}, born : Nat]
Values == Records \cup {Absent, Broken}
Refs == [owner : Owners, born : Nat]
Refreshers == Replicas \X {"worker", "reconciler"}

ASSUME SizesAssumption ==
    /\ NCodes \in Nat
    /\ QueueCap \in Nat \ {0}
    /\ BatchSize \in Nat \ {0}
    /\ MaxVersions \in Nat /\ MaxFailures \in Nat /\ MaxRestarts \in Nat

ASSUME NullsAssumption ==
    /\ NoOwner \notin Owners
    /\ Absent # Broken /\ Absent \notin Records /\ Broken \notin Records
    /\ NoOne \notin Refreshers
    /\ NoRequest \notin [at : Replicas, code : Codes]

ASSUME InitAssumption ==
    /\ InitObjects \subseteq Values
    /\ InitRows \subseteq Refs \cup {Absent}

VARIABLES
    log,       \* log[c]: every value object c has had; the last one is current
    row,       \* row[c]: the index row of c, Absent when there is none
    rowVer,    \* history: the position in log[c] the row was computed from
    lock,      \* lock[c]: the transaction holding pg_advisory_xact_lock of c
    task,      \* task[p]: the Refresh call of a goroutine
    queue,     \* queue[r]: Store.queue
    life,      \* life[r]: "down", "up" or "closing"
    rec,       \* rec[r]: progress of the reconciliation pass
    pass,      \* history: what the source looked like when the pass began
    pend,      \* pend[k]: a mutation that reached S3 and has yet to schedule
    failures, restarts

vars == <<log, row, rowVer, lock, task, queue, life, rec, pass, pend,
          failures, restarts>>
source == <<log, pend>>
index == <<row, rowVer, lock>>
bounds == <<failures, restarts>>

-------------------------------------------------------------------------------
(* Values and their projection                                             *)

Latest(c) == log[c][Len(log[c])]

\* The index row Refresh derives from an object: none for a missing or an
\* anonymous link.
RefOf(v) == IF v \in Records /\ v.owner # NoOwner THEN v ELSE Absent

NoTask == [step |-> "idle", code |-> 0, ver |-> 0]
Asleep == [phase |-> "asleep", batch |-> {}, token |-> 0, more |-> FALSE]
NewPass == [phase |-> "source", batch |-> {}, token |-> 0, more |-> TRUE]
NoPass == [began |-> [c \in Codes |-> 0], late |-> {}]

\* The codes a refresh has read from S3 and not yet committed.
ReadInFlight == {task[p].code : p \in {q \in Refreshers : task[q].step = "read"}}

Init ==
    /\ log \in [Codes -> {<<v>> : v \in InitObjects}]
    /\ row \in [Codes -> InitRows]
    /\ rowVer = [c \in Codes |-> 0]
    /\ lock = [c \in Codes |-> NoOne]
    /\ task = [p \in Refreshers |-> NoTask]
    /\ queue = [r \in Replicas |-> <<>>]
    /\ life = [r \in Replicas |-> "down"]
    /\ rec = [r \in Replicas |-> Asleep]
    /\ pass = [r \in Replicas |-> NoPass]
    /\ pend = [k \in Requests |-> NoRequest]
    /\ failures = 0
    /\ restarts = 0

-------------------------------------------------------------------------------
(* Link mutations.  Requests are served until the process exits: shutdown  *)
(* does not drain HTTP.  Each one writes S3 and then, unless the write     *)
(* reported an error although it took effect, owes the queue a             *)
(* notification.                                                           *)

Serving(r) == life[r] \in {"up", "closing"}

WriteObject(c, v) ==
    /\ Len(log[c]) < MaxVersions
    /\ log' = [log EXCEPT ![c] = Append(@, v)]

OweNotice(k, r, c) == pend' = [pend EXCEPT ![k] = [at |-> r, code |-> c]]

\* Store.Create: a conditional Put, so only onto a missing object.
Create(k, r, c, o) ==
    /\ pend[k] = NoRequest /\ Serving(r)
    /\ Latest(c) = Absent
    /\ WriteObject(c, [owner |-> o, born |-> Len(log[c])])
    /\ OweNotice(k, r, c) \/ UNCHANGED pend
    /\ UNCHANGED <<index, task, queue, life, rec, pass, bounds>>

\* Store.Update puts back a patched record that an earlier Get returned: its
\* owner and creation time are those of any record the code has had.
Update(k, r, c, i) ==
    /\ pend[k] = NoRequest /\ Serving(r)
    /\ log[c][i] \in Records
    /\ WriteObject(c, log[c][i])
    /\ OweNotice(k, r, c) \/ UNCHANGED pend
    /\ UNCHANGED <<index, task, queue, life, rec, pass, bounds>>

\* IncrVisit is the embedded store's method: the same blind Put of a record
\* read earlier, and no notification.  A Put of the current value changes
\* nothing the index can see.
IncrVisit(r, c, i) ==
    /\ Serving(r)
    /\ log[c][i] \in Records \ {Latest(c)}
    /\ WriteObject(c, log[c][i])
    /\ UNCHANGED <<index, task, queue, life, rec, pass, pend, bounds>>

\* Store.Delete notifies when the object was there and when it was not.
Delete(k, r, c) ==
    /\ pend[k] = NoRequest /\ Serving(r)
    /\ \/ /\ Latest(c) # Absent
          /\ WriteObject(c, Absent)
          /\ OweNotice(k, r, c) \/ UNCHANGED pend
       \/ /\ Latest(c) = Absent
          /\ OweNotice(k, r, c)
          /\ UNCHANGED log
    /\ UNCHANGED <<index, task, queue, life, rec, pass, bounds>>

\* Store.schedule: dropped when the store is closed or the queue is full.
Schedule(r, c) ==
    \/ /\ life[r] = "up" /\ Len(queue[r]) < QueueCap
       /\ queue' = [queue EXCEPT ![r] = Append(@, c)]
    \/ /\ life[r] # "up" \/ Len(queue[r]) >= QueueCap
       /\ UNCHANGED queue

Notify(k) ==
    /\ pend[k] # NoRequest
    /\ Schedule(pend[k].at, pend[k].code)
    /\ pend' = [pend EXCEPT ![k] = NoRequest]
    /\ UNCHANGED <<log, index, task, life, rec, pass, bounds>>

\* ListByOwnerPage schedules a ref whose object is gone or has another owner.
HintStale(r, c) ==
    /\ Serving(r)
    /\ row[c] # Absent
    /\ \/ Latest(c) = Absent
       \/ Latest(c) \in Records /\ Latest(c).owner # row[c].owner
    /\ Schedule(r, c)
    /\ UNCHANGED <<source, index, task, life, rec, pass, bounds>>

-------------------------------------------------------------------------------
(* Refresh, as run by both goroutines of a replica                         *)

BeginRefresh(p, c) ==
    task' = [task EXCEPT ![p] = [step |-> "begun", code |-> c, ver |-> 0]]

\* Mutant of EndTransaction: locks belong to the process's connection, so the
\* end of one transaction frees those of its siblings too.
EndSession(p) ==
    lock' = [c \in Codes |-> IF lock[c] # NoOne /\ lock[c][1] = p[1] THEN NoOne ELSE lock[c]]

\* The end of a transaction, committed or rolled back, frees its lock.
EndTransaction(p) ==
    lock' = [c \in Codes |-> IF lock[c] = p THEN NoOne ELSE lock[c]]

\* refresh returned nil: the pass goes on with the rest of its batch.
Returned(p) ==
    /\ task' = [task EXCEPT ![p] = NoTask]
    /\ rec' = IF p[2] = "worker" THEN rec
              ELSE [rec EXCEPT ![p[1]].batch = @ \ {task[p].code}]
    /\ pass' = pass

\* Mutant of ReturnedError: the pass skips the code and goes on.
ErrorSkipped(p) ==
    /\ task' = [task EXCEPT ![p] = NoTask]
    /\ rec' = IF p[2] = "worker" THEN rec
              ELSE [rec EXCEPT ![p[1]].batch = @ \ {task[p].code}]
    /\ pass' = pass

\* refresh returned an error: the worker goes on, the pass is abandoned.
ReturnedError(p) ==
    /\ task' = [task EXCEPT ![p] = NoTask]
    /\ rec' = IF p[2] = "worker" THEN rec ELSE [rec EXCEPT ![p[1]] = Asleep]
    /\ pass' = IF p[2] = "worker" THEN pass ELSE [pass EXCEPT ![p[1]] = NoPass]

TakeLock(p) ==
    /\ life[p[1]] = "up"
    /\ task[p].step = "begun"
    /\ lock[task[p].code] = NoOne
    /\ lock' = [lock EXCEPT ![task[p].code] = p]
    /\ task' = [task EXCEPT ![p].step = "locked"]
    /\ UNCHANGED <<source, row, rowVer, queue, life, rec, pass, bounds>>

\* Mutant of ReadSource: the object is read without waiting for the lock.
ReadUnlocked(p) ==
    /\ life[p[1]] = "up"
    /\ task[p].step \in {"begun", "locked"}
    /\ Latest(task[p].code) # Broken
    /\ task' = [task EXCEPT ![p].step = "read", ![p].ver = Len(log[task[p].code])]
    /\ UNCHANGED <<source, index, queue, life, rec, pass, bounds>>

ReadSource(p) ==
    /\ life[p[1]] = "up"
    /\ task[p].step = "locked"
    /\ Latest(task[p].code) # Broken
    /\ task' = [task EXCEPT ![p].step = "read", ![p].ver = Len(log[task[p].code])]
    /\ UNCHANGED <<source, index, queue, life, rec, pass, bounds>>

\* Mutant of RefuseSource: an invalid object is treated as a missing one.
RefuseAsMissing(p) ==
    /\ life[p[1]] = "up"
    /\ task[p].step = "locked"
    /\ Latest(task[p].code) = Broken
    /\ row' = [row EXCEPT ![task[p].code] = Absent]
    /\ EndTransaction(p)
    /\ ReturnedError(p)
    /\ UNCHANGED <<source, rowVer, queue, life, bounds>>

\* An invalid object is an error and leaves the row alone.
RefuseSource(p) ==
    /\ life[p[1]] = "up"
    /\ task[p].step = "locked"
    /\ Latest(task[p].code) = Broken
    /\ EndTransaction(p)
    /\ ReturnedError(p)
    /\ UNCHANGED <<source, row, rowVer, queue, life, bounds>>

\* The row as read under the lock: an upsert, or a delete when RefOf is Absent.
ApplyRow(p) ==
    LET c == task[p].code IN
    /\ row' = [row EXCEPT ![c] = RefOf(log[c][task[p].ver])]
    /\ rowVer' = [rowVer EXCEPT ![c] = task[p].ver]

Commit(p) ==
    /\ task[p].step = "read"
    /\ ApplyRow(p)
    /\ EndTransaction(p)
    /\ Returned(p)
    /\ UNCHANGED <<source, queue, life, bounds>>

\* A timeout or an outage of either store at any point of the call, and a
\* Commit whose reply is lost.
FailRefresh(p) ==
    /\ task[p].step # "idle"
    /\ failures < MaxFailures
    /\ failures' = failures + 1
    /\ \/ UNCHANGED <<row, rowVer>>
       \/ task[p].step = "read" /\ ApplyRow(p)
    /\ EndTransaction(p)
    /\ ReturnedError(p)
    /\ UNCHANGED <<source, queue, life, restarts>>

\* Mutant of CancelRefresh: Close reaches the worker's context only.
CancelWorkerOnly(p) ==
    /\ life[p[1]] = "closing"
    /\ task[p].step # "idle" /\ p[2] = "worker"
    /\ EndTransaction(p)
    /\ ReturnedError(p)
    /\ UNCHANGED <<source, row, rowVer, queue, life, bounds>>

\* Close cancels the context of a call in progress.
CancelRefresh(p) ==
    /\ life[p[1]] = "closing"
    /\ task[p].step # "idle"
    /\ EndTransaction(p)
    /\ ReturnedError(p)
    /\ UNCHANGED <<source, row, rowVer, queue, life, bounds>>

-------------------------------------------------------------------------------
(* The worker and the reconciler                                           *)

Worker(r) == <<r, "worker">>
Reconciler(r) == <<r, "reconciler">>

Dequeue(r) ==
    /\ life[r] = "up"
    /\ task[Worker(r)].step = "idle"
    /\ queue[r] # <<>>
    /\ BeginRefresh(Worker(r), Head(queue[r]))
    /\ queue' = [queue EXCEPT ![r] = Tail(@)]
    /\ UNCHANGED <<source, index, life, rec, pass, bounds>>

\* What the source and the refreshes in flight look like as a pass begins.
RememberStart(r) ==
    pass' = [pass EXCEPT ![r] =
        [began |-> [c \in Codes |-> Len(log[c])], late |-> ReadInFlight]]

\* The ticker fires between passes.
StartPass(r) ==
    /\ life[r] = "up"
    /\ rec[r].phase = "asleep"
    /\ rec' = [rec EXCEPT ![r] = NewPass]
    /\ RememberStart(r)
    /\ UNCHANGED <<source, index, task, queue, life, bounds>>

\* One page of an ascending scan: the first BatchSize keys of S beyond token.
Page(S, token) ==
    {c \in S : c > token /\ Cardinality({d \in S : token < d /\ d <= c}) <= BatchSize}

\* Where the next page starts: the last key of this one.
EndOf(page, token, next) ==
    \/ page = {} /\ next = token
    \/ next \in page /\ \A d \in page : d <= next

BetweenBatches(r) ==
    /\ life[r] = "up"
    /\ rec[r].batch = {}
    /\ task[Reconciler(r)].step = "idle"

ScanSource(r) ==
    /\ BetweenBatches(r)
    /\ rec[r].phase = "source" /\ rec[r].more
    /\ LET keys == {c \in Codes : Latest(c) # Absent}
           page == Page(keys, rec[r].token)
       IN  \E next \in 0 .. NCodes :
             /\ EndOf(page, rec[r].token, next)
             /\ rec' = [rec EXCEPT ![r] =
                    [phase |-> "source", batch |-> page, token |-> next,
                     more |-> \E c \in keys : c > next]]
    /\ UNCHANGED <<source, index, task, queue, life, pass, bounds>>

\* The next page of the index.
ScanIndex(r) ==
    /\ BetweenBatches(r)
    /\ \/ rec[r].phase = "source" /\ ~rec[r].more
       \/ rec[r].phase = "index" /\ rec[r].more
    /\ LET after == IF rec[r].phase = "source" THEN 0 ELSE rec[r].token
           page == Page({c \in Codes : row[c] # Absent}, after)
       IN  \E next \in 0 .. NCodes :
             /\ EndOf(page, after, next)
             /\ rec' = [rec EXCEPT ![r] =
                    [phase |-> "index", batch |-> page, token |-> next,
                     more |-> Cardinality(page) >= BatchSize]]
    /\ UNCHANGED <<source, index, task, queue, life, pass, bounds>>

\* A batch is refreshed in key order, one code at a time.
RefreshNext(r) ==
    /\ life[r] = "up"
    /\ task[Reconciler(r)].step = "idle"
    /\ \E c \in rec[r].batch :
         /\ \A d \in rec[r].batch : c <= d
         /\ BeginRefresh(Reconciler(r), c)
    /\ UNCHANGED <<source, index, queue, life, rec, pass, bounds>>

\* Mutant of PassComplete: the pass ends with the scan of the source.
SourceScanned(r) ==
    /\ rec[r].phase # "asleep" /\ ~rec[r].more
    /\ rec[r].batch = {}

PassComplete(r) ==
    /\ rec[r].phase = "index" /\ ~rec[r].more
    /\ rec[r].batch = {}

EndPass(r) ==
    /\ BetweenBatches(r)
    /\ PassComplete(r)
    /\ rec' = [rec EXCEPT ![r] = Asleep]
    /\ pass' = [pass EXCEPT ![r] = NoPass]
    /\ UNCHANGED <<source, index, task, queue, life, bounds>>

\* An error of either scan abandons the pass.
FailScan(r) ==
    /\ BetweenBatches(r)
    /\ rec[r].phase # "asleep" /\ ~PassComplete(r)
    /\ failures < MaxFailures
    /\ failures' = failures + 1
    /\ rec' = [rec EXCEPT ![r] = Asleep]
    /\ pass' = [pass EXCEPT ![r] = NoPass]
    /\ UNCHANGED <<source, index, task, queue, life, restarts>>

-------------------------------------------------------------------------------
(* Processes                                                               *)

\* New and Start: an empty queue and an immediate pass.
Start(r) ==
    /\ life[r] = "down"
    /\ life' = [life EXCEPT ![r] = "up"]
    /\ rec' = [rec EXCEPT ![r] = NewPass]
    /\ RememberStart(r)
    /\ UNCHANGED <<source, index, task, queue, bounds>>

Close(r) ==
    /\ life[r] = "up"
    /\ restarts < MaxRestarts
    /\ restarts' = restarts + 1
    /\ life' = [life EXCEPT ![r] = "closing"]
    /\ UNCHANGED <<source, index, task, queue, rec, pass, failures>>

\* What dies with the process: queue, pass, transactions, requests.
Gone(r) ==
    /\ life' = [life EXCEPT ![r] = "down"]
    /\ queue' = [queue EXCEPT ![r] = <<>>]
    /\ rec' = [rec EXCEPT ![r] = Asleep]
    /\ pass' = [pass EXCEPT ![r] = NoPass]
    /\ task' = [p \in Refreshers |-> IF p[1] = r THEN NoTask ELSE task[p]]
    /\ lock' = [c \in Codes |->
                  IF lock[c] \in {Worker(r), Reconciler(r)} THEN NoOne ELSE lock[c]]
    /\ pend' = [k \in Requests |->
                  IF pend[k] # NoRequest /\ pend[k].at = r THEN NoRequest ELSE pend[k]]

\* Close returns once both goroutines have, and the process exits.
Exit(r) ==
    /\ life[r] = "closing"
    /\ task[Worker(r)].step = "idle" /\ task[Reconciler(r)].step = "idle"
    /\ Gone(r)
    /\ UNCHANGED <<log, row, rowVer, bounds>>

Crash(r) ==
    /\ Serving(r)
    /\ restarts < MaxRestarts
    /\ restarts' = restarts + 1
    /\ Gone(r)
    /\ UNCHANGED <<log, row, rowVer, failures>>

-------------------------------------------------------------------------------
(* The specification                                                       *)

MutationNext ==
    \/ \E k \in Requests, r \in Replicas, c \in Codes :
         \/ \E o \in Owners \cup {NoOwner} : Create(k, r, c, o)
         \/ \E i \in 1 .. Len(log[c]) : Update(k, r, c, i)
         \/ Delete(k, r, c)
    \/ \E r \in Replicas, c \in Codes :
         \/ \E i \in 1 .. Len(log[c]) : IncrVisit(r, c, i)
         \/ HintStale(r, c)
    \/ \E k \in Requests : Notify(k)

RefreshStep(p) ==
    \/ TakeLock(p) \/ ReadSource(p) \/ RefuseSource(p)
    \/ Commit(p) \/ FailRefresh(p) \/ CancelRefresh(p)

ReplicaStep(r) ==
    \/ Dequeue(r) \/ StartPass(r) \/ ScanSource(r) \/ ScanIndex(r)
    \/ RefreshNext(r) \/ EndPass(r) \/ FailScan(r)
    \/ Start(r) \/ Close(r) \/ Exit(r) \/ Crash(r)

Next ==
    \/ MutationNext
    \/ \E p \in Refreshers : RefreshStep(p)
    \/ \E r \in Replicas : ReplicaStep(r)

Spec == Init /\ [][Next]_vars

\* A goroutine that can take a step takes it; PostgreSQL grants a contended
\* advisory lock in arrival order, so a waiter is not passed over for ever; a
\* stopped process is started again.
RefreshFairness ==
    \A p \in Refreshers :
        /\ SF_vars(TakeLock(p))
        /\ WF_vars(ReadSource(p) \/ RefuseSource(p) \/ Commit(p) \/ CancelRefresh(p))

ReplicaFairness ==
    \A r \in Replicas :
        /\ WF_vars(Dequeue(r))
        /\ WF_vars(StartPass(r) \/ ScanSource(r) \/ ScanIndex(r) \/ RefreshNext(r) \/ EndPass(r))
        /\ WF_vars(Start(r))
        /\ WF_vars(Exit(r))

RequestFairness == \A k \in Requests : WF_vars(Notify(k))

FairSpec == Spec /\ RefreshFairness /\ ReplicaFairness /\ RequestFairness

-------------------------------------------------------------------------------
(* Properties                                                              *)

SourceTypeOK ==
    /\ log \in [Codes -> Seq(Values)]
    /\ \A c \in Codes : Len(log[c]) >= 1
    /\ pend \in [Requests -> [at : Replicas, code : Codes] \cup {NoRequest}]

IndexTypeOK ==
    /\ row \in [Codes -> Refs \cup {Absent}]
    /\ rowVer \in [Codes -> Nat]
    /\ lock \in [Codes -> Refreshers \cup {NoOne}]

TaskTypeOK ==
    /\ task \in [Refreshers -> [step : {"idle", "begun", "locked", "read"},
                                 code : Codes \cup {0}, ver : Nat]]
    /\ \A p \in Refreshers : task[p].step # "idle" => task[p].code \in Codes

QueueTypeOK ==
    /\ queue \in [Replicas -> Seq(Codes)]
    /\ \A r \in Replicas : Len(queue[r]) <= QueueCap
    /\ life \in [Replicas -> {"down", "up", "closing"}]

PassTypeOK ==
    /\ rec \in [Replicas -> [phase : {"asleep", "source", "index"},
                              batch : SUBSET Codes, token : 0 .. NCodes,
                              more : BOOLEAN]]
    /\ pass \in [Replicas -> [began : [Codes -> Nat], late : SUBSET (Codes \cup {0})]]

\* Type correctness, the queue's capacity included.
TypeOK ==
    /\ SourceTypeOK /\ IndexTypeOK /\ TaskTypeOK /\ QueueTypeOK /\ PassTypeOK
    /\ failures \in Nat /\ restarts \in Nat

\* The advisory lock does what Refresh takes it for: of all the goroutines of
\* all the processes, at most one is between reading a link and committing its
\* row, whatever timeouts, cancellations and crashes end the others.
RefreshesSerialized ==
    \A p, q \in Refreshers :
        /\ p # q
        /\ task[p].step \in {"locked", "read"} /\ task[q].step \in {"locked", "read"}
        => task[p].code # task[q].code

\* The row of a code that was ever refreshed is the projection of a value the
\* object really had, never a mixture and never an error taken for "missing".
RowWasTrue ==
    \A c \in Codes :
        /\ rowVer[c] <= Len(log[c])
        /\ rowVer[c] > 0 => row[c] = RefOf(log[c][rowVer[c]])

\* A transaction between its lock and its end holds the lock of its code.
LocksHeld ==
    \A p \in Refreshers :
        task[p].step \in {"locked", "read"} => lock[task[p].code] = p

\* What it read is a sound value of the object, no older than the row.
ReadsFresh ==
    \A p \in Refreshers : task[p].step = "read" =>
        /\ task[p].ver \in 1 .. Len(log[task[p].code])
        /\ rowVer[task[p].code] <= task[p].ver
        /\ log[task[p].code][task[p].ver] # Broken

\* The inductive invariant behind RefreshesSerialized, RowWasTrue and
\* RowNeverGoesBack: locks and reads in flight agree with the rows.
IndexInv == TypeOK /\ LocksHeld /\ ReadsFresh /\ RowWasTrue

\* A refresh that read the object earlier never overwrites the row of one that
\* read it later: delayed notifications, reconciliation and other replicas
\* only move a row forward.
RowNeverGoesBack == [][\A c \in Codes : rowVer'[c] >= rowVer[c]]_vars

\* S3 errors and invalid objects leave the row alone: a row disappears only
\* when the link had been deleted or was anonymous.
OnlyDeletedLinksLeaveIndex ==
    [][\A c \in Codes : row[c] # Absent /\ row'[c] = Absent =>
        \E i \in 1 .. Len(log[c]) :
            \/ log[c][i] = Absent
            \/ log[c][i] \in Records /\ log[c][i].owner = NoOwner]_vars

ShowsSince(c, v) == \E i \in v .. Len(log[c]) : row[c] = RefOf(log[c][i])

\* Dropped and failed notifications are repaired by the next full pass: when it
\* completes, every row shows a value its link had after the pass began.  The
\* exception is a code whose object another refresh had read, and not yet
\* committed, when the pass began.
FullPassRepairs ==
    \A r \in Replicas : PassComplete(r) =>
        \A c \in Codes \ pass[r].late : ShowsSince(c, pass[r].began[c])

\* Why a full pass repairs. A pass remembers a moment the objects have had,
\* and a read that began after it is of a value from after it.
PassRemembers(r) ==
    /\ \A c \in Codes : pass[r].began[c] \in 1 .. Len(log[c])
    /\ \A p \in Refreshers :
         task[p].step = "read" /\ task[p].code \notin pass[r].late
         => task[p].ver >= pass[r].began[task[p].code]

\* The codes the scan in progress has passed and refreshed.
Passed(r, c) == c \notin rec[r].batch /\ (c <= rec[r].token \/ ~rec[r].more)

MissingSince(c, v) == \E i \in v .. Len(log[c]) : log[c][i] = Absent

\* The scan of the source repairs the rows of all the objects it finds; a row
\* it leaves wrong is of an object it found missing, and the scan of the index
\* finds that row.
PassRepairs(r, c) ==
    LET v == pass[r].began[c] IN
    /\ rec[r].phase = "source" /\ Passed(r, c) => ShowsSince(c, v) \/ MissingSince(c, v)
    /\ rec[r].phase = "index" =>
         /\ ShowsSince(c, v) \/ MissingSince(c, v)
         /\ Passed(r, c) => ShowsSince(c, v)

PassSound(r) ==
    /\ PassRemembers(r)
    /\ \A c \in Codes \ pass[r].late : PassRepairs(r, c)

PassInv == \A r \in Replicas : rec[r].phase # "asleep" => PassSound(r)

InSync(c) == row[c] = RefOf(Latest(c))

\* Once mutations, failures and restarts stop, every row agrees with its object
\* for good, whatever notifications were dropped and whatever the index held.
Converges == <>[](\A c \in Codes : InSync(c))

\* docs/storage.md:117, for the links whose own object is sound.
SoundLinksConverge == <>[](\A c \in Codes : Latest(c) # Broken => InSync(c))

\* Close returns although its goroutines may be waiting for a lock, for S3 or
\* for a ticker: a closing process exits.
CloseReturns == \A r \in Replicas : life[r] = "closing" ~> life[r] = "down"

\* Queue, worker, reconciler, lock, failures and restarts together implement
\* the abstract projection: every step of any process either leaves objects
\* and rows alone, changes one object, or recomputes one row from a value no
\* older than the row's last one.
Abstract == INSTANCE Projection WITH seen <- rowVer
ImplementsProjection == Abstract!Spec
===============================================================================
