--------------------------- MODULE OwnerIndexProofs ---------------------------
(***************************************************************************)
(* Proofs about OwnerIndex, for every number of codes, owners, processes   *)
(* and requests, every queue capacity and batch size, and every bound.     *)
(***************************************************************************)
EXTENDS OwnerIndex, TLAPS, WellFoundedInduction, FiniteSetTheorems

-------------------------------------------------------------------------------
(* Facts about the operators                                               *)

\* A goroutine of a replica is a refresher, and its first component tells which
\* replica it belongs to.
LEMMA RefresherOf ==
    ASSUME NEW r \in Replicas
    PROVE  /\ Worker(r) \in Refreshers /\ Reconciler(r) \in Refreshers
           /\ Worker(r)[1] = r /\ Reconciler(r)[1] = r
BY DEF Worker, Reconciler, Refreshers

LEMMA ReplicaOf ==
    ASSUME NEW p \in Refreshers
    PROVE  p[1] \in Replicas /\ p = <<p[1], p[2]>> /\ p[2] \in {"worker", "reconciler"}
BY DEF Refreshers

\* What Refresh writes for any value of an object is a row or no row.
LEMMA RefOfType ==
    ASSUME NEW v \in Values
    PROVE  RefOf(v) \in Refs \cup {Absent}
BY DEF Values, Records, Refs, RefOf

-------------------------------------------------------------------------------
(* Type correctness                                                        *)

LEMMA InitType == Init => TypeOK
<1> SUFFICES ASSUME Init PROVE TypeOK
  OBVIOUS
<1>1. log \in [Codes -> Seq(Values)] /\ \A c \in Codes : Len(log[c]) >= 1
  <2>1. ASSUME NEW c \in Codes
        PROVE  log[c] \in Seq(Values) /\ Len(log[c]) >= 1
    <3>1. PICK v \in InitObjects : log[c] = <<v>>
      BY DEF Init
    <3>. QED
      BY <3>1, InitAssumption
  <2>. QED
    BY <2>1 DEF Init
<1>2. /\ row \in [Codes -> Refs \cup {Absent}]
      /\ rowVer \in [Codes -> Nat]
      /\ lock \in [Codes -> Refreshers \cup {NoOne}]
  BY InitAssumption DEF Init
<1>3. /\ task \in [Refreshers -> [step : {"idle", "begun", "locked", "read"},
                                 code : Codes \cup {0}, ver : Nat]]
      /\ \A p \in Refreshers : task[p].step # "idle" => task[p].code \in Codes
  BY DEF Init, NoTask
<1>4. /\ queue \in [Replicas -> Seq(Codes)]
      /\ \A r \in Replicas : Len(queue[r]) <= QueueCap
      /\ life \in [Replicas -> {"down", "up", "closing"}]
  BY SizesAssumption DEF Init
<1>5. /\ rec \in [Replicas -> [phase : {"asleep", "source", "index"},
                              batch : SUBSET Codes, token : 0 .. NCodes,
                              more : BOOLEAN]]
      /\ pass \in [Replicas -> [began : [Codes -> Nat], late : SUBSET (Codes \cup {0})]]
  BY SizesAssumption DEF Init, Asleep, NoPass
<1>6. /\ pend \in [Requests -> [at : Replicas, code : Codes] \cup {NoRequest}]
      /\ failures \in Nat
      /\ restarts \in Nat
  BY DEF Init
<1>. QED
  BY <1>1, <1>2, <1>3, <1>4, <1>5, <1>6
  DEF TypeOK, SourceTypeOK, IndexTypeOK, TaskTypeOK, QueueTypeOK, PassTypeOK

\* A write appends a value to one log.
LEMMA WriteObjectType ==
    ASSUME SourceTypeOK, NEW c \in Codes, NEW v \in Values, WriteObject(c, v)
    PROVE  /\ log' \in [Codes -> Seq(Values)]
           /\ \A d \in Codes : Len(log'[d]) >= 1
           /\ log'[c] = Append(log[c], v)
           /\ \A d \in Codes : Len(log'[d]) >= Len(log[d])
           /\ \A d \in Codes : \A i \in 1 .. Len(log[d]) : log'[d][i] = log[d][i]
<1>1. log' = [log EXCEPT ![c] = Append(log[c], v)]
  BY DEF WriteObject
<1>2. log[c] \in Seq(Values) /\ Len(log[c]) >= 1
  BY DEF SourceTypeOK
<1>3. /\ Append(log[c], v) \in Seq(Values)
      /\ Len(Append(log[c], v)) = Len(log[c]) + 1
      /\ \A i \in 1 .. Len(log[c]) : Append(log[c], v)[i] = log[c][i]
  BY <1>2
<1>. QED
  BY <1>1, <1>2, <1>3 DEF SourceTypeOK

LEMMA OweNoticeType ==
    ASSUME SourceTypeOK, NEW k \in Requests, NEW r \in Replicas, NEW c \in Codes,
           OweNotice(k, r, c) \/ UNCHANGED pend
    PROVE  pend' \in [Requests -> [at : Replicas, code : Codes] \cup {NoRequest}]
BY DEF OweNotice, SourceTypeOK

LEMMA ScheduleType ==
    ASSUME QueueTypeOK, NEW r \in Replicas, NEW c \in Codes, Schedule(r, c),
           UNCHANGED life
    PROVE  QueueTypeOK'
<1>1. CASE UNCHANGED queue
  BY <1>1 DEF QueueTypeOK
<1>2. CASE Len(queue[r]) < QueueCap /\ queue' = [queue EXCEPT ![r] = Append(@, c)]
  <2>1. queue[r] \in Seq(Codes)
    BY DEF QueueTypeOK
  <2>2. Append(queue[r], c) \in Seq(Codes) /\ Len(Append(queue[r], c)) <= QueueCap
    BY <1>2, <2>1, SizesAssumption
  <2>. QED
    BY <1>2, <2>2 DEF QueueTypeOK
<1>. QED
  BY <1>1, <1>2 DEF Schedule

LEMMA MutationType == TypeOK /\ MutationNext => TypeOK'
<1> SUFFICES ASSUME TypeOK, MutationNext PROVE TypeOK'
  OBVIOUS
<1> USE DEF TypeOK, source, index, bounds
<1>0. \A c \in Codes : \A i \in 1 .. Len(log[c]) : log[c][i] \in Values
  BY DEF SourceTypeOK
<1>1. ASSUME UNCHANGED <<index, task, queue, life, rec, pass, bounds>>,
             SourceTypeOK'
      PROVE  TypeOK'
  BY <1>1 DEF IndexTypeOK, TaskTypeOK, QueueTypeOK, PassTypeOK
<1>2. ASSUME NEW k \in Requests, NEW r \in Replicas, NEW c \in Codes,
             NEW o \in Owners \cup {NoOwner}, Create(k, r, c, o)
      PROVE  TypeOK'
  <2>1. [owner |-> o, born |-> Len(log[c])] \in Values
    BY DEF Values, Records, SourceTypeOK
  <2>. QED
    BY <1>1, <1>2, <2>1, WriteObjectType, OweNoticeType DEF Create, SourceTypeOK
<1>3. ASSUME NEW k \in Requests, NEW r \in Replicas, NEW c \in Codes,
             NEW i \in 1 .. Len(log[c]), Update(k, r, c, i)
      PROVE  TypeOK'
  BY <1>0, <1>1, <1>3, WriteObjectType, OweNoticeType DEF Update, SourceTypeOK
<1>4. ASSUME NEW k \in Requests, NEW r \in Replicas, NEW c \in Codes, Delete(k, r, c)
      PROVE  TypeOK'
  <2>1. Absent \in Values
    BY DEF Values
  <2>. QED
    BY <1>1, <1>4, <2>1, WriteObjectType, OweNoticeType DEF Delete, SourceTypeOK
<1>5. ASSUME NEW r \in Replicas, NEW c \in Codes,
             NEW i \in 1 .. Len(log[c]), IncrVisit(r, c, i)
      PROVE  TypeOK'
  BY <1>0, <1>1, <1>5, WriteObjectType DEF IncrVisit, SourceTypeOK
<1>6. ASSUME NEW r \in Replicas, NEW c \in Codes, HintStale(r, c)
      PROVE  TypeOK'
  BY <1>6, ScheduleType
  DEF HintStale, SourceTypeOK, IndexTypeOK, TaskTypeOK, PassTypeOK
<1>7. ASSUME NEW k \in Requests, Notify(k)
      PROVE  TypeOK'
  <2>1. pend[k].at \in Replicas /\ pend[k].code \in Codes
    BY <1>7 DEF Notify, SourceTypeOK
  <2>. QED
    BY <1>7, <2>1, ScheduleType
    DEF Notify, SourceTypeOK, IndexTypeOK, TaskTypeOK, PassTypeOK
<1>. QED
  BY <1>2, <1>3, <1>4, <1>5, <1>6, <1>7 DEF MutationNext

\* However a transaction ends, locks stay well typed, and so do the call and
\* the pass it belonged to.
LEMMA EndTransactionType ==
    ASSUME TypeOK, NEW p \in Refreshers, EndTransaction(p)
    PROVE  lock' \in [Codes -> Refreshers \cup {NoOne}]
BY DEF EndTransaction, TypeOK, IndexTypeOK

LEMMA ReturnedType ==
    ASSUME TypeOK, NEW p \in Refreshers, Returned(p) \/ ReturnedError(p)
    PROVE  TaskTypeOK' /\ PassTypeOK'
<1>1. TaskTypeOK'
  BY DEF Returned, ReturnedError, TypeOK, TaskTypeOK, NoTask
<1>2. p[1] \in Replicas
  BY ReplicaOf
<1>3. CASE Returned(p)
  <2>1. rec[p[1]].batch \ {task[p].code} \in SUBSET Codes
    BY <1>2 DEF TypeOK, PassTypeOK
  <2>. QED
    BY <1>1, <1>2, <1>3, <2>1 DEF Returned, TypeOK, PassTypeOK
<1>4. CASE ReturnedError(p)
  <2>1. /\ Asleep \in [phase : {"asleep", "source", "index"}, batch : SUBSET Codes,
                        token : 0 .. NCodes, more : BOOLEAN]
        /\ NoPass \in [began : [Codes -> Nat], late : SUBSET (Codes \cup {0})]
    BY SizesAssumption DEF Asleep, NoPass
  <2>. QED
    BY <1>1, <1>2, <1>4, <2>1 DEF ReturnedError, TypeOK, PassTypeOK
<1>. QED
  BY <1>3, <1>4

LEMMA BeginRefreshType ==
    ASSUME TypeOK, NEW p \in Refreshers, NEW c \in Codes, BeginRefresh(p, c)
    PROVE  TaskTypeOK'
BY DEF BeginRefresh, TypeOK, TaskTypeOK

\* A call that has read its object has a version to apply, and its row is well
\* typed.
ReadInRange ==
    \A p \in Refreshers :
        task[p].step = "read" => task[p].ver \in 1 .. Len(log[task[p].code])

LEMMA ApplyRowType ==
    ASSUME TypeOK, ReadInRange, NEW p \in Refreshers, task[p].step = "read",
           ApplyRow(p)
    PROVE  /\ row' \in [Codes -> Refs \cup {Absent}]
           /\ rowVer' \in [Codes -> Nat]
<1> DEFINE c == task[p].code
<1>1. c \in Codes /\ task[p].ver \in 1 .. Len(log[c])
  BY DEF TypeOK, TaskTypeOK, ReadInRange
<1>2. log[c][task[p].ver] \in Values
  BY <1>1 DEF TypeOK, SourceTypeOK
<1>3. RefOf(log[c][task[p].ver]) \in Refs \cup {Absent}
  BY <1>2, RefOfType
<1>. QED
  BY <1>1, <1>3 DEF ApplyRow, TypeOK, IndexTypeOK

LEMMA RefreshType ==
    ASSUME TypeOK, ReadInRange, NEW p \in Refreshers, RefreshStep(p)
    PROVE  TypeOK'
<1> USE DEF source, index, bounds
<1>0. /\ SourceTypeOK /\ IndexTypeOK /\ TaskTypeOK /\ QueueTypeOK /\ PassTypeOK
      /\ failures \in Nat /\ restarts \in Nat
  BY DEF TypeOK
<1>1. CASE TakeLock(p)
  <2>1. task[p].code \in Codes
    BY <1>0, <1>1 DEF TakeLock, TaskTypeOK
  <2>2. TaskTypeOK'
    BY <1>0, <1>1, <2>1 DEF TakeLock, TaskTypeOK
  <2>3. IndexTypeOK'
    BY <1>0, <1>1, <2>1 DEF TakeLock, IndexTypeOK
  <2>. QED
    BY <1>0, <1>1, <2>2, <2>3 DEF TakeLock, TypeOK, SourceTypeOK, QueueTypeOK, PassTypeOK
<1>2. CASE ReadSource(p)
  <2>1. task[p].code \in Codes /\ Len(log[task[p].code]) \in Nat
    BY <1>0, <1>2 DEF ReadSource, TaskTypeOK, SourceTypeOK
  <2>2. TaskTypeOK'
    BY <1>0, <1>2, <2>1 DEF ReadSource, TaskTypeOK
  <2>. QED
    BY <1>0, <1>2, <2>2
    DEF ReadSource, TypeOK, SourceTypeOK, IndexTypeOK, QueueTypeOK, PassTypeOK
<1>3. CASE RefuseSource(p)
  BY <1>0, <1>3, EndTransactionType, ReturnedType
  DEF RefuseSource, TypeOK, SourceTypeOK, IndexTypeOK, QueueTypeOK
<1>4. CASE Commit(p)
  BY <1>0, <1>4, EndTransactionType, ReturnedType, ApplyRowType
  DEF Commit, TypeOK, SourceTypeOK, IndexTypeOK, QueueTypeOK
<1>5. CASE FailRefresh(p)
  BY <1>0, <1>5, EndTransactionType, ReturnedType, ApplyRowType
  DEF FailRefresh, TypeOK, SourceTypeOK, IndexTypeOK, QueueTypeOK
<1>6. CASE CancelRefresh(p)
  BY <1>0, <1>6, EndTransactionType, ReturnedType
  DEF CancelRefresh, TypeOK, SourceTypeOK, IndexTypeOK, QueueTypeOK
<1>. QED
  BY <1>1, <1>2, <1>3, <1>4, <1>5, <1>6 DEF RefreshStep

LEMMA PassStartType ==
    ASSUME TypeOK, NEW r \in Replicas, rec' = [rec EXCEPT ![r] = NewPass], RememberStart(r)
    PROVE  PassTypeOK'
<1>1. NewPass \in [phase : {"asleep", "source", "index"}, batch : SUBSET Codes,
                   token : 0 .. NCodes, more : BOOLEAN]
  BY SizesAssumption DEF NewPass
<1>2. [began |-> [c \in Codes |-> Len(log[c])], late |-> ReadInFlight]
        \in [began : [Codes -> Nat], late : SUBSET (Codes \cup {0})]
  BY DEF ReadInFlight, TypeOK, TaskTypeOK, SourceTypeOK
<1>. QED
  BY <1>1, <1>2 DEF RememberStart, TypeOK, PassTypeOK

LEMMA PassEndType ==
    ASSUME TypeOK, NEW r \in Replicas, rec' = [rec EXCEPT ![r] = Asleep],
           pass' = [pass EXCEPT ![r] = NoPass]
    PROVE  PassTypeOK'
<1>1. /\ Asleep \in [phase : {"asleep", "source", "index"}, batch : SUBSET Codes,
                      token : 0 .. NCodes, more : BOOLEAN]
      /\ NoPass \in [began : [Codes -> Nat], late : SUBSET (Codes \cup {0})]
  BY SizesAssumption DEF Asleep, NoPass
<1>. QED
  BY <1>1 DEF TypeOK, PassTypeOK

LEMMA ReplicaType ==
    ASSUME TypeOK, NEW r \in Replicas, ReplicaStep(r)
    PROVE  TypeOK'
<1> USE RefresherOf DEF source, index, bounds
<1>0. /\ SourceTypeOK /\ IndexTypeOK /\ TaskTypeOK /\ QueueTypeOK /\ PassTypeOK
      /\ failures \in Nat /\ restarts \in Nat
  BY DEF TypeOK
<1>1. CASE Dequeue(r)
  <2>1. Head(queue[r]) \in Codes /\ Tail(queue[r]) \in Seq(Codes)
        /\ Len(Tail(queue[r])) <= QueueCap
    BY <1>0, <1>1, SizesAssumption DEF Dequeue, QueueTypeOK
  <2>. QED
    BY <1>0, <1>1, <2>1, BeginRefreshType
    DEF Dequeue, TypeOK, SourceTypeOK, IndexTypeOK, QueueTypeOK, PassTypeOK
<1>2. CASE StartPass(r)
  BY <1>0, <1>2, PassStartType
  DEF StartPass, TypeOK, SourceTypeOK, IndexTypeOK, TaskTypeOK, QueueTypeOK
<1>3. CASE ScanSource(r)
  BY <1>0, <1>3
  DEF ScanSource, Page, TypeOK, SourceTypeOK, IndexTypeOK, TaskTypeOK, QueueTypeOK, PassTypeOK
<1>4. CASE ScanIndex(r)
  <2>1. PICK S \in SUBSET Codes, next \in 0 .. NCodes, more \in BOOLEAN :
          rec' = [rec EXCEPT ![r] =
                    [phase |-> "index", batch |-> S, token |-> next, more |-> more]]
    <3> DEFINE after == IF rec[r].phase = "source" THEN 0 ELSE rec[r].token
               page == Page({c \in Codes : row[c] # Absent}, after)
    <3>1. page \in SUBSET Codes /\ (Cardinality(page) >= BatchSize) \in BOOLEAN
      BY DEF Page
    <3>2. PICK next \in 0 .. NCodes :
            rec' = [rec EXCEPT ![r] = [phase |-> "index", batch |-> page, token |-> next,
                                       more |-> Cardinality(page) >= BatchSize]]
      BY <1>4 DEF ScanIndex
    <3>. QED
      BY <3>1, <3>2
  <2>2. PassTypeOK'
    BY <1>0, <1>4, <2>1 DEF ScanIndex, PassTypeOK
  <2>. QED
    BY <1>0, <1>4, <2>2
    DEF ScanIndex, TypeOK, SourceTypeOK, IndexTypeOK, TaskTypeOK, QueueTypeOK
<1>5. CASE RefreshNext(r)
  <2>1. PICK c \in Codes : BeginRefresh(Reconciler(r), c)
    BY <1>0, <1>5 DEF RefreshNext, PassTypeOK
  <2>. QED
    BY <1>0, <1>5, <2>1, BeginRefreshType
    DEF RefreshNext, TypeOK, SourceTypeOK, IndexTypeOK, QueueTypeOK, PassTypeOK
<1>6. CASE EndPass(r)
  BY <1>0, <1>6, PassEndType
  DEF EndPass, TypeOK, SourceTypeOK, IndexTypeOK, TaskTypeOK, QueueTypeOK
<1>7. CASE FailScan(r)
  <2>1. PassTypeOK'
    <3>1. rec' = [rec EXCEPT ![r] = Asleep] /\ pass' = [pass EXCEPT ![r] = NoPass]
      BY <1>7 DEF FailScan
    <3>. QED
      BY <3>1, PassEndType
  <2>2. failures' \in Nat
    BY <1>0, <1>7 DEF FailScan
  <2>. QED
    BY <1>0, <1>7, <2>1, <2>2
    DEF FailScan, TypeOK, SourceTypeOK, IndexTypeOK, TaskTypeOK, QueueTypeOK
<1>8. CASE Start(r)
  BY <1>0, <1>8, PassStartType
  DEF Start, TypeOK, SourceTypeOK, IndexTypeOK, TaskTypeOK, QueueTypeOK
<1>9. CASE Close(r)
  BY <1>0, <1>9
  DEF Close, TypeOK, SourceTypeOK, IndexTypeOK, TaskTypeOK, QueueTypeOK, PassTypeOK
<1>10. ASSUME Gone(r), UNCHANGED <<log, row, rowVer>>,
              failures' \in Nat, restarts' \in Nat
       PROVE  TypeOK'
  <2>1. SourceTypeOK'
    BY <1>0, <1>10 DEF Gone, SourceTypeOK
  <2>2. IndexTypeOK'
    BY <1>0, <1>10 DEF Gone, IndexTypeOK
  <2>3. TaskTypeOK'
    BY <1>0, <1>10 DEF Gone, TaskTypeOK, NoTask
  <2>4. QueueTypeOK'
    BY <1>0, <1>10, SizesAssumption DEF Gone, QueueTypeOK
  <2>5. PassTypeOK'
    BY <1>10, PassEndType DEF Gone
  <2>. QED
    BY <1>10, <2>1, <2>2, <2>3, <2>4, <2>5 DEF TypeOK
<1>11. CASE Exit(r)
  BY <1>0, <1>10, <1>11 DEF Exit
<1>12. CASE Crash(r)
  BY <1>0, <1>10, <1>12 DEF Crash
<1>. QED
  BY <1>1, <1>2, <1>3, <1>4, <1>5, <1>6, <1>7, <1>8, <1>9, <1>11, <1>12 DEF ReplicaStep

-------------------------------------------------------------------------------
(* Rows never go back                                                      *)

\* Objects may gain values and calls may end or begin; as long as no call
\* reaches "locked" or "read" and no row changes, the invariant is kept.
LEMMA QuietStep ==
    ASSUME IndexInv, TypeOK',
           UNCHANGED <<row, rowVer>>,
           \A c \in Codes : Len(log'[c]) >= Len(log[c]),
           \A c \in Codes : \A i \in 1 .. Len(log[c]) : log'[c][i] = log[c][i],
           \A p \in Refreshers :
               \/ task'[p].step \in {"idle", "begun"}
               \/ task'[p] = task[p] /\ lock'[task[p].code] = lock[task[p].code]
    PROVE  IndexInv'
<1>1. LocksHeld'
  BY DEF IndexInv, LocksHeld
<1>2. ReadsFresh'
  <2> SUFFICES ASSUME NEW p \in Refreshers, task'[p].step = "read"
               PROVE  /\ task'[p].ver \in 1 .. Len(log'[task'[p].code])
                      /\ rowVer'[task'[p].code] <= task'[p].ver
                      /\ log'[task'[p].code][task'[p].ver] # Broken
    BY DEF ReadsFresh
  <2>1. task'[p] = task[p] /\ task[p].code \in Codes
    BY DEF IndexInv, TypeOK, TaskTypeOK
  <2>2. Len(log'[task[p].code]) >= Len(log[task[p].code])
        /\ Len(log[task[p].code]) \in Nat /\ Len(log'[task[p].code]) \in Nat
    BY <2>1 DEF IndexInv, TypeOK, SourceTypeOK
  <2>. QED
    BY <2>1, <2>2 DEF IndexInv, ReadsFresh
<1>3. RowWasTrue'
  <2> SUFFICES ASSUME NEW c \in Codes
               PROVE  /\ rowVer[c] <= Len(log'[c])
                      /\ rowVer[c] > 0 => row[c] = RefOf(log'[c][rowVer[c]])
    BY DEF RowWasTrue
  <2>1. rowVer[c] \in Nat /\ Len(log[c]) \in Nat /\ Len(log'[c]) \in Nat
    BY DEF IndexInv, TypeOK, IndexTypeOK, SourceTypeOK
  <2>2. rowVer[c] > 0 => rowVer[c] \in 1 .. Len(log[c])
    BY <2>1 DEF IndexInv, RowWasTrue
  <2>. QED
    BY <2>1, <2>2 DEF IndexInv, RowWasTrue
<1>. QED
  BY <1>1, <1>2, <1>3 DEF IndexInv

LEMMA InitIndexInv == Init => IndexInv
<1> SUFFICES ASSUME Init PROVE IndexInv
  OBVIOUS
<1>1. TypeOK
  BY InitType
<1>2. LocksHeld /\ ReadsFresh
  BY DEF Init, NoTask, LocksHeld, ReadsFresh
<1>3. RowWasTrue
  BY <1>1 DEF Init, RowWasTrue, TypeOK, SourceTypeOK
<1>. QED
  BY <1>1, <1>2, <1>3 DEF IndexInv

LEMMA MutationWrites ==
    SourceTypeOK /\ MutationNext =>
        \/ UNCHANGED log
        \/ \E c \in Codes, v \in Values : WriteObject(c, v)
<1> SUFFICES ASSUME SourceTypeOK, MutationNext
             PROVE  \/ UNCHANGED log
                    \/ \E c \in Codes, v \in Values : WriteObject(c, v)
  OBVIOUS
<1>1. ASSUME NEW k \in Requests, NEW r \in Replicas, NEW c \in Codes,
             NEW o \in Owners \cup {NoOwner}, Create(k, r, c, o)
      PROVE  \E v \in Values : WriteObject(c, v)
  <2>1. [owner |-> o, born |-> Len(log[c])] \in Values
    BY DEF SourceTypeOK, Values, Records
  <2>. QED
    BY <1>1, <2>1 DEF Create
<1>2. ASSUME NEW r \in Replicas, NEW c \in Codes, NEW i \in 1 .. Len(log[c]),
             IncrVisit(r, c, i) \/ \E k \in Requests : Update(k, r, c, i)
      PROVE  \E v \in Values : WriteObject(c, v)
  BY <1>2 DEF IncrVisit, Update, Values
<1>3. ASSUME NEW k \in Requests, NEW r \in Replicas, NEW c \in Codes, Delete(k, r, c)
      PROVE  UNCHANGED log \/ \E v \in Values : WriteObject(c, v)
  BY <1>3 DEF Delete, Values
<1>4. ASSUME \/ \E r \in Replicas, c \in Codes : HintStale(r, c)
             \/ \E k \in Requests : Notify(k)
      PROVE  UNCHANGED log
  BY <1>4 DEF HintStale, Notify, source
<1>. QED
  BY <1>1, <1>2, <1>3, <1>4 DEF MutationNext

LEMMA MutationIndexInv == IndexInv /\ MutationNext => IndexInv'
<1> SUFFICES ASSUME IndexInv, MutationNext PROVE IndexInv'
  OBVIOUS
<1>1. TypeOK'
  BY MutationType DEF IndexInv
<1>2. UNCHANGED <<row, rowVer, lock, task>>
  BY DEF MutationNext, Create, Update, Delete, IncrVisit, HintStale, Notify, index
<1>3. \/ UNCHANGED log
      \/ \E c \in Codes, v \in Values : WriteObject(c, v)
  BY MutationWrites DEF IndexInv, TypeOK
<1>4. /\ \A c \in Codes : Len(log'[c]) >= Len(log[c])
      /\ \A c \in Codes : \A i \in 1 .. Len(log[c]) : log'[c][i] = log[c][i]
  BY <1>3, WriteObjectType DEF IndexInv, TypeOK, SourceTypeOK
<1>. QED
  BY <1>1, <1>2, <1>4, QuietStep

LEMMA ReplicaIndexInv ==
    ASSUME IndexInv, NEW r \in Replicas, ReplicaStep(r)
    PROVE  IndexInv' /\ UNCHANGED <<log, row, rowVer>>
<1>1. TypeOK'
  BY ReplicaType DEF IndexInv
<1>2. UNCHANGED <<log, row, rowVer>>
  BY DEF ReplicaStep, Dequeue, StartPass, ScanSource, ScanIndex, RefreshNext, EndPass,
         FailScan, Start, Close, Exit, Crash, source, index
<1>3. ASSUME NEW p \in Refreshers
      PROVE  \/ task'[p].step \in {"idle", "begun"}
             \/ task'[p] = task[p] /\ lock'[task[p].code] = lock[task[p].code]
  <2>1. CASE UNCHANGED lock /\ (UNCHANGED task \/ \E q \in Refreshers : \E c : BeginRefresh(q, c))
    BY <2>1 DEF BeginRefresh, IndexInv, TypeOK, TaskTypeOK
  <2>2. CASE Gone(r)
    <3>1. CASE p[1] = r
      BY <2>2, <3>1 DEF Gone, NoTask
    <3>2. CASE p[1] # r
      <4>1. task'[p] = task[p]
        BY <2>2, <3>2 DEF Gone
      <4>2. CASE task[p].step \in {"locked", "read"}
        <5>1. lock[task[p].code] = p /\ task[p].code \in Codes
          BY <4>2 DEF IndexInv, LocksHeld, TypeOK, TaskTypeOK
        <5>2. p \notin {Worker(r), Reconciler(r)}
          BY <3>2, RefresherOf
        <5>. QED
          BY <2>2, <4>1, <5>1, <5>2 DEF Gone
      <4>3. CASE task[p].step \in {"idle", "begun"}
        BY <4>1, <4>3
      <4>. QED
        BY <4>2, <4>3 DEF IndexInv, TypeOK, TaskTypeOK
    <3>. QED
      BY <3>1, <3>2
  <2>. QED
    BY <2>1, <2>2, RefresherOf
    DEF ReplicaStep, Dequeue, StartPass, ScanSource, ScanIndex, RefreshNext, EndPass,
        FailScan, Start, Close, Exit, Crash, index
<1>. QED
  BY <1>1, <1>2, <1>3, QuietStep DEF IndexInv, TypeOK, SourceTypeOK

\* The end of p's transaction keeps the invariant, whether or not it applied
\* the row it had read.
LEMMA EndTransactionInv ==
    ASSUME NEW p \in Refreshers, IndexInv, TypeOK', task[p].step # "idle",
           UNCHANGED log,
           UNCHANGED <<row, rowVer>> \/ (task[p].step = "read" /\ ApplyRow(p)),
           EndTransaction(p),
           task' = [task EXCEPT ![p] = NoTask]
    PROVE  /\ IndexInv'
           /\ \A c \in Codes : rowVer'[c] >= rowVer[c]
<1> DEFINE c == task[p].code
<1>0. /\ task \in [Refreshers -> [step : {"idle", "begun", "locked", "read"},
                                  code : Codes \cup {0}, ver : Nat]]
      /\ c \in Codes
      /\ rowVer \in [Codes -> Nat]
      /\ row \in [Codes -> Refs \cup {Absent}]
      /\ \A d \in Codes : Len(log[d]) \in Nat
  BY DEF IndexInv, TypeOK, TaskTypeOK, IndexTypeOK, SourceTypeOK
<1>1. ASSUME NEW q \in Refreshers, task'[q].step \in {"locked", "read"}
      PROVE  /\ q # p /\ task'[q] = task[q]
             /\ task[q].code \in Codes
             /\ lock[task[q].code] = q
             /\ lock'[task[q].code] = q
  <2>1. q # p /\ task'[q] = task[q]
    BY <1>0, <1>1 DEF NoTask
  <2>2. task[q].code \in Codes /\ lock[task[q].code] = q
    BY <1>1, <2>1 DEF IndexInv, LocksHeld, TypeOK, TaskTypeOK
  <2>. QED
    BY <2>1, <2>2 DEF EndTransaction
<1>2. LocksHeld'
  BY <1>1 DEF LocksHeld
<1>3. CASE UNCHANGED <<row, rowVer>>
  <2>1. ReadsFresh'
    BY <1>1, <1>3 DEF ReadsFresh, IndexInv
  <2>2. RowWasTrue'
    BY <1>3 DEF RowWasTrue, IndexInv
  <2>. QED
    BY <1>0, <1>2, <1>3, <2>1, <2>2 DEF IndexInv
<1>4. CASE task[p].step = "read" /\ ApplyRow(p)
  <2>1. /\ task[p].ver \in 1 .. Len(log[c])
        /\ rowVer[c] <= task[p].ver
        /\ lock[c] = p
    BY <1>4 DEF IndexInv, ReadsFresh, LocksHeld
  <2>2. /\ row' = [row EXCEPT ![c] = RefOf(log[c][task[p].ver])]
        /\ rowVer' = [rowVer EXCEPT ![c] = task[p].ver]
    BY <1>4 DEF ApplyRow
  <2>3. ReadsFresh'
    <3> SUFFICES ASSUME NEW q \in Refreshers, task'[q].step = "read"
                 PROVE  /\ task'[q].ver \in 1 .. Len(log[task'[q].code])
                        /\ rowVer'[task'[q].code] <= task'[q].ver
                        /\ log[task'[q].code][task'[q].ver] # Broken
      BY DEF ReadsFresh
    <3>1. task'[q] = task[q] /\ task[q].code # c
      BY <1>1, <2>1
    <3>. QED
      BY <1>0, <1>1, <2>2, <3>1 DEF IndexInv, ReadsFresh
  <2>4. RowWasTrue'
    BY <1>0, <2>1, <2>2 DEF RowWasTrue, IndexInv
  <2>. QED
    BY <1>0, <1>2, <2>1, <2>2, <2>3, <2>4 DEF IndexInv
<1>. QED
  BY <1>3, <1>4

LEMMA RefreshIndexInv ==
    ASSUME IndexInv, NEW p \in Refreshers, RefreshStep(p)
    PROVE  /\ IndexInv' /\ UNCHANGED log
           /\ \A c \in Codes : rowVer'[c] >= rowVer[c]
<1>1. TypeOK'
  BY RefreshType DEF IndexInv, ReadsFresh, ReadInRange
<1>2. UNCHANGED log
  BY DEF RefreshStep, TakeLock, ReadSource, RefuseSource, Commit, FailRefresh,
         CancelRefresh, source
<1>0. /\ task \in [Refreshers -> [step : {"idle", "begun", "locked", "read"},
                                  code : Codes \cup {0}, ver : Nat]]
      /\ \A q \in Refreshers : task[q].step # "idle" => task[q].code \in Codes
      /\ lock \in [Codes -> Refreshers \cup {NoOne}]
      /\ \A c \in Codes : rowVer[c] \in Nat /\ Len(log[c]) \in Nat
  BY DEF IndexInv, TypeOK, TaskTypeOK, IndexTypeOK, SourceTypeOK
<1>3. CASE TakeLock(p)
  <2>1. UNCHANGED <<row, rowVer>>
    BY <1>3 DEF TakeLock
  <2>2. LocksHeld'
    <3> SUFFICES ASSUME NEW q \in Refreshers, task'[q].step \in {"locked", "read"}
                 PROVE  lock'[task'[q].code] = q
      BY DEF LocksHeld
    <3>1. CASE q = p
      BY <1>0, <1>3, <3>1 DEF TakeLock
    <3>2. CASE q # p
      <4>1. task'[q] = task[q] /\ task[q].code \in Codes /\ lock[task[q].code] = q
        BY <1>0, <1>3, <3>2 DEF TakeLock, IndexInv, LocksHeld
      <4>2. task[q].code # task[p].code
        BY <1>3, <4>1, NullsAssumption DEF TakeLock
      <4>. QED
        BY <1>0, <1>3, <4>1, <4>2 DEF TakeLock
    <3>. QED
      BY <3>1, <3>2
  <2>3. ReadsFresh'
    <3> SUFFICES ASSUME NEW q \in Refreshers, task'[q].step = "read"
                 PROVE  /\ task'[q].ver \in 1 .. Len(log[task'[q].code])
                        /\ rowVer[task'[q].code] <= task'[q].ver
                        /\ log[task'[q].code][task'[q].ver] # Broken
      BY <1>2, <2>1 DEF ReadsFresh
    <3>1. task'[q] = task[q]
      BY <1>0, <1>3 DEF TakeLock
    <3>. QED
      BY <3>1 DEF IndexInv, ReadsFresh
  <2>4. RowWasTrue'
    BY <1>2, <2>1 DEF RowWasTrue, IndexInv
  <2>. QED
    BY <1>0, <1>1, <1>2, <2>1, <2>2, <2>3, <2>4 DEF IndexInv
<1>4. CASE ReadSource(p)
  <2>1. UNCHANGED <<row, rowVer, lock>>
    BY <1>4 DEF ReadSource, index
  <2>2. LocksHeld'
    BY <1>0, <1>4, <2>1 DEF ReadSource, IndexInv, LocksHeld
  <2>3. ReadsFresh'
    <3> SUFFICES ASSUME NEW q \in Refreshers, task'[q].step = "read"
                 PROVE  /\ task'[q].ver \in 1 .. Len(log[task'[q].code])
                        /\ rowVer[task'[q].code] <= task'[q].ver
                        /\ log[task'[q].code][task'[q].ver] # Broken
      BY <1>2, <2>1 DEF ReadsFresh
    <3>1. CASE q = p
      <4>1. task'[p].code = task[p].code /\ task'[p].ver = Len(log[task[p].code])
            /\ task[p].code \in Codes
        BY <1>0, <1>4 DEF ReadSource
      <4>2. rowVer[task[p].code] <= Len(log[task[p].code])
            /\ Len(log[task[p].code]) >= 1
            /\ log[task[p].code][Len(log[task[p].code])] # Broken
        BY <1>4, <4>1 DEF ReadSource, Latest, IndexInv, RowWasTrue, TypeOK, SourceTypeOK
      <4>. QED
        BY <1>0, <3>1, <4>1, <4>2
    <3>2. CASE q # p
      BY <1>0, <1>4, <3>2 DEF ReadSource, IndexInv, ReadsFresh
    <3>. QED
      BY <3>1, <3>2
  <2>4. RowWasTrue'
    BY <1>2, <2>1 DEF RowWasTrue, IndexInv
  <2>. QED
    BY <1>0, <1>1, <1>2, <2>1, <2>2, <2>3, <2>4 DEF IndexInv
<1>5. CASE RefuseSource(p)
  <2>1. task[p].step # "idle" /\ EndTransaction(p) /\ task' = [task EXCEPT ![p] = NoTask]
    BY <1>5 DEF RefuseSource, ReturnedError
  <2>2. UNCHANGED <<row, rowVer>> \/ (task[p].step = "read" /\ ApplyRow(p))
    BY <1>5 DEF RefuseSource
  <2>. QED
    BY <1>1, <1>2, <2>1, <2>2, EndTransactionInv
<1>6. CASE Commit(p)
  <2>1. task[p].step # "idle" /\ EndTransaction(p) /\ task' = [task EXCEPT ![p] = NoTask]
    BY <1>6 DEF Commit, Returned
  <2>2. UNCHANGED <<row, rowVer>> \/ (task[p].step = "read" /\ ApplyRow(p))
    BY <1>6 DEF Commit
  <2>. QED
    BY <1>1, <1>2, <2>1, <2>2, EndTransactionInv
<1>7. CASE FailRefresh(p)
  <2>1. task[p].step # "idle" /\ EndTransaction(p) /\ task' = [task EXCEPT ![p] = NoTask]
    BY <1>7 DEF FailRefresh, ReturnedError
  <2>2. UNCHANGED <<row, rowVer>> \/ (task[p].step = "read" /\ ApplyRow(p))
    BY <1>7 DEF FailRefresh
  <2>. QED
    BY <1>1, <1>2, <2>1, <2>2, EndTransactionInv
<1>8. CASE CancelRefresh(p)
  <2>1. task[p].step # "idle" /\ EndTransaction(p) /\ task' = [task EXCEPT ![p] = NoTask]
    BY <1>8 DEF CancelRefresh, ReturnedError
  <2>2. UNCHANGED <<row, rowVer>> \/ (task[p].step = "read" /\ ApplyRow(p))
    BY <1>8 DEF CancelRefresh
  <2>. QED
    BY <1>1, <1>2, <2>1, <2>2, EndTransactionInv
<1>. QED
  BY <1>3, <1>4, <1>5, <1>6, <1>7, <1>8 DEF RefreshStep

LEMMA NextIndexInv ==
    IndexInv /\ [Next]_vars =>
        /\ IndexInv'
        /\ \A c \in Codes : rowVer'[c] >= rowVer[c]
<1> SUFFICES ASSUME IndexInv, [Next]_vars
             PROVE  IndexInv' /\ \A c \in Codes : rowVer'[c] >= rowVer[c]
  OBVIOUS
<1>0. \A c \in Codes : rowVer[c] \in Nat
  BY DEF IndexInv, TypeOK, IndexTypeOK
<1>1. CASE MutationNext
  <2>1. UNCHANGED rowVer
    BY <1>1 DEF MutationNext, Create, Update, Delete, IncrVisit, HintStale, Notify, index
  <2>. QED
    BY <1>0, <1>1, <2>1, MutationIndexInv
<1>2. ASSUME NEW p \in Refreshers, RefreshStep(p)
      PROVE  IndexInv' /\ \A c \in Codes : rowVer'[c] >= rowVer[c]
  BY <1>2, RefreshIndexInv
<1>3. ASSUME NEW r \in Replicas, ReplicaStep(r)
      PROVE  IndexInv' /\ \A c \in Codes : rowVer'[c] >= rowVer[c]
  BY <1>0, <1>3, ReplicaIndexInv
<1>4. CASE UNCHANGED vars
  <2>1. TypeOK'
    BY <1>4 DEF IndexInv, TypeOK, SourceTypeOK, IndexTypeOK, TaskTypeOK, QueueTypeOK,
                PassTypeOK, vars
  <2>. QED
    BY <1>0, <1>4, <2>1 DEF vars, IndexInv, LocksHeld, ReadsFresh, RowWasTrue
<1>. QED
  BY <1>1, <1>2, <1>3, <1>4 DEF Next

\* The inductive invariant holds in every reachable state.
THEOREM IndexInvariant == Spec => []IndexInv
<1>1. Init => IndexInv
  BY InitIndexInv
<1>2. IndexInv /\ [Next]_vars => IndexInv'
  BY NextIndexInv
<1>. QED
  BY <1>1, <1>2, PTL DEF Spec

\* Every variable keeps its type, and no queue outgrows its capacity.
THEOREM TypeCorrect == Spec => []TypeOK
<1>1. IndexInv => TypeOK
  BY DEF IndexInv
<1>. QED
  BY <1>1, IndexInvariant, PTL

\* A row that was ever refreshed shows a value its object really had.
THEOREM RowsAreTrue == Spec => []RowWasTrue
<1>1. IndexInv => RowWasTrue
  BY DEF IndexInv
<1>. QED
  BY <1>1, IndexInvariant, PTL

\* Refreshes of one code never overlap between read and commit, however many
\* processes and goroutines run them.
THEOREM RefreshMutualExclusion == Spec => []RefreshesSerialized
<1>1. IndexInv => RefreshesSerialized
  BY DEF IndexInv, LocksHeld, RefreshesSerialized
<1>. QED
  BY <1>1, IndexInvariant, PTL

\* No step of any process replaces a row by an older one.
THEOREM RowsNeverGoBack == Spec => RowNeverGoesBack
<1>1. IndexInv /\ [Next]_vars => [\A c \in Codes : rowVer'[c] >= rowVer[c]]_vars
  BY NextIndexInv
<1>. QED
  BY <1>1, IndexInvariant, PTL DEF Spec, RowNeverGoesBack

\* A link leaves the index only when it had been deleted or was anonymous.
THEOREM OnlyDeletedLinksGo == Spec => OnlyDeletedLinksLeaveIndex
<1> DEFINE WasUnlisted(c) == \E i \in 1 .. Len(log[c]) :
                        \/ log[c][i] = Absent
                        \/ log[c][i] \in Records /\ log[c][i].owner = NoOwner
<1>1. ASSUME IndexInv, NEW p \in Refreshers, task[p].step = "read", ApplyRow(p),
             NEW c \in Codes, row[c] # Absent, row'[c] = Absent
      PROVE  WasUnlisted(c)
  <2>1. /\ row \in [Codes -> Refs \cup {Absent}]
        /\ task[p].code \in Codes
        /\ task[p].ver \in 1 .. Len(log[task[p].code])
        /\ log[task[p].code][task[p].ver] # Broken
        /\ log[task[p].code] \in Seq(Values)
    BY <1>1 DEF IndexInv, TypeOK, IndexTypeOK, TaskTypeOK, SourceTypeOK, ReadsFresh
  <2>2. c = task[p].code /\ RefOf(log[c][task[p].ver]) = Absent
    BY <1>1, <2>1 DEF ApplyRow
  <2>3. log[c][task[p].ver] \in Values \ {Broken}
    BY <2>1, <2>2
  <2>4. log[c][task[p].ver] = Absent \/ log[c][task[p].ver].owner = NoOwner
    BY <2>2, <2>3, NullsAssumption DEF RefOf, Values
  <2>. QED
    BY <2>1, <2>2, <2>3, <2>4 DEF Values
<1>2. ASSUME IndexInv, [Next]_vars, NEW c \in Codes, row[c] # Absent, row'[c] = Absent
      PROVE  WasUnlisted(c)
  <2>1. UNCHANGED row \/ \E p \in Refreshers : task[p].step = "read" /\ ApplyRow(p)
    BY <1>2 DEF Next, MutationNext, Create, Update, Delete, IncrVisit, HintStale, Notify,
                RefreshStep, TakeLock, ReadSource, RefuseSource, Commit, FailRefresh,
                CancelRefresh, ReplicaStep, Dequeue, StartPass, ScanSource, ScanIndex,
                RefreshNext, EndPass, FailScan, Start, Close, Exit, Crash, index, vars
  <2>. QED
    BY <1>1, <1>2, <2>1
<1>3. IndexInv /\ [Next]_vars =>
        [\A c \in Codes : row[c] # Absent /\ row'[c] = Absent => WasUnlisted(c)]_vars
  BY <1>2
<1>. QED
  BY <1>3, IndexInvariant, PTL DEF Spec, OnlyDeletedLinksLeaveIndex

-------------------------------------------------------------------------------
(* The pages of a scan                                                     *)

LEMMA LeastCode ==
    ASSUME NEW T, T \subseteq Codes, T # {}
    PROVE  \E m \in T : \A k \in T : m <= k
<1> DEFINE R == OpToRel(<, Nat)
<1>0. T \subseteq Nat
  BY DEF Codes
<1>1. IsWellFoundedOn(R, Nat)
  BY NatLessThanWellFounded
<1>2. \A k, m \in Nat : k < m => <<k, m>> \in R
  BY DEF OpToRel
<1> HIDE DEF R
<1>3. PICK m \in T : \A k \in T : <<k, m>> \notin R
  BY <1>0, <1>1, WFMin
<1>4. ASSUME NEW k \in T PROVE m <= k
  <2>1. m \in Nat /\ k \in Nat
    BY <1>0
  <2>2. ~(k < m)
    BY <1>2, <1>3, <2>1
  <2>. QED
    BY <2>1, <2>2
<1>. QED
  BY <1>4

LEMMA CodesFinite ==
    ASSUME NEW S \in SUBSET Codes
    PROVE  IsFiniteSet(S) /\ Cardinality(S) \in Nat
<1>1. IsFiniteSet(Codes)
  BY FS_Interval, SizesAssumption DEF Codes
<1>. QED
  BY <1>1, FS_Subset, FS_CardinalityType

\* A page reaches as far as the token it returns: it skips no key.
LEMMA PageReaches ==
    ASSUME NEW S \in SUBSET Codes, NEW token \in Nat, NEW next \in Nat,
           EndOf(Page(S, token), token, next),
           NEW c \in S, token < c, c <= next
    PROVE  c \in Page(S, token)
<1> DEFINE upto(d) == {e \in S : token < e /\ e <= d}
<1>1. c \in Nat
  BY DEF Codes
<1>2. next \in Page(S, token)
  BY <1>1 DEF EndOf
<1>3. next \in S /\ Cardinality(upto(next)) <= BatchSize
  BY <1>2 DEF Page
<1>4. upto(c) \in SUBSET upto(next) /\ upto(next) \in SUBSET Codes
  <2>1. \A e \in S : e \in Nat
    BY DEF Codes
  <2>2. \A e \in upto(c) : e \in S /\ token < e /\ e <= next
    BY <1>1, <2>1
  <2>. QED
    BY <2>2
<1>5. /\ IsFiniteSet(upto(next))
      /\ Cardinality(upto(c)) \in Nat /\ Cardinality(upto(next)) \in Nat
  BY <1>4, CodesFinite
<1>6. Cardinality(upto(c)) <= Cardinality(upto(next))
  <2> HIDE DEF upto
  <2>. QED
    BY <1>4, <1>5, FS_Subset
<1>7. Cardinality(upto(c)) <= BatchSize
  BY <1>3, <1>5, <1>6, SizesAssumption
<1>. QED
  BY <1>7 DEF Page

\* A page that is not full is the last: it holds every key beyond the token.
LEMMA LastPage ==
    ASSUME NEW S \in SUBSET Codes, NEW token \in Nat,
           Cardinality(Page(S, token)) < BatchSize,
           NEW c \in S, token < c
    PROVE  c \in Page(S, token)
<1> DEFINE page == Page(S, token)
           rest == {d \in S : token < d /\ d \notin page}
           upto(d) == {e \in S : token < e /\ e <= d}
<1>0. page \in SUBSET Codes /\ rest \in SUBSET Codes
  BY DEF Page
<1> SUFFICES ASSUME c \notin page PROVE FALSE
  OBVIOUS
<1>1. PICK m \in rest : \A k \in rest : m <= k
  BY <1>0, LeastCode
<1>2. upto(m) \in SUBSET (page \cup {m}) /\ m \in S /\ token < m /\ m \notin page
  <2>1. m \in Nat /\ \A e \in S : e \in Nat
    BY <1>0 DEF Codes
  <2>2. ASSUME NEW e \in upto(m), e # m PROVE e \in page
    BY <1>1, <2>1, <2>2
  <2>. QED
    BY <2>2
<1>3. IsFiniteSet(page) /\ Cardinality(page) \in Nat
  BY <1>0, CodesFinite
<1>4. IsFiniteSet(page \cup {m}) /\ Cardinality(page \cup {m}) = Cardinality(page) + 1
  BY <1>2, <1>3, FS_AddElement
<1>5. Cardinality(upto(m)) <= Cardinality(page \cup {m})
  <2> HIDE DEF upto, page
  <2>. QED
    BY <1>2, <1>4, FS_Subset
<1>6. Cardinality(upto(m)) \in Nat
  <2>1. upto(m) \in SUBSET Codes
    OBVIOUS
  <2>. QED
    BY <2>1, CodesFinite
<1>7. Cardinality(upto(m)) <= BatchSize
  BY <1>3, <1>4, <1>5, <1>6, SizesAssumption
<1>8. m \in page
  BY <1>2, <1>7 DEF Page
<1>. QED
  BY <1>2, <1>8

-------------------------------------------------------------------------------
(* A full pass repairs the index                                           *)

\* Objects only gain values.
LogGrows ==
    \A c \in Codes :
        /\ Len(log[c]) \in Nat /\ Len(log'[c]) \in Nat
        /\ Len(log[c]) <= Len(log'[c])
        /\ \A i \in 1 .. Len(log[c]) : log'[c][i] = log[c][i]

\* A row is left alone, or shows a value from after the start of r's pass,
\* unless the code is one of those the pass makes no promise about.
RowsImprove(r) ==
    \A c \in Codes \ pass[r].late :
        row'[c] = row[c] \/ ShowsSince(c, pass[r].began[c])'

\* A read is the one of before or returns the current value.
ReadsAreCurrent ==
    \A p \in Refreshers : task'[p].step = "read" =>
        \/ task'[p] = task[p]
        \/ task'[p].ver = Len(log'[task'[p].code])

LEMMA ShownStays ==
    ASSUME LogGrows, NEW c \in Codes, NEW v \in Nat \ {0}, row'[c] = row[c],
           ShowsSince(c, v)
    PROVE  ShowsSince(c, v)'
<1>1. PICK i \in v .. Len(log[c]) : row[c] = RefOf(log[c][i])
  BY DEF ShowsSince
<1>2. i \in 1 .. Len(log[c]) /\ i \in v .. Len(log'[c])
  BY <1>1 DEF LogGrows
<1>3. row'[c] = RefOf(log'[c][i])
  BY <1>1, <1>2 DEF LogGrows
<1>. QED
  BY <1>2, <1>3 DEF ShowsSince

LEMMA MissingStays ==
    ASSUME LogGrows, NEW c \in Codes, NEW v \in Nat \ {0}, MissingSince(c, v)
    PROVE  MissingSince(c, v)'
<1>1. PICK i \in v .. Len(log[c]) : log[c][i] = Absent
  BY DEF MissingSince
<1>2. i \in 1 .. Len(log[c]) /\ i \in v .. Len(log'[c])
  BY <1>1 DEF LogGrows
<1>3. log'[c][i] = Absent
  BY <1>1, <1>2 DEF LogGrows
<1>. QED
  BY <1>2, <1>3 DEF MissingSince

\* A step that leaves r's pass where it is, or takes from its batch codes whose
\* rows are repaired, keeps what the pass has achieved.
LEMMA PassKept ==
    ASSUME NEW r \in Replicas, rec[r].phase # "asleep", PassSound(r), TaskTypeOK', PassTypeOK,
           LogGrows, RowsImprove(r), ReadsAreCurrent,
           pass'[r] = pass[r],
           rec'[r].phase = rec[r].phase, rec'[r].token = rec[r].token,
           rec'[r].more = rec[r].more,
           \A c \in Codes \ pass[r].late :
               \/ c \in rec[r].batch <=> c \in rec'[r].batch
               \/ ShowsSince(c, pass[r].began[c])'
    PROVE  PassSound(r)'
<1>1. PassRemembers(r)'
  <2>1. ASSUME NEW c \in Codes PROVE pass[r].began[c] \in 1 .. Len(log'[c])
    BY DEF PassSound, PassRemembers, LogGrows
  <2>2. ASSUME NEW p \in Refreshers, task'[p].step = "read", task'[p].code \notin pass[r].late
        PROVE  task'[p].ver >= pass[r].began[task'[p].code]
    <3>1. task'[p].code \in Codes
      BY <2>2 DEF TaskTypeOK
    <3>2. CASE task'[p] = task[p]
      BY <2>2, <3>2 DEF PassSound, PassRemembers
    <3>3. CASE task'[p].ver = Len(log'[task'[p].code])
      BY <2>1, <3>1, <3>3
    <3>. QED
      BY <2>2, <3>2, <3>3 DEF ReadsAreCurrent
  <2>. QED
    BY <2>1, <2>2 DEF PassRemembers
<1>2. ASSUME NEW c \in Codes \ pass[r].late
      PROVE  PassRepairs(r, c)'
  <2> DEFINE v == pass[r].began[c]
  <2>1. v \in Nat \ {0}
    BY DEF PassSound, PassRemembers
  <2>2. PassRepairs(r, c)
    BY DEF PassSound
  <2>3. ShowsSince(c, v) => ShowsSince(c, v)'
    BY <2>1, ShownStays DEF RowsImprove
  <2>4. MissingSince(c, v) => MissingSince(c, v)'
    BY <2>1, MissingStays
  <2>5. ShowsSince(c, v)' \/ (Passed(r, c)' <=> Passed(r, c))
    BY DEF Passed
  <2>. QED
    BY <2>2, <2>3, <2>4, <2>5 DEF PassRepairs
<1>. QED
  BY <1>1, <1>2 DEF PassSound

LEMMA SameLogGrows ==
    ASSUME TypeOK, UNCHANGED log
    PROVE  LogGrows
BY DEF LogGrows, TypeOK, SourceTypeOK

LEMMA MutationKeepsPass ==
    ASSUME TypeOK, MutationNext, PassInv
    PROVE  PassInv'
<1>1. UNCHANGED <<row, task, rec, pass>>
  BY DEF MutationNext, Create, Update, Delete, IncrVisit, HintStale, Notify, index
<1>2. TypeOK' /\ TaskTypeOK' /\ PassTypeOK
  BY MutationType DEF TypeOK
<1>3. LogGrows
  <2>1. UNCHANGED log \/ \E c \in Codes, v \in Values : WriteObject(c, v)
    BY MutationWrites DEF TypeOK
  <2>2. /\ \A c \in Codes : Len(log'[c]) >= Len(log[c])
        /\ \A c \in Codes : \A i \in 1 .. Len(log[c]) : log'[c][i] = log[c][i]
    BY <2>1, WriteObjectType DEF TypeOK, SourceTypeOK
  <2>3. \A c \in Codes : Len(log[c]) \in Nat /\ Len(log'[c]) \in Nat
    BY <1>2 DEF TypeOK, SourceTypeOK
  <2>. QED
    BY <2>2, <2>3 DEF LogGrows
<1>4. ReadsAreCurrent
  BY <1>1 DEF ReadsAreCurrent
<1>5. ASSUME NEW r \in Replicas, rec'[r].phase # "asleep" PROVE PassSound(r)'
  <2>1. rec[r].phase # "asleep" /\ PassSound(r)
    BY <1>1, <1>5 DEF PassInv
  <2>2. RowsImprove(r)
    BY <1>1 DEF RowsImprove
  <2>. QED
    BY <1>1, <1>2, <1>3, <1>4, <2>1, <2>2, PassKept
<1>. QED
  BY <1>5 DEF PassInv

\* What a refresh writes for a code was read after the pass began.
LEMMA ApplyImproves ==
    ASSUME IndexInv, NEW r \in Replicas, PassRemembers(r), UNCHANGED log, pass'[r] = pass[r],
           NEW p \in Refreshers, task[p].step = "read", ApplyRow(p)
    PROVE  \A c \in Codes \ pass[r].late :
               IF c = task[p].code THEN ShowsSince(c, pass[r].began[c])' ELSE row'[c] = row[c]
<1>1. /\ task[p].code \in Codes /\ task[p].ver \in 1 .. Len(log[task[p].code])
      /\ row \in [Codes -> Refs \cup {Absent}]
  BY DEF IndexInv, ReadsFresh, TypeOK, TaskTypeOK, IndexTypeOK
<1>2. row' = [row EXCEPT ![task[p].code] = RefOf(log[task[p].code][task[p].ver])]
  BY DEF ApplyRow
<1>3. ASSUME NEW c \in Codes \ pass[r].late, c = task[p].code
      PROVE  ShowsSince(c, pass[r].began[c])'
  <2>1. pass[r].began[c] \in 1 .. Len(log[c]) /\ task[p].ver >= pass[r].began[c]
    BY <1>1, <1>3 DEF PassRemembers
  <2>2. task[p].ver \in pass'[r].began[c] .. Len(log'[c])
    BY <1>1, <1>3, <2>1
  <2>3. row'[c] = RefOf(log'[c][task[p].ver])
    BY <1>1, <1>2, <1>3
  <2>. QED
    BY <2>2, <2>3 DEF ShowsSince
<1>. QED
  BY <1>1, <1>2, <1>3

LEMMA RefreshKeepsPass ==
    ASSUME IndexInv, NEW p \in Refreshers, RefreshStep(p), PassInv
    PROVE  PassInv'
<1>1. UNCHANGED log /\ TaskTypeOK' /\ TypeOK /\ PassTypeOK
  BY RefreshIndexInv DEF IndexInv, TypeOK
<1>2. LogGrows
  BY <1>1, SameLogGrows
<1>0. /\ task \in [Refreshers -> [step : {"idle", "begun", "locked", "read"},
                                  code : Codes \cup {0}, ver : Nat]]
      /\ rec \in [Replicas -> [phase : {"asleep", "source", "index"}, batch : SUBSET Codes,
                               token : 0 .. NCodes, more : BOOLEAN]]
      /\ p[1] \in Replicas
  BY <1>1, ReplicaOf DEF TypeOK, TaskTypeOK, PassTypeOK
<1>3. ReadsAreCurrent
  <2>1. CASE TakeLock(p)
    BY <1>0, <2>1 DEF TakeLock, ReadsAreCurrent
  <2>2. CASE ReadSource(p)
    <3>1. ASSUME NEW q \in Refreshers, task'[q].step = "read", q # p
          PROVE  task'[q] = task[q]
      BY <1>0, <2>2, <3>1 DEF ReadSource
    <3>2. task'[p].ver = Len(log'[task'[p].code])
      BY <1>0, <1>1, <2>2 DEF ReadSource
    <3>. QED
      BY <3>1, <3>2 DEF ReadsAreCurrent
  <2>3. CASE task' = [task EXCEPT ![p] = NoTask]
    BY <1>0, <2>3 DEF NoTask, ReadsAreCurrent
  <2>. QED
    BY <2>1, <2>2, <2>3
    DEF RefreshStep, RefuseSource, Commit, FailRefresh, CancelRefresh, Returned, ReturnedError
<1>4. UNCHANGED row \/ (task[p].step = "read" /\ ApplyRow(p))
  BY DEF RefreshStep, TakeLock, ReadSource, RefuseSource, Commit, FailRefresh,
         CancelRefresh, index
<1>5. ASSUME NEW r \in Replicas, rec'[r].phase # "asleep" PROVE PassSound(r)'
  <2>1. \/ UNCHANGED <<rec, pass>>
        \/ /\ p[2] # "worker"
           /\ rec' = [rec EXCEPT ![p[1]] = Asleep] /\ pass' = [pass EXCEPT ![p[1]] = NoPass]
        \/ /\ task[p].step = "read" /\ ApplyRow(p) /\ pass' = pass
           /\ rec' = [rec EXCEPT ![p[1]].batch = @ \ {task[p].code}]
    BY DEF RefreshStep, TakeLock, ReadSource, RefuseSource, Commit, FailRefresh,
           CancelRefresh, Returned, ReturnedError
  <2>2. /\ rec[r].phase # "asleep" /\ pass'[r] = pass[r]
        /\ rec'[r].phase = rec[r].phase /\ rec'[r].token = rec[r].token
        /\ rec'[r].more = rec[r].more
        /\ \/ rec'[r].batch = rec[r].batch
           \/ /\ task[p].step = "read" /\ ApplyRow(p)
              /\ rec'[r].batch = rec[r].batch \ {task[p].code}
    <3>1. CASE UNCHANGED <<rec, pass>>
      BY <1>5, <3>1
    <3>2. CASE rec' = [rec EXCEPT ![p[1]] = Asleep] /\ pass' = [pass EXCEPT ![p[1]] = NoPass]
      <4>1. p[1] # r
        BY <1>0, <1>5, <3>2 DEF Asleep
      <4>. QED
        BY <1>0, <1>1, <1>5, <3>2, <4>1 DEF PassTypeOK
    <3>3. CASE /\ task[p].step = "read" /\ ApplyRow(p) /\ pass' = pass
               /\ rec' = [rec EXCEPT ![p[1]].batch = @ \ {task[p].code}]
      BY <1>0, <1>5, <3>3
    <3>. QED
      BY <2>1, <3>1, <3>2, <3>3
  <2>3. PassSound(r) /\ PassRemembers(r)
    BY <2>2 DEF PassInv, PassSound
  <2>4. RowsImprove(r)
    <3>1. CASE UNCHANGED row
      BY <3>1 DEF RowsImprove
    <3>2. CASE task[p].step = "read" /\ ApplyRow(p)
      BY <1>1, <2>2, <2>3, <3>2, ApplyImproves DEF RowsImprove
    <3>. QED
      BY <1>4, <3>1, <3>2
  <2>5. ASSUME NEW c \in Codes \ pass[r].late
        PROVE  (c \in rec[r].batch <=> c \in rec'[r].batch) \/ ShowsSince(c, pass[r].began[c])'
    <3>1. CASE rec'[r].batch = rec[r].batch \/ c # task[p].code
      BY <2>2, <3>1
    <3>2. CASE task[p].step = "read" /\ ApplyRow(p) /\ c = task[p].code
      BY <1>1, <2>2, <2>3, <3>2, ApplyImproves
    <3>. QED
      BY <2>2, <3>1, <3>2
  <2>. QED
    BY <1>1, <1>2, <1>3, <2>2, <2>3, <2>4, <2>5, PassKept
<1>. QED
  BY <1>5 DEF PassInv

\* A pass that begins has achieved nothing yet; the reads in flight are late.
LEMMA PassBegins ==
    ASSUME TypeOK, NEW r \in Replicas, rec' = [rec EXCEPT ![r] = NewPass], RememberStart(r),
           UNCHANGED <<log, task>>
    PROVE  PassSound(r)'
<1>1. /\ rec'[r] = NewPass
      /\ pass'[r] = [began |-> [c \in Codes |-> Len(log[c])], late |-> ReadInFlight]
  BY DEF RememberStart, TypeOK, PassTypeOK
<1>2. PassRemembers(r)'
  <2>1. \A c \in Codes : pass'[r].began[c] \in 1 .. Len(log'[c])
    BY <1>1 DEF TypeOK, SourceTypeOK
  <2>2. \A p \in Refreshers : task'[p].step = "read" => task'[p].code \in pass'[r].late
    BY <1>1 DEF ReadInFlight
  <2>. QED
    BY <2>1, <2>2 DEF PassRemembers
<1>3. ASSUME NEW c \in Codes PROVE PassRepairs(r, c)'
  <2>1. ~Passed(r, c)'
    BY <1>1 DEF Passed, NewPass, Codes
  <2>. QED
    BY <1>1, <2>1 DEF PassRepairs, NewPass
<1>. QED
  BY <1>2, <1>3 DEF PassSound

\* A scan leaves what the pass remembers alone.
LEMMA ScanRemembers ==
    ASSUME NEW r \in Replicas, PassRemembers(r), UNCHANGED <<log, task, pass>>
    PROVE  PassRemembers(r)'
BY DEF PassRemembers

\* An object the scan of the source does not find is missing.
LEMMA ScanSourceKeepsPass ==
    ASSUME TypeOK, NEW r \in Replicas, ScanSource(r), PassSound(r)
    PROVE  PassSound(r)'
<1> DEFINE keys == {c \in Codes : Latest(c) # Absent}
           page == Page(keys, rec[r].token)
<1>1. UNCHANGED <<log, row, task, pass>>
  BY DEF ScanSource, source, index
<1>2. PICK next \in 0 .. NCodes :
        /\ EndOf(page, rec[r].token, next)
        /\ rec' = [rec EXCEPT ![r] = [phase |-> "source", batch |-> page, token |-> next,
                                      more |-> \E c \in keys : c > next]]
  BY DEF ScanSource
<1>3. /\ rec'[r].phase = "source" /\ rec'[r].batch = page
      /\ rec'[r].token = next /\ rec'[r].more = (\E c \in keys : c > next)
      /\ rec[r].token \in Nat /\ next \in Nat
      /\ rec[r].phase = "source" /\ rec[r].batch = {}
  BY <1>2 DEF TypeOK, PassTypeOK, ScanSource, BetweenBatches
<1>4. ASSUME NEW c \in Codes \ pass[r].late PROVE PassRepairs(r, c)'
  <2> DEFINE v == pass[r].began[c]
  <2>1. v \in 1 .. Len(log[c]) /\ PassRepairs(r, c)
    BY DEF PassSound, PassRemembers
  <2>2. CASE Passed(r, c)'
    <3>1. c \notin page /\ (c <= next \/ ~\E d \in keys : d > next)
      BY <1>3, <2>2 DEF Passed
    <3>2. CASE c <= rec[r].token
      <4>1. Passed(r, c)
        BY <1>3, <3>2 DEF Passed
      <4>2. ShowsSince(c, v) \/ MissingSince(c, v)
        BY <1>3, <2>1, <4>1 DEF PassRepairs
      <4>. QED
        BY <1>1, <1>3, <4>2 DEF PassRepairs, ShowsSince, MissingSince
    <3>3. CASE c > rec[r].token
      <4>1. c \notin keys
        <5> SUFFICES ASSUME c \in keys PROVE FALSE
          OBVIOUS
        <5>1. c <= next /\ rec[r].token < c
          BY <1>3, <3>1, <3>3 DEF Codes
        <5>2. keys \in SUBSET Codes
          OBVIOUS
        <5> HIDE DEF keys
        <5>. QED
          BY <1>2, <1>3, <3>1, <5>1, <5>2, PageReaches
      <4>2. Latest(c) = Absent
        BY <4>1
      <4>3. MissingSince(c, v)
        BY <2>1, <4>2 DEF MissingSince, Latest
      <4>. QED
        BY <1>1, <1>3, <4>3 DEF PassRepairs, MissingSince
    <3>. QED
      BY <1>3, <3>2, <3>3 DEF Codes
  <2>3. CASE ~Passed(r, c)'
    BY <1>3, <2>3 DEF PassRepairs
  <2>. QED
    BY <2>2, <2>3
<1>. QED
  BY <1>1, <1>4, ScanRemembers DEF PassSound

\* A code the scan of the index does not find has no row: that is right for an
\* object that was missing, and the others are repaired.
LEMMA ScanIndexKeepsPass ==
    ASSUME TypeOK, NEW r \in Replicas, ScanIndex(r), PassSound(r)
    PROVE  PassSound(r)'
<1> DEFINE after == IF rec[r].phase = "source" THEN 0 ELSE rec[r].token
           rows == {c \in Codes : row[c] # Absent}
           page == Page(rows, after)
<1>1. UNCHANGED <<log, row, task, pass>>
  BY DEF ScanIndex, source, index
<1>2. PICK next \in 0 .. NCodes :
        /\ EndOf(page, after, next)
        /\ rec' = [rec EXCEPT ![r] = [phase |-> "index", batch |-> page, token |-> next,
                                      more |-> Cardinality(page) >= BatchSize]]
  BY DEF ScanIndex
<1>3. /\ rec'[r].phase = "index" /\ rec'[r].batch = page
      /\ rec'[r].token = next /\ rec'[r].more = (Cardinality(page) >= BatchSize)
      /\ after \in Nat /\ next \in Nat
      /\ rec[r].batch = {}
      /\ \/ rec[r].phase = "source" /\ ~rec[r].more
         \/ rec[r].phase = "index"
  BY <1>2 DEF TypeOK, PassTypeOK, ScanIndex, BetweenBatches
<1>4. rows \in SUBSET Codes /\ page \in SUBSET Codes
  BY DEF Page
<1>5. ASSUME NEW c \in Codes \ pass[r].late PROVE PassRepairs(r, c)'
  <2> DEFINE v == pass[r].began[c]
  <2>1. v \in 1 .. Len(log[c]) /\ PassRepairs(r, c)
    BY DEF PassSound, PassRemembers
  <2>2. ShowsSince(c, v) \/ MissingSince(c, v)
    BY <1>3, <2>1 DEF PassRepairs, Passed
  <2>3. ASSUME Passed(r, c)' PROVE ShowsSince(c, v)
    <3>1. c \notin page /\ (c <= next \/ ~(Cardinality(page) >= BatchSize))
      BY <1>3, <2>3 DEF Passed
    <3>2. CASE rec[r].phase = "index" /\ c <= rec[r].token
      BY <1>3, <2>1, <3>2 DEF PassRepairs, Passed
    <3>3. CASE after < c
      <4>1. c \notin rows
        <5> SUFFICES ASSUME c \in rows PROVE FALSE
          OBVIOUS
        <5>1. Cardinality(page) \in Nat
          BY <1>4, CodesFinite
        <5>2. c <= next \/ Cardinality(page) < BatchSize
          BY <3>1, <5>1, SizesAssumption
        <5> HIDE DEF rows, after
        <5>. QED
          BY <1>2, <1>3, <1>4, <3>1, <3>3, <5>2, PageReaches, LastPage
      <4>2. row[c] = Absent
        BY <4>1
      <4>3. RefOf(Absent) = Absent
        BY NullsAssumption DEF RefOf
      <4>. QED
        BY <2>2, <4>2, <4>3 DEF ShowsSince, MissingSince
    <3>4. c \in Nat /\ c > 0
      BY DEF Codes
    <3>. QED
      BY <1>3, <3>2, <3>3, <3>4
  <2>. QED
    BY <1>1, <1>3, <2>2, <2>3 DEF PassRepairs, ShowsSince, MissingSince
<1>. QED
  BY <1>1, <1>5, ScanRemembers DEF PassSound

LEMMA ReplicaKeepsPass ==
    ASSUME IndexInv, NEW q \in Replicas, ReplicaStep(q), PassInv
    PROVE  PassInv'
<1> USE RefresherOf
<1>0. TypeOK /\ TypeOK' /\ TaskTypeOK' /\ PassTypeOK /\ TaskTypeOK /\ UNCHANGED <<log, row>>
  BY ReplicaIndexInv DEF IndexInv, TypeOK
<1>1. LogGrows
  BY <1>0, SameLogGrows
<1>2. ASSUME NEW p \in Refreshers, task'[p].step = "read" PROVE task'[p] = task[p]
  <2>1. CASE UNCHANGED task \/ \E s \in Refreshers : \E c : BeginRefresh(s, c)
    BY <1>0, <1>2, <2>1 DEF BeginRefresh, TaskTypeOK
  <2>2. CASE Gone(q)
    BY <1>2, <2>2 DEF Gone, NoTask
  <2>. QED
    BY <2>1, <2>2
    DEF ReplicaStep, Dequeue, StartPass, ScanSource, ScanIndex, RefreshNext, EndPass,
        FailScan, Start, Close, Exit, Crash
<1>3. ReadsAreCurrent
  BY <1>2 DEF ReadsAreCurrent
<1>4. ASSUME NEW r \in Replicas, rec[r].phase # "asleep", rec'[r] = rec[r], pass'[r] = pass[r]
      PROVE  PassSound(r)'
  <2>1. RowsImprove(r)
    BY <1>0 DEF RowsImprove
  <2>2. PassSound(r)
    BY <1>4 DEF PassInv
  <2>. QED
    BY <1>0, <1>1, <1>3, <1>4, <2>1, <2>2, PassKept
<1>5. ASSUME NEW r \in Replicas, rec'[r].phase # "asleep" PROVE PassSound(r)'
  <2>1. CASE UNCHANGED <<rec, pass>>
    BY <1>4, <1>5, <2>1
  <2>2. CASE rec' = [rec EXCEPT ![q] = Asleep] /\ pass' = [pass EXCEPT ![q] = NoPass]
    <3>1. r # q
      BY <1>0, <1>5, <2>2 DEF Asleep, PassTypeOK
    <3>. QED
      BY <1>0, <1>4, <1>5, <2>2, <3>1 DEF PassTypeOK
  <2>3. CASE rec' = [rec EXCEPT ![q] = NewPass] /\ RememberStart(q) /\ UNCHANGED task
    <3>1. CASE r = q
      BY <1>0, <2>3, <3>1, PassBegins
    <3>2. CASE r # q
      BY <1>0, <1>4, <1>5, <2>3, <3>2 DEF PassTypeOK, RememberStart
    <3>. QED
      BY <3>1, <3>2
  <2>4. CASE ScanSource(q) \/ ScanIndex(q)
    <3>1. CASE r = q
      <4>1. rec[r].phase # "asleep"
        BY <2>4, <3>1 DEF ScanSource, ScanIndex
      <4>. QED
        BY <1>0, <2>4, <3>1, <4>1, ScanSourceKeepsPass, ScanIndexKeepsPass DEF PassInv
    <3>2. CASE r # q
      <4>1. pass' = pass /\ rec'[r] = rec[r]
        BY <1>0, <2>4, <3>2 DEF ScanSource, ScanIndex, PassTypeOK
      <4>. QED
        BY <1>4, <1>5, <4>1
    <3>. QED
      BY <3>1, <3>2
  <2>. QED
    BY <2>1, <2>2, <2>3, <2>4
    DEF ReplicaStep, Dequeue, StartPass, RefreshNext, EndPass, FailScan, Start, Close,
        Exit, Crash, Gone
<1>. QED
  BY <1>5 DEF PassInv

\* What a pass has achieved stays achieved until it ends, whoever writes
\* objects and rows meanwhile.
THEOREM PassInvariant == Spec => []PassInv
<1>1. Init => PassInv
  BY DEF Init, Asleep, PassInv
<1>2. ASSUME IndexInv, PassInv, [Next]_vars PROVE PassInv'
  <2>1. CASE UNCHANGED vars
    BY <1>2, <2>1
    DEF vars, PassInv, PassSound, PassRemembers, PassRepairs, Passed, ShowsSince, MissingSince
  <2>2. CASE MutationNext
    BY <1>2, <2>2, MutationKeepsPass DEF IndexInv
  <2>3. ASSUME NEW p \in Refreshers, RefreshStep(p) PROVE PassInv'
    BY <1>2, <2>3, RefreshKeepsPass
  <2>4. ASSUME NEW r \in Replicas, ReplicaStep(r) PROVE PassInv'
    BY <1>2, <2>4, ReplicaKeepsPass
  <2>. QED
    BY <1>2, <2>1, <2>2, <2>3, <2>4 DEF Next
<1>. QED
  BY <1>1, <1>2, IndexInvariant, PTL DEF Spec

\* When a full pass completes, every row shows a value its object has had
\* since the pass began, whatever notifications were dropped before.
THEOREM FullPassesRepair == Spec => []FullPassRepairs
<1>1. ASSUME PassInv, NEW r \in Replicas, PassComplete(r), NEW c \in Codes \ pass[r].late
      PROVE  ShowsSince(c, pass[r].began[c])
  <2>1. rec[r].phase = "index" /\ Passed(r, c)
    BY <1>1 DEF PassComplete, Passed
  <2>2. PassRepairs(r, c)
    BY <1>1, <2>1 DEF PassInv, PassSound
  <2>. QED
    BY <2>1, <2>2 DEF PassRepairs
<1>2. PassInv => FullPassRepairs
  BY <1>1 DEF FullPassRepairs
<1>. QED
  BY <1>2, PassInvariant, PTL

-------------------------------------------------------------------------------
(* Refinement: the index is a projection                                   *)

LEMMA InitIsProjection == Init => Abstract!Init
<1> SUFFICES ASSUME Init PROVE Abstract!Init
  OBVIOUS
<1>1. log \in [Codes -> {<<v>> : v \in InitObjects}]
  BY DEF Init
<1>2. \A c \in Codes : Len(log[c]) = 1
  BY <1>1
<1>. QED
  BY <1>2 DEF Init, Abstract!Init

\* A new value of one object is a Change of the projection.
LEMMA WriteIsChange ==
    ASSUME NEW c \in Codes, NEW v \in Values, SourceTypeOK,
           WriteObject(c, v), UNCHANGED <<row, rowVer>>
    PROVE  Abstract!Change(c)
<1>1. log \in [Codes -> Seq(Values)] /\ log' = [log EXCEPT ![c] = Append(@, v)]
  BY DEF SourceTypeOK, WriteObject
<1>2. log'[c] = Append(log[c], v) /\ log[c] \in Seq(Values)
  BY <1>1
<1>3. Len(log'[c]) = Len(log[c]) + 1 /\ log'[c][Len(log[c]) + 1] = v
  BY <1>2
<1>. QED
  BY <1>1, <1>3 DEF Abstract!Change

\* What a refresh writes is a Recompute: the value it read is no older than
\* the row.
LEMMA ApplyIsRecompute ==
    ASSUME NEW p \in Refreshers, IndexInv, task[p].step = "read",
           ApplyRow(p), UNCHANGED log
    PROVE  \E c \in Codes : Abstract!Recompute(c)
<1> DEFINE c == task[p].code
<1>1. /\ c \in Codes
      /\ task[p].ver \in 1 .. Len(log[c])
      /\ rowVer[c] <= task[p].ver
      /\ rowVer[c] \in Nat
  BY DEF IndexInv, ReadsFresh, TypeOK, TaskTypeOK, IndexTypeOK
<1>2. task[p].ver >= rowVer[c]
  BY <1>1
<1>3. /\ row' = [row EXCEPT ![c] = RefOf(log[c][task[p].ver])]
      /\ rowVer' = [rowVer EXCEPT ![c] = task[p].ver]
  BY DEF ApplyRow
<1>. QED
  BY <1>1, <1>2, <1>3 DEF Abstract!Recompute

LEMMA MutationIsProjection ==
    IndexInv /\ MutationNext => [Abstract!Next]_<<log, row, rowVer>>
<1> SUFFICES ASSUME IndexInv, MutationNext
             PROVE  Abstract!Next \/ UNCHANGED <<log, row, rowVer>>
  BY DEF Abstract!vars
<1>1. UNCHANGED <<row, rowVer>>
  BY DEF MutationNext, Create, Update, Delete, IncrVisit, HintStale, Notify, index
<1>2. SourceTypeOK
  BY DEF IndexInv, TypeOK
<1>. QED
  BY <1>1, <1>2, MutationWrites, WriteIsChange DEF Abstract!Next

LEMMA StepIsProjection ==
    IndexInv /\ [Next]_vars => [Abstract!Next]_<<log, row, rowVer>>
<1> SUFFICES ASSUME IndexInv, [Next]_vars
             PROVE  Abstract!Next \/ UNCHANGED <<log, row, rowVer>>
  OBVIOUS
<1>1. CASE MutationNext
  BY <1>1, MutationIsProjection
<1>2. ASSUME NEW p \in Refreshers, RefreshStep(p)
      PROVE  Abstract!Next \/ UNCHANGED <<log, row, rowVer>>
  <2>1. UNCHANGED log
    BY <1>2, RefreshIndexInv
  <2>2. UNCHANGED <<row, rowVer>> \/ (task[p].step = "read" /\ ApplyRow(p))
    BY <1>2 DEF RefreshStep, TakeLock, ReadSource, RefuseSource, Commit, FailRefresh,
                CancelRefresh, index
  <2>. QED
    BY <2>1, <2>2, ApplyIsRecompute DEF Abstract!Next
<1>3. ASSUME NEW r \in Replicas, ReplicaStep(r)
      PROVE  UNCHANGED <<log, row, rowVer>>
  BY <1>3 DEF ReplicaStep, Dequeue, StartPass, ScanSource, ScanIndex, RefreshNext,
              EndPass, FailScan, Start, Close, Exit, Crash, source, index
<1>4. CASE UNCHANGED vars
  BY <1>4 DEF vars
<1>. QED
  BY <1>1, <1>2, <1>3, <1>4 DEF Next

\* Whatever the queue, the locks and the failures do, what is seen of objects
\* and rows is a behaviour of the projection.
THEOREM Refinement == Spec => ImplementsProjection
<1>1. Init => Abstract!Init
  BY InitIsProjection
<1>2. IndexInv /\ [Next]_vars => [Abstract!Next]_<<log, row, rowVer>>
  BY StepIsProjection
<1>. QED
  BY <1>1, <1>2, IndexInvariant, PTL
     DEF Spec, ImplementsProjection, Abstract!Spec, Abstract!vars
===============================================================================
