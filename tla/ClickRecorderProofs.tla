-------------------------- MODULE ClickRecorderProofs --------------------------
(***************************************************************************)
(* Theorems about ClickRecorder, for any sizes of the channel, the batch   *)
(* and the streams, and any number of clicks. RecorderInv follows an event *)
(* from the channel to the end of its flush, StreamInv what Redis makes of *)
(* the flushes, LateInv what it may still run of those that were given up, *)
(* ListingInv what a client has got that pages meanwhile.                  *)
(***************************************************************************)
EXTENDS ClickRecorder, TLAPS, WellFoundedInduction, FiniteSetTheorems

\* How far the worker must be, given Close: a stopped worker has seen the stop,
\* and leaves the drain only after it has batched all that came before.
DrainOK ==
    /\ worker \in {"drain", "drain_flush", "last_flush", "exited"} => close # "open"
    /\ close # "open" => onTime <= Len(accepted)
    /\ worker \in {"last_flush", "exited"} => onTime <= settled + Len(batch)
    /\ worker = "exited" => batch = <<>>
    /\ close = "drained" => worker = "exited"

RecorderInv == QueueOK /\ EveryEventAccountedFor /\ DrainOK

\* What the actions do to the queue.
Arrive ==
    \E e \in Events :
        /\ Len(in) < BufferSize
        /\ in' = Append(in, e) /\ accepted' = Append(accepted, e)
        /\ clicks' \in 0 .. MaxClicks
        /\ UNCHANGED <<worker_vars, close, settled, onTime>>

EndOfFlush ==
    /\ InFlush
    /\ worker' = Resumed[worker]
    /\ tries' = 0
    /\ batch' = <<>>
    /\ settled' = settled + Len(batch)
    /\ UNCHANGED <<clicks, in, ticked, close, accepted, onTime>>

LEMMA ArrivePreserves ==
    ASSUME RecorderAssumption, RecorderInv, Arrive
    PROVE  RecorderInv'
<1>1. PICK e \in Events :
          /\ Len(in) < BufferSize
          /\ in' = Append(in, e) /\ accepted' = Append(accepted, e)
          /\ clicks' \in 0 .. MaxClicks
          /\ UNCHANGED <<worker_vars, close, settled, onTime>>
  BY DEF Arrive
<1>2. /\ in \in Seq(Events) /\ accepted \in Seq(Events) /\ batch \in Seq(Events)
      /\ settled \in Nat /\ BufferSize \in Nat
  BY DEF RecorderInv, QueueOK, RecorderAssumption
<1>3. /\ in' \in Seq(Events) /\ Len(in') = Len(in) + 1
      /\ accepted' \in Seq(Events) /\ Len(accepted') = Len(accepted) + 1
      /\ \A i \in 1 .. Len(in) : in'[i] = in[i]
      /\ in'[Len(in) + 1] = e
      /\ \A i \in 1 .. Len(accepted) : accepted'[i] = accepted[i]
      /\ accepted'[Len(accepted) + 1] = e
  BY <1>1, <1>2
<1>4. QueueOK'
  BY <1>1, <1>2, <1>3 DEF RecorderInv, QueueOK, worker_vars
<1>5. EveryEventAccountedFor'
  <2>1. batch' = batch /\ settled' = settled
    BY <1>1 DEF worker_vars
  <2>2. Len(accepted') = settled' + Len(batch') + Len(in')
    BY <1>2, <1>3, <2>1 DEF RecorderInv, EveryEventAccountedFor
  <2>3. ASSUME NEW i \in 1 .. Len(batch')
        PROVE  batch'[i] = accepted'[settled' + i]
    <3>1. settled + i \in 1 .. Len(accepted)
      BY <1>2, <2>1 DEF RecorderInv, EveryEventAccountedFor
    <3>2. batch[i] = accepted[settled + i]
      BY <2>1 DEF RecorderInv, EveryEventAccountedFor
    <3> QED
      BY <1>3, <2>1, <3>1, <3>2
  <2>4. \A i \in 1 .. Len(in') : in'[i] = accepted'[settled' + Len(batch') + i]
    <3>1. ASSUME NEW i \in 1 .. Len(in) PROVE in'[i] = accepted'[settled' + Len(batch') + i]
      <4>1. settled + Len(batch) + i \in 1 .. Len(accepted)
        BY <1>2 DEF RecorderInv, EveryEventAccountedFor
      <4>2. in[i] = accepted[settled + Len(batch) + i]
        BY DEF RecorderInv, EveryEventAccountedFor
      <4> QED
        BY <1>3, <2>1, <4>1, <4>2
    <3>2. settled' + Len(batch') + Len(in) + 1 = Len(accepted) + 1
      BY <1>2, <2>1 DEF RecorderInv, EveryEventAccountedFor
    <3>3. ASSUME NEW i \in 1 .. Len(in'), i \notin 1 .. Len(in) PROVE i = Len(in) + 1
      BY <1>2, <1>3, <3>3
    <3>4. in'[Len(in) + 1] = accepted'[settled' + Len(batch') + (Len(in) + 1)]
      BY <1>2, <1>3, <2>1, <3>2
    <3> QED
      BY <3>1, <3>3, <3>4
  <2> QED
    BY <2>2, <2>3, <2>4 DEF EveryEventAccountedFor
<1>6. DrainOK'
  BY <1>1, <1>2, <1>3 DEF RecorderInv, DrainOK, QueueOK, worker_vars
<1> QED
  BY <1>4, <1>5, <1>6 DEF RecorderInv

LEMMA ReceivePreserves ==
    ASSUME RecorderAssumption, RecorderInv, Receive
    PROVE  RecorderInv'
<1>1. /\ in \in Seq(Events) /\ accepted \in Seq(Events) /\ batch \in Seq(Events)
      /\ settled \in Nat /\ BatchSize \in Nat /\ BufferSize \in Nat
  BY DEF RecorderInv, QueueOK, RecorderAssumption
<1>2. /\ in # <<>> /\ worker \in {"select", "drain"}
      /\ in' = Tail(in) /\ batch' = Append(batch, Head(in))
      /\ accepted' = accepted /\ settled' = settled /\ onTime' = onTime
      /\ close' = close /\ clicks' = clicks /\ ticked' = ticked /\ tries' = tries
      /\ worker' = IF Len(batch) + 1 >= BatchSize THEN Flushing[worker] ELSE worker
  BY DEF Receive, history_vars
<1>3. /\ in' \in Seq(Events) /\ Len(in) >= 1 /\ Len(in') = Len(in) - 1
      /\ batch' \in Seq(Events) /\ Len(batch') = Len(batch) + 1
      /\ \A i \in 1 .. Len(in') : in'[i] = in[i + 1]
      /\ \A i \in 1 .. Len(batch) : batch'[i] = batch[i]
      /\ batch'[Len(batch) + 1] = in[1]
  BY <1>1, <1>2
<1>4. worker' \in {"select", "drain", "flush", "drain_flush"}
      /\ (worker' \in {"select", "drain"} => worker' = worker /\ Len(batch) + 1 < BatchSize)
      /\ (worker' \in {"drain", "drain_flush"} => worker = "drain")
  BY <1>1, <1>2 DEF Flushing
<1>5. QueueOK'
  BY <1>1, <1>2, <1>3, <1>4 DEF RecorderInv, QueueOK
<1>6. EveryEventAccountedFor'
  <2>1. Len(accepted') = settled' + Len(batch') + Len(in')
    <3>1. Len(accepted) = settled + Len(batch) + Len(in)
      BY DEF RecorderInv, EveryEventAccountedFor
    <3>2. Len(in) \in Nat /\ Len(batch) \in Nat
      BY <1>1
    <3> QED
      BY <1>1, <1>2, <1>3, <3>1, <3>2
  <2>2. ASSUME NEW i \in 1 .. Len(batch') PROVE batch'[i] = accepted'[settled' + i]
    <3>1. CASE i \in 1 .. Len(batch)
      <4>1. batch[i] = accepted[settled + i]
        BY <3>1 DEF RecorderInv, EveryEventAccountedFor
      <4> QED
        BY <1>2, <1>3, <3>1, <4>1
    <3>2. CASE i = Len(batch) + 1
      <4>1. in[1] = accepted[settled + Len(batch) + 1]
        BY <1>1, <1>3 DEF RecorderInv, EveryEventAccountedFor
      <4>2. settled' + i = settled + Len(batch) + 1
        BY <1>1, <1>2, <3>2
      <4> QED
        BY <1>2, <1>3, <3>2, <4>1, <4>2
    <3> QED
      BY <1>1, <1>3, <3>1, <3>2
  <2>3. ASSUME NEW i \in 1 .. Len(in')
        PROVE  in'[i] = accepted'[settled' + Len(batch') + i]
    <3>1. i + 1 \in 1 .. Len(in)
      BY <1>1, <1>3
    <3>2. in[i + 1] = accepted[settled + Len(batch) + (i + 1)]
      BY <3>1 DEF RecorderInv, EveryEventAccountedFor
    <3>3. settled' + Len(batch') + i = settled + Len(batch) + (i + 1)
      BY <1>1, <1>2, <1>3
    <3> QED
      BY <1>2, <1>3, <3>2, <3>3
  <2> QED
    BY <2>1, <2>2, <2>3 DEF EveryEventAccountedFor
<1>7. DrainOK'
  BY <1>1, <1>2, <1>3, <1>4 DEF RecorderInv, DrainOK
<1> QED
  BY <1>5, <1>6, <1>7 DEF RecorderInv

LEMMA EndOfFlushPreserves ==
    ASSUME RecorderAssumption, RecorderInv, EndOfFlush
    PROVE  RecorderInv'
<1>1. /\ in \in Seq(Events) /\ accepted \in Seq(Events) /\ batch \in Seq(Events)
      /\ settled \in Nat /\ onTime \in Nat /\ BatchSize \in Nat \ {0} /\ Retries \in Nat
  BY DEF RecorderInv, QueueOK, RecorderAssumption
<1>2. /\ worker' \in {"select", "drain", "exited"}
      /\ (worker' = "exited" => worker = "last_flush")
      /\ (worker' = "drain" => worker = "drain_flush")
  BY DEF EndOfFlush, InFlush, Resumed
<1>3. batch' = <<>> /\ Len(batch') = 0 /\ batch' \in Seq(Events)
  BY DEF EndOfFlush
<1>4. worker # "exited"
  BY DEF EndOfFlush, InFlush
<1>5. QueueOK'
  BY <1>1, <1>2, <1>3 DEF RecorderInv, QueueOK, EndOfFlush
<1>6. EveryEventAccountedFor'
  <2>1. settled' = settled + Len(batch) /\ in' = in /\ accepted' = accepted
    BY DEF EndOfFlush
  <2>2. Len(accepted) = settled + Len(batch) + Len(in)
        /\ \A i \in 1 .. Len(in) : in[i] = accepted[settled + Len(batch) + i]
    BY DEF RecorderInv, EveryEventAccountedFor
  <2>3. settled' + Len(batch') = settled + Len(batch)
    BY <1>1, <1>3, <2>1
  <2> QED
    BY <1>1, <1>3, <2>1, <2>2, <2>3 DEF EveryEventAccountedFor
<1>7. DrainOK'
  BY <1>1, <1>2, <1>3, <1>4 DEF RecorderInv, DrainOK, EndOfFlush
<1> QED
  BY <1>5, <1>6, <1>7 DEF RecorderInv

-------------------------------------------------------------------------------
(* The inductive invariant                                                 *)

LEMMA RecorderInit ==
    ASSUME RecorderAssumption, Init
    PROVE  RecorderInv
<1>1. /\ BufferSize \in Nat /\ BatchSize \in Nat \ {0}
      /\ MaxClicks \in Nat /\ Retries \in Nat
  BY DEF RecorderAssumption
<1>2. /\ in = <<>> /\ batch = <<>> /\ accepted = <<>>
      /\ clicks = 0 /\ tries = 0 /\ settled = 0 /\ onTime = 0
      /\ ticked = FALSE /\ worker = "select" /\ close = "open"
  BY DEF Init
<1>3. QueueOK
  <2>1. <<>> \in Seq(Events) /\ Len(<<>>) = 0
    OBVIOUS
  <2>2. 0 <= BufferSize /\ 0 < BatchSize /\ 0 <= BatchSize
        /\ clicks \in 0 .. MaxClicks /\ tries \in 0 .. Retries
        /\ settled \in Nat /\ onTime \in Nat
    BY <1>1, <1>2
  <2>3. ticked \in BOOLEAN
    BY <1>2
  <2> QED
    BY <1>2, <2>1, <2>2, <2>3, Zenon DEF QueueOK
<1>4. EveryEventAccountedFor /\ DrainOK
  BY <1>2 DEF EveryEventAccountedFor, DrainOK
<1> QED
  BY <1>3, <1>4 DEF RecorderInv

\* The recorder's invariant is inductive.
LEMMA RecorderStep ==
    ASSUME RecorderAssumption, RecorderInv, [Next]_vars
    PROVE  RecorderInv'
<1> USE DEF RecorderInv, QueueOK, EveryEventAccountedFor, DrainOK
<1>0. MaxClicks \in Nat /\ Retries \in Nat
  BY DEF RecorderAssumption
<1>1. CASE Record
  <2>1. Arrive \/ UNCHANGED <<in, accepted>>
    <3>1. PICK c \in Codes :
              LET evt == [number |-> clicks + 1, code |-> c] IN
              IF Len(in) < BufferSize
              THEN in' = Append(in, evt) /\ accepted' = Append(accepted, evt)
              ELSE UNCHANGED <<in, accepted>>
      BY <1>1 DEF Record
    <3>2. clicks + 1 \in 1 .. MaxClicks /\ clicks' = clicks + 1
      BY <1>0, <1>1 DEF Record
    <3> DEFINE evt == [number |-> clicks + 1, code |-> c]
    <3>3. evt \in Events
      BY <3>2 DEF Events
    <3>4. clicks' \in 0 .. MaxClicks
          /\ UNCHANGED <<worker_vars, close, settled, onTime>>
      BY <1>0, <1>1, <3>2 DEF Record
    <3> HIDE DEF evt
    <3>5. CASE Len(in) < BufferSize
      <4>1. in' = Append(in, evt) /\ accepted' = Append(accepted, evt)
        BY <3>1, <3>5 DEF evt
      <4> QED
        BY <3>3, <3>4, <3>5, <4>1 DEF Arrive
    <3>6. CASE ~(Len(in) < BufferSize)
      BY <3>1, <3>6
    <3> QED
      BY <3>5, <3>6
  <2>2. CASE Arrive
    BY <2>2, ArrivePreserves
  <2>3. CASE UNCHANGED <<in, accepted>>
    <3>1. clicks' \in 0 .. MaxClicks
      BY <1>0, <1>1 DEF Record
    <3> QED
      BY <1>1, <2>3, <3>1 DEF Record, worker_vars
  <2> QED
    BY <2>1, <2>2, <2>3
<1>2. CASE Receive
  BY <1>2, ReceivePreserves
<1>3. CASE Tick
  BY <1>3 DEF Tick, history_vars
<1>4. CASE FlushOnTick
  BY <1>4 DEF FlushOnTick, history_vars
<1>5. CASE SeeStop
  BY <1>5 DEF SeeStop, history_vars
<1>6. CASE Drained
  BY <1>6 DEF Drained, history_vars
<1>7. CASE ExecOk \/ ExecBroken \/ ExecRefused
  <2>1. EndOfFlush
    BY <1>7 DEF ExecOk, ExecBroken, ExecRefused, EndFlush, EndOfFlush
  <2> QED
    BY <2>1, EndOfFlushPreserves
<1>8. CASE Retransmit
  <2>1. tries' \in 0 .. Retries
    BY <1>0, <1>8 DEF Retransmit
  <2>2. UNCHANGED <<clicks, in, batch, ticked, worker, close, history_vars>>
    BY <1>8 DEF Retransmit
  <2> QED
    BY <2>1, <2>2 DEF history_vars
<1>9. CASE Close
  BY <1>9 DEF Close, worker_vars
<1>10. CASE CloseDrained
  BY <1>10 DEF CloseDrained, worker_vars, history_vars
<1>11. CASE CloseExpired
  BY <1>11 DEF CloseExpired, worker_vars, history_vars
<1>12. CASE \E l \in Listings : StartListing(l) \/ List(l)
  BY <1>12 DEF StartListing, List, worker_vars, history_vars
<1>13. CASE ExecLate \/ UNCHANGED vars
  BY <1>13 DEF ExecLate, vars, worker_vars, history_vars
<1> QED
  BY <1>1, <1>2, <1>3, <1>4, <1>5, <1>6, <1>7, <1>8, <1>9, <1>10, <1>11, <1>12, <1>13
  DEF Next, Worker

\* The invariant of the queue holds for any sizes and any number of clicks.
THEOREM RecorderInvariant == Spec => []RecorderInv
<1>1. RecorderAssumption
  BY RecorderAssumption
<1> QED
  BY <1>1, RecorderInit, RecorderStep, PTL DEF Spec

\* From the channel to the end of its flush no event is lost, doubled or
\* overtaken (recorder.go:106-116, 155-196).
THEOREM NoEventLost == Spec => []EveryEventAccountedFor
<1>1. RecorderInv => EveryEventAccountedFor
  BY DEF RecorderInv
<1> QED
  BY <1>1, RecorderInvariant, PTL

\* A Close that reports success has settled every event accepted before it was
\* called (recorder.go:84-103, 182-195).
THEOREM CloseIsComplete == Spec => []CloseDrains
<1>1. RecorderInv => CloseDrains
  BY DEF RecorderInv, QueueOK, DrainOK, CloseDrains
<1> QED
  BY <1>1, RecorderInvariant, PTL

-------------------------------------------------------------------------------
(* Induction, over sets of numbers instead of predicates                   *)

LEMMA LeastNatural ==
    ASSUME NEW T, T \subseteq Nat, T # {}
    PROVE  \E m \in T : \A k \in T : ~(k < m)
<1> DEFINE R == OpToRel(<, Nat)
<1>1. IsWellFoundedOn(R, Nat)
  BY NatLessThanWellFounded
<1>2. \A k, m \in Nat : k < m => <<k, m>> \in R
  BY DEF OpToRel
<1> HIDE DEF R
<1>3. PICK m \in T : \A k \in T : <<k, m>> \notin R
  BY <1>1, WFMin
<1> QED
  BY <1>2, <1>3

LEMMA SetInduction ==
    ASSUME NEW S, 0 \in S, \A n \in Nat : n \in S => n + 1 \in S
    PROVE  Nat \subseteq S
<1> SUFFICES ASSUME Nat \ S # {} PROVE FALSE
  OBVIOUS
<1>1. PICK m \in Nat \ S : \A k \in Nat \ S : ~(k < m)
  BY LeastNatural
<1>2. m # 0 /\ m - 1 \in Nat /\ m - 1 \in S
  BY <1>1
<1>3. m - 1 + 1 = m
  BY <1>1
<1> QED
  BY <1>1, <1>2, <1>3

-------------------------------------------------------------------------------
(* What EventsOf returns                                                   *)

\* f filters the prefixes of s that have up to n events.
Filters(f, c, s, n) ==
    f = [m \in 0 .. n |->
            IF m = 0 THEN <<>>
            ELSE IF s[m].code = c THEN Append(f[m - 1], s[m]) ELSE f[m - 1]]

LEMMA FilterExists ==
    ASSUME NEW c, NEW s, NEW n \in Nat
    PROVE  \E f : Filters(f, c, s, n)
<1> DEFINE S == {m \in Nat : \E f : Filters(f, c, s, m)}
<1>1. 0 \in S
  <2> DEFINE f == [m \in 0 .. 0 |-> <<>>]
  <2>1. Filters(f, c, s, 0)
    BY DEF Filters
  <2> QED
    BY <2>1
<1>2. ASSUME NEW m \in Nat, m \in S PROVE m + 1 \in S
  <2>1. PICK f : Filters(f, c, s, m)
    BY <1>2
  <2> DEFINE last == IF s[m + 1].code = c THEN Append(f[m], s[m + 1]) ELSE f[m]
             g == [k \in 0 .. m + 1 |-> IF k = m + 1 THEN last ELSE f[k]]
  <2>2. \A k \in 0 .. m : g[k] = f[k]
    OBVIOUS
  <2>3. \A k \in 0 .. m : f[k] =
           IF k = 0 THEN <<>> ELSE IF s[k].code = c THEN Append(f[k - 1], s[k]) ELSE f[k - 1]
    BY <2>1 DEF Filters
  <2>4. ASSUME NEW k \in 0 .. m + 1
        PROVE  g[k] = IF k = 0 THEN <<>>
                      ELSE IF s[k].code = c THEN Append(g[k - 1], s[k]) ELSE g[k - 1]
    <3>1. CASE k = m + 1
      <4>1. g[k] = last /\ k # 0 /\ k - 1 = m /\ g[k - 1] = f[m]
        BY <3>1
      <4> QED
        BY <3>1, <4>1
    <3>2. CASE k \in 0 .. m
      <4>1. k # 0 => g[k - 1] = f[k - 1]
        BY <2>2, <3>2
      <4> QED
        BY <2>2, <2>3, <3>2, <4>1
    <3> QED
      BY <3>1, <3>2
  <2> DEFINE h == [k \in 0 .. m + 1 |->
                     IF k = 0 THEN <<>>
                     ELSE IF s[k].code = c THEN Append(g[k - 1], s[k]) ELSE g[k - 1]]
  <2>5. g = h
    <3>1. \A k \in 0 .. m + 1 : g[k] = h[k]
      BY <2>4
    <3> QED
      BY <3>1
  <2>6. Filters(g, c, s, m + 1)
    BY <2>5 DEF Filters
  <2> QED
    BY <2>6
<1>3. Nat \subseteq S
  <2> HIDE DEF S
  <2> QED
    BY <1>1, <1>2, SetInduction
<1> QED
  BY <1>3

\* Events of the batch with one code, none left out up to the last, in their order.
InOrder(t, c, s) ==
    /\ \A q \in 1 .. Len(t) :
         /\ \E d \in 1 .. Len(s) : t[q] = s[d] /\ s[d].code = c
         /\ \A a \in 1 .. Len(s) : s[a].code = c /\ s[a].number < t[q].number =>
              \E p \in 1 .. q - 1 : t[p] = s[a]
    /\ \A p, q \in 1 .. Len(t) : p < q => t[p].number < t[q].number

LEMMA EventsOfFilters ==
    ASSUME NEW c, NEW s, Len(s) \in Nat
    PROVE  \E f : Filters(f, c, s, Len(s)) /\ EventsOf(c, s) = f[Len(s)]
<1> DEFINE f == CHOOSE f : Filters(f, c, s, Len(s))
<1>1. Filters(f, c, s, Len(s))
  BY FilterExists
<1>2. EventsOf(c, s) = f[Len(s)]
  BY DEF EventsOf, Filters
<1> QED
  BY <1>1, <1>2

LEMMA EventType ==
    ASSUME NEW e \in Events
    PROVE  e.number \in Nat /\ e.code \in Codes
<1>1. MaxClicks \in Nat
  BY RecorderAssumption DEF RecorderAssumption
<1> QED
  BY <1>1 DEF Events

\* The events of a code among increasing ones.
Increasing(s) == \A i, j \in 1 .. Len(s) : i < j => s[i].number < s[j].number

LEMMA EventsOfInOrder ==
    ASSUME NEW c, NEW s \in Seq(Events), Increasing(s)
    PROVE  /\ EventsOf(c, s) \in Seq(Events) /\ InOrder(EventsOf(c, s), c, s)
           /\ \A d \in 1 .. Len(s) : s[d].code = c =>
                \E q \in 1 .. Len(EventsOf(c, s)) : EventsOf(c, s)[q] = s[d]
<1>1. Len(s) \in Nat /\ \A d \in 1 .. Len(s) : s[d] \in Events /\ s[d].number \in Nat
  <2>1. Len(s) \in Nat /\ \A d \in 1 .. Len(s) : s[d] \in Events
    OBVIOUS
  <2> QED
    BY <2>1, EventType
<1>2. PICK f : Filters(f, c, s, Len(s)) /\ EventsOf(c, s) = f[Len(s)]
  BY <1>1, EventsOfFilters
<1>9. /\ f[0] = <<>>
      /\ \A n \in 1 .. Len(s) :
           f[n] = IF s[n].code = c THEN Append(f[n - 1], s[n]) ELSE f[n - 1]
  <2>1. \A n \in 0 .. Len(s) : f[n] =
           IF n = 0 THEN <<>> ELSE IF s[n].code = c THEN Append(f[n - 1], s[n]) ELSE f[n - 1]
    BY <1>2 DEF Filters
  <2>2. 0 \in 0 .. Len(s) /\ \A n \in 1 .. Len(s) : n \in 0 .. Len(s) /\ n # 0
    BY <1>1
  <2> QED
    BY <2>1, <2>2
<1> DEFINE Picked(n) ==
              /\ f[n] \in Seq(Events)
              /\ \A q \in 1 .. Len(f[n]) : \E d \in 1 .. n : f[n][q] = s[d] /\ s[d].code = c
              /\ \A d \in 1 .. n : s[d].code = c => \E q \in 1 .. Len(f[n]) : f[n][q] = s[d]
              /\ \A p, q \in 1 .. Len(f[n]) : p < q => f[n][p].number < f[n][q].number
           S == {n \in Nat : n <= Len(s) => Picked(n)}
<1>3. 0 \in S
  <2>1. f[0] = <<>>
    BY <1>9
  <2>2. Picked(0)
    BY <2>1
  <2> QED
    BY <2>2
<1>4. ASSUME NEW n \in Nat, n \in S PROVE n + 1 \in S
  <2> SUFFICES ASSUME n + 1 <= Len(s) PROVE Picked(n + 1)
    OBVIOUS
  <2>1. Picked(n) /\ n + 1 \in 1 .. Len(s) /\ s[n + 1] \in Events
    <3>1. n <= Len(s)
      BY <1>1
    <3> QED
      BY <1>1, <1>4, <3>1
  <2>2. f[n + 1] = IF s[n + 1].code = c THEN Append(f[n], s[n + 1]) ELSE f[n]
    <3>1. n + 1 - 1 = n
      OBVIOUS
    <3> QED
      BY <1>9, <2>1, <3>1
  <2>3. \A d \in 1 .. n + 1 : d \in 1 .. n \/ d = n + 1
    OBVIOUS
  <2>4. CASE s[n + 1].code # c
    BY <2>1, <2>2, <2>3, <2>4
  <2>5. CASE s[n + 1].code = c
    <3> DEFINE g == f[n]
               h == f[n + 1]
    <3>1. h = Append(g, s[n + 1]) /\ g \in Seq(Events)
      BY <2>1, <2>2, <2>5
    <3>2. /\ h \in Seq(Events) /\ Len(g) \in Nat /\ Len(h) = Len(g) + 1
          /\ h[Len(g) + 1] = s[n + 1] /\ \A q \in 1 .. Len(g) : h[q] = g[q]
      BY <2>1, <3>1
    <3>3. \A q \in 1 .. Len(g) : \E d \in 1 .. n : g[q] = s[d] /\ s[d].code = c
      BY <2>1
    <3>4. \A d \in 1 .. n : s[d].code = c => \E q \in 1 .. Len(g) : g[q] = s[d]
      BY <2>1
    <3>5. \A p, q \in 1 .. Len(g) : p < q => g[p].number < g[q].number
      BY <2>1
    <3> HIDE DEF g, h
    <3>6. \A q \in 1 .. Len(h) : q \in 1 .. Len(g) \/ q = Len(g) + 1
      BY <3>2
    <3>7. ASSUME NEW q \in 1 .. Len(h)
          PROVE  \E d \in 1 .. n + 1 : h[q] = s[d] /\ s[d].code = c
      <4>1. CASE q \in 1 .. Len(g)
        BY <3>2, <3>3, <4>1
      <4>2. CASE q = Len(g) + 1
        BY <2>5, <3>2, <4>2
      <4> QED
        BY <3>6, <4>1, <4>2
    <3>8. \A d \in 1 .. n + 1 : s[d].code = c => \E q \in 1 .. Len(h) : h[q] = s[d]
      BY <2>3, <3>2, <3>4
    <3>9. ASSUME NEW p \in 1 .. Len(h), NEW q \in 1 .. Len(h), p < q
          PROVE  h[p].number < h[q].number
      <4>1. p \in 1 .. Len(g)
        BY <3>2, <3>9
      <4>2. CASE q \in 1 .. Len(g)
        BY <3>2, <3>5, <3>9, <4>1, <4>2
      <4>3. CASE q = Len(g) + 1
        <5>1. PICK d \in 1 .. n : g[p] = s[d]
          BY <3>3, <4>1
        <5>2. d \in 1 .. Len(s) /\ d < n + 1 /\ h[p] = s[d]
          BY <2>1, <3>2, <4>1, <5>1
        <5> QED
          BY <2>1, <3>2, <4>3, <5>2 DEF Increasing
      <4> QED
        BY <3>6, <4>2, <4>3
    <3> QED
      BY <3>2, <3>7, <3>8, <3>9 DEF h
  <2> QED
    BY <2>4, <2>5
<1>5. Nat \subseteq S
  <2> HIDE DEF S
  <2> QED
    BY <1>3, <1>4, SetInduction
<1>6. Picked(Len(s))
  <2>1. Len(s) \in S
    <3> HIDE DEF S
    <3> QED
      BY <1>1, <1>5
  <2>2. \A n \in S : n <= Len(s) => Picked(n)
    <3> HIDE DEF Picked
    <3> QED
      OBVIOUS
  <2> HIDE DEF S, Picked
  <2> QED
    BY <1>1, <2>1, <2>2
<1> DEFINE t == EventsOf(c, s)
<1>7. /\ t \in Seq(Events)
      /\ \A q \in 1 .. Len(t) : \E d \in 1 .. Len(s) : t[q] = s[d] /\ s[d].code = c
      /\ \A d \in 1 .. Len(s) : s[d].code = c => \E q \in 1 .. Len(t) : t[q] = s[d]
      /\ \A p, q \in 1 .. Len(t) : p < q => t[p].number < t[q].number
  BY <1>2, <1>6
<1> HIDE DEF t
<1>8. ASSUME NEW q \in 1 .. Len(t), NEW a \in 1 .. Len(s), s[a].code = c,
             s[a].number < t[q].number
      PROVE  \E p \in 1 .. q - 1 : t[p] = s[a]
  <2>1. PICK p \in 1 .. Len(t) : t[p] = s[a]
    BY <1>7, <1>8
  <2>2. t[q] \in Events /\ t[q].number \in Nat /\ t[p].number \in Nat /\ Len(t) \in Nat
    <3>1. t \in Seq(Events)
      BY <1>7
    <3>2. Len(t) \in Nat /\ t[q] \in Events
      BY <3>1
    <3> QED
      BY <1>1, <2>1, <3>2, EventType
  <2>3. ~(q < p) /\ p # q
    <3>1. q < p => t[q].number < t[p].number
      BY <1>7
    <3> QED
      BY <1>8, <2>1, <2>2, <3>1
  <2> QED
    BY <2>1, <2>2, <2>3
<1> QED
  BY <1>7, <1>8 DEF InOrder, t

-------------------------------------------------------------------------------
(* What flushes make of the batch                                          *)

\* Clicks are numbered in the order in which they were accepted.
Numbered ==
    /\ \A i \in 1 .. Len(accepted) : accepted[i].number <= clicks
    /\ \A i, j \in 1 .. Len(accepted) : i < j => accepted[i].number < accepted[j].number

\* A stream holds events of its code that were settled or are being flushed.
Reached == IF InFlush THEN settled + Len(batch) ELSE settled

StreamsHoldAccepted ==
    \A c \in Codes : \A i \in 1 .. Len(stream[c]) :
        \E m \in 1 .. Reached : accepted[m] = stream[c][i] /\ accepted[m].code = c

\* Whatever of the batch is in a stream came there behind all the batch has before it.
BatchInOrder ==
    \A c \in Codes : \A i \in 1 .. Len(stream[c]), a \in 1 .. Len(batch) :
        batch[a].code = c /\ batch[a].number < stream[c][i].number =>
            \E k \in 1 .. i - 1 : stream[c][k] = batch[a]

StoreOK ==
    /\ stream \in [Codes -> Seq(Events)] /\ trimmed \in [Codes -> Nat]
    /\ failed \subseteq 1 .. MaxClicks

\* What Redis may still run of a pipeline is of flushes that are over, or the end of
\* the batch being flushed, all before it stored.
Over(evts) == \A q \in 1 .. Len(evts) : \E m \in 1 .. settled : accepted[m] = evts[q]

Pending(evts) ==
    InFlush /\ \E a \in 1 .. Len(batch) :
        /\ Len(evts) = Len(batch) - a + 1
        /\ \A q \in 1 .. Len(evts) : evts[q] = batch[a + q - 1]
        /\ \A b \in 1 .. a - 1 : Stored(batch[b])

LateInv ==
    /\ late \subseteq [attempt : 0 .. Retries, evts : Seq(Events)]
    /\ \A p \in late : p.evts # <<>> /\ (Over(p.evts) \/ Pending(p.evts))

StreamInv ==
    /\ StoreOK /\ Numbered /\ StreamsHoldAccepted /\ BatchInOrder
    /\ SettledMeansStored /\ StreamsKeepOrder

\* The batch comes behind all that was settled, in the order of the clicks.
LEMMA BatchNumbers ==
    ASSUME RecorderInv, Numbered
    PROVE  /\ Len(batch) \in Nat /\ settled \in Nat /\ Len(accepted) \in Nat
           /\ settled + Len(batch) <= Len(accepted)
           /\ \A i \in 1 .. Len(accepted) : accepted[i] \in Events
           /\ \A a \in 1 .. Len(batch) : batch[a] \in Events /\ batch[a] = accepted[settled + a]
           /\ \A a, d \in 1 .. Len(batch) : a < d => batch[a].number < batch[d].number
           /\ \A m \in 1 .. settled, a \in 1 .. Len(batch) : accepted[m].number < batch[a].number
<1>1. /\ batch \in Seq(Events) /\ in \in Seq(Events) /\ accepted \in Seq(Events)
      /\ settled \in Nat /\ Len(accepted) = settled + Len(batch) + Len(in)
      /\ \A a \in 1 .. Len(batch) : batch[a] = accepted[settled + a]
  BY DEF RecorderInv, QueueOK, EveryEventAccountedFor
<1>2. Len(batch) \in Nat /\ Len(in) \in Nat /\ Len(accepted) \in Nat
  BY <1>1
<1>3. \A i, j \in 1 .. Len(accepted) : i < j => accepted[i].number < accepted[j].number
  BY DEF Numbered
<1>4. /\ \A i \in 1 .. Len(accepted) : accepted[i] \in Events
      /\ \A a \in 1 .. Len(batch) : batch[a] \in Events
  BY <1>1
<1>5. \A a \in 1 .. Len(batch) : settled + a \in 1 .. Len(accepted)
  BY <1>1, <1>2
<1>6. \A a, d \in 1 .. Len(batch) : a < d => batch[a].number < batch[d].number
  BY <1>1, <1>2, <1>3, <1>5
<1>7. \A m \in 1 .. settled, a \in 1 .. Len(batch) : accepted[m].number < batch[a].number
  BY <1>1, <1>2, <1>3, <1>5
<1> QED
  BY <1>1, <1>2, <1>4, <1>6, <1>7

\* What the first n commands of a pipeline append.
LEMMA FirstInOrder ==
    ASSUME RecorderInv, Numbered, NEW n \in 0 .. Len(batch), NEW c \in Codes
    PROVE  LET t == EventsOf(c, SubSeq(batch, 1, n)) IN
           /\ t \in Seq(Events) /\ InOrder(t, c, batch)
           /\ \A a \in 1 .. n : batch[a].code = c => \E q \in 1 .. Len(t) : t[q] = batch[a]
<1> DEFINE s == SubSeq(batch, 1, n)
           t == EventsOf(c, s)
<1>1. Len(batch) \in Nat /\ \A a, d \in 1 .. Len(batch) : a < d => batch[a].number < batch[d].number
  BY BatchNumbers
<1>2. batch \in Seq(Events)
  BY DEF RecorderInv, QueueOK
<1>3. s \in Seq(Events) /\ Len(s) = n /\ \A i \in 1 .. n : s[i] = batch[i]
  BY <1>1, <1>2
<1> HIDE DEF s
<1>4. Increasing(s)
  BY <1>1, <1>3 DEF Increasing
<1>5. /\ t \in Seq(Events) /\ InOrder(t, c, s)
      /\ \A d \in 1 .. Len(s) : s[d].code = c => \E q \in 1 .. Len(t) : t[q] = s[d]
  BY <1>3, <1>4, EventsOfInOrder
<1> HIDE DEF t
<1>6. ASSUME NEW q \in 1 .. Len(t)
      PROVE  /\ \E d \in 1 .. Len(batch) : t[q] = batch[d] /\ batch[d].code = c
             /\ \A a \in 1 .. Len(batch) : batch[a].code = c /\ batch[a].number < t[q].number =>
                  \E p \in 1 .. q - 1 : t[p] = batch[a]
  <2>1. PICK d \in 1 .. Len(s) : t[q] = s[d] /\ s[d].code = c
    BY <1>5 DEF InOrder
  <2>2. d \in 1 .. n /\ n \in Nat /\ n <= Len(batch) /\ t[q] = batch[d]
    BY <1>1, <1>3, <2>1
  <2>3. ASSUME NEW a \in 1 .. Len(batch), batch[a].code = c, batch[a].number < t[q].number
        PROVE  \E p \in 1 .. q - 1 : t[p] = batch[a]
    <3>1. ~(d < a) /\ a # d
      <4>1. batch[a] \in Events /\ batch[d] \in Events
        BY <1>1, <2>2, BatchNumbers
      <4>2. batch[a].number \in Nat /\ batch[d].number \in Nat
        BY <4>1, EventType
      <4> QED
        BY <1>1, <2>2, <2>3, <4>2
    <3>2. a \in 1 .. n
      BY <1>1, <2>2, <3>1
    <3>3. a \in 1 .. Len(s) /\ s[a] = batch[a]
      BY <1>3, <3>2
    <3>4. \A b \in 1 .. Len(s) : s[b].code = c /\ s[b].number < t[q].number =>
            \E p \in 1 .. q - 1 : t[p] = s[b]
      BY <1>5 DEF InOrder
    <3> QED
      BY <2>3, <3>3, <3>4
  <2> QED
    BY <1>1, <1>3, <2>1, <2>2, <2>3
<1>7. InOrder(t, c, batch)
  BY <1>5, <1>6 DEF InOrder
<1>8. \A a \in 1 .. n : batch[a].code = c => \E q \in 1 .. Len(t) : t[q] = batch[a]
  BY <1>3, <1>5
<1> QED
  BY <1>5, <1>7, <1>8 DEF t, s

\* What one pipeline does to the streams, as far as it gets.
Appends(added) ==
    \A c \in Codes : added[c] \in Seq(Events) /\ InOrder(added[c], c, batch)

LEMMA Concatenated ==
    ASSUME NEW S, NEW a \in Seq(S), NEW b \in Seq(S), NEW ab, ab = a \o b
    PROVE  /\ ab \in Seq(S)
           /\ Len(a) \in Nat /\ Len(b) \in Nat /\ Len(ab) = Len(a) + Len(b)
           /\ \A i \in 1 .. Len(a) : ab[i] = a[i]
           /\ \A q \in 1 .. Len(b) : ab[Len(a) + q] = b[q]
OBVIOUS

LEMMA StreamsGrow ==
    ASSUME RecorderInv, StoreOK, NEW added, \A c \in Codes : added[c] \in Seq(Events), XAdd(added)
    PROVE  /\ stream' \in [Codes -> Seq(Events)] /\ trimmed' \in [Codes -> Nat]
           /\ \A c \in Codes :
                /\ Len(stream[c]) \in Nat /\ Len(added[c]) \in Nat
                /\ Len(stream'[c]) = Len(stream[c]) + Len(added[c])
                /\ \A i \in 1 .. Len(stream[c]) : stream'[c][i] = stream[c][i]
                /\ \A q \in 1 .. Len(added[c]) : stream'[c][Len(stream[c]) + q] = added[c][q]
                /\ trimmed[c] <= trimmed'[c]
<1>1. stream' = [c \in Codes |-> stream[c] \o added[c]]
  BY DEF XAdd
<1>2. \A c \in Codes : stream[c] \in Seq(Events) /\ added[c] \in Seq(Events)
  BY DEF StoreOK
<1>3. \A c \in Codes : stream'[c] = stream[c] \o added[c]
  BY <1>1
<1>4. ASSUME NEW c \in Codes
      PROVE  /\ stream'[c] \in Seq(Events)
             /\ Len(stream[c]) \in Nat /\ Len(added[c]) \in Nat
             /\ Len(stream'[c]) = Len(stream[c]) + Len(added[c])
             /\ \A i \in 1 .. Len(stream[c]) : stream'[c][i] = stream[c][i]
             /\ \A q \in 1 .. Len(added[c]) : stream'[c][Len(stream[c]) + q] = added[c][q]
  <2> DEFINE before == stream[c]
             new == added[c]
             after == stream'[c]
  <2>1. before \in Seq(Events) /\ new \in Seq(Events) /\ after = before \o new
    BY <1>2, <1>3
  <2> HIDE DEF before, new, after
  <2>2. /\ after \in Seq(Events)
        /\ Len(before) \in Nat /\ Len(new) \in Nat /\ Len(after) = Len(before) + Len(new)
        /\ \A i \in 1 .. Len(before) : after[i] = before[i]
        /\ \A q \in 1 .. Len(new) : after[Len(before) + q] = new[q]
    BY <2>1, Concatenated
  <2> QED
    BY <2>2 DEF before, new, after
<1>5. PICK cap \in BOOLEAN :
        trimmed' = [c \in Codes |->
             IF /\ cap /\ MaxLen > 0 /\ added[c] # <<>>
                /\ Len(stream[c]) + Len(added[c]) - MaxLen > trimmed[c]
             THEN Len(stream[c]) + Len(added[c]) - MaxLen ELSE trimmed[c]]
  BY DEF XAdd
<1>6. MaxLen \in Nat
  BY RecorderAssumption DEF RecorderAssumption
<1>7. ASSUME NEW c \in Codes PROVE trimmed'[c] \in Nat /\ trimmed[c] <= trimmed'[c]
  <2>1. trimmed[c] \in Nat
    BY DEF StoreOK
  <2> DEFINE rest == Len(stream[c]) + Len(added[c]) - MaxLen
  <2>2. trimmed'[c] = trimmed[c] \/ (trimmed'[c] = rest /\ rest > trimmed[c])
    BY <1>5
  <2>3. rest \in Int
    BY <1>4, <1>6
  <2> HIDE DEF rest
  <2> QED
    BY <2>1, <2>2, <2>3
<1>8. stream' \in [Codes -> Seq(Events)]
  BY <1>1, <1>3, <1>4
<1>9. trimmed' \in [Codes -> Nat]
  BY <1>5, <1>7
<1> QED
  BY <1>4, <1>7, <1>8, <1>9

\* Streams keep their order, and the batch its own in them, whatever part of it is
\* appended, and however often.
LEMMA AppendsKeepOrder ==
    ASSUME RecorderInv, StreamInv, InFlush, NEW added, Appends(added), XAdd(added), failed \subseteq failed'
    PROVE  /\ \A c \in Codes : \A i \in 1 .. Len(stream'[c]) :
                \E m \in 1 .. settled + Len(batch) :
                    accepted[m] = stream'[c][i] /\ accepted[m].code = c
           /\ \A c \in Codes : \A i \in 1 .. Len(stream'[c]), a \in 1 .. Len(batch) :
                batch[a].code = c /\ batch[a].number < stream'[c][i].number =>
                    \E k \in 1 .. i - 1 : stream'[c][k] = batch[a]
           /\ StreamsKeepOrder'
<1>1. /\ Len(batch) \in Nat /\ settled \in Nat
      /\ \A a \in 1 .. Len(batch) : batch[a] = accepted[settled + a]
  BY BatchNumbers DEF StreamInv
<1>2. ASSUME NEW c \in Codes
      PROVE  /\ \A i \in 1 .. Len(stream'[c]) :
                  \E m \in 1 .. settled + Len(batch) :
                      accepted[m] = stream'[c][i] /\ accepted[m].code = c
             /\ \A i \in 1 .. Len(stream'[c]), a \in 1 .. Len(batch) :
                  batch[a].code = c /\ batch[a].number < stream'[c][i].number =>
                      \E k \in 1 .. i - 1 : stream'[c][k] = batch[a]
             /\ \A i, j \in 1 .. Len(stream'[c]) :
                  i < j /\ stream'[c][j].number < stream'[c][i].number =>
                      \/ stream'[c][j].number \in failed
                      \/ \E k \in 1 .. i : stream'[c][k] = stream'[c][j]
  <2> DEFINE x == stream[c]
             t == added[c]
             y == stream'[c]
  <2>1. /\ Len(x) \in Nat /\ Len(t) \in Nat /\ Len(y) = Len(x) + Len(t)
        /\ \A i \in 1 .. Len(x) : y[i] = x[i]
        /\ \A q \in 1 .. Len(t) : y[Len(x) + q] = t[q]
    BY StreamsGrow DEF StreamInv, Appends
  <2>2. /\ \A q \in 1 .. Len(t) :
             /\ \E d \in 1 .. Len(batch) : t[q] = batch[d] /\ batch[d].code = c
             /\ \A a \in 1 .. Len(batch) : batch[a].code = c /\ batch[a].number < t[q].number =>
                  \E p \in 1 .. q - 1 : t[p] = batch[a]
        /\ \A p, q \in 1 .. Len(t) : p < q => t[p].number < t[q].number
    BY DEF Appends, InOrder
  <2>3. \A i \in 1 .. Len(x) : \E m \in 1 .. settled + Len(batch) :
          accepted[m] = x[i] /\ accepted[m].code = c
    BY DEF StreamInv, StreamsHoldAccepted, Reached
  <2>4. \A i \in 1 .. Len(x), a \in 1 .. Len(batch) :
          batch[a].code = c /\ batch[a].number < x[i].number => \E k \in 1 .. i - 1 : x[k] = batch[a]
    BY DEF StreamInv, BatchInOrder
  <2>5. \A i, j \in 1 .. Len(x) : i < j /\ x[j].number < x[i].number =>
          x[j].number \in failed \/ \E k \in 1 .. i : x[k] = x[j]
    BY DEF StreamInv, StreamsKeepOrder
  <2> HIDE DEF x, t, y
  <2>6. \A i \in 1 .. Len(y) : i \in 1 .. Len(x) \/ \E q \in 1 .. Len(t) : i = Len(x) + q
    <3>1. ASSUME NEW i \in 1 .. Len(y), i \notin 1 .. Len(x)
          PROVE  i - Len(x) \in 1 .. Len(t) /\ i = Len(x) + (i - Len(x))
      BY <2>1, <3>1
    <3> QED
      BY <3>1
  <2>7. \A a \in 1 .. Len(batch) : settled + a \in 1 .. settled + Len(batch)
    BY <1>1
  <2>8. ASSUME NEW i \in 1 .. Len(y)
        PROVE  \E m \in 1 .. settled + Len(batch) : accepted[m] = y[i] /\ accepted[m].code = c
    <3>1. CASE i \in 1 .. Len(x)
      BY <2>1, <2>3, <3>1
    <3>2. ASSUME NEW q \in 1 .. Len(t), i = Len(x) + q
          PROVE  \E m \in 1 .. settled + Len(batch) : accepted[m] = y[i] /\ accepted[m].code = c
      <4>1. PICK d \in 1 .. Len(batch) : t[q] = batch[d] /\ batch[d].code = c
        BY <2>2
      <4> QED
        BY <1>1, <2>1, <2>7, <3>2, <4>1
    <3> QED
      BY <2>6, <3>1, <3>2
  <2>9. ASSUME NEW i \in 1 .. Len(y), NEW a \in 1 .. Len(batch),
               batch[a].code = c, batch[a].number < y[i].number
        PROVE  \E k \in 1 .. i - 1 : y[k] = batch[a]
    <3>1. CASE i \in 1 .. Len(x)
      <4>1. PICK k \in 1 .. i - 1 : x[k] = batch[a]
        BY <2>1, <2>4, <2>9, <3>1
      <4> QED
        BY <2>1, <3>1, <4>1
    <3>2. ASSUME NEW q \in 1 .. Len(t), i = Len(x) + q
          PROVE  \E k \in 1 .. i - 1 : y[k] = batch[a]
      <4>1. y[i] = t[q]
        BY <2>1, <3>2
      <4>2. PICK p \in 1 .. q - 1 : t[p] = batch[a]
        BY <2>2, <2>9, <4>1
      <4>3. p \in 1 .. Len(t) /\ Len(x) + p \in 1 .. i - 1
        BY <2>1, <3>2, <4>2
      <4>4. y[Len(x) + p] = batch[a]
        BY <2>1, <4>2, <4>3
      <4> QED
        BY <4>3, <4>4
    <3> QED
      BY <2>6, <3>1, <3>2
  <2>10. ASSUME NEW i \in 1 .. Len(y), NEW j \in 1 .. Len(y), i < j, y[j].number < y[i].number
         PROVE  y[j].number \in failed \/ \E k \in 1 .. i : y[k] = y[j]
    <3>1. CASE j \in 1 .. Len(x)
      <4>1. i \in 1 .. Len(x) /\ y[i] = x[i] /\ y[j] = x[j]
        BY <2>1, <2>10, <3>1
      <4> SUFFICES ASSUME x[j].number \notin failed
                   PROVE  \E k \in 1 .. i : y[k] = y[j]
        BY <4>1
      <4>2. PICK k \in 1 .. i : x[k] = x[j]
        BY <2>5, <2>10, <3>1, <4>1
      <4>3. k \in 1 .. Len(x) /\ y[k] = x[k]
        <5>1. k \in 1 .. Len(x)
          BY <2>1, <4>1, <4>2
        <5> QED
          BY <2>1, <5>1
      <4> QED
        BY <4>1, <4>2, <4>3
    <3>2. ASSUME NEW q \in 1 .. Len(t), j = Len(x) + q
          PROVE  \E k \in 1 .. i : y[k] = y[j]
      <4>1. PICK d \in 1 .. Len(batch) : t[q] = batch[d] /\ batch[d].code = c
        BY <2>2
      <4>2. y[j] = batch[d]
        BY <2>1, <3>2, <4>1
      <4>3. PICK k \in 1 .. i - 1 : y[k] = batch[d]
        BY <2>9, <2>10, <4>1, <4>2
      <4>4. k \in 1 .. i
        BY <2>1, <4>3
      <4> QED
        BY <4>2, <4>3, <4>4
    <3> QED
      BY <2>6, <3>1, <3>2
  <2> QED
    BY <2>8, <2>9, <2>10 DEF y
<1> QED
  BY <1>2 DEF StreamsKeepOrder

LEMMA AppendedIsThere ==
    ASSUME RecorderInv, StoreOK, NEW added, Appends(added), XAdd(added),
           NEW c \in Codes, NEW q \in 1 .. Len(added[c])
    PROVE  \E k \in 1 .. Len(stream'[c]) : stream'[c][k] = added[c][q]
<1> DEFINE x == stream[c]
           t == added[c]
           y == stream'[c]
<1>1. /\ Len(x) \in Nat /\ Len(t) \in Nat /\ Len(y) = Len(x) + Len(t)
      /\ \A p \in 1 .. Len(t) : y[Len(x) + p] = t[p]
  BY StreamsGrow DEF Appends
<1>2. q \in 1 .. Len(t)
  OBVIOUS
<1> HIDE DEF x, t, y
<1>3. Len(x) + q \in 1 .. Len(y) /\ y[Len(x) + q] = t[q]
  BY <1>1, <1>2
<1> QED
  BY <1>3 DEF y, t

LEMMA StoredStays ==
    ASSUME RecorderInv, StreamInv, NEW added, \A c \in Codes : added[c] \in Seq(Events), XAdd(added),
           NEW e, e.code \in Codes, Stored(e)
    PROVE  Stored(e)'
<1> DEFINE x == stream[e.code]
           t == added[e.code]
           y == stream'[e.code]
<1>1. PICK i \in 1 .. Len(x) : x[i] = e
  BY DEF Stored
<1>2. /\ Len(x) \in Nat /\ Len(t) \in Nat /\ Len(y) = Len(x) + Len(t)
      /\ \A k \in 1 .. Len(x) : y[k] = x[k]
  BY StreamsGrow DEF StreamInv
<1> HIDE DEF x, t, y
<1>3. i \in 1 .. Len(y) /\ y[i] = e
  BY <1>1, <1>2
<1> QED
  BY <1>3 DEF Stored, y

LEMMA WholeBatch ==
    ASSUME RecorderInv
    PROVE  /\ Len(batch) \in 0 .. Len(batch) /\ SubSeq(batch, 1, Len(batch)) = batch
           /\ \A a \in 1 .. Len(batch) : batch[a].code \in Codes
<1>1. batch \in Seq(Events)
  BY DEF RecorderInv, QueueOK
<1>2. \A a \in 1 .. Len(batch) : batch[a] \in Events
  BY <1>1
<1> QED
  BY <1>1, <1>2, EventType

LEMMA FirstAppends ==
    ASSUME RecorderInv, StreamInv, NEW n \in 0 .. Len(batch)
    PROVE  Appends([c \in Codes |-> EventsOf(c, SubSeq(batch, 1, n))])
BY FirstInOrder DEF StreamInv, Appends

-------------------------------------------------------------------------------
(* Pipelines that were given up                                            *)

LEMMA LateCommand ==
    ASSUME LateInv, NEW p \in late
    PROVE  /\ p.attempt \in 0 .. Retries /\ p.evts \in Seq(Events) /\ Len(p.evts) \in Nat \ {0}
           /\ \A q \in 1 .. Len(p.evts) : p.evts[q] \in Events
           /\ Head(p.evts) = p.evts[1] /\ 1 \in 1 .. Len(p.evts)
           /\ p.evts[1].code \in Codes
           /\ \A c \in Codes :
                (IF c = Head(p.evts).code THEN <<Head(p.evts)>> ELSE <<>>) \in Seq(Events)
<1>1. p.attempt \in 0 .. Retries /\ p.evts \in Seq(Events) /\ p.evts # <<>>
  BY DEF LateInv
<1>2. Len(p.evts) \in Nat \ {0} /\ Head(p.evts) = p.evts[1] /\ 1 \in 1 .. Len(p.evts)
  BY <1>1
<1>3. \A q \in 1 .. Len(p.evts) : p.evts[q] \in Events
  BY <1>1
<1>4. p.evts[1].code \in Codes
  BY <1>2, <1>3, EventType
<1> QED
  BY <1>1, <1>2, <1>3, <1>4

\* Whose event is run late: one of a flush that is over, or of the batch under
\* way, all that the batch has before it stored.
LEMMA LateEvent ==
    ASSUME RecorderInv, StreamInv, LateInv, NEW p \in late, NEW e, e = p.evts[1]
    PROVE  \/ \E m \in 1 .. settled : accepted[m] = e
           \/ InFlush /\ \E a \in 1 .. Len(batch) :
                e = batch[a] /\ \A b \in 1 .. a - 1 : Stored(batch[b])
<1>1. 1 \in 1 .. Len(p.evts) /\ (Over(p.evts) \/ Pending(p.evts))
  BY LateCommand DEF LateInv
<1>2. CASE Over(p.evts)
  BY <1>1, <1>2 DEF Over
<1>3. CASE Pending(p.evts)
  <2>1. PICK a \in 1 .. Len(batch) :
          /\ \A q \in 1 .. Len(p.evts) : p.evts[q] = batch[a + q - 1]
          /\ \A b \in 1 .. a - 1 : Stored(batch[b])
    BY <1>3 DEF Pending
  <2>2. a + 1 - 1 = a
    BY BatchNumbers DEF StreamInv
  <2>3. e = batch[a]
    BY <1>1, <2>1, <2>2
  <2> QED
    BY <1>3, <2>1, <2>3 DEF Pending
<1> QED
  BY <1>1, <1>2, <1>3

\* What a late command leaves of the streams.
LEMMA LateStream ==
    ASSUME RecorderInv, StreamInv, LateInv, ExecLate
    PROVE  StreamInv'
<1>1. PICK p \in late : XAdd([c \in Codes |-> IF c = Head(p.evts).code THEN <<Head(p.evts)>> ELSE <<>>])
  BY DEF ExecLate
<1> DEFINE e == p.evts[1]
           added == [c \in Codes |-> IF c = e.code THEN <<e>> ELSE <<>>]
<1>2. /\ XAdd(added) /\ \A c \in Codes : added[c] \in Seq(Events)
      /\ e \in Events /\ e.code \in Codes /\ e.number \in Nat
  BY <1>1, LateCommand, EventType
<1>3. UNCHANGED <<clicks, in, batch, worker, accepted, settled, failed>>
  BY DEF ExecLate, worker_vars, history_vars
<1>4. /\ stream' \in [Codes -> Seq(Events)] /\ trimmed' \in [Codes -> Nat]
      /\ \A c \in Codes :
           /\ Len(stream[c]) \in Nat /\ Len(added[c]) \in Nat
           /\ Len(stream'[c]) = Len(stream[c]) + Len(added[c])
           /\ \A i \in 1 .. Len(stream[c]) : stream'[c][i] = stream[c][i]
           /\ \A q \in 1 .. Len(added[c]) : stream'[c][Len(stream[c]) + q] = added[c][q]
  <2> HIDE DEF added
  <2> QED
    BY <1>2, StreamsGrow DEF StreamInv
<1>5. \/ \E m \in 1 .. settled : accepted[m] = e
      \/ InFlush /\ \E a \in 1 .. Len(batch) :
           e = batch[a] /\ \A b \in 1 .. a - 1 : Stored(batch[b])
  <2> HIDE DEF e
  <2> QED
    BY LateEvent DEF e
<1>6. ASSUME NEW c \in Codes, NEW i \in 1 .. Len(stream'[c])
      PROVE  \/ i \in 1 .. Len(stream[c]) /\ stream'[c][i] = stream[c][i]
             \/ c = e.code /\ i = Len(stream[c]) + 1 /\ stream'[c][i] = e
  <2> DEFINE x == Len(stream[c])
             t == Len(added[c])
             y == Len(stream'[c])
  <2>1. /\ x \in Nat /\ t \in Nat /\ y = x + t /\ i \in 1 .. y
        /\ \A k \in 1 .. x : stream'[c][k] = stream[c][k]
        /\ \A q \in 1 .. t : stream'[c][x + q] = added[c][q]
    BY <1>4
  <2>2. CASE c = e.code
    <3>1. t = 1 /\ added[c][1] = e
      BY <2>2
    <3> HIDE DEF x, t, y
    <3>2. i \in 1 .. x \/ i = x + 1
      BY <2>1, <3>1
    <3>3. 1 \in 1 .. t
      BY <3>1
    <3> QED
      BY <2>1, <2>2, <3>1, <3>2, <3>3 DEF x
  <2>3. CASE c # e.code
    <3>1. t = 0
      BY <2>3
    <3> HIDE DEF x, t, y
    <3>2. i \in 1 .. x
      BY <2>1, <3>1
    <3> QED
      BY <2>1, <3>2 DEF x
  <2> QED
    BY <2>2, <2>3
<1>7. ASSUME NEW d, d.code \in Codes, Stored(d)
      PROVE  \E k \in 1 .. Len(stream'[d.code]) : stream'[d.code][k] = d
  <2>1. PICK k \in 1 .. Len(stream[d.code]) : stream[d.code][k] = d
    BY <1>7 DEF Stored
  <2>2. PICK c \in Codes : c = d.code
    BY <1>7
  <2> DEFINE x == Len(stream[c])
             t == Len(added[c])
             y == Len(stream'[c])
  <2>3. x \in Nat /\ t \in Nat /\ y = x + t /\ k \in 1 .. x /\ stream'[c][k] = d
    BY <1>4, <2>1, <2>2
  <2> HIDE DEF x, t, y
  <2>4. k \in 1 .. y
    BY <2>3
  <2> QED
    BY <2>2, <2>3, <2>4 DEF y
<1> HIDE DEF e, added
<1>8. /\ Len(batch) \in Nat /\ settled \in Nat /\ Len(accepted) \in Nat
      /\ settled + Len(batch) <= Len(accepted)
      /\ \A i \in 1 .. Len(accepted) : accepted[i] \in Events
      /\ \A a \in 1 .. Len(batch) : batch[a] \in Events /\ batch[a] = accepted[settled + a]
      /\ \A a, d \in 1 .. Len(batch) : a < d => batch[a].number < batch[d].number
      /\ \A m \in 1 .. settled, a \in 1 .. Len(batch) : accepted[m].number < batch[a].number
  BY BatchNumbers DEF StreamInv
<1>9. StoreOK'
  BY <1>3, <1>4 DEF StreamInv, StoreOK
<1>10. Numbered'
  BY <1>3 DEF StreamInv, Numbered
<1>11. SettledMeansStored'
  <2>1. ASSUME NEW i \in 1 .. settled PROVE Stored(accepted[i])' \/ accepted[i].number \in failed
    <3>1. accepted[i].code \in Codes /\ accepted'[i] = accepted[i]
      BY <1>3, <1>8, EventType
    <3>2. CASE Stored(accepted[i])
      BY <1>7, <3>1, <3>2 DEF Stored
    <3> QED
      BY <3>2 DEF StreamInv, SettledMeansStored
  <2> QED
    BY <1>3, <2>1 DEF SettledMeansStored
<1>12. StreamsHoldAccepted'
  <2>1. Reached' = Reached
    BY <1>3 DEF Reached, InFlush
  <2>2. \E m \in 1 .. Reached : accepted[m] = e
    <3>1. CASE \E m \in 1 .. settled : accepted[m] = e
      <4>1. PICK m \in 1 .. settled : accepted[m] = e
        BY <3>1
      <4>2. m \in 1 .. Reached
        BY <1>8 DEF Reached
      <4> QED
        BY <4>1, <4>2
    <3>2. ASSUME InFlush, NEW a \in 1 .. Len(batch), e = batch[a]
          PROVE  \E m \in 1 .. Reached : accepted[m] = e
      <4>1. settled + a \in 1 .. Reached
        BY <1>8, <3>2 DEF Reached
      <4> QED
        BY <1>8, <3>2, <4>1
    <3> QED
      BY <1>5, <3>1, <3>2
  <2>3. ASSUME NEW c \in Codes, NEW i \in 1 .. Len(stream'[c])
        PROVE  \E m \in 1 .. Reached : accepted[m] = stream'[c][i] /\ accepted[m].code = c
    <3>1. CASE i \in 1 .. Len(stream[c]) /\ stream'[c][i] = stream[c][i]
      BY <3>1 DEF StreamInv, StreamsHoldAccepted
    <3>2. CASE c = e.code /\ stream'[c][i] = e
      BY <2>2, <3>2
    <3> QED
      BY <1>6, <3>1, <3>2
  <2> QED
    BY <1>3, <2>1, <2>3 DEF StreamsHoldAccepted
<1>13. BatchInOrder'
  <2>1. ASSUME NEW c \in Codes, NEW i \in 1 .. Len(stream'[c]), NEW a \in 1 .. Len(batch),
               batch[a].code = c, batch[a].number < stream'[c][i].number
        PROVE  \E k \in 1 .. i - 1 : stream'[c][k] = batch[a]
    <3>1. CASE i \in 1 .. Len(stream[c]) /\ stream'[c][i] = stream[c][i]
      <4>1. PICK k \in 1 .. i - 1 : stream[c][k] = batch[a]
        BY <2>1, <3>1 DEF StreamInv, BatchInOrder
      <4>2. k \in 1 .. Len(stream[c])
        BY <1>4, <3>1, <4>1
      <4> QED
        BY <1>4, <4>1, <4>2
    <3>2. CASE c = e.code /\ i = Len(stream[c]) + 1 /\ stream'[c][i] = e
      <4>1. batch[a].number \in Nat /\ batch[a].number < e.number
        BY <1>8, <2>1, <3>2, EventType
      <4>2. ~\E m \in 1 .. settled : accepted[m] = e
        BY <1>2, <1>8, <4>1
      <4>3. PICK d \in 1 .. Len(batch) : e = batch[d] /\ \A b \in 1 .. d - 1 : Stored(batch[b])
        BY <1>5, <4>2
      <4>4. a \in 1 .. d - 1
        <5>1. ~(d < a) /\ d # a
          BY <1>2, <1>8, <4>1, <4>3
        <5> QED
          BY <1>8, <5>1
      <4>5. PICK k \in 1 .. Len(stream[c]) : stream[c][k] = batch[a]
        BY <2>1, <4>3, <4>4 DEF Stored
      <4>6. k \in 1 .. i - 1
        <5>1. Len(stream[c]) \in Nat
          BY <1>4
        <5> QED
          BY <3>2, <5>1
      <4> QED
        BY <1>4, <4>5, <4>6
    <3> QED
      BY <1>6, <3>1, <3>2
  <2> QED
    BY <1>3, <2>1 DEF BatchInOrder
<1>14. StreamsKeepOrder'
  <2>1. ASSUME NEW c \in Codes, NEW i \in 1 .. Len(stream'[c]), NEW j \in 1 .. Len(stream'[c]),
               i < j, stream'[c][j].number < stream'[c][i].number, stream'[c][j].number \notin failed
        PROVE  \E k \in 1 .. i : stream'[c][k] = stream'[c][j]
    <3>1. Len(stream[c]) \in Nat
      BY <1>4
    <3>2. i \in 1 .. Len(stream[c]) /\ stream'[c][i] = stream[c][i]
      BY <1>6, <2>1, <3>1
    <3>3. \A k \in 1 .. i : k \in 1 .. Len(stream[c]) /\ stream'[c][k] = stream[c][k]
      <4>1. \A k \in 1 .. i : k \in 1 .. Len(stream[c])
        BY <3>1, <3>2
      <4> QED
        BY <1>4, <4>1
    <3>4. \A d \in 1 .. Len(stream[c]) :
            i < d /\ stream[c][d].number < stream[c][i].number =>
                stream[c][d].number \in failed \/ \E k \in 1 .. i : stream[c][k] = stream[c][d]
      BY <3>2 DEF StreamInv, StreamsKeepOrder
    <3>5. CASE j \in 1 .. Len(stream[c]) /\ stream'[c][j] = stream[c][j]
      BY <2>1, <3>2, <3>3, <3>4, <3>5
    <3>6. CASE c = e.code /\ stream'[c][j] = e
      <4>1. e.number < stream[c][i].number /\ e.number \notin failed
        BY <2>1, <3>2, <3>6
      <4>2. CASE \E m \in 1 .. settled : accepted[m] = e
        <5>1. Stored(e)
          BY <4>1, <4>2 DEF StreamInv, SettledMeansStored
        <5>2. PICK d \in 1 .. Len(stream[c]) : stream[c][d] = e
          BY <3>6, <5>1 DEF Stored
        <5>3. \E k \in 1 .. i : stream[c][k] = e
          <6>1. CASE i < d
            BY <3>4, <4>1, <5>2, <6>1
          <6>2. CASE d \in 1 .. i
            BY <5>2, <6>2
          <6> QED
            BY <3>2, <6>1, <6>2
        <5> QED
          BY <3>3, <3>6, <5>3
      <4>3. ASSUME NEW a \in 1 .. Len(batch), e = batch[a]
            PROVE  \E k \in 1 .. i : stream'[c][k] = stream'[c][j]
        <5>1. PICK k \in 1 .. i - 1 : stream[c][k] = batch[a]
          BY <3>2, <3>6, <4>1, <4>3 DEF StreamInv, BatchInOrder
        <5>2. k \in 1 .. i
          BY <3>2, <5>1
        <5> QED
          BY <3>3, <3>6, <4>3, <5>1, <5>2
      <4> QED
        BY <1>5, <4>2, <4>3
    <3> QED
      BY <1>6, <3>5, <3>6
  <2> QED
    BY <1>3, <2>1 DEF StreamsKeepOrder
<1> QED
  BY <1>9, <1>10, <1>11, <1>12, <1>13, <1>14 DEF StreamInv

\* What becomes of the pipelines in one step that adds at most evts to them.
LEMMA LateKept ==
    ASSUME LateInv, NEW t \in 0 .. Retries, NEW evts \in Seq(Events),
           late' \subseteq late \cup Rest(t, evts),
           evts # <<>> => Over(evts)' \/ Pending(evts)',
           \A p \in late : Over(p.evts)' \/ Pending(p.evts)'
    PROVE  LateInv'
<1>1. ASSUME NEW p \in late'
      PROVE  /\ p \in [attempt : 0 .. Retries, evts : Seq(Events)]
             /\ p.evts # <<>> /\ (Over(p.evts)' \/ Pending(p.evts)')
  <2>1. CASE p \in late
    BY <2>1 DEF LateInv
  <2>2. CASE p \in Rest(t, evts)
    <3>1. p = [attempt |-> t, evts |-> evts] /\ evts # <<>>
      BY <2>2 DEF Rest
    <3> QED
      BY <3>1
  <2> QED
    BY <2>1, <2>2
<1> QED
  BY <1>1 DEF LateInv

\* What is over stays over.
LEMMA OverStays ==
    ASSUME RecorderInv, StreamInv, settled' \in Nat, settled <= settled',
           \A i \in 1 .. Len(accepted) : accepted'[i] = accepted[i], NEW evts, Over(evts)
    PROVE  Over(evts)'
<1>1. /\ settled \in Nat /\ Len(batch) \in Nat /\ Len(accepted) \in Nat
      /\ settled + Len(batch) <= Len(accepted)
  BY BatchNumbers DEF StreamInv
<1>2. \A m \in 1 .. settled : m \in 1 .. settled' /\ m \in 1 .. Len(accepted)
  BY <1>1
<1> QED
  BY <1>2 DEF Over

\* Each action and the pipelines that were given up.
LEMMA LateStep ==
    ASSUME RecorderInv, StreamInv, LateInv, [Next]_vars
    PROVE  LateInv'
<1>1. /\ Len(batch) \in Nat /\ settled \in Nat /\ Len(accepted) \in Nat
      /\ settled + Len(batch) <= Len(accepted) /\ tries \in 0 .. Retries /\ batch \in Seq(Events)
      /\ \A a \in 1 .. Len(batch) : batch[a] \in Events /\ batch[a] = accepted[settled + a]
  BY BatchNumbers DEF StreamInv, RecorderInv, QueueOK
<1>2. \A p \in late : Over(p.evts) \/ Pending(p.evts)
  BY DEF LateInv
<1>3. <<>> \in Seq(Events) /\ Rest(tries, <<>>) = {}
  BY DEF Rest
<1>4. CASE /\ UNCHANGED <<settled, batch, stream, late>> /\ (InFlush => InFlush')
           /\ \A i \in 1 .. Len(accepted) : accepted'[i] = accepted[i]
  <2>1. ASSUME NEW p \in late PROVE Over(p.evts)' \/ Pending(p.evts)'
    <3>1. Over(p.evts) => Over(p.evts)'
      BY <1>1, <1>4, OverStays
    <3>2. Pending(p.evts) => Pending(p.evts)'
      BY <1>4 DEF Pending, Stored
    <3> QED
      BY <1>2, <3>1, <3>2
  <2> QED
    BY <1>1, <1>3, <1>4, <2>1, LateKept
<1>5. CASE Receive
  <2>1. UNCHANGED <<settled, accepted, late>> /\ ~InFlush
    BY <1>5 DEF Receive, redis_vars, history_vars, InFlush
  <2>2. ASSUME NEW p \in late PROVE Over(p.evts)' \/ Pending(p.evts)'
    <3>1. Over(p.evts)
      BY <1>2, <2>1 DEF Pending
    <3> QED
      BY <1>1, <2>1, <3>1, OverStays
  <2> QED
    BY <1>1, <1>3, <2>1, <2>2, LateKept
<1>6. CASE ExecOk \/ ExecBroken \/ ExecRefused
  <2>1. UNCHANGED accepted /\ settled' = settled + Len(batch)
    BY <1>6 DEF ExecOk, ExecBroken, ExecRefused, EndFlush
  <2>2. ASSUME NEW evts, NEW a \in 1 .. Len(batch) + 1, Len(evts) = Len(batch) - a + 1,
               \A q \in 1 .. Len(evts) : evts[q] = batch[a + q - 1]
        PROVE  Over(evts)'
    <3>1. ASSUME NEW q \in 1 .. Len(evts) PROVE \E m \in 1 .. settled' : accepted'[m] = evts[q]
      <4>1. a + q - 1 \in 1 .. Len(batch) /\ settled + (a + q - 1) \in 1 .. settled'
        BY <1>1, <2>1, <2>2
      <4>2. accepted'[settled + (a + q - 1)] = evts[q]
        BY <1>1, <2>1, <2>2, <4>1
      <4> QED
        BY <4>1, <4>2
    <3> QED
      BY <3>1 DEF Over
  <2>3. ASSUME NEW p \in late PROVE Over(p.evts)'
    <3>1. CASE Over(p.evts)
      BY <1>1, <2>1, <3>1, OverStays
    <3>2. CASE Pending(p.evts)
      <4>1. PICK a \in 1 .. Len(batch) :
              /\ Len(p.evts) = Len(batch) - a + 1
              /\ \A q \in 1 .. Len(p.evts) : p.evts[q] = batch[a + q - 1]
        BY <3>2 DEF Pending
      <4>2. a \in 1 .. Len(batch) + 1
        BY <1>1
      <4> QED
        BY <2>2, <4>1, <4>2
    <3> QED
      BY <1>2, <3>1, <3>2
  <2>4. CASE UNCHANGED late
    BY <1>1, <1>3, <2>3, <2>4, LateKept
  <2>5. ASSUME NEW n \in 0 .. Len(batch), late' = late \cup Rest(tries, SubSeq(batch, n + 1, Len(batch)))
        PROVE  LateInv'
    <3>1. PICK evts : evts = SubSeq(batch, n + 1, Len(batch))
      OBVIOUS
    <3>2. PICK t : t = tries
      OBVIOUS
    <3>3. /\ evts \in Seq(Events) /\ Len(evts) = Len(batch) - (n + 1) + 1
          /\ \A q \in 1 .. Len(evts) : evts[q] = batch[(n + 1) + q - 1]
      BY <1>1, <3>1
    <3>4. Over(evts)'
      <4>1. n + 1 \in 1 .. Len(batch) + 1
        BY <1>1
      <4> QED
        BY <2>2, <3>3, <4>1
    <3> QED
      BY <1>1, <2>3, <2>5, <3>1, <3>2, <3>3, <3>4, LateKept
  <2> QED
    BY <1>6, <2>4, <2>5 DEF ExecOk, ExecBroken, ExecRefused, Break
<1>7. CASE Retransmit
  <2>1. PICK n \in 0 .. Len(batch) :
          ExecFirst(n) /\ late' = late \cup Rest(tries, SubSeq(batch, n + 1, Len(batch)))
    BY <1>7 DEF Retransmit, Break
  <2>2. UNCHANGED <<batch, worker, accepted, settled>> /\ InFlush
    BY <1>7 DEF Retransmit, history_vars
  <2> DEFINE added == [c \in Codes |-> EventsOf(c, SubSeq(batch, 1, n))]
  <2>3. XAdd(added) /\ Appends(added)
    BY <2>1, FirstAppends DEF ExecFirst
  <2>4. ASSUME NEW a \in 1 .. n PROVE \E c \in Codes : batch[a].code = c
               /\ \E q \in 1 .. Len(added[c]) : added[c][q] = batch[a]
    <3>1. a \in 1 .. Len(batch) /\ batch[a].code \in Codes
      BY <1>1, WholeBatch
    <3> QED
      BY <3>1, FirstInOrder DEF StreamInv
  <2> HIDE DEF added
  <2>5. ASSUME NEW a \in 1 .. n PROVE Stored(batch[a])'
    <3>1. PICK c \in Codes : batch[a].code = c /\ \E q \in 1 .. Len(added[c]) : added[c][q] = batch[a]
      BY <2>4
    <3>2. \E k \in 1 .. Len(stream'[c]) : stream'[c][k] = batch[a]
      BY <2>3, <3>1, AppendedIsThere DEF StreamInv
    <3> QED
      BY <2>2, <3>1, <3>2 DEF Stored
  <2>6. ASSUME NEW b \in 1 .. Len(batch), Stored(batch[b]) PROVE Stored(batch[b])'
    <3>1. batch[b].code \in Codes
      BY WholeBatch
    <3>2. PICK e : e = batch[b]
      OBVIOUS
    <3>3. Stored(e)'
      BY <2>3, <2>6, <3>1, <3>2, StoredStays DEF Appends
    <3> QED
      BY <2>2, <3>2, <3>3 DEF Stored
  <2>7. ASSUME NEW p \in late PROVE Over(p.evts)' \/ Pending(p.evts)'
    <3>1. Over(p.evts) => Over(p.evts)'
      BY <1>1, <2>2, OverStays
    <3>2. CASE Pending(p.evts)
      <4>1. PICK a \in 1 .. Len(batch) :
              /\ Len(p.evts) = Len(batch) - a + 1
              /\ \A q \in 1 .. Len(p.evts) : p.evts[q] = batch[a + q - 1]
              /\ \A b \in 1 .. a - 1 : Stored(batch[b])
        BY <3>2 DEF Pending
      <4>2. \A b \in 1 .. a - 1 : Stored(batch[b])'
        BY <1>1, <2>6, <4>1
      <4> QED
        BY <2>2, <4>1, <4>2 DEF Pending, InFlush
    <3> QED
      BY <1>2, <3>1, <3>2
  <2>8. PICK evts : evts = SubSeq(batch, n + 1, Len(batch))
    OBVIOUS
  <2>9. PICK t : t = tries
    OBVIOUS
  <2>10. /\ evts \in Seq(Events) /\ Len(evts) = Len(batch) - (n + 1) + 1
         /\ \A q \in 1 .. Len(evts) : evts[q] = batch[(n + 1) + q - 1]
    BY <1>1, <2>8
  <2>11. ASSUME evts # <<>> PROVE Pending(evts)'
    <3>1. n + 1 \in 1 .. Len(batch)
      BY <1>1, <2>10, <2>11
    <3>2. \A b \in 1 .. (n + 1) - 1 : Stored(batch[b])'
      BY <1>1, <2>5
    <3> QED
      BY <2>2, <2>10, <3>1, <3>2 DEF Pending, InFlush
  <2> QED
    BY <1>1, <2>1, <2>7, <2>8, <2>9, <2>10, <2>11, LateKept
<1>8. CASE ExecLate
  <2>1. PICK p \in late :
          /\ XAdd([c \in Codes |-> IF c = Head(p.evts).code THEN <<Head(p.evts)>> ELSE <<>>])
          /\ late' = (late \ {p}) \cup Rest(p.attempt, Tail(p.evts))
    BY <1>8 DEF ExecLate
  <2> DEFINE added == [c \in Codes |-> IF c = Head(p.evts).code THEN <<Head(p.evts)>> ELSE <<>>]
  <2>2. /\ UNCHANGED <<batch, worker, accepted, settled>> /\ XAdd(added)
        /\ \A c \in Codes : added[c] \in Seq(Events)
    BY <1>8, <2>1, LateCommand DEF ExecLate, worker_vars, history_vars
  <2> HIDE DEF added
  <2>3. ASSUME NEW b \in 1 .. Len(batch), Stored(batch[b]) PROVE Stored(batch[b])'
    <3>1. batch[b].code \in Codes
      BY WholeBatch
    <3>2. PICK e : e = batch[b]
      OBVIOUS
    <3>3. Stored(e)'
      BY <2>2, <2>3, <3>1, <3>2, StoredStays
    <3> QED
      BY <2>2, <3>2, <3>3 DEF Stored
  <2>4. ASSUME NEW o \in late PROVE Over(o.evts)' \/ Pending(o.evts)'
    <3>1. Over(o.evts) => Over(o.evts)'
      BY <1>1, <2>2, OverStays
    <3>2. CASE Pending(o.evts)
      <4>1. PICK a \in 1 .. Len(batch) :
              /\ Len(o.evts) = Len(batch) - a + 1
              /\ \A q \in 1 .. Len(o.evts) : o.evts[q] = batch[a + q - 1]
              /\ \A b \in 1 .. a - 1 : Stored(batch[b])
        BY <3>2 DEF Pending
      <4>2. \A b \in 1 .. a - 1 : Stored(batch[b])'
        <5>1. \A b \in 1 .. a - 1 : b \in 1 .. Len(batch)
          BY <1>1
        <5> QED
          BY <2>3, <4>1, <5>1
      <4> QED
        BY <2>2, <3>2, <4>1, <4>2 DEF Pending, InFlush
    <3> QED
      BY <1>2, <3>1, <3>2
  <2>5. /\ p.attempt \in 0 .. Retries /\ p.evts \in Seq(Events) /\ Len(p.evts) \in Nat \ {0}
        /\ Head(p.evts) = p.evts[1] /\ p.evts[1] \in Events
    BY <2>1, LateCommand
  <2>6. PICK evts : evts = Tail(p.evts)
    OBVIOUS
  <2>7. /\ evts \in Seq(Events) /\ Len(evts) = Len(p.evts) - 1
        /\ \A q \in 1 .. Len(evts) : evts[q] = p.evts[q + 1]
    BY <2>5, <2>6
  <2>8. CASE Over(p.evts)
    <3>1. Over(evts)
      <4>1. \A q \in 1 .. Len(evts) : q + 1 \in 1 .. Len(p.evts)
        BY <2>5, <2>7
      <4> QED
        BY <2>7, <2>8, <4>1 DEF Over
    <3>2. Over(evts)'
      BY <1>1, <2>2, <3>1, OverStays
    <3> QED
      BY <2>1, <2>4, <2>5, <2>6, <2>7, <3>2, LateKept
  <2>9. CASE Pending(p.evts)
    <3>1. PICK a \in 1 .. Len(batch) :
            /\ Len(p.evts) = Len(batch) - a + 1
            /\ \A q \in 1 .. Len(p.evts) : p.evts[q] = batch[a + q - 1]
            /\ \A b \in 1 .. a - 1 : Stored(batch[b])
      BY <2>9 DEF Pending
    <3>2. Stored(batch[a])'
      <4>1. 1 \in 1 .. Len(p.evts) /\ a + 1 - 1 = a
        BY <2>5
      <4>2. batch[a] = Head(p.evts)
        BY <2>5, <3>1, <4>1
      <4>3. batch[a].code \in Codes
        BY WholeBatch
      <4> DEFINE c == batch[a].code
      <4>4. added[c] = <<batch[a]>>
        BY <4>2, <4>3 DEF added
      <4>5. Len(added[c]) = 1 /\ added[c][1] = batch[a]
        BY <4>4
      <4>6. /\ Len(stream[c]) \in Nat /\ Len(stream'[c]) = Len(stream[c]) + Len(added[c])
            /\ \A q \in 1 .. Len(added[c]) : stream'[c][Len(stream[c]) + q] = added[c][q]
        BY <2>2, <4>3, StreamsGrow DEF StreamInv
      <4>7. Len(stream[c]) + 1 \in 1 .. Len(stream'[c]) /\ stream'[c][Len(stream[c]) + 1] = batch[a]
        BY <4>5, <4>6
      <4> QED
        BY <2>2, <4>7 DEF Stored
    <3>3. ASSUME evts # <<>> PROVE Pending(evts)'
      <4>1. a + 1 \in 1 .. Len(batch) /\ Len(evts) = Len(batch) - (a + 1) + 1
        <5>1. Len(evts) \in Nat \ {0}
          BY <2>7, <3>3
        <5>2. Len(p.evts) \in Nat /\ Len(batch) \in Nat /\ a \in Nat
          BY <1>1, <2>5
        <5>3. Len(evts) = Len(p.evts) - 1 /\ Len(p.evts) = Len(batch) - a + 1
          BY <2>7, <3>1
        <5> QED
          BY <5>1, <5>2, <5>3
      <4>2. ASSUME NEW q \in 1 .. Len(evts) PROVE evts[q] = batch[(a + 1) + q - 1]
        <5>1. q + 1 \in 1 .. Len(p.evts) /\ a + (q + 1) - 1 = (a + 1) + q - 1
          BY <2>5, <2>7
        <5>2. p.evts[q + 1] = batch[a + (q + 1) - 1]
          BY <3>1, <5>1
        <5> QED
          BY <2>7, <5>1, <5>2
      <4>3. \A b \in 1 .. (a + 1) - 1 : Stored(batch[b])'
        <5>1. SUFFICES ASSUME NEW b \in 1 .. a PROVE Stored(batch[b])'
          BY <1>1
        <5>2. CASE b = a
          BY <3>2, <5>2
        <5>3. CASE b \in 1 .. a - 1
          <6>1. Stored(batch[b]) /\ b \in 1 .. Len(batch)
            BY <1>1, <3>1, <5>3
          <6> QED
            BY <2>3, <6>1
        <5> QED
          BY <1>1, <5>2, <5>3
      <4> QED
        BY <2>2, <2>9, <4>1, <4>2, <4>3 DEF Pending, InFlush
    <3> QED
      BY <2>1, <2>4, <2>5, <2>6, <2>7, <3>3, LateKept
  <2> QED
    BY <1>2, <2>1, <2>8, <2>9
<1>9. CASE Record
  <2>1. UNCHANGED <<settled, batch, stream, late, worker>>
    BY <1>9 DEF Record, worker_vars, redis_vars
  <2>2. \A i \in 1 .. Len(accepted) : accepted'[i] = accepted[i]
    <3>1. accepted \in Seq(Events)
      BY DEF RecorderInv, QueueOK
    <3>2. PICK e : accepted' = accepted \/ accepted' = Append(accepted, e)
      BY <1>9 DEF Record
    <3> QED
      BY <3>1, <3>2
  <2> QED
    BY <1>4, <2>1, <2>2 DEF InFlush
<1>10. CASE \/ Tick \/ FlushOnTick \/ SeeStop \/ Drained \/ Close \/ CloseDrained \/ CloseExpired
            \/ (\E l \in Listings : StartListing(l) \/ List(l)) \/ UNCHANGED vars
  <2>1. UNCHANGED <<settled, batch, stream, late, accepted>>
    BY <1>10 DEF Tick, FlushOnTick, SeeStop, Drained, Close, CloseDrained, CloseExpired,
       StartListing, List, vars, worker_vars, redis_vars, history_vars
  <2>2. InFlush => UNCHANGED worker
    BY <1>10 DEF Tick, FlushOnTick, SeeStop, Drained, Close, CloseDrained, CloseExpired,
       StartListing, List, vars, worker_vars, InFlush
  <2> QED
    BY <1>4, <2>1, <2>2 DEF InFlush
<1> QED
  BY <1>5, <1>6, <1>7, <1>8, <1>9, <1>10 DEF Next, Worker

-------------------------------------------------------------------------------
(* The steps and the streams                                               *)

LEMMA StreamInit ==
    ASSUME Init
    PROVE  StreamInv
<1>1. /\ stream = [c \in Codes |-> <<>>] /\ trimmed = [c \in Codes |-> 0]
      /\ accepted = <<>> /\ settled = 0 /\ failed = {}
  BY DEF Init
<1>2. StoreOK
  <2>1. <<>> \in Seq(Events)
    OBVIOUS
  <2> QED
    BY <1>1, <2>1 DEF StoreOK
<1>3. \A c \in Codes : Len(stream[c]) = 0
  BY <1>1
<1> QED
  BY <1>1, <1>2, <1>3 DEF StreamInv, Numbered, StreamsHoldAccepted, BatchInOrder,
     SettledMeansStored, StreamsKeepOrder

LEMMA RecordStream ==
    ASSUME RecorderInv, StreamInv, Record
    PROVE  StreamInv'
<1>1. UNCHANGED <<batch, worker, stream, trimmed, settled, failed>> /\ clicks' = clicks + 1
  BY DEF Record, worker_vars, redis_vars
<1>2. clicks \in Nat /\ accepted \in Seq(Events) /\ Len(accepted) \in Nat
  <2>1. clicks \in 0 .. MaxClicks /\ accepted \in Seq(Events)
    BY DEF RecorderInv, QueueOK
  <2>2. MaxClicks \in Nat
    BY RecorderAssumption DEF RecorderAssumption
  <2> QED
    BY <2>1, <2>2
<1>3. /\ \A i \in 1 .. Len(accepted) : accepted[i].number <= clicks /\ accepted[i] \in Events
      /\ \A i \in 1 .. Len(accepted) : accepted[i].number \in Nat
  BY BatchNumbers, EventType DEF StreamInv, Numbered
<1>4. PICK e : /\ e.number = clicks + 1
               /\ accepted' = accepted \/ accepted' = Append(accepted, e)
  BY DEF Record
<1>5. \A i \in 1 .. Len(accepted) : accepted'[i] = accepted[i]
  BY <1>2, <1>4
<1>6. Numbered'
  <2>1. Numbered
    BY DEF StreamInv
  <2>2. CASE accepted' = accepted
    BY <1>1, <1>2, <1>3, <2>1, <2>2 DEF Numbered
  <2>3. CASE accepted' = Append(accepted, e)
    <3>1. /\ Len(accepted') = Len(accepted) + 1
          /\ accepted'[Len(accepted) + 1].number = clicks + 1
      BY <1>2, <1>4, <2>3
    <3>2. \A i \in 1 .. Len(accepted') : i \in 1 .. Len(accepted) \/ i = Len(accepted) + 1
      BY <1>2, <3>1
    <3>3. \A i \in 1 .. Len(accepted') : accepted'[i].number <= clicks'
      BY <1>1, <1>2, <1>3, <1>5, <3>1, <3>2
    <3>4. ASSUME NEW i \in 1 .. Len(accepted'), NEW j \in 1 .. Len(accepted'), i < j
          PROVE  accepted'[i].number < accepted'[j].number
      <4>1. i \in 1 .. Len(accepted)
        BY <1>2, <3>1, <3>4
      <4>2. CASE j \in 1 .. Len(accepted)
        BY <1>5, <2>1, <3>4, <4>1, <4>2 DEF Numbered
      <4>3. CASE j = Len(accepted) + 1
        BY <1>2, <1>3, <1>5, <3>1, <4>1, <4>3
      <4> QED
        BY <3>2, <4>2, <4>3
    <3> QED
      BY <3>3, <3>4 DEF Numbered
  <2> QED
    BY <1>4, <2>2, <2>3
<1>7. settled \in Nat /\ Len(batch) \in Nat /\ settled + Len(batch) <= Len(accepted)
  BY BatchNumbers DEF StreamInv
<1>8. StreamsHoldAccepted'
  <2>1. Reached' = Reached
    BY <1>1 DEF Reached, InFlush
  <2>2. \A m \in 1 .. Reached : m \in 1 .. Len(accepted)
    BY <1>2, <1>7 DEF Reached
  <2> QED
    BY <1>1, <1>5, <2>1, <2>2 DEF StreamInv, StreamsHoldAccepted
<1>9. SettledMeansStored'
  <2>1. \A i \in 1 .. settled : i \in 1 .. Len(accepted)
    BY <1>2, <1>7
  <2> QED
    BY <1>1, <1>5, <2>1 DEF StreamInv, SettledMeansStored, Stored
<1>10. StoreOK' /\ BatchInOrder' /\ StreamsKeepOrder'
  BY <1>1 DEF StreamInv, StoreOK, BatchInOrder, StreamsKeepOrder
<1> QED
  BY <1>6, <1>8, <1>9, <1>10 DEF StreamInv

LEMMA ReceiveStream ==
    ASSUME RecorderInv, StreamInv, Receive
    PROVE  StreamInv'
<1>1. /\ UNCHANGED <<clicks, stream, trimmed, settled, failed, accepted>>
      /\ batch' = Append(batch, Head(in)) /\ in # <<>> /\ ~InFlush
  BY DEF Receive, redis_vars, history_vars, InFlush
<1>2. /\ batch \in Seq(Events) /\ in \in Seq(Events) /\ settled \in Nat
      /\ Len(accepted) = settled + Len(batch) + Len(in)
      /\ \A i \in 1 .. Len(in) : in[i] = accepted[settled + Len(batch) + i]
  BY DEF RecorderInv, QueueOK, EveryEventAccountedFor
<1> DEFINE next == settled + Len(batch) + 1
<1>3. /\ Len(batch) \in Nat /\ Len(batch') = Len(batch) + 1
      /\ \A a \in 1 .. Len(batch) : batch'[a] = batch[a]
      /\ batch'[Len(batch) + 1] = in[1] /\ 1 \in 1 .. Len(in)
      /\ next \in 1 .. Len(accepted)
  BY <1>1, <1>2
<1>4. batch'[Len(batch) + 1] = accepted[next]
  BY <1>2, <1>3
<1>5. StreamsHoldAccepted'
  <2>1. Reached = settled
    BY <1>1 DEF Reached
  <2>2. Reached' = settled \/ Reached' = settled + Len(batch')
    BY <1>1 DEF Reached
  <2>3. Len(batch') \in Nat
    BY <1>3
  <2>4. 1 .. Reached \subseteq 1 .. Reached'
    BY <1>2, <2>1, <2>2, <2>3
  <2> QED
    BY <1>1, <2>4 DEF StreamInv, StreamsHoldAccepted
<1>6. ASSUME NEW c \in Codes, NEW i \in 1 .. Len(stream[c]), NEW a \in 1 .. Len(batch'),
             batch'[a].code = c, batch'[a].number < stream[c][i].number
      PROVE  \E k \in 1 .. i - 1 : stream[c][k] = batch'[a]
  <2>1. CASE a \in 1 .. Len(batch)
    <3>1. batch'[a] = batch[a]
      BY <1>3, <2>1
    <3>2. batch[a].code = c /\ batch[a].number < stream[c][i].number =>
            \E k \in 1 .. i - 1 : stream[c][k] = batch[a]
      BY <2>1 DEF StreamInv, BatchInOrder
    <3> QED
      BY <1>6, <3>1, <3>2
  <2>2. CASE a = Len(batch) + 1
    <3>1. PICK m \in 1 .. settled : accepted[m] = stream[c][i]
      BY <1>1 DEF StreamInv, StreamsHoldAccepted, Reached
    <3>2. m \in 1 .. Len(accepted) /\ m < next
      BY <1>2, <1>3
    <3>3. accepted[m].number < accepted[next].number
      BY <1>3, <3>2 DEF StreamInv, Numbered
    <3>4. accepted[m].number \in Nat /\ accepted[next].number \in Nat
      <4>1. accepted[m] \in Events /\ accepted[next] \in Events
        BY <1>3, <3>2, BatchNumbers DEF StreamInv
      <4> QED
        BY <4>1, EventType
    <3>5. batch'[a] = accepted[next]
      BY <1>4, <2>2
    <3> QED
      BY <1>6, <3>1, <3>3, <3>4, <3>5
  <2> QED
    BY <1>3, <2>1, <2>2
<1>7. BatchInOrder'
  BY <1>1, <1>6 DEF BatchInOrder
<1>8. StoreOK' /\ Numbered' /\ SettledMeansStored' /\ StreamsKeepOrder'
  <2>1. StreamsKeepOrder'
    BY <1>1 DEF StreamInv, StreamsKeepOrder
  <2>2. SettledMeansStored'
    BY <1>1 DEF StreamInv, SettledMeansStored, Stored
  <2> QED
    BY <1>1, <2>1, <2>2 DEF StreamInv, StoreOK, Numbered
<1> QED
  BY <1>5, <1>7, <1>8 DEF StreamInv

\* Steps that leave batch and streams alone and end no flush.
LEMMA QuietStream ==
    ASSUME RecorderInv, StreamInv, InFlush => InFlush',
           UNCHANGED <<clicks, batch, stream, trimmed, settled, failed, accepted>>
    PROVE  StreamInv'
<1>1. settled \in Nat /\ Len(batch) \in Nat
  BY BatchNumbers DEF StreamInv
<1>2. 1 .. Reached \subseteq 1 .. Reached'
  BY <1>1 DEF Reached
<1>3. StreamsHoldAccepted'
  BY <1>2 DEF StreamInv, StreamsHoldAccepted
<1> QED
  BY <1>3 DEF StreamInv, StoreOK, Numbered, BatchInOrder, SettledMeansStored, Stored, StreamsKeepOrder

LEMMA RetransmitStream ==
    ASSUME RecorderInv, StreamInv, InFlush, InFlush', NEW added, Appends(added), XAdd(added),
           UNCHANGED <<clicks, batch, settled, failed, accepted>>
    PROVE  StreamInv'
<1>1. StoreOK'
  BY StreamsGrow DEF StreamInv, StoreOK, Appends
<1>2. StreamsHoldAccepted' /\ BatchInOrder' /\ StreamsKeepOrder'
  <2>1. StreamsKeepOrder'
    BY AppendsKeepOrder
  <2>2. BatchInOrder'
    BY AppendsKeepOrder DEF BatchInOrder
  <2>3. Reached' = settled + Len(batch)
    BY DEF Reached
  <2>4. StreamsHoldAccepted'
    BY <2>3, AppendsKeepOrder DEF StreamsHoldAccepted
  <2> QED
    BY <2>1, <2>2, <2>4
<1>3. SettledMeansStored'
  <2>1. \A i \in 1 .. settled : accepted[i] \in Events
    BY BatchNumbers DEF StreamInv
  <2>2. \A i \in 1 .. settled : accepted[i].code \in Codes
    BY <2>1, EventType
  <2> QED
    BY <2>2, StoredStays DEF StreamInv, SettledMeansStored, Stored, Appends
<1> QED
  BY <1>1, <1>2, <1>3 DEF StreamInv, Numbered

\* A flush ends: its events are stored, or known to have failed.
LEMMA FlushStream ==
    ASSUME RecorderInv, StreamInv, InFlush, NEW added, Appends(added), XAdd(added),
           NEW failures \in SUBSET Numbers(batch), EndFlush(failures), UNCHANGED <<clicks, accepted>>,
           \/ failures = Numbers(batch)
           \/ \A a \in 1 .. Len(batch) :
                \E q \in 1 .. Len(added[batch[a].code]) : added[batch[a].code][q] = batch[a]
    PROVE  StreamInv'
<1>1. /\ Len(batch) \in Nat /\ settled \in Nat /\ Len(accepted) \in Nat
      /\ settled + Len(batch) <= Len(accepted)
      /\ \A i \in 1 .. Len(accepted) : accepted[i] \in Events
      /\ \A a \in 1 .. Len(batch) : batch[a] \in Events /\ batch[a] = accepted[settled + a]
  BY BatchNumbers DEF StreamInv
<1>2. /\ batch' = <<>> /\ Len(batch') = 0 /\ settled' = settled + Len(batch)
      /\ failed' = failed \cup failures
  BY DEF EndFlush
<1>3. StoreOK'
  <2>1. Numbers(batch) \subseteq 1 .. MaxClicks
    BY <1>1 DEF Numbers, Events
  <2>2. failed' \subseteq 1 .. MaxClicks
    BY <1>2, <2>1 DEF StreamInv, StoreOK
  <2> QED
    BY <2>2, StreamsGrow DEF StreamInv, StoreOK, Appends
<1>4. StreamsHoldAccepted' /\ StreamsKeepOrder'
  <2>1. Reached' = settled + Len(batch)
    BY <1>1, <1>2 DEF Reached
  <2> QED
    BY <1>2, <2>1, AppendsKeepOrder DEF StreamsHoldAccepted
<1>5. BatchInOrder'
  BY <1>2 DEF BatchInOrder
<1>6. ASSUME NEW i \in 1 .. settled'
      PROVE  Stored(accepted[i])' \/ accepted[i].number \in failed'
  <2>1. i \in 1 .. Len(accepted) /\ accepted[i].code \in Codes
    BY <1>1, <1>2, EventType
  <2>2. CASE i \in 1 .. settled
    <3>1. Stored(accepted[i]) \/ accepted[i].number \in failed
      BY <2>2 DEF StreamInv, SettledMeansStored
    <3>2. Stored(accepted[i]) => Stored(accepted[i])'
      <4> DEFINE e == accepted[i]
      <4>1. e.code \in Codes /\ e' = e
        BY <2>1
      <4> HIDE DEF e
      <4>2. Stored(e) => \E k \in 1 .. Len(stream'[e.code]) : stream'[e.code][k] = e
        BY <4>1, StoredStays DEF Stored, Appends
      <4> QED
        BY <4>1, <4>2 DEF Stored, e
    <3> QED
      BY <1>2, <3>1, <3>2
  <2>3. CASE i - settled \in 1 .. Len(batch)
    <3> DEFINE a == i - settled
    <3>1. a \in 1 .. Len(batch) /\ settled + a = i
      BY <1>1, <1>2, <2>3
    <3>2. accepted[i] = batch[a]
      BY <1>1, <3>1
    <3>3. CASE failures = Numbers(batch)
      BY <1>2, <3>1, <3>2, <3>3 DEF Numbers
    <3>4. ASSUME NEW c \in Codes, batch[a].code = c,
                 NEW q \in 1 .. Len(added[c]), added[c][q] = batch[a]
          PROVE  Stored(accepted[i])'
      <4>4. \E k \in 1 .. Len(stream'[c]) : stream'[c][k] = batch[a]
        BY <3>4, AppendedIsThere DEF StreamInv
      <4>5. accepted'[i] = batch[a]
        BY <3>2
      <4> QED
        BY <3>4, <4>4, <4>5 DEF Stored
    <3> QED
      BY <2>1, <3>1, <3>2, <3>3, <3>4
  <2> QED
    BY <1>1, <1>2, <2>2, <2>3
<1>7. SettledMeansStored'
  BY <1>6 DEF SettledMeansStored
<1> QED
  BY <1>3, <1>4, <1>5, <1>7 DEF StreamInv, Numbered

LEMMA RefusedAppends ==
    ASSUME RecorderInv, StreamInv, NEW c \in Codes
    PROVE  Appends([d \in Codes |-> IF d = c THEN <<>> ELSE EventsOf(d, batch)])
<1> DEFINE added == [d \in Codes |-> IF d = c THEN <<>> ELSE EventsOf(d, batch)]
<1>1. ASSUME NEW d \in Codes PROVE added[d] \in Seq(Events) /\ InOrder(added[d], d, batch)
  <2>1. CASE d = c
    BY <2>1 DEF InOrder
  <2>2. CASE d # c
    <3>1. added[d] = EventsOf(d, batch)
      BY <2>2
    <3>2. added[d] = EventsOf(d, SubSeq(batch, 1, Len(batch)))
      BY <3>1, WholeBatch
    <3> QED
      BY <3>2, WholeBatch, FirstInOrder DEF StreamInv
  <2> QED
    BY <2>1, <2>2
<1> QED
  BY <1>1 DEF Appends

\* Each action and the streams.
LEMMA StreamStep ==
    ASSUME RecorderInv, StreamInv, LateInv, [Next]_vars
    PROVE  StreamInv'
<1>1. CASE Record
  BY <1>1, RecordStream
<1>2. CASE Receive
  BY <1>2, ReceiveStream
<1>3. CASE \/ Tick \/ FlushOnTick \/ SeeStop \/ Drained \/ Close \/ CloseDrained \/ CloseExpired
           \/ (\E l \in Listings : StartListing(l) \/ List(l)) \/ UNCHANGED vars
  <2>1. UNCHANGED <<clicks, batch, stream, trimmed, settled, failed, accepted>>
    BY <1>3 DEF Tick, FlushOnTick, SeeStop, Drained, Close, CloseDrained, CloseExpired,
       StartListing, List, vars, worker_vars, redis_vars, history_vars
  <2>2. InFlush => UNCHANGED worker
    BY <1>3 DEF Tick, FlushOnTick, SeeStop, Drained, Close, CloseDrained, CloseExpired,
       StartListing, List, vars, worker_vars, InFlush
  <2> QED
    BY <2>1, <2>2, QuietStream DEF InFlush
<1>6. CASE ExecOk
  <2> DEFINE added == [c \in Codes |-> EventsOf(c, SubSeq(batch, 1, Len(batch)))]
  <2>1. /\ InFlush /\ XAdd(added) /\ EndFlush({}) /\ UNCHANGED <<clicks, accepted>>
        /\ Appends(added)
    BY <1>6, WholeBatch, FirstAppends DEF ExecOk, ExecFirst
  <2>2. ASSUME NEW a \in 1 .. Len(batch)
        PROVE  \E q \in 1 .. Len(added[batch[a].code]) : added[batch[a].code][q] = batch[a]
    <3> DEFINE c == batch[a].code
    <3>1. c \in Codes /\ added[c] = EventsOf(c, SubSeq(batch, 1, Len(batch)))
      BY WholeBatch
    <3> QED
      BY <3>1, WholeBatch, FirstInOrder DEF StreamInv
  <2> HIDE DEF added
  <2> QED
    BY <2>1, <2>2, FlushStream
<1>7. CASE ExecBroken
  <2>1. PICK n \in 0 .. Len(batch) : ExecFirst(n)
    BY <1>7 DEF ExecBroken, Break
  <2> DEFINE added == [c \in Codes |-> EventsOf(c, SubSeq(batch, 1, n))]
  <2>2. /\ InFlush /\ XAdd(added) /\ EndFlush(Numbers(batch)) /\ UNCHANGED <<clicks, accepted>>
        /\ Appends(added)
    BY <1>7, <2>1, FirstAppends DEF ExecBroken, ExecFirst
  <2> HIDE DEF added
  <2> QED
    BY <2>2, FlushStream
<1>8. CASE ExecRefused
  <2>1. PICK c \in Codes : XAdd([d \in Codes |-> IF d = c THEN <<>> ELSE EventsOf(d, batch)])
    BY <1>8 DEF ExecRefused
  <2> DEFINE added == [d \in Codes |-> IF d = c THEN <<>> ELSE EventsOf(d, batch)]
  <2>3. /\ InFlush /\ XAdd(added) /\ EndFlush(Numbers(batch)) /\ UNCHANGED <<clicks, accepted>>
        /\ Appends(added)
    BY <1>8, <2>1, RefusedAppends DEF ExecRefused
  <2> HIDE DEF added
  <2> QED
    BY <2>3, FlushStream
<1>9. CASE Retransmit
  <2>1. PICK n \in 0 .. Len(batch) : ExecFirst(n)
    BY <1>9 DEF Retransmit, Break
  <2> DEFINE added == [c \in Codes |-> EventsOf(c, SubSeq(batch, 1, n))]
  <2>2. /\ InFlush /\ InFlush' /\ XAdd(added) /\ Appends(added)
        /\ UNCHANGED <<clicks, batch, settled, failed, accepted>>
    BY <1>9, <2>1, FirstAppends DEF Retransmit, ExecFirst, history_vars, InFlush
  <2> HIDE DEF added
  <2> QED
    BY <2>2, RetransmitStream
<1>10. CASE ExecLate
  BY <1>10, LateStream
<1> QED
  BY <1>1, <1>2, <1>3, <1>6, <1>7, <1>8, <1>9, <1>10 DEF Next, Worker

-------------------------------------------------------------------------------
(* Listings                                                                *)

ListingRecords == [step : {"idle", "more", "done"}, code : Codes \cup {"none"}, token : Nat,
                   got : Seq(Nat), upto : Nat]

Descending(s) == \A i, j \in 1 .. Len(s) : i < j => s[j] < s[i]

\* A listing has got, newest first, all there is from its token on.
SoundListing(t) ==
    /\ t \in ListingRecords
    /\ t.step = "idle" => t.got = <<>>
    /\ Descending(t.got)
    /\ t.step = "more" => t.token \in 1 .. t.upto /\ \A i \in 1 .. Len(t.got) : t.token <= t.got[i]
    /\ t.step # "idle" =>
         /\ t.code \in Codes /\ t.upto <= Len(stream[t.code])
         /\ \A id \in trimmed[t.code] + 1 .. t.upto :
              t.token <= id => \E i \in 1 .. Len(t.got) : t.got[i] = id
    /\ t.step = "done" => t.token = 0

ListingInv == listing \in [Listings -> ListingRecords] /\ \A l \in Listings : SoundListing(listing[l])

LEMMA SmallerOfTwo ==
    ASSUME NEW a \in Nat, NEW b \in Nat
    PROVE  Min({a, b}) = IF a <= b THEN a ELSE b
<1>1. \E x \in {a, b} : \A y \in {a, b} : x <= y
  BY SMT
<1>2. Min({a, b}) \in {a, b} /\ \A y \in {a, b} : Min({a, b}) <= y
  BY <1>1, Zenon DEF Min
<1> QED
  BY <1>2

\* Where a page ends.
End(c, token) == IF token = 0 THEN Len(stream[c]) + 1 ELSE token

LEMMA PageHolds ==
    ASSUME StoreOK, NEW c \in Codes, NEW token \in Nat, token <= Len(stream[c])
    PROVE  LET end == End(c, token)
               k == Len(Page(c, token))
           IN  /\ Page(c, token) \in Seq(Nat) /\ k \in 0 .. PageSize
               /\ \A i \in 1 .. k : Page(c, token)[i] = end - i /\ trimmed[c] < end - i
               /\ k < PageSize => end - 1 - k <= trimmed[c]
<1> DEFINE len == Len(stream[c])
           old == trimmed[c]
           end == End(c, token)
           older == {id \in old + 1 .. len : id < end}
           k == Min({PageSize, Cardinality(older)})
<1>1. len \in Nat /\ old \in Nat /\ PageSize \in Nat \ {0}
  <2>1. stream[c] \in Seq(Events) /\ old \in Nat
    BY DEF StoreOK
  <2>2. PageSize \in Nat \ {0}
    BY RecorderAssumption DEF RecorderAssumption
  <2> QED
    BY <2>1, <2>2
<1>2. end \in Nat \ {0} /\ end <= len + 1
  BY <1>1 DEF End
<1> HIDE DEF len, old, end
<1>3. older = old + 1 .. end - 1
  BY <1>1, <1>2
<1>4. Cardinality(older) = IF old + 1 > end - 1 THEN 0 ELSE end - 1 - old
  <2>1. old + 1 \in Int /\ end - 1 \in Int
    BY <1>1, <1>2
  <2>2. Cardinality(old + 1 .. end - 1) =
          IF old + 1 > end - 1 THEN 0 ELSE (end - 1) - (old + 1) + 1
    BY <2>1, FS_Interval
  <2>3. (end - 1) - (old + 1) + 1 = end - 1 - old
    BY <1>1, <1>2
  <2> QED
    BY <1>3, <2>2, <2>3
<1>5. Page(c, token) = [i \in 1 .. k |-> end - i]
  BY DEF Page, len, old, end, End
<1> HIDE DEF older
<1>6. k \in Nat /\ k <= PageSize /\ (k < PageSize => k = Cardinality(older)) /\ k <= Cardinality(older)
  <2>1. Cardinality(older) \in Nat
    BY <1>1, <1>2, <1>4
  <2> QED
    BY <1>1, <2>1, SmallerOfTwo
<1> HIDE DEF k
<1>7. \A i \in 1 .. k : end - i \in Nat /\ old < end - i
  BY <1>1, <1>2, <1>4, <1>6
<1>8. Page(c, token) \in Seq(Nat) /\ Len(Page(c, token)) = k
  BY <1>5, <1>6, <1>7
<1>9. k < PageSize => end - 1 - k <= old
  BY <1>1, <1>2, <1>4, <1>6
<1>10. \A i \in 1 .. k : Page(c, token)[i] = end - i
  BY <1>5
<1> QED
  BY <1>1, <1>6, <1>7, <1>8, <1>9, <1>10 DEF old, end

\* One more page for a client that has got everything from token on.
LEMMA ListedIsSound ==
    ASSUME StoreOK, NEW c \in Codes, NEW token \in Nat, NEW got \in Seq(Nat), NEW upto \in Nat,
           upto <= Len(stream[c]), token <= upto, Descending(got),
           token = 0 => got = <<>> /\ upto = Len(stream[c]),
           token # 0 => /\ \A i \in 1 .. Len(got) : token <= got[i]
                        /\ \A id \in trimmed[c] + 1 .. upto :
                             token <= id => \E i \in 1 .. Len(got) : got[i] = id
    PROVE  SoundListing(Listed(c, token, got, upto))
<1> DEFINE old == trimmed[c]
           end == End(c, token)
           page == Page(c, token)
           k == Len(page)
           all == got \o page
           t == Listed(c, token, got, upto)
           n == Len(got)
<1>1. stream[c] \in Seq(Events) /\ Len(stream[c]) \in Nat /\ old \in Nat /\ PageSize \in Nat \ {0}
  <2>1. stream[c] \in Seq(Events) /\ old \in Nat
    BY DEF StoreOK
  <2> QED
    BY <2>1, RecorderAssumption DEF RecorderAssumption
<1>2. token <= Len(stream[c])
  BY <1>1
<1>3. /\ page \in Seq(Nat) /\ k \in 0 .. PageSize
      /\ \A i \in 1 .. k : page[i] = end - i /\ old < end - i
      /\ k < PageSize => end - 1 - k <= old
  BY <1>2, PageHolds
<1>4. end \in Nat \ {0} /\ end <= upto + 1
  BY <1>1, <1>2 DEF End
<1>5. \A i \in 1 .. n : end <= got[i] /\ got[i] \in Nat
  BY <1>1 DEF End
<1>6. \A id \in old + 1 .. upto : end <= id => \E i \in 1 .. n : got[i] = id
  BY <1>1 DEF End
<1>7. /\ t.step = (IF k = PageSize THEN "more" ELSE "done") /\ t.code = c
      /\ t.token = (IF k = PageSize THEN page[PageSize] ELSE 0)
      /\ t.got = all /\ t.upto = upto
  BY DEF Listed
<1>8. /\ all \in Seq(Nat) /\ n \in Nat /\ k \in Nat /\ Len(all) = n + k
      /\ \A i \in 1 .. n : all[i] = got[i]
      /\ \A q \in 1 .. k : all[n + q] = page[q]
  BY <1>3, Concatenated
<1>9. t = [step |-> t.step, code |-> c, token |-> t.token, got |-> all, upto |-> upto]
  BY DEF Listed
<1>10. \A i, j \in 1 .. n : i < j => got[j] < got[i]
  BY DEF Descending
<1> HIDE DEF old, end, page, k, all, t, n
<1>11. \A i \in 1 .. n + k : i \in 1 .. n \/ (i - n \in 1 .. k /\ i = n + (i - n))
  BY <1>8
<1>12. ASSUME NEW q \in 1 .. k
       PROVE  all[n + q] = end - q /\ old < end - q /\ end - q \in Nat
  <2>1. all[n + q] = page[q] /\ page[q] = end - q /\ old < end - q
    BY <1>3, <1>8
  <2>2. q \in Nat
    BY <1>8
  <2> QED
    BY <1>1, <1>4, <2>1, <2>2
<1>13. Descending(all)
  <2> SUFFICES ASSUME NEW i \in 1 .. n + k, NEW j \in 1 .. n + k, i < j PROVE all[j] < all[i]
    BY <1>8 DEF Descending
  <2>1. CASE j \in 1 .. n
    <3>1. i \in 1 .. n
      BY <1>8, <2>1
    <3> QED
      BY <1>8, <1>10, <2>1, <3>1
  <2>2. CASE i \in 1 .. n /\ j \notin 1 .. n
    <3>1. j - n \in 1 .. k /\ all[j] = end - (j - n) /\ all[i] = got[i]
      BY <1>8, <1>11, <1>12, <2>2
    <3> QED
      BY <1>4, <1>5, <1>8, <2>2, <3>1
  <2>3. CASE i \notin 1 .. n /\ j \notin 1 .. n
    <3>1. /\ j - n \in 1 .. k /\ all[j] = end - (j - n)
          /\ i - n \in 1 .. k /\ all[i] = end - (i - n)
      BY <1>11, <1>12, <2>3
    <3> QED
      BY <1>4, <1>8, <3>1
  <2> QED
    BY <1>8, <2>1, <2>2, <2>3
<1>14. ASSUME NEW id \in old + 1 .. upto, end - k <= id
       PROVE  \E i \in 1 .. n + k : all[i] = id
  <2>1. CASE end <= id
    <3>1. PICK i \in 1 .. n : got[i] = id
      BY <1>6, <2>1
    <3> QED
      BY <1>8, <3>1
  <2>2. CASE ~(end <= id)
    <3>1. end - id \in 1 .. k /\ n + (end - id) \in 1 .. n + k /\ end - (end - id) = id
      BY <1>1, <1>4, <1>8, <1>14, <2>2
    <3> QED
      BY <1>12, <3>1
  <2> QED
    BY <2>1, <2>2
<1>17. ASSUME t.step \in {"more", "done"}, t.token \in Nat,
              \A id \in old + 1 .. upto : t.token <= id => end - k <= id,
              t.step = "more" => t.token \in 1 .. upto /\ \A i \in 1 .. n + k : t.token <= all[i],
              t.step = "done" => t.token = 0
       PROVE  SoundListing(t)
  <2>1. t \in ListingRecords
    BY <1>8, <1>9, <1>17 DEF ListingRecords
  <2>2. t.code \in Codes /\ t.upto <= Len(stream[t.code])
    BY <1>7
  <2>3. \A id \in trimmed[t.code] + 1 .. t.upto :
          t.token <= id => \E i \in 1 .. Len(t.got) : t.got[i] = id
    BY <1>7, <1>8, <1>14, <1>17 DEF old
  <2>4. t.step = "more" =>
          t.token \in 1 .. t.upto /\ \A i \in 1 .. Len(t.got) : t.token <= t.got[i]
    BY <1>7, <1>8, <1>17
  <2>5. Descending(t.got)
    BY <1>7, <1>13
  <2> QED
    BY <1>17, <2>1, <2>2, <2>3, <2>4, <2>5 DEF SoundListing
<1>15. ASSUME k = PageSize PROVE SoundListing(t)
  <2>1. t.step = "more" /\ t.token = end - k /\ old < end - k /\ t.token \in Nat
    BY <1>1, <1>3, <1>7, <1>12, <1>15
  <2>2. t.token \in 1 .. upto
    BY <1>1, <1>4, <1>15, <2>1
  <2>3. ASSUME NEW i \in 1 .. n + k PROVE t.token <= all[i]
    <3>1. CASE i \in 1 .. n
      BY <1>4, <1>5, <1>8, <2>1, <3>1
    <3>2. CASE i \notin 1 .. n
      <4>1. i - n \in 1 .. k /\ all[i] = end - (i - n)
        BY <1>11, <1>12, <3>2
      <4> QED
        BY <1>4, <1>8, <2>1, <4>1
    <3> QED
      BY <3>1, <3>2
  <2> QED
    BY <1>17, <2>1, <2>2, <2>3
<1>16. ASSUME k # PageSize PROVE SoundListing(t)
  <2>1. t.step = "done" /\ t.token = 0 /\ k < PageSize
    BY <1>1, <1>3, <1>7, <1>16
  <2>2. \A id \in old + 1 .. upto : end - k <= id
    BY <1>1, <1>3, <1>4, <1>8, <2>1
  <2> QED
    BY <1>17, <2>1, <2>2
<1> QED
  BY <1>15, <1>16 DEF t

\* Streams and what was trimmed from them only grow.
LEMMA StreamsOnlyGrow ==
    ASSUME RecorderInv, StreamInv, LateInv, [Next]_vars, NEW c \in Codes
    PROVE  /\ Len(stream[c]) \in Nat /\ Len(stream'[c]) \in Nat /\ Len(stream[c]) <= Len(stream'[c])
           /\ trimmed[c] \in Nat /\ trimmed'[c] \in Nat /\ trimmed[c] <= trimmed'[c]
<1>1. Len(stream[c]) \in Nat /\ trimmed[c] \in Nat
  <2>1. stream[c] \in Seq(Events) /\ trimmed[c] \in Nat
    BY DEF StreamInv, StoreOK
  <2> QED
    BY <2>1
<1>2. CASE UNCHANGED <<stream, trimmed>>
  BY <1>1, <1>2
<1>3. ASSUME NEW added, \A d \in Codes : added[d] \in Seq(Events), XAdd(added)
      PROVE  /\ Len(stream'[c]) \in Nat /\ Len(stream[c]) <= Len(stream'[c])
             /\ trimmed'[c] \in Nat /\ trimmed[c] <= trimmed'[c]
  <2> DEFINE before == Len(stream[c])
             new == Len(added[c])
             after == Len(stream'[c])
  <2>1. /\ before \in Nat /\ new \in Nat /\ after = before + new
        /\ trimmed' \in [Codes -> Nat] /\ trimmed[c] <= trimmed'[c]
    BY <1>3, StreamsGrow DEF StreamInv
  <2>2. trimmed'[c] \in Nat
    BY <2>1
  <2> HIDE DEF before, new, after
  <2>3. after \in Nat /\ before <= after
    BY <2>1
  <2> QED
    BY <2>1, <2>2, <2>3 DEF before, after
<1>4. \/ UNCHANGED <<stream, trimmed>>
      \/ \E n \in 0 .. Len(batch) : ExecFirst(n)
      \/ ExecRefused \/ ExecLate
  BY WholeBatch DEF Next, Worker, Record, Tick, Receive, FlushOnTick, SeeStop, Drained, ExecOk, ExecBroken,
     Retransmit, Break, Close, CloseDrained, CloseExpired, StartListing, List, vars, redis_vars
<1>5. CASE ExecLate
  <2>1. PICK p \in late : XAdd([d \in Codes |-> IF d = Head(p.evts).code THEN <<Head(p.evts)>> ELSE <<>>])
    BY <1>5 DEF ExecLate
  <2> DEFINE added == [d \in Codes |-> IF d = Head(p.evts).code THEN <<Head(p.evts)>> ELSE <<>>]
  <2>2. XAdd(added) /\ \A d \in Codes : added[d] \in Seq(Events)
    BY <2>1, LateCommand
  <2> HIDE DEF added
  <2> QED
    BY <1>1, <1>3, <2>2
<1> QED
  BY <1>1, <1>2, <1>3, <1>4, <1>5, FirstAppends, RefusedAppends DEF ExecFirst, ExecRefused, Appends

LEMMA SoundStays ==
    ASSUME RecorderInv, StreamInv, LateInv, [Next]_vars, NEW l \in Listings,
           SoundListing(listing[l]), listing'[l] = listing[l]
    PROVE  SoundListing(listing[l])'
<1> DEFINE t == listing[l]
<1>1. t.step # "idle" =>
        /\ t.code \in Codes /\ t.upto <= Len(stream'[t.code])
        /\ \A id \in trimmed'[t.code] + 1 .. t.upto : id \in trimmed[t.code] + 1 .. t.upto
  <2>1. t.upto \in Nat
    BY DEF SoundListing, ListingRecords
  <2>2. t.step # "idle" => t.code \in Codes /\ t.upto <= Len(stream[t.code])
    BY DEF SoundListing
  <2> HIDE DEF t
  <2>3. SUFFICES ASSUME t.step # "idle"
                 PROVE  /\ t.upto <= Len(stream'[t.code])
                        /\ \A id \in trimmed'[t.code] + 1 .. t.upto : id \in trimmed[t.code] + 1 .. t.upto
    BY <2>2
  <2> DEFINE c == t.code
  <2>4. /\ Len(stream[c]) \in Nat /\ Len(stream'[c]) \in Nat /\ Len(stream[c]) <= Len(stream'[c])
        /\ trimmed[c] \in Nat /\ trimmed'[c] \in Nat /\ trimmed[c] <= trimmed'[c]
    BY <2>2, <2>3, StreamsOnlyGrow
  <2> QED
    BY <2>1, <2>2, <2>3, <2>4
<1>2. (t.step # "idle" =>
         /\ t.code \in Codes /\ t.upto <= Len(stream'[t.code])
         /\ \A id \in trimmed'[t.code] + 1 .. t.upto :
              t.token <= id => \E i \in 1 .. Len(t.got) : t.got[i] = id)
  BY <1>1 DEF SoundListing
<1> QED
  BY <1>2 DEF SoundListing

LEMMA ListingInit ==
    ASSUME Init
    PROVE  ListingInv
<1>1. Idle \in ListingRecords /\ Idle.step = "idle" /\ Idle.got = <<>>
  <2>1. <<>> \in Seq(Nat)
    OBVIOUS
  <2> QED
    BY <2>1 DEF Idle, ListingRecords
<1>2. \A l \in Listings : listing[l] = Idle
  BY DEF Init
<1>3. SoundListing(Idle)
  BY <1>1 DEF SoundListing, Descending
<1>4. listing \in [Listings -> ListingRecords]
  BY <1>1 DEF Init
<1> QED
  BY <1>2, <1>3, <1>4 DEF ListingInv

LEMMA ListingStep ==
    ASSUME RecorderInv, StreamInv, LateInv, ListingInv, [Next]_vars
    PROVE  ListingInv'
<1>1. CASE UNCHANGED listing
  BY <1>1, SoundStays DEF ListingInv
<1>2. ASSUME NEW l \in Listings, NEW t, SoundListing(t),
             UNCHANGED redis_vars, listing' = [listing EXCEPT ![l] = t]
      PROVE  ListingInv'
  <2>1. listing \in [Listings -> ListingRecords] /\ t \in ListingRecords
    BY <1>2 DEF ListingInv, SoundListing
  <2>2. listing' \in [Listings -> ListingRecords] /\ listing'[l] = t
    BY <1>2, <2>1
  <2>3. ASSUME NEW k \in Listings PROVE SoundListing(listing[k])'
    <3>1. CASE k = l
      BY <1>2, <2>2, <3>1 DEF SoundListing, redis_vars
    <3>2. CASE k # l
      <4>1. listing'[k] = listing[k]
        BY <1>2, <2>1, <3>2
      <4> QED
        BY <4>1, SoundStays DEF ListingInv
    <3> QED
      BY <3>1, <3>2
  <2> QED
    BY <2>2, <2>3 DEF ListingInv
<1>3. ASSUME NEW l \in Listings, StartListing(l) PROVE ListingInv'
  <2>1. PICK c \in Codes : listing' = [listing EXCEPT ![l] = Listed(c, 0, <<>>, Len(stream[c]))]
    BY <1>3 DEF StartListing
  <2>2. Len(stream[c]) \in Nat /\ <<>> \in Seq(Nat) /\ Descending(<<>>)
    BY StreamsOnlyGrow DEF Descending
  <2> DEFINE len == Len(stream[c])
             none == <<>>
             token == 0
  <2>3. /\ len \in Nat /\ none \in Seq(Nat) /\ Descending(none) /\ token \in Nat
        /\ token <= len /\ len <= Len(stream[c]) /\ StoreOK
        /\ token = 0 /\ none = <<>> /\ len = Len(stream[c])
    BY <2>2 DEF StreamInv
  <2> HIDE DEF len, none, token
  <2>4. SoundListing(Listed(c, token, none, len))
    BY <2>3, ListedIsSound
  <2>5. SoundListing(Listed(c, 0, <<>>, Len(stream[c])))
    BY <2>3, <2>4
  <2> QED
    BY <1>2, <1>3, <2>1, <2>5 DEF StartListing
<1>4. ASSUME NEW l \in Listings, List(l) PROVE ListingInv'
  <2> DEFINE t == listing[l]
  <2>1. t.step = "more" /\ SoundListing(t)
    BY <1>4 DEF List, ListingInv
  <2>2. /\ t.code \in Codes /\ t.token \in Nat \ {0} /\ t.got \in Seq(Nat) /\ t.upto \in Nat
        /\ t.token <= t.upto /\ t.upto <= Len(stream[t.code]) /\ Descending(t.got)
        /\ \A i \in 1 .. Len(t.got) : t.token <= t.got[i]
        /\ \A id \in trimmed[t.code] + 1 .. t.upto :
             t.token <= id => \E i \in 1 .. Len(t.got) : t.got[i] = id
    <3>1. t.token \in 1 .. t.upto /\ t \in ListingRecords
      BY <2>1 DEF SoundListing
    <3>2. t.upto \in Nat /\ t.token \in Nat \ {0} /\ t.token <= t.upto
      BY <3>1 DEF ListingRecords
    <3> QED
      BY <2>1, <3>1, <3>2 DEF SoundListing, ListingRecords
  <2> HIDE DEF t
  <2>3. SoundListing(Listed(t.code, t.token, t.got, t.upto))
    BY <2>2, ListedIsSound DEF StreamInv
  <2>4. listing' = [listing EXCEPT ![l] = Listed(t.code, t.token, t.got, t.upto)]
    BY <1>4 DEF List, ListingInv, t
  <2> QED
    BY <1>2, <1>4, <2>3, <2>4 DEF List
<1> QED
  BY <1>1, <1>3, <1>4 DEF Next, Worker, Record, Tick, Receive, FlushOnTick, SeeStop, Drained,
     ExecOk, ExecBroken, ExecRefused, Retransmit, ExecLate, Close, CloseDrained, CloseExpired, vars

\* What flushes and listings leave behind, for any sizes and any number of clicks.
THEOREM StreamInvariant == Spec => [](RecorderInv /\ StreamInv /\ LateInv /\ ListingInv)
<1>1. Init => RecorderInv /\ StreamInv /\ LateInv /\ ListingInv
  <2>1. Init => LateInv
    BY DEF Init, LateInv
  <2> QED
    BY <2>1, RecorderAssumption, RecorderInit, StreamInit, ListingInit
<1>2. RecorderInv /\ StreamInv /\ LateInv /\ ListingInv /\ [Next]_vars
      => (RecorderInv /\ StreamInv /\ LateInv /\ ListingInv)'
  BY RecorderAssumption, RecorderStep, StreamStep, LateStep, ListingStep
<1> QED
  BY <1>1, <1>2, PTL DEF Spec

\* What has left the worker is in its stream or known to be lost, and a stream
\* has the clicks of its code in the order in which they happened, whatever part
\* of a pipeline Redis has run and however often it was sent (recorder.go:200-218).
THEOREM StreamsHoldTheClicks == Spec => []StreamsOK
<1>1. RecorderInv /\ StreamInv /\ LateInv /\ ListingInv => StreamsOK
  BY DEF RecorderInv, StreamInv, StoreOK, LateInv, ListingInv, ListingRecords, StreamsOK, TypeOK
<1> QED
  BY <1>1, StreamInvariant, PTL

\* A client that pages to the end has got, once and newest first, all there was
\* when it began but for what was trimmed since, whatever is appended and
\* trimmed between its pages (recorder.go:120-151).
THEOREM ListingsAreComplete == Spec => []ListingIsComplete
<1>1. ASSUME RecorderInv, StreamInv, ListingInv, NEW l \in Listings
      PROVE  /\ \A i, j \in 1 .. Len(listing[l].got) : i < j => listing[l].got[j] < listing[l].got[i]
             /\ listing[l].step = "done" =>
                  \A id \in trimmed[listing[l].code] + 1 .. listing[l].upto :
                     \E i \in 1 .. Len(listing[l].got) : listing[l].got[i] = id
  <2> DEFINE t == listing[l]
  <2>1. SoundListing(t)
    BY <1>1 DEF ListingInv
  <2> HIDE DEF t
  <2>2. \A i, j \in 1 .. Len(t.got) : i < j => t.got[j] < t.got[i]
    BY <2>1 DEF SoundListing, Descending
  <2>3. ASSUME t.step = "done", NEW id \in trimmed[t.code] + 1 .. t.upto
        PROVE  \E i \in 1 .. Len(t.got) : t.got[i] = id
    <3>1. t.code \in Codes /\ t.token = 0 /\ t.upto \in Nat
      BY <2>1, <2>3 DEF SoundListing, ListingRecords
    <3>2. trimmed[t.code] \in Nat
      BY <1>1, <3>1 DEF StreamInv, StoreOK
    <3>3. t.token <= id
      BY <2>3, <3>1, <3>2
    <3> QED
      BY <2>1, <2>3, <3>3 DEF SoundListing
  <2> QED
    BY <2>2, <2>3 DEF t
<1>2. RecorderInv /\ StreamInv /\ ListingInv => ListingIsComplete
  BY <1>1 DEF ListingIsComplete
<1> QED
  BY <1>2, StreamInvariant, PTL

===============================================================================
