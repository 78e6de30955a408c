----------------------------- MODULE ClickRecorder -----------------------------
(***************************************************************************)
(* The click recorder (internal/clicks/redisstream): redirects put click   *)
(* events into a bounded channel, one worker takes them out in batches and *)
(* appends each batch to Redis streams in one pipeline, Close stops the    *)
(* worker, and a client pages backwards through the stream of a code.      *)
(*                                                                         *)
(* A Redis stream is the sequence of all events ever appended to it, the   *)
(* position being the stream id, and the number of those trimmed away.     *)
(***************************************************************************)
EXTENDS Integers, Sequences, FiniteSets, FiniteSetsExt

CONSTANTS
    Codes,
    BufferSize,   \* Options.BufferSize: 1024 by default
    BatchSize,    \* Options.BatchSize: 64 by default
    MaxLen,       \* Options.MaxLen: 0 if streams are not capped
    PageSize,     \* ListOptions.PageSize
    Retries,      \* retransmissions of a pipeline by the Redis client
    Listings,     \* clients that list clicks
    MaxClicks     \* bound: clicks in a behaviour

ASSUME RecorderAssumption ==
    /\ Codes # {}
    /\ {BufferSize, BatchSize, PageSize} \subseteq Nat \ {0}
    /\ {MaxLen, Retries, MaxClicks} \subseteq Nat

VARIABLES
    clicks,     \* clicks so far; the next event has the next number
    in,         \* the channel
    batch,      \* the worker's batch
    ticked,     \* the ticker's channel holds a tick
    worker,     \* where the worker is
    tries,      \* attempts of the pipeline under way that failed
    close,      \* main's Close: "open", "waiting", "drained", "expired"
    stream,     \* stream[c]: events appended to the stream of c
    trimmed,    \* trimmed[c]: how many of them are gone again
    late,       \* what Redis may still run of pipelines that were given up
    listing,    \* listing[l]: a client paging through one stream
    accepted,   \* history: events that entered the channel
    settled,    \* history: how many of them have left the batch
    failed,     \* history: numbers of events whose flush was logged as failed
    onTime      \* history: how many events were accepted before Close

worker_vars == <<batch, ticked, worker, tries>>
redis_vars == <<stream, trimmed, late>>
history_vars == <<accepted, settled, failed, onTime>>
vars == <<clicks, in, worker_vars, close, redis_vars, listing, history_vars>>

Events == [number : 1 .. MaxClicks, code : Codes]

\* No listing has begun.
Idle == [step |-> "idle", code |-> "none", token |-> 0, got |-> <<>>, upto |-> 0]

Init ==
    /\ clicks = 0
    /\ in = <<>> /\ batch = <<>> /\ ticked = FALSE /\ worker = "select" /\ tries = 0
    /\ close = "open"
    /\ stream = [c \in Codes |-> <<>>] /\ trimmed = [c \in Codes |-> 0] /\ late = {}
    /\ listing = [l \in Listings |-> Idle]
    /\ accepted = <<>> /\ settled = 0 /\ failed = {} /\ onTime = 0

\* After Close the process exits.
Running == close \in {"open", "waiting"}

-------------------------------------------------------------------------------
(* Record                                                                  *)

\* An event is dropped if the channel is full, never waited for.
Record ==
    /\ Running /\ clicks < MaxClicks
    /\ clicks' = clicks + 1
    /\ \E c \in Codes :
         LET evt == [number |-> clicks + 1, code |-> c] IN
         IF Len(in) < BufferSize
         THEN in' = Append(in, evt) /\ accepted' = Append(accepted, evt)
         ELSE UNCHANGED <<in, accepted>>
    /\ UNCHANGED <<worker_vars, close, redis_vars, listing, settled, failed, onTime>>

-------------------------------------------------------------------------------
(* The worker                                                              *)

\* The ticker drops ticks that the worker is too slow for.
Tick ==
    /\ Running /\ ~ticked
    /\ ticked' = TRUE
    /\ UNCHANGED <<clicks, in, batch, worker, tries, close, redis_vars, listing, history_vars>>

\* Where the worker is when a flush begins, and where it goes on afterwards.
Flushing == [select |-> "flush", drain |-> "drain_flush"]
Resumed == [flush |-> "select", drain_flush |-> "drain", last_flush |-> "exited"]

\* Mutant of Receive: the batch is a stack.
ReceiveOnTop ==
    /\ Running /\ worker \in {"select", "drain"} /\ in # <<>>
    /\ in' = Tail(in)
    /\ batch' = <<Head(in)>> \o batch
    /\ worker' = IF Len(batch) + 1 >= BatchSize THEN Flushing[worker] ELSE worker
    /\ UNCHANGED <<clicks, ticked, tries, close, redis_vars, listing, history_vars>>

\* select is uniform among the ready branches: an event, a tick or the stop.
Receive ==
    /\ Running /\ worker \in {"select", "drain"} /\ in # <<>>
    /\ in' = Tail(in)
    /\ batch' = Append(batch, Head(in))
    /\ worker' = IF Len(batch) + 1 >= BatchSize THEN Flushing[worker] ELSE worker
    /\ UNCHANGED <<clicks, ticked, tries, close, redis_vars, listing, history_vars>>

FlushOnTick ==
    /\ Running /\ worker = "select" /\ ticked
    /\ ticked' = FALSE
    /\ worker' = IF batch = <<>> THEN "select" ELSE "flush"
    /\ UNCHANGED <<clicks, in, batch, tries, close, redis_vars, listing, history_vars>>

\* Mutant of SeeStop: the worker writes its batch and leaves the channel alone.
StopWithoutDrain ==
    /\ Running /\ worker = "select" /\ close # "open"
    /\ worker' = IF batch = <<>> THEN "exited" ELSE "last_flush"
    /\ UNCHANGED <<clicks, in, batch, ticked, tries, close, redis_vars, listing, history_vars>>

SeeStop ==
    /\ Running /\ worker = "select" /\ close # "open"
    /\ worker' = "drain"
    /\ UNCHANGED <<clicks, in, batch, ticked, tries, close, redis_vars, listing, history_vars>>

\* Mutant of Drained: the drain waits for the channel to be closed.
DrainedIfNothingLeft ==
    /\ Running /\ worker = "drain" /\ in = <<>> /\ batch = <<>>
    /\ worker' = "exited"
    /\ UNCHANGED <<clicks, in, batch, ticked, tries, close, redis_vars, listing, history_vars>>

\* The default branch of the drain: what arrives from now on stays in the channel.
Drained ==
    /\ Running /\ worker = "drain" /\ in = <<>>
    /\ worker' = IF batch = <<>> THEN "exited" ELSE "last_flush"
    /\ UNCHANGED <<clicks, in, batch, ticked, tries, close, redis_vars, listing, history_vars>>

-------------------------------------------------------------------------------
(* The pipeline of a flush                                                 *)

\* The events of one code among evts.
EventsOf(c, evts) ==
    LET of[n \in 0 .. Len(evts)] ==
            IF n = 0 THEN <<>>
            ELSE IF evts[n].code = c THEN Append(of[n - 1], evts[n]) ELSE of[n - 1]
    IN  of[Len(evts)]

\* Redis appends added[c] to the stream of c; a capped stream may lose its oldest
\* events, but keeps MaxLen, as trimming is approximate.
XAdd(added) ==
    /\ stream' = [c \in Codes |-> stream[c] \o added[c]]
    /\ \E cap \in BOOLEAN :
         trimmed' = [c \in Codes |->
             IF /\ cap /\ MaxLen > 0 /\ added[c] # <<>>
                /\ Len(stream[c]) + Len(added[c]) - MaxLen > trimmed[c]
             THEN Len(stream[c]) + Len(added[c]) - MaxLen ELSE trimmed[c]]

\* Redis runs the first n commands of the pipeline.
ExecFirst(n) == XAdd([c \in Codes |-> EventsOf(c, SubSeq(batch, 1, n))])

InFlush == worker \in {"flush", "drain_flush", "last_flush"}

\* Mutant of EndFlush: the batch is not emptied.
KeepBatch(failures) ==
    /\ worker' = Resumed[worker]
    /\ tries' = 0
    /\ settled' = settled + Len(batch)
    /\ failed' = failed \cup failures
    /\ UNCHANGED batch

\* The batch is emptied, whether it was written or its failure logged.
EndFlush(failures) ==
    /\ worker' = Resumed[worker]
    /\ tries' = 0
    /\ batch' = <<>>
    /\ settled' = settled + Len(batch)
    /\ failed' = failed \cup failures

Numbers(evts) == {evts[i].number : i \in 1 .. Len(evts)}

ExecOk ==
    /\ Running /\ InFlush
    /\ ExecFirst(Len(batch))
    /\ EndFlush({})
    /\ UNCHANGED <<clicks, in, ticked, close, late, listing, accepted, onTime>>

\* The rest of the pipeline of an attempt, if there is one.
Rest(attempt, evts) == IF evts = <<>> THEN {} ELSE {[attempt |-> attempt, evts |-> evts]}

\* The connection breaks, or the two seconds of the context end, after Redis has
\* run the first n commands; it may have received the others and run them later.
Break ==
    \E n \in 0 .. Len(batch) :
        /\ ExecFirst(n)
        /\ late' = late \cup Rest(tries, SubSeq(batch, n + 1, Len(batch)))

ExecBroken ==
    /\ Running /\ InFlush
    /\ Break
    /\ EndFlush(Numbers(batch))
    /\ UNCHANGED <<clicks, in, ticked, close, listing, accepted, onTime>>

\* Redis refuses the commands on one code's stream and runs the others.
ExecRefused ==
    /\ Running /\ InFlush
    /\ \E c \in Codes :
         /\ EventsOf(c, batch) # <<>>
         /\ XAdd([d \in Codes |-> IF d = c THEN <<>> ELSE EventsOf(d, batch)])
    /\ EndFlush(Numbers(batch))
    /\ UNCHANGED <<clicks, in, ticked, close, late, listing, accepted, onTime>>

\* The client sends the whole pipeline again after its connection broke.
Retransmit ==
    /\ Running /\ InFlush /\ tries < Retries
    /\ tries' = tries + 1
    /\ Break
    /\ UNCHANGED <<clicks, in, batch, ticked, worker, close, listing, history_vars>>

\* Redis runs one more command of a pipeline that the client has given up, while
\* the worker goes on, or has exited.
ExecLate ==
    /\ \E p \in late : LET e == Head(p.evts) IN
         /\ XAdd([c \in Codes |-> IF c = e.code THEN <<e>> ELSE <<>>])
         /\ late' = (late \ {p}) \cup Rest(p.attempt, Tail(p.evts))
    /\ UNCHANGED <<clicks, in, worker_vars, close, listing, history_vars>>

-------------------------------------------------------------------------------
(* Close                                                                   *)

\* Close closes the stop channel and waits for the worker.
Close ==
    /\ close = "open"
    /\ close' = "waiting"
    /\ onTime' = Len(accepted)
    /\ UNCHANGED <<clicks, in, worker_vars, redis_vars, listing, accepted, settled, failed>>

CloseDrained ==
    /\ close = "waiting" /\ worker = "exited"
    /\ close' = "drained"
    /\ UNCHANGED <<clicks, in, worker_vars, redis_vars, listing, history_vars>>

\* The five seconds of the caller's context end before.
CloseExpired ==
    /\ close = "waiting"
    /\ close' = "expired"
    /\ UNCHANGED <<clicks, in, worker_vars, redis_vars, listing, history_vars>>

-------------------------------------------------------------------------------
(* List, called until it returns no token                                  *)

\* The ids older than token, or all without a token, newest first.
Page(c, token) ==
    LET end == IF token = 0 THEN Len(stream[c]) + 1 ELSE token
        older == {id \in trimmed[c] + 1 .. Len(stream[c]) : id < end}
    IN  [i \in 1 .. Min({PageSize, Cardinality(older)}) |-> end - i]

\* Mutant of Listed: the page token is inclusive.
ListedInclusive(c, token, got, upto) ==
    LET page == Page(c, token)
        full == Len(page) = PageSize
    IN  [step |-> IF full THEN "more" ELSE "done", code |-> c,
         token |-> IF full THEN page[PageSize] + 1 ELSE 0,
         got |-> got \o page, upto |-> upto]

\* A client that has got and asks for the page of token: a full page has a next.
Listed(c, token, got, upto) ==
    LET page == Page(c, token)
        full == Len(page) = PageSize
    IN  [step |-> IF full THEN "more" ELSE "done", code |-> c,
         token |-> IF full THEN page[PageSize] ELSE 0,
         got |-> got \o page, upto |-> upto]

\* The first page: no token.
StartListing(l) ==
    /\ Running /\ listing[l].step = "idle"
    /\ \E c \in Codes :
         listing' = [listing EXCEPT ![l] = Listed(c, 0, <<>>, Len(stream[c]))]
    /\ UNCHANGED <<clicks, in, worker_vars, close, redis_vars, history_vars>>

List(l) ==
    /\ Running /\ listing[l].step = "more"
    /\ listing' = [listing EXCEPT ![l] = Listed(@.code, @.token, @.got, @.upto)]
    /\ UNCHANGED <<clicks, in, worker_vars, close, redis_vars, history_vars>>

-------------------------------------------------------------------------------
Worker ==
    \/ Receive \/ FlushOnTick \/ SeeStop \/ Drained
    \/ ExecOk \/ ExecBroken \/ ExecRefused \/ Retransmit

Next == Record \/ Tick \/ Worker \/ ExecLate \/ Close \/ CloseDrained \/ CloseExpired
        \/ \E l \in Listings : StartListing(l) \/ List(l)

Spec == Init /\ [][Next]_vars

\* The worker is a goroutine whose every wait ends: ticks go on, and a flush has
\* a deadline.  select is uniform among its ready branches, so one that is ready
\* again and again is taken.
FairSpec ==
    /\ Spec
    /\ WF_vars(Worker) /\ WF_vars(Tick) /\ WF_vars(CloseDrained)
    /\ SF_vars(Receive) /\ SF_vars(FlushOnTick) /\ SF_vars(SeeStop)

-------------------------------------------------------------------------------
(* Properties                                                              *)

\* Channel, batch and worker have their types; the first two keep their sizes.
QueueOK ==
    /\ clicks \in 0 .. MaxClicks
    /\ in \in Seq(Events) /\ Len(in) <= BufferSize
    /\ batch \in Seq(Events) /\ Len(batch) <= BatchSize
    /\ worker \in {"select", "drain"} => Len(batch) < BatchSize
    /\ ticked \in BOOLEAN
    /\ worker \in {"select", "flush", "drain", "drain_flush", "last_flush", "exited"}
    /\ tries \in 0 .. Retries
    /\ close \in {"open", "waiting", "drained", "expired"}
    /\ accepted \in Seq(Events)
    /\ settled \in Nat /\ onTime \in Nat

\* Type correctness.
TypeOK ==
    /\ QueueOK
    /\ stream \in [Codes -> Seq(Events)] /\ trimmed \in [Codes -> Nat]
    /\ late \subseteq [attempt : 0 .. Retries, evts : Seq(Events)]
    /\ listing \in [Listings -> [step : {"idle", "more", "done"},
                                 code : Codes \cup {"none"}, token : Nat,
                                 got : Seq(Nat), upto : Nat]]
    /\ failed \subseteq 1 .. MaxClicks

\* Between the channel, the batch and the flushes no accepted event is lost,
\* doubled or overtaken: what is settled, batched and queued is what was accepted.
EveryEventAccountedFor ==
    /\ Len(accepted) = settled + Len(batch) + Len(in)
    /\ \A i \in 1 .. Len(batch) : batch[i] = accepted[settled + i]
    /\ \A i \in 1 .. Len(in) : in[i] = accepted[settled + Len(batch) + i]

Stored(e) == \E i \in 1 .. Len(stream[e.code]) : stream[e.code][i] = e

\* An event that left the worker is in its stream, or its loss was logged.
SettledMeansStored ==
    \A i \in 1 .. settled : Stored(accepted[i]) \/ accepted[i].number \in failed

\* Clicks of one code reach its stream in the order in which they happened, but
\* for repetitions, and for those of pipelines given up and reported as failed.
StreamsKeepOrder ==
    \A c \in Codes : \A i, j \in 1 .. Len(stream[c]) :
        i < j /\ stream[c][j].number < stream[c][i].number =>
            \/ stream[c][j].number \in failed
            \/ \E k \in 1 .. i : stream[c][k] = stream[c][j]

\* What flushing leaves behind: every variable has its type, what is settled is stored
\* or known to be lost, and streams keep the order of the clicks.
StreamsOK == TypeOK /\ SettledMeansStored /\ StreamsKeepOrder

\* recorder.go:84: "Close stops the worker, draining any pending events": if it
\* reports success, every event accepted before it was called is settled.
CloseDrains == close = "drained" => settled >= onTime

\* Paging backwards returns no event twice, and at the end all those there were
\* at the beginning, but for those trimmed meanwhile.
ListingIsComplete ==
    \A l \in Listings : LET got == listing[l].got IN
        /\ \A i, j \in 1 .. Len(got) : i < j => got[j] < got[i]
        /\ listing[l].step = "done" =>
             \A id \in trimmed[listing[l].code] + 1 .. listing[l].upto :
                 \E i \in 1 .. Len(got) : got[i] = id

\* recorder.go:32: an event does not stay in the buffer: while the process runs
\* it is flushed, however few others there are.
EventsAreFlushed ==
    \A n \in 1 .. MaxClicks :
        Len(accepted) >= n ~> settled >= n \/ close # "open"

\* Close returns, even without the deadline of its caller.
CloseReturns == close = "waiting" ~> close \in {"drained", "expired"}

\* The worker never rests while there is something to flush, or a Close to answer.
WorkerGoesOn == EventsAreFlushed /\ CloseReturns
===============================================================================
