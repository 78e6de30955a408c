-------------------------------- MODULE Process --------------------------------
(***************************************************************************)
(* The server process (cmd/urlo): main assembles the service from its      *)
(* configuration, part by part, and opens what the parts need: the         *)
(* database of the owner index, its workers, the click recorder.  A        *)
(* goroutine waits for a signal and closes them; main closes them too      *)
(* when the framework returns, at the same time perhaps.                   *)
(*                                                                         *)
(* The framework (butterfly) is external: it calls the init function and   *)
(* then serves; it may die of an error, return on one, or on a signal.     *)
(***************************************************************************)
EXTENDS Integers, FiniteSets

CONSTANTS Pods,      \* processes, each started again and again
          Settings,  \* configurations
          NoSetting

MinCodeLen == 6
DefaultCodeLen == 6
MaxCodeLen == 32

\* ServiceConfig: the settings that the assembly depends on, and what the framework
\* has for the names among them.
ServiceConfig ==
    [codeLength : Int,
     storage : STRING, s3 : {"", "missing", "no bucket", "ready"},
     relations : STRING, linkSpace : {"blank", "valid"}, readSource : STRING,
     queue : Int, reconcile : Int,
     dsn : {"", "malformed", "valid"}, conns : Int, connect : Int, query : Int,
     limit : BOOLEAN, limitRedis : {"", "missing", "ready"}, perHour : Int,
     google : BOOLEAN, secret : BOOLEAN, ttlHours : Int,
     clicks : STRING, clicksRedis : {"", "missing", "ready"}, buffer : Int]

ASSUME ProcessAssumption == Settings \subseteq ServiceConfig /\ NoSetting \notin Settings

VARIABLES
    pod,      \* pod[p]: the process p
    served    \* history: configurations with which a process has served

process_vars == <<pod, served>>

\* NewService: the parts of the service before InitFunc.
NewService == [codeLen |-> DefaultCodeLen, store |-> "memory", reads |-> "none", queue |-> 0,
            limited |-> FALSE, ttl |-> 0, recorder |-> FALSE, buffer |-> 0]

Off == [main |-> "off", setting |-> NoSetting, parts |-> NewService, open |-> {},
        closer |-> {}, closing |-> "no", watcher |-> "none", signalled |-> FALSE]

ProcessInit == /\ pod = [p \in Pods |-> Off]
               /\ served = {}

-------------------------------------------------------------------------------
(* Configuration                                                           *)

\* cmp.Or
Or(x, default) == IF x = 0 THEN default ELSE x

clampCodeLen(n) ==
    CASE n <= 0 -> DefaultCodeLen
      [] 0 < n /\ n < MinCodeLen -> MinCodeLen
      [] n > MaxCodeLen -> MaxCodeLen
      [] OTHER -> n

SetCodeLength(parts, n) == [parts EXCEPT !.codeLen = clampCodeLen(n)]
SetStore(parts, driver) == [parts EXCEPT !.store = IF driver = "s3" THEN "s3" ELSE "memory"]
SetRecorder(parts, used) == [parts EXCEPT !.recorder = used]

StoreRefused(c) ==
    \/ c.storage \notin {"", "memory", "s3"}
    \/ c.storage = "s3" /\ c.s3 # "ready"

NoRelations(c) == c.relations \in {"", "none"}

MaxQueue == 100000
MaxReconcileSeconds == 86400
MaxQueryMs == 60000

\* The owner index is kept beside S3 only.
RelationsRefused(c) ==
    \/ c.relations # "postgres" \/ c.storage # "s3" \/ c.linkSpace # "valid"
    \/ c.readSource \notin {"", "s3", "postgres"}
    \/ c.queue \notin 0 .. MaxQueue \/ c.reconcile \notin 0 .. MaxReconcileSeconds
    \/ Or(c.conns, 10) \notin 1 .. 100 \/ Or(c.connect, 3) \notin 1 .. 60
    \/ Or(c.query, 1000) \notin 1 .. MaxQueryMs
    \/ c.dsn # "valid"

LimiterRefused(c) == c.limit /\ (c.perHour <= 0 \/ c.limitRedis # "ready")

AuthRefused(c) == c.google /\ ~c.secret

SessionTTL(c) == IF c.ttlHours <= 0 THEN 168 ELSE c.ttlHours

NoClicks(c) == c.clicks \in {"", "none"}

RecorderRefused(c) ==
    ~NoClicks(c) /\ (c.clicks # "redis_stream" \/ c.clicksRedis # "ready")

-------------------------------------------------------------------------------
(* Starting                                                                *)

\* A process begins to run its init function.
StartProcess(p, c) ==
    /\ pod[p].main = "off"
    /\ pod' = [pod EXCEPT ![p] = [Off EXCEPT !.main = "service", !.setting = c]]
    /\ UNCHANGED served

\* The init function goes on to the next step, or ends with an error.
Goto(p, step) == [pod EXCEPT ![p].main = step]
Refuse(p) == pod' = Goto(p, "failing")

InitService(p) ==
    /\ pod[p].main = "service"
    /\ pod' = [Goto(p, "store") EXCEPT
                   ![p].parts = SetCodeLength(@, pod[p].setting.codeLength)]
    /\ UNCHANGED served

InitStore(p) ==
    LET c == pod[p].setting IN
    /\ pod[p].main = "store"
    /\ \/ StoreRefused(c) /\ Refuse(p)
       \/ ~StoreRefused(c) /\ pod' = Goto(p, "relations")
    /\ UNCHANGED served

\* The store is in use only now, with the owner index or without it.
UseStore(p) == [Goto(p, "limiter") EXCEPT ![p].parts = SetStore(@, pod[p].setting.storage)]

\* The database and the workers of the owner index.
OpenRelations(p) ==
    LET c == pod[p].setting IN
    pod' = [UseStore(p) EXCEPT
                ![p].parts = [@ EXCEPT !.reads = IF c.readSource = "" THEN "s3" ELSE c.readSource,
                                       !.queue = Or(c.queue, 1024)],
                ![p].open = {"workers", "database"},
                ![p].closer = {"workers", "database"}]

\* Mutant of InitRelations: PostgreSQL must answer.
InitRelationsProbed(p) ==
    LET c == pod[p].setting IN
    /\ pod[p].main = "relations"
    /\ \/ NoRelations(c) /\ pod' = UseStore(p)
       \/ ~NoRelations(c) /\ Refuse(p)
       \/ ~NoRelations(c) /\ ~RelationsRefused(c) /\ OpenRelations(p)
    /\ UNCHANGED served

\* What probing PostgreSQL brings is only logged.
InitRelations(p) ==
    LET c == pod[p].setting IN
    /\ pod[p].main = "relations"
    /\ \/ NoRelations(c) /\ pod' = UseStore(p)
       \/ ~NoRelations(c) /\ RelationsRefused(c) /\ Refuse(p)
       \/ ~NoRelations(c) /\ ~RelationsRefused(c) /\ OpenRelations(p)
    /\ UNCHANGED served

InitLimiter(p) ==
    LET c == pod[p].setting IN
    /\ pod[p].main = "limiter"
    /\ \/ LimiterRefused(c) /\ Refuse(p)
       \/ ~LimiterRefused(c) /\ pod' = [Goto(p, "auth") EXCEPT ![p].parts.limited = c.limit]
    /\ UNCHANGED served

InitAuth(p) ==
    LET c == pod[p].setting IN
    /\ pod[p].main = "auth"
    /\ \/ AuthRefused(c) /\ Refuse(p)
       \/ /\ ~AuthRefused(c)
          /\ pod' = [Goto(p, "recorder") EXCEPT
                         ![p].parts.ttl = IF c.google THEN SessionTTL(c) ELSE 0]
    /\ UNCHANGED served

\* The recorder is open; closer is closed with the rest, watcher waits for signals.
Serve(p, closer, watcher) ==
    LET c == pod[p].setting IN
    /\ pod' = [Goto(p, "serving") EXCEPT
                   ![p].parts = [SetRecorder(@, ~NoClicks(c)) EXCEPT
                                     !.buffer = IF c.buffer <= 0 THEN 1024 ELSE c.buffer],
                   ![p].open = @ \cup (IF NoClicks(c) THEN {} ELSE {"recorder"}),
                   ![p].closer = @ \cup closer,
                   ![p].watcher = watcher]
    /\ served' = served \cup {c}

\* The recorder and its worker; everything is closed together from now on, once, by
\* main or by the goroutine that waits for signals.
InitRecorder(p) ==
    /\ pod[p].main = "recorder"
    /\ \/ RecorderRefused(pod[p].setting) /\ Refuse(p) /\ UNCHANGED served
       \/ ~RecorderRefused(pod[p].setting) /\ Serve(p, {"recorder"}, "waiting")

InitFunc(p) == \/ InitService(p) \/ InitStore(p) \/ InitRelations(p)
               \/ InitLimiter(p) \/ InitAuth(p) \/ InitRecorder(p)

-------------------------------------------------------------------------------
(* Closing                                                                 *)

\* SIGTERM or an interrupt; it is only noted as long as nobody waits for it.
Signal(p) ==
    /\ pod[p].main # "off" /\ ~pod[p].signalled
    /\ pod' = [pod EXCEPT ![p].signalled = TRUE]
    /\ UNCHANGED served

\* Run returns, and what main deferred runs.
RunReturns(p) ==
    /\ pod[p].main \in {"serving", "failing"}
    /\ pod' = Goto(p, "closing")
    /\ UNCHANGED served

Watch(p) ==
    /\ pod[p].watcher = "waiting" /\ pod[p].signalled
    /\ pod' = [pod EXCEPT ![p].watcher = "closing"]
    /\ UNCHANGED served

Closing(p) == pod[p].main = "closing" \/ pod[p].watcher = "closing"

\* The first to call closes, the other waits: the workers, which are waited for,
\* then the database.
CloseRelations(p) ==
    /\ Closing(p)
    /\ \/ /\ pod[p].closing = "no"
          /\ pod' = [pod EXCEPT ![p].closing = "database",
                                ![p].open = @ \ ({"workers"} \cap pod[p].closer)]
       \/ /\ pod[p].closing = "database"
          /\ pod' = [pod EXCEPT ![p].closing = "recorder",
                                ![p].open = @ \ ({"database"} \cap pod[p].closer)]
    /\ UNCHANGED served

\* The recorder drains, or five seconds pass.
CloseRecorder(p) ==
    /\ pod[p].closing = "recorder"
    /\ \/ pod' = [pod EXCEPT ![p].closing = "done",
                             ![p].open = @ \ ({"recorder"} \cap pod[p].closer)]
       \/ pod' = [pod EXCEPT ![p].closing = "done"]
    /\ UNCHANGED served

\* Mutant of Exit: who comes second does not wait.
ExitBefore(p) ==
    /\ Closing(p) /\ pod[p].closing # "no"
    /\ pod' = [pod EXCEPT ![p] = Off]
    /\ UNCHANGED served

Exit(p) ==
    /\ Closing(p) /\ pod[p].closing = "done"
    /\ pod' = [pod EXCEPT ![p] = Off]
    /\ UNCHANGED served

\* The framework ends the process for an error, or it is killed.
Die(p) ==
    /\ pod[p].main # "off"
    /\ pod' = [pod EXCEPT ![p] = Off]
    /\ UNCHANGED served

Close(p) == Watch(p) \/ CloseRelations(p) \/ CloseRecorder(p) \/ Exit(p)

\* main and the goroutine go on; what they close ends; a failed start ends too.
ProcessFairness ==
    \A p \in Pods : /\ WF_process_vars(InitFunc(p))
                    /\ WF_process_vars(Close(p))
                    /\ WF_process_vars(pod[p].main = "failing" /\ (RunReturns(p) \/ Die(p)))

-------------------------------------------------------------------------------
(* Properties                                                              *)

\* Type correctness.
ProcessTypeOK ==
    /\ served \subseteq Settings
    /\ \A p \in Pods :
        /\ pod[p].main \in {"off", "service", "store", "relations", "limiter", "auth",
                            "recorder", "serving", "failing", "closing"}
        /\ pod[p].setting \in Settings \cup {NoSetting}
        /\ pod[p].parts.store \in {"memory", "s3"}
        /\ pod[p].parts.reads \in {"none", "s3", "postgres"}
        /\ pod[p].open \subseteq {"workers", "database", "recorder"}
        /\ pod[p].closer \subseteq {"workers", "database", "recorder"}
        /\ pod[p].closing \in {"no", "database", "recorder", "done"}
        /\ pod[p].watcher \in {"none", "waiting", "closing"}
        /\ pod[p].signalled \in BOOLEAN

\* docs/storage.md:144: a start fails because of the configuration only, never because
\* PostgreSQL is away: a configuration that has served once is never refused.
StartsAreRepeatable ==
    \A p \in Pods : pod[p].main = "failing" => pod[p].setting \notin served

\* config.go: what serves is what was configured, with usable values for all that was
\* left out or is out of range; the owner index never without its links on S3.
ServesWhatIsConfigured ==
    \A p \in Pods : LET c == pod[p].setting
                        x == pod[p].parts
                    IN  pod[p].main = "serving" =>
        /\ x.codeLen \in MinCodeLen .. MaxCodeLen
        /\ c.codeLength \in MinCodeLen .. MaxCodeLen => x.codeLen = c.codeLength
        /\ x.reads # "none" => x.store = "s3" /\ x.queue > 0
        /\ x.reads = "postgres" => "database" \in pod[p].open \/ pod[p].signalled
        /\ (x.ttl > 0) = c.google /\ x.limited = c.limit
        /\ x.recorder = (c.clicks = "redis_stream") /\ x.buffer > 0

\* main.go:94 and 123: whatever fails from here on, all that is open would be closed.
CloserCoversOpen == \A p \in Pods : pod[p].open \subseteq pod[p].closer

\* relations.go:93: the workers end before the database that they use.
WorkersHaveDatabase == \A p \in Pods : "workers" \in pod[p].open => "database" \in pod[p].open

\* main.go:123: main and the goroutine may close at the same time; whoever is first to
\* leave, the process ends only when all is closed, but for a recorder out of time.
ExitsClosed ==
    [][\A p \in Pods : Exit(p) => pod[p].open \subseteq {"recorder"}]_process_vars

\* Nothing is used after it was closed, nothing is left open.
ShutdownInOrder == []CloserCoversOpen /\ []WorkersHaveDatabase /\ ExitsClosed

\* docs/storage.md:151: a signal ends the process, also one that came while it started.
SignalEnds == \A p \in Pods : pod[p].signalled ~> pod[p].main = "off"
===============================================================================
