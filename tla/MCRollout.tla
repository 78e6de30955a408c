------------------------------- MODULE MCRollout -------------------------------
(* An instance of Rollout for TLC.                                         *)
EXTENDS Rollout, TLC

CONSTANTS R1, R2, P1, P2

Good == [codeLength |-> 0, storage |-> "s3", s3 |-> "ready", relations |-> "postgres",
         linkSpace |-> "valid", readSource |-> "", queue |-> 0, reconcile |-> 0, conns |-> 0,
         connect |-> 0, query |-> 0, dsn |-> "valid", limit |-> FALSE, perHour |-> 0,
         limitRedis |-> "", google |-> TRUE, secret |-> TRUE, ttlHours |-> 0,
         clicks |-> "redis_stream", clicksRedis |-> "ready", buffer |-> 0]
Memory == [Good EXCEPT !.storage = "", !.relations = "none", !.google = FALSE, !.clicks = ""]
BadLimiter == [Good EXCEPT !.limit = TRUE]

Variants ==
    {[Good EXCEPT !.codeLength = n] : n \in {-1, 3, 6, 32, 40}}
    \cup {[Good EXCEPT !.storage = x] : x \in {"", "memory", "disk"}}
    \cup {[Good EXCEPT !.s3 = x] : x \in {"", "missing", "no bucket"}}
    \cup {[Good EXCEPT !.relations = x] : x \in {"", "none", "mysql"}}
    \cup {[Good EXCEPT !.readSource = x] : x \in {"s3", "postgres", "redis"}}
    \cup {[Good EXCEPT !.queue = n] : n \in {-1, 1, 100000, 100001}}
    \cup {[Good EXCEPT !.conns = n] : n \in {-1, 100, 101}}
    \cup {[Good EXCEPT !.query = n] : n \in {-1, 60001}}
    \cup {[Good EXCEPT !.dsn = x] : x \in {"", "malformed"}}
    \cup {[Good EXCEPT !.limit = TRUE, !.perHour = n, !.limitRedis = x] :
             n \in {0, 5}, x \in {"", "missing", "ready"}}
    \cup {[Good EXCEPT !.secret = FALSE], [Good EXCEPT !.linkSpace = "blank"]}
    \cup {[Good EXCEPT !.ttlHours = n] : n \in {-1, 24}}
    \cup {[Good EXCEPT !.clicks = x] : x \in {"", "kafka"}}
    \cup {[Good EXCEPT !.clicksRedis = x] : x \in {"", "missing"}}
    \cup {[Good EXCEPT !.buffer = n] : n \in {-1, 16}}
MCConfigs == Variants \cup {Good, Memory, BadLimiter}

MCVersionOf == (R1 :> 1) @@ (R2 :> 2)

MCPlans ==
    {[pods |-> {P1}, configs |-> MCConfigs, releases |-> {}, edits |-> 0, starts |-> 2,
      signals |-> TRUE],
     [pods |-> {P1, P2}, configs |-> {Good, BadLimiter}, releases |-> {}, edits |-> 1,
      starts |-> 3, signals |-> TRUE],
     [pods |-> {}, configs |-> {Good, Memory}, releases |-> {R1, R2}, edits |-> 1,
      starts |-> 0, signals |-> FALSE],
     [pods |-> {P1}, configs |-> {Good}, releases |-> {R1}, edits |-> 1,
      starts |-> 2, signals |-> TRUE]}
===============================================================================
