----------------------------- MODULE RolloutProofs -----------------------------
(***************************************************************************)
(* Whatever releases run at once, and wherever they fail: migrations are   *)
(* applied once and in order, and no image precedes its migrations.        *)
(*                                                                         *)
(* The first holds because the next version is computed under the lock,    *)
(* and a killed migration holds the lock for as long as it may commit.     *)
(* The second holds because the schema never goes back, and the images     *)
(* that a Deployment can have were all patched in after a complete Job.    *)
(* A patch changes one image because the Deployment is what was read, and  *)
(* always has one container of the name released.                          *)
(*                                                                         *)
(* A rollout is a release as Release has it, whatever processes do beside  *)
(* it, so that its theorems hold of it; and what a process runs was in the *)
(* Deployment when it started, so its schema is there and stays there.     *)
(* What a process is assembled of is followed step by step of its init     *)
(* function, and what it has open through the two that may close it.       *)
(***************************************************************************)
EXTENDS Rollout, TLAPS


-------------------------------------------------------------------------------
(* Migrations                                                              *)

Migrations ==
    [step : {"none", "versions", "lock", "up", "check", "ended", "orphan"}, next : Nat]

JobsTyped ==
    /\ job \in [Releases -> {"none", "pending", "running", "Complete", "Failed"}]
    /\ migration \in [Releases -> Migrations]
    /\ holder \in Releases \cup {NoRelease}
    /\ schema \in Nat /\ applied \in Seq(Nat)

\* Who applies migrations holds the lock, and applies the one that is missing.
LockGuards ==
    \A r \in Releases :
        /\ migration[r].step \in {"up", "orphan"} <=> holder = r
        /\ holder = r => migration[r].next = schema + 1

JobsInv == JobsTyped /\ LockGuards /\ MigrationsInOrder

\* Steps that do not touch the database; a Job may be created.
LEMMA JobsStutter ==
    ASSUME JobsInv, JobsTyped', UNCHANGED <<migration, holder, schema, applied>>
    PROVE  JobsInv'
BY DEF JobsInv, LockGuards, MigrationsInOrder

LEMMA MigrateTyped ==
    ASSUME JobsTyped, NEW r \in Releases, Migrate(r)
    PROVE  JobsTyped'
<1> USE ReleaseAssumption DEF JobsTyped, Migrations, Migrating, ToStep
<1>1. CASE StartJob(r)
  BY <1>1 DEF StartJob
<1>2. CASE GetVersions(r)
  BY <1>2 DEF GetVersions
<1>3. CASE Lock(r)
  <2> DEFINE up == [migration EXCEPT ![r].step = "up"]
  <2>1. up \in [Releases -> Migrations]
    <3>1. ASSUME NEW q \in Releases PROVE up[q] \in Migrations
      OBVIOUS
    <3> QED
      BY <3>1
  <2>0. schema + 1 \in Nat
    OBVIOUS
  <2>2. migration' = [up EXCEPT ![r].next = schema + 1]
    BY <1>3, Zenon DEF Lock
  <2>3. migration' \in [Releases -> Migrations]
    <3> HIDE DEF up
    <3> QED
      BY <2>0, <2>1, <2>2
  <2> QED
    BY <1>3, <2>3 DEF Lock
<1>0. migration[r].next \in Nat
  OBVIOUS
<1>4. CASE Apply(r)
  <2>1. applied' \in Seq(Nat) /\ schema' \in Nat
    BY <1>4, <1>0 DEF Apply
  <2>2. migration' \in [Releases -> Migrations]
    BY <1>4, <1>0 DEF Apply
  <2> QED
    BY <1>4, <2>1, <2>2 DEF Apply
<1>5. CASE Unlock(r)
  BY <1>5 DEF Unlock
<1>6. CASE Check(r)
  BY <1>6 DEF Check
<1>7. CASE FailJob(r)
  <2>1. \E step \in {"ended", "orphan"} : migration' = [migration EXCEPT ![r].step = step]
    BY <1>7, Zenon DEF FailJob
  <2>2. job' \in [Releases -> {"none", "pending", "running", "Complete", "Failed"}]
    BY <1>7 DEF FailJob
  <2>3. migration' \in [Releases -> Migrations]
    BY <2>1
  <2> QED
    BY <1>7, <2>2, <2>3 DEF FailJob
<1>8. CASE OrphanCommits(r)
  <2>1. applied' \in Seq(Nat) /\ schema' \in Nat
    BY <1>8, <1>0 DEF OrphanCommits
  <2> QED
    BY <1>8, <2>1 DEF OrphanCommits
<1>9. CASE OrphanEnds(r)
  BY <1>9 DEF OrphanEnds
<1> QED
  BY <1>1, <1>2, <1>3, <1>4, <1>5, <1>6, <1>7, <1>8, <1>9 DEF Migrate

\* One more migration, the next one.
LEMMA OneMore ==
    ASSUME schema \in Nat, applied \in Seq(Nat), MigrationsInOrder,
           applied' = Append(applied, schema + 1), schema' = schema + 1
    PROVE  MigrationsInOrder'
<1>1. Len(applied') = schema'
  BY DEF MigrationsInOrder
<1>2. ASSUME NEW i \in 1 .. Len(applied') PROVE applied'[i] = i
  BY <1>1, <1>2 DEF MigrationsInOrder
<1> QED
  BY <1>1, <1>2 DEF MigrationsInOrder

LEMMA MigrateKeeps ==
    ASSUME JobsInv, NEW r \in Releases, Migrate(r)
    PROVE  JobsInv' /\ schema <= schema'
<1>1. JobsTyped'
  BY MigrateTyped DEF JobsInv
<1> USE ReleaseAssumption, <1>1 DEF JobsInv, JobsTyped, Migrations, LockGuards, Migrating, ToStep
<1>2. CASE StartJob(r)
  BY <1>2 DEF StartJob, MigrationsInOrder
<1>3. CASE GetVersions(r)
  BY <1>3 DEF GetVersions, MigrationsInOrder
<1>4. CASE Lock(r)
  BY <1>4 DEF Lock, MigrationsInOrder
<1>5. CASE Apply(r)
  <2>1. migration[r].next = schema + 1 /\ holder = r
    BY <1>5 DEF Apply
  <2>2. MigrationsInOrder'
    BY <1>5, <2>1, OneMore DEF Apply
  <2>3. LockGuards'
    BY <1>5, <2>1 DEF Apply
  <2> QED
    BY <1>5, <2>1, <2>2, <2>3 DEF Apply
<1>6. CASE Unlock(r)
  BY <1>6 DEF Unlock, MigrationsInOrder
<1>7. CASE Check(r)
  BY <1>7 DEF Check, MigrationsInOrder
<1>8. CASE FailJob(r)
  <2>1. UNCHANGED <<schema, applied>>
    BY <1>8 DEF FailJob
  <2>2. LockGuards'
    BY <1>8 DEF FailJob
  <2>3. MigrationsInOrder'
    BY <2>1 DEF MigrationsInOrder
  <2> QED
    BY <2>1, <2>2, <2>3
<1>9. CASE OrphanCommits(r)
  <2>1. migration[r].next = schema + 1 /\ holder = r
    BY <1>9 DEF OrphanCommits
  <2>2. MigrationsInOrder'
    BY <1>9, <2>1, OneMore DEF OrphanCommits
  <2>3. LockGuards'
    BY <1>9, <2>1 DEF OrphanCommits
  <2> QED
    BY <1>9, <2>1, <2>2, <2>3 DEF OrphanCommits
<1>10. CASE OrphanEnds(r)
  BY <1>10 DEF OrphanEnds, MigrationsInOrder
<1> QED
  BY <1>2, <1>3, <1>4, <1>5, <1>6, <1>7, <1>8, <1>9, <1>10 DEF Migrate

THEOREM JobsInvariant == ReleaseSpec => []JobsInv
<1>1. ReleaseInit => JobsInv
  BY ReleaseAssumption
     DEF ReleaseInit, JobsInv, JobsTyped, Migrations, LockGuards, MigrationsInOrder
<1>2. JobsInv /\ [ReleaseNext]_release_vars => JobsInv'
  <2> SUFFICES ASSUME JobsInv, [ReleaseNext]_release_vars PROVE JobsInv'
    OBVIOUS
  <2>1. CASE Edit
    BY <2>1, JobsStutter DEF Edit, job_vars, JobsInv, JobsTyped
  <2>2. ASSUME NEW r \in Releases, CallFails(r) PROVE JobsInv'
    BY <2>2, JobsStutter DEF CallFails, job_vars, JobsInv, JobsTyped
  <2>3. ASSUME NEW r \in Releases, NEW done \in BOOLEAN, Proceed(r, done) PROVE JobsInv'
    <3>1. CASE CreateJob(r)
      <4>1. JobsTyped'
        BY <3>1 DEF CreateJob, JobsInv, JobsTyped
      <4> QED
        BY <3>1, <4>1, JobsStutter DEF CreateJob
    <3>2. CASE ~CreateJob(r)
      <4>1. UNCHANGED job_vars
        BY <2>3, <3>2 DEF Proceed, Read, Wait, Patch, Rollout
      <4> QED
        BY <4>1, JobsStutter DEF job_vars, JobsInv, JobsTyped
    <3> QED
      BY <3>1, <3>2
  <2>4. ASSUME NEW r \in Releases, Migrate(r) PROVE JobsInv'
    BY <2>4, MigrateKeeps
  <2>5. CASE UNCHANGED release_vars
    BY <2>5, JobsStutter DEF release_vars, job_vars, JobsInv, JobsTyped
  <2> QED
    BY <2>1, <2>2, <2>3, <2>4, <2>5 DEF ReleaseNext
<1> QED
  BY <1>1, <1>2, PTL DEF ReleaseSpec

\* docs/deployment.md, "Duplicate concurrent Jobs serialize": MigrationsInOrder, for
\* any releases, versions and failures.
THEOREM MigrationsApplyInOrder == ReleaseSpec => []MigrationsInOrder
<1>1. JobsInv => MigrationsInOrder
  BY DEF JobsInv
<1> QED
  BY <1>1, JobsInvariant, PTL

-------------------------------------------------------------------------------
(* Releases                                                                *)

Container == [name : {Target, "sidecar"}, image : Nat]
Deployments == [uid : Nat, containers : Seq(Container), config : Configs \cup {0}]

ScriptsTyped ==
    /\ deployment \in Deployments /\ past \subseteq Nat /\ patched \subseteq Releases
    /\ script \in [Releases -> [step : {"read", "create", "wait", "patch", "rollout",
                                        "released", "stopped"},
                                read : Deployments,
                                stopped : {"no", "read", "create", "wait", "patch", "rollout"}]]

\* No Job before the one call that creates it, no patch before its Job is complete.
ScriptsInStep ==
    \A r \in Releases :
        /\ script[r].step \in {"read", "create"} => job[r] = "none"
        /\ job[r] = "none" => migration[r].step = "none"
        /\ script[r].step = "patch" => job[r] = "Complete"
        /\ script[r].step # "stopped" => script[r].stopped = "no"

\* What a patch leaves behind.
PatchesEarned ==
    \A r \in patched : /\ job[r] = "Complete"
                       /\ script[r].step \in {"rollout", "released", "stopped"}
                       /\ script[r].stopped \in {"no", "patch", "rollout"}

\* The schema is that of every complete Job, and of every image there was.
SchemaSuffices ==
    /\ \A r \in Releases : job[r] = "Complete" => VersionOf[r] <= schema
    /\ \A v \in past : v <= schema
    /\ \A i \in DOMAIN deployment.containers : deployment.containers[i].image \in past

ReleaseInv == ScriptsTyped /\ ScriptsInStep /\ PatchesEarned /\ SchemaSuffices

LEMMA ReleaseInvInit ==
    ASSUME ReleaseInit
    PROVE  ReleaseInv
<1> USE ReleaseAssumption DEF ReleaseInit
<1>1. deployment.containers = <<[name |-> Target, image |-> 0],
                                [name |-> "sidecar", image |-> 0]>>
  OBVIOUS
<1>2. deployment \in Deployments
  BY <1>1 DEF Deployments, Container
<1>3. Nothing \in Deployments
  BY DEF Nothing, Deployments
<1>4. ScriptsTyped
  BY <1>2, <1>3 DEF ScriptsTyped
<1>5. ScriptsInStep /\ PatchesEarned
  BY DEF ScriptsInStep, PatchesEarned
<1>6. SchemaSuffices
  BY <1>1 DEF SchemaSuffices
<1> QED
  BY <1>4, <1>5, <1>6 DEF ReleaseInv

\* One image is replaced.
LEMMA NewImage ==
    ASSUME deployment \in Deployments, NEW P, NEW p, NEW v \in Nat,
           \A i \in DOMAIN deployment.containers : deployment.containers[i].image \in P,
           deployment' = [deployment EXCEPT !.containers[p].image = v]
    PROVE  /\ deployment' \in Deployments
           /\ \A i \in DOMAIN deployment'.containers :
                deployment'.containers[i].image \in P \cup {v}
           /\ DOMAIN deployment'.containers = DOMAIN deployment.containers
           /\ \A i \in DOMAIN deployment.containers :
                deployment'.containers[i].name = deployment.containers[i].name
<1> DEFINE s == deployment.containers
           new == [s EXCEPT ![p].image = v]
<1>1. s \in Seq(Container)
  BY DEF Deployments
<1>2. ASSUME NEW i \in DOMAIN s 
             PROVE /\ new[i] \in Container /\ new[i].image \in P \cup {v}
                   /\ new[i].name = s[i].name
  <2>1. s[i] \in Container /\ s[i].image \in P
    BY <1>1
  <2>2. /\ [s[i] EXCEPT !.image = v] \in Container /\ [s[i] EXCEPT !.image = v].image = v
        /\ [s[i] EXCEPT !.image = v].name = s[i].name
    BY <2>1 DEF Container
  <2>3. new[i] = s[i] \/ new[i] = [s[i] EXCEPT !.image = v]
    BY Zenon
  <2> QED
    BY <2>1, <2>2, <2>3
<1>3. DOMAIN new = DOMAIN s /\ s \in [1 .. Len(s) -> Container] /\ Len(s) \in Nat
  BY <1>1
<1>4. new \in [1 .. Len(s) -> Container]
  BY <1>2, <1>3
<1>5. new \in Seq(Container)
  BY <1>3, <1>4
<1>6. deployment' = [deployment EXCEPT !.containers = new]
  BY Zenon
<1> HIDE DEF new
<1> QED
  BY <1>2, <1>3, <1>5, <1>6 DEF Deployments

\* Another template: its images are among those there were.
LEMMA EditKeeps ==
    ASSUME ReleaseInv, Edit
    PROVE  ReleaseInv'
<1> USE DEF ReleaseInv, ScriptsTyped, Edit, script_vars, job_vars
<1>0. /\ deployment.containers \in Seq(Container)
      /\ deployment.uid \in Nat /\ deployment.config \in Configs \cup {0}
  BY DEF Deployments
<1> DEFINE s == deployment.containers
           Kept == /\ deployment' \in Deployments
                   /\ \A i \in DOMAIN deployment'.containers :
                        deployment'.containers[i].image \in past
<1>1. Kept
  <2>1. ASSUME NEW c \in Configs, deployment' = [deployment EXCEPT !.config = c] PROVE Kept
    BY <2>1, <1>0 DEF Deployments, SchemaSuffices
  <2>2. CASE deployment' = [deployment EXCEPT !.containers = Reverse(@)]
    <3>1. Reverse(s) = [i \in 1 .. Len(s) |-> s[(Len(s) - i) + 1]]
      BY DEF Reverse
    <3>2. Reverse(s) \in Seq(Container) /\ DOMAIN Reverse(s) = 1 .. Len(s)
      BY <1>0, <3>1
    <3>3. \A i \in 1 .. Len(s) : Reverse(s)[i].image \in past
      BY <1>0, <3>1 DEF SchemaSuffices
    <3>4. deployment'.containers = Reverse(s)
      BY <2>2 DEF Deployments
    <3>5. deployment' \in Deployments
      BY <2>2, <3>2 DEF Deployments
    <3> QED
      BY <3>2, <3>3, <3>4, <3>5
  <2>3. ASSUME NEW v \in past,
               deployment' = [deployment EXCEPT !.containers[Position(deployment)].image = v]
        PROVE  Kept
    <3>1. v \in Nat /\ past \cup {v} = past
      OBVIOUS
    <3> QED
      BY <2>3, <3>1, NewImage DEF SchemaSuffices
  <2>4. CASE deployment' = [deployment EXCEPT !.uid = @ + 1]
    <3> DEFINE n == deployment.uid + 1
    <3>1. n \in Nat /\ deployment' = [deployment EXCEPT !.uid = n]
      BY <2>4, <1>0
    <3> HIDE DEF n
    <3> QED
      BY <3>1, <1>0 DEF Deployments, SchemaSuffices
  <2> QED
    BY <2>1, <2>2, <2>3, <2>4
<1>2. ScriptsTyped'
  BY <1>1
<1>3. ScriptsInStep' /\ PatchesEarned'
  BY DEF ScriptsInStep, PatchesEarned
<1>4. SchemaSuffices'
  BY <1>1 DEF SchemaSuffices
<1> QED
  BY <1>2, <1>3, <1>4

Step(r) == script[r].step
Stopped(r) == script[r].stopped

\* Where Stop and Continue leave a script, and the others as they were.
LEMMA ScriptMoves ==
    ASSUME ScriptsTyped, NEW r \in Releases,
           NEW step \in {"wait", "patch", "rollout", "released"},
           \/ Stop(r) /\ Step(r) \in {"read", "create", "wait", "patch", "rollout"}
           \/ Continue(r, step)
    PROVE  /\ script' \in [Releases -> [step : {"read", "create", "wait", "patch", "rollout",
                                               "released", "stopped"},
                                       read : Deployments,
                                       stopped : {"no", "read", "create", "wait", "patch",
                                                  "rollout"}]]
           /\ \A q \in Releases \ {r} : Step(q)' = Step(q) /\ Stopped(q)' = Stopped(q)
           /\ \/ Step(r)' = "stopped" /\ Stopped(r)' = Step(r)
              \/ Step(r)' = step /\ Stopped(r)' = Stopped(r)
<1> USE DEF ScriptsTyped, Step, Stopped
<1>1. CASE Stop(r) /\ Step(r) \in {"read", "create", "wait", "patch", "rollout"}
  BY <1>1 DEF Stop
<1>2. CASE Continue(r, step)
  BY <1>2 DEF Continue
<1> QED
  BY <1>1, <1>2

LEMMA CallFailsKeeps ==
    ASSUME ReleaseInv, NEW r \in Releases, CallFails(r)
    PROVE  ReleaseInv'
<1> USE DEF ReleaseInv, CallFails, job_vars
<1>1. /\ ScriptsTyped'
      /\ \A q \in Releases \ {r} : Step(q)' = Step(q) /\ Stopped(q)' = Stopped(q)
      /\ Step(r)' = "stopped" /\ Stopped(r)' = Step(r)
  BY DEF Stop, ScriptsTyped, Step, Stopped
<1>2. ScriptsInStep' /\ PatchesEarned'
  BY <1>1 DEF ScriptsTyped, ScriptsInStep, PatchesEarned, Step, Stopped
<1>3. SchemaSuffices'
  BY DEF SchemaSuffices
<1> QED
  BY <1>1, <1>2, <1>3

LEMMA ReadKeeps ==
    ASSUME ReleaseInv, NEW r \in Releases, Read(r)
    PROVE  ReleaseInv'
<1> USE DEF ReleaseInv, Read, job_vars
<1>1. /\ ScriptsTyped'
      /\ \A q \in Releases \ {r} : Step(q)' = Step(q) /\ Stopped(q)' = Stopped(q)
      /\ Step(r) = "read" /\ Step(r)' = "create" /\ Stopped(r)' = Stopped(r)
  BY DEF ScriptsTyped, Step, Stopped
<1>2. UNCHANGED <<job, migration, patched>>
  OBVIOUS
<1>3. ScriptsInStep'
  <2> SUFFICES ASSUME NEW q \in Releases
               PROVE  /\ Step(q)' \in {"read", "create"} => job'[q] = "none"
                      /\ job'[q] = "none" => migration'[q].step = "none"
                      /\ Step(q)' = "patch" => job'[q] = "Complete"
                      /\ Step(q)' # "stopped" => Stopped(q)' = "no"
    BY DEF ScriptsInStep, Step, Stopped
  <2>1. /\ Step(q) \in {"read", "create"} => job[q] = "none"
        /\ job[q] = "none" => migration[q].step = "none"
        /\ Step(q) = "patch" => job[q] = "Complete"
        /\ Step(q) # "stopped" => Stopped(q) = "no"
    BY DEF ScriptsInStep, Step, Stopped
  <2> QED
    BY <1>1, <1>2, <2>1
<1>5. PatchesEarned'
  BY <1>1, <1>2 DEF ScriptsTyped, PatchesEarned, Step, Stopped
<1>4. SchemaSuffices'
  BY DEF SchemaSuffices
<1> QED
  BY <1>1, <1>3, <1>4, <1>5

LEMMA CreateJobKeeps ==
    ASSUME JobsTyped, ReleaseInv, NEW r \in Releases, CreateJob(r)
    PROVE  ReleaseInv'
<1> USE DEF ReleaseInv, CreateJob
<1>1. /\ ScriptsTyped'
      /\ \A q \in Releases \ {r} : Step(q)' = Step(q) /\ Stopped(q)' = Stopped(q)
      /\ \/ Step(r)' = "stopped" /\ Stopped(r)' = Step(r)
         \/ Step(r)' = "wait" /\ Stopped(r)' = Stopped(r)
  BY ScriptMoves DEF ScriptsTyped, Step
<1>2. job'[r] = "pending" /\ \A q \in Releases \ {r} : job'[q] = job[q]
  BY DEF JobsTyped
<1>3. r \notin patched /\ job[r] = "none"
  BY DEF ScriptsInStep, PatchesEarned
<1>4. ScriptsInStep' /\ PatchesEarned'
  BY <1>1, <1>2, <1>3 DEF ScriptsTyped, ScriptsInStep, PatchesEarned, Step, Stopped
<1>5. SchemaSuffices'
  BY <1>2 DEF SchemaSuffices
<1> QED
  BY <1>1, <1>4, <1>5

LEMMA WaitKeeps ==
    ASSUME ReleaseInv, NEW r \in Releases, NEW done, Wait(r) \/ Rollout(r, done)
    PROVE  ReleaseInv'
<1> USE DEF ReleaseInv, Wait, Rollout, job_vars
<1>1. /\ ScriptsTyped'
      /\ \A q \in Releases \ {r} : Step(q)' = Step(q) /\ Stopped(q)' = Stopped(q)
      /\ \/ Step(r)' = "stopped" /\ Stopped(r)' = Step(r)
         \/ /\ Step(r) = "wait" /\ job[r] = "Complete"
            /\ Step(r)' = "patch" /\ Stopped(r)' = Stopped(r)
         \/ Step(r) = "rollout" /\ Step(r)' = "released" /\ Stopped(r)' = Stopped(r)
  BY ScriptMoves DEF ScriptsTyped, Step
<1>2. ScriptsInStep' /\ PatchesEarned'
  BY <1>1 DEF ScriptsTyped, ScriptsInStep, PatchesEarned, Step, Stopped
<1>3. SchemaSuffices'
  BY DEF SchemaSuffices
<1> QED
  BY <1>1, <1>2, <1>3

\* The Job of the release is complete, so the schema suffices for its image.
LEMMA PatchKeeps ==
    ASSUME ReleaseInv, NEW r \in Releases, Patch(r)
    PROVE  ReleaseInv'
<1> USE DEF ReleaseInv
<1> DEFINE v == VersionOf[r]
<1>0. /\ v \in Nat /\ v <= schema /\ job[r] = "Complete" /\ UNCHANGED job_vars
      /\ Step(r) = "patch" /\ Stopped(r) = "no"
  BY ReleaseAssumption DEF Patch, ScriptsInStep, SchemaSuffices, Step, Stopped
<1>1. /\ script' \in [Releases -> [step : {"read", "create", "wait", "patch", "rollout",
                                          "released", "stopped"},
                                  read : Deployments,
                                  stopped : {"no", "read", "create", "wait", "patch",
                                             "rollout"}]]
      /\ \A q \in Releases \ {r} : Step(q)' = Step(q) /\ Stopped(q)' = Stopped(q)
      /\ \/ Step(r)' = "stopped" /\ Stopped(r)' = Step(r)
         \/ Step(r)' = "rollout" /\ Stopped(r)' = Stopped(r)
  BY <1>0, ScriptMoves DEF Patch
<1>2. CASE /\ deployment' = [deployment EXCEPT !.containers[Position(script[r].read)].image = v]
           /\ past' = past \cup {v} /\ patched' = patched \cup {r}
  <2>1. /\ deployment' \in Deployments
        /\ \A i \in DOMAIN deployment'.containers :
             deployment'.containers[i].image \in past \cup {v}
    BY <1>0, <1>2, NewImage DEF ScriptsTyped, SchemaSuffices
  <2>2. ScriptsTyped'
    BY <1>0, <1>1, <1>2, <2>1 DEF ScriptsTyped
  <2>3. ScriptsInStep'
    BY <1>0, <1>1 DEF ScriptsInStep, Step, Stopped, job_vars
  <2>4. PatchesEarned'
    BY <1>0, <1>1, <1>2 DEF ScriptsTyped, PatchesEarned, Step, Stopped, job_vars
  <2>5. SchemaSuffices'
    BY <1>0, <1>2, <2>1 DEF SchemaSuffices, job_vars
  <2> QED
    BY <2>2, <2>3, <2>4, <2>5
<1>3. CASE UNCHANGED <<deployment, past, patched>> /\ Stop(r)
  <2>1. ScriptsTyped'
    BY <1>1, <1>3 DEF ScriptsTyped
  <2>2. ScriptsInStep' /\ PatchesEarned'
    BY <1>0, <1>1, <1>3 DEF ScriptsTyped, ScriptsInStep, PatchesEarned, Step, Stopped, job_vars
  <2>3. SchemaSuffices'
    BY <1>0, <1>3 DEF SchemaSuffices, job_vars
  <2> QED
    BY <2>1, <2>2, <2>3
<1> QED
  BY <1>2, <1>3 DEF Patch

\* A migration moves neither scripts nor the Deployment; the schema does not go back.
LEMMA MigrateKeepsReleases ==
    ASSUME JobsInv, ReleaseInv, NEW r \in Releases, Migrate(r)
    PROVE  ReleaseInv'
<1>1. JobsTyped /\ schema <= schema' /\ schema \in Nat /\ schema' \in Nat
  BY MigrateKeeps DEF JobsInv, JobsTyped
<1>2. UNCHANGED <<deployment, past, script, patched>>
  BY DEF Migrate, StartJob, GetVersions, Lock, Apply, Unlock, Check, FailJob, OrphanCommits,
         OrphanEnds, Migrating, script_vars
<1>3. /\ \A q \in Releases \ {r} : job'[q] = job[q] /\ migration'[q] = migration[q]
      /\ job[r] # "none" /\ job'[r] # "none"
      /\ job[r] = "Complete" => job'[r] = "Complete"
      /\ job'[r] = "Complete" => job[r] = "Complete" \/ VersionOf[r] <= schema'
  <2> USE <1>1, ReleaseAssumption DEF JobsTyped, Migrating, ToStep, ReleaseInv, ScriptsInStep
  <2>1. CASE StartJob(r)
    BY <2>1 DEF StartJob
  <2>2. CASE GetVersions(r) \/ Lock(r) \/ Apply(r) \/ Unlock(r)
    BY <2>2 DEF GetVersions, Lock, Apply, Unlock
  <2>3. CASE Check(r)
    BY <2>3 DEF Check
  <2>4. CASE FailJob(r)
    BY <2>4 DEF FailJob
  <2>5. CASE OrphanCommits(r) \/ OrphanEnds(r)
    BY <2>5 DEF OrphanCommits, OrphanEnds
  <2> QED
    BY <2>1, <2>2, <2>3, <2>4, <2>5 DEF Migrate
<1>4. ScriptsTyped' /\ ScriptsInStep' /\ PatchesEarned'
  BY <1>2, <1>3 DEF ReleaseInv, ScriptsTyped, ScriptsInStep, PatchesEarned
<1>5. \A q \in Releases : job'[q] = "Complete" => VersionOf[q] <= schema'
  BY <1>1, <1>3, ReleaseAssumption DEF ReleaseInv, SchemaSuffices
<1>6. ASSUME NEW v \in past' PROVE v <= schema'
  <2>1. v \in past /\ v <= schema /\ v \in Nat
    BY <1>2 DEF ReleaseInv, ScriptsTyped, SchemaSuffices
  <2> QED
    BY <1>1, <2>1
<1>7. SchemaSuffices'
  BY <1>2, <1>5, <1>6 DEF ReleaseInv, SchemaSuffices
<1> QED
  BY <1>4, <1>7 DEF ReleaseInv

THEOREM ReleaseInvariant == ReleaseSpec => []ReleaseInv
<1>1. JobsInv /\ ReleaseInv /\ [ReleaseNext]_release_vars => ReleaseInv'
  <2> SUFFICES ASSUME JobsInv, ReleaseInv, [ReleaseNext]_release_vars PROVE ReleaseInv'
    OBVIOUS
  <2>1. CASE Edit
    BY <2>1, EditKeeps
  <2>2. ASSUME NEW r \in Releases, CallFails(r) PROVE ReleaseInv'
    BY <2>2, CallFailsKeeps
  <2>3. ASSUME NEW r \in Releases, NEW done \in BOOLEAN, Proceed(r, done) PROVE ReleaseInv'
    BY <2>3, ReadKeeps, CreateJobKeeps, WaitKeeps, PatchKeeps DEF Proceed, JobsInv
  <2>4. ASSUME NEW r \in Releases, Migrate(r) PROVE ReleaseInv'
    BY <2>4, MigrateKeepsReleases
  <2>5. CASE UNCHANGED release_vars
    BY <2>5 DEF release_vars, script_vars, job_vars, ReleaseInv, ScriptsTyped, ScriptsInStep,
                PatchesEarned, SchemaSuffices
  <2> QED
    BY <2>1, <2>2, <2>3, <2>4, <2>5 DEF ReleaseNext
<1> QED
  BY <1>1, ReleaseInvInit, JobsInvariant, PTL DEF ReleaseSpec

\* migrate.go:61 and 75, deploy-kubernetes.py:90: ReleasesAreSafe, for any releases,
\* edits and failures.
THEOREM ReleasesSafe == ReleaseSpec => []ReleasesAreSafe
<1>1. ReleaseInv => ReleasesAreSafe
  BY DEF ReleaseInv, ScriptsTyped, PatchesEarned, SchemaSuffices, ReleasesAreSafe,
         SchemaBeforeImage, StoppedReleasesChangeNothing
<1> QED
  BY <1>1, ReleaseInvariant, PTL

-------------------------------------------------------------------------------
(* The Deployment                                                          *)

\* What names the container released.
Targets(d) == {i \in DOMAIN d.containers : d.containers[i].name = Target}

\* The template names a configuration and has one container of the name released.
DeploymentInv ==
    /\ deployment.config \in Configs /\ edits \in Nat
    /\ past \subseteq Versions
    /\ \E i \in DOMAIN deployment.containers : Targets(deployment) = {i}

LEMMA DeploymentEdited ==
    ASSUME ReleaseInv, DeploymentInv, Edit
    PROVE  DeploymentInv'
<1> DEFINE s == deployment.containers
<1>0. s \in Seq(Container) /\ deployment \in Deployments
  BY DEF ReleaseInv, ScriptsTyped, Deployments
<1>1. edits' \in Nat /\ past' = past
  BY DEF Edit, DeploymentInv
<1>2. ASSUME deployment' \in Deployments, deployment'.containers = s,
             deployment'.config \in Configs
      PROVE  DeploymentInv'
  BY <1>1, <1>2 DEF DeploymentInv, Targets
<1>3. ASSUME NEW c \in Configs, deployment' = [deployment EXCEPT !.config = c]
      PROVE  DeploymentInv'
  BY <1>0, <1>2, <1>3 DEF Deployments
<1>4. CASE deployment' = [deployment EXCEPT !.containers = Reverse(@)]
  <2> DEFINE r == Reverse(s)
             back(i) == Len(s) - i + 1
  <2>1. r = [i \in 1 .. Len(s) |-> s[back(i)]]
    BY DEF Reverse
  <2>2. Len(s) \in Nat /\ DOMAIN s = 1 .. Len(s) /\ DOMAIN r = 1 .. Len(s)
    BY <1>0, <2>1
  <2>3. PICK i \in 1 .. Len(s) : Targets(deployment) = {i}
    BY <2>2 DEF DeploymentInv
  <2>4. back(i) \in 1 .. Len(s)
    BY <2>2
  <2>5. ASSUME NEW j \in 1 .. Len(s) PROVE r[j].name = Target <=> j = back(i)
    <3>1. r[j] = s[back(j)] /\ back(j) \in 1 .. Len(s)
      BY <2>1, <2>2
    <3>2. s[back(j)].name = Target <=> back(j) = i
      BY <2>2, <2>3, <3>1 DEF Targets
    <3>3. back(j) = i <=> j = back(i)
      BY <2>2
    <3> QED
      BY <3>1, <3>2, <3>3
  <2>6. deployment'.containers = r /\ deployment'.config = deployment.config
    BY <1>0, <1>4 DEF Deployments
  <2> HIDE DEF r, back
  <2>7. Targets(deployment') = {back(i)} /\ back(i) \in DOMAIN deployment'.containers
    BY <2>2, <2>4, <2>5, <2>6 DEF Targets
  <2> QED
    BY <1>1, <2>6, <2>7 DEF DeploymentInv, Targets
<1>5. ASSUME NEW v \in past,
             deployment' = [deployment EXCEPT !.containers[Position(deployment)].image = v]
      PROVE  DeploymentInv'
  <2>1. v \in Nat
    BY DEF ReleaseInv, ScriptsTyped
  <2>2. /\ DOMAIN deployment'.containers = DOMAIN s
        /\ \A i \in DOMAIN s : deployment'.containers[i].name = s[i].name
    BY <1>0, <1>5, <2>1, NewImage DEF ReleaseInv, SchemaSuffices
  <2>3. deployment'.config = deployment.config
    BY <1>0, <1>5 DEF Deployments
  <2>4. Targets(deployment') = Targets(deployment)
    BY <2>2 DEF Targets
  <2> QED
    BY <1>1, <2>2, <2>3, <2>4 DEF DeploymentInv, Targets
<1>6. CASE deployment' = [deployment EXCEPT !.uid = @ + 1]
  <2>1. deployment'.containers = s /\ deployment'.config = deployment.config
    BY <1>0, <1>6 DEF Deployments
  <2> QED
    BY <1>1, <2>1 DEF DeploymentInv, Targets
<1> QED
  BY <1>3, <1>4, <1>5, <1>6 DEF Edit

\* The container of a patch, and what it leaves alone.
LEMMA PatchedImage ==
    ASSUME ReleaseInv, DeploymentInv, NEW r \in Releases, NEW read,
           read.containers = deployment.containers,
           deployment' = [deployment EXCEPT !.containers[Position(read)].image = VersionOf[r]]
    PROVE  /\ deployment'.uid = deployment.uid /\ deployment'.config = deployment.config
           /\ DOMAIN deployment'.containers = DOMAIN deployment.containers
           /\ Len(deployment'.containers) = Len(deployment.containers)
           /\ \A i \in DOMAIN deployment.containers :
                /\ deployment'.containers[i].name = deployment.containers[i].name
                /\ deployment'.containers[i].image =
                       IF deployment.containers[i].name = Target THEN VersionOf[r]
                       ELSE deployment.containers[i].image
<1> DEFINE s == deployment.containers
           p == Position(read)
           v == VersionOf[r]
<1>1. deployment \in Deployments /\ s \in Seq(Container) /\ v \in Nat
  BY ReleaseAssumption DEF ReleaseInv, ScriptsTyped, Deployments
<1>2. p \in DOMAIN s /\ \A i \in DOMAIN s : s[i].name = Target <=> i = p
  <2>1. PICK i \in DOMAIN s : Targets(deployment) = {i}
    BY DEF DeploymentInv
  <2>2. \A j \in DOMAIN s : s[j].name = Target <=> j = i
    BY <2>1 DEF Targets
  <2>3. p = CHOOSE j \in DOMAIN s : s[j].name = Target
    BY DEF Position
  <2>4. p \in DOMAIN s /\ s[p].name = Target
    BY <2>1, <2>2, <2>3
  <2> QED
    BY <2>2, <2>4
<1> HIDE DEF p, v
<1>3. deployment' = [deployment EXCEPT !.containers = [s EXCEPT ![p].image = v]]
  BY <1>1 DEF p, v
<1> DEFINE new == [s EXCEPT ![p].image = v]
<1>4. /\ deployment'.containers = new /\ deployment'.uid = deployment.uid
      /\ deployment'.config = deployment.config
  BY <1>1, <1>3 DEF Deployments
<1>5. new \in Seq(Container) /\ Len(new) = Len(s) /\ DOMAIN new = DOMAIN s
  <2>1. s[p] \in Container /\ [s[p] EXCEPT !.image = v] \in Container
    <3> DEFINE c == s[p]
    <3>1. c \in Container
      BY <1>1, <1>2
    <3> HIDE DEF c
    <3>2. c \in Container /\ [c EXCEPT !.image = v] \in Container
      BY <1>1, <3>1 DEF Container
    <3> QED
      BY <3>2 DEF c
  <2>2. new = [s EXCEPT ![p] = [s[p] EXCEPT !.image = v]]
    BY <1>1, <1>2
  <2> QED
    BY <1>1, <1>2, <2>1, <2>2
<1>6. ASSUME NEW i \in DOMAIN s
      PROVE  /\ new[i].name = s[i].name
             /\ new[i].image = IF s[i].name = Target THEN v ELSE s[i].image
  <2>1. s[i] \in Container
    BY <1>1
  <2>2. CASE i = p
    BY <1>2, <2>1, <2>2 DEF Container
  <2>3. CASE i # p
    BY <1>2, <2>3
  <2> QED
    BY <2>2, <2>3
<1> HIDE DEF new
<1> QED
  BY <1>4, <1>5, <1>6 DEF v

LEMMA DeploymentStep ==
    ASSUME ReleaseInv, DeploymentInv, [ReleaseNext]_release_vars
    PROVE  DeploymentInv'
<1>1. ASSUME NEW r \in Releases, Patch(r) PROVE DeploymentInv'
  <2>1. VersionOf[r] \in Versions /\ edits' = edits
    BY <1>1 DEF Versions, Patch
  <2>2. CASE UNCHANGED <<deployment, past>>
    BY <2>1, <2>2 DEF DeploymentInv, Targets
  <2>3. CASE /\ Unchanged(script[r].read)
             /\ deployment' =
                  [deployment EXCEPT !.containers[Position(script[r].read)].image = VersionOf[r]]
             /\ past' = past \cup {VersionOf[r]}
    <3>1. script[r].read.containers = deployment.containers
      BY <2>3 DEF Unchanged
    <3>2. /\ deployment'.config = deployment.config
          /\ DOMAIN deployment'.containers = DOMAIN deployment.containers
          /\ \A i \in DOMAIN deployment.containers :
               deployment'.containers[i].name = deployment.containers[i].name
      BY <2>3, <3>1, PatchedImage
    <3>3. Targets(deployment') = Targets(deployment)
      BY <3>2 DEF Targets
    <3> QED
      BY <2>1, <2>3, <3>2, <3>3 DEF DeploymentInv, Targets
  <2> QED
    BY <1>1, <2>2, <2>3, Zenon DEF Patch
<1>2. CASE UNCHANGED <<deployment, past, edits>>
  BY <1>2 DEF DeploymentInv, Targets
<1>3. ASSUME NEW r \in Releases, NEW done \in BOOLEAN,
             CallFails(r) \/ (Proceed(r, done) /\ ~Patch(r)) \/ Migrate(r)
      PROVE  UNCHANGED <<deployment, past, edits>>
  BY <1>3 DEF CallFails, Proceed, Read, CreateJob, Wait, Rollout, Migrate, StartJob, GetVersions,
              Lock, Apply, Unlock, Check, FailJob, OrphanCommits, OrphanEnds, Migrating
<1> QED
  BY <1>1, <1>2, <1>3, DeploymentEdited DEF ReleaseNext, Proceed, release_vars

LEMMA DeploymentInit ==
    ASSUME ReleaseInit
    PROVE  DeploymentInv
<1>1. PICK c \in Configs :
        deployment = [uid |-> 1, config |-> c,
                      containers |-> <<[name |-> Target, image |-> 0],
                                       [name |-> "sidecar", image |-> 0]>>]
  BY DEF ReleaseInit
<1>2. DOMAIN deployment.containers = {1, 2} /\ deployment.containers[1].name = Target
      /\ deployment.containers[2].name = "sidecar"
  BY <1>1
<1>3. Targets(deployment) = {1}
  BY <1>2, ContainerAssumption DEF Targets
<1> QED
  BY <1>1, <1>2, <1>3 DEF ReleaseInit, DeploymentInv, Versions

THEOREM DeploymentInvariant == ReleaseSpec => []DeploymentInv
BY DeploymentInit, DeploymentStep, ReleaseInvariant, PTL DEF ReleaseSpec

\* docs/deployment.md, step 4: a patch changes the image of the one container and
\* nothing else, whatever others have edited since the Deployment was read
\* (deploy-kubernetes.py:98-122).
THEOREM PatchesReplaceOneImage == ReleaseSpec => NothingIsOverwritten
<1> DEFINE Kept(r) ==
      LET read == script[r].read IN
      /\ deployment'.uid = read.uid /\ deployment'.config = read.config
      /\ Len(deployment'.containers) = Len(read.containers)
      /\ \A i \in DOMAIN read.containers :
           /\ deployment'.containers[i].name = read.containers[i].name
           /\ deployment'.containers[i].image =
                  IF read.containers[i].name = Target THEN VersionOf[r]
                  ELSE read.containers[i].image
<1>1. ASSUME ReleaseInv, DeploymentInv, [ReleaseNext]_release_vars,
             NEW r \in Releases, r \in patched' \ patched
      PROVE  Kept(r)
  <2>1. Patch(r) /\ patched' = patched \cup {r} /\ Unchanged(script[r].read)
        /\ deployment' =
              [deployment EXCEPT !.containers[Position(script[r].read)].image = VersionOf[r]]
    <3>1. PICK q \in Releases : Patch(q)
      BY <1>1 DEF ReleaseNext, release_vars, script_vars, Edit, CallFails, Proceed, Read, CreateJob,
         Wait, Rollout, Migrate, StartJob, GetVersions, Lock, Apply, Unlock, Check, FailJob,
         OrphanCommits, OrphanEnds, Migrating
    <3>2. patched' = patched \cup {q}
      BY <1>1, <3>1 DEF Patch
    <3>3. q = r
      BY <1>1, <3>2
    <3> QED
      BY <1>1, <3>1, <3>3, Zenon DEF Patch
  <2> DEFINE read == script[r].read
  <2>2. /\ read.uid = deployment.uid /\ read.containers = deployment.containers
        /\ read.config = deployment.config
        /\ deployment' = [deployment EXCEPT !.containers[Position(read)].image = VersionOf[r]]
    BY <2>1 DEF Unchanged
  <2> HIDE DEF read
  <2>3. /\ deployment'.uid = deployment.uid /\ deployment'.config = deployment.config
        /\ Len(deployment'.containers) = Len(deployment.containers)
        /\ \A i \in DOMAIN deployment.containers :
             /\ deployment'.containers[i].name = deployment.containers[i].name
             /\ deployment'.containers[i].image =
                    IF deployment.containers[i].name = Target THEN VersionOf[r]
                    ELSE deployment.containers[i].image
    BY <1>1, <2>2, PatchedImage
  <2> QED
    BY <2>2, <2>3 DEF read
<1>2. ReleaseInv /\ DeploymentInv /\ [ReleaseNext]_release_vars =>
         [\A r \in Releases : r \in patched' \ patched => Kept(r)]_release_vars
  BY <1>1
<1> QED
  BY <1>2, ReleaseInvariant, DeploymentInvariant, PTL
  DEF ReleaseSpec, NothingIsOverwritten

-------------------------------------------------------------------------------
(* A rollout is a release                                                  *)


LEMMA StepsAreReleaseSteps ==
    ASSUME [Next]_rollout_vars
    PROVE  [ReleaseNext]_release_vars
<1>1. ASSUME NEW p \in Pods, StartPod(p) \/ PodRuns(p) PROVE UNCHANGED release_vars
  BY <1>1 DEF StartPod, PodRuns
<1>2. ASSUME NEW r \in Releases, ScriptRuns(r) PROVE ReleaseNext
  <2>1. Proceed(r, RolledOut)
    BY <1>2 DEF ScriptRuns
  <2>2. Proceed(r, TRUE) \/ Proceed(r, FALSE)
    BY <2>1 DEF Proceed, Rollout
  <2> QED
    BY <2>2 DEF ReleaseNext
<1>3. ASSUME NEW r \in Releases, Happens(r) PROVE ReleaseNext
  BY <1>3 DEF Happens, ReleaseNext
<1>4. ASSUME OthersEdit PROVE ReleaseNext
  BY <1>4 DEF OthersEdit, ReleaseNext
<1>5. ASSUME UNCHANGED rollout_vars PROVE UNCHANGED release_vars
  BY <1>5 DEF rollout_vars
<1> QED
  BY <1>1, <1>2, <1>3, <1>4, <1>5 DEF Next

\* Rollout implements Release.
THEOREM ReleaseImplemented == Spec => ReleaseSpec
<1>1. Init => ReleaseInit
  BY DEF Init
<1>2. [Next]_rollout_vars => [ReleaseNext]_release_vars
  BY StepsAreReleaseSteps
<1> QED
  BY <1>1, <1>2, PTL DEF Spec, ReleaseSpec

\* docs/deployment.md, "Duplicate concurrent Jobs serialize": also while processes start
\* and end, MigrationsInOrder.
THEOREM MigrationsStayInOrder == Spec => []MigrationsInOrder
BY ReleaseImplemented, MigrationsApplyInOrder, PTL

\* migrate.go:61 and 75, deploy-kubernetes.py:90: also while processes start and end,
\* ReleasesAreSafe.
THEOREM ReleasesStaySafe == Spec => []ReleasesAreSafe
BY ReleaseImplemented, ReleasesSafe, PTL

\* docs/deployment.md, step 4: also while processes start and end, a patch changes the
\* image of the one container and nothing else.
THEOREM PatchesOverwriteNothing == Spec => NothingIsOverwritten
BY ReleaseImplemented, PatchesReplaceOneImage, PTL

-------------------------------------------------------------------------------
(* The versions that run                                                   *)

\* The Deployment has the container, and what runs was released once.
ImagesReleased ==
    /\ image \in [Pods -> past]
    /\ HasTarget(deployment)

\* Reversal puts what was at i at the mirrored place, which is one.
LEMMA Mirror ==
    ASSUME NEW n \in Nat, NEW i \in 1 .. n
    PROVE  (n - i) + 1 \in 1 .. n /\ (n - ((n - i) + 1)) + 1 = i
OBVIOUS

\* Neither an edit nor a patch renames a container.
LEMMA TargetStays ==
    ASSUME ReleaseInv, HasTarget(deployment), [ReleaseNext]_release_vars
    PROVE  HasTarget(deployment)' /\ past \subseteq past'
<1> USE DEF HasTarget, ReleaseInv, ScriptsTyped
<1>0. deployment.containers \in Seq(Container)
  BY DEF Deployments
<1> DEFINE s == deployment.containers
<1>1. CASE Edit
  <2>1. past' = past
    BY <1>1 DEF Edit
  <2>2. ASSUME NEW c \in Configs, deployment' = [deployment EXCEPT !.config = c]
        PROVE  HasTarget(deployment)'
    BY <2>2 DEF Deployments
  <2>3. CASE deployment' = [deployment EXCEPT !.containers = Reverse(@)]
    <3>1. Reverse(s) = [i \in 1 .. Len(s) |-> s[(Len(s) - i) + 1]]
      BY DEF Reverse
    <3>2. PICK i \in DOMAIN s : s[i].name = Target
      OBVIOUS
    <3>3. i \in 1 .. Len(s) /\ Len(s) \in Nat
      BY <1>0
    <3>4. (Len(s) - i) + 1 \in 1 .. Len(s) /\ (Len(s) - ((Len(s) - i) + 1)) + 1 = i
      BY <3>3, Mirror
    <3>5. Reverse(s)[(Len(s) - i) + 1].name = Target
      BY <3>1, <3>2, <3>4
    <3>6. deployment'.containers = Reverse(s)
      BY <2>3 DEF Deployments
    <3> QED
      BY <2>1, <3>1, <3>4, <3>5, <3>6
  <2>4. ASSUME NEW v \in past,
               deployment' = [deployment EXCEPT !.containers[Position(deployment)].image = v]
        PROVE  HasTarget(deployment)'
    BY <2>4, NewImage DEF SchemaSuffices
  <2>5. CASE deployment' = [deployment EXCEPT !.uid = @ + 1]
    BY <2>1, <2>5 DEF Deployments
  <2> QED
    BY <1>1, <2>1, <2>2, <2>3, <2>4, <2>5 DEF Edit
<1>2. ASSUME NEW r \in Releases, Patch(r) PROVE HasTarget(deployment)' /\ past \subseteq past'
  <2>1. VersionOf[r] \in Nat
    BY ReleaseAssumption
  <2>2. CASE /\ deployment' =
                  [deployment EXCEPT !.containers[Position(script[r].read)].image = VersionOf[r]]
             /\ past' = past \cup {VersionOf[r]}
    <3>1. /\ DOMAIN deployment'.containers = DOMAIN s
          /\ \A i \in DOMAIN s : deployment'.containers[i].name = s[i].name
      BY <2>1, <2>2, NewImage DEF SchemaSuffices
    <3> QED
      BY <2>2, <3>1
  <2>3. CASE UNCHANGED <<deployment, past>>
    BY <2>3
  <2> QED
    BY <1>2, <2>2, <2>3, Zenon DEF Patch
<1>3. CASE UNCHANGED <<deployment, past>>
  BY <1>3
<1>4. ASSUME NEW r \in Releases, NEW done \in BOOLEAN,
             CallFails(r) \/ (Proceed(r, done) /\ ~Patch(r)) \/ Migrate(r)
      PROVE  UNCHANGED <<deployment, past>>
  BY <1>4 DEF CallFails, Proceed, Read, CreateJob, Wait, Rollout, Migrate, StartJob, GetVersions,
              Lock, Apply, Unlock, Check, FailJob, OrphanCommits, OrphanEnds, Migrating
<1> QED
  BY <1>1, <1>2, <1>3, <1>4 DEF ReleaseNext, Proceed, release_vars

\* What runs was in the Deployment once.
THEOREM ImagesWereReleased == Spec => []ImagesReleased
<1>1. Init => ImagesReleased
  BY DEF Init, ReleaseInit, ImagesReleased, HasTarget
<1>2. ReleaseInv /\ ImagesReleased /\ [Next]_rollout_vars => ImagesReleased'
  <2> SUFFICES ASSUME ReleaseInv, ImagesReleased, [Next]_rollout_vars PROVE ImagesReleased'
    OBVIOUS
  <2>1. HasTarget(deployment)' /\ past \subseteq past'
    BY TargetStays, StepsAreReleaseSteps DEF ImagesReleased
  <2>2. ASSUME NEW p \in Pods, StartPod(p) PROVE ImagesReleased'
    <3>1. Position(deployment) \in DOMAIN deployment.containers
      BY DEF ImagesReleased, HasTarget, Position
    <3>2. Image(deployment) \in past
      BY <3>1 DEF Image, ReleaseInv, SchemaSuffices
    <3> QED
      BY <2>1, <2>2, <3>2 DEF StartPod, ImagesReleased
  <2>3. CASE UNCHANGED image
    BY <2>1, <2>3 DEF ImagesReleased
  <2> QED
    BY <2>2, <2>3 DEF Next, PodRuns, ScriptRuns, Happens, OthersEdit, rollout_vars
<1> QED
  BY <1>1, <1>2, ReleaseImplemented, ReleaseInvariant, PTL DEF Spec

\* Across releases, edits and restarts no process runs a version whose migrations are
\* not in the database: a part of ProcessesFit.
THEOREM SchemaIsThere == Spec => []ProcessesFindSchema
<1>1. ReleaseInv /\ ImagesReleased => ProcessesFindSchema
  BY DEF ReleaseInv, SchemaSuffices, ImagesReleased, ProcessesFindSchema
<1> QED
  BY <1>1, ImagesWereReleased, ReleaseImplemented, ReleaseInvariant, PTL

-------------------------------------------------------------------------------
(* The processes                                                           *)

Parts == [codeLen : Int, store : {"memory", "s3"}, reads : {"none", "s3", "postgres"},
          queue : Int, limited : BOOLEAN, ttl : Int, recorder : BOOLEAN, buffer : Int]
Things == {"workers", "database", "recorder"}
Watchers == {"none", "waiting", "closing"}
Processes ==
    [main : {"off", "service", "store", "relations", "limiter", "auth", "recorder",
             "serving", "failing", "closing"},
     setting : Settings \cup {NoSetting}, parts : Parts,
     open : SUBSET Things, closer : SUBSET Things,
     closing : {"no", "database", "recorder", "done"},
     watcher : Watchers, signalled : BOOLEAN]

\* No step of the init function refuses c.
Accepted(c) ==
    /\ ~StoreRefused(c) /\ (NoRelations(c) \/ ~RelationsRefused(c))
    /\ ~LimiterRefused(c) /\ ~AuthRefused(c) /\ ~RecorderRefused(c)

\* The steps of a process that come after one of the init function.
AfterService == {"store", "relations", "limiter", "auth", "recorder", "serving"}
AfterStore == {"relations", "limiter", "auth", "recorder", "serving"}
AfterRelations == {"limiter", "auth", "recorder", "serving"}
AfterLimiter == {"auth", "recorder", "serving"}
AfterAuth == {"recorder", "serving"}

\* What the init function has made of the setting so far.
Assembled(t) ==
    LET c == t.setting
        x == t.parts
    IN
    /\ t.main # "off" => c \in Settings
    /\ t.main \in {"service", "store", "relations"} => x.reads = "none"
    /\ t.main \in AfterService => x.codeLen = clampCodeLen(c.codeLength)
    /\ t.main \in AfterStore => ~StoreRefused(c)
    /\ t.main \in AfterRelations =>
         /\ NoRelations(c) => x.reads = "none"
         /\ ~NoRelations(c) => /\ ~RelationsRefused(c) /\ x.store = "s3" /\ x.queue > 0
                               /\ t.closing = "no" => "database" \in t.open
    /\ t.main \in AfterLimiter => ~LimiterRefused(c) /\ x.limited = c.limit
    /\ t.main \in AfterAuth => ~AuthRefused(c) /\ ((x.ttl > 0) <=> c.google)
    /\ t.main = "serving" => ~RecorderRefused(c) /\ (x.recorder <=> ~NoClicks(c)) /\ x.buffer > 0
    /\ t.main = "failing" => ~Accepted(c)

\* How far closing is; whoever closes, it begins when nothing is opened any more.
Closed(t) ==
    /\ t.open \subseteq t.closer
    /\ "workers" \in t.open => "database" \in t.open
    /\ t.watcher # "none" => t.main \in {"serving", "closing"}
    /\ t.watcher = "closing" => t.signalled
    /\ t.closing # "no" => t.main = "closing" \/ t.watcher = "closing"
    /\ t.closing # "no" => "workers" \notin t.open
    /\ t.closing \in {"recorder", "done"} => "database" \notin t.open

ProcessInv ==
    /\ pod \in [Pods -> Processes]
    /\ served \subseteq Settings /\ \A c \in served : Accepted(c)
    /\ \A p \in Pods : Assembled(pod[p]) /\ Closed(pod[p])

ProcessNext ==
    \E p \in Pods :
        \/ \E c \in Settings : StartProcess(p, c)
        \/ InitFunc(p) \/ Signal(p) \/ RunReturns(p) \/ Close(p) \/ Die(p)

LEMMA OneProcess ==
    ASSUME ProcessInv, NEW p \in Pods, pod' \in [Pods -> Processes],
           \A q \in Pods \ {p} : pod'[q] = pod[q], Assembled(pod'[p]), Closed(pod'[p]),
           served' \subseteq Settings, \A c \in served' : Accepted(c)
    PROVE  ProcessInv'
<1>1. ASSUME NEW q \in Pods PROVE Assembled(pod'[q]) /\ Closed(pod'[q])
  <2>1. CASE q = p
    BY <2>1
  <2>2. CASE q # p
    BY <2>2 DEF ProcessInv
  <2> QED
    BY <2>1, <2>2
<1>2. \A q \in Pods : (Assembled(pod[q]) /\ Closed(pod[q]))'
  BY <1>1
<1> QED
  BY <1>2 DEF ProcessInv

\* Where a step leads.
LEMMA Goes ==
    ASSUME pod \in [Pods -> Processes], NEW p \in Pods,
           NEW step \in {"service", "store", "relations", "limiter", "auth", "recorder",
                         "serving", "failing", "closing"}
    PROVE  LET t == Goto(p, step)[p] IN
           /\ Goto(p, step) \in [Pods -> Processes] /\ \A q \in Pods \ {p} : Goto(p, step)[q] = pod[q]
           /\ t.main = step /\ t.setting = pod[p].setting /\ t.parts = pod[p].parts
           /\ t.open = pod[p].open /\ t.closer = pod[p].closer /\ t.closing = pod[p].closing
           /\ t.watcher = pod[p].watcher /\ t.signalled = pod[p].signalled
BY DEF Goto, Processes

LEMMA PartsSet ==
    ASSUME NEW f \in [Pods -> Processes], NEW p \in Pods, NEW x \in Parts,
           NEW g, g = [f EXCEPT ![p].parts = x]
    PROVE  /\ g \in [Pods -> Processes] /\ \A q \in Pods \ {p} : g[q] = f[q]
           /\ g[p].main = f[p].main /\ g[p].setting = f[p].setting /\ g[p].parts = x
           /\ g[p].open = f[p].open /\ g[p].closer = f[p].closer /\ g[p].closing = f[p].closing
           /\ g[p].watcher = f[p].watcher /\ g[p].signalled = f[p].signalled
BY DEF Processes

LEMMA CodeLengths ==
    ASSUME NEW n \in Int
    PROVE  /\ clampCodeLen(n) \in MinCodeLen .. MaxCodeLen
           /\ n \in MinCodeLen .. MaxCodeLen => clampCodeLen(n) = n
BY DEF clampCodeLen, MinCodeLen, MaxCodeLen, DefaultCodeLen

LEMMA InitServiceKeeps ==
    ASSUME ProcessInv, NEW p \in Pods, InitService(p)
    PROVE  ProcessInv'
<1> DEFINE t == pod[p]
           u == pod'[p]
           g == Goto(p, "store")
           n == clampCodeLen(t.setting.codeLength)
<1>1. t \in Processes /\ Assembled(t) /\ Closed(t) /\ t.main = "service"
  BY DEF ProcessInv, InitService
<1>2. t.setting \in Settings /\ t.setting \in ServiceConfig /\ t.parts \in Parts
  BY <1>1, ProcessAssumption DEF Assembled, Processes
<1>3. n \in Int
  <2>1. t.setting.codeLength \in Int
    BY <1>2 DEF ServiceConfig
  <2> QED
    BY <2>1, CodeLengths DEF MinCodeLen, MaxCodeLen
<1>4. /\ g \in [Pods -> Processes] /\ \A q \in Pods \ {p} : g[q] = pod[q]
      /\ g[p].main = "store" /\ g[p].setting = t.setting /\ g[p].parts = t.parts
      /\ g[p].open = t.open /\ g[p].closer = t.closer /\ g[p].closing = t.closing
      /\ g[p].watcher = t.watcher /\ g[p].signalled = t.signalled
  BY Goes DEF ProcessInv
<1>5. [t.parts EXCEPT !.codeLen = n] \in Parts
  BY <1>2, <1>3 DEF Parts
<1>6. pod' = [g EXCEPT ![p].parts = [t.parts EXCEPT !.codeLen = n]] /\ served' = served
  BY <1>4 DEF InitService, SetCodeLength
<1> HIDE DEF n, g
<1>7. /\ pod' \in [Pods -> Processes] /\ \A q \in Pods \ {p} : pod'[q] = pod[q]
      /\ u.main = "store" /\ u.setting = t.setting /\ u.parts = [t.parts EXCEPT !.codeLen = n]
      /\ u.open = t.open /\ u.closer = t.closer /\ u.closing = t.closing
      /\ u.watcher = t.watcher /\ u.signalled = t.signalled
  BY <1>4, <1>5, <1>6, PartsSet
<1>8. u.parts.codeLen = n /\ u.parts.reads = t.parts.reads
  BY <1>2, <1>7 DEF Parts
<1> HIDE DEF u, t
<1>9. Assembled(u) /\ Closed(u)
  BY <1>1, <1>2, <1>7, <1>8 DEF Assembled, Closed, n, AfterService, AfterStore, AfterRelations,
     AfterLimiter, AfterAuth
<1> QED
  BY <1>6, <1>7, <1>9, OneProcess DEF u, ProcessInv

\* A step that an error ends.
LEMMA RefuseKeeps ==
    ASSUME ProcessInv, NEW p \in Pods,
           pod[p].main \in ({"service"} \cup AfterService) \ {"serving"},
           ~Accepted(pod[p].setting), Refuse(p), UNCHANGED served
    PROVE  ProcessInv'
<1> DEFINE t == pod[p]
           u == pod'[p]
<1>1. t \in Processes /\ Assembled(t) /\ Closed(t) /\ t.setting \in Settings
  BY DEF ProcessInv, Assembled, AfterService
<1>2. /\ pod' \in [Pods -> Processes] /\ \A q \in Pods \ {p} : pod'[q] = pod[q]
      /\ u.main = "failing" /\ u.setting = t.setting /\ u.parts = t.parts
      /\ u.open = t.open /\ u.closer = t.closer /\ u.closing = t.closing
      /\ u.watcher = t.watcher /\ u.signalled = t.signalled
  BY Goes DEF ProcessInv, Refuse
<1> HIDE DEF u, t
<1>3. ~Accepted(t.setting) /\ t.main \notin {"serving", "closing"}
  BY DEF t, AfterService
<1>4. Assembled(u) /\ Closed(u)
  BY <1>1, <1>2, <1>3 DEF Assembled, Closed, AfterService, AfterStore, AfterRelations,
     AfterLimiter, AfterAuth
<1> QED
  BY <1>2, <1>4, OneProcess DEF u, ProcessInv

LEMMA InitStoreKeeps ==
    ASSUME ProcessInv, NEW p \in Pods, InitStore(p)
    PROVE  ProcessInv'
<1> DEFINE t == pod[p]
           u == pod'[p]
<1>1. t \in Processes /\ Assembled(t) /\ Closed(t) /\ t.main = "store" /\ UNCHANGED served
  BY DEF ProcessInv, InitStore
<1>2. CASE StoreRefused(t.setting) /\ Refuse(p)
  BY <1>1, <1>2, RefuseKeeps DEF Accepted, AfterService
<1>3. CASE ~StoreRefused(t.setting) /\ pod' = Goto(p, "relations")
  <2>1. /\ pod' \in [Pods -> Processes] /\ \A q \in Pods \ {p} : pod'[q] = pod[q]
        /\ u.main = "relations" /\ u.setting = t.setting /\ u.parts = t.parts
        /\ u.open = t.open /\ u.closer = t.closer /\ u.closing = t.closing
        /\ u.watcher = t.watcher /\ u.signalled = t.signalled
    BY <1>3, Goes DEF ProcessInv
  <2> HIDE DEF u, t
  <2>2. Assembled(u) /\ Closed(u)
    BY <1>1, <1>3, <2>1 DEF Assembled, Closed, AfterService, AfterStore, AfterRelations,
       AfterLimiter, AfterAuth
  <2> QED
    BY <1>1, <2>1, <2>2, OneProcess DEF u, ProcessInv
<1> QED
  BY <1>2, <1>3 DEF InitStore

LEMMA InitLimiterKeeps ==
    ASSUME ProcessInv, NEW p \in Pods, InitLimiter(p)
    PROVE  ProcessInv'
<1> DEFINE t == pod[p]
           u == pod'[p]
           g == Goto(p, "auth")
           x == [t.parts EXCEPT !.limited = t.setting.limit]
<1>1. t \in Processes /\ Assembled(t) /\ Closed(t) /\ t.main = "limiter" /\ UNCHANGED served
  BY DEF ProcessInv, InitLimiter
<1>2. CASE LimiterRefused(t.setting) /\ Refuse(p)
  BY <1>1, <1>2, RefuseKeeps DEF Accepted, AfterService
<1>3. CASE ~LimiterRefused(t.setting) /\ pod' = [g EXCEPT ![p].parts.limited = t.setting.limit]
  <2>1. /\ g \in [Pods -> Processes] /\ \A q \in Pods \ {p} : g[q] = pod[q]
        /\ g[p].main = "auth" /\ g[p].setting = t.setting /\ g[p].parts = t.parts
        /\ g[p].open = t.open /\ g[p].closer = t.closer /\ g[p].closing = t.closing
        /\ g[p].watcher = t.watcher /\ g[p].signalled = t.signalled
    BY Goes DEF ProcessInv
  <2>2. t.parts \in Parts /\ t.setting \in ServiceConfig
    BY <1>1, ProcessAssumption DEF Assembled, Processes
  <2>3. x \in Parts /\ x.limited = t.setting.limit /\ x.codeLen = t.parts.codeLen
        /\ x.store = t.parts.store /\ x.reads = t.parts.reads /\ x.queue = t.parts.queue
    BY <2>2 DEF Parts, ServiceConfig
  <2>4. pod' = [g EXCEPT ![p].parts = x]
    BY <1>3, <2>1
  <2> HIDE DEF x, g
  <2>5. /\ pod' \in [Pods -> Processes] /\ \A q \in Pods \ {p} : pod'[q] = pod[q]
        /\ u.main = "auth" /\ u.setting = t.setting /\ u.parts = x
        /\ u.open = t.open /\ u.closer = t.closer /\ u.closing = t.closing
        /\ u.watcher = t.watcher /\ u.signalled = t.signalled
    BY <2>1, <2>3, <2>4, PartsSet
  <2> HIDE DEF u, t
  <2>6. Assembled(u) /\ Closed(u)
    BY <1>1, <1>3, <2>3, <2>5 DEF Assembled, Closed, AfterService, AfterStore, AfterRelations,
       AfterLimiter, AfterAuth
  <2> QED
    BY <1>1, <2>5, <2>6, OneProcess DEF u, ProcessInv
<1> QED
  BY <1>2, <1>3 DEF InitLimiter

LEMMA InitAuthKeeps ==
    ASSUME ProcessInv, NEW p \in Pods, InitAuth(p)
    PROVE  ProcessInv'
<1> DEFINE t == pod[p]
           u == pod'[p]
           g == Goto(p, "recorder")
           n == IF t.setting.google THEN SessionTTL(t.setting) ELSE 0
           x == [t.parts EXCEPT !.ttl = n]
<1>1. t \in Processes /\ Assembled(t) /\ Closed(t) /\ t.main = "auth" /\ UNCHANGED served
  BY DEF ProcessInv, InitAuth
<1>2. CASE AuthRefused(t.setting) /\ Refuse(p)
  BY <1>1, <1>2, RefuseKeeps DEF Accepted, AfterService
<1>3. CASE ~AuthRefused(t.setting) /\ pod' = [g EXCEPT ![p].parts.ttl = n]
  <2>1. /\ g \in [Pods -> Processes] /\ \A q \in Pods \ {p} : g[q] = pod[q]
        /\ g[p].main = "recorder" /\ g[p].setting = t.setting /\ g[p].parts = t.parts
        /\ g[p].open = t.open /\ g[p].closer = t.closer /\ g[p].closing = t.closing
        /\ g[p].watcher = t.watcher /\ g[p].signalled = t.signalled
    BY Goes DEF ProcessInv
  <2>2. t.parts \in Parts /\ t.setting \in ServiceConfig
    BY <1>1, ProcessAssumption DEF Assembled, Processes
  <2>3. n \in Int /\ (n > 0 <=> t.setting.google)
    <3>1. t.setting.ttlHours \in Int
      BY <2>2 DEF ServiceConfig
    <3> QED
      BY <3>1 DEF SessionTTL
  <2> HIDE DEF n
  <2>4. x \in Parts /\ x.ttl = n /\ x.limited = t.parts.limited /\ x.codeLen = t.parts.codeLen
        /\ x.store = t.parts.store /\ x.reads = t.parts.reads /\ x.queue = t.parts.queue
    BY <2>2, <2>3 DEF Parts
  <2>5. pod' = [g EXCEPT ![p].parts = x]
    BY <1>3, <2>1
  <2> HIDE DEF x, g
  <2>6. /\ pod' \in [Pods -> Processes] /\ \A q \in Pods \ {p} : pod'[q] = pod[q]
        /\ u.main = "recorder" /\ u.setting = t.setting /\ u.parts = x
        /\ u.open = t.open /\ u.closer = t.closer /\ u.closing = t.closing
        /\ u.watcher = t.watcher /\ u.signalled = t.signalled
    BY <2>1, <2>4, <2>5, PartsSet
  <2> HIDE DEF u, t
  <2>7. Assembled(u) /\ Closed(u)
    BY <1>1, <1>3, <2>3, <2>4, <2>6 DEF Assembled, Closed, AfterService, AfterStore,
       AfterRelations, AfterLimiter, AfterAuth
  <2> QED
    BY <1>1, <2>6, <2>7, OneProcess DEF u, ProcessInv
<1> QED
  BY <1>2, <1>3 DEF InitAuth

\* The store in use, with the owner index or without it.
LEMMA StoreUsed ==
    ASSUME pod \in [Pods -> Processes], NEW p \in Pods
    PROVE  LET t == UseStore(p)[p]
               store == IF pod[p].setting.storage = "s3" THEN "s3" ELSE "memory"
           IN
           /\ UseStore(p) \in [Pods -> Processes] /\ \A q \in Pods \ {p} : UseStore(p)[q] = pod[q]
           /\ t.main = "limiter" /\ t.setting = pod[p].setting
           /\ t.parts = [pod[p].parts EXCEPT !.store = store] /\ t.parts \in Parts
           /\ t.open = pod[p].open /\ t.closer = pod[p].closer /\ t.closing = pod[p].closing
           /\ t.watcher = pod[p].watcher /\ t.signalled = pod[p].signalled
<1> DEFINE g == Goto(p, "limiter")
           store == IF pod[p].setting.storage = "s3" THEN "s3" ELSE "memory"
           x == [pod[p].parts EXCEPT !.store = store]
           h == UseStore(p)
<1>1. /\ g \in [Pods -> Processes] /\ \A q \in Pods \ {p} : g[q] = pod[q]
      /\ g[p].main = "limiter" /\ g[p].setting = pod[p].setting /\ g[p].parts = pod[p].parts
      /\ g[p].open = pod[p].open /\ g[p].closer = pod[p].closer /\ g[p].closing = pod[p].closing
      /\ g[p].watcher = pod[p].watcher /\ g[p].signalled = pod[p].signalled
  BY Goes
<1>2. x \in Parts
  <2>1. pod[p].parts \in Parts
    BY DEF Processes
  <2> QED
    BY <2>1 DEF Parts
<1>3. h = [g EXCEPT ![p].parts = x]
  BY <1>1 DEF UseStore, SetStore
<1> HIDE DEF g, h, x
<1>4. /\ h \in [Pods -> Processes] /\ \A q \in Pods \ {p} : h[q] = pod[q]
      /\ h[p].main = "limiter" /\ h[p].setting = pod[p].setting /\ h[p].parts = x
      /\ h[p].open = pod[p].open /\ h[p].closer = pod[p].closer /\ h[p].closing = pod[p].closing
      /\ h[p].watcher = pod[p].watcher /\ h[p].signalled = pod[p].signalled
  BY <1>1, <1>2, <1>3, PartsSet
<1> QED
  BY <1>2, <1>4 DEF h, x

Queue(n) == Or(n, 1024)

LEMMA QueueSize ==
    ASSUME NEW q \in 0 .. MaxQueue
    PROVE  Queue(q) \in Nat /\ Queue(q) > 0
<1>1. q \in Nat
  OBVIOUS
<1> QED
  BY <1>1 DEF Or, Queue

LEMMA RelationsAccepted ==
    ASSUME NEW c, ~RelationsRefused(c)
    PROVE  /\ c.storage = "s3" /\ c.readSource \in {"", "s3", "postgres"}
           /\ Queue(c.queue) \in Nat /\ Queue(c.queue) > 0
<1>1. c.storage = "s3" /\ c.readSource \in {"", "s3", "postgres"} /\ c.queue \in 0 .. MaxQueue
  BY DEF RelationsRefused
<1>2. Queue(c.queue) \in Nat /\ Queue(c.queue) > 0
  BY <1>1, QueueSize
<1> QED
  BY <1>1, <1>2

With(f, p, x, open, closer) ==
    [f EXCEPT ![p].parts = x, ![p].open = open, ![p].closer = closer]

LEMMA Opened ==
    ASSUME NEW f \in [Pods -> Processes], NEW p \in Pods, NEW x \in Parts,
           NEW open \in SUBSET Things, NEW closer \in SUBSET Things,
           NEW g, g = With(f, p, x, open, closer)
    PROVE  /\ g \in [Pods -> Processes] /\ \A q \in Pods \ {p} : g[q] = f[q]
           /\ g[p].main = f[p].main /\ g[p].setting = f[p].setting /\ g[p].parts = x
           /\ g[p].open = open /\ g[p].closer = closer /\ g[p].closing = f[p].closing
           /\ g[p].watcher = f[p].watcher /\ g[p].signalled = f[p].signalled
<1> DEFINE y == f[p]
           z == [y EXCEPT !.parts = x, !.open = open, !.closer = closer]
<1>1. With(f, p, x, open, closer) = [f EXCEPT ![p] = z]
  BY DEF With
<1>0. y \in Processes
  OBVIOUS
<1> HIDE DEF y
<1>2. /\ z \in Processes
      /\ z.main = y.main /\ z.setting = y.setting /\ z.parts = x
      /\ z.open = open /\ z.closer = closer /\ z.closing = y.closing
      /\ z.watcher = y.watcher /\ z.signalled = y.signalled
  BY <1>0 DEF Processes
<1> HIDE DEF z
<1>3. g \in [Pods -> Processes] /\ g[p] = z /\ \A q \in Pods \ {p} : g[q] = f[q]
  BY <1>1, <1>2
<1> QED
  BY <1>2, <1>3 DEF y

LEMMA InitRelationsKeeps ==
    ASSUME ProcessInv, NEW p \in Pods, InitRelations(p)
    PROVE  ProcessInv'
<1> DEFINE t == pod[p]
           u == pod'[p]
           c == t.setting
           g == UseStore(p)
<1>1. t \in Processes /\ Assembled(t) /\ Closed(t) /\ t.main = "relations" /\ UNCHANGED served
  BY DEF ProcessInv, InitRelations
<1>2. c \in Settings /\ c \in ServiceConfig /\ t.parts \in Parts
  BY <1>1, ProcessAssumption DEF Assembled, Processes
<1>3. /\ g \in [Pods -> Processes] /\ \A q \in Pods \ {p} : g[q] = pod[q]
      /\ g[p].main = "limiter" /\ g[p].setting = c /\ g[p].parts \in Parts
      /\ g[p].parts = [t.parts EXCEPT !.store = IF c.storage = "s3" THEN "s3" ELSE "memory"]
      /\ g[p].open = t.open /\ g[p].closer = t.closer /\ g[p].closing = t.closing
      /\ g[p].watcher = t.watcher /\ g[p].signalled = t.signalled
  BY StoreUsed DEF ProcessInv
<1>4. /\ g[p].parts.codeLen = t.parts.codeLen /\ g[p].parts.reads = t.parts.reads
      /\ g[p].parts.store = IF c.storage = "s3" THEN "s3" ELSE "memory"
  BY <1>2, <1>3 DEF Parts
<1>5. CASE NoRelations(c) /\ pod' = g
  <2> HIDE DEF g
  <2>1. u = g[p] /\ pod' = g
    BY <1>5
  <2> HIDE DEF u, t
  <2>2. Assembled(u) /\ Closed(u)
    BY <1>1, <1>2, <1>3, <1>4, <1>5, <2>1 DEF Assembled, Closed, AfterService, AfterStore,
       AfterRelations, AfterLimiter, AfterAuth
  <2> QED
    BY <1>1, <1>3, <2>1, <2>2, OneProcess DEF u, ProcessInv
<1>6. CASE ~NoRelations(c) /\ RelationsRefused(c) /\ Refuse(p)
  BY <1>1, <1>6, RefuseKeeps DEF Accepted, AfterService
<1>7. CASE ~NoRelations(c) /\ ~RelationsRefused(c) /\ OpenRelations(p)
  <2> DEFINE reads == IF c.readSource = "" THEN "s3" ELSE c.readSource
             queue == Queue(c.queue)
             both == {"workers", "database"}
             x == [[g[p].parts EXCEPT !.reads = reads] EXCEPT !.queue = queue]
  <2>0. pod' = [g EXCEPT ![p].parts = [@ EXCEPT !.reads = reads, !.queue = queue],
                         ![p].open = both, ![p].closer = both]
    BY <1>7 DEF OpenRelations, Queue
  <2>1. pod' = [g EXCEPT ![p].parts = x, ![p].open = both, ![p].closer = both]
    BY <1>3, <2>0
  <2> HIDE DEF g, t
  <2>2. reads \in {"s3", "postgres"} /\ c.storage = "s3"
    BY <1>7, RelationsAccepted
  <2>3. queue \in Nat /\ queue > 0
    BY <1>7, RelationsAccepted
  <2> HIDE DEF queue, reads
  <2>4. both \in SUBSET Things
    BY DEF Things
  <2>5. /\ x \in Parts /\ x.reads = reads /\ x.queue = queue
        /\ x.codeLen = g[p].parts.codeLen /\ x.store = g[p].parts.store
    <3> DEFINE y == g[p].parts
               z == [y EXCEPT !.reads = reads]
    <3>1. y \in Parts
      BY <1>3
    <3> HIDE DEF y
    <3>2. z \in Parts /\ z.reads = reads /\ z.codeLen = y.codeLen /\ z.store = y.store
      BY <2>2, <3>1 DEF Parts
    <3> HIDE DEF z
    <3>3. LET w == [z EXCEPT !.queue = queue] IN
          /\ w \in Parts /\ w.reads = z.reads /\ w.queue = queue
          /\ w.codeLen = z.codeLen /\ w.store = z.store
      BY <2>3, <3>2 DEF Parts
    <3>4. x = [z EXCEPT !.queue = queue]
      BY DEF z, y
    <3> QED
      BY <3>2, <3>3, <3>4 DEF y
  <2>6. /\ pod' \in [Pods -> Processes] /\ \A q \in Pods \ {p} : pod'[q] = g[q]
        /\ u.main = g[p].main /\ u.setting = g[p].setting /\ u.parts = x
        /\ u.open = both /\ u.closer = both /\ u.closing = g[p].closing
        /\ u.watcher = g[p].watcher /\ u.signalled = g[p].signalled
    <3> HIDE DEF x, both
    <3>1. pod' = With(g, p, x, both, both)
      BY <2>1 DEF With
    <3> QED
      BY <1>3, <2>4, <2>5, <3>1, Opened
  <2> HIDE DEF u, x
  <2>7. Assembled(u) /\ Closed(u)
    BY <1>1, <1>2, <1>3, <1>4, <1>7, <2>2, <2>3, <2>5, <2>6 DEF Assembled, Closed, AfterService,
       AfterStore, AfterRelations, AfterLimiter, AfterAuth
  <2> QED
    BY <1>1, <1>3, <2>6, <2>7, OneProcess DEF u, t, ProcessInv
<1> QED
  BY <1>5, <1>6, <1>7 DEF InitRelations

WithAll(f, p, x, open, closer, watcher) ==
    [f EXCEPT ![p].parts = x, ![p].open = open, ![p].closer = closer, ![p].watcher = watcher]

LEMMA OpenedAll ==
    ASSUME NEW f \in [Pods -> Processes], NEW p \in Pods, NEW x \in Parts,
           NEW open \in SUBSET Things, NEW closer \in SUBSET Things,
           NEW watcher \in Watchers,
           NEW g, g = WithAll(f, p, x, open, closer, watcher)
    PROVE  /\ g \in [Pods -> Processes] /\ \A q \in Pods \ {p} : g[q] = f[q]
           /\ g[p].main = f[p].main /\ g[p].setting = f[p].setting /\ g[p].parts = x
           /\ g[p].open = open /\ g[p].closer = closer /\ g[p].closing = f[p].closing
           /\ g[p].watcher = watcher /\ g[p].signalled = f[p].signalled
<1> DEFINE y == f[p]
           z == [y EXCEPT !.parts = x, !.open = open, !.closer = closer, !.watcher = watcher]
<1>1. WithAll(f, p, x, open, closer, watcher) = [f EXCEPT ![p] = z]
  BY DEF WithAll
<1>2. y \in Processes
  OBVIOUS
<1> HIDE DEF y
<1>3. /\ z \in Processes
      /\ z.main = y.main /\ z.setting = y.setting /\ z.parts = x
      /\ z.open = open /\ z.closer = closer /\ z.closing = y.closing
      /\ z.watcher = watcher /\ z.signalled = y.signalled
  BY <1>2 DEF Processes
<1> HIDE DEF z
<1>4. g \in [Pods -> Processes] /\ g[p] = z /\ \A q \in Pods \ {p} : g[q] = f[q]
  BY <1>1, <1>3
<1> QED
  BY <1>3, <1>4 DEF y

Buffer(n) == IF n <= 0 THEN 1024 ELSE n

LEMMA BufferSize ==
    ASSUME NEW n \in Int
    PROVE  Buffer(n) \in Int /\ Buffer(n) > 0
BY DEF Buffer

LEMMA InitRecorderKeeps ==
    ASSUME ProcessInv, NEW p \in Pods, InitRecorder(p)
    PROVE  ProcessInv'
<1> DEFINE t == pod[p]
           u == pod'[p]
           c == t.setting
           g == Goto(p, "serving")
<1>1. t \in Processes /\ Assembled(t) /\ Closed(t) /\ t.main = "recorder"
  BY DEF ProcessInv, InitRecorder
<1>2. c \in Settings /\ c \in ServiceConfig /\ t.parts \in Parts
  BY <1>1, ProcessAssumption DEF Assembled, Processes
<1>3. CASE RecorderRefused(c) /\ Refuse(p) /\ UNCHANGED served
  BY <1>1, <1>3, RefuseKeeps DEF Accepted, AfterService
<1>4. CASE ~RecorderRefused(c) /\ Serve(p, {"recorder"}, "waiting")
  <2> DEFINE used == ~NoClicks(c)
             buffer == Buffer(c.buffer)
             open == t.open \cup (IF NoClicks(c) THEN {} ELSE {"recorder"})
             closer == t.closer \cup {"recorder"}
             y == t.parts
             z == [y EXCEPT !.recorder = used]
             x == [z EXCEPT !.buffer = buffer]
  <2>1. /\ g \in [Pods -> Processes] /\ \A q \in Pods \ {p} : g[q] = pod[q]
        /\ g[p].main = "serving" /\ g[p].setting = c /\ g[p].parts = t.parts
        /\ g[p].open = t.open /\ g[p].closer = t.closer /\ g[p].closing = t.closing
        /\ g[p].watcher = t.watcher /\ g[p].signalled = t.signalled
    BY Goes DEF ProcessInv
  <2>2. /\ pod' = [g EXCEPT ![p].parts = [[@ EXCEPT !.recorder = used] EXCEPT !.buffer = buffer],
                            ![p].open = @ \cup (IF NoClicks(c) THEN {} ELSE {"recorder"}),
                            ![p].closer = @ \cup {"recorder"},
                            ![p].watcher = "waiting"]
        /\ served' = served \cup {c}
    BY <1>4 DEF Serve, SetRecorder, Buffer
  <2>3. pod' = WithAll(g, p, x, open, closer, "waiting")
    BY <2>1, <2>2 DEF WithAll
  <2> HIDE DEF g
  <2>4. buffer \in Int /\ buffer > 0
    <3>1. c.buffer \in Int
      BY <1>2 DEF ServiceConfig
    <3> QED
      BY <3>1, BufferSize
  <2> HIDE DEF buffer
  <2>5. /\ x \in Parts /\ (x.recorder <=> ~NoClicks(c)) /\ x.buffer = buffer
        /\ x.codeLen = t.parts.codeLen /\ x.store = t.parts.store /\ x.reads = t.parts.reads
        /\ x.queue = t.parts.queue /\ x.limited = t.parts.limited /\ x.ttl = t.parts.ttl
    <3>1. y \in Parts /\ used \in BOOLEAN
      BY <1>2 DEF NoClicks
    <3> HIDE DEF y
    <3>2. z \in Parts /\ z.recorder = used
          /\ z.codeLen = y.codeLen /\ z.store = y.store /\ z.reads = y.reads
          /\ z.queue = y.queue /\ z.limited = y.limited /\ z.ttl = y.ttl
      BY <3>1 DEF Parts
    <3> HIDE DEF z
    <3>3. x \in Parts /\ x.recorder = z.recorder /\ x.buffer = buffer
          /\ x.codeLen = z.codeLen /\ x.store = z.store /\ x.reads = z.reads
          /\ x.queue = z.queue /\ x.limited = z.limited /\ x.ttl = z.ttl
      BY <3>2, <2>4 DEF Parts
    <3> HIDE DEF x
    <3>4. x.recorder = used
      BY <3>2, <3>3
    <3> QED
      BY <3>2, <3>3, <3>4 DEF y
  <2> HIDE DEF x
  <2>6. open \in SUBSET Things /\ closer \in SUBSET Things
    BY <1>1 DEF Things, Processes
  <2>7. /\ open \subseteq closer
        /\ "workers" \in open => "database" \in open
        /\ "database" \in t.open => "database" \in open
    BY <1>1 DEF Closed
  <2> HIDE DEF open, closer
  <2>8. /\ pod' \in [Pods -> Processes] /\ \A q \in Pods \ {p} : pod'[q] = g[q]
        /\ u.main = g[p].main /\ u.setting = g[p].setting /\ u.parts = x
        /\ u.open = open /\ u.closer = closer /\ u.closing = g[p].closing
        /\ u.watcher = "waiting" /\ u.signalled = g[p].signalled
    <3> DEFINE w == "waiting"
    <3>1. w \in Watchers /\ pod' = WithAll(g, p, x, open, closer, w)
      BY <2>3 DEF Watchers
    <3> HIDE DEF w
    <3>2. /\ pod' \in [Pods -> Processes] /\ \A q \in Pods \ {p} : pod'[q] = g[q]
          /\ u.main = g[p].main /\ u.setting = g[p].setting /\ u.parts = x
          /\ u.open = open /\ u.closer = closer /\ u.closing = g[p].closing
          /\ u.watcher = w /\ u.signalled = g[p].signalled
      BY <2>1, <2>5, <2>6, <3>1, OpenedAll
    <3> QED
      BY <3>2 DEF w
  <2> HIDE DEF u, t
  <2>9. t.closing = "no" /\ t.main \in AfterLimiter
    BY <1>1 DEF Closed, Processes, AfterLimiter
  <2>10. Assembled(u)
    BY <1>1, <1>2, <1>4, <2>1, <2>4, <2>5, <2>7, <2>8 DEF Assembled, AfterService,
       AfterStore, AfterRelations, AfterLimiter, AfterAuth
  <2>11. Closed(u)
    BY <1>1, <2>1, <2>7, <2>8, <2>9 DEF Closed
  <2>12. Accepted(c)
    BY <1>1, <1>4 DEF Accepted, Assembled, AfterStore, AfterRelations, AfterLimiter, AfterAuth
  <2>13. served' \subseteq Settings /\ \A d \in served' : Accepted(d)
    BY <1>2, <2>2, <2>12 DEF ProcessInv
  <2> QED
    BY <2>1, <2>8, <2>10, <2>11, <2>13, OneProcess DEF u
<1> QED
  BY <1>3, <1>4 DEF InitRecorder

LEMMA StartKeeps ==
    ASSUME ProcessInv, NEW p \in Pods, NEW c \in Settings, StartProcess(p, c)
    PROVE  ProcessInv'
<1> DEFINE u == pod'[p]
           off == Off
<1>1. /\ off \in Processes /\ off.parts.reads = "none"
      /\ off.open = {} /\ off.closer = {} /\ off.closing = "no" /\ off.watcher = "none"
      /\ off.signalled = FALSE
  BY DEF Off, Processes, Watchers, Parts, NewService, DefaultCodeLen
<1>2. pod' = [pod EXCEPT ![p] = [off EXCEPT !.main = "service", !.setting = c]] /\ UNCHANGED served
  BY DEF StartProcess
<1> HIDE DEF off
<1>3. LET t == [off EXCEPT !.main = "service", !.setting = c] IN
      /\ t \in Processes /\ t.main = "service" /\ t.setting = c /\ t.parts.reads = "none"
      /\ t.open = {} /\ t.closer = {} /\ t.closing = "no" /\ t.watcher = "none"
  BY <1>1 DEF Processes
<1>4. /\ pod' \in [Pods -> Processes] /\ \A q \in Pods \ {p} : pod'[q] = pod[q]
      /\ u.main = "service" /\ u.setting = c /\ u.parts.reads = "none"
      /\ u.open = {} /\ u.closer = {} /\ u.closing = "no" /\ u.watcher = "none"
  BY <1>2, <1>3 DEF ProcessInv
<1> HIDE DEF u
<1>5. Assembled(u) /\ Closed(u)
  BY <1>4 DEF Assembled, Closed, AfterService, AfterStore, AfterRelations, AfterLimiter, AfterAuth
<1> QED
  BY <1>2, <1>4, <1>5, OneProcess DEF u, ProcessInv

\* A process that is gone.
LEMMA OffKeeps ==
    ASSUME ProcessInv, NEW p \in Pods, pod' = [pod EXCEPT ![p] = Off], UNCHANGED served
    PROVE  ProcessInv'
<1> DEFINE off == Off
<1>1. /\ off \in Processes /\ off.main = "off"
      /\ off.open = {} /\ off.closer = {} /\ off.closing = "no" /\ off.watcher = "none"
  BY DEF Off, Processes, Watchers, Parts, NewService, DefaultCodeLen
<1> HIDE DEF off
<1>2. Assembled(off) /\ Closed(off)
  BY <1>1 DEF Assembled, Closed, AfterService, AfterStore, AfterRelations, AfterLimiter, AfterAuth
<1>3. pod' \in [Pods -> Processes] /\ pod'[p] = off /\ \A q \in Pods \ {p} : pod'[q] = pod[q]
  BY <1>1 DEF ProcessInv, off
<1> QED
  BY <1>2, <1>3, OneProcess DEF ProcessInv

\* What closing does to a process: nothing is opened.
LEMMA ClosingKeeps ==
    ASSUME ProcessInv, NEW p \in Pods, UNCHANGED served,
           pod' \in [Pods -> Processes], \A q \in Pods \ {p} : pod'[q] = pod[q],
           pod'[p].main = pod[p].main \/ pod'[p].main = "closing",
           pod'[p].setting = pod[p].setting, pod'[p].parts = pod[p].parts,
           pod[p].main # "off", pod'[p].open \subseteq pod[p].open,
           pod'[p].closing = "no" => pod'[p].open = pod[p].open /\ pod[p].closing = "no",
           Closed(pod'[p])
    PROVE  ProcessInv'
<1> DEFINE t == pod[p]
           u == pod'[p]
<1>1. Assembled(t)
  BY DEF ProcessInv
<1> HIDE DEF u, t
<1>2. Assembled(u)
  BY <1>1 DEF Assembled, AfterService, AfterStore, AfterRelations, AfterLimiter, AfterAuth, t, u
<1> QED
  BY <1>2, OneProcess DEF u, ProcessInv

LEMMA SignalKeeps ==
    ASSUME ProcessInv, NEW p \in Pods, Signal(p) \/ RunReturns(p) \/ Watch(p)
    PROVE  ProcessInv'
<1> DEFINE t == pod[p]
           u == pod'[p]
<1>1. pod \in [Pods -> Processes] /\ t \in Processes /\ Closed(t) /\ UNCHANGED served
  BY DEF ProcessInv, Signal, RunReturns, Watch
<1>2. /\ pod' \in [Pods -> Processes] /\ \A q \in Pods \ {p} : pod'[q] = pod[q]
      /\ u.setting = t.setting /\ u.parts = t.parts /\ u.open = t.open
      /\ u.closer = t.closer /\ u.closing = t.closing
  <2>1. CASE Signal(p)
    BY <1>1, <2>1 DEF Signal, Processes
  <2>2. CASE RunReturns(p)
    BY <1>1, <2>2, Goes DEF RunReturns
  <2>3. CASE Watch(p)
    BY <1>1, <2>3 DEF Watch, Processes, Watchers
  <2> QED
    BY <2>1, <2>2, <2>3
<1>3. /\ t.main # "off"
      /\ \/ u.main = t.main /\ u.watcher = t.watcher /\ u.signalled
         \/ u.main = "closing" /\ u.watcher = t.watcher /\ u.signalled = t.signalled
         \/ /\ u.main = t.main /\ u.watcher = "closing" /\ t.watcher = "waiting"
            /\ u.signalled /\ t.signalled
  BY <1>1 DEF Signal, RunReturns, Watch, Goto, Processes, Closed
<1>4. Closed(u)
  <2> HIDE DEF u, t
  <2> QED
    BY <1>1, <1>2, <1>3 DEF Closed
<1> QED
  BY <1>1, <1>2, <1>3, <1>4, ClosingKeeps

LEMMA CloseStepKeeps ==
    ASSUME ProcessInv, NEW p \in Pods, CloseRelations(p) \/ CloseRecorder(p)
    PROVE  ProcessInv'
<1> DEFINE t == pod[p]
           u == pod'[p]
<1>1. pod \in [Pods -> Processes] /\ t \in Processes /\ Closed(t) /\ UNCHANGED served
  BY DEF ProcessInv, CloseRelations, CloseRecorder
<1>2. t.main # "off" /\ (t.main = "closing" \/ t.watcher = "closing")
  BY <1>1 DEF Closed, CloseRelations, CloseRecorder, Closing
<1>3. ASSUME NEW open \in SUBSET Things, open \subseteq t.open,
             NEW step \in {"database", "recorder", "done"},
             pod' = [pod EXCEPT ![p].closing = step, ![p].open = open],
             "database" \in open => step = "database",
             "workers" \notin open
      PROVE  ProcessInv'
  <2>1. /\ pod' \in [Pods -> Processes] /\ \A q \in Pods \ {p} : pod'[q] = pod[q]
        /\ u.main = t.main /\ u.setting = t.setting /\ u.parts = t.parts
        /\ u.open = open /\ u.closer = t.closer /\ u.closing = step
        /\ u.watcher = t.watcher /\ u.signalled = t.signalled
    BY <1>1, <1>3 DEF Processes
  <2>2. Closed(u)
    <3> HIDE DEF u, t
    <3> QED
      BY <1>1, <1>2, <1>3, <2>1 DEF Closed
  <2> QED
    BY <1>1, <1>2, <1>3, <2>1, <2>2, ClosingKeeps
<1>4. t.open \in SUBSET Things /\ t.open \subseteq t.closer
  BY <1>1 DEF Processes, Closed
<1>5. CASE /\ t.closing = "no"
           /\ pod' = [pod EXCEPT ![p].closing = "database",
                                 ![p].open = @ \ ({"workers"} \cap pod[p].closer)]
  <2> DEFINE open == t.open \ ({"workers"} \cap t.closer)
  <2>1. /\ open \in SUBSET Things /\ open \subseteq t.open /\ "workers" \notin open
        /\ pod' = [pod EXCEPT ![p].closing = "database", ![p].open = open]
    BY <1>4, <1>5
  <2> HIDE DEF open
  <2> QED
    BY <1>3, <2>1
<1>6. CASE /\ t.closing = "database"
           /\ pod' = [pod EXCEPT ![p].closing = "recorder",
                                 ![p].open = @ \ ({"database"} \cap pod[p].closer)]
  <2> DEFINE open == t.open \ ({"database"} \cap t.closer)
  <2>1. "workers" \notin t.open
    BY <1>1, <1>6 DEF Closed
  <2>2. /\ open \in SUBSET Things /\ open \subseteq t.open
        /\ "workers" \notin open /\ "database" \notin open
        /\ pod' = [pod EXCEPT ![p].closing = "recorder", ![p].open = open]
    BY <1>4, <1>6, <2>1
  <2> HIDE DEF open
  <2> QED
    BY <1>3, <2>2
<1>7. CASE /\ t.closing = "recorder"
           /\ \/ pod' = [pod EXCEPT ![p].closing = "done",
                                    ![p].open = @ \ ({"recorder"} \cap pod[p].closer)]
              \/ pod' = [pod EXCEPT ![p].closing = "done"]
  <2>1. "workers" \notin t.open /\ "database" \notin t.open
    BY <1>1, <1>7 DEF Closed
  <2>2. CASE pod' = [pod EXCEPT ![p].closing = "done",
                                ![p].open = @ \ ({"recorder"} \cap pod[p].closer)]
    <3> DEFINE open == t.open \ ({"recorder"} \cap t.closer)
    <3>1. /\ open \in SUBSET Things /\ open \subseteq t.open
          /\ "workers" \notin open /\ "database" \notin open
          /\ pod' = [pod EXCEPT ![p].closing = "done", ![p].open = open]
      BY <1>4, <2>1, <2>2
    <3> HIDE DEF open
    <3> QED
      BY <1>3, <3>1
  <2>3. CASE pod' = [pod EXCEPT ![p].closing = "done"]
    <3>1. /\ pod' \in [Pods -> Processes] /\ \A q \in Pods \ {p} : pod'[q] = pod[q]
          /\ u.main = t.main /\ u.setting = t.setting /\ u.parts = t.parts
          /\ u.open = t.open /\ u.closer = t.closer /\ u.closing = "done"
          /\ u.watcher = t.watcher /\ u.signalled = t.signalled
      BY <1>1, <2>3 DEF Processes
    <3>2. Closed(u)
      <4> HIDE DEF u, t
      <4> QED
        BY <1>1, <1>2, <2>1, <3>1 DEF Closed
    <3> QED
      BY <1>1, <1>2, <3>1, <3>2, ClosingKeeps
  <2> QED
    BY <1>7, <2>2, <2>3
<1> QED
  BY <1>5, <1>6, <1>7 DEF CloseRelations, CloseRecorder

LEMMA ProcessStep ==
    ASSUME ProcessInv, [ProcessNext]_process_vars
    PROVE  ProcessInv'
<1>1. ASSUME NEW p \in Pods, InitFunc(p) PROVE ProcessInv'
  BY <1>1, InitServiceKeeps, InitStoreKeeps, InitRelationsKeeps, InitLimiterKeeps, InitAuthKeeps,
     InitRecorderKeeps DEF InitFunc
<1>2. ASSUME NEW p \in Pods, Close(p) \/ Signal(p) \/ RunReturns(p) \/ Die(p) PROVE ProcessInv'
  BY <1>2, SignalKeeps, CloseStepKeeps, OffKeeps DEF Close, Exit, Die
<1>3. CASE UNCHANGED process_vars
  BY <1>3 DEF process_vars, ProcessInv
<1> QED
  BY <1>1, <1>2, <1>3, StartKeeps DEF ProcessNext

-------------------------------------------------------------------------------
(* What runs, and how it ends                                              *)

LEMMA StepsAreProcessSteps ==
    ASSUME DeploymentInv, [Next]_rollout_vars
    PROVE  [ProcessNext]_process_vars
<1>1. ASSUME NEW p \in Pods, StartPod(p) PROVE ProcessNext
  BY <1>1, RolloutAssumption DEF StartPod, ProcessNext, DeploymentInv
<1>2. ASSUME NEW p \in Pods, PodRuns(p) PROVE ProcessNext
  BY <1>2 DEF PodRuns, ProcessNext
<1>3. ASSUME NEW r \in Releases, ScriptRuns(r) \/ Happens(r) PROVE UNCHANGED process_vars
  BY <1>3 DEF ScriptRuns, Happens
<1>4. ASSUME OthersEdit \/ UNCHANGED rollout_vars PROVE UNCHANGED process_vars
  BY <1>4 DEF OthersEdit, rollout_vars
<1> QED
  BY <1>1, <1>2, <1>3, <1>4 DEF Next

\* The inductive invariant of the processes: how far each is assembled and closed.
THEOREM ProcessInvariant == Spec => []ProcessInv
<1>1. Init => ProcessInv
  <2> SUFFICES ASSUME Init PROVE ProcessInv
    OBVIOUS
  <2> DEFINE off == Off
  <2>1. /\ off \in Processes /\ off.main = "off"
        /\ off.open = {} /\ off.closer = {} /\ off.closing = "no" /\ off.watcher = "none"
    BY DEF Off, Processes, Watchers, Parts, NewService, DefaultCodeLen
  <2>2. pod = [p \in Pods |-> off] /\ served = {}
    BY DEF Init, ProcessInit
  <2> HIDE DEF off
  <2>3. Assembled(off) /\ Closed(off)
    BY <2>1 DEF Assembled, Closed, AfterService, AfterStore, AfterRelations, AfterLimiter, AfterAuth
  <2> QED
    BY <2>1, <2>2, <2>3 DEF ProcessInv
<1>2. ProcessInv /\ DeploymentInv /\ [Next]_rollout_vars => ProcessInv'
  BY ProcessStep, StepsAreProcessSteps
<1> QED
  BY <1>1, <1>2, ReleaseImplemented, DeploymentInvariant, PTL DEF Spec

LEMMA ServesConfigured ==
    ASSUME ProcessInv, NEW p \in Pods, pod[p].main = "serving"
    PROVE  LET c == pod[p].setting
               x == pod[p].parts
           IN
           /\ x.codeLen \in MinCodeLen .. MaxCodeLen
           /\ c.codeLength \in MinCodeLen .. MaxCodeLen => x.codeLen = c.codeLength
           /\ x.reads # "none" => x.store = "s3" /\ x.queue > 0
           /\ x.reads = "postgres" => "database" \in pod[p].open \/ pod[p].signalled
           /\ (x.ttl > 0) = c.google /\ x.limited = c.limit
           /\ x.recorder = (c.clicks = "redis_stream") /\ x.buffer > 0
<1> DEFINE t == pod[p]
           c == t.setting
           x == t.parts
<1>1. Assembled(t) /\ Closed(t) /\ t.main = "serving" /\ t \in Processes
  BY DEF ProcessInv
<1>2. c \in ServiceConfig /\ x \in Parts
  BY <1>1, ProcessAssumption DEF Assembled, Processes
<1> HIDE DEF t
<1>3. c.codeLength \in Int /\ c.google \in BOOLEAN /\ x.recorder \in BOOLEAN
  BY <1>2 DEF ServiceConfig, Parts
<1>4. /\ x.codeLen = clampCodeLen(c.codeLength)
      /\ NoRelations(c) => x.reads = "none"
      /\ ~NoRelations(c) => /\ x.store = "s3" /\ x.queue > 0
                            /\ t.closing = "no" => "database" \in t.open
      /\ x.limited = c.limit /\ ((x.ttl > 0) <=> c.google)
      /\ ~RecorderRefused(c) /\ (x.recorder <=> ~NoClicks(c)) /\ x.buffer > 0
  BY <1>1 DEF Assembled, AfterService, AfterStore, AfterRelations, AfterLimiter, AfterAuth
<1>5. /\ x.codeLen \in MinCodeLen .. MaxCodeLen
      /\ c.codeLength \in MinCodeLen .. MaxCodeLen => x.codeLen = c.codeLength
  BY <1>3, <1>4, CodeLengths
<1>6. x.reads = "postgres" => "database" \in t.open \/ t.signalled
  BY <1>1, <1>4 DEF Closed
<1>7. x.recorder <=> c.clicks = "redis_stream"
  BY <1>4 DEF RecorderRefused, NoClicks
<1>8. (x.ttl > 0) = c.google /\ x.recorder = (c.clicks = "redis_stream")
  BY <1>3, <1>4, <1>7
<1> QED
  BY <1>4, <1>5, <1>6, <1>8 DEF t

\* What the JobsInv and the ReleaseInv say of types.
LEMMA ReleaseTyped ==
    ASSUME JobsInv, ReleaseInv, DeploymentInv
    PROVE  ReleaseTypeOK
<1>1. deployment \in Deployments
  BY DEF ReleaseInv, ScriptsTyped
<1>2. deployment.containers \in Seq([name : {Target, "sidecar"}, image : Versions])
  <2> DEFINE s == deployment.containers
             T == [name : {Target, "sidecar"}, image : Versions]
  <2>1. s \in Seq(Container) /\ \A i \in DOMAIN s : s[i].image \in Versions
    BY <1>1 DEF Deployments, ReleaseInv, SchemaSuffices, DeploymentInv
  <2> HIDE DEF s
  <2>2. ASSUME NEW i \in 1 .. Len(s) PROVE s[i] \in T
    <3> DEFINE c == s[i]
    <3>1. c \in Container /\ c.image \in Versions
      BY <2>1
    <3> HIDE DEF c
    <3>2. c \in [name : {Target, "sidecar"}, image : Versions]
      BY <3>1 DEF Container
    <3> QED
      BY <3>2 DEF c
  <2> HIDE DEF T
  <2>3. s \in Seq(T)
    BY <2>1, <2>2
  <2> QED
    BY <2>3 DEF s, T
<1>3. deployment.uid \in Nat
  BY <1>1 DEF Deployments
<1> QED
  BY <1>2, <1>3 DEF JobsInv, JobsTyped, Migrations, ReleaseInv, ScriptsTyped, DeploymentInv,
     ReleaseTypeOK

\* However the Deployment is edited and released and whatever processes die: every
\* process runs a version whose migrations are there, with the parts its configuration
\* names and usable values for what it leaves out, and a configuration that has served
\* is never refused (main.go:31-120, relations.go:27-92, config.go).
THEOREM ProcessesStayFit == Spec => []ProcessesFit
<1>1. Spec => [](starts \in Nat)
  <2>1. Init => starts \in Nat
    BY DEF Init
  <2>2. starts \in Nat /\ [Next]_rollout_vars => (starts \in Nat)'
    BY DEF Next, StartPod, PodRuns, ScriptRuns, Happens, OthersEdit, rollout_vars
  <2> QED
    BY <2>1, <2>2, PTL DEF Spec
<1>2. ProcessInv => ProcessTypeOK
  <2> SUFFICES ASSUME ProcessInv PROVE ProcessTypeOK
    OBVIOUS
  <2>1. ASSUME NEW p \in Pods PROVE pod[p] \in Processes
    BY DEF ProcessInv
  <2> QED
    BY <2>1 DEF ProcessInv, ProcessTypeOK, Processes, Watchers, Things, Parts
<1>3. DeploymentInv /\ ImagesReleased => image \in [Pods -> Versions]
  BY DEF DeploymentInv, ImagesReleased
<1>4. ProcessInv => StartsAreRepeatable
  <2> SUFFICES ASSUME ProcessInv, NEW p \in Pods, pod[p].main = "failing"
               PROVE  pod[p].setting \notin served
    BY DEF StartsAreRepeatable
  <2>1. ~Accepted(pod[p].setting)
    BY DEF ProcessInv, Assembled
  <2> QED
    BY <2>1 DEF ProcessInv
<1>5. ProcessInv => ServesWhatIsConfigured
  BY ServesConfigured DEF ServesWhatIsConfigured
<1>6. JobsInv /\ ReleaseInv /\ DeploymentInv /\ ImagesReleased /\ ProcessInv /\ ProcessesFindSchema
      /\ starts \in Nat => ProcessesFit
  BY <1>2, <1>3, <1>4, <1>5, ReleaseTyped DEF ProcessesFit, TypeOK
<1> QED
  BY <1>1, <1>6, ReleaseImplemented, JobsInvariant, ReleaseInvariant, DeploymentInvariant,
     ImagesWereReleased, ProcessInvariant, SchemaIsThere, PTL

\* main.go:94-137: whoever of main and the goroutine closes, and whenever the process
\* is told to end, what is open would be closed, the workers end before their database,
\* and the process ends only when all is closed but a recorder out of time.
THEOREM ShutdownStaysInOrder == Spec => ShutdownInOrder
<1>1. ProcessInv => CloserCoversOpen /\ WorkersHaveDatabase
  BY DEF ProcessInv, Closed, CloserCoversOpen, WorkersHaveDatabase
<1>2. ProcessInv => [\A p \in Pods : Exit(p) => pod[p].open \subseteq {"recorder"}]_process_vars
  <2> SUFFICES ASSUME ProcessInv, NEW p \in Pods, Exit(p) PROVE pod[p].open \subseteq {"recorder"}
    OBVIOUS
  <2>1. pod[p].closing = "done" /\ Closed(pod[p]) /\ pod[p] \in Processes
    BY DEF Exit, ProcessInv
  <2>2. pod[p].open \subseteq Things /\ "workers" \notin pod[p].open /\ "database" \notin pod[p].open
    BY <2>1 DEF Closed, Processes
  <2> QED
    BY <2>2 DEF Things
<1> QED
  BY <1>1, <1>2, ProcessInvariant, PTL DEF ShutdownInOrder, ExitsClosed
===============================================================================
