-------------------------------- MODULE Release --------------------------------
(***************************************************************************)
(* Releasing a version (scripts/deploy-kubernetes.py): a script reads the  *)
(* Deployment, creates a Job that migrates the database with the image to  *)
(* be released, waits for it, and patches the Deployment if it is still    *)
(* what was read.  The Job runs cmd/urlo-migrate: versions are compared,   *)
(* then the migrations that are missing are applied under an advisory      *)
(* lock, each in a transaction of its own.                                 *)
(*                                                                         *)
(* Releases run at once, others edit the Deployment, replies of the API    *)
(* get lost, Jobs fail and are killed at any step; what the database has   *)
(* begun for a killed one it may still finish.  Images and migrations are  *)
(* numbered alike.  Kubernetes and PostgreSQL are external.                *)
(***************************************************************************)
EXTENDS Integers, Sequences, SequencesExt

CONSTANTS Releases,   \* runs of the script
          VersionOf,  \* the version that each releases
          NoRelease,
          Configs,    \* configurations that a template may name
          Target      \* the name of the container released

ASSUME ReleaseAssumption ==
    /\ NoRelease \notin Releases
    /\ VersionOf \in [Releases -> Nat \ {0}]

\* A Pod has no two containers of one name.
ASSUME ContainerAssumption == Target # "sidecar"

Versions == {VersionOf[r] : r \in Releases} \cup {0}

VARIABLES
    deployment,  \* [uid, containers, config]: identity and pod template
    past,        \* versions that it has had
    edits,
    script,      \* script[r]: the step of release r, what it read, where it stopped
    patched,     \* history: releases whose patch was applied
    job,         \* status of each Job
    migration,   \* migration[r]: the step of the migration, the version it applies next
    holder,      \* who holds the advisory lock
    schema,      \* goose_db_version
    applied      \* history: migrations applied

script_vars == <<script, patched>>
job_vars == <<job, migration, holder, schema, applied>>
release_vars == <<deployment, past, edits, script_vars, job_vars>>

Nothing == [uid |-> 0, containers |-> <<>>, config |-> 0]

ReleaseInit ==
    /\ \E c \in Configs :
         deployment = [uid |-> 1, config |-> c,
                       containers |-> <<[name |-> Target, image |-> 0],
                                        [name |-> "sidecar", image |-> 0]>>]
    /\ past = {0} /\ edits = 0
    /\ script = [r \in Releases |-> [step |-> "read", read |-> Nothing, stopped |-> "no"]]
    /\ patched = {}
    /\ job = [r \in Releases |-> "none"]
    /\ migration = [r \in Releases |-> [step |-> "none", next |-> 0]]
    /\ holder = NoRelease /\ schema = 0 /\ applied = <<>>

-------------------------------------------------------------------------------
(* The Deployment                                                          *)

Position(d) == CHOOSE i \in DOMAIN d.containers : d.containers[i].name = Target
HasTarget(d) == \E i \in DOMAIN d.containers : d.containers[i].name = Target
Image(d) == d.containers[Position(d)].image

\* What others do to it: another configuration or order of containers, an earlier
\* image again, a new Deployment.
Edit ==
    /\ edits' = edits + 1
    /\ \/ \E c \in Configs \ {deployment.config} : deployment' = [deployment EXCEPT !.config = c]
       \/ deployment' = [deployment EXCEPT !.containers = Reverse(@)]
       \/ \E v \in past \ {Image(deployment)} :
             deployment' = [deployment EXCEPT !.containers[Position(deployment)].image = v]
       \/ deployment' = [deployment EXCEPT !.uid = @ + 1]
    /\ UNCHANGED <<past, script_vars, job_vars>>

-------------------------------------------------------------------------------
(* The script                                                              *)

Stop(r) == script' = [script EXCEPT ![r].stopped = script[r].step, ![r].step = "stopped"]
Continue(r, step) == script' = [script EXCEPT ![r].step = step]

\* Any call of kubectl may fail without effect.
CallFails(r) ==
    /\ script[r].step \in {"read", "create", "wait", "patch", "rollout"}
    /\ Stop(r)
    /\ UNCHANGED <<deployment, past, edits, patched, job_vars>>

Read(r) ==
    /\ script[r].step = "read" /\ HasTarget(deployment)
    /\ script' = [script EXCEPT ![r].step = "create", ![r].read = deployment]
    /\ UNCHANGED <<deployment, past, edits, patched, job_vars>>

\* Job names are unique.  A reply that is lost stops the script.
CreateJob(r) ==
    /\ script[r].step = "create"
    /\ job' = [job EXCEPT ![r] = "pending"]
    /\ Continue(r, "wait") \/ Stop(r)
    /\ UNCHANGED <<deployment, past, edits, patched, migration, holder, schema, applied>>

\* Mutant of Wait: a Job that takes too long is taken for complete.
WaitNoLonger(r) ==
    /\ script[r].step = "wait"
    /\ \/ job[r] = "Failed" /\ Stop(r)
       \/ job[r] # "Failed" /\ Continue(r, "patch")
    /\ UNCHANGED <<deployment, past, edits, patched, job_vars>>

\* Mutant of Wait: there is no deadline.
WaitForever(r) ==
    /\ script[r].step = "wait"
    /\ \/ job[r] = "Complete" /\ Continue(r, "patch")
       \/ job[r] = "Failed" /\ Stop(r)
    /\ UNCHANGED <<deployment, past, edits, patched, job_vars>>

\* The Job failed, is complete, or the deadline has passed.
Wait(r) ==
    /\ script[r].step = "wait"
    /\ \/ job[r] = "Complete" /\ Continue(r, "patch")
       \/ job[r] # "Complete" /\ Stop(r)
    /\ UNCHANGED <<deployment, past, edits, patched, job_vars>>

\* Mutant of Unchanged: the template is not compared.
UnchangedIdentity(d) == deployment.uid = d.uid

\* The tests of the patch.
Unchanged(d) == /\ deployment.uid = d.uid
                /\ deployment.containers = d.containers /\ deployment.config = d.config

\* The image is replaced at the position read, unless a test fails.  The reply may be
\* lost.
Patch(r) ==
    LET read == script[r].read
        v == VersionOf[r]
    IN
    /\ script[r].step = "patch"
    /\ \/ /\ Unchanged(read)
          /\ deployment' = [deployment EXCEPT !.containers[Position(read)].image = v]
          /\ past' = past \cup {v}
          /\ patched' = patched \cup {r}
          /\ Continue(r, "rollout") \/ Stop(r)
       \/ /\ ~Unchanged(read)
          /\ Stop(r)
          /\ UNCHANGED <<deployment, past, patched>>
    /\ UNCHANGED <<edits, job_vars>>

\* kubectl rollout status: done is what it waits for; it gives up after a while.
Rollout(r, done) ==
    /\ script[r].step = "rollout"
    /\ \/ done /\ Continue(r, "released")
       \/ ~done /\ Stop(r)
    /\ UNCHANGED <<deployment, past, edits, patched, job_vars>>

Proceed(r, done) == \/ Read(r) \/ CreateJob(r) \/ Wait(r) \/ Patch(r) \/ Rollout(r, done)

-------------------------------------------------------------------------------
(* The migration                                                           *)

Migrating(r, step) == /\ migration[r].step = step
                      /\ UNCHANGED <<deployment, past, edits, script_vars>>
ToStep(r, step) == migration' = [migration EXCEPT ![r].step = step]

StartJob(r) ==
    /\ Migrating(r, "none") /\ job[r] = "pending"
    /\ job' = [job EXCEPT ![r] = "running"]
    /\ ToStep(r, "versions")
    /\ UNCHANGED <<holder, schema, applied>>

\* A database newer than the image is refused; no lock is held yet.
GetVersions(r) ==
    /\ Migrating(r, "versions") /\ schema <= VersionOf[r]
    /\ ToStep(r, "lock")
    /\ UNCHANGED <<job, holder, schema, applied>>

\* Mutant of Lock: no lock is taken.
LockNot(r) ==
    /\ Migrating(r, "lock")
    /\ migration' = [migration EXCEPT ![r].step = "up", ![r].next = schema + 1]
    /\ UNCHANGED <<job, holder, schema, applied>>

\* The lock; what is missing is found out under it.
Lock(r) ==
    /\ Migrating(r, "lock") /\ holder = NoRelease
    /\ holder' = r
    /\ migration' = [migration EXCEPT ![r].step = "up", ![r].next = schema + 1]
    /\ UNCHANGED <<job, schema, applied>>

\* One transaction.
Apply(r) ==
    /\ Migrating(r, "up") /\ migration[r].next <= VersionOf[r]
    /\ applied' = Append(applied, migration[r].next)
    /\ schema' = migration[r].next
    /\ migration' = [migration EXCEPT ![r].next = @ + 1]
    /\ UNCHANGED <<job, holder>>

Unlock(r) ==
    /\ Migrating(r, "up") /\ migration[r].next > VersionOf[r]
    /\ holder' = NoRelease
    /\ ToStep(r, "check")
    /\ UNCHANGED <<job, schema, applied>>

\* The version must be the image's; others may have gone on.
Check(r) ==
    /\ Migrating(r, "check") /\ schema = VersionOf[r]
    /\ ToStep(r, "ended")
    /\ job' = [job EXCEPT ![r] = "Complete"]
    /\ UNCHANGED <<holder, schema, applied>>

\* An error, a timeout, a signal or the deadline of the Job, at any step.  The
\* session ends with the process, and with it the lock and the transaction, but
\* the server may notice late.
FailJob(r) ==
    /\ job[r] \in {"pending", "running"}
    /\ job' = [job EXCEPT ![r] = "Failed"]
    /\ \/ holder # r /\ ToStep(r, "ended") /\ UNCHANGED holder
       \/ holder = r /\ ToStep(r, "ended") /\ holder' = NoRelease
       \/ holder = r /\ ToStep(r, "orphan") /\ UNCHANGED holder
    /\ UNCHANGED <<deployment, past, edits, script_vars, schema, applied>>

\* The transaction was being committed when the process was killed.
OrphanCommits(r) ==
    /\ Migrating(r, "orphan") /\ migration[r].next <= VersionOf[r]
    /\ applied' = Append(applied, migration[r].next)
    /\ schema' = migration[r].next
    /\ ToStep(r, "ended") /\ holder' = NoRelease
    /\ UNCHANGED job

OrphanEnds(r) ==
    /\ Migrating(r, "orphan")
    /\ ToStep(r, "ended") /\ holder' = NoRelease
    /\ UNCHANGED <<job, schema, applied>>

Migrate(r) == \/ StartJob(r) \/ GetVersions(r) \/ Lock(r) \/ Apply(r) \/ Unlock(r)
              \/ Check(r) \/ FailJob(r) \/ OrphanCommits(r) \/ OrphanEnds(r)

ReleaseNext ==
    \/ Edit
    \/ \E r \in Releases, done \in BOOLEAN : CallFails(r) \/ Proceed(r, done) \/ Migrate(r)

ReleaseSpec == ReleaseInit /\ [][ReleaseNext]_release_vars

-------------------------------------------------------------------------------
(* Properties                                                              *)

\* Type correctness.
ReleaseTypeOK ==
    /\ deployment.uid \in Nat /\ deployment.config \in Configs
    /\ deployment.containers \in Seq([name : {Target, "sidecar"}, image : Versions])
    /\ past \subseteq Versions /\ edits \in Nat
    /\ \A r \in Releases :
         script[r].step \in {"read", "create", "wait", "patch", "rollout", "released", "stopped"}
    /\ patched \subseteq Releases
    /\ job \in [Releases -> {"none", "pending", "running", "Complete", "Failed"}]
    /\ migration \in [Releases -> [step : {"none", "versions", "lock", "up", "check", "ended",
                                           "orphan"}, next : Nat]]
    /\ holder \in Releases \cup {NoRelease}
    /\ schema \in Nat /\ applied \in Seq(Nat)

\* docs/deployment.md, "Duplicate concurrent Jobs serialize": however Jobs run at once
\* and die, every migration is applied once and in order, and the version says which.
MigrationsInOrder ==
    Len(applied) = schema /\ \A i \in 1 .. Len(applied) : applied[i] = i

\* migrate.go:61 and 75, deploy-kubernetes.py:90: no image is in the Deployment, also
\* after edits that bring an older one back, before its migrations are in the database.
SchemaBeforeImage ==
    \A i \in DOMAIN deployment.containers : deployment.containers[i].image <= schema

\* docs/deployment.md, step 3: a release that stopped before its patch, or whose Job
\* did not complete, never changes the Deployment.
StoppedReleasesChangeNothing ==
    \A r \in patched : /\ job[r] = "Complete"
                       /\ script[r].stopped \in {"no", "patch", "rollout"}

\* Whenever a release is stopped, the image stays behind the schema.
ReleasesAreSafe == SchemaBeforeImage /\ StoppedReleasesChangeNothing

\* docs/deployment.md, step 4: the Deployment that a patch leaves behind is the one
\* the release read, but for the image of the one container: nothing that others
\* changed since is overwritten, and no other container gets the image.
NothingIsOverwritten ==
    [][\A r \in Releases : r \in patched' \ patched =>
           LET read == script[r].read IN
           /\ deployment'.uid = read.uid /\ deployment'.config = read.config
           /\ Len(deployment'.containers) = Len(read.containers)
           /\ \A i \in DOMAIN read.containers :
                /\ deployment'.containers[i].name = read.containers[i].name
                /\ deployment'.containers[i].image =
                       IF read.containers[i].name = Target THEN VersionOf[r]
                       ELSE read.containers[i].image]_release_vars
===============================================================================
