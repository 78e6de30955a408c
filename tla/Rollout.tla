-------------------------------- MODULE Rollout --------------------------------
(***************************************************************************)
(* A Deployment in operation: Kubernetes runs processes (Process) with the *)
(* configuration and the version that the template of the Deployment names *)
(* at the time, replaces those of another template, and starts those again *)
(* that ended; scripts release new versions (Release).                     *)
(***************************************************************************)
EXTENDS Release, Process

CONSTANTS Plans   \* what takes part, and the bounds

ASSUME RolloutAssumption ==
    /\ Settings = Configs
    /\ \A x \in Plans : /\ x.pods \subseteq Pods /\ x.configs \subseteq Configs
                        /\ x.releases \subseteq Releases
                        /\ x.edits \in Nat /\ x.starts \in Nat /\ x.signals \in BOOLEAN

VARIABLES plan,
          image,    \* image[p]: the version that process p runs
          starts    \* how often processes were started

rollout_vars == <<release_vars, process_vars, plan, image, starts>>

Init ==
    /\ plan \in Plans
    /\ ReleaseInit /\ deployment.config \in plan.configs
    /\ ProcessInit
    /\ image = [p \in Pods |-> 0] /\ starts = 0

\* Bound: the starts of the plan.
StartPod(p) ==
    /\ p \in plan.pods /\ starts < plan.starts
    /\ StartProcess(p, deployment.config)
    /\ image' = [image EXCEPT ![p] = Image(deployment)]
    /\ starts' = starts + 1
    /\ UNCHANGED <<release_vars, plan>>

\* Bound: signals where the plan has them.
PodRuns(p) ==
    /\ InitFunc(p) \/ (plan.signals /\ Signal(p)) \/ RunReturns(p) \/ Close(p) \/ Die(p)
    /\ UNCHANGED <<release_vars, plan, image, starts>>

\* The processes are those of the template, and serve.
RolledOut == \A p \in plan.pods : /\ pod[p].main = "serving"
                                  /\ pod[p].setting = deployment.config
                                  /\ image[p] = Image(deployment)

ScriptRuns(r) ==
    /\ r \in plan.releases
    /\ Proceed(r, RolledOut)
    /\ UNCHANGED <<process_vars, plan, image, starts>>

Happens(r) ==
    /\ r \in plan.releases
    /\ CallFails(r) \/ Migrate(r)
    /\ UNCHANGED <<process_vars, plan, image, starts>>

\* Bound: the edits and configurations of the plan.
OthersEdit ==
    /\ edits < plan.edits
    /\ Edit /\ deployment'.config \in plan.configs
    /\ UNCHANGED <<process_vars, plan, image, starts>>

Next == \/ \E p \in Pods : StartPod(p) \/ PodRuns(p)
        \/ \E r \in Releases : ScriptRuns(r) \/ Happens(r)
        \/ OthersEdit

Spec == Init /\ [][Next]_rollout_vars

\* The script's process goes on: each of its waits has a deadline.  Jobs, Kubernetes
\* and the database owe nothing.
FairSpec ==
    /\ Spec /\ ProcessFairness
    /\ \A r \in Releases : WF_rollout_vars(ScriptRuns(r))

-------------------------------------------------------------------------------
(* Properties                                                              *)

\* Type correctness.
TypeOK == /\ ReleaseTypeOK /\ ProcessTypeOK
          /\ image \in [Pods -> Versions] /\ starts \in Nat

\* Across releases, edits and restarts: no process runs a version whose migrations
\* are not in the database.
ProcessesFindSchema == \A p \in Pods : pod[p].main # "off" => image[p] <= schema

\* What runs is what the Deployment says, assembled as configured, on a schema that
\* has what it needs.
ProcessesFit ==
    TypeOK /\ ProcessesFindSchema /\ StartsAreRepeatable /\ ServesWhatIsConfigured

\* Every release ends, released or stopped, whatever Jobs and Kubernetes do.
ReleasesEnd ==
    \A r \in Releases : r \in plan.releases ~> script[r].step \in {"released", "stopped"}

\* Neither a release nor a process that is told to end goes on for ever.
EverythingEnds == ReleasesEnd /\ SignalEnds
===============================================================================
