--------------------------- MODULE OperatorStartup ---------------------------
(***************************************************************************)
(* The operator's processes from their start to a running manager            *)
(* (cmd/manager/main.go), in the pods of its Deployment (deploy/operator.yaml, *)
(* with the default rolling update: one pod more than wanted, none less). A *)
(* process reads the configuration, waits until its pod owns the leader lock, *)
(* sets up the controllers and reports itself ready.                        *)
(*                                                                         *)
(* External: leader.Become of operator-lib, the Deployment, the kubelet and *)
(* the garbage collector. A pod leaves the API server only after its process *)
(* has ended: pods deleted by force are not modelled.                        *)
(***************************************************************************)
EXTENDS Naturals, FiniteSets

CONSTANTS
  Pods,         \* pod names, each used once
  MaxVersion,   \* versions of the operator there are
  Configured,   \* sections of the configuration file
  Override,     \* X_EMBER_OPERATOR_CLUSTER, or NoSection
  Detected,     \* the section of the cluster's version
  Default,      \* the section "default"
  NoSection,
  NoPod,
  MaxFailures   \* bound on failures

ASSUME StartupAssumption ==
  /\ NoPod \notin Pods
  /\ NoSection \notin Configured
  /\ MaxVersion \in Nat \ {0} /\ MaxFailures \in Nat

Versions == 1..MaxVersion

VARIABLES
  version,   \* of each pod
  phase,     \* of each pod: not created, live, being deleted, failed, gone
  stage,     \* of its process
  lock,      \* the pod that owns the leader lock
  template,  \* the version the Deployment is to run
  wanted,    \* the versions whose ReplicaSet is to have a pod
  failures   \* failures so far

podVars == <<version, phase>>
deploymentVars == <<template, wanted>>
startupVars == <<podVars, stage, lock, deploymentVars, failures>>

Phases == {"new", "live", "deleting", "evicted", "gone"}

\* In the order a process goes through them; none: no process.
Stages == {"none", "started", "lookup", "waiting", "leading", "ready"}

StartupTypeOK ==
  /\ version \in [Pods -> Versions] /\ phase \in [Pods -> Phases]
  /\ stage \in [Pods -> Stages]
  /\ \A p \in Pods : (phase[p] \in {"live", "deleting"}) <=> stage[p] # "none"
  /\ lock \in Pods \cup {NoPod}
  /\ template \in Versions /\ wanted \subseteq Versions
  /\ failures \in 0..MaxFailures

StartupInit ==
  /\ version = [p \in Pods |-> 1] /\ phase = [p \in Pods |-> "new"]
  /\ stage = [p \in Pods |-> "none"]
  /\ lock = NoPod
  /\ template = 1 /\ wanted = {1}
  /\ failures = 0

Pod(name) == IF phase[name] \in {"new", "gone"} THEN "notFound" ELSE phase[name]

Enter(p, next) == stage' = [stage EXCEPT ![p] = next]
-----------------------------------------------------------------------------
(* The process of a pod.                                                   *)

\* glog.Fatal and crashes end the process; the kubelet starts it again in the same
\* pod.
StartAgain(p) ==
  /\ Enter(p, "started")
  /\ UNCHANGED <<podVars, lock, deploymentVars>>

\* The cluster is overridden or detected, "default" if that fails; so is a section
\* that is not there.
Section ==
  LET cluster == IF Override # NoSection THEN {Override} ELSE {Detected, Default}
  IN {IF c \in Configured THEN c ELSE Default : c \in cluster}

ReadConfig(p) ==
  /\ stage[p] = "started"
  /\ \E cluster \in Section :
       IF cluster \in Configured
       THEN /\ Enter(p, "lookup")
            /\ UNCHANGED <<podVars, lock, deploymentVars, failures>>
       ELSE StartAgain(p) /\ UNCHANGED failures

ForgetOwnLock(p) == \* broken: a lock is never taken for one's own
  /\ stage[p] = "lookup"
  /\ Enter(p, "waiting")
  /\ UNCHANGED <<podVars, lock, deploymentVars, failures>>

\* leader.Become: a lock owned by a pod of this name is taken for one's own.
LookUpLock(p) ==
  /\ stage[p] = "lookup"
  /\ Enter(p, IF lock = p THEN "leading" ELSE "waiting")
  /\ UNCHANGED <<podVars, lock, deploymentVars, failures>>

\* Else the lock is created, which fails as long as there is one. Then, if its owner
\* has been evicted, that pod is deleted, for the garbage collector to take the lock.
SeizeLock(p) == \* broken: takes the lock itself from a pod it sees fail or go
  /\ stage[p] = "waiting"
  /\ lock # NoPod => Pod(lock) # "live"
  /\ lock' = p /\ Enter(p, "leading")
  /\ UNCHANGED <<podVars, deploymentVars, failures>>

CreateLock(p) ==
  /\ stage[p] = "waiting"
  /\ lock = NoPod
  /\ lock' = p /\ Enter(p, "leading")
  /\ UNCHANGED <<podVars, deploymentVars, failures>>

DeleteEvictedOwner(p) ==
  /\ stage[p] = "waiting"
  /\ lock # NoPod /\ Pod(lock) = "evicted"
  /\ phase' = [phase EXCEPT ![lock] = "gone"]
  /\ UNCHANGED <<version, stage, lock, deploymentVars, failures>>

\* The controllers are set up, and the file the readiness probe looks for is created
\* before the manager starts.
SetUp(p) ==
  /\ stage[p] = "leading" /\ Enter(p, "ready")
  /\ UNCHANGED <<podVars, lock, deploymentVars, failures>>

Process(p) ==
  ReadConfig(p) \/ LookUpLock(p) \/ CreateLock(p) \/ DeleteEvictedOwner(p) \/ SetUp(p)
-----------------------------------------------------------------------------
(* The Deployment, the kubelet and the garbage collector.                  *)

\* A new version gets its pod before the old one loses its own (bound: one upgrade is
\* over before the next).
Upgrade ==
  /\ wanted = {template}
  /\ template + 1 \in Versions
  /\ template' = template + 1 /\ wanted' = wanted \cup {template + 1}
  /\ UNCHANGED <<podVars, stage, lock, failures>>

ScaleDown ==
  /\ wanted # {template}
  /\ \E p \in Pods : version[p] = template /\ phase[p] = "live" /\ stage[p] = "ready"
  /\ wanted' = {template}
  /\ UNCHANGED <<podVars, stage, lock, template, failures>>

CreatePod(p) ==
  /\ phase[p] = "new"
  /\ \E v \in wanted :
       /\ \A q \in Pods : phase[q] = "live" => version[q] # v
       /\ version' = [version EXCEPT ![p] = v]
  /\ phase' = [phase EXCEPT ![p] = "live"]
  /\ Enter(p, "started")
  /\ UNCHANGED <<lock, deploymentVars, failures>>

DeletePod(p) ==
  /\ phase[p] = "live" /\ version[p] \notin wanted
  /\ phase' = [phase EXCEPT ![p] = "deleting"]
  /\ UNCHANGED <<version, stage, lock, deploymentVars, failures>>

\* Its process, which has gone on until then, has ended.
EndPod(p) ==
  /\ phase[p] = "deleting"
  /\ phase' = [phase EXCEPT ![p] = "gone"] /\ Enter(p, "none")
  /\ UNCHANGED <<version, lock, deploymentVars, failures>>

CollectLock ==
  /\ lock # NoPod /\ Pod(lock) = "notFound"
  /\ lock' = NoPod
  /\ UNCHANGED <<podVars, stage, deploymentVars, failures>>
-----------------------------------------------------------------------------
(* Failures.                                                               *)

Fail == failures < MaxFailures /\ failures' = failures + 1

\* Any step that ends in glog.Fatal, the manager's included, and any crash.
Die(p) == phase[p] = "live" /\ stage[p] # "started" /\ Fail /\ StartAgain(p)

Evict(p) ==
  /\ phase[p] = "live" /\ Fail
  /\ phase' = [phase EXCEPT ![p] = "evicted"] /\ Enter(p, "none")
  /\ UNCHANGED <<version, lock, deploymentVars>>

\* Someone deletes the pod.
Kill(p) ==
  /\ phase[p] \in {"live", "evicted"} /\ Fail
  /\ phase' = [phase EXCEPT ![p] = IF @ = "live" THEN "deleting" ELSE "gone"]
  /\ UNCHANGED <<version, stage, lock, deploymentVars>>

Failure == \E p \in Pods : Die(p) \/ Evict(p) \/ Kill(p)

Deployment ==
  \/ ScaleDown
  \/ \E p \in Pods : CreatePod(p) \/ DeletePod(p) \/ EndPod(p)

StartupNext == (\E p \in Pods : Process(p)) \/ Deployment \/ CollectLock \/ Upgrade \/ Failure

StartupSpec == StartupInit /\ [][StartupNext]_startupVars

\* Each process goes on, and the cluster's controllers do; nobody need upgrade, and
\* nothing need fail.
StartupFairSpec ==
  /\ StartupSpec
  /\ \A p \in Pods : WF_startupVars(Process(p)) /\ WF_startupVars(EndPod(p))
  /\ WF_startupVars(Deployment) /\ WF_startupVars(CollectLock)
-----------------------------------------------------------------------------
(* Properties.                                                             *)

\* One manager at a time writes to the cluster: through restarts in the same pod,
\* evictions, deletions with an operator still running, and upgrades, there is at
\* most one process past the lock (cmd/manager/main.go:48-52).
Managing(p) == stage[p] \in {"leading", "ready"}

OneManager == \A p, q \in Pods : Managing(p) /\ Managing(q) => p = q

\* A process started again in its pod does not wait for the lock that it took itself
\* the time before: whoever waits, waits for another pod (main.go:48-52).
NobodyWaitsForItself == \A p \in Pods : stage[p] = "waiting" => lock # p

\* However it failed, in the end there is a manager again.
EventuallyManaged ==
  ({Override, Default} \cap Configured # {}) => <>[](\E p \in Pods : stage[p] = "ready")

\* An upgrade gets through: in the end it is the new version that runs.
UpgradeCompletes ==
  <>[](\A p \in Pods : phase[p] = "live" => version[p] = template)

\* The inductive invariant behind OneManager.
LockInv ==
  /\ StartupTypeOK
  /\ \A p \in Pods : Managing(p) => lock = p
=============================================================================
