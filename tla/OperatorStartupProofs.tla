------------------------ MODULE OperatorStartupProofs ------------------------
(* Proofs about OperatorStartup, for every value of its constants.         *)
EXTENDS OperatorStartup, TLAPS

USE DEF Phases, Stages, podVars, deploymentVars, Versions

\* What a process does for itself keeps the invariant: it passes the lock only by
\* finding it its own, or by creating it when nobody, so nobody past it, has it.
LEMMA ProcessKeepsLock ==
  ASSUME LockInv, NEW p \in Pods, Process(p)
  PROVE  LockInv'
<1> USE StartupAssumption DEF LockInv, StartupTypeOK, Managing, Enter
<1>1. CASE ReadConfig(p)
  <2>1. stage[p] = "started" /\ stage' \in {[stage EXCEPT ![p] = "lookup"],
                                            [stage EXCEPT ![p] = "started"]}
        /\ UNCHANGED <<version, phase, lock, template, wanted, failures>>
    BY <1>1 DEF ReadConfig, StartAgain
  <2> QED
    BY <2>1
<1>2. CASE LookUpLock(p)
  BY <1>2 DEF LookUpLock
<1>3. CASE CreateLock(p)
  BY <1>3 DEF CreateLock
<1>4. CASE DeleteEvictedOwner(p)
  BY <1>4 DEF DeleteEvictedOwner, Pod
<1>5. CASE SetUp(p)
  BY <1>5 DEF SetUp
<1> QED
  BY <1>1, <1>2, <1>3, <1>4, <1>5 DEF Process

\* The cluster deletes the lock only of a pod that is gone, and with it its process.
LEMMA ClusterKeepsLock ==
  ASSUME LockInv, Deployment \/ CollectLock \/ Upgrade
  PROVE  LockInv'
<1> USE StartupAssumption DEF LockInv, StartupTypeOK, Managing, Enter
<1>1. CASE ScaleDown
  BY <1>1 DEF ScaleDown
<1>2. ASSUME NEW p \in Pods, CreatePod(p) PROVE LockInv'
  BY <1>2 DEF CreatePod
<1>3. ASSUME NEW p \in Pods, DeletePod(p) PROVE LockInv'
  BY <1>3 DEF DeletePod
<1>4. ASSUME NEW p \in Pods, EndPod(p) PROVE LockInv'
  BY <1>4 DEF EndPod
<1>5. CASE CollectLock
  BY <1>5 DEF CollectLock, Pod
<1>6. CASE Upgrade
  BY <1>6 DEF Upgrade
<1> QED
  BY <1>1, <1>2, <1>3, <1>4, <1>5, <1>6 DEF Deployment

\* A failure takes a process back, or ends it.
LEMMA FailureKeepsLock ==
  ASSUME LockInv, Failure
  PROVE  LockInv'
<1> USE StartupAssumption DEF LockInv, StartupTypeOK, Managing, Enter, Fail
<1>1. ASSUME NEW p \in Pods, Die(p) PROVE LockInv'
  BY <1>1 DEF Die, StartAgain
<1>2. ASSUME NEW p \in Pods, Evict(p) PROVE LockInv'
  BY <1>2 DEF Evict
<1>3. ASSUME NEW p \in Pods, Kill(p) PROVE LockInv'
  BY <1>3 DEF Kill
<1> QED
  BY <1>1, <1>2, <1>3 DEF Failure

\* A process past the lock owns it, whatever fails and whatever is rolled out
\* (main.go:48-52).
THEOREM LockInvariant == StartupSpec => []LockInv
<1>1. StartupInit => LockInv
  BY StartupAssumption DEF StartupInit, LockInv, StartupTypeOK, Managing
<1>2. LockInv /\ [StartupNext]_startupVars => LockInv'
  <2> SUFFICES ASSUME LockInv, [StartupNext]_startupVars PROVE LockInv'
    OBVIOUS
  <2>1. CASE UNCHANGED startupVars
    BY <2>1 DEF startupVars, LockInv, StartupTypeOK, Managing
  <2>2. CASE StartupNext
    BY <2>2, ProcessKeepsLock, ClusterKeepsLock, FailureKeepsLock DEF StartupNext
  <2> QED
    BY <2>1, <2>2
<1> QED
  BY <1>1, <1>2, PTL DEF StartupSpec

\* At most one process is past the lock, however many pods and versions there are
\* and however often they fail (main.go:48-52).
THEOREM OneManagerAtATime == StartupSpec => []OneManager
<1>1. LockInv => OneManager
  BY DEF LockInv, OneManager
<1> QED
  BY <1>1, LockInvariant, PTL

\* Only a process that finds the lock to be another's goes on to wait, and a lock that
\* somebody owns does not become that of a process that waits.
LEMMA WaitsForAnother ==
  ASSUME StartupTypeOK, NobodyWaitsForItself, StartupNext
  PROVE  NobodyWaitsForItself'
<1> USE DEF NobodyWaitsForItself, StartupTypeOK, Enter
<1>1. ASSUME NEW p \in Pods, Process(p) PROVE NobodyWaitsForItself'
  <2>1. CASE ReadConfig(p)
    <3>1. stage' \in {[stage EXCEPT ![p] = "lookup"], [stage EXCEPT ![p] = "started"]}
          /\ lock' = lock
      BY <2>1 DEF ReadConfig, StartAgain
    <3> QED
      BY <3>1
  <2>2. CASE LookUpLock(p)
    BY <2>2 DEF LookUpLock
  <2>3. CASE CreateLock(p)
    BY <2>3 DEF CreateLock
  <2>4. CASE DeleteEvictedOwner(p)
    BY <2>4 DEF DeleteEvictedOwner
  <2>5. CASE SetUp(p)
    BY <2>5 DEF SetUp
  <2> QED
    BY <1>1, <2>1, <2>2, <2>3, <2>4, <2>5 DEF Process
<1>2. CASE Deployment
  BY <1>2 DEF Deployment, ScaleDown, CreatePod, DeletePod, EndPod
<1>3. CASE CollectLock \/ Upgrade
  BY <1>3, StartupAssumption DEF CollectLock, Upgrade
<1>4. CASE Failure
  BY <1>4 DEF Failure, Die, StartAgain, Evict, Kill
<1> QED
  BY <1>1, <1>2, <1>3, <1>4 DEF StartupNext

\* A process never waits for its own pod's lock, so that a restart in the same pod
\* does not stop the operator for good (main.go:48-52).
THEOREM RestartGetsLockBack == StartupSpec => []NobodyWaitsForItself
<1>1. StartupInit => NobodyWaitsForItself
  BY DEF StartupInit, NobodyWaitsForItself
<1>2. StartupTypeOK /\ NobodyWaitsForItself /\ [StartupNext]_startupVars => NobodyWaitsForItself'
  <2>1. UNCHANGED startupVars /\ NobodyWaitsForItself => NobodyWaitsForItself'
    BY DEF startupVars, NobodyWaitsForItself
  <2> QED
    BY <2>1, WaitsForAnother
<1>3. LockInv => StartupTypeOK
  BY DEF LockInv
<1> QED
  BY <1>1, <1>2, <1>3, LockInvariant, PTL DEF StartupSpec
=============================================================================
