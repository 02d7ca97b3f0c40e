-------------------------- MODULE ReconcilerProofs --------------------------
(* Proofs about Reconciler, for every value of its constants.              *)
EXTENDS Reconciler, CredentialVaultProofs

-----------------------------------------------------------------------------
(* Every step of Reconciler is a step of Credentials, or leaves its state.  *)

LEMMA ReturnImplements ==
  ASSUME NEW error \in BOOLEAN, Return(error), UNCHANGED upsets \/ (error /\ Disturb)
  PROVE  DeployStep
BY DEF Return, DeployStep

LEMMA CreateImplements ==
  ASSUME NEW n, NEW ACTION next, Create(n, next),
         next => \/ UNCHANGED <<crVars, secretVars, queue, pc, inst, edits>>
                 \/ Return(FALSE)
  PROVE  DeployStep \/ UNCHANGED credVars
BY ReturnImplements DEF Create, Quietly, credVars

LEMMA EnsureImplements ==
  ASSUME NEW n, NEW ACTION next, Ensure(n, next),
         next => \/ UNCHANGED <<crVars, secretVars, queue, pc, inst, edits>>
                 \/ Return(FALSE)
  PROVE  DeployStep \/ UNCHANGED credVars
BY ReturnImplements, CreateImplements DEF Ensure, Quietly, credVars

LEMMA DeploymentImplements ==
  ASSUME Deployment PROVE DeployStep \/ UNCHANGED credVars
<1>1. CASE EnsureStatefulSet
  BY <1>1, EnsureImplements DEF EnsureStatefulSet, Proceed
<1>2. CASE FindDaemonSet
  BY <1>2, ReturnImplements DEF FindDaemonSet, Quietly, credVars
<1>3. CASE CreateDaemonSet
  <2>1. PICK i \in missing :
          Create(DaemonSetName(i),
                 /\ missing' = missing \ {i}
                 /\ step' = IF missing' = {} THEN "storageClass" ELSE step
                 /\ UNCHANGED <<index, crVars, secretVars, queue, pc, inst, edits>>)
    BY <1>3 DEF CreateDaemonSet
  <2> QED
    BY <2>1, CreateImplements
<1>4. CASE EnsureStorageClass
  BY <1>4, EnsureImplements DEF EnsureStorageClass, Proceed
<1>5. CASE EnsureSnapshotClass
  BY <1>5, EnsureImplements DEF EnsureSnapshotClass, Proceed, Quietly, credVars
<1>6. CASE DropSnapshotClass
  BY <1>6, ReturnImplements DEF DropSnapshotClass, Proceed, Quietly, credVars
<1>7. CASE EnsureCsiDriver
  BY <1>7, EnsureImplements, ReturnImplements DEF EnsureCsiDriver, Quietly
<1> QED
  BY <1>1, <1>2, <1>3, <1>4, <1>5, <1>6, <1>7 DEF Deployment

LEMMA NextImplements == [Next]_vars => [CredNext]_credVars
<1> SUFFICES ASSUME [Next]_vars PROVE CredNext \/ UNCHANGED credVars
  OBVIOUS
<1>1. CASE Elsewhere
  BY <1>1 DEF Elsewhere, Front, CredNext, FrontStep, Around
<1>2. CASE Deployment
  BY <1>2, DeploymentImplements DEF CredNext
<1>3. CASE ObjectEvent
  <2>1. PICK n \in Names : RemoveObject(n) \/ Collect(n) \/ SyncObject(n)
    BY <1>3 DEF ObjectEvent
  <2>2. CASE RemoveObject(n)
    BY <2>2 DEF RemoveObject, LoseObject, CredNext, WorkloadEvent, credVars
  <2>3. CASE Collect(n)
    BY <2>3 DEF Collect, LoseObject, credVars
  <2>4. CASE SyncObject(n)
    BY <2>4 DEF SyncObject, CredNext, WorkloadEvent
  <2> QED
    BY <2>1, <2>2, <2>3, <2>4
<1>4. CASE Restart
  BY <1>4 DEF Restart, CredNext, Around, FrontStep
<1>5. CASE UNCHANGED vars
  BY <1>5 DEF vars
<1> QED
  BY <1>1, <1>2, <1>3, <1>4, <1>5 DEF Next

\* The whole reconciler, its deployment loops, its garbage collected workloads and
\* their events included, implements Credentials.
THEOREM Implements == Spec => CredSpec
<1>1. Init => CredInit
  BY DEF Init
<1> QED
  BY <1>1, NextImplements, PTL DEF Spec, CredSpec

\* So what is proved of the credentials holds of the whole reconciler.
THEOREM ReconcilerRedactionIsSafe == Spec => []RedactedIsSaved
BY Implements, RedactionIsSafe, PTL

\* With the workloads in place of the one step that stands for them, and what others
\* do to those, the operator is still a vault of credentials.
THEOREM ReconcilerIsVault == Spec => KeepsVault
BY Implements, ImplementsVault, PTL

\* Nor does a pass that also deploys lose the credentials of the first CR of a name.
THEOREM ReconcilerLosesNothing == Spec => []NothingLost
BY Implements, NothingIsLost, PTL

\* No step of the whole pass, a failing write of a workload or a restart in the midst
\* of the deployment included, undoes an edit of the CR.
THEOREM ReconcilerKeepsEdits == Spec => EditsSurvive
BY Implements, EditsAreKept, PTL
-----------------------------------------------------------------------------
(* What a step does to the objects.                                        *)

\* The object is there, or somebody will hear that it is not.
Known(n) == objects[n] # Absent \/ pending[n] > 0

\* A step that leaves the objects well-formed and forgets none.
KeepsObjects ==
  /\ objects' \in [Names -> Object \cup {Absent}]
  /\ pending' \in [Names -> 0..MaxPending]
  /\ \A n \in Names : Known(n) => Known(n)'

LEMMA UntouchedObjects ==
  ASSUME TypeOK, UNCHANGED objectVars PROVE KeepsObjects
BY DEF TypeOK, KeepsObjects, Known, objectVars

\* Whatever becomes of an object, its event is on the way (node.go, controller.go:
\* client.Create; the owner watches of embercsi_controller.go:52-61).
LEMMA SetObjectFacts ==
  ASSUME TypeOK, NEW n \in Names, NEW v \in Object \cup {Absent}, SetObject(n, v)
  PROVE  KeepsObjects /\ Known(n)'
<1>1. /\ objects' \in [Names -> Object \cup {Absent}]
      /\ \A m \in Names \ {n} : objects'[m] = objects[m]
  BY DEF TypeOK, SetObject
<1>2. /\ pending' \in [Names -> 0..MaxPending] /\ pending'[n] > 0
      /\ \A m \in Names \ {n} : pending'[m] = pending[m]
  BY ReconcilerAssumption DEF TypeOK, SetObject
<1> QED
  BY <1>1, <1>2 DEF KeepsObjects, Known

LEMMA NewObjectType ==
  ASSUME IInv, pc = "deploy" PROVE NewObject \in Object
<1>1. inst.uid \in Nat /\ inst.spec \in BackendSpec
  BY PassInstance DEF IInv, Instance
<1>2. Template(inst.spec) \in Templates
  BY <1>1 DEF Template, Templates, DriverKnown, BackendSpec
<1> QED
  BY <1>1, <1>2 DEF NewObject, Object

LEMMA CreateFacts ==
  ASSUME IInv, TypeOK, pc = "deploy", NEW n \in Names, NEW ACTION next, Create(n, next)
  PROVE  KeepsObjects /\ (Return(TRUE) \/ (next /\ Known(n)'))
BY NewObjectType, SetObjectFacts, UntouchedObjects DEF Create, Quietly

\* A read that finds an object the API server has lost proves that the event of
\* its removal is still to come.
LEMMA EnsureFacts ==
  ASSUME IInv, TypeOK, pc = "deploy", NEW n \in Names, NEW ACTION next, Ensure(n, next)
  PROVE  KeepsObjects /\ (Return(TRUE) \/ (next /\ Known(n)'))
<1>1. Read(n) = "found" => Known(n)
  BY DEF Read, Cached, Known, TypeOK
<1>2. CASE Read(n) = "notFound" /\ Create(n, next)
  BY <1>2, CreateFacts
<1>3. CASE Read(n) = "found" /\ next /\ Quietly
  BY <1>1, <1>3, UntouchedObjects DEF Quietly, KeepsObjects
<1>4. CASE Read(n) = "failed" /\ Return(TRUE) /\ Quietly
  BY <1>4, UntouchedObjects DEF Quietly
<1> QED
  BY <1>2, <1>3, <1>4 DEF Ensure

LEMMA WorkloadNames ==
  ASSUME NEW t \in 0..MaxTopologies
  PROVE  Workloads(t) \subseteq Names
BY BackendAssumption DEF Workloads, Names

LEMMA CrTopologies ==
  ASSUME CredTypeOK, cr # Absent
  PROVE  cr.spec.topologies \in 0..MaxTopologies
BY DEF CredTypeOK, Cr, BackendSpec

\* A pass that nothing will wake again works on the topologies the CR has.
LEMMA PassIsCurrent ==
  ASSUME IInv, DeployInv, pc # "idle", ~ queue, crFeed = <<>>, cr # Absent
  PROVE  inst.spec.topologies = cr.spec.topologies
BY DEF IInv, CredTypeOK, DeployInv, PassInv, FeedInv, SameVersion, SameEdit, Cr, BackendSpec

-----------------------------------------------------------------------------
(* Every step keeps DeployInv: the end of a pass, and steps that queue.    *)

LEMMA QueuedStep ==
  ASSUME IInv', TypeOK', queue',
         pc' = "deploy" /\ step' = "daemonSets" => index' <= inst'.spec.topologies
  PROVE  DeployInv'
BY DEF DeployInv, PassInv, WakeInv

LEMMA ReturnStep ==
  ASSUME IInv', KeepsObjects, Return(TRUE)
  PROVE  DeployInv'
<1>1. pc' = "idle" /\ queue' /\ step' = "statefulSet" /\ index' = 0 /\ missing' = {}
  BY DEF Return, Deploy, Finish
<1>2. TypeOK'
  BY <1>1, BackendAssumption DEF TypeOK, KeepsObjects, IInv, DeploySteps
<1> QED
  BY <1>1, <1>2, QueuedStep

-----------------------------------------------------------------------------
(* Every step keeps DeployInv: the second half of a pass.                  *)

\* A step within the pass, which takes care of the workloads it leaves behind.
LEMMA PassStep ==
  ASSUME IInv', DeployInv, KeepsObjects, pc = "deploy",
         UNCHANGED <<crVars, queue, pc, inst>>,
         step' \in DeploySteps \ {"statefulSet"},
         index' \in 0..MaxTopologies, missing' \subseteq 0..MaxTopologies,
         step' = "daemonSets" => index' <= inst.spec.topologies,
         cr # Absent /\ ~ queue /\ crFeed = <<>> =>
           \A n \in Workloads(cr.spec.topologies) : Ahead(n) => Known(n)' \/ Ahead(n)'
  PROVE  DeployInv'
<1>1. TypeOK'
  BY DEF TypeOK, KeepsObjects, IInv
<1>2. PassInv'
  BY DEF DeployInv, PassInv, crVars
<1>3. WakeInv'
  <2> SUFFICES ASSUME cr # Absent, ~ queue, crFeed = <<>>,
                      NEW n \in Workloads(cr.spec.topologies)
               PROVE  Known(n)' \/ Ahead(n)'
    BY DEF WakeInv, Known, crVars
  <2>1. n \in Names
    BY CrTopologies, WorkloadNames DEF DeployInv, TypeOK
  <2>2. Known(n) \/ Ahead(n)
    BY DEF DeployInv, WakeInv, Known
  <2> QED
    BY <2>1, <2>2 DEF KeepsObjects
<1> QED
  BY <1>1, <1>2, <1>3 DEF DeployInv, crVars

\* Past the DaemonSets no workload is ahead, so the pass may go on, or end.
LEMMA LateStep ==
  ASSUME IInv', DeployInv, KeepsObjects, pc = "deploy",
         step \in {"storageClass", "snapshotClass", "csiDriver"},
         \/ Return(TRUE) \/ Return(FALSE)
         \/ \E next \in {"snapshotClass", "csiDriver"} : Proceed(next)
  PROVE  DeployInv'
<1>1. \A n : ~ Ahead(n)
  BY DEF Ahead
<1>2. CASE Return(TRUE)
  BY <1>2, ReturnStep
<1>3. CASE Return(FALSE)
  <2>1. /\ pc' = "idle" /\ queue' = queue /\ step' = "statefulSet" /\ index' = 0
        /\ missing' = {} /\ cr' = cr /\ crFeed' = crFeed
    BY <1>3 DEF Return, Deploy, Finish, crVars, DeployInv, TypeOK, CredTypeOK
  <2>2. TypeOK'
    BY <2>1, BackendAssumption DEF TypeOK, KeepsObjects, IInv, DeploySteps
  <2>3. WakeInv'
    <3> SUFFICES ASSUME cr # Absent, ~ queue, crFeed = <<>>,
                        NEW n \in Workloads(cr.spec.topologies)
                 PROVE  Known(n)'
      BY <2>1 DEF WakeInv, Known
    <3> QED
      BY <1>1, CrTopologies, WorkloadNames
      DEF DeployInv, TypeOK, WakeInv, KeepsObjects, Known
  <2> QED
    BY <2>1, <2>2, <2>3 DEF DeployInv, PassInv
<1>4. CASE \E next \in {"snapshotClass", "csiDriver"} : Proceed(next)
  BY <1>1, <1>4, PassStep DEF Proceed, DeploySteps, DeployInv, TypeOK
<1> QED
  BY <1>2, <1>3, <1>4

LEMMA WorkloadKinds ==
  ASSUME NEW t \in 0..MaxTopologies, NEW n \in Workloads(t)
  PROVE  \/ n = StatefulSetName /\ Kind(n) = "StatefulSet"
         \/ \E i \in 0..t : n = DaemonSetName(i) /\ n[2] = i /\ Kind(n) = "DaemonSet"
BY DEF Workloads, StatefulSetName, DaemonSetName, Kind

LEMMA EnsureStatefulSetStep ==
  ASSUME IInv, IInv', DeployInv, EnsureStatefulSet PROVE DeployInv'
<1>1. pc = "deploy" /\ step = "statefulSet" /\ Ensure(StatefulSetName, Proceed("daemonSets"))
  BY DEF EnsureStatefulSet, At
<1>2. KeepsObjects /\ (Return(TRUE) \/ (Proceed("daemonSets") /\ Known(StatefulSetName)'))
  BY <1>1, EnsureFacts DEF DeployInv, Names
<1>3. CASE Return(TRUE)
  BY <1>2, <1>3, ReturnStep
<1>4. CASE Proceed("daemonSets") /\ Known(StatefulSetName)'
  <2>1. /\ step' = "daemonSets" /\ UNCHANGED <<index, missing, crVars, queue, pc, inst>>
    BY <1>4 DEF Proceed
  <2>2. inst.spec.topologies \in Nat
    BY <1>1, PassInstance, BackendAssumption DEF IInv, Instance, BackendSpec
  <2>3. index \in 0..MaxTopologies /\ missing \subseteq 0..MaxTopologies /\ index = 0
    BY <1>1 DEF DeployInv, TypeOK
  <2>4. \A n \in Workloads(cr.spec.topologies) :
          cr # Absent => Known(n)' \/ Ahead(n)'
    <3> SUFFICES ASSUME cr # Absent, NEW n \in Workloads(cr.spec.topologies)
                 PROVE  Known(n)' \/ Ahead(n)'
      OBVIOUS
    <3>1. cr.spec.topologies \in 0..MaxTopologies
      BY CrTopologies DEF DeployInv, TypeOK
    <3>2. CASE n = StatefulSetName
      BY <1>4, <3>2
    <3>3. CASE Kind(n) = "DaemonSet" /\ n[2] \in Nat
      BY <1>1, <2>1, <2>3, <3>3 DEF Ahead, Kind
    <3> QED
      BY <3>1, <3>2, <3>3, WorkloadKinds
  <2> QED
    BY <1>1, <1>2, <2>1, <2>2, <2>3, <2>4, PassStep DEF DeploySteps
<1> QED
  BY <1>2, <1>3, <1>4

LEMMA FindDaemonSetStep ==
  ASSUME IInv, IInv', DeployInv, FindDaemonSet PROVE DeployInv'
<1> DEFINE read == Read(DaemonSetName(index))
           found == IF read = "notFound" THEN missing \cup {index} ELSE missing
           last == index = inst.spec.topologies
<1>1. /\ pc = "deploy" /\ step = "daemonSets" /\ Quietly
      /\ TypeOK /\ index \in 0..MaxTopologies /\ missing \subseteq 0..MaxTopologies
      /\ index <= inst.spec.topologies
  BY DEF FindDaemonSet, At, DeployInv, TypeOK
<1>2. inst.spec.topologies \in 0..MaxTopologies
  BY <1>1, PassInstance DEF IInv, Instance, BackendSpec
<1>3. KeepsObjects
  BY <1>1, UntouchedObjects DEF Quietly
<1>4. CASE Return(TRUE)
  BY <1>3, <1>4, ReturnStep
<1>5. CASE /\ missing' = found
           /\ index' = IF last THEN 0 ELSE index + 1
           /\ step' = IF ~ last THEN step
                      ELSE IF found = {} THEN "storageClass" ELSE "createDaemonSets"
           /\ UNCHANGED <<crVars, secretVars, queue, pc, inst, edits>>
  <2>1. /\ step' \in DeploySteps \ {"statefulSet"} /\ index' \in 0..MaxTopologies
        /\ missing' \subseteq 0..MaxTopologies
        /\ step' = "daemonSets" => index' <= inst.spec.topologies
    BY <1>1, <1>2, <1>5, BackendAssumption DEF DeploySteps
  <2>2. ASSUME cr # Absent, ~ queue, crFeed = <<>>,
               NEW n \in Workloads(cr.spec.topologies), Ahead(n)
        PROVE  Known(n)' \/ Ahead(n)'
    <3>1. PICK i \in 0..inst.spec.topologies :
            n = DaemonSetName(i) /\ n[2] = i /\ Kind(n) = "DaemonSet"
      BY <1>1, <1>2, <2>2, PassIsCurrent, WorkloadKinds DEF Ahead
    <3>2. index <= i \/ i \in missing
      BY <1>1, <2>2, <3>1 DEF Ahead
    <3>3. CASE i \in found
      BY <1>1, <1>5, <3>1, <3>3 DEF Ahead
    <3>4. CASE i \notin found /\ index = i
      <4>1. read \in {"found", "failed"} /\ read # "failed"
        BY <3>1, <3>4, ReconcilerAssumption DEF Read
      <4>2. Cached(n) /\ n \in Names
        BY <1>1, <3>1, <3>4, <4>1 DEF Read, Names
      <4>3. Known(n)
        BY <1>1, <4>2 DEF Cached, Known, TypeOK
      <4> QED
        BY <1>1, <4>3 DEF Known, Quietly, objectVars
    <3>5. CASE i \notin found /\ index < i
      BY <1>1, <1>2, <1>5, <3>1, <3>5 DEF Ahead
    <3> QED
      BY <1>1, <1>2, <3>1, <3>2, <3>3, <3>4, <3>5
  <2> QED
    BY <1>1, <1>3, <1>5, <2>1, <2>2, PassStep
<1> QED
  BY <1>4, <1>5 DEF FindDaemonSet, LastIndex, MissingSoFar

LEMMA CreateDaemonSetStep ==
  ASSUME IInv, IInv', DeployInv, CreateDaemonSet PROVE DeployInv'
<1> DEFINE next(i) ==
      /\ missing' = missing \ {i}
      /\ step' = IF missing' = {} THEN "storageClass" ELSE step
      /\ UNCHANGED <<index, crVars, secretVars, queue, pc, inst, edits>>
<1>1. /\ pc = "deploy" /\ step = "createDaemonSets"
      /\ TypeOK /\ index \in 0..MaxTopologies /\ missing \subseteq 0..MaxTopologies
  BY DEF CreateDaemonSet, At, DeployInv, TypeOK
<1>2. PICK i \in missing : Create(DaemonSetName(i), next(i))
  BY DEF CreateDaemonSet
<1>3. DaemonSetName(i) \in Names
  BY <1>1 DEF Names
<1>4. KeepsObjects /\ (Return(TRUE) \/ (next(i) /\ Known(DaemonSetName(i))'))
  <2> HIDE DEF next
  <2> QED
    BY <1>1, <1>2, <1>3, CreateFacts
<1>5. CASE Return(TRUE)
  BY <1>4, <1>5, ReturnStep
<1>6. CASE next(i) /\ Known(DaemonSetName(i))'
  <2>1. ASSUME cr # Absent, NEW n \in Workloads(cr.spec.topologies), Ahead(n)
        PROVE  Known(n)' \/ Ahead(n)'
    <3>1. PICK j \in 0..cr.spec.topologies :
            n = DaemonSetName(j) /\ n[2] = j /\ Kind(n) = "DaemonSet"
      BY <1>1, <2>1, CrTopologies, WorkloadKinds DEF Ahead, TypeOK
    <3>2. j \in missing
      BY <1>1, <2>1, <3>1 DEF Ahead
    <3>3. CASE j = i
      BY <1>6, <3>1, <3>3
    <3>4. CASE j # i
      BY <1>1, <1>6, <3>1, <3>2, <3>4 DEF Ahead
    <3> QED
      BY <3>3, <3>4
  <2> QED
    BY <1>1, <1>4, <1>6, <2>1, PassStep DEF DeploySteps
<1> QED
  BY <1>4, <1>5, <1>6

LEMMA DeploymentStep ==
  ASSUME IInv, IInv', DeployInv, Deployment PROVE DeployInv'
<1>0. TypeOK /\ StorageClassName \in Names /\ SnapshotClassName \in Names /\ DriverName \in Names
  BY DEF DeployInv, Names
<1>1. CASE EnsureStorageClass
  <2>1. pc = "deploy" /\ step = "storageClass"
        /\ Ensure(StorageClassName, Proceed("snapshotClass"))
    BY <1>1 DEF EnsureStorageClass, At
  <2>2. KeepsObjects
        /\ (Return(TRUE) \/ (Proceed("snapshotClass") /\ Known(StorageClassName)'))
    BY <1>0, <2>1, EnsureFacts
  <2> QED
    BY <2>1, <2>2, LateStep
<1>2. CASE EnsureSnapshotClass
  <2>1. pc = "deploy" /\ step = "snapshotClass"
    BY <1>2 DEF EnsureSnapshotClass, At
  <2>2. CASE Ensure(SnapshotClassName, Proceed("csiDriver"))
    <3>1. KeepsObjects
          /\ (Return(TRUE) \/ (Proceed("csiDriver") /\ Known(SnapshotClassName)'))
      BY <1>0, <2>1, <2>2, EnsureFacts
    <3> QED
      BY <2>1, <3>1, LateStep
  <2>3. CASE Proceed("csiDriver") /\ Quietly
    BY <1>0, <2>1, <2>3, LateStep, UntouchedObjects DEF Quietly
  <2> QED
    BY <1>2, <2>2, <2>3 DEF EnsureSnapshotClass
<1>3. CASE DropSnapshotClass
  <2>1. pc = "deploy" /\ step = "snapshotClass" /\ Quietly
        /\ (Return(TRUE) \/ Proceed("csiDriver"))
    BY <1>3 DEF DropSnapshotClass, At
  <2>2. KeepsObjects
    BY <1>0, <2>1, UntouchedObjects DEF Quietly
  <2> QED
    BY <2>1, <2>2, LateStep
<1>4. CASE EnsureCsiDriver
  <2>1. pc = "deploy" /\ step = "csiDriver"
    BY <1>4 DEF EnsureCsiDriver, At
  <2>2. CASE Ensure(DriverName, Return(FALSE))
    <3>1. KeepsObjects /\ (Return(TRUE) \/ (Return(FALSE) /\ Known(DriverName)'))
      BY <1>0, <2>1, <2>2, EnsureFacts
    <3> QED
      BY <2>1, <3>1, LateStep
  <2>3. CASE Return(FALSE) /\ Quietly
    BY <1>0, <2>1, <2>3, LateStep, UntouchedObjects DEF Quietly
  <2> QED
    BY <1>4, <2>2, <2>3 DEF EnsureCsiDriver
<1> QED
  BY <1>1, <1>2, <1>3, <1>4, EnsureStatefulSetStep, FindDaemonSetStep, CreateDaemonSetStep
  DEF Deployment

-----------------------------------------------------------------------------
(* Every step keeps DeployInv: the first half of a pass, and all around it. *)

\* A step that leaves pass, queue, objects and topologies as they are. A write of
\* the CR is on its way to the controller.
LEMMA IdleStep ==
  ASSUME IInv, IInv', DeployInv,
         (cr' = cr /\ crFeed' = crFeed) \/ crFeed' # <<>>,
         crCache' = crCache, queue' = queue, pc' = pc,
         pc # "idle" => inst'.spec.topologies = inst.spec.topologies,
         UNCHANGED deployVars, KeepsObjects
  PROVE  DeployInv'
<1>1. TypeOK'
  BY DEF DeployInv, TypeOK, KeepsObjects, IInv, deployVars
<1>2. PassInv'
  BY DEF DeployInv, PassInv
<1>3. WakeInv'
  <2> SUFFICES ASSUME cr' # Absent, crFeed' = <<>>, ~ queue,
                      NEW n \in Workloads(cr'.spec.topologies)
               PROVE  Known(n)' \/ Ahead(n)'
    BY DEF WakeInv, Known
  <2>1. cr' = cr /\ crFeed = <<>>
    OBVIOUS
  <2>2. n \in Names
    BY <2>1, CrTopologies, WorkloadNames DEF DeployInv, TypeOK
  <2>3. Known(n) \/ Ahead(n)
    BY <2>1 DEF DeployInv, WakeInv, Known
  <2>4. Ahead(n) => Ahead(n)'
    BY DEF Ahead, deployVars
  <2> QED
    BY <2>2, <2>3, <2>4 DEF KeepsObjects
<1> QED
  BY <1>1, <1>2, <1>3 DEF DeployInv, deployVars

LEMMA PutCrHeard ==
  ASSUME CredTypeOK, NEW v, PutCr(v)
  PROVE  (cr' = cr /\ crFeed' = crFeed) \/ crFeed' # <<>>
BY DEF PutCr, CredTypeOK

\* A front step goes on with what it fetched, or has just fetched, and every
\* workload is ahead of it.
LEMMA FrontAheadStep ==
  ASSUME IInv', DeployInv, UNCHANGED <<objectVars, deployVars>>, pc # "deploy",
         pc' \in {"sysFiles", "backend", "redact", "deploy"},
         ~ queue' => crCache' # Absent /\ inst'.spec.topologies = crCache'.spec.topologies
  PROVE  DeployInv'
<1>1. TypeOK' /\ step' = "statefulSet"
  BY DEF DeployInv, TypeOK, IInv, objectVars, deployVars
<1>2. \A n : Ahead(n)'
  BY <1>1 DEF Ahead
<1> QED
  BY <1>1, <1>2 DEF DeployInv, PassInv, WakeInv

LEMMA FetchKeeps ==
  ASSUME IInv, IInv', DeployInv, Fetch, UNCHANGED <<objectVars, deployVars>>
  PROVE  DeployInv'
<1>1. CASE crCache = Absent
  <2>1. cr # Absent => crFeed # <<>>
    BY <1>1 DEF IInv, FeedInv, SameVersion
  <2>2. TypeOK' /\ PassInv'
    BY <1>1 DEF Fetch, DeployInv, TypeOK, PassInv, IInv, objectVars, deployVars
  <2> QED
    BY <1>1, <2>1, <2>2 DEF Fetch, DeployInv, TypeOK, WakeInv, crVars, objectVars, deployVars
<1>2. CASE crCache # Absent
  BY <1>2, FrontAheadStep DEF Fetch, crVars
<1> QED
  BY <1>1, <1>2

LEMMA UpdateCrTopologies ==
  ASSUME inst \in Instance, NEW s \in BackendSpec, UpdateCr(s)
  PROVE  inst'.spec = s /\ crCache' = crCache
BY DEF UpdateCr, PutCr, crVars, Instance

LEMMA FrontKeeps ==
  ASSUME IInv, IInv', DeployInv, Front, UNCHANGED <<objectVars, deployVars>>
  PROVE  DeployInv'
<1>1. ASSUME pc # "idle"
      PROVE  inst \in Instance /\ inst.spec \in BackendSpec /\ inst.spec.backend \in Backend
  BY <1>1, PassInstance DEF IInv, Instance, BackendSpec
<1>2. CASE Fetch
  BY <1>2, FetchKeeps
<1>3. CASE ReadSysFiles
  <2>1. PICK key \in SysKeys \cup {NoKey} : UpdateCr([inst.spec EXCEPT !.sysKey = key])
    BY <1>1, <1>3 DEF ReadSysFiles, BackendSpec
  <2>2. pc = "sysFiles" /\ pc' = "backend" /\ queue' = queue
    BY <1>3 DEF ReadSysFiles, GoTo
  <2>3. /\ [inst.spec EXCEPT !.sysKey = key] \in BackendSpec
        /\ [inst.spec EXCEPT !.sysKey = key].topologies = inst.spec.topologies
    BY <1>1, <2>2 DEF BackendSpec
  <2>4. inst'.spec.topologies = inst.spec.topologies /\ crCache' = crCache
    BY <1>1, <2>1, <2>2, <2>3, UpdateCrTopologies
  <2> QED
    BY <2>2, <2>4, FrontAheadStep DEF DeployInv, PassInv
<1>4. CASE SaveBackend
  <2>1. pc = "backend" /\ pc' \in {"redact", "deploy"} /\ queue' = queue
    BY <1>4 DEF SaveBackend, SaveSecret, GoTo
  <2>2. inst' = [inst EXCEPT !.spec = SetOptions(inst.spec)]
        /\ crCache' = IF inst.aliased
             THEN [crCache EXCEPT !.spec.multipath = SetOptions(inst.spec).multipath]
             ELSE crCache
    BY <1>4 DEF SaveBackend
  <2>3. SetOptions(inst.spec).topologies = inst.spec.topologies
    BY <1>1, <2>1, SetOptionsType DEF BackendSpec
  <2>4. inst'.spec.topologies = inst.spec.topologies
    BY <1>1, <2>1, <2>2, <2>3 DEF Instance
  <2>5. crCache # Absent =>
          crCache' # Absent /\ crCache'.spec.topologies = crCache.spec.topologies
    <3>1. crCache # Absent => crCache \in Cr
      BY DEF IInv, CredTypeOK
    <3>2. SetOptions(inst.spec).multipath \in Multipath
      BY <1>1, <2>1, SetOptionsType
    <3>3. crCache # Absent => crCache' \in Cr
      BY <2>2, <3>1, <3>2 DEF Cr, BackendSpec
    <3> QED
      BY <2>2, <3>1, <3>3, CredentialsAssumption DEF Cr, BackendSpec
  <2> QED
    BY <2>1, <2>4, <2>5, FrontAheadStep DEF DeployInv, PassInv
<1>5. CASE RedactCr
  <2> DEFINE s == [inst.spec EXCEPT !.backend = Redact(inst.spec.backend)]
  <2>1. pc = "redact" /\ pc' = "deploy" /\ queue' = queue /\ UpdateCr(s)
    BY <1>5 DEF RedactCr, GoTo
  <2>2. s \in BackendSpec /\ s.topologies = inst.spec.topologies
    BY <1>1, <2>1, RedactType DEF BackendSpec
  <2>3. inst'.spec.topologies = inst.spec.topologies /\ crCache' = crCache
    BY <1>1, <2>1, <2>2, UpdateCrTopologies
  <2> QED
    BY <2>1, <2>3, FrontAheadStep DEF DeployInv, PassInv
<1> QED
  BY <1>2, <1>3, <1>4, <1>5 DEF Front

LEMMA ElsewhereStep ==
  ASSUME IInv, IInv', DeployInv, Elsewhere PROVE DeployInv'
<1>1. UNCHANGED <<objectVars, deployVars>> /\ KeepsObjects
  BY UntouchedObjects DEF Elsewhere, DeployInv
<1>2. CASE Front
  BY <1>1, <1>2, FrontKeeps
<1>3. CASE UserAction
  <2>1. PICK v : UserWrites(v)
    BY <1>3 DEF UserAction, CreateCr, ReplaceSpec, AmendSpec, RetypeCredential, DeleteCr
  <2>2. pc # "idle" => inst'.spec.topologies = inst.spec.topologies
    <3> SUFFICES ASSUME pc # "idle" PROVE inst'.spec.topologies = inst.spec.topologies
      OBVIOUS
    <3>1. inst \in Instance /\ inst # Absent
      BY PassInstance DEF IInv
    <3> QED
      BY <2>1, <3>1 DEF UserWrites, Instance
  <2>3. crCache' = crCache /\ UNCHANGED <<queue, pc>>
    BY <2>1 DEF UserWrites, PutCr
  <2> QED
    BY <1>1, <2>1, <2>2, <2>3, PutCrHeard, IdleStep DEF UserWrites, IInv
<1>4. CASE SyncCr
  <2>1. queue' /\ pc' = pc /\ UNCHANGED <<objectVars, deployVars>>
    BY <1>1, <1>4 DEF SyncCr
  <2>2. pc # "idle" => inst'.spec.topologies = inst.spec.topologies
    <3> SUFFICES ASSUME pc # "idle" PROVE inst'.spec.topologies = inst.spec.topologies
      OBVIOUS
    <3>1. inst \in Instance /\ inst # Absent
      BY PassInstance DEF IInv
    <3> QED
      BY <1>4, <3>1 DEF SyncCr, Instance
  <2>3. TypeOK'
    BY <2>1 DEF DeployInv, TypeOK, IInv, objectVars, deployVars
  <2> QED
    BY <2>1, <2>2, <2>3, QueuedStep DEF DeployInv, deployVars
<1>5. CASE SyncSecret
  BY <1>1, <1>5, IdleStep DEF SyncSecret, crVars
<1>6. CASE CollectSecret \/ RemoveSecret
  BY <1>1, <1>6, IdleStep DEF CollectSecret, RemoveSecret, LoseSecret, crVars
<1>7. CASE Resync
  <2>1. TypeOK'
    BY <1>1, <1>7 DEF Resync, DeployInv, TypeOK, IInv, objectVars, deployVars
  <2> QED
    BY <1>1, <1>7, <2>1, QueuedStep DEF Resync, DeployInv, deployVars
<1> QED
  BY <1>2, <1>3, <1>4, <1>5, <1>6, <1>7 DEF Elsewhere

LEMMA LoseObjectStep ==
  ASSUME IInv, IInv', DeployInv, NEW n \in Names, LoseObject(n) PROVE DeployInv'
<1>1. KeepsObjects
  BY SetObjectFacts DEF LoseObject, DeployInv
<1> QED
  BY <1>1, IdleStep DEF LoseObject, crVars

\* The event of a workload wakes the controller; those of the classes do not
\* matter (embercsi_controller.go:52-61).
LEMMA SyncObjectStep ==
  ASSUME IInv, IInv', DeployInv, NEW n \in Names, SyncObject(n) PROVE DeployInv'
<1>1. /\ pending' = [pending EXCEPT ![n] = @ - 1] /\ pending[n] > 0
      /\ UNCHANGED <<cr, crFeed, crCache, pc, inst, objects, deployVars>>
      /\ queue' = IF Kind(n) \in Watched THEN TRUE ELSE queue
  BY DEF SyncObject, crVars
<1>2. pending' \in [Names -> 0..MaxPending]
  BY <1>1, ReconcilerAssumption DEF DeployInv, TypeOK
<1>3. TypeOK'
  BY <1>1, <1>2 DEF DeployInv, TypeOK, IInv, deployVars
<1>4. CASE queue'
  BY <1>1, <1>3, <1>4, QueuedStep DEF DeployInv, deployVars
<1>5. CASE ~ queue'
  <2>1. queue' = queue /\ Kind(n) \notin Watched
    BY <1>1, <1>5
  <2>2. PassInv'
    BY <1>1, <2>1 DEF DeployInv, PassInv
  <2>3. WakeInv'
    <3> SUFFICES ASSUME cr # Absent, ~ queue, crFeed = <<>>,
                        NEW m \in Workloads(cr.spec.topologies)
                 PROVE  Known(m)' \/ Ahead(m)'
      BY <1>1, <2>1 DEF WakeInv, Known
    <3>1. m \in Names /\ m # n
      BY <2>1, CrTopologies, WorkloadNames, WorkloadKinds, ReconcilerAssumption
      DEF DeployInv, TypeOK
    <3>2. pending'[m] = pending[m]
      BY <1>1, <3>1 DEF DeployInv, TypeOK
    <3>3. Known(m) \/ Ahead(m)
      BY DEF DeployInv, WakeInv, Known
    <3>4. Ahead(m) => Ahead(m)'
      BY <1>1 DEF Ahead, deployVars
    <3> QED
      BY <1>1, <3>2, <3>3, <3>4 DEF Known
  <2> QED
    BY <1>1, <1>3, <2>2, <2>3 DEF DeployInv, deployVars
<1> QED
  BY <1>4, <1>5

\* A new process starts with the CR in its queue if there is one.
LEMMA RestartStep ==
  ASSUME IInv, IInv', DeployInv, Restart PROVE DeployInv'
<1>1. /\ cr' = cr /\ pc' = "idle" /\ step' = "statefulSet" /\ index' = 0 /\ missing' = {}
      /\ cr # Absent => queue'
      /\ UNCHANGED objects /\ pending' = [m \in Names |-> 0]
  BY DEF Restart, Crash, Panic, StartOver
<1>2. TypeOK'
  BY <1>1, BackendAssumption, ReconcilerAssumption DEF DeployInv, TypeOK, IInv, DeploySteps
<1> QED
  BY <1>1, <1>2 DEF DeployInv, PassInv, WakeInv

LEMMA NextKeepsDeployInv == IInv /\ IInv' /\ DeployInv /\ [Next]_vars => DeployInv'
<1> SUFFICES ASSUME IInv, IInv', DeployInv, [Next]_vars PROVE DeployInv'
  OBVIOUS
<1>1. CASE Elsewhere
  BY <1>1, ElsewhereStep
<1>2. CASE Deployment
  BY <1>2, DeploymentStep
<1>3. CASE ObjectEvent
  <2>1. PICK n \in Names : LoseObject(n) \/ SyncObject(n)
    BY <1>3 DEF ObjectEvent, RemoveObject, Collect
  <2> QED
    BY <2>1, LoseObjectStep, SyncObjectStep
<1>4. CASE Restart
  BY <1>4, RestartStep
<1>5. CASE UNCHANGED vars
  <2>1. KeepsObjects
    BY <1>5, UntouchedObjects DEF DeployInv, vars
  <2> QED
    BY <1>5, <2>1, IdleStep DEF vars, credVars, crVars
<1> QED
  BY <1>1, <1>2, <1>3, <1>4, <1>5 DEF Next

LEMMA InitDeployInv == Init => DeployInv
<1> SUFFICES ASSUME Init PROVE DeployInv
  OBVIOUS
<1>1. CredTypeOK
  BY InitIInv DEF Init, IInv
<1> QED
  BY <1>1, BackendAssumption, ReconcilerAssumption
  DEF Init, CredInit, DeployInv, TypeOK, DeploySteps, PassInv, WakeInv

-----------------------------------------------------------------------------
(* Theorems.                                                               *)

\* Whoever misses a workload is on the way: at every moment each StatefulSet and
\* DaemonSet the CR asks for is there, or the queue, an undelivered event or the
\* pass under way will bring the controller to it (DeployInv).
THEOREM SomebodyKnows == Spec => []DeployInv
<1>1. Spec => []IInv
  BY Implements, Inductive, PTL
<1> QED
  BY <1>1, InitDeployInv, NextKeepsDeployInv, PTL DEF Spec

\* The state of the whole reconciler is well-formed, the position of a pass in the
\* deployment loops and the undelivered events included (TypeOK).
THEOREM ReconcilerTypeCorrect == Spec => []TypeOK
<1>1. DeployInv => TypeOK
  BY DEF DeployInv
<1> QED
  BY <1>1, SomebodyKnows, PTL

\* For any number of edits, removals, failed writes and restarts, the controller
\* never rests with a workload missing (NoLostWakeup).
THEOREM WakeupsAreNotLost == Spec => []NoLostWakeup
<1>1. DeployInv => NoLostWakeup
  <2> SUFFICES ASSUME DeployInv, cr # Absent, crFeed = <<>>, pc = "idle", ~ queue,
                      \A n \in Names : pending[n] = 0,
                      NEW n \in Workloads(cr.spec.topologies)
               PROVE  objects[n] # Absent
    BY DEF NoLostWakeup
  <2>1. n \in Names
    BY CrTopologies, WorkloadNames DEF DeployInv, TypeOK
  <2>2. ~ Ahead(n)
    BY DEF Ahead
  <2> QED
    BY <2>1, <2>2 DEF DeployInv, WakeInv
<1> QED
  BY <1>1, SomebodyKnows, PTL
=============================================================================
