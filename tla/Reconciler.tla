----------------------------- MODULE Reconciler -----------------------------
(***************************************************************************)
(* The whole pass of the EmberStorageBackend controller: Credentials, and  *)
(* in place of its one step Deploy the steps that look for the StatefulSet, *)
(* the DaemonSets, the StorageClass, the VolumeSnapshotClass and the        *)
(* CSIDriver of the CR and create those that the cache does not have. The   *)
(* events of these objects wake the controller, others may remove them, and *)
(* the garbage collector removes those whose owner is gone.                 *)
(***************************************************************************)
EXTENDS Credentials

CONSTANTS
  Watched,     \* kinds whose events put the owning CR in the work queue
  Collected,   \* kinds the garbage collector removes with their owner
  Unreadable,  \* kinds every read of which fails (their CRD is not installed)
  CsiV1,       \* the CSI spec version is at least 1.0
  Registrar,   \* the configuration names a driver registrar image
  MaxPending   \* bound on the undelivered events of an object

StatefulSetName   == <<"StatefulSet", 0>>
DaemonSetName(i)  == <<"DaemonSet", i>>
StorageClassName  == <<"StorageClass", 0>>
SnapshotClassName == <<"VolumeSnapshotClass", 0>>
DriverName        == <<"CSIDriver", 0>>

Names == {StatefulSetName, StorageClassName, SnapshotClassName, DriverName}
         \cup {DaemonSetName(i) : i \in 0..MaxTopologies}

Object == [owner : Nat, from : Templates]

ASSUME ReconcilerAssumption ==
  /\ Absent \notin Object
  /\ CsiV1 \in BOOLEAN /\ Registrar \in BOOLEAN /\ MaxPending \in Nat
  /\ {"StatefulSet", "DaemonSet"} \subseteq Watched \ Unreadable

VARIABLES
  objects,     \* the workloads and classes: owner's uid and what they were built from
  pending,     \* number of events of each that the watches have not delivered
  step,        \* where Deploy is
  index,       \* its daemonSet loop index
  missing      \* its dSNotFound

objectVars == <<objects, pending>>
deployVars == <<step, index, missing>>
vars == <<credVars, objectVars, deployVars>>

DeploySteps == {"statefulSet", "daemonSets", "createDaemonSets",
                "storageClass", "snapshotClass", "csiDriver"}

TypeOK ==
  /\ CredTypeOK
  /\ objects \in [Names -> Object \cup {Absent}]
  /\ pending \in [Names -> 0..MaxPending]
  /\ step \in DeploySteps
  /\ pc # "deploy" => step = "statefulSet"
  /\ step = "statefulSet" => index = 0 /\ missing = {}
  /\ index \in 0..MaxTopologies
  /\ missing \subseteq 0..MaxTopologies

Init ==
  /\ CredInit
  /\ objects = [n \in Names |-> Absent] /\ pending = [n \in Names |-> 0]
  /\ step = "statefulSet" /\ index = 0 /\ missing = {}
-----------------------------------------------------------------------------
(* The objects, in the API server and in the caches.                       *)

Kind(n) == n[1]

\* Events of one object alternate between its creation and its removal, so an
\* odd number of undelivered ones means that cache and API server disagree.
Cached(n) == (objects[n] # Absent) # (pending[n] % 2 = 1)

\* The outcome of a read of an object.
Read(n) == IF Kind(n) \in Unreadable THEN "failed"
           ELSE IF Cached(n) THEN "found" ELSE "notFound"

SetObject(n, value) ==
  /\ pending[n] < MaxPending
  /\ objects' = [objects EXCEPT ![n] = value]
  /\ pending' = [pending EXCEPT ![n] = @ + 1]

-----------------------------------------------------------------------------
(* The second half of Reconcile, in the order of the code.                 *)

\* The pass goes on to another step of Deploy, or ends.
Proceed(next) ==
  /\ step' = next
  /\ UNCHANGED <<index, missing, crVars, secretVars, queue, pc, inst, edits>>

ReturnMidway(error) == \* broken: dSNotFound outlives the pass
  Deploy(error) /\ step' = "statefulSet" /\ index' = 0 /\ missing' = missing

ReturnSilently(error) == \* broken: no error reaches the work queue
  Deploy(FALSE) /\ step' = "statefulSet" /\ index' = 0 /\ missing' = {}

ReturnToSecret(error) == \* broken: a failed pass is retried from the secret on
  /\ pc' = IF error THEN "backend" ELSE "idle"
  /\ inst' = IF error THEN inst ELSE Absent
  /\ step' = "statefulSet" /\ index' = 0 /\ missing' = {}
  /\ UNCHANGED <<crVars, secretVars, queue, edits>>

Return(error) ==
  /\ Deploy(error)
  /\ step' = "statefulSet" /\ index' = 0 /\ missing' = {}

Quietly == UNCHANGED <<objectVars, upsets>>

\* Objects are built from `instance`, which becomes their owner.
UnownedObject == \* broken: no owner reference
  [owner |-> 0, from |-> Template(inst.spec)]

NewObject == [owner |-> inst.uid, from |-> Template(inst.spec)]

\* client.Create: refused when the object exists, and it may fail, applied or
\* not. The pass goes on with `next` if it succeeds, else it ends with the error.
Create(n, next) ==
  LET written == objects[n] = Absent /\ SetObject(n, NewObject)
  IN \/ written /\ next /\ UNCHANGED upsets
     \/ objects[n] # Absent /\ Return(TRUE) /\ Quietly
     \/ Return(TRUE) /\ Disturb /\ (written \/ UNCHANGED objectVars)

\* What the code does for a kind: create the object if the read says NotFound,
\* leave it alone if it is there, end the pass if the read fails.
Ensure(n, next) ==
  \/ Read(n) = "notFound" /\ Create(n, next)
  \/ Read(n) = "found" /\ next /\ Quietly
  \/ Read(n) = "failed" /\ Return(TRUE) /\ Quietly

At(here) == pc = "deploy" /\ step = here

EnsureStatefulSet ==
  At("statefulSet") /\ Ensure(StatefulSetName, Proceed("daemonSets"))

\* There is one DaemonSet more than there are topologies.
LastButOne == \* broken: the loop ends one too early
  IF inst.spec.topologies = 0 THEN 0 ELSE inst.spec.topologies - 1

LastIndex == inst.spec.topologies

MissingLast == \* broken: forgets the ones found missing before
  IF Read(DaemonSetName(index)) = "notFound" THEN {index} ELSE missing

MissingSoFar ==
  IF Read(DaemonSetName(index)) = "notFound" THEN missing \cup {index} ELSE missing

\* One iteration of the loop that looks for the DaemonSets. Of the reads that fail
\* only the last one counts, and only when no DaemonSet is missing.
FindDaemonSet ==
  /\ At("daemonSets")
  /\ LET found == MissingSoFar
         last == index = LastIndex
     IN IF last /\ found = {} /\ Read(DaemonSetName(index)) = "failed"
        THEN Return(TRUE)
        ELSE /\ missing' = found
             /\ index' = IF last THEN 0 ELSE index + 1
             /\ step' = IF ~ last THEN step
                        ELSE IF found = {} THEN "storageClass" ELSE "createDaemonSets"
             /\ UNCHANGED <<crVars, secretVars, queue, pc, inst, edits>>
  /\ Quietly

\* One iteration of the loop that creates the missing ones, in their order.
CreateDaemonSet ==
  /\ At("createDaemonSets")
  /\ \E i \in missing :
       /\ \A j \in missing : i <= j
       /\ Create(DaemonSetName(i),
                 /\ missing' = missing \ {i}
                 /\ step' = IF missing' = {} THEN "storageClass" ELSE step
                 /\ UNCHANGED <<index, crVars, secretVars, queue, pc, inst, edits>>)

EnsureStorageClass ==
  At("storageClass") /\ Ensure(StorageClassName, Proceed("snapshotClass"))

\* With snapshots the class is ensured, but a read that fails is only logged.
EnsureSnapshotClass ==
  /\ At("snapshotClass") /\ inst.spec.snapshots
  /\ LET next == Proceed("csiDriver")
     IN IF CsiV1 /\ Read(SnapshotClassName) # "failed"
        THEN Ensure(SnapshotClassName, next)
        ELSE next /\ Quietly

\* Without them the class is deleted when its read FAILS, and as the delete names
\* no object the API server refuses it; a class that is found is left alone.
DropSnapshotClass ==
  /\ At("snapshotClass") /\ ~ inst.spec.snapshots
  /\ IF Read(SnapshotClassName) = "failed" THEN Return(TRUE) ELSE Proceed("csiDriver")
  /\ Quietly

EnsureCsiDriver ==
  /\ At("csiDriver")
  /\ IF Registrar THEN Return(FALSE) /\ Quietly
     ELSE Ensure(DriverName, Return(FALSE))
-----------------------------------------------------------------------------
(* What happens to the objects, and to the operator, around the pass.      *)

LoseObject(n) ==
  /\ objects[n] # Absent /\ SetObject(n, Absent)
  /\ UNCHANGED <<crVars, secretVars, queue, pc, inst, edits, deployVars>>

RemoveObject(n) == Disturb /\ LoseObject(n)

Collect(n) == Kind(n) \in Collected /\ Orphan(objects[n]) /\ LoseObject(n) /\ UNCHANGED upsets

SyncCreation(n) == \* broken: the events of a removal are not handled
  /\ pending[n] > 0
  /\ pending' = [pending EXCEPT ![n] = @ - 1]
  /\ queue' = IF Kind(n) \in Watched /\ objects[n] # Absent THEN TRUE ELSE queue
  /\ UNCHANGED <<crVars, secretVars, objects, pc, inst, deployVars, edits, upsets>>

SyncObject(n) ==
  /\ pending[n] > 0
  /\ pending' = [pending EXCEPT ![n] = @ - 1]
  /\ queue' = IF Kind(n) \in Watched THEN TRUE ELSE queue
  /\ UNCHANGED <<crVars, secretVars, objects, pc, inst, deployVars, edits, upsets>>

\* A new process starts with caches that are up to date, and queues the CR for
\* what it finds of it.
Restart ==
  /\ Crash \/ Panic
  /\ queue' = (cr # Absent \/ \E n \in Names : Kind(n) \in Watched /\ objects[n] # Absent)
  /\ pending' = [n \in Names |-> 0]
  /\ step' = "statefulSet" /\ index' = 0 /\ missing' = {}
  /\ UNCHANGED objects
-----------------------------------------------------------------------------
Front == Fetch \/ ReadSysFiles \/ SaveBackend \/ RedactCr

\* The steps of Credentials that leave the objects alone.
Elsewhere ==
  /\ \/ Front \/ UserAction \/ SyncCr \/ SyncSecret
     \/ CollectSecret \/ RemoveSecret \/ Resync
  /\ UNCHANGED <<objectVars, deployVars>>

Deployment ==
  \/ EnsureStatefulSet \/ FindDaemonSet \/ CreateDaemonSet \/ EnsureStorageClass
  \/ EnsureSnapshotClass \/ DropSnapshotClass \/ EnsureCsiDriver

ObjectEvent == \E n \in Names : RemoveObject(n) \/ Collect(n) \/ SyncObject(n)

Next == Elsewhere \/ Deployment \/ ObjectEvent \/ Restart

Spec == Init /\ [][Next]_vars

\* The worker keeps going, the watches deliver, the garbage collector collects.
\* Users, other actors, failures and restarts promise nothing.
Running ==
  /\ WF_vars(Front /\ UNCHANGED <<objectVars, deployVars>>)
  /\ WF_vars(Deployment) /\ WF_vars(Panic /\ Restart)
  /\ WF_vars(SyncCr /\ UNCHANGED <<objectVars, deployVars>>)
  /\ WF_vars(SyncSecret /\ UNCHANGED <<objectVars, deployVars>>)
  /\ WF_vars(CollectSecret /\ UNCHANGED <<objectVars, deployVars>>)
  /\ \A n \in Names : WF_vars(SyncObject(n)) /\ WF_vars(Collect(n))

EventSpec == Spec /\ Running
FairSpec  == EventSpec /\ WF_vars(Resync /\ UNCHANGED <<objectVars, deployVars>>)
-----------------------------------------------------------------------------
(* Properties.                                                             *)

\* The objects a spec asks for, those whose events wake the controller first.
Workloads(topologies) == {StatefulSetName} \cup {DaemonSetName(i) : i \in 0..topologies}

Wanted(s) ==
  Workloads(s.topologies) \cup {StorageClassName}
  \cup (IF CsiV1 /\ s.snapshots /\ Kind(SnapshotClassName) \notin Unreadable
        THEN {SnapshotClassName} ELSE {})
  \cup (IF Registrar THEN {} ELSE {DriverName})

\* No wake-up is lost: when the controller rests, with nothing queued and nothing
\* left for the watches to deliver, every StatefulSet and DaemonSet the CR asks
\* for exists, whatever was edited, removed or failed during the passes before.
NoLostWakeup ==
  /\ cr # Absent /\ crFeed = <<>>
  /\ pc = "idle" /\ ~ queue
  /\ \A n \in Names : pending[n] = 0
  => \A n \in Workloads(cr.spec.topologies) : objects[n] # Absent

\* The workload n is one that the pass under way still looks for, or has found to
\* be missing.
Ahead(n) ==
  \/ pc \in {"sysFiles", "backend", "redact"}
  \/ pc = "deploy" /\ step = "statefulSet"
  \/ /\ pc = "deploy" /\ Kind(n) = "DaemonSet"
     /\ \/ step = "daemonSets" /\ index <= n[2]
        \/ step \in {"daemonSets", "createDaemonSets"} /\ n[2] \in missing

\* A pass whose CR is not queued again works on what the cache has.
PassInv ==
  pc # "idle" /\ ~ queue =>
    crCache # Absent /\ inst.spec.topologies = crCache.spec.topologies

\* Somebody knows of each workload that is missing.
WakeInv ==
  cr # Absent =>
    \A n \in Workloads(cr.spec.topologies) :
      objects[n] # Absent \/ queue \/ crFeed # <<>> \/ pending[n] > 0 \/ Ahead(n)

\* The inductive invariant behind NoLostWakeup.
DeployInv ==
  /\ TypeOK
  /\ pc = "deploy" /\ step = "daemonSets" => index <= inst.spec.topologies
  /\ PassInv
  /\ WakeInv

\* Once users and others leave it alone, the CR gets every object it asks for,
\* those of the kinds the cluster does not have excepted.
EventuallyDeployed ==
  <>[](cr # Absent => \A n \in Wanted(cr.spec) : objects[n] # Absent)

\* What stays of the workloads and of the secret is owned by the CR there is: of
\* a CR that was deleted they all go, those a pass that read the CR before its
\* deletion created after it included.
EventuallyOwned ==
  <>[](/\ ~ Orphan(secret)
       /\ \A n \in Names : Kind(n) \in {"StatefulSet", "DaemonSet"} => ~ Orphan(objects[n]))

\* The VolumeSnapshotClass is removed from a CR that disables snapshots.
SnapshotClassFollows ==
  <>[](cr # Absent /\ ~ cr.spec.snapshots => objects[SnapshotClassName] = Absent)

\* The workloads are built from the configuration the user gave: for the driver it
\* names, and with its multipath value, not for what redaction leaves of them.
BuiltUnredacted ==
  \A n \in Workloads(MaxTopologies) :
    objects[n] # Absent => objects[n].from.driver /\ objects[n].from.multipath # "REDACTED"
=============================================================================
