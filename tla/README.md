# Verification of the Ember CSI operator

The operator (Go, controller-runtime) turns a custom resource `EmberStorageBackend` (the CR) into the
workloads of a CSI driver. This directory holds TLA+ models of it, the TLC instances that check them,
and TLAPS proofs. All source paths below are relative to `src/`; `EC` stands for
`pkg/controller/embercsi/embercsi_controller.go`.

## Inventory

| Part | State | Operations | Hard parts |
|---|---|---|---|
| Reconciler (`EC`) | none of its own: CR, secret `ember-csi-operator-<name>`, workloads and classes in the API server; informer caches; work queue | watches (38-85), `Reconcile` (99-130), `handleEmberStorageBackendDeployment` (133-383) | reads are cached and late, writes are not; whole-object updates; credentials moved from the CR into a secret in two writes; errors that are logged and swallowed; retries and restarts |
| Node DaemonSets (`pkg/controller/embercsi/node.go`) | none | one DaemonSet per topology and a default one with an antiaffinity (15-129), its environment (220-358) | objects built from different versions of the CR side by side; inversion of node requirements |
| Configuration values (`common.go`) | none | `interfaceToString`, `configTransform`, `setJsonKeyIfEmpty`, `isFeatureEnabled`, environment, mounts, volumes, topology list | changing a map while ranging over it; builders that must agree, written twice; malformed results |
| StatefulSet, CSIDriver (`controller.go`), classes (`storageclass.go`, `snapshotclass.go`) | none | build the objects | owner references without effect; built once, never updated |
| CR types (`pkg/apis/ember-csi/v1alpha1`) | the CR | generated copies; a hand-written shallow one of `EnvVars` (`embercsi_types.go:63-67`) | the copy shares maps with the cache |
| Operator configuration (`config.go`) | `Conf`, `Cluster` | `ReadConfig`, images, CSI version | fallbacks |
| Manager (`cmd/manager/main.go`) | leader lock, readiness file | start-up | two processes at once, of pods that crash, are evicted, deleted or replaced |
| Catalogue generator, deployment files | – | build time | the Deployment's rolling update against the leader lock |

How they interact: users write CRs; the watches put the CR's name into the work queue; the one worker
runs `Reconcile`, which reads from the caches and writes to the API server; its writes and the garbage
collector's come back as events that wake it again.

What makes the parts correct: credentials are never lost on their way from the CR into the secret, nor
overwritten by old ones, and do not stay in the CR (values typed anew into a redacted configuration do, and
no text promises otherwise); edits of users are not undone; whatever was lost or
failed, the workloads are there in the end, and gone when the CR is; each node runs one node plugin;
the pods get what the configuration means, in whatever order its keys are visited, and the API server
takes them; there is one manager at a time.
`PROJECT.json` lists the hazards at their lines.

## Modules

| Module | What it is |
|---|---|
| `EmberBackend` | The data: a spec reduced to what the reconciler branches on and writes back, and what a pass does to it. |
| `CredentialVault` | The abstract specification: what is shown, what is kept, when it is hidden. |
| `Credentials` | The first half of a pass (`EC` 99-231) next to users, caches, garbage collector, restarts; the second half is one step. Implements `CredentialVault`; also the abstract specification of the next module. |
| `Reconciler` | The whole pass: the second half (`EC` 233-383) step by step, with the workloads, their events and their collection. |
| `NodePlacement` | Affinities of the DaemonSets (`node.go` 15-129, 360-372) and the pods they put on relabelled nodes. |
| `ConfigTransform` | `configTransform` (`common.go` 523-599): the two loops over a map that they change, one visit of a key per step. |
| `PodEnvironment` | The environment of the driver's containers (`common.go` 36-168, `node.go` 220-338). |
| `PodTemplates` | Containers, mounts, volumes and topologies of the pods (`common.go` 195-467, `node.go` 131-217, 340-358, `controller.go` 79-216), built from the result of `ConfigTransform` or, once a pass has saved it, from the keys with every value "REDACTED" that are left of it (`Shown`, `EC` 157-231). |
| `OperatorStartup` | The processes of the operator (`main.go`, `config.go` 88-167), leader lock, readiness, and the Deployment that replaces their pods. |
| `MCCredentials`, `MCReconciler`, `MCNodePlacement`, `MCPodTemplates` | Instances for TLC: what users write. |
| `CredentialsProofs`, `CredentialVaultProofs`, `ReconcilerProofs`, `NodePlacementProofs`, `PodTemplatesProofs`, `TopologyListProofs`, `OperatorStartupProofs` | Theorems. |

`Reconciler` extends `Credentials`; its state is that of `Credentials` and the objects, so that the
refinement mapping is the identity and its theorem is `Spec => CredSpec`. `Credentials` implements
`CredentialVault` by a mapping from the CR to what it shows (`ShownCredentials`, in which a redacted
configuration is that of the user, hidden) and from the secret to what is kept. `PodTemplates` extends
`ConfigTransform`: the pods are built in the states in which the loops have ended.

### State and steps

- `cr`, `secret`, `objects` are the API server. `crFeed` holds the versions of the CR the watch has not
  delivered, `crCache` the one in the cache; `secretCache` and `pending` say the same of the secret
  and the objects more briefly. An object's events alternate between creation and removal, so their
  number tells whether cache and API server agree.
- `queue` is the membership of the CR in the work queue, `pc`, `step`, `index`, `missing`, `inst` the
  local state of `Reconcile`. `inst.fresh` replaces the comparison of resource versions, and
  `inst.aliased` says that the copy still shares its maps with the cache.
- Each operation that writes is one action with the cached read before it: whatever happens between
  the read and the write also happens, unseen by the cache, before the read. Between two actions
  everything else may happen.
- Every write may also fail, applied or not (`Disturb`), the process may die (`Crash`), and objects
  may be removed by others; a nil map write ends the process (`Panic`). All but the last count
  against `MaxUpsets`.

### Abstractions

- One CR name: the keys of the work queue are independent and the secret and the objects carry the
  CR's name. The service accounts, labels, images and the like are left out.
- A configuration is a value (`cfg`) and what is left of it in the CR (`mode`): `plain`, `redacted`,
  `partial` (some values typed anew; taken to be others than the driver's name) or `emptied` (what
  redaction makes of text that is not JSON).
- A persistence configuration likewise is `plain`, `filled` (marks applied, storage filled in) or `emptied`
  (text that is not JSON, `EC` 139). Every pass completes that of its instance (`Completed`, part of
  `SaveBackend`), and the update of the CR that redacts writes it back (`RedactCr`).
- `DataOf` leaves out values of `X_CSI_BACKEND_CONFIG` that are neither an object nor a string
  (`common.go` 517-519: a number or a list gives "{}"): a pass treats them as it does an empty map. A text
  that redaction has emptied goes on as the configuration of only a name (`Redact`), so that `NothingLost`
  does not count its loss; that is what `TextForwarded` is about.
- Users start from specs they wrote themselves: no one creates a CR from the dump of a redacted one.
  Which of creating, replacing, amending, retyping and deleting they do is the constant `Habits`.
- The API server drops updates that change nothing, so that they cause no event.
- A restarted process lists the current state; older lists are not modelled.
- Of reads, those of a kind whose CRD the cluster lacks fail (`Unreadable`), always; reads of the
  cache do not fail otherwise. The system files secret has the keys `SysKeys` or cannot be read.
- StorageClass, VolumeSnapshotClass and CSIDriver are cluster-scoped. The first two are given a
  namespace, so that `SetControllerReference` accepts the CR as owner, but the API server drops the
  namespace: their events map to a request without one, and the garbage collector does not act on a
  namespaced owner of an object without a namespace. The CSIDriver gets no owner at all. So `Watched`
  and `Collected` are the StatefulSet and the DaemonSets. The secret has an owner that is not its
  controller: collected but not watched.
- `NodePlacement` has its own, simpler passes, without caches: what matters there is which
  topologies a DaemonSet was built from. A list of requirements is a set; a label is an integer or
  absent; pods of a DaemonSet appear and go one at a time.
- In `ConfigTransform` a key is a driver prefix, an option and a mark (`__transform_csv` and the like),
  a value what has become of which text. An option has one mark at most (`OneMark`), as the catalogue
  generator gives it by its type. What the loop has still to visit is `todo`; Go's order is the free
  choice of the next key, and a key inserted on the way joins `todo` or not.
- In `PodTemplates` a mount or volume is its name; that a configuration mentions LVM is a question of
  driver, prefixes and values (`MentionsLvm`). Pods are built from the configuration as it is transformed where
  the pass has not saved it (it was redacted before, or the secret could not be written), and otherwise from
  what saving leaves. The topology list is a sequence of tokens, as what goes
  wrong with it is a comma. Images, arguments and host paths are left out. In `PodEnvironment` the
  value of a variable is where it comes from; variables that are constant are left out.
- In `OperatorStartup` a pod leaves the API server only after its process has ended: pods deleted by
  force, and locks of nodes that are lost, are not modelled. The process of a pod that is being
  deleted goes on until then. The next upgrade starts after the last one is over.

## Runs

| Run | Question | Properties | Bounds |
|---|---|---|---|
| `Credentials` | Are hidden credentials the saved ones, is the secret there, is no edit undone, is the operator a vault; is every value of the configuration hidden in the end (one that was retyped in part excepted), and do the passes settle? | `CredTypeOK`, `IInv`, `RedactedIsSaved`, `NothingLost`, `EditsSurvive`, `KeepsVault`, `EventuallyRedacted`, `Settles` | 3 edits, 1 disturbance, 2 JSON and 1 text configuration, 1 JSON and 1 text persistence configuration, 1 system file key |
| `Workloads` | Does the controller ever rest with a workload missing; are all objects created in the end (CSI 1.0, snapshots on and off)? | `TypeOK`, `DeployInv`, `NoLostWakeup`, `EventuallyDeployed` | 0 or 1 topology, 2 edits, 1 disturbance |
| `Recreated` | The same over deletion and re-creation, without the snapshot CRD; does what is left of the old CR go; refinement | `NoLostWakeup`, `EventuallyOwned`, `CredSpec` | 3 edits |
| `Placement` | Do DaemonSets of the same topologies split the nodes, and does each node get exactly one plugin? | `TypeOK`, `DefaultApart`, `NoNodeForgotten`, `OnePluginWhenSettled`, `EventuallyOnePlugin` | 2 nodes, 2 topologies, 1 edit, 2 disturbances |
| `Templates` | Does the transformation end, does it depend on the order of the keys, is its result what the marks mean and a fixed point; do the pods have the volumes they mount, and do controller and nodes agree? | `TransformInv`, `ResultIsMeaning`, `SecondPassChangesNothing`, `MountsBacked`, `LvmAsDriver`, `TopologiesKnown`, `PluginsFit`, `VisitsRunOut` | up to 4 keys of 2 drivers, 7 texts, 2 kinds of cluster, 2 topologies, 3 settings, configuration saved or not |
| `Startup` | Is there one manager at a time, and one in the end; does a process find its own lock? | `LockInv`, `OneManager`, `NobodyWaitsForItself`, `EventuallyManaged` | 4 pods, 1 upgrade, 2 failures |

Why the bounds are enough to be of interest: a hazard here needs a stale copy (one edit after the
fetch), a competing version (a second edit), and one failure or restart; a third edit adds deletion and
re-creation. Two topologies are the first case where the default DaemonSet inverts several. `MaxPending`
is 2: a creation and a removal, both undelivered. The loops of `ConfigTransform` read and write one option
at a time: a marked key, the plain one it becomes, and the same without prefix and of another driver are
all that can meet. Four pods are one for each version and one for each failure, so that a pod that is to
be created always has a name. Nothing is bounded in the theorems.

The system may rest when users do, so deadlock is not an error (`CHECK_DEADLOCK FALSE`).

### Where code and text disagree

| Run | What TLC shows |
|---|---|
| `SnapshotsOff` | Disabling snapshots does not remove the VolumeSnapshotClass: the delete is in the branch of the failed read (`EC` 343). |
| `NoEmberConfig` | A `multipath` key without `X_CSI_EMBER_CONFIG` kills the operator (`EC` 153). |
| `TwoKeys` | Two keys in the system files secret make the controller rewrite the CR forever (`EC` 122). |
| `TextForwarded` | Text that is not JSON is replaced in the secret by the second pass (`EC` 146, 224). The update of the first pass has emptied a persistence configuration in text too (`EC` 139-140), which a later one fills in with the default. |
| `Redacted` | Objects are built from the redacted configuration, so that image and LVM volumes never see the driver (`EC` 224), and on later passes get `request_multipath` "REDACTED" (`EC` 151). |
| `Rollout` | The pod of a new version becomes ready only as leader, and the rolling update keeps the old leader until it is ready: an upgrade does not get through (`main.go` 49, 74). |

Each of these runs checks one property that a document, a comment or a constant of the repository
promises; `PROJECT.json` quotes it under "findings". More limits of the code have no such text
against them and no run; the properties are stated so that they do not hide them:

- Where the snapshot CRD is missing and snapshots are disabled, the branch of `SnapshotsOff` is taken and
  fails, on every pass, before the CSIDriver is created. `Recreated` has such a cluster and shows that
  the workloads do not suffer; `EventuallyDeployed` is checked where the CRD is installed.
- Inverting `Gt` gives `Lt`, which misses the bound itself, and a conjunction is inverted term by term
  (`node.go` 28-48), so that nodes get no plugin. What the run `Placement` and the theorems on
  `NoNodeForgotten` and `OnePluginWhenSettled` speak of are single requirements without these
  operators (`Simple`).
- DaemonSets keep their old affinity when the topologies are edited (`EC` 264-287). `DefaultApart`,
  `NoNodeForgotten`, `OnePluginWhenSettled` and `EventuallyOnePlugin` speak of DaemonSets built from the
  same topologies. The StatefulSet keeps the
  topology list it was created with.
- A redacted configuration in which one value was typed anew is taken for redacted as a whole (`EC`
  163-165): the value is neither saved nor used, and stays visible. `EventuallyRedacted` excepts such a CR
  by name (`partial`), and one that takes the operator down (`NoEmberConfig`).
- Of a text `k1:v1,k2:v2` marked `csv_kvs` the driver gets the last pair only (`common.go` 557-565), though
  `build/olm-catalog/yaml-options-gen.py:25` and the help it writes for users (357) speak of several. It does
  so in one visit and in any order of the keys, so that it takes no model checker to see. `Result` is what the
  transformation computes, without any order, `Meaning` what marks and prefixes are written for, a dictionary
  of all pairs: `ResultIsMeaning` and `OrderDoesNotMatter` claim `Result` always and `Meaning` only where no
  text has several pairs (`SinglePairs`); with one, `Meaning` does not hold. A marked value that is no text panics: `ResultIsMeaning`
  says exactly when. The mark `empty_none` stays on a value that is not empty. The JSON text `null` as a
  whole configuration, which panics in `setJsonKeyIfEmpty`, is not among the inputs.
- LVM backends get the LVM directories only from a pass that did not save the configuration: this is the
  run `Redacted`. `LvmAsDriver` says that pods never get them for another driver, and that LVM backends
  have them where the configuration was not saved. The default DaemonSet has a topology of its own,
  `<plugin>-csi-topology: not-used` (`node.go` 342-349), which the topology list of the controller does not
  have; `TopologiesKnown` speaks of the others.
- A topology without labels makes the topology list unreadable (`common.go` 208), and mounts see
  "lvmvolume" in the name of the CR where volumes do not (`common.go` 253). `TopologiesKnown` and
  `MountsBacked` except them.
- A user who sets `CSI_MODE`, `CSI_ENDPOINT` or `X_CSI_NODE_ID` sets it for controller and nodes alike.
  `PluginsFit` does not speak of these.

## Fairness

- The worker is one goroutine that takes the next step of a pass and the next item of the queue:
  weak fairness of the pass (`FrontStep`, `Deployment`, `DeployStep`).
- Informers deliver every event (`SyncCr`, `SyncSecret`, `SyncObject`), the garbage collector and
  the DaemonSet controller are controllers of the cluster (`CollectSecret`, `Collect`, `Place`,
  `Evict`).
- The informer's resync, every ten hours by default (`Resync`): `EventuallyRedacted` needs it, as a
  pass that could not save or redact ends without an error. `EventuallyDeployed` does not rest on it
  for the watched kinds, as `NoLostWakeup` shows.
- Each process of the operator goes on (`Process`), pods that are being deleted end, Deployment and
  garbage collector are controllers of the cluster. `ConfigTransform` needs none: its properties speak
  of the states in which it has ended, and of each of its steps that it comes closer to the end.
- No fairness of users, failures, removals or restarts.

## Proofs

All theorems hold for every value of the constants that satisfies the named assumptions
(`BackendAssumption`, `CredentialsAssumption`, `ReconcilerAssumption`, `PlacementAssumption`,
`TransformAssumption`, `TemplatesAssumption`, `StartupAssumption`).

- `CredentialsProofs!TypeCorrect`, `RedactionIsSafe`, `EditsAreKept`. `RedactedIsSaved` alone is not
  inductive: a pass on an old copy could save other credentials over those of a redacted CR. The
  inductive invariant `IInv` adds what excludes this: the watch ends at the CR (`FeedInv`); a copy
  with the current resource version, and all the caches may still hand out, are that version, up to
  what passes write besides (`FreshInv`); when the CR is redacted, no older version that may still be
  read carries other credentials (`StaleInv`); a pass that is about to redact has saved what it is
  going to hide (`SavedInv`). `EditsAreKept` follows from `FreshInv`: an update is accepted only from a copy
  with the current version, and such a copy is that version's spec (`CopyOf`) up to the system file's key,
  `request_multipath` and what passes make of the persistence configuration. Writes through the shared map are in the way of all of these, and
  `AliasInv` says where they go. TLC checks `IInv` in the run `Credentials`.
- `CredentialVaultProofs!ImplementsVault`: each step of `Credentials` is a step of the vault or leaves
  shown and kept alone. That a pass saves nothing over other hidden credentials, and hides only what is
  kept, is what `IInv` says of the copies it may work on. `NothingIsLost` from the invariant `FirstInv`:
  without disturbances, and while all there is belongs to the first CR of the name, there is a secret
  where credentials are hidden or about to be.
- `ReconcilerProofs!Implements`: every step of `Reconciler` is a step of `Credentials` or leaves its
  state alone. What is proved of `Credentials` so holds of the whole reconciler, with no more work than
  the implication: `ReconcilerRedactionIsSafe`, `ReconcilerLosesNothing`, `ReconcilerKeepsEdits`, and
  `ReconcilerIsVault`, the refinement of `CredentialVault` through both levels.
- `ReconcilerProofs!WakeupsAreNotLost` and `ReconcilerTypeCorrect`, from the inductive invariant
  `DeployInv` and from `IInv`, which holds by `Implements`. `NoLostWakeup` speaks only of moments at
  which the controller rests; the invariant says at every moment, of each workload that is missing, who
  still knows: the work queue, an undelivered version of the CR, an undelivered event of the workload, or
  the pass, which has not come to it yet or has it in `dSNotFound` (`WakeInv`, `Ahead`). That the pass
  looks as far as the CR has topologies needs it to work on what the cache has, unless the CR is queued
  again (`PassInv`), and the cache to have what the CR is, unless the watch has more (`FeedInv` of
  `IInv`). It assumes that the cluster has the kinds StatefulSet and DaemonSet and that the controller
  watches them. TLC checks `DeployInv` in the run `Workloads`.
- `NodePlacementProofs!DefaultKeepsOff` from the lemma that no labels meet a requirement and its
  inversion; `NoneForgotten` from the lemma that they meet one of them, which needs the topologies to
  be single requirements without `Gt` and `Lt` (`Simple`). `ExactlyOnePlugin` is the safety core of
  `EventuallyOnePlugin`: once all DaemonSets are there and their pods placed (`Settled`), each node has
  exactly one pod. That is a statement about moments, and follows from `Covered` and `AtMostOne` once it
  is known that all DaemonSets have the same topologies. The inductive invariant `OneVersion` says so,
  and of the pass too, as long as nobody edited them. No two topologies of one CR may meet on a node
  (`Disjoint`): users write them for different zones, and the code does not look.
- `PodTemplatesProofs!LoopsInductive`, from which `OrderDoesNotMatter` and `TransformedOnce` follow. The
  inductive invariant `TransformInv` says of every key, visited or not, what it has at that moment: in
  the first loop a plain key has its own value as long as no key transformed into it has been
  visited (`FirstLoopInv`); in the second one a key without prefix has that of the driver in use once
  that is visited (`SecondLoopInv`). That a key inserted on the way may be visited too does not harm,
  as a visit of it finds nothing to do. It rests on `OneMark`. `MountsHaveVolumes` and `LvmForLvmOnly`
  follow for every section of the configuration: the transformation makes up no text (`UnmarkedText`), what is
  left has no prefix (`LeftoverFacts`), and what saving leaves mentions nothing (`SavedMentionsNothing`). That
  the result is what the marks mean needs that only a text of several pairs becomes a map of the last one
  (`UnmarkedForm`).
- `PodTemplatesProofs!LoopsEnd`: Go does not say whether a key that a loop inserts into its map is
  visited, so that the loops could feed themselves. The measure is `Pending`, the keys still to visit that
  are marked (first loop) or prefixed (second loop): each visit takes one of them away, or leaves them
  alone and has one key less to go. `VisitsRunOut` says so of each step that stays in a loop. As a key
  that is inserted has neither mark nor prefix, it holds whether or not the key is visited.
- `PodTemplatesProofs!PluginsAgree`, from the names that each of the two environments has (`EnvNames`) and
  the values of the two configurations in them (`EnvConfigs`, `PluginName`).
- `TopologyListProofs!TopologiesAreKnown`: the two loops that write the list put a comma after every entry
  and cut the last one off; the JSON text has a comma between the entries. Both are a `FlattenSeq`, and what
  that computes is a sequence of texts, each the one before with one part more (`Writes`). `LastEnd` says
  that a list whose parts end in a comma and one whose parts, but the first, begin with one are the same
  text up to a last comma; `CutOff` that `Truncate` removes it. It is applied to the entries of each
  topology and to the topologies of the list. The inductions behind it take the least counterexample
  (`Smallest`), as the library's induction theorems cannot be used.
- `OperatorStartupProofs!LockInvariant`, `OneManagerAtATime`: a process past the lock owns it
  (`LockInv`), as the lock is collected only when the owner's pod, and with it the process, is gone.
  `RestartGetsLockBack`: a process waits only after it found the lock to be another's, and no lock becomes
  that of a process that waits. It is the safety core of `EventuallyManaged`: a crash inside a pod
  cannot leave the operator waiting for itself.

Model-checked only: liveness (`EventuallyRedacted`, `Settles`, `EventuallyDeployed`, `EventuallyOwned`,
`EventuallyOnePlugin`, `EventuallyManaged`), which is out of reach of the prover. Every invariant and action
property of a passing run is the statement of a theorem.

## Not modelled

The contents of classes, labels and containers (images, arguments, security contexts), the reading of the
CSI version from its text, the choice among driver images, scheme registration, generated code other than
the copies above, the catalogue generator (its marks and prefixes are the inputs of `ConfigTransform`) and
manifests other than the operator's Deployment: none of them has state, and nothing is read back from
what they produce.

## Plan

1. The composition of `NodePlacement` with the caches of `Reconciler`, so that a DaemonSet built from a
   stale copy of the topologies meets relabelled nodes.
