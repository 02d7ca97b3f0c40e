----------------------------- MODULE Credentials -----------------------------
(***************************************************************************)
(* The first half of a pass of the EmberStorageBackend controller: one     *)
(* worker takes the custom resource (CR) from its work queue, reads it from *)
(* an informer cache that lags behind the API server, completes it, saves  *)
(* its storage credentials in a secret and redacts them in the CR, next to *)
(* users who edit the CR, others who remove the secret, the garbage        *)
(* collector, and restarts of the operator. The second half, which deploys *)
(* the workloads, is the one step Deploy here; Reconciler details it.      *)
(*                                                                         *)
(* One CR name is modelled: the keys of the work queue are independent.    *)
(* A step makes at most one write; the cached read before a write is in the *)
(* step of the write, as whatever happens between the two also happens,    *)
(* unseen by the cache, before the read.                                   *)
(***************************************************************************)
EXTENDS EmberBackend, Sequences

CONSTANTS
  Absent,      \* an object that does not exist
  Offers,      \* the specs users write
  Habits,      \* what users do: create, replace, amend, retype or delete the CR
  MaxEdits,    \* bound on the users' edits of the CR
  MaxUpsets    \* bound on failed API writes, removals and restarts

Cr     == [uid : Nat, spec : BackendSpec]
Secret == [owner : Nat, data : Configs]

\* The copy of the CR a pass works on.
\* fresh: the resourceVersion of `instance` is the one in the API server.
\* aliased: its X_CSI_EMBER_CONFIG map is the one in the informer cache.
Instance == [uid : Nat, spec : BackendSpec, fresh : BOOLEAN, aliased : BOOLEAN]

ASSUME CredentialsAssumption ==
  /\ Absent \notin Cr \cup Secret \cup Instance \cup Configs
  /\ Absent \notin [data : Configs, hidden : BOOLEAN]
  /\ Offers \subseteq {s \in BackendSpec :
                         /\ s.backend.mode = "plain" /\ s.persistence.mode = "plain"
                         /\ s.multipath = "unset" /\ s.sysKey = NoKey}
  /\ MaxEdits \in Nat /\ MaxUpsets \in Nat

VARIABLES
  cr,          \* the CR in the API server: Absent, or its uid and spec
  crFeed,      \* its versions the watch has not delivered yet, the last one is cr
  crCache,     \* the version in the informer cache
  secret,      \* secret ember-csi-operator-<name>: its owner's uid, its data
  secretCache, \* the cache has "none", an "old" version, or the "current" one
  queue,       \* the CR is in the work queue (which holds it at most once)
  pc,          \* the step of the pass under way, or "idle"
  inst,        \* the pass's `instance`
  edits,       \* users' edits so far; the next CR has the next number as its uid
  upsets       \* disturbances so far

crVars     == <<cr, crFeed, crCache>>
secretVars == <<secret, secretCache>>
credVars   == <<crVars, secretVars, queue, pc, inst, edits, upsets>>

Steps == {"idle", "sysFiles", "backend", "redact", "deploy"}

CredTypeOK ==
  /\ cr \in Cr \cup {Absent}
  /\ crFeed \in Seq(Cr \cup {Absent})
  /\ crCache \in Cr \cup {Absent}
  /\ secret \in Secret \cup {Absent}
  /\ secretCache \in {"none", "old", "current"}
  /\ secretCache = "current" => secret \in Secret
  /\ queue \in BOOLEAN
  /\ pc \in Steps
  /\ inst \in IF pc = "idle" THEN {Absent} ELSE Instance
  /\ edits \in 0..MaxEdits
  /\ upsets \in 0..MaxUpsets

CredInit ==
  /\ cr = Absent /\ crFeed = <<>> /\ crCache = Absent
  /\ secret = Absent /\ secretCache = "none"
  /\ queue = FALSE
  /\ pc = "idle" /\ inst = Absent
  /\ edits = 0 /\ upsets = 0
-----------------------------------------------------------------------------
(* The API server, as the client sees it.                                  *)

\* A new version of the CR: the API server drops a write that changes nothing.
PutCr(version) ==
  /\ cr' = version
  /\ crFeed' = IF version = cr THEN crFeed ELSE Append(crFeed, version)
  /\ crCache' = crCache

Disturb == upsets < MaxUpsets /\ upsets' = upsets + 1

\* client.Update of the CR with a changed spec. It is accepted only when the
\* resourceVersion of `instance` is current; it may also fail, and then it has
\* been applied or not.
UpdateCr(spec) ==
  LET written == PutCr([cr EXCEPT !.spec = spec])
      failed(fresh) == inst' = [inst EXCEPT !.spec = spec, !.fresh = fresh]
  IN \/ /\ inst.fresh /\ written
        /\ inst' = [inst EXCEPT !.spec = spec, !.aliased = FALSE]
        /\ UNCHANGED upsets
     \/ ~ inst.fresh /\ failed(FALSE) /\ UNCHANGED <<crVars, upsets>>
     \/ Disturb /\ failed(inst.fresh) /\ UNCHANGED crVars
     \/ Disturb /\ inst.fresh /\ written /\ failed(spec = cr.spec)

\* The pass goes on to another step, or ends; one that ends with an error puts
\* the CR back in the work queue.
GoTo(step) == pc' = step /\ UNCHANGED queue

FinishHolding(error) == \* broken: the pass leaves its copy behind
  pc' = "idle" /\ inst' = inst /\ queue' = (queue \/ error)

Finish(error) == pc' = "idle" /\ inst' = Absent /\ queue' = (queue \/ error)
-----------------------------------------------------------------------------
(* The first half of Reconcile, in the order of the code.                  *)

FetchAsCurrent == \* broken: takes the cached CR for the current one
  /\ pc = "idle" /\ queue /\ crCache # Absent
  /\ queue' = FALSE /\ pc' = "backend"
  /\ inst' = [uid |-> crCache.uid, spec |-> crCache.spec, fresh |-> TRUE, aliased |-> TRUE]
  /\ UNCHANGED <<crVars, secretVars, edits, upsets>>

Fetch ==
  /\ pc = "idle" /\ queue
  /\ queue' = FALSE
  /\ IF crCache = Absent
     THEN pc' = "idle" /\ inst' = inst
     ELSE /\ pc' = IF crCache.spec.sysFiles THEN "sysFiles" ELSE "backend"
          /\ inst' = [uid |-> crCache.uid, spec |-> crCache.spec,
                      fresh |-> crFeed = <<>>, aliased |-> TRUE]
  /\ UNCHANGED <<crVars, secretVars, edits, upsets>>

\* Ranging over the secret's data keeps the key Go's map order happens to put
\* last; a secret without keys, or that cannot be read, leaves the key as it is.
\* The outcome of the update is ignored.
ReadSysFilesAnew == \* broken: forgets the key when the secret cannot be read
  /\ pc = "sysFiles"
  /\ \E key \in SysKeys \cup {NoKey} : UpdateCr([inst.spec EXCEPT !.sysKey = key])
  /\ GoTo("backend") /\ UNCHANGED <<secretVars, edits>>

ReadSysFiles ==
  /\ pc = "sysFiles"
  /\ \E key \in IF SysKeys = {} THEN {inst.spec.sysKey} ELSE SysKeys :
       UpdateCr([inst.spec EXCEPT !.sysKey = key])
  /\ GoTo("backend")
  /\ UNCHANGED <<secretVars, edits>>

\* The secret is created when the cache has none, else updated: the API server
\* takes a creation if there is no secret, an update if the cached one is current.
SecretCreated == \* broken: the secret is never updated
  secretCache = "none" /\ secret = Absent

SecretAccepted ==
  IF secretCache = "none" THEN secret = Absent ELSE secretCache = "current"

\* The owner is set on creation only.
WriteSecret(data) ==
  LET create == secretCache = "none"
  IN /\ secret' = IF create THEN [owner |-> inst.uid, data |-> data]
                  ELSE [secret EXCEPT !.data = data]
     /\ secretCache' = IF secret' = secret \/ create THEN secretCache ELSE "old"

SaveSecretBlindly(data) == \* broken: redacts what could not be saved
  \/ SecretAccepted /\ WriteSecret(data) /\ GoTo("redact") /\ UNCHANGED upsets
  \/ ~ SecretAccepted /\ GoTo("redact") /\ UNCHANGED <<secretVars, upsets>>

RedactUnsaved(data) == \* broken: redacts without saving
  GoTo("redact") /\ UNCHANGED <<secretVars, upsets>>

SaveSecret(data) ==
  \/ SecretAccepted /\ WriteSecret(data) /\ GoTo("redact") /\ UNCHANGED upsets
  \/ ~ SecretAccepted /\ GoTo("deploy") /\ UNCHANGED <<secretVars, upsets>>
  \/ Disturb /\ GoTo("deploy") /\ UNCHANGED secretVars
  \/ Disturb /\ SecretAccepted /\ WriteSecret(data) /\ GoTo("deploy")

\* The persistence configuration is completed in `instance`, and request_multipath
\* set, through a map that may be the one in the cache; then the backend
\* configuration is saved unless it is redacted. A failure to save it is logged, and
\* nothing more.
SaveBackend ==
  /\ pc = "backend"
  /\ ~ WritesNilMap(inst.spec)
  /\ LET spec == SetOptions(inst.spec)
     IN /\ inst' = [inst EXCEPT !.spec = spec]
        /\ crCache' = IF inst.aliased
                      THEN [crCache EXCEPT !.spec.multipath = spec.multipath]
                      ELSE crCache
  /\ IF AlreadyRedacted(inst.spec.backend)
     THEN GoTo("deploy") /\ UNCHANGED <<secretVars, upsets>>
     ELSE SaveSecret(DataOf(inst.spec.backend))
  /\ UNCHANGED <<cr, crFeed, edits>>

\* The credentials are redacted only after they have been saved. The update writes
\* all of `instance`, the completed persistence configuration with it. One that
\* fails is logged, and the pass goes on with the redacted configuration.
RedactRefetched == \* broken: after a conflict, writes over the newer version
  /\ pc = "redact" /\ cr # Absent
  /\ PutCr([cr EXCEPT !.spec.backend = Redact(inst.spec.backend),
                      !.spec.persistence = inst.spec.persistence])
  /\ inst' = [inst EXCEPT !.spec.backend = Redact(@)]
  /\ GoTo("deploy") /\ UNCHANGED <<secretVars, edits, upsets>>

RedactCr ==
  /\ pc = "redact"
  /\ UpdateCr([inst.spec EXCEPT !.backend = Redact(@)])
  /\ GoTo("deploy")
  /\ UNCHANGED <<secretVars, edits>>

\* The rest of the pass, which writes neither the CR nor the secret.
Deploy(error) ==
  /\ pc = "deploy" /\ Finish(error)
  /\ UNCHANGED <<crVars, secretVars, edits>>
-----------------------------------------------------------------------------
(* Users, who edit the CR through the API server.                          *)

UserWrites(version) ==
  /\ edits < MaxEdits /\ edits' = edits + 1
  /\ PutCr(version)
  /\ inst' = IF inst = Absent THEN inst ELSE [inst EXCEPT !.fresh = FALSE]
  /\ UNCHANGED <<secretVars, queue, pc, upsets>>

CreateCr ==
  /\ "create" \in Habits /\ cr = Absent
  /\ \E s \in Offers : UserWrites([uid |-> edits + 1, spec |-> s])

ReplaceSpec ==
  /\ "replace" \in Habits /\ cr # Absent
  /\ \E s \in Offers \ {cr.spec} : UserWrites([cr EXCEPT !.spec = s])

\* An edit of the stored resource that leaves alone the backend configuration it
\* shows, and the persistence configuration as well or writes it anew.
AmendSpec ==
  /\ "amend" \in Habits /\ cr # Absent
  /\ \E s \in Offers : \E store \in {cr.spec.persistence, s.persistence} :
       LET amended == [cr.spec EXCEPT !.snapshots = s.snapshots, !.topologies = s.topologies,
                                      !.persistence = store]
       IN amended # cr.spec /\ UserWrites([cr EXCEPT !.spec = amended])

\* Some of the redacted values of the stored resource are typed anew.
RetypeCredential ==
  /\ "retype" \in Habits /\ cr # Absent /\ cr.spec.backend.mode = "redacted"
  /\ UserWrites([cr EXCEPT !.spec.backend.mode = "partial"])

DeleteCr == "delete" \in Habits /\ cr # Absent /\ UserWrites(Absent)

UserAction == CreateCr \/ ReplaceSpec \/ AmendSpec \/ RetypeCredential \/ DeleteCr
-----------------------------------------------------------------------------
(* The secret's removal, by others and by the garbage collector.           *)

LoseSecret ==
  /\ secret # Absent /\ secret' = Absent
  /\ secretCache' = IF secretCache = "current" THEN "old" ELSE secretCache
  /\ UNCHANGED <<crVars, queue, pc, inst, edits>>

RemoveSecret == Disturb /\ LoseSecret

Orphan(object) == object # Absent /\ (cr # Absent => cr.uid # object.owner)

CollectSecret == Orphan(secret) /\ LoseSecret /\ UNCHANGED upsets
-----------------------------------------------------------------------------
(* The informers, which update the caches and fill the work queue, and the *)
(* restarts of the operator.                                               *)

SyncCr ==
  /\ crFeed # <<>>
  /\ crCache' = Head(crFeed) /\ crFeed' = Tail(crFeed)
  /\ queue' = TRUE
  /\ inst' = IF inst = Absent THEN inst ELSE [inst EXCEPT !.aliased = FALSE]
  /\ UNCHANGED <<cr, secretVars, pc, edits, upsets>>

\* The owner handler passes over the secret: its owner is not its controller.
SyncSecret ==
  /\ secretCache' = IF secret = Absent THEN "none" ELSE "current"
  /\ secretCache' # secretCache
  /\ UNCHANGED <<crVars, secret, queue, pc, inst, edits, upsets>>

\* Every ten hours the informer hands its whole cache to the handlers again.
Resync ==
  /\ crCache # Absent /\ ~ queue
  /\ queue' = TRUE
  /\ UNCHANGED <<crVars, secretVars, pc, inst, edits, upsets>>

\* A new operator process lists everything and queues the CR if there is one, or
\* objects of it.
StartOver ==
  /\ crCache' = cr /\ crFeed' = <<>>
  /\ secretCache' = IF secret = Absent THEN "none" ELSE "current"
  /\ \E again \in BOOLEAN : (cr # Absent => again) /\ queue' = again
  /\ pc' = "idle" /\ inst' = Absent
  /\ UNCHANGED <<cr, secret, edits>>

Crash == Disturb /\ StartOver

\* The write into the nil map kills the process.
Panic ==
  /\ pc = "backend" /\ WritesNilMap(inst.spec)
  /\ StartOver /\ UNCHANGED upsets

\* What the workloads do to the rest: their events queue the CR, and some of the
\* disturbances are theirs.
WorkloadEvent ==
  /\ queue' \in {queue, TRUE}
  /\ UNCHANGED upsets \/ Disturb
  /\ UNCHANGED <<crVars, secretVars, pc, inst, edits>>
-----------------------------------------------------------------------------
FrontStep == Fetch \/ ReadSysFiles \/ SaveBackend \/ Panic \/ RedactCr

\* The end of the pass, after which it may be retried; failing writes of the
\* workloads count among the disturbances.
DeployStep == \E error \in BOOLEAN : Deploy(error)
                 /\ (UNCHANGED upsets \/ (error /\ Disturb))

Around == CollectSecret \/ RemoveSecret \/ Crash

CredNext == FrontStep \/ DeployStep \/ UserAction \/ SyncCr \/ SyncSecret
            \/ Around \/ Resync \/ WorkloadEvent

CredSpec == CredInit /\ [][CredNext]_credVars

\* The worker keeps going, the watches deliver, the garbage collector collects,
\* and the informer resyncs. Users, other actors, failures and restarts promise
\* nothing.
CredFairSpec ==
  /\ CredSpec
  /\ WF_credVars(FrontStep \/ DeployStep)
  /\ WF_credVars(SyncCr) /\ WF_credVars(SyncSecret)
  /\ WF_credVars(CollectSecret) /\ WF_credVars(Resync)
-----------------------------------------------------------------------------
(* Properties.                                                             *)

\* Credentials are hidden in the CR only once they are saved: if the CR shows no
\* credentials, then the secret, unless it was removed, holds the very ones that
\* were hidden, whatever a pass working on an old version of the CR has written
\* to it since (embercsi_controller.go:171-231).
RedactedIsSaved ==
  cr # Absent /\ AlreadyRedacted(cr.spec.backend) /\ secret # Absent
    => secret.data = cr.spec.backend.cfg

\* Redaction never leaves the user without the credentials: as long as nothing
\* went wrong and no CR of this name was there before, whose secret would go with
\* it, a redacted CR has its secret (embercsi_controller.go:221-231).
NothingLost ==
  cr # Absent /\ AlreadyRedacted(cr.spec.backend) /\ cr.uid = 1 /\ upsets = 0
    => secret # Absent /\ secret.data = cr.spec.backend.cfg

\* The operator writes the CR whole, from a copy it read earlier. Even so no edit
\* made meanwhile is undone: apart from the system file's key and request_multipath,
\* which are its own to set, a write replaces the backend configuration by the
\* redaction of what it is at that moment, or leaves it, the persistence configuration
\* by the completion of what it is at that moment, or leaves it, and changes nothing
\* else (embercsi_controller.go:124, 134-140, 224-225). What completion and redaction
\* themselves lose of a text is another question: see TextForwarded.
EditsSurvive ==
  [][ cr' # cr /\ edits' = edits =>
        /\ cr # Absent /\ cr' # Absent /\ cr'.uid = cr.uid
        /\ cr'.spec.backend \in {cr.spec.backend, Redact(cr.spec.backend)}
        /\ cr'.spec.persistence \in {cr.spec.persistence, Completed(cr.spec.persistence)}
        /\ [cr'.spec EXCEPT !.backend = cr.spec.backend,
                            !.persistence = cr.spec.persistence,
                            !.sysKey = cr.spec.sysKey,
                            !.multipath = cr.spec.multipath] = cr.spec ]_credVars

\* Credentials do not stay in the CR: once users leave it alone, every value of its
\* backend configuration is redacted (a text, emptied first, in the pass after), or
\* it is deleted. A pass that could not save or redact them does not try again by
\* itself, so this needs the resync. Two kinds of CR are excepted: one that takes the
\* process down (EmberConfigOptional says that there should be none), and one where
\* single values were typed anew next to redacted ones: a pass takes it for redacted
\* as a whole (embercsi_controller.go:163-165), and those values stay visible.
EventuallyRedacted ==
  <>[](cr # Absent /\ ~ WritesNilMap(cr.spec) /\ cr.spec.backend.mode # "partial"
         => cr.spec.backend.mode = "redacted")

\* Text that does not parse as JSON is forwarded unmodified, and nothing of the
\* operator's own takes its place: while the CR descends from a backend configuration
\* in text, the secret holds that, and no default is filled in for a persistence
\* configuration in text (common.go:503-514, embercsi_controller.go:134-146).
TextForwarded ==
  cr # Absent =>
    /\ secret # Absent /\ cr.spec.backend.mode = "emptied"
         => secret.data = cr.spec.backend.cfg
    /\ cr.spec.persistence.cfg \in TextStores => cr.spec.persistence.mode # "filled"

\* X_CSI_EMBER_CONFIG may be left out: no pass takes the process down over it.
EmberConfigOptional == pc = "backend" => ~ WritesNilMap(inst.spec)

\* The passes come to rest: from some moment on the operator does not change the
\* CR any more, so that its own updates stop waking it.
Settles == <>[][cr' = cr]_credVars
-----------------------------------------------------------------------------
(* The abstract specification.                                             *)

\* What the CR shows of the credentials, as the user's data.
ShownCredentials ==
  IF cr = Absent THEN Absent
  ELSE [data   |-> IF AlreadyRedacted(cr.spec.backend) THEN cr.spec.backend.cfg
                   ELSE DataOf(cr.spec.backend),
        hidden |-> AlreadyRedacted(cr.spec.backend)]

KeptCredentials == IF secret = Absent THEN Absent ELSE secret.data

Vault == INSTANCE CredentialVault WITH
  Nothing <- Absent, Data <- Configs, Blank <- NameOnly,
  shown <- ShownCredentials, kept <- KeptCredentials

\* The operator is a vault: at no step, of a pass on a stale copy, of a retry or of
\* a restart, does it hide other credentials than it keeps, or keep others while
\* they are hidden (embercsi_controller.go:157-231).
KeepsVault == Vault!Spec
-----------------------------------------------------------------------------
(* The inductive invariant that carries the safety properties.             *)

\* What the caches may hand out: the version the informer has, and those to come.
Readable == {crCache} \cup {crFeed[i] : i \in 1..Len(crFeed)}

\* Two specs differ at most in what passes write besides the redaction.
SameEdit(s, t) == [s EXCEPT !.multipath = t.multipath, !.sysKey = t.sysKey] = t

SameVersion(v, w) ==
  /\ v # Absent /\ w # Absent
  /\ v.uid = w.uid /\ SameEdit(v.spec, w.spec)

\* The watch ends at the version in the API server.
FeedInv ==
  IF crFeed = <<>> THEN crCache = cr \/ SameVersion(crCache, cr)
                   ELSE crFeed[Len(crFeed)] = cr

\* What the copy of a spec has become by the step the pass is at.
CopyOf(spec) == IF pc = "redact" THEN [spec EXCEPT !.persistence = Completed(@)] ELSE spec

\* Until the pass has redacted it, a copy whose resourceVersion is current is one of
\* the CR, and so is every version the caches may hand out.
FreshInv ==
  inst # Absent /\ inst.fresh =>
    /\ cr # Absent
    /\ pc # "deploy" => /\ \A v \in Readable : SameVersion(v, cr)
                        /\ inst.uid = cr.uid /\ SameEdit(inst.spec, CopyOf(cr.spec))

AliasInv == inst # Absent /\ inst.aliased => crCache # Absent

\* When the CR is redacted, no version a pass may still work on would save other
\* credentials.
StaleInv ==
  cr # Absent /\ AlreadyRedacted(cr.spec.backend) =>
    \A v \in Readable \cup (IF pc \in {"sysFiles", "backend"} THEN {inst} ELSE {}) :
      v # Absent /\ ~ AlreadyRedacted(v.spec.backend) =>
        DataOf(v.spec.backend) = cr.spec.backend.cfg

\* Redaction starts from credentials that are in the secret.
SavedInv ==
  pc = "redact" => /\ ~ AlreadyRedacted(inst.spec.backend)
                   /\ secret # Absent => secret.data = DataOf(inst.spec.backend)

IInv ==
  /\ CredTypeOK
  /\ FeedInv /\ FreshInv /\ AliasInv
  /\ StaleInv /\ SavedInv
  /\ RedactedIsSaved
=============================================================================
