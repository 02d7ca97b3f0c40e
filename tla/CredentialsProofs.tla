-------------------------- MODULE CredentialsProofs --------------------------
(* Proofs about Credentials, for every value of its constants.             *)
EXTENDS Credentials, TLAPS

-----------------------------------------------------------------------------
(* What a pass does to a spec.                                             *)

\* Redaction, whatever the configuration, leaves a backend configuration; it
\* changes a visible one only into an empty map or into a hidden one that
\* stands for the data just saved (embercsi_controller.go:157-169, 224).
LEMMA RedactType ==
  ASSUME NEW b \in Backend
  PROVE  /\ Redact(b) \in Backend
         /\ DataOf(b) \in Configs
         /\ AlreadyRedacted(Redact(b)) => Redact(b).cfg = DataOf(b)
BY BackendAssumption DEF Redact, DataOf, Backend, Modes, Configs, AlreadyRedacted

\* Completing a persistence configuration changes what is left of it, not where it
\* comes from (embercsi_controller.go:133-140).
LEMMA CompletedType ==
  ASSUME NEW p \in Persistence
  PROVE  Completed(p) \in Persistence
BY DEF Completed, Persistence

\* A pass changes the persistence configuration and request_multipath, and nothing
\* else, before it saves the backend configuration (embercsi_controller.go:133-155).
LEMMA SetOptionsType ==
  ASSUME NEW s \in BackendSpec
  PROVE  /\ SetOptions(s) \in BackendSpec
         /\ SetOptions(s).multipath \in Multipath
         /\ SetOptions(s) = [s EXCEPT !.persistence = Completed(s.persistence),
                                      !.multipath = SetOptions(s).multipath]
<1> DEFINE t == [s EXCEPT !.persistence = Completed(s.persistence)]
<1>1. t \in BackendSpec /\ t.backend = s.backend
  BY CompletedType DEF BackendSpec
<1>2. MultipathOf(s.backend) \in Multipath
  BY DEF MultipathOf, Multipath
<1>3. /\ SetMultipath(t) \in BackendSpec /\ SetMultipath(t).multipath \in Multipath
      /\ SetMultipath(t) = [t EXCEPT !.multipath = SetMultipath(t).multipath]
  <2> HIDE DEF t
  <2> QED
    BY <1>1, <1>2 DEF SetMultipath, BackendSpec
<1>4. SetOptions(s) = SetMultipath(t)
  BY DEF SetOptions
<1>5. [t EXCEPT !.multipath = SetMultipath(t).multipath]
        = [s EXCEPT !.persistence = Completed(s.persistence),
                    !.multipath = SetMultipath(t).multipath]
  OBVIOUS
<1> QED
  BY <1>3, <1>4, <1>5

LEMMA SameEditFacts ==
  ASSUME NEW s \in BackendSpec, NEW t \in BackendSpec
  PROVE  /\ SameEdit(s, s)
         /\ SameEdit(s, t) => s.backend = t.backend /\ s.persistence = t.persistence
         /\ SameEdit(s, t) => SameEdit(t, s)
         /\ \A m \in Multipath : SameEdit(s, t) => SameEdit([s EXCEPT !.multipath = m], t)
         /\ \A m \in Multipath : SameEdit(s, t) => SameEdit(s, [t EXCEPT !.multipath = m])
         /\ \A k \in SysKeys \cup {NoKey} : SameEdit(s, t) => SameEdit([s EXCEPT !.sysKey = k], t)
         /\ \A k \in SysKeys \cup {NoKey} : SameEdit(s, t) => SameEdit(s, [t EXCEPT !.sysKey = k])
BY DEF SameEdit, BackendSpec

\* A copy remains one of the same edit when both get the same configuration.
LEMMA SameEditReplaced ==
  ASSUME NEW s \in BackendSpec, NEW t \in BackendSpec, SameEdit(s, t)
  PROVE  /\ \A p \in Persistence :
              SameEdit([s EXCEPT !.persistence = p], [t EXCEPT !.persistence = p])
         /\ \A b \in Backend : SameEdit([s EXCEPT !.backend = b], [t EXCEPT !.backend = b])
BY DEF SameEdit, BackendSpec

LEMMA SameEditTransitive ==
  ASSUME NEW s \in BackendSpec, NEW t \in BackendSpec, NEW u \in BackendSpec,
         SameEdit(s, t), SameEdit(t, u)
  PROVE  SameEdit(s, u)
BY DEF SameEdit, BackendSpec
-----------------------------------------------------------------------------
(* What a write of the CR, and its delivery, do to the versions around.    *)

Version == Cr \cup {Absent}

LEMMA PutFacts ==
  ASSUME CredTypeOK, NEW v \in Version, PutCr(v), FeedInv
  PROVE  /\ cr' = v /\ cr' \in Version
         /\ crCache' = crCache
         /\ crFeed' \in Seq(Version)
         /\ Readable' \subseteq Readable \cup {v}
         /\ FeedInv'
<1>1. CASE v = cr
  BY <1>1 DEF PutCr, FeedInv, CredTypeOK, Version, Readable
<1>2. CASE v # cr
  <2>1. /\ crFeed' \in Seq(Version) /\ Len(crFeed') = Len(crFeed) + 1
        /\ crFeed'[Len(crFeed')] = v /\ crFeed' # <<>>
        /\ \A i \in 1..Len(crFeed) : crFeed'[i] = crFeed[i]
    BY <1>2 DEF PutCr, CredTypeOK, Version
  <2>2. \A i \in 1..Len(crFeed') : i \in 1..Len(crFeed) \/ i = Len(crFeed')
    BY <2>1 DEF CredTypeOK
  <2> QED
    BY <2>1, <2>2, <1>2 DEF PutCr, Readable, FeedInv
<1> QED
  BY <1>1, <1>2

LEMMA SyncFacts ==
  ASSUME CredTypeOK, FeedInv, SyncCr
  PROVE  /\ crCache' \in Version /\ crFeed' \in Seq(Version)
         /\ Readable' \subseteq Readable
         /\ FeedInv'
<1>1. /\ crFeed \in Seq(Version) /\ crFeed # <<>>
      /\ crCache' = crFeed[1] /\ crFeed' = Tail(crFeed) /\ cr' = cr
  BY DEF SyncCr, CredTypeOK, Version
<1>2. /\ Len(crFeed) \in Nat \ {0}
      /\ crFeed' \in Seq(Version) /\ Len(crFeed') = Len(crFeed) - 1
      /\ \A i \in 1..Len(crFeed') : crFeed'[i] = crFeed[i + 1]
  BY <1>1
<1>3. Readable' \subseteq Readable
  BY <1>1, <1>2 DEF Readable
<1>4. FeedInv'
  <2>1. CASE Len(crFeed) = 1
    BY <1>1, <1>2, <2>1 DEF FeedInv
  <2>2. CASE Len(crFeed) > 1
    BY <1>1, <1>2, <2>2 DEF FeedInv
  <2> QED
    BY <1>2, <2>1, <2>2
<1> QED
  BY <1>1, <1>2, <1>3, <1>4

LEMMA ReadableType ==
  ASSUME CredTypeOK PROVE Readable \subseteq Version
BY DEF CredTypeOK, Readable, Version
-----------------------------------------------------------------------------
(* Every step keeps IInv: users.                                           *)

LEMMA PassInstance ==
  ASSUME CredTypeOK
  PROVE  /\ pc = "idle" => inst = Absent
         /\ pc # "idle" => inst \in Instance /\ inst # Absent
BY CredentialsAssumption DEF CredTypeOK

LEMMA UserWritesStep ==
  ASSUME IInv, NEW v \in Version, UserWrites(v),
         v # Absent /\ AlreadyRedacted(v.spec.backend) =>
           /\ cr # Absent /\ AlreadyRedacted(cr.spec.backend)
           /\ v.spec.backend.cfg = cr.spec.backend.cfg
  PROVE  IInv'
<1>1. /\ cr' = v /\ cr' \in Version /\ crCache' = crCache
      /\ crFeed' \in Seq(Version) /\ Readable' \subseteq Readable \cup {v} /\ FeedInv'
  BY PutFacts DEF IInv, UserWrites
<1>2. /\ UNCHANGED <<secret, secretCache, queue, pc, upsets>>
      /\ edits' \in 0..MaxEdits
  BY CredentialsAssumption DEF IInv, CredTypeOK, UserWrites, secretVars
<1>3. /\ inst' \in IF pc = "idle" THEN {Absent} ELSE Instance
      /\ inst' # Absent => inst # Absent /\ ~ inst'.fresh /\ inst'.aliased = inst.aliased
      /\ pc # "idle" => inst' # Absent /\ inst'.spec = inst.spec
  <2>1. CASE pc = "idle"
    BY <2>1, PassInstance DEF IInv, UserWrites
  <2>2. CASE pc # "idle"
    <3>1. inst \in Instance /\ inst # Absent /\ inst' = [inst EXCEPT !.fresh = FALSE]
      BY <2>2, PassInstance DEF IInv, UserWrites
    <3>2. inst' \in Instance /\ ~ inst'.fresh
          /\ inst'.spec = inst.spec /\ inst'.aliased = inst.aliased
      BY <3>1 DEF Instance
    <3> QED
      BY <2>2, <3>1, <3>2, CredentialsAssumption
  <2> QED
    BY <2>1, <2>2
<1>4. CredTypeOK'
  BY <1>1, <1>2, <1>3 DEF IInv, CredTypeOK, Version
<1>5. FreshInv' /\ AliasInv'
  BY <1>1, <1>3 DEF IInv, FreshInv, AliasInv
<1>6. StaleInv' /\ SavedInv' /\ RedactedIsSaved'
  <2>1. \A w \in Readable \cup (IF pc \in {"sysFiles", "backend"} THEN {inst} ELSE {}) :
          w # Absent /\ ~ AlreadyRedacted(w.spec.backend) /\ v # Absent /\ AlreadyRedacted(v.spec.backend)
            => DataOf(w.spec.backend) = v.spec.backend.cfg
    BY DEF IInv, StaleInv
  <2>2. StaleInv'
    BY <1>1, <1>2, <1>3, <2>1 DEF StaleInv, IInv, AlreadyRedacted, DataOf
  <2>3. SavedInv'
    BY <1>2, <1>3 DEF IInv, SavedInv, AlreadyRedacted, DataOf
  <2>4. RedactedIsSaved'
    BY <1>1, <1>2 DEF IInv, RedactedIsSaved, AlreadyRedacted
  <2> QED
    BY <2>2, <2>3, <2>4
<1> QED
  BY <1>1, <1>4, <1>5, <1>6 DEF IInv

LEMMA UserStep ==
  ASSUME IInv, UserAction PROVE IInv'
<1> USE DEF Version
<1>1. CASE CreateCr
  <2>1. PICK s \in Offers : UserWrites([uid |-> edits + 1, spec |-> s])
    BY <1>1 DEF CreateCr
  <2>2. s \in BackendSpec /\ ~ AlreadyRedacted(s.backend)
    BY CredentialsAssumption DEF AlreadyRedacted
  <2>3. [uid |-> edits + 1, spec |-> s] \in Version
    BY <2>2, CredentialsAssumption DEF IInv, CredTypeOK, Cr
  <2> QED
    BY <2>1, <2>2, <2>3, UserWritesStep
<1>2. CASE ReplaceSpec
  <2>1. cr \in Cr /\ cr # Absent
    BY <1>2 DEF ReplaceSpec, IInv, CredTypeOK
  <2>2. PICK s \in Offers : UserWrites([cr EXCEPT !.spec = s])
    BY <1>2 DEF ReplaceSpec
  <2>3. s \in BackendSpec /\ ~ AlreadyRedacted(s.backend)
    BY CredentialsAssumption DEF AlreadyRedacted
  <2>4. [cr EXCEPT !.spec = s] \in Version /\ [cr EXCEPT !.spec = s].spec = s
    BY <2>1, <2>3 DEF Cr
  <2> QED
    BY <2>2, <2>3, <2>4, UserWritesStep
<1>3. CASE AmendSpec
  <2>1. cr \in Cr /\ cr # Absent
    BY <1>3 DEF AmendSpec, IInv, CredTypeOK
  <2>2. PICK s \in Offers : \E store \in {cr.spec.persistence, s.persistence} :
          UserWrites([cr EXCEPT !.spec = [cr.spec EXCEPT !.snapshots = s.snapshots,
                                                         !.topologies = s.topologies,
                                                         !.persistence = store]])
    BY <1>3 DEF AmendSpec
  <2>3. PICK store \in {cr.spec.persistence, s.persistence} :
          UserWrites([cr EXCEPT !.spec = [cr.spec EXCEPT !.snapshots = s.snapshots,
                                                         !.topologies = s.topologies,
                                                         !.persistence = store]])
    BY <2>2
  <2> DEFINE t == [cr.spec EXCEPT !.snapshots = s.snapshots, !.topologies = s.topologies,
                                  !.persistence = store]
  <2>4. s \in BackendSpec /\ store \in Persistence
    BY <2>1, CredentialsAssumption DEF Cr, BackendSpec
  <2>5. t \in BackendSpec /\ t.backend = cr.spec.backend
    BY <2>1, <2>4 DEF Cr, BackendSpec
  <2>6. [cr EXCEPT !.spec = t] \in Version /\ [cr EXCEPT !.spec = t].spec = t
    BY <2>1, <2>5 DEF Cr
  <2> QED
    BY <2>1, <2>3, <2>5, <2>6, UserWritesStep
<1>4. CASE RetypeCredential
  <2>1. cr \in Cr /\ cr # Absent /\ cr.spec.backend.mode = "redacted"
    BY <1>4 DEF RetypeCredential, IInv, CredTypeOK
  <2> DEFINE v == [cr EXCEPT !.spec.backend.mode = "partial"]
  <2>2. v \in Version /\ v.spec.backend.cfg = cr.spec.backend.cfg
    BY <2>1 DEF Cr, BackendSpec, Backend, Modes
  <2>3. AlreadyRedacted(cr.spec.backend)
    BY <2>1 DEF AlreadyRedacted
  <2>4. UserWrites(v)
    BY <1>4 DEF RetypeCredential
  <2> QED
    BY <2>1, <2>2, <2>3, <2>4, UserWritesStep
<1>5. CASE DeleteCr
  BY <1>5, UserWritesStep DEF DeleteCr
<1> QED
  BY <1>1, <1>2, <1>3, <1>4, <1>5 DEF UserAction

(* The secret's removal, the informers and restarts.                       *)

LEMMA LoseSecretStep ==
  ASSUME IInv, LoseSecret, upsets' \in 0..MaxUpsets PROVE IInv'
<1>1. CredTypeOK'
  BY DEF IInv, CredTypeOK, LoseSecret, crVars
<1> QED
  BY <1>1 DEF IInv, LoseSecret, crVars, FeedInv, FreshInv, CopyOf, AliasInv, StaleInv, SavedInv,
              RedactedIsSaved, Readable

LEMMA SyncCrStep ==
  ASSUME IInv, SyncCr PROVE IInv'
<1>1. /\ crCache' \in Version /\ crFeed' \in Seq(Version)
      /\ Readable' \subseteq Readable /\ FeedInv'
  BY SyncFacts DEF IInv
<1>2. UNCHANGED <<cr, secret, secretCache, pc, edits, upsets>> /\ queue' = TRUE
  BY DEF SyncCr, secretVars
<1>3. /\ inst' \in IF pc = "idle" THEN {Absent} ELSE Instance
      /\ inst' # Absent => inst # Absent /\ ~ inst'.aliased /\ inst'.fresh = inst.fresh
      /\ pc # "idle" => inst' # Absent /\ inst'.spec = inst.spec /\ inst'.uid = inst.uid
  <2>1. CASE pc = "idle"
    BY <2>1, PassInstance DEF IInv, SyncCr
  <2>2. CASE pc # "idle"
    <3>1. inst \in Instance /\ inst # Absent /\ inst' = [inst EXCEPT !.aliased = FALSE]
      BY <2>2, PassInstance DEF IInv, SyncCr
    <3>2. inst' \in Instance /\ ~ inst'.aliased
          /\ inst'.spec = inst.spec /\ inst'.fresh = inst.fresh /\ inst'.uid = inst.uid
      BY <3>1 DEF Instance
    <3> QED
      BY <2>2, <3>1, <3>2, CredentialsAssumption
  <2> QED
    BY <2>1, <2>2
<1>4. CredTypeOK'
  BY <1>1, <1>2, <1>3 DEF IInv, CredTypeOK, Version
<1>5. FreshInv'
  <2> SUFFICES ASSUME inst' # Absent, inst'.fresh
               PROVE  /\ cr # Absent
                      /\ pc # "deploy" =>
                           /\ \A v \in Readable' : SameVersion(v, cr)
                           /\ inst'.uid = cr.uid /\ SameEdit(inst'.spec, CopyOf(cr.spec))
    BY <1>2 DEF FreshInv, SameVersion, CopyOf
  <2>1. /\ cr # Absent
        /\ pc # "deploy" => /\ \A v \in Readable : SameVersion(v, cr)
                            /\ inst.uid = cr.uid /\ SameEdit(inst.spec, CopyOf(cr.spec))
    BY <1>3 DEF IInv, FreshInv
  <2>2. pc # "idle"
    BY <1>3
  <2> QED
    BY <1>1, <1>3, <2>1, <2>2
<1>6. AliasInv'
  BY <1>3 DEF AliasInv
<1>7. StaleInv'
  BY <1>1, <1>2, <1>3 DEF IInv, StaleInv
<1>8. SavedInv' /\ RedactedIsSaved'
  BY <1>2, <1>3 DEF IInv, SavedInv, RedactedIsSaved
<1> QED
  BY <1>1, <1>4, <1>5, <1>6, <1>7, <1>8 DEF IInv

LEMMA QuietStep ==
  ASSUME IInv, SyncSecret \/ Resync \/ WorkloadEvent PROVE IInv'
<1>1. UNCHANGED <<cr, crFeed, crCache, secret, pc, inst>>
  BY DEF SyncSecret, Resync, WorkloadEvent, crVars, secretVars
<1>2. CredTypeOK'
  <2>1. CASE SyncSecret
    BY <2>1 DEF IInv, CredTypeOK, SyncSecret, crVars
  <2>2. CASE Resync
    BY <2>2 DEF IInv, CredTypeOK, Resync, crVars, secretVars
  <2>3. CASE WorkloadEvent
    <3>1. queue' \in BOOLEAN
      BY <2>3, Zenon DEF IInv, CredTypeOK, WorkloadEvent
    <3>2. upsets' \in 0..MaxUpsets
      BY <2>3, CredentialsAssumption DEF IInv, CredTypeOK, WorkloadEvent, Disturb
    <3> QED
      BY <2>3, <3>1, <3>2 DEF IInv, CredTypeOK, WorkloadEvent, crVars, secretVars
  <2> QED
    BY <2>1, <2>2, <2>3
<1> QED
  BY <1>1, <1>2 DEF IInv, FeedInv, FreshInv, CopyOf, AliasInv, StaleInv, SavedInv,
                    RedactedIsSaved, Readable

LEMMA StartOverStep ==
  ASSUME IInv, StartOver, upsets' \in 0..MaxUpsets PROVE IInv'
<1>1. /\ UNCHANGED <<cr, secret, edits>> /\ pc' = "idle" /\ inst' = Absent
      /\ crCache' = cr /\ crFeed' = <<>>
  BY DEF StartOver
<1>2. CredTypeOK'
  <2>1. queue' \in BOOLEAN
    BY Zenon DEF StartOver
  <2>2. /\ secretCache' \in {"none", "old", "current"}
        /\ secretCache' = "current" => secret' \in Secret
    BY <1>1 DEF IInv, CredTypeOK, StartOver
  <2>3. crFeed' \in Seq(Version)
    BY <1>1
  <2> QED
    BY <1>1, <2>1, <2>2, <2>3 DEF IInv, CredTypeOK, Version, Steps
<1>3. Readable' = {cr}
  BY <1>1 DEF Readable
<1> QED
  BY <1>1, <1>2, <1>3 DEF IInv, FeedInv, FreshInv, AliasInv, StaleInv, SavedInv,
                          RedactedIsSaved
-----------------------------------------------------------------------------
(* Every step keeps IInv: the pass.                                        *)

LEMMA FetchStep ==
  ASSUME IInv, Fetch PROVE IInv'
<1>1. UNCHANGED <<cr, crFeed, crCache, secret, secretCache, edits, upsets>>
      /\ queue' = FALSE /\ pc = "idle" /\ inst = Absent
  BY PassInstance DEF Fetch, crVars, secretVars, IInv
<1>2. CASE crCache = Absent
  <2>1. pc' = "idle" /\ inst' = inst
    BY <1>2 DEF Fetch
  <2> QED
    BY <1>1, <2>1 DEF IInv, CredTypeOK, FeedInv, FreshInv, AliasInv, StaleInv, SavedInv,
                      RedactedIsSaved, Readable
<1>3. CASE crCache # Absent
  <2>1. crCache \in Cr
    BY <1>3 DEF IInv, CredTypeOK
  <2>2. /\ pc' \in {"sysFiles", "backend"}
        /\ inst' = [uid |-> crCache.uid, spec |-> crCache.spec,
                    fresh |-> crFeed = <<>>, aliased |-> TRUE]
    BY <1>3 DEF Fetch
  <2>3. /\ inst' \in Instance /\ inst' # Absent
        /\ inst'.uid = crCache.uid /\ inst'.spec = crCache.spec
        /\ inst'.fresh <=> crFeed = <<>>
    <3>1. (crFeed = <<>>) \in BOOLEAN
      OBVIOUS
    <3>2. inst' \in Instance
      BY <2>1, <2>2, <3>1 DEF Instance, Cr
    <3> QED
      BY <2>2, <3>2, CredentialsAssumption
  <2>4. CredTypeOK'
    BY <1>1, <2>2, <2>3 DEF IInv, CredTypeOK, Steps
  <2>5. FreshInv'
    <3> SUFFICES ASSUME crFeed = <<>>
                 PROVE  /\ cr # Absent
                        /\ \A v \in Readable : SameVersion(v, cr)
                        /\ inst'.uid = cr.uid /\ SameEdit(inst'.spec, cr.spec)
      BY <1>1, <2>2, <2>3 DEF FreshInv, SameVersion, Readable, CopyOf
    <3>1. Readable = {crCache}
      BY DEF Readable
    <3>2. crCache = cr \/ SameVersion(crCache, cr)
      BY DEF IInv, FeedInv
    <3>3. SameVersion(crCache, cr)
      BY <2>1, <3>2, <1>3, SameEditFacts DEF SameVersion, Cr
    <3> QED
      BY <2>3, <3>1, <3>3 DEF SameVersion
  <2>6. FeedInv' /\ AliasInv' /\ SavedInv' /\ RedactedIsSaved'
    BY <1>1, <1>3, <2>2 DEF IInv, FeedInv, AliasInv, SavedInv, RedactedIsSaved, SameVersion
  <2>7. StaleInv'
    BY <1>1, <2>2, <2>3, <1>3 DEF IInv, StaleInv, Readable
  <2> QED
    BY <2>4, <2>5, <2>6, <2>7 DEF IInv
<1> QED
  BY <1>2, <1>3

LEMMA DeployEnds ==
  ASSUME IInv, DeployStep PROVE IInv'
<1>1. PICK error \in BOOLEAN : Deploy(error) /\ (UNCHANGED upsets \/ (error /\ Disturb))
  BY DEF DeployStep
<1>2. /\ UNCHANGED <<cr, crFeed, crCache, secret, secretCache, edits>>
      /\ pc' = "idle" /\ inst' = Absent /\ queue' \in BOOLEAN
  BY <1>1 DEF Deploy, Finish, crVars, secretVars, IInv, CredTypeOK
<1>3. upsets' \in 0..MaxUpsets
  BY <1>1, CredentialsAssumption DEF Disturb, IInv, CredTypeOK
<1> QED
  BY <1>2, <1>3 DEF IInv, CredTypeOK, FeedInv, FreshInv, AliasInv, StaleInv, SavedInv,
                    RedactedIsSaved, Readable, Steps

LEMMA SaveSecretFacts ==
  ASSUME CredTypeOK, pc = "backend", NEW data \in Configs, SaveSecret(data)
  PROVE  /\ \/ UNCHANGED secret
            \/ secret' \in Secret /\ secret'.data = data
         /\ secret' \in Secret \cup {Absent}
         /\ secretCache' \in {"none", "old", "current"}
         /\ secretCache' = "current" => secret' \in Secret
         /\ pc' \in {"redact", "deploy"} /\ queue' = queue /\ upsets' \in 0..MaxUpsets
         /\ pc' = "redact" => secret' \in Secret /\ secret'.data = data
<1>1. ASSUME SecretAccepted, WriteSecret(data)
      PROVE  /\ secret' \in Secret /\ secret'.data = data
             /\ secretCache' \in {"none", "old", "current"}
  <2>1. CASE secretCache = "none"
    <3>1. inst.uid \in Nat
      BY PassInstance DEF Instance
    <3> QED
      BY <1>1, <2>1, <3>1 DEF Secret, WriteSecret, CredTypeOK
  <2>2. CASE secretCache # "none"
    <3>1. secret \in Secret
      BY <1>1, <2>2 DEF CredTypeOK, SecretAccepted
    <3>2. secret' = [secret EXCEPT !.data = data]
      BY <1>1, <2>2 DEF WriteSecret
    <3> QED
      BY <1>1, <2>2, <3>1, <3>2 DEF Secret, CredTypeOK, WriteSecret
  <2> QED
    BY <2>1, <2>2
<1>2. upsets \in 0..MaxUpsets /\ (Disturb => upsets' \in 0..MaxUpsets)
  BY CredentialsAssumption DEF CredTypeOK, Disturb
<1>3. CASE SecretAccepted /\ WriteSecret(data) /\ GoTo("redact") /\ UNCHANGED upsets
  BY <1>1, <1>2, <1>3 DEF GoTo
<1>4. CASE Disturb /\ SecretAccepted /\ WriteSecret(data) /\ GoTo("deploy")
  BY <1>1, <1>2, <1>4 DEF GoTo
<1>5. CASE UNCHANGED secretVars /\ GoTo("deploy") /\ (UNCHANGED upsets \/ Disturb)
  BY <1>2, <1>5 DEF GoTo, secretVars, CredTypeOK
<1> QED
  BY <1>3, <1>4, <1>5 DEF SaveSecret

LEMMA SaveBackendStep ==
  ASSUME IInv, SaveBackend PROVE IInv'
<1> DEFINE spec == SetOptions(inst.spec)
           polluted == [crCache EXCEPT !.spec.multipath = spec.multipath]
           b == inst.spec.backend
<1>1. pc = "backend" /\ inst \in Instance /\ inst # Absent /\ UNCHANGED <<cr, crFeed, edits>>
  BY PassInstance DEF SaveBackend, IInv
<1>2. /\ spec \in BackendSpec /\ spec.backend = b /\ spec.multipath \in Multipath
      /\ spec = [inst.spec EXCEPT !.persistence = Completed(inst.spec.persistence),
                                  !.multipath = spec.multipath]
      /\ b \in Backend
  BY <1>1, SetOptionsType DEF Instance, BackendSpec
<1>3. /\ inst' = [inst EXCEPT !.spec = spec]
      /\ crCache' = IF inst.aliased THEN polluted ELSE crCache
  BY DEF SaveBackend
<1>4. /\ inst' \in Instance /\ inst' # Absent /\ inst'.spec = spec
      /\ inst'.uid = inst.uid /\ inst'.fresh = inst.fresh /\ inst'.aliased = inst.aliased
  <2>1. inst' \in Instance /\ inst'.spec = spec
        /\ inst'.uid = inst.uid /\ inst'.fresh = inst.fresh /\ inst'.aliased = inst.aliased
    BY <1>1, <1>2, <1>3 DEF Instance
  <2> QED
    BY <2>1, CredentialsAssumption
<1>5. \/ crCache' = crCache
      \/ /\ crCache \in Cr /\ crCache' \in Cr /\ crCache # Absent /\ crCache' # Absent
         /\ crCache'.uid = crCache.uid
         /\ crCache'.spec = [crCache.spec EXCEPT !.multipath = spec.multipath]
         /\ crCache'.spec.backend = crCache.spec.backend
  <2>1. CASE inst.aliased
    <3>1. crCache \in Cr /\ crCache # Absent
      BY <1>1, <2>1 DEF IInv, AliasInv, CredTypeOK
    <3>2. polluted \in Cr /\ polluted.uid = crCache.uid
          /\ polluted.spec = [crCache.spec EXCEPT !.multipath = spec.multipath]
          /\ polluted.spec.backend = crCache.spec.backend
      BY <3>1, <1>2 DEF Cr, BackendSpec
    <3> QED
      BY <1>3, <2>1, <3>1, <3>2, CredentialsAssumption
  <2>2. CASE ~ inst.aliased
    BY <1>3, <2>2
  <2> QED
    BY <2>1, <2>2
<1>6. \/ AlreadyRedacted(b) /\ pc' = "deploy" /\ queue' = queue
         /\ UNCHANGED <<secret, secretCache, upsets>>
      \/ ~ AlreadyRedacted(b) /\ SaveSecret(DataOf(b))
  BY DEF SaveBackend, GoTo, secretVars
<1>7. /\ \/ UNCHANGED secret
         \/ ~ AlreadyRedacted(b) /\ secret' \in Secret /\ secret'.data = DataOf(b)
      /\ secret' \in Secret \cup {Absent}
      /\ secretCache' \in {"none", "old", "current"}
      /\ secretCache' = "current" => secret' \in Secret
      /\ pc' \in {"redact", "deploy"} /\ queue' = queue /\ upsets' \in 0..MaxUpsets
      /\ pc' = "redact" => ~ AlreadyRedacted(b) /\ secret' \in Secret /\ secret'.data = DataOf(b)
  <2>1. DataOf(b) \in Configs
    BY <1>2, RedactType
  <2>2. CredTypeOK
    BY DEF IInv
  <2>3. CASE ~ AlreadyRedacted(b) /\ SaveSecret(DataOf(b))
    BY <2>1, <2>2, <2>3, <1>1, SaveSecretFacts DEF AlreadyRedacted
  <2>4. CASE AlreadyRedacted(b) /\ pc' = "deploy" /\ queue' = queue
             /\ UNCHANGED <<secret, secretCache, upsets>>
    BY <2>2, <2>4 DEF CredTypeOK
  <2> QED
    BY <1>6, <2>3, <2>4
<1>8. CredTypeOK'
  BY <1>1, <1>4, <1>5, <1>7 DEF IInv, CredTypeOK, Steps
<1>9. \A v \in Readable' : v \in Readable \/ v = crCache'
  BY <1>1 DEF Readable
<1>10. \A w \in Cr : SameVersion(crCache, w) => SameVersion(crCache', w)
  BY <1>2, <1>5, SameEditFacts DEF SameVersion, Cr
<1>11. FeedInv'
  <2>1. CASE crFeed = <<>>
    <3>1. crCache = cr \/ SameVersion(crCache, cr)
      BY <2>1 DEF IInv, FeedInv
    <3>2. crCache # Absent => SameVersion(crCache, cr) /\ cr \in Cr
      BY <3>1, SameEditFacts DEF IInv, CredTypeOK, SameVersion, Cr
    <3> QED
      BY <1>1, <1>5, <1>10, <2>1, <3>1, <3>2 DEF FeedInv, SameVersion
  <2>2. CASE crFeed # <<>>
    BY <1>1, <2>2 DEF IInv, FeedInv
  <2> QED
    BY <2>1, <2>2
<1>12. FreshInv'
  <2> DEFINE ahead == [cr.spec EXCEPT !.persistence = Completed(cr.spec.persistence)]
  <2> SUFFICES ASSUME inst.fresh
               PROVE  /\ cr # Absent
                      /\ \A v \in Readable' : SameVersion(v, cr)
                      /\ inst'.uid = cr.uid /\ SameEdit(inst'.spec, ahead)
    BY <1>1, <1>4, <1>7 DEF FreshInv, SameVersion, CopyOf
  <2>1. /\ cr \in Cr /\ cr # Absent /\ \A v \in Readable : SameVersion(v, cr)
        /\ inst.uid = cr.uid /\ SameEdit(inst.spec, cr.spec)
    BY <1>1 DEF IInv, FreshInv, CredTypeOK, CopyOf
  <2>2. SameVersion(crCache', cr)
    BY <2>1, <1>10 DEF Readable
  <2>3. inst'.uid = cr.uid /\ SameEdit(inst'.spec, ahead)
    <3>1. inst.spec \in BackendSpec /\ cr.spec \in BackendSpec
      BY <2>1, <1>1 DEF Cr, Instance
    <3>2. inst.spec.persistence = cr.spec.persistence
      BY <2>1, <3>1, SameEditFacts
    <3>3. spec = [[inst.spec EXCEPT !.persistence = Completed(cr.spec.persistence)]
                    EXCEPT !.multipath = spec.multipath]
      BY <1>2, <3>1, <3>2
    <3>4. /\ Completed(cr.spec.persistence) \in Persistence
          /\ [inst.spec EXCEPT !.persistence = Completed(cr.spec.persistence)] \in BackendSpec
          /\ ahead \in BackendSpec
      BY <3>1, CompletedType DEF BackendSpec
    <3>5. SameEdit([inst.spec EXCEPT !.persistence = Completed(cr.spec.persistence)], ahead)
      BY <2>1, <3>1, <3>4, SameEditReplaced
    <3>6. ASSUME NEW x \in BackendSpec, SameEdit(x, ahead)
          PROVE  SameEdit([x EXCEPT !.multipath = spec.multipath], ahead)
      <4> HIDE DEF spec, ahead
      <4> QED
        BY <1>2, <3>4, <3>6, SameEditFacts
    <3>7. SameEdit(spec, ahead)
      <4> DEFINE x == [inst.spec EXCEPT !.persistence = Completed(cr.spec.persistence)]
      <4>1. SameEdit([x EXCEPT !.multipath = spec.multipath], ahead)
        <5> HIDE DEF spec, ahead, x
        <5> QED
          BY <3>4, <3>5, <3>6 DEF x
      <4> HIDE DEF spec, ahead
      <4> QED
        BY <3>3, <4>1
    <3> QED
      BY <1>4, <2>1, <3>7
  <2> QED
    BY <2>1, <2>2, <2>3, <1>9
<1>13. AliasInv'
  BY <1>1, <1>4, <1>5 DEF IInv, AliasInv
<1>14. StaleInv'
  BY <1>1, <1>5, <1>7, <1>9 DEF IInv, StaleInv, Readable
<1>15. SavedInv'
  BY <1>2, <1>4, <1>7 DEF SavedInv
<1>16. RedactedIsSaved'
  BY <1>1, <1>7 DEF IInv, RedactedIsSaved, StaleInv
<1> QED
  BY <1>8, <1>11, <1>12, <1>13, <1>14, <1>15, <1>16 DEF IInv

\* What client.Update leaves: the CR is the one it was, or the fresh copy with
\* the new spec; the copy has the new spec either way.
LEMMA UpdateCrFacts ==
  ASSUME IInv, pc \in {"sysFiles", "redact"}, NEW s \in BackendSpec, UpdateCr(s)
  PROVE  /\ \/ UNCHANGED crVars
            \/ /\ inst.fresh /\ cr \in Cr /\ cr # Absent
               /\ PutCr([cr EXCEPT !.spec = s])
               /\ [cr EXCEPT !.spec = s] \in Version
         /\ inst' \in Instance /\ inst' # Absent
         /\ inst'.uid = inst.uid /\ inst'.spec = s
         /\ inst'.fresh => inst.fresh
         /\ inst'.fresh => cr' # Absent
         /\ inst'.aliased => inst.aliased
         /\ upsets' \in 0..MaxUpsets
<1>1. inst \in Instance /\ inst # Absent
  BY PassInstance DEF IInv
<1>2. inst.fresh => cr \in Cr /\ cr # Absent
  BY <1>1 DEF IInv, FreshInv, CredTypeOK
<1>3. inst.fresh => [cr EXCEPT !.spec = s] \in Cr
  BY <1>2 DEF Cr
<1>4. upsets \in 0..MaxUpsets /\ (Disturb => upsets' \in 0..MaxUpsets)
  BY CredentialsAssumption DEF IInv, CredTypeOK, Disturb
<1> DEFINE failed(f) == inst' = [inst EXCEPT !.spec = s, !.fresh = f]
<1>5. ASSUME NEW f \in BOOLEAN, failed(f), f => inst.fresh
      PROVE  /\ inst' \in Instance /\ inst' # Absent
             /\ inst'.uid = inst.uid /\ inst'.spec = s
             /\ inst'.fresh => inst.fresh
             /\ inst'.aliased => inst.aliased
  <2>1. /\ inst' \in Instance /\ inst'.uid = inst.uid /\ inst'.spec = s
        /\ inst'.fresh = f /\ inst'.aliased = inst.aliased
    BY <1>1, <1>5 DEF Instance
  <2> QED
    BY <2>1, <1>5, CredentialsAssumption
<1>6. CASE inst.fresh /\ PutCr([cr EXCEPT !.spec = s])
           /\ inst' = [inst EXCEPT !.spec = s, !.aliased = FALSE] /\ UNCHANGED upsets
  <2>1. /\ inst' \in Instance /\ inst'.uid = inst.uid /\ inst'.spec = s
        /\ inst'.fresh = inst.fresh /\ ~ inst'.aliased
    BY <1>1, <1>6 DEF Instance
  <2>2. cr' # Absent
    BY <1>3, <1>6, CredentialsAssumption DEF PutCr
  <2> QED
    BY <1>2, <1>3, <1>4, <1>6, <2>1, <2>2, CredentialsAssumption DEF Version
<1>7. CASE ~ inst.fresh /\ failed(FALSE) /\ UNCHANGED <<crVars, upsets>>
  BY <1>4, <1>5, <1>7
<1>8. CASE Disturb /\ failed(inst.fresh) /\ UNCHANGED crVars
  <2>1. inst.fresh \in BOOLEAN
    BY <1>1 DEF Instance
  <2> QED
    BY <1>2, <1>4, <1>5, <1>8, <2>1 DEF crVars
<1>9. CASE Disturb /\ inst.fresh /\ PutCr([cr EXCEPT !.spec = s]) /\ failed(s = cr.spec)
  <2>1. (s = cr.spec) \in BOOLEAN
    OBVIOUS
  <2>2. cr' # Absent
    BY <1>3, <1>9, CredentialsAssumption DEF PutCr
  <2> QED
    BY <1>2, <1>3, <1>4, <1>5, <1>9, <2>1, <2>2 DEF Version
<1> QED
  BY <1>6, <1>7, <1>8, <1>9 DEF UpdateCr

\* A current copy, before it is redacted: it has the CR's configurations, completed
\* or not.
LEMMA CopyFacts ==
  ASSUME IInv, pc \in {"sysFiles", "redact"}, inst.fresh
  PROVE  /\ inst.spec \in BackendSpec /\ cr.spec \in BackendSpec /\ inst.uid = cr.uid
         /\ CopyOf(cr.spec) \in BackendSpec
         /\ CopyOf(cr.spec).backend = cr.spec.backend
         /\ inst.spec.backend = cr.spec.backend
         /\ SameEdit(inst.spec, CopyOf(cr.spec))
<1>1. inst \in Instance /\ inst # Absent
  BY PassInstance DEF IInv
<1>2. /\ cr \in Cr /\ inst.uid = cr.uid /\ SameEdit(inst.spec, CopyOf(cr.spec))
  BY <1>1 DEF IInv, FreshInv, CredTypeOK
<1>3. inst.spec \in BackendSpec /\ cr.spec \in BackendSpec
  BY <1>1, <1>2 DEF Instance, Cr
<1>4. CopyOf(cr.spec) \in BackendSpec /\ CopyOf(cr.spec).backend = cr.spec.backend
  BY <1>3, CompletedType DEF CopyOf, BackendSpec
<1> QED
  BY <1>2, <1>3, <1>4, SameEditFacts

LEMMA ReadSysFilesStep ==
  ASSUME IInv, ReadSysFiles PROVE IInv'
<1>1. /\ pc = "sysFiles" /\ pc' = "backend" /\ queue' = queue
      /\ UNCHANGED <<secret, secretCache, edits>>
      /\ inst \in Instance /\ inst # Absent
  BY PassInstance DEF ReadSysFiles, GoTo, secretVars, IInv
<1>2. PICK key \in SysKeys \cup {NoKey} : UpdateCr([inst.spec EXCEPT !.sysKey = key])
  BY <1>1 DEF ReadSysFiles, Instance, BackendSpec
<1> DEFINE s == [inst.spec EXCEPT !.sysKey = key]
<1>3. s \in BackendSpec /\ s.backend = inst.spec.backend
  BY <1>1 DEF Instance, BackendSpec
<1>4. /\ \/ UNCHANGED crVars
         \/ /\ inst.fresh /\ cr \in Cr /\ cr # Absent
            /\ PutCr([cr EXCEPT !.spec = s])
            /\ [cr EXCEPT !.spec = s] \in Version
      /\ inst' \in Instance /\ inst' # Absent
      /\ inst'.uid = inst.uid /\ inst'.spec = s
      /\ inst'.fresh => inst.fresh /\ cr' # Absent
      /\ inst'.aliased => inst.aliased
      /\ upsets' \in 0..MaxUpsets
  <2> HIDE DEF s
  <2> QED
    BY <1>1, <1>2, <1>3, UpdateCrFacts DEF s
<1> HIDE DEF s
<1>5. CASE UNCHANGED crVars
  <2>1. UNCHANGED <<cr, crFeed, crCache>> /\ Readable' = Readable
    BY <1>5 DEF crVars, Readable
  <2>2. CredTypeOK'
    BY <1>1, <1>4, <2>1 DEF IInv, CredTypeOK, Steps
  <2>3. FreshInv'
    <3> SUFFICES ASSUME inst.fresh, cr \in Cr, SameEdit(inst.spec, cr.spec)
                 PROVE  SameEdit(inst'.spec, cr.spec)
      BY <1>1, <1>4, <2>1 DEF IInv, FreshInv, CredTypeOK, SameVersion, CopyOf
    <3> QED
      BY <1>1, <1>4, SameEditFacts DEF Cr, Instance, s
  <2> QED
    BY <1>1, <1>3, <1>4, <2>1, <2>2, <2>3
    DEF IInv, FeedInv, AliasInv, StaleInv, SavedInv, RedactedIsSaved
<1>6. CASE /\ inst.fresh /\ cr \in Cr /\ cr # Absent
           /\ PutCr([cr EXCEPT !.spec = s]) /\ [cr EXCEPT !.spec = s] \in Version
  <2>1. /\ cr' = [cr EXCEPT !.spec = s] /\ cr' \in Version /\ crCache' = crCache
        /\ crFeed' \in Seq(Version) /\ Readable' \subseteq Readable \cup {cr'} /\ FeedInv'
    BY <1>6, PutFacts DEF IInv
  <2>2. cr'.uid = cr.uid /\ cr'.spec = s /\ cr' # Absent
    BY <1>3, <1>6, <2>1, CredentialsAssumption DEF Cr
  <2>3. /\ \A v \in Readable : SameVersion(v, cr)
        /\ inst.uid = cr.uid /\ SameEdit(inst.spec, cr.spec)
    BY <1>1, <1>6 DEF IInv, FreshInv, CopyOf
  <2>4. SameEdit(cr.spec, s) /\ s.backend = cr.spec.backend
    BY <1>1, <1>3, <1>6, <2>3, SameEditFacts DEF Cr, Instance, s
  <2>5. \A v \in Readable' \cup {inst'} : SameVersion(v, cr')
    <3>1. SameEdit(s, s)
      BY <1>3, SameEditFacts
    <3>2. \A v \in Readable : v \in Cr
      BY <2>3, ReadableType DEF IInv, Version, SameVersion
    <3>3. \A v \in Readable : SameEdit(v.spec, s)
      BY <1>3, <1>6, <2>3, <2>4, <3>2, SameEditTransitive DEF SameVersion, Cr
    <3> QED
      BY <1>4, <2>1, <2>2, <2>3, <3>1, <3>3 DEF SameVersion
  <2>6. \A v \in Readable' \cup {inst'} : v.spec.backend = cr'.spec.backend
    <3>1. \A v \in Readable' \cup {inst'} : v.spec \in BackendSpec
      BY <1>3, <1>4, <2>1, <2>3, ReadableType, <2>2 DEF IInv, Version, SameVersion, Cr
    <3> QED
      BY <1>3, <2>2, <2>5, <3>1, SameEditFacts DEF SameVersion
  <2>7. CredTypeOK'
    BY <1>1, <1>4, <2>1 DEF IInv, CredTypeOK, Steps, Version
  <2>8. FreshInv'
    BY <1>1, <2>2, <2>5 DEF FreshInv, SameVersion, CopyOf
  <2>9. AliasInv' /\ SavedInv'
    BY <1>1, <1>4, <2>1 DEF IInv, AliasInv, SavedInv
  <2>10. StaleInv'
    BY <1>1, <2>6 DEF StaleInv
  <2>11. RedactedIsSaved'
    BY <1>1, <1>6, <2>2, <2>4 DEF IInv, RedactedIsSaved
  <2> QED
    BY <2>1, <2>7, <2>8, <2>9, <2>10, <2>11 DEF IInv
<1> QED
  BY <1>4, <1>5, <1>6

LEMMA RedactCrStep ==
  ASSUME IInv, RedactCr PROVE IInv'
<1> DEFINE b == inst.spec.backend
           s == [inst.spec EXCEPT !.backend = Redact(b)]
<1>1. /\ pc = "redact" /\ pc' = "deploy" /\ queue' = queue
      /\ UNCHANGED <<secret, secretCache, edits>>
      /\ inst \in Instance /\ inst # Absent
  BY PassInstance DEF RedactCr, GoTo, secretVars, IInv
<1>2. b \in Backend /\ Redact(b) \in Backend
  BY <1>1, RedactType DEF Instance, BackendSpec
<1>3. s \in BackendSpec /\ s.backend = Redact(b)
  BY <1>1, <1>2 DEF Instance, BackendSpec
<1>4. UpdateCr(s)
  BY DEF RedactCr
<1> HIDE DEF s, b
<1>5. /\ \/ UNCHANGED crVars
         \/ /\ inst.fresh /\ cr \in Cr /\ cr # Absent
            /\ PutCr([cr EXCEPT !.spec = s])
            /\ [cr EXCEPT !.spec = s] \in Version
      /\ inst' \in Instance /\ inst' # Absent
      /\ inst'.fresh => cr' # Absent
      /\ inst'.aliased => inst.aliased
      /\ upsets' \in 0..MaxUpsets
  BY <1>1, <1>3, <1>4, UpdateCrFacts
<1>6. CASE UNCHANGED crVars
  <2>1. UNCHANGED <<cr, crFeed, crCache>> /\ Readable' = Readable
    BY <1>6 DEF crVars, Readable
  <2>2. CredTypeOK'
    BY <1>1, <1>5, <2>1 DEF IInv, CredTypeOK, Steps
  <2> QED
    BY <1>1, <1>5, <2>1, <2>2
    DEF IInv, FeedInv, FreshInv, AliasInv, StaleInv, SavedInv, RedactedIsSaved
<1>7. CASE /\ inst.fresh /\ cr \in Cr /\ cr # Absent
           /\ PutCr([cr EXCEPT !.spec = s]) /\ [cr EXCEPT !.spec = s] \in Version
  <2>1. /\ cr' = [cr EXCEPT !.spec = s] /\ cr' \in Version /\ crCache' = crCache
        /\ crFeed' \in Seq(Version) /\ Readable' \subseteq Readable \cup {cr'} /\ FeedInv'
    BY <1>7, PutFacts DEF IInv
  <2>2. cr'.spec.backend = Redact(b)
    BY <1>3, <1>7, <2>1 DEF Cr
  <2>3. AlreadyRedacted(Redact(b)) => Redact(b).cfg = DataOf(b)
    BY <1>2, RedactType
  <2>4. \A v \in Readable : v.spec.backend = b
    <3>1. \A v \in Readable : SameVersion(v, cr)
      BY <1>1, <1>7 DEF IInv, FreshInv
    <3>2. \A v \in Readable : v \in Cr
      BY <3>1, ReadableType DEF IInv, Version, SameVersion
    <3>3. cr.spec.backend = b
      BY <1>1, <1>7, CopyFacts DEF b
    <3> QED
      BY <1>7, <3>1, <3>2, <3>3, SameEditFacts DEF SameVersion, Cr
  <2>5. CredTypeOK'
    BY <1>1, <1>5, <2>1 DEF IInv, CredTypeOK, Steps, Version
  <2>6. FreshInv' /\ AliasInv' /\ SavedInv'
    BY <1>1, <1>5, <2>1 DEF IInv, FreshInv, AliasInv, SavedInv
  <2>7. StaleInv'
    BY <1>1, <2>1, <2>2, <2>3, <2>4 DEF StaleInv
  <2>8. RedactedIsSaved'
    BY <1>1, <2>2, <2>3 DEF IInv, SavedInv, RedactedIsSaved, b
  <2> QED
    BY <2>1, <2>5, <2>6, <2>7, <2>8 DEF IInv
<1> QED
  BY <1>5, <1>6, <1>7
-----------------------------------------------------------------------------
(* The theorems.                                                           *)

LEMMA InitIInv == CredInit => IInv
<1> SUFFICES ASSUME CredInit PROVE IInv
  OBVIOUS
<1>1. CredTypeOK
  <2>1. <<>> \in Seq(Cr \cup {Absent}) /\ 0 \in 0..MaxEdits /\ 0 \in 0..MaxUpsets
    BY CredentialsAssumption
  <2> QED
    BY <2>1 DEF CredInit, CredTypeOK, Steps
<1> QED
  BY <1>1 DEF CredInit, IInv, FeedInv, FreshInv, AliasInv, StaleInv, SavedInv, RedactedIsSaved

LEMMA StepIInv == IInv /\ [CredNext]_credVars => IInv'
<1> SUFFICES ASSUME IInv, [CredNext]_credVars PROVE IInv'
  OBVIOUS
<1>1. upsets \in 0..MaxUpsets /\ (Disturb => upsets' \in 0..MaxUpsets)
  BY CredentialsAssumption DEF IInv, CredTypeOK, Disturb
<1>2. CASE FrontStep
  <2>1. CASE Panic
    BY <1>1, <2>1, StartOverStep DEF Panic
  <2> QED
    BY <1>2, <2>1, FetchStep, ReadSysFilesStep, SaveBackendStep, RedactCrStep DEF FrontStep
<1>3. CASE DeployStep
  BY <1>3, DeployEnds
<1>4. CASE UserAction
  BY <1>4, UserStep
<1>5. CASE SyncCr
  BY <1>5, SyncCrStep
<1>6. CASE SyncSecret \/ Resync \/ WorkloadEvent
  BY <1>6, QuietStep
<1>7. CASE Around
  BY <1>1, <1>7, LoseSecretStep, StartOverStep DEF Around, CollectSecret, RemoveSecret, Crash
<1>8. CASE UNCHANGED credVars
  BY <1>8 DEF credVars, crVars, secretVars, IInv, CredTypeOK, FeedInv, FreshInv, AliasInv,
              StaleInv, SavedInv, RedactedIsSaved, Readable, CopyOf
<1> QED
  BY <1>2, <1>3, <1>4, <1>5, <1>6, <1>7, <1>8 DEF CredNext

\* The strengthening is an invariant: what the caches may hand out, and the copy a
\* pass works on, stay tied to the CR and to the secret in every reachable state.
THEOREM Inductive == CredSpec => []IInv
BY InitIInv, StepIInv, PTL DEF CredSpec

\* The reconciler's state keeps its type, whatever users, other actors, failures
\* and restarts do.
THEOREM TypeCorrect == CredSpec => []CredTypeOK
<1>1. IInv => CredTypeOK
  BY DEF IInv
<1> QED
  BY <1>1, Inductive, PTL

\* Credentials hidden in the CR are the ones in the secret, if it exists: no pass,
\* however old the CR it read, overwrites them with others.
THEOREM RedactionIsSafe == CredSpec => []RedactedIsSaved
<1>1. IInv => RedactedIsSaved
  BY DEF IInv
<1> QED
  BY <1>1, Inductive, PTL

LEMMA UpdateKeepsEdits ==
  ASSUME IInv, pc \in {"sysFiles", "redact"}, NEW s \in BackendSpec, UpdateCr(s), cr' # cr,
         s.backend \in {inst.spec.backend, Redact(inst.spec.backend)},
         SameEdit([s EXCEPT !.backend = inst.spec.backend], inst.spec)
  PROVE  /\ cr # Absent /\ cr' # Absent /\ cr'.uid = cr.uid
         /\ cr'.spec.backend \in {cr.spec.backend, Redact(cr.spec.backend)}
         /\ cr'.spec.persistence \in {cr.spec.persistence, Completed(cr.spec.persistence)}
         /\ [cr'.spec EXCEPT !.backend = cr.spec.backend,
                             !.persistence = cr.spec.persistence,
                             !.sysKey = cr.spec.sysKey,
                             !.multipath = cr.spec.multipath] = cr.spec
<1>1. /\ inst.fresh /\ cr \in Cr /\ cr # Absent
      /\ PutCr([cr EXCEPT !.spec = s]) /\ [cr EXCEPT !.spec = s] \in Version
  BY UpdateCrFacts DEF crVars
<1>2. cr' \in Cr /\ cr' # Absent /\ cr'.uid = cr.uid /\ cr'.spec = s
  <2>1. cr' = [cr EXCEPT !.spec = s]
    BY <1>1 DEF PutCr
  <2>2. cr' \in Cr /\ cr'.uid = cr.uid /\ cr'.spec = s
    BY <1>1, <2>1 DEF Cr
  <2> QED
    BY <2>2, CredentialsAssumption
<1> DEFINE copy == CopyOf(cr.spec)
           shown == [s EXCEPT !.backend = inst.spec.backend]
<1>3. /\ inst.spec \in BackendSpec /\ cr.spec \in BackendSpec /\ copy \in BackendSpec
      /\ inst.spec.backend = cr.spec.backend
      /\ SameEdit(inst.spec, copy)
  BY <1>1, CopyFacts
<1>4. shown \in BackendSpec /\ shown.persistence = s.persistence
  BY <1>3 DEF BackendSpec
<1>5. SameEdit(shown, copy)
  <2> HIDE DEF shown, copy
  <2> QED
    BY <1>3, <1>4, SameEditTransitive DEF shown
<1>6. s.persistence = copy.persistence
  <2> HIDE DEF shown, copy
  <2> QED
    BY <1>3, <1>4, <1>5, SameEditFacts
<1>7. s.persistence \in {cr.spec.persistence, Completed(cr.spec.persistence)}
  BY <1>3, <1>6 DEF CopyOf, BackendSpec
<1>8. [copy EXCEPT !.persistence = cr.spec.persistence] = cr.spec
  BY <1>3 DEF CopyOf, BackendSpec
<1>9. [s EXCEPT !.backend = cr.spec.backend,
                !.persistence = cr.spec.persistence,
                !.sysKey = cr.spec.sysKey,
                !.multipath = cr.spec.multipath] = cr.spec
  <2>1. [shown EXCEPT !.multipath = copy.multipath, !.sysKey = copy.sysKey] = copy
    BY <1>5 DEF SameEdit
  <2>2. /\ copy.multipath = cr.spec.multipath /\ copy.sysKey = cr.spec.sysKey
    BY <1>3 DEF CopyOf, BackendSpec
  <2>3. [[shown EXCEPT !.multipath = copy.multipath, !.sysKey = copy.sysKey]
           EXCEPT !.persistence = cr.spec.persistence] = cr.spec
    BY <1>8, <2>1
  <2> HIDE DEF copy
  <2> QED
    BY <1>3, <2>2, <2>3 DEF BackendSpec
<1> QED
  BY <1>1, <1>2, <1>3, <1>7, <1>9

\* The operator's writes of the CR never undo an edit, and never touch a CR other
\* than the one they were computed from: the backend and the persistence
\* configuration they write are made from those the CR has at that moment.
THEOREM EditsAreKept == CredSpec => EditsSurvive
<1> DEFINE Kept ==
      cr' # cr /\ edits' = edits =>
        /\ cr # Absent /\ cr' # Absent /\ cr'.uid = cr.uid
        /\ cr'.spec.backend \in {cr.spec.backend, Redact(cr.spec.backend)}
        /\ cr'.spec.persistence \in {cr.spec.persistence, Completed(cr.spec.persistence)}
        /\ [cr'.spec EXCEPT !.backend = cr.spec.backend,
                            !.persistence = cr.spec.persistence,
                            !.sysKey = cr.spec.sysKey,
                            !.multipath = cr.spec.multipath] = cr.spec
<1>1. IInv /\ [CredNext]_credVars => [Kept]_credVars
  <2> SUFFICES ASSUME IInv, CredNext, cr' # cr, edits' = edits PROVE Kept
    BY DEF credVars, crVars
  <2>1. ~ UserAction
    <3>1. edits' # edits + 1
      BY CredentialsAssumption DEF IInv, CredTypeOK
    <3> QED
      BY <3>1 DEF UserAction, CreateCr, ReplaceSpec, AmendSpec, RetypeCredential,
                  DeleteCr, UserWrites
  <2>2. ReadSysFiles \/ RedactCr
    BY <2>1 DEF CredNext, FrontStep, Fetch, SaveBackend, Panic, StartOver, DeployStep, Deploy,
         SyncCr, SyncSecret, Around, CollectSecret, RemoveSecret, LoseSecret, Crash, Resync,
         WorkloadEvent, crVars
  <2>3. inst \in Instance /\ inst.spec \in BackendSpec /\ inst.spec.backend \in Backend
    BY <2>2, PassInstance DEF IInv, ReadSysFiles, RedactCr, Instance, BackendSpec
  <2>4. CASE ReadSysFiles
    <3>1. PICK key \in SysKeys \cup {NoKey} : UpdateCr([inst.spec EXCEPT !.sysKey = key])
      BY <2>3, <2>4 DEF ReadSysFiles, BackendSpec
    <3> DEFINE s == [inst.spec EXCEPT !.sysKey = key]
    <3>2. /\ s \in BackendSpec /\ s.backend = inst.spec.backend
          /\ SameEdit([s EXCEPT !.backend = inst.spec.backend], inst.spec)
      BY <2>3 DEF BackendSpec, SameEdit
    <3>3. pc = "sysFiles" /\ UpdateCr(s)
      BY <2>4, <3>1 DEF ReadSysFiles
    <3> QED
      BY <3>2, <3>3, UpdateKeepsEdits
  <2>5. CASE RedactCr
    <3> DEFINE s == [inst.spec EXCEPT !.backend = Redact(inst.spec.backend)]
    <3>1. Redact(inst.spec.backend) \in Backend
      BY <2>3, RedactType
    <3>2. /\ s \in BackendSpec /\ s.backend = Redact(inst.spec.backend)
          /\ SameEdit([s EXCEPT !.backend = inst.spec.backend], inst.spec)
      BY <2>3, <3>1 DEF BackendSpec, SameEdit
    <3>3. pc = "redact" /\ UpdateCr(s)
      BY <2>5 DEF RedactCr
    <3> QED
      BY <3>2, <3>3, UpdateKeepsEdits
  <2> QED
    BY <2>2, <2>4, <2>5
<1> QED
  BY <1>1, Inductive, PTL DEF CredSpec, EditsSurvive
=============================================================================
