------------------------ MODULE CredentialVaultProofs ------------------------
(* Credentials implements CredentialVault, and loses nothing by itself, for *)
(* every value of the constants.                                           *)
EXTENDS CredentialsProofs

-----------------------------------------------------------------------------
(* The steps, as steps of the vault.                                       *)

\* The credentials a version of the CR shows.
Showing(v) ==
  IF v = Absent THEN Absent
  ELSE [data   |-> IF AlreadyRedacted(v.spec.backend) THEN v.spec.backend.cfg
                   ELSE DataOf(v.spec.backend),
        hidden |-> AlreadyRedacted(v.spec.backend)]

LEMMA ShowingFacts ==
  ASSUME NEW v \in Cr
  PROVE  /\ v.spec.backend \in Backend
         /\ v # Absent
         /\ AlreadyRedacted(v.spec.backend) =>
              v.spec.backend.cfg \in Configs /\ Showing(v) = Vault!Hidden(v.spec.backend.cfg)
         /\ ~ AlreadyRedacted(v.spec.backend) =>
              /\ DataOf(v.spec.backend) \in Configs
              /\ Showing(v) = Vault!Visible(DataOf(v.spec.backend))
<1>1. v.spec.backend \in Backend /\ v.spec.backend.cfg \in Configs /\ v # Absent
  BY CredentialsAssumption DEF Cr, BackendSpec, Backend
<1>2. DataOf(v.spec.backend) \in Configs
  BY <1>1, RedactType
<1>3. AlreadyRedacted(v.spec.backend) \in BOOLEAN
  BY DEF AlreadyRedacted
<1> QED
  BY <1>1, <1>2, <1>3 DEF Showing, Vault!Hidden, Vault!Visible

LEMMA MappedVars ==
  /\ ShownCredentials = Showing(cr) /\ ShownCredentials' = Showing(cr')
  /\ UNCHANGED secret => UNCHANGED KeptCredentials
BY DEF ShownCredentials, Showing, KeptCredentials

\* A user's write shows other credentials, the same ones, or none.
LEMMA UserWritesInVault ==
  ASSUME IInv, NEW v \in Version, UserWrites(v),
         v # Absent /\ AlreadyRedacted(v.spec.backend) =>
           /\ cr # Absent /\ AlreadyRedacted(cr.spec.backend)
           /\ v.spec.backend.cfg = cr.spec.backend.cfg
  PROVE  [Vault!Next]_(Vault!vars)
<1>1. cr' = v /\ UNCHANGED KeptCredentials
  BY MappedVars DEF UserWrites, PutCr, secretVars
<1>2. CASE v = Absent
  BY <1>1, <1>2, MappedVars DEF Showing, Vault!Next, Vault!Withdraw
<1>3. CASE v # Absent /\ ~ AlreadyRedacted(v.spec.backend)
  <2>1. v \in Cr
    BY <1>3 DEF Version
  <2>2. Vault!Show(DataOf(v.spec.backend)) /\ DataOf(v.spec.backend) \in Configs
    BY <1>1, <1>3, <2>1, ShowingFacts, MappedVars DEF Vault!Show
  <2> QED
    BY <2>2 DEF Vault!Next
<1>4. CASE v # Absent /\ AlreadyRedacted(v.spec.backend)
  <2>1. v \in Cr /\ cr \in Cr
    BY <1>4 DEF Version, IInv, CredTypeOK
  <2>2. UNCHANGED ShownCredentials
    BY <1>1, <1>4, <2>1, ShowingFacts, MappedVars
  <2> QED
    BY <1>1, <2>2 DEF Vault!vars
<1> QED
  BY <1>2, <1>3, <1>4

LEMMA UserInVault ==
  ASSUME IInv, UserAction PROVE [Vault!Next]_(Vault!vars)
<1> USE DEF Version
<1>1. CASE CreateCr
  <2>1. PICK s \in Offers : UserWrites([uid |-> edits + 1, spec |-> s])
    BY <1>1 DEF CreateCr
  <2>2. s \in BackendSpec /\ ~ AlreadyRedacted(s.backend)
    BY CredentialsAssumption DEF AlreadyRedacted
  <2>3. [uid |-> edits + 1, spec |-> s] \in Version
    BY <2>2, CredentialsAssumption DEF IInv, CredTypeOK, Cr
  <2> QED
    BY <2>1, <2>2, <2>3, UserWritesInVault
<1>2. CASE ReplaceSpec
  <2>1. cr \in Cr /\ cr # Absent
    BY <1>2 DEF ReplaceSpec, IInv, CredTypeOK
  <2>2. PICK s \in Offers : UserWrites([cr EXCEPT !.spec = s])
    BY <1>2 DEF ReplaceSpec
  <2>3. s \in BackendSpec /\ ~ AlreadyRedacted(s.backend)
    BY CredentialsAssumption DEF AlreadyRedacted
  <2>4. [cr EXCEPT !.spec = s] \in Version /\ [cr EXCEPT !.spec = s].spec = s
    BY <2>1, <2>3 DEF Cr
  <2> QED
    BY <2>2, <2>3, <2>4, UserWritesInVault
<1>3. CASE AmendSpec
  <2>1. cr \in Cr /\ cr # Absent
    BY <1>3 DEF AmendSpec, IInv, CredTypeOK
  <2>2. PICK s \in Offers : \E store \in {cr.spec.persistence, s.persistence} :
          UserWrites([cr EXCEPT !.spec = [cr.spec EXCEPT !.snapshots = s.snapshots,
                                                         !.topologies = s.topologies,
                                                         !.persistence = store]])
    BY <1>3 DEF AmendSpec
  <2>3. PICK store \in {cr.spec.persistence, s.persistence} :
          UserWrites([cr EXCEPT !.spec = [cr.spec EXCEPT !.snapshots = s.snapshots,
                                                         !.topologies = s.topologies,
                                                         !.persistence = store]])
    BY <2>2
  <2> DEFINE t == [cr.spec EXCEPT !.snapshots = s.snapshots, !.topologies = s.topologies,
                                  !.persistence = store]
  <2>4. s \in BackendSpec /\ store \in Persistence
    BY <2>1, CredentialsAssumption DEF Cr, BackendSpec
  <2>5. t \in BackendSpec /\ t.backend = cr.spec.backend
    BY <2>1, <2>4 DEF Cr, BackendSpec
  <2>6. [cr EXCEPT !.spec = t] \in Version /\ [cr EXCEPT !.spec = t].spec = t
    BY <2>1, <2>5 DEF Cr
  <2> QED
    BY <2>1, <2>3, <2>5, <2>6, UserWritesInVault
<1>4. CASE RetypeCredential
  <2>1. cr \in Cr /\ cr # Absent /\ cr.spec.backend.mode = "redacted"
    BY <1>4 DEF RetypeCredential, IInv, CredTypeOK
  <2> DEFINE v == [cr EXCEPT !.spec.backend.mode = "partial"]
  <2>2. v \in Version /\ v.spec.backend.cfg = cr.spec.backend.cfg
    BY <2>1 DEF Cr, BackendSpec, Backend, Modes
  <2>3. AlreadyRedacted(cr.spec.backend)
    BY <2>1 DEF AlreadyRedacted
  <2>4. UserWrites(v)
    BY <1>4 DEF RetypeCredential
  <2> QED
    BY <2>1, <2>2, <2>3, <2>4, UserWritesInVault
<1>5. CASE DeleteCr
  BY <1>5, UserWritesInVault DEF DeleteCr
<1> QED
  BY <1>1, <1>2, <1>3, <1>4, <1>5 DEF UserAction

\* Saving keeps credentials the CR once showed: not over others that it hides,
\* as the invariant says of every copy a pass may work on.
LEMMA SaveInVault ==
  ASSUME IInv, SaveBackend PROVE [Vault!Next]_(Vault!vars)
<1> DEFINE b == inst.spec.backend
<1>1. pc = "backend" /\ inst \in Instance /\ inst # Absent /\ UNCHANGED cr
  BY PassInstance DEF SaveBackend, IInv
<1>2. b \in Backend /\ DataOf(b) \in Configs
  BY <1>1, RedactType DEF Instance, BackendSpec
<1>3. CASE UNCHANGED secret
  BY <1>1, <1>3, MappedVars DEF Vault!vars
<1>4. CASE secret' # secret
  <2>1. ~ AlreadyRedacted(b) /\ SaveSecret(DataOf(b))
    BY <1>4 DEF SaveBackend, secretVars
  <2>2. secret' \in Secret /\ secret'.data = DataOf(b)
    <3>1. CredTypeOK
      BY DEF IInv
    <3> QED
      BY <1>1, <1>2, <1>4, <2>1, <3>1, SaveSecretFacts
  <2>3. KeptCredentials' = DataOf(b)
    BY <2>2, CredentialsAssumption DEF KeptCredentials
  <2>4. CASE cr # Absent /\ AlreadyRedacted(cr.spec.backend)
    <3>1. DataOf(b) = cr.spec.backend.cfg
      BY <1>1, <2>1, <2>4 DEF IInv, StaleInv
    <3>2. cr \in Cr
      BY <2>4 DEF IInv, CredTypeOK
    <3>3. ShownCredentials = Vault!Hidden(DataOf(b))
      BY <2>4, <3>1, <3>2, ShowingFacts, MappedVars
    <3>4. Vault!Keep(DataOf(b))
      BY <1>1, <2>3, <3>3, MappedVars DEF Vault!Keep
    <3> QED
      BY <1>2, <3>4 DEF Vault!Next
  <2>5. CASE cr = Absent \/ ~ AlreadyRedacted(cr.spec.backend)
    <3>1. ~ Vault!IsHidden
      <4>1. CASE cr = Absent
        <5>1. \A c \in Configs : Vault!Hidden(c) \in [data : Configs, hidden : BOOLEAN]
          BY DEF Vault!Hidden
        <5> QED
          BY <4>1, <5>1, CredentialsAssumption DEF Vault!IsHidden, ShownCredentials
      <4>2. CASE cr # Absent /\ ~ AlreadyRedacted(cr.spec.backend)
        BY <4>2 DEF Vault!IsHidden, Vault!Hidden, ShownCredentials
      <4> QED
        BY <2>5, <4>1, <4>2
    <3>2. Vault!Keep(DataOf(b))
      BY <1>1, <2>3, <3>1, MappedVars DEF Vault!Keep
    <3> QED
      BY <1>2, <3>2 DEF Vault!Next
  <2> QED
    BY <2>4, <2>5
<1> QED
  BY <1>3, <1>4

\* The redaction hides what is kept, or blanks what cannot be hidden.
LEMMA RedactInVault ==
  ASSUME IInv, RedactCr PROVE [Vault!Next]_(Vault!vars)
<1> DEFINE b == inst.spec.backend
           s == [inst.spec EXCEPT !.backend = Redact(b)]
<1>1. pc = "redact" /\ inst \in Instance /\ inst # Absent /\ UNCHANGED secret
  BY PassInstance DEF RedactCr, secretVars, IInv
<1>2. b \in Backend /\ Redact(b) \in Backend
  BY <1>1, RedactType DEF Instance, BackendSpec
<1>3. s \in BackendSpec /\ s.backend = Redact(b) /\ UpdateCr(s)
  BY <1>1, <1>2 DEF Instance, BackendSpec, RedactCr
<1> HIDE DEF s
<1>4. CASE UNCHANGED crVars
  BY <1>1, <1>4, MappedVars DEF Vault!vars, crVars
<1>5. CASE /\ inst.fresh /\ cr \in Cr /\ cr # Absent
           /\ PutCr([cr EXCEPT !.spec = s]) /\ [cr EXCEPT !.spec = s] \in Version
  <2>1. cr' \in Cr /\ cr'.spec.backend = Redact(b)
    BY <1>3, <1>5, CredentialsAssumption DEF PutCr, Cr
  <2>2. cr.spec.backend = b
    BY <1>1, <1>5, CopyFacts
  <2>3. ~ AlreadyRedacted(b) /\ KeptCredentials \in {DataOf(b), Absent}
    BY <1>1 DEF IInv, SavedInv, KeptCredentials
  <2>4. ShownCredentials = Vault!Visible(DataOf(b)) /\ DataOf(b) \in Configs
    BY <1>5, <2>2, <2>3, ShowingFacts, MappedVars
  <2>5. ShownCredentials' \in {Vault!Hidden(DataOf(b)), Vault!Visible(NameOnly)}
    <3>1. CASE b.cfg \in TextConfigs /\ b.mode = "plain"
      <4>1. Redact(b).mode = "emptied"
        BY <1>2, <3>1 DEF Redact, Backend
      <4>2. ~ AlreadyRedacted(Redact(b)) /\ DataOf(Redact(b)) = NameOnly
        BY <4>1 DEF AlreadyRedacted, DataOf
      <4> QED
        BY <2>1, <4>2, ShowingFacts, MappedVars
    <3>2. CASE ~ (b.cfg \in TextConfigs /\ b.mode = "plain")
      <4>1. AlreadyRedacted(Redact(b)) /\ Redact(b).cfg = DataOf(b)
        BY <3>2 DEF Redact, AlreadyRedacted
      <4> QED
        BY <2>1, <4>1, ShowingFacts, MappedVars
    <3> QED
      BY <3>1, <3>2
  <2>6. Vault!Hide(DataOf(b))
    BY <1>1, <2>3, <2>4, <2>5, MappedVars DEF Vault!Hide
  <2> QED
    BY <2>4, <2>6 DEF Vault!Next
<1> QED
  BY <1>1, <1>3, <1>4, <1>5, UpdateCrFacts

\* Choosing the system file's key leaves the credentials alone.
LEMMA ReadSysFilesInVault ==
  ASSUME IInv, ReadSysFiles PROVE UNCHANGED <<ShownCredentials, KeptCredentials>>
<1>1. pc = "sysFiles" /\ inst \in Instance /\ inst # Absent /\ UNCHANGED secret
  BY PassInstance DEF ReadSysFiles, secretVars, IInv
<1>2. PICK key \in SysKeys \cup {NoKey} : UpdateCr([inst.spec EXCEPT !.sysKey = key])
  BY <1>1 DEF ReadSysFiles, Instance, BackendSpec
<1> DEFINE s == [inst.spec EXCEPT !.sysKey = key]
<1>3. s \in BackendSpec /\ s.backend = inst.spec.backend
  BY <1>1 DEF Instance, BackendSpec
<1>4. CASE UNCHANGED crVars
  BY <1>1, <1>4, MappedVars DEF crVars
<1> HIDE DEF s
<1>5. CASE /\ inst.fresh /\ cr \in Cr /\ cr # Absent
           /\ PutCr([cr EXCEPT !.spec = s]) /\ [cr EXCEPT !.spec = s] \in Version
  <2>1. cr' \in Cr /\ cr'.spec.backend = inst.spec.backend
    BY <1>3, <1>5, CredentialsAssumption DEF PutCr, Cr
  <2>2. cr.spec.backend = inst.spec.backend
    BY <1>1, <1>5, CopyFacts
  <2>3. cr' # Absent
    BY <2>1, CredentialsAssumption
  <2> QED
    BY <1>1, <1>5, <2>1, <2>2, <2>3, MappedVars DEF Showing
<1> QED
  BY <1>1, <1>2, <1>3, <1>4, <1>5, UpdateCrFacts DEF s

LEMMA StepInVault == IInv /\ [CredNext]_credVars => [Vault!Next]_(Vault!vars)
<1> SUFFICES ASSUME IInv, [CredNext]_credVars PROVE [Vault!Next]_(Vault!vars)
  OBVIOUS
<1>1. CASE UNCHANGED <<cr, secret>>
  BY <1>1, MappedVars DEF Vault!vars
<1>2. CASE LoseSecret
  BY <1>2 DEF LoseSecret, crVars, Vault!Next, Vault!Lose, ShownCredentials, KeptCredentials
<1>3. CASE FrontStep
  <2>1. Fetch \/ Panic => UNCHANGED <<cr, secret>>
    BY DEF Fetch, Panic, StartOver, crVars, secretVars
  <2> QED
    BY <1>1, <1>3, <2>1, SaveInVault, RedactInVault, ReadSysFilesInVault DEF FrontStep, Vault!vars
<1>4. CASE UserAction
  BY <1>4, UserInVault
<1>5. CASE DeployStep \/ SyncCr \/ SyncSecret \/ Resync \/ WorkloadEvent \/ Crash
           \/ UNCHANGED credVars
  BY <1>1, <1>5 DEF DeployStep, Deploy, SyncCr, SyncSecret, Resync, WorkloadEvent, Crash,
                    StartOver, credVars, crVars, secretVars
<1> QED
  BY <1>2, <1>3, <1>4, <1>5 DEF CredNext, Around, CollectSecret, RemoveSecret

\* Whatever happens to the controller, what it does to the credentials is what a
\* vault does.
THEOREM ImplementsVault == CredSpec => KeepsVault
<1>1. CredInit => Vault!Init
  BY DEF CredInit, Vault!Init, ShownCredentials, KeptCredentials
<1> QED
  BY <1>1, StepInVault, Inductive, PTL DEF CredSpec, KeepsVault, Vault!Spec
-----------------------------------------------------------------------------
(* The first CR of a name: nothing of it is lost while nothing goes wrong. *)

\* No user has done anything yet.
Untouched ==
  /\ cr = Absent /\ crFeed = <<>> /\ crCache = Absent
  /\ secret = Absent /\ inst = Absent

\* Whatever there is belongs to the first CR of the name.
AllFirst ==
  /\ \A v \in Readable \cup {inst} : v # Absent => v.uid = 1
  /\ secret # Absent => secret.owner = 1

\* Where credentials are hidden, or about to be, there is a secret.
SecretStands ==
  upsets = 0 /\ (pc = "redact" \/ AlreadyRedacted(cr.spec.backend)) => secret # Absent

FirstInv ==
  /\ edits = 0 => Untouched
  /\ cr # Absent /\ cr.uid = 1 => AllFirst /\ SecretStands

LEMMA UserWritesFirst ==
  ASSUME IInv, FirstInv, NEW v \in Version, UserWrites(v),
         v # Absent =>
           \/ /\ cr # Absent /\ v.uid = cr.uid
              /\ AlreadyRedacted(v.spec.backend) => AlreadyRedacted(cr.spec.backend)
           \/ v.uid = edits + 1 /\ ~ AlreadyRedacted(v.spec.backend)
  PROVE  FirstInv'
<1>1. /\ cr' = v /\ Readable' \subseteq Readable \cup {v}
      /\ UNCHANGED <<secret, pc, upsets>>
      /\ edits \in Nat /\ edits' = edits + 1
  BY PutFacts, CredentialsAssumption DEF IInv, CredTypeOK, UserWrites, secretVars
<1>2. inst' # Absent => inst # Absent /\ inst'.uid = inst.uid
  <2>1. CASE pc = "idle"
    BY <2>1, PassInstance DEF IInv, UserWrites
  <2>2. CASE pc # "idle"
    <3>1. inst \in Instance /\ inst' = [inst EXCEPT !.fresh = FALSE]
      BY <2>2, PassInstance DEF IInv, UserWrites
    <3> QED
      BY <2>2, <3>1, PassInstance DEF Instance, IInv
  <2> QED
    BY <2>1, <2>2
<1>3. SUFFICES ASSUME v # Absent, v.uid = 1 PROVE AllFirst' /\ SecretStands'
  BY <1>1 DEF FirstInv
<1>4. CASE /\ cr # Absent /\ v.uid = cr.uid
           /\ AlreadyRedacted(v.spec.backend) => AlreadyRedacted(cr.spec.backend)
  BY <1>1, <1>2, <1>3, <1>4 DEF FirstInv, AllFirst, SecretStands, AlreadyRedacted
<1>5. CASE v.uid = edits + 1 /\ ~ AlreadyRedacted(v.spec.backend)
  <2>1. Untouched
    BY <1>1, <1>3, <1>5 DEF FirstInv
  <2>2. Readable = {Absent} /\ pc # "redact"
    BY <2>1, PassInstance DEF Untouched, Readable, IInv
  <2> QED
    BY <1>1, <1>2, <1>3, <1>5, <2>1, <2>2 DEF AllFirst, SecretStands, Untouched, AlreadyRedacted
<1> QED
  BY <1>3, <1>4, <1>5

LEMMA UserFirst ==
  ASSUME IInv, FirstInv, UserAction PROVE FirstInv'
<1> USE DEF Version
<1>1. CASE CreateCr
  <2>1. PICK s \in Offers : UserWrites([uid |-> edits + 1, spec |-> s])
    BY <1>1 DEF CreateCr
  <2>2. s \in BackendSpec /\ ~ AlreadyRedacted(s.backend)
    BY CredentialsAssumption DEF AlreadyRedacted
  <2>3. [uid |-> edits + 1, spec |-> s] \in Version
    BY <2>2, CredentialsAssumption DEF IInv, CredTypeOK, Cr
  <2> QED
    BY <2>1, <2>2, <2>3, UserWritesFirst
<1>2. ASSUME cr \in Cr, cr # Absent, NEW t \in BackendSpec,
             AlreadyRedacted(t.backend) => AlreadyRedacted(cr.spec.backend),
             UserWrites([cr EXCEPT !.spec = t])
      PROVE  FirstInv'
  <2>1. /\ [cr EXCEPT !.spec = t] \in Version
        /\ [cr EXCEPT !.spec = t].spec = t /\ [cr EXCEPT !.spec = t].uid = cr.uid
    BY <1>2 DEF Cr
  <2> QED
    BY <1>2, <2>1, UserWritesFirst
<1>3. CASE ReplaceSpec
  <2>1. cr \in Cr /\ cr # Absent
    BY <1>3 DEF ReplaceSpec, IInv, CredTypeOK
  <2>2. PICK s \in Offers : UserWrites([cr EXCEPT !.spec = s])
    BY <1>3 DEF ReplaceSpec
  <2>3. s \in BackendSpec /\ ~ AlreadyRedacted(s.backend)
    BY CredentialsAssumption DEF AlreadyRedacted
  <2> QED
    BY <1>2, <2>1, <2>2, <2>3
<1>4. CASE AmendSpec
  <2>1. cr \in Cr /\ cr # Absent
    BY <1>4 DEF AmendSpec, IInv, CredTypeOK
  <2>2. PICK s \in Offers : \E store \in {cr.spec.persistence, s.persistence} :
          UserWrites([cr EXCEPT !.spec = [cr.spec EXCEPT !.snapshots = s.snapshots,
                                                         !.topologies = s.topologies,
                                                         !.persistence = store]])
    BY <1>4 DEF AmendSpec
  <2>3. PICK store \in {cr.spec.persistence, s.persistence} :
          UserWrites([cr EXCEPT !.spec = [cr.spec EXCEPT !.snapshots = s.snapshots,
                                                         !.topologies = s.topologies,
                                                         !.persistence = store]])
    BY <2>2
  <2> DEFINE t == [cr.spec EXCEPT !.snapshots = s.snapshots, !.topologies = s.topologies,
                                  !.persistence = store]
  <2>4. s \in BackendSpec /\ store \in Persistence
    BY <2>1, CredentialsAssumption DEF Cr, BackendSpec
  <2>5. t \in BackendSpec /\ t.backend = cr.spec.backend
    BY <2>1, <2>4 DEF Cr, BackendSpec
  <2> QED
    BY <1>2, <2>1, <2>3, <2>5
<1>5. CASE RetypeCredential
  <2>1. cr \in Cr /\ cr # Absent /\ cr.spec.backend.mode = "redacted"
    BY <1>5 DEF RetypeCredential, IInv, CredTypeOK
  <2> DEFINE v == [cr EXCEPT !.spec.backend.mode = "partial"]
  <2>2. v \in Version /\ v.uid = cr.uid
    BY <2>1 DEF Cr, BackendSpec, Backend, Modes
  <2>3. AlreadyRedacted(cr.spec.backend)
    BY <2>1 DEF AlreadyRedacted
  <2>4. UserWrites(v)
    BY <1>5 DEF RetypeCredential
  <2> QED
    BY <2>1, <2>2, <2>3, <2>4, UserWritesFirst
<1>6. CASE DeleteCr
  BY <1>6, UserWritesFirst DEF DeleteCr
<1> QED
  BY <1>1, <1>3, <1>4, <1>5, <1>6 DEF UserAction

LEMMA AroundFirst ==
  ASSUME IInv, FirstInv,
         SyncCr \/ SyncSecret \/ Around \/ Panic \/ Resync \/ WorkloadEvent \/ UNCHANGED credVars
  PROVE  FirstInv'
<1>1. upsets \in Nat /\ (Disturb => upsets' # 0)
  BY CredentialsAssumption DEF IInv, CredTypeOK, Disturb
<1>2. CASE SyncSecret \/ Resync \/ WorkloadEvent \/ UNCHANGED credVars
  <2>1. UNCHANGED <<cr, crFeed, crCache, secret, pc, inst, edits>>
    BY <1>2 DEF SyncSecret, Resync, WorkloadEvent, credVars, crVars, secretVars
  <2>2. upsets' = 0 => upsets = 0
    BY <1>1, <1>2 DEF SyncSecret, Resync, WorkloadEvent, credVars
  <2> QED
    BY <2>1, <2>2 DEF FirstInv, Untouched, AllFirst, SecretStands, Readable, AlreadyRedacted
<1>3. CASE SyncCr
  <2>1. Readable' \subseteq Readable /\ UNCHANGED <<cr, secret, pc, edits, upsets>> /\ edits # 0
    BY <1>3, SyncFacts DEF IInv, SyncCr, secretVars, FirstInv, Untouched
  <2>2. inst' # Absent => inst # Absent /\ inst'.uid = inst.uid
    <3>1. CASE pc = "idle"
      BY <1>3, <3>1, PassInstance DEF IInv, SyncCr
    <3>2. CASE pc # "idle"
      BY <1>3, <3>2, PassInstance DEF IInv, SyncCr, Instance
    <3> QED
      BY <3>1, <3>2
  <2> QED
    BY <2>1, <2>2 DEF FirstInv, AllFirst, SecretStands, AlreadyRedacted
<1>4. CASE CollectSecret
  <2>1. UNCHANGED <<cr, crFeed, crCache, pc, inst, edits>> /\ secret # Absent
    BY <1>4 DEF CollectSecret, LoseSecret, crVars
  <2>2. ~ (cr # Absent /\ cr.uid = 1)
    BY <1>4 DEF CollectSecret, Orphan, FirstInv, AllFirst
  <2> QED
    BY <2>1, <2>2 DEF FirstInv, Untouched
<1>5. CASE RemoveSecret
  <2>1. UNCHANGED <<cr, crFeed, crCache, pc, inst, edits>> /\ secret # Absent /\ secret' = Absent
    BY <1>5 DEF RemoveSecret, LoseSecret, crVars
  <2> QED
    BY <1>1, <1>5, <2>1 DEF RemoveSecret, FirstInv, Untouched, AllFirst, SecretStands, Readable
<1>6. CASE StartOver /\ (UNCHANGED upsets \/ Disturb)
  <2>1. /\ UNCHANGED <<cr, secret, edits>> /\ pc' = "idle" /\ inst' = Absent
        /\ crCache' = cr /\ crFeed' = <<>> /\ Readable' = {cr}
    BY <1>6 DEF StartOver, Readable
  <2>2. upsets' = 0 => upsets = 0
    BY <1>1, <1>6
  <2> QED
    BY <2>1, <2>2 DEF FirstInv, Untouched, AllFirst, SecretStands, AlreadyRedacted
<1> QED
  BY <1>2, <1>3, <1>4, <1>5, <1>6 DEF Around, Crash, Panic

LEMMA SaveFirst ==
  ASSUME IInv, FirstInv, SaveBackend PROVE FirstInv'
<1> DEFINE b == inst.spec.backend
<1>1. pc = "backend" /\ inst \in Instance /\ inst # Absent /\ UNCHANGED <<cr, crFeed, edits>>
  BY PassInstance DEF SaveBackend, IInv
<1>2. edits # 0
  BY <1>1 DEF FirstInv, Untouched
<1>3. inst'.uid = inst.uid /\ (crCache' # Absent => crCache # Absent /\ crCache'.uid = crCache.uid)
  <2>1. inst'.uid = inst.uid
    BY <1>1 DEF SaveBackend, Instance
  <2>2. CASE inst.aliased
    BY <2>2, <1>1 DEF SaveBackend, IInv, AliasInv, CredTypeOK, Cr
  <2>3. CASE ~ inst.aliased
    BY <2>3 DEF SaveBackend
  <2> QED
    BY <2>1, <2>2, <2>3
<1>4. AllFirst => \A v \in Readable' \cup {inst'} : v # Absent => v.uid = 1
  <2>1. \A v \in Readable' : v \in Readable \/ v = crCache'
    BY <1>1 DEF Readable
  <2> QED
    BY <1>1, <1>3, <2>1 DEF AllFirst, Readable
<1>5. /\ secret' # Absent => \/ secret # Absent /\ secret'.owner = secret.owner
                             \/ secret'.owner = inst.uid
      /\ secret # Absent => secret' # Absent
      /\ pc' = "redact" => secret' # Absent
      /\ upsets' = 0 => upsets = 0
  <2>1. CASE UNCHANGED <<secretVars, upsets>> /\ GoTo("deploy")
    BY <2>1 DEF secretVars, GoTo
  <2>2. CASE ~ AlreadyRedacted(b) /\ SaveSecret(DataOf(b))
    <3>1. DataOf(b) \in Configs
      BY <1>1, RedactType DEF Instance, BackendSpec
    <3>2. /\ secret' \in Secret \cup {Absent}
          /\ secret' = secret \/ secret' \in Secret
          /\ pc' = "redact" => secret' \in Secret
      BY <1>1, <2>2, <3>1, SaveSecretFacts DEF IInv
    <3>3. secret' = secret \/ (WriteSecret(DataOf(b)) /\ SecretAccepted)
      BY <2>2 DEF SaveSecret, secretVars
    <3>4. WriteSecret(DataOf(b)) /\ SecretAccepted =>
            \/ secret'.owner = inst.uid
            \/ secret \in Secret /\ secret'.owner = secret.owner
      BY DEF WriteSecret, SecretAccepted, Secret, IInv, CredTypeOK
    <3>5. upsets' = 0 => upsets = 0
      BY <2>2, CredentialsAssumption DEF SaveSecret, Disturb, IInv, CredTypeOK
    <3> QED
      BY <3>2, <3>3, <3>4, <3>5, CredentialsAssumption
  <2> QED
    BY <2>1, <2>2 DEF SaveBackend
<1>6. AllFirst => AllFirst'
  BY <1>1, <1>4, <1>5 DEF AllFirst
<1>7. SecretStands => SecretStands'
  BY <1>1, <1>5 DEF SecretStands, AlreadyRedacted
<1> QED
  BY <1>1, <1>2, <1>6, <1>7 DEF FirstInv

\* A write of the CR by the pass, of the CR itself or of none.
LEMMA UpdateFirst ==
  ASSUME IInv, FirstInv, pc \in {"sysFiles", "redact"}, NEW s \in BackendSpec, UpdateCr(s),
         pc' # "redact", UNCHANGED <<secret, edits>>,
         AlreadyRedacted(s.backend) => pc = "redact" \/ AlreadyRedacted(inst.spec.backend)
  PROVE  FirstInv'
<1>1. inst \in Instance /\ inst # Absent /\ edits # 0 /\ inst' # Absent /\ inst'.uid = inst.uid
  BY PassInstance, UpdateCrFacts DEF IInv, FirstInv, Untouched
<1>2. upsets' = 0 => upsets = 0
  BY CredentialsAssumption DEF UpdateCr, Disturb, IInv, CredTypeOK
<1>3. CASE UNCHANGED crVars
  BY <1>1, <1>2, <1>3 DEF crVars, FirstInv, AllFirst, SecretStands, Readable, AlreadyRedacted
<1>4. CASE /\ inst.fresh /\ cr \in Cr /\ cr # Absent
           /\ PutCr([cr EXCEPT !.spec = s]) /\ [cr EXCEPT !.spec = s] \in Version
  <2>1. /\ cr' = [cr EXCEPT !.spec = s] /\ cr'.uid = cr.uid /\ cr'.spec = s
        /\ Readable' \subseteq Readable \cup {cr'}
    BY <1>4, PutFacts DEF IInv, Cr
  <2>2. inst.spec.backend = cr.spec.backend
    BY <1>4, CopyFacts
  <2>3. AlreadyRedacted(cr'.spec.backend) => pc = "redact" \/ AlreadyRedacted(cr.spec.backend)
    BY <2>1, <2>2
  <2> QED
    BY <1>1, <1>2, <1>4, <2>1, <2>3 DEF FirstInv, AllFirst, SecretStands
<1> QED
  BY <1>3, <1>4, UpdateCrFacts

LEMMA PassFirst ==
  ASSUME IInv, FirstInv, Fetch \/ ReadSysFiles \/ SaveBackend \/ RedactCr \/ DeployStep
  PROVE  FirstInv'
<1>1. CASE Fetch
  <2>1. UNCHANGED <<cr, crFeed, crCache, secret, edits, upsets>> /\ pc' # "redact"
    BY <1>1, PassInstance DEF Fetch, crVars, secretVars
  <2>2. inst' # Absent => crCache # Absent /\ inst'.uid = crCache.uid
    BY <1>1, PassInstance DEF Fetch, IInv
  <2> QED
    BY <2>1, <2>2 DEF FirstInv, Untouched, AllFirst, SecretStands, Readable, AlreadyRedacted
<1>2. CASE ReadSysFiles
  <2>1. pc = "sysFiles" /\ pc' = "backend" /\ inst \in Instance /\ UNCHANGED <<secret, edits>>
    BY <1>2, PassInstance DEF ReadSysFiles, GoTo, secretVars, IInv
  <2>2. PICK key \in SysKeys \cup {NoKey} : UpdateCr([inst.spec EXCEPT !.sysKey = key])
    BY <1>2, <2>1 DEF ReadSysFiles, Instance, BackendSpec
  <2> DEFINE s == [inst.spec EXCEPT !.sysKey = key]
  <2>3. s \in BackendSpec /\ s.backend = inst.spec.backend
    BY <2>1 DEF Instance, BackendSpec
  <2> QED
    BY <2>1, <2>2, <2>3, UpdateFirst
<1>3. CASE SaveBackend
  BY <1>3, SaveFirst
<1>4. CASE RedactCr
  <2>1. pc = "redact" /\ pc' = "deploy" /\ inst \in Instance /\ UNCHANGED <<secret, edits>>
    BY <1>4, PassInstance DEF RedactCr, GoTo, secretVars, IInv
  <2> DEFINE s == [inst.spec EXCEPT !.backend = Redact(inst.spec.backend)]
  <2>2. s \in BackendSpec /\ UpdateCr(s)
    BY <1>4, <2>1, RedactType DEF RedactCr, Instance, BackendSpec
  <2> QED
    BY <2>1, <2>2, UpdateFirst
<1>5. CASE DeployStep
  <2>1. PICK error \in BOOLEAN : Deploy(error) /\ (UNCHANGED upsets \/ (error /\ Disturb))
    BY <1>5 DEF DeployStep
  <2>2. /\ UNCHANGED <<cr, crFeed, crCache, secret, edits>> /\ pc' = "idle" /\ inst' = Absent
        /\ upsets' = 0 => upsets = 0
    BY <2>1, CredentialsAssumption
    DEF Deploy, Finish, crVars, secretVars, Disturb, IInv, CredTypeOK
  <2> QED
    BY <2>2 DEF FirstInv, Untouched, AllFirst, SecretStands, Readable, AlreadyRedacted
<1> QED
  BY <1>1, <1>2, <1>3, <1>4, <1>5

\* As long as no write fails, no secret is removed and the operator is not
\* restarted, the credentials of the first CR of a name are in its secret from the
\* moment they are hidden, whatever users do and however late the caches are.
THEOREM NothingIsLost == CredSpec => []NothingLost
<1>1. CredInit => FirstInv
  BY DEF CredInit, FirstInv, Untouched
<1>2. IInv /\ FirstInv /\ [CredNext]_credVars => FirstInv'
  BY UserFirst, AroundFirst, PassFirst DEF CredNext, FrontStep
<1>3. IInv /\ FirstInv => NothingLost
  BY DEF IInv, RedactedIsSaved, FirstInv, SecretStands, NothingLost
<1> QED
  BY <1>1, <1>2, <1>3, Inductive, PTL DEF CredSpec
=============================================================================
