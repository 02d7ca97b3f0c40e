---------------------------- MODULE EmberBackend ----------------------------
(***************************************************************************)
(* The part of an EmberStorageBackend custom resource (CR) the reconciler  *)
(* branches on, and what one pass does to it: X_CSI_BACKEND_CONFIG with the *)
(* storage credentials, X_CSI_PERSISTENCE_CONFIG, the request_multipath    *)
(* entry of X_CSI_EMBER_CONFIG, the snapshot feature, the topologies and   *)
(* the system files reference.                                             *)
(*                                                                         *)
(* A configuration keeps its provenance: `cfg` is the value the user wrote, *)
(* `mode` says what is left of it in the resource.                         *)
(***************************************************************************)
EXTENDS Naturals

CONSTANTS
  JsonConfigs,      \* backend configurations that parse as a JSON object
  TextConfigs,      \* backend configurations that do not
  MultipathConfigs, \* the JSON ones with a "multipath" key ...
  QuotedConfigs,    \* ... and those written as a quoted JSON string, not a map
  NameOnly,         \* the configuration {"name": <CR name>}
  Stores,           \* persistence configurations that users write
  TextStores,       \* those of them that do not parse as a JSON object
  SysKeys,          \* the keys of the secret X_CSI_SYSTEM_FILES names
  NoKey,            \* no system file chosen yet
  MaxTopologies     \* bound on the topologies of a CR

ASSUME BackendAssumption ==
  /\ NameOnly \in JsonConfigs
  /\ NameOnly \notin MultipathConfigs
  /\ MultipathConfigs \subseteq JsonConfigs
  /\ QuotedConfigs \subseteq JsonConfigs
  /\ JsonConfigs \cap TextConfigs = {}
  /\ TextStores \subseteq Stores
  /\ MaxTopologies \in Nat

Configs == JsonConfigs \cup TextConfigs

\* plain: as the user wrote it; emptied: replaced by an empty map; redacted:
\* every value is "REDACTED"; partial: the user typed some of the values anew.
Modes == {"plain", "emptied", "redacted", "partial"}

Backend == [cfg : Configs, mode : Modes]

\* A persistence configuration, as the user wrote it, replaced by an empty map, or
\* completed: its transformation marks applied, and its storage filled in.
Persistence == [cfg : Stores, mode : {"plain", "emptied", "filled"}]

\* request_multipath as the pods get it: never set, the user's own value, or
\* the literal "REDACTED".
Multipath == {"unset", "user", "REDACTED"}

BackendSpec ==
  [backend     : Backend,
   persistence : Persistence,
   multipath   : Multipath,
   emberMap    : BOOLEAN,         \* X_CSI_EMBER_CONFIG is present, as a map
   snapshots   : BOOLEAN,         \* "snapshot" is not among the disabled features
   topologies  : 0..MaxTopologies,
   sysFiles    : BOOLEAN,         \* X_CSI_SYSTEM_FILES.name is set
   sysKey      : SysKeys \cup {NoKey}]

\* Some value of the parsed configuration is "REDACTED".
AlreadyRedacted(b) == b.mode \in {"redacted", "partial"}

\* What a pass stores in the secret: the configuration with its name filled in;
\* text that does not parse goes through unmodified, an empty map is all name.
DataOf(b) == IF b.mode = "emptied" THEN NameOnly ELSE b.cfg

\* What a pass leaves in the resource once the secret is written. Text parses to
\* no key at all, so nothing of it is left.
Redact(b) ==
  IF b.cfg \in TextConfigs /\ b.mode = "plain"
  THEN [b EXCEPT !.mode = "emptied"]
  ELSE [cfg |-> DataOf(b), mode |-> "redacted"]

\* What a pass makes of the persistence configuration. Text parses to no key, and
\* the storage is not filled in for it either, until a later pass finds an empty map.
Completed(p) ==
  [p EXCEPT !.mode = IF @ = "plain" /\ p.cfg \in TextStores THEN "emptied" ELSE "filled"]

\* The "multipath" value a pass reads from the resource: only a map has one, and
\* redaction turns every configuration into a map.
MultipathOf(b) ==
  IF b.cfg \notin MultipathConfigs \/ (b.mode = "plain" /\ b.cfg \in QuotedConfigs)
  THEN "unset"
  ELSE IF b.mode = "plain" THEN "user" ELSE "REDACTED"

\* The multipath value is copied into X_CSI_EMBER_CONFIG when there is one.
SetMultipath(s) ==
  IF MultipathOf(s.backend) = "unset" THEN s
  ELSE [s EXCEPT !.multipath = MultipathOf(s.backend)]

\* What a pass changes in its instance before it saves the backend configuration.
SetOptions(s) == SetMultipath([s EXCEPT !.persistence = Completed(@)])

\* The copy writes into a nil map when X_CSI_EMBER_CONFIG is missing.
WritesNilMap(s) == MultipathOf(s.backend) # "unset" /\ ~ s.emberMap

\* Whether the driver's name can be read from the backend configuration, for its
\* image and for the LVM volumes. The values typed anew in a partial one are taken
\* to be others.
DriverKnown(b) == b.mode = "plain" /\ b.cfg \in JsonConfigs

\* What the properties of the workloads tell apart in the pod templates built from
\* a spec.
Template(s) ==
  [driver     |-> DriverKnown(s.backend),
   multipath  |-> s.multipath,
   topologies |-> s.topologies]

Templates == [driver : BOOLEAN, multipath : Multipath, topologies : 0..MaxTopologies]
=============================================================================
