----------------------------- MODULE PodTemplates -----------------------------
(***************************************************************************)
(* The pod templates of the controller StatefulSet and of the node          *)
(* DaemonSets: containers, their mounts, the volumes of the pods and the    *)
(* topologies in their environment (common.go, node.go, controller.go).      *)
(* Mounts and volumes are built apart, from the section of the operator's   *)
(* configuration for the cluster and from the backend configuration after   *)
(* ConfigTransform, or from what a pass leaves of it: once it has saved the *)
(* configuration, its instance shows no values any more.                    *)
(***************************************************************************)
EXTENDS ConfigTransform, PodEnvironment, SequencesExt

CONSTANTS
  Sections,      \* sections of the operator's configuration, one per kind of cluster
  TopologyLists, \* the topologies of a CR, entries in the order the map yields them
  Entries,       \* their entries, a label and its value
  Settings,      \* what users set of the environment
  LvmDrivers,    \* names of the LVM driver, in any case
  LvmTexts,      \* the other texts that contain its name
  Hidden,        \* the text "REDACTED"
  Unused,        \* the entry of the default topology: its label and "not-used"
  NameOption,    \* the option "name"
  CrName,        \* the name of the CR, its default
  Unbuilt        \* no templates yet

ControllerSidecars ==
  {"external-attacher", "external-provisioner", "cluster-driver-registrar",
   "external-snapshotter", "external-resizer"}
NodeSidecars == {"node-driver-registrar", "driver-registrar"}

\* The sidecars with an image, and whether it is an OpenShift 3 cluster.
Section == [sidecars : SUBSET (ControllerSidecars \cup NodeSidecars), ocp3 : BOOLEAN]

ASSUME TemplatesAssumption ==
  /\ Sections \subseteq Section /\ Settings \subseteq Setting
  /\ TopologyLists \subseteq Seq(Seq(Entries))
  /\ Entries \cap {"[", "{", ",", "}", "]"} = {} /\ Unused \notin Entries
  /\ LvmDrivers \subseteq Drivers
  /\ LvmTexts \subseteq Texts /\ Blank \notin LvmTexts
  /\ Hidden \in Texts \ (LvmTexts \cup {Blank, CrName})
  /\ NameOption \in Options /\ CrName \in Texts

VARIABLE pods  \* the templates: by mode mounts, volumes and environment; topologies

templateVars == <<transformVars, pods>>

PodModes == {"controller", "node"}
-----------------------------------------------------------------------------
(* Mounts and volumes.                                                     *)

SetIfEmpty(c, key, value) ==
  IF c[key] \in {Missing, Text(Blank)} THEN [c EXCEPT ![key] = value] ELSE c

Named(c) == SetIfEmpty(c, [driver |-> None, option |-> NameOption, mark |-> "none"], Text(CrName))

\* A pass takes a configuration with one redacted value for a redacted one.
AlreadyRedacted(c) == \E k \in Present(c) : c[k] = Text(Hidden)

\* What the instance of a pass shows of the configuration when it builds the objects.
\* Unless it was saved, all of it, transformed. Once saved, nothing of a text, and of
\* a JSON object the keys, the driver among them, with every value hidden; it has no
\* mark or prefix left that a transformation would apply to.
Shown(saved) ==
  IF ~ saved THEN [json |-> loop = "done", driver |-> driver, config |-> m]
  ELSE [json   |-> TRUE,
        driver |-> None,
        config |-> [k \in Keys |-> IF loop = "done" /\ Named(m)[k] # Missing
                                   THEN Text(Hidden) ELSE Missing]]

\* The text of the configuration contains "lvmvolume": as the driver, as a prefix, or
\* in a value. One that does not parse is not searched.
MentionsLvm(shown) ==
  /\ shown.json
  /\ \/ shown.driver \in LvmDrivers
     \/ \E k \in Present(shown.config) :
          \/ k.driver \in LvmDrivers
          \/ /\ shown.config[k].form \in {"text", "list", "pairs", "lastPair"}
             /\ shown.config[k].of \in LvmTexts

\* Before mounts, though not before volumes, the name is filled in.
WithName(shown) == [shown EXCEPT !.config = Named(@)]

HostDirs == {"socket-dir", "iscsi-dir", "modules-dir", "run-dir", "dev-dir", "localtime"}
LvmDirs  == {"etc-lvm", "var-lock-lvm"}

NodeDirs(section) ==
  {"shared-lock-dir", "mountpoint-dir"} \cup (IF section.ocp3 THEN {"kubelet-socket-dir"} ELSE {})

SystemFiles(sysFiles) == IF sysFiles THEN {"system-files"} ELSE {}

DriverMounts(shown, mode, section, sysFiles) ==
  HostDirs \cup SystemFiles(sysFiles)
  \cup (IF MentionsLvm(WithName(shown)) THEN LvmDirs ELSE {})
  \cup (IF mode = "node" THEN NodeDirs(section) ELSE {})

SidecarMounts(sidecar) ==
  IF sidecar = "node-driver-registrar" THEN {"socket-dir", "registration-dir"} ELSE {"socket-dir"}

SidecarsOf(mode, section) ==
  section.sidecars \cap IF mode = "node" THEN NodeSidecars ELSE ControllerSidecars

\* The mounts of each container.
Containers(shown, mode, section, sysFiles) ==
  [c \in {"ember-csi"} \cup SidecarsOf(mode, section) |->
     IF c = "ember-csi" THEN DriverMounts(shown, mode, section, sysFiles)
     ELSE SidecarMounts(c)]

VolumesAlike(shown, mode, section, sysFiles) == \* broken: knows of one kind of cluster
  HostDirs \cup SystemFiles(sysFiles)
  \cup (IF MentionsLvm(shown) THEN LvmDirs ELSE {})
  \cup (IF mode = "node" THEN {"registration-dir", "shared-lock-dir", "mountpoint-dir"} ELSE {})

Volumes(shown, mode, section, sysFiles) ==
  HostDirs \cup SystemFiles(sysFiles)
  \cup (IF MentionsLvm(shown) THEN LvmDirs ELSE {})
  \cup (IF mode = "node" THEN NodeDirs(section) ELSE {})
  \cup (IF mode = "node" /\ "node-driver-registrar" \in section.sidecars
        THEN {"registration-dir"} ELSE {})
-----------------------------------------------------------------------------
(* Topologies.                                                             *)

\* buf.Truncate(buf.Len() - 1)
Truncate(text) == SubSeq(text, 1, Len(text) - 1)

\* {"label":"value",...}, and a comma.
TopologyText(topology) ==
  LET entries == [n \in DOMAIN topology |-> <<topology[n], ",">>]
  IN Truncate(FlattenSeq(<< <<"{">> >> \o entries)) \o <<"}", ",">>

TopologyTexts(topologies) ==
  FlattenSeq(<< <<"[">> >> \o [i \in DOMAIN topologies |-> TopologyText(topologies[i])])

KeptCommas(topologies) == \* broken: the last comma stays
  Append(TopologyTexts(topologies), "]")

\* X_CSI_TOPOLOGIES of the controller.
AllCsiTopologies(topologies) == Append(Truncate(TopologyTexts(topologies)), "]")

\* X_CSI_NODE_TOPOLOGY of the DaemonSet with this index; 0 is the default one, whose
\* topology is none of the CR's.
NodeTopology(topologies, index) ==
  IF index = 0 THEN {Unused}
  ELSE {topologies[index][n] : n \in DOMAIN topologies[index]}
-----------------------------------------------------------------------------
TemplatesInit == TransformInit /\ pods = Unbuilt

\* The configuration is saved, and hidden, unless it was hidden before or the secret
\* could not be written. The topologies' variables are there if there are topologies.
Build ==
  /\ loop \in {"done", "unparsed"} /\ pods = Unbuilt
  /\ \E section \in Sections, sysFiles \in BOOLEAN, topologies \in TopologyLists,
        setting \in Settings, saved \in BOOLEAN :
       /\ saved => ~ (loop = "done" /\ AlreadyRedacted(m))
       /\ LET shown == Shown(saved)
              mounts(mode) == Containers(shown, mode, section, sysFiles)
          IN pods' =
               [mounts     |-> [mode \in PodModes |-> mounts(mode)],
                volumes    |-> [mode \in PodModes |-> Volumes(shown, mode, section, sysFiles)],
                env        |-> [mode \in PodModes |-> DriverEnv(mode, setting, sysFiles)],
                known      |-> IF topologies = <<>> THEN <<>> ELSE AllCsiTopologies(topologies),
                topologies |-> [i \in IF topologies = <<>> THEN {} ELSE 0..Len(topologies) |->
                                  NodeTopology(topologies, i)],
                saved      |-> saved]
  /\ UNCHANGED transformVars

TemplatesNext == Build \/ (Transform /\ UNCHANGED pods)

TemplatesSpec == TemplatesInit /\ [][TemplatesNext]_templateVars
-----------------------------------------------------------------------------
(* Properties.                                                             *)

Built == pods # Unbuilt

\* The API server takes the pods: whatever the cluster, the driver and the system
\* files, a container mounts only volumes its pod has. The name default is excepted:
\* the mounts of a CR whose own name contains the LVM driver's have no volumes
\* (common.go:218-467, node.go:131-217, controller.go:79-216).
MountsBacked ==
  Built /\ CrName \notin LvmTexts =>
    \A mode \in PodModes :
      \A c \in DOMAIN pods.mounts[mode] : pods.mounts[mode][c] \subseteq pods.volumes[mode]

\* Pods get the LVM directories only if the backend's driver is LVM, however many
\* options of it the configuration has for a driver that is not in use. If the driver
\* is LVM, they have them, and the driver's container mounts them, as long as the
\* configuration was not saved: the redacted one that a pass builds from after saving
\* does not name the driver, whatever it is (common.go:250-268, 355-378,
\* embercsi_controller.go:224; BuiltUnredacted in Reconciler says that it should).
LvmAsDriver ==
  Built /\ (\A k \in Present(input) : input[k].of \notin LvmTexts) =>
    LET isLvm == loop = "done" /\ driver \in LvmDrivers
    IN \A mode \in PodModes :
         /\ LvmDirs \cap pods.volumes[mode] # {} => isLvm
         /\ isLvm /\ ~ pods.saved =>
              LvmDirs \subseteq pods.volumes[mode] \cap pods.mounts[mode]["ember-csi"]

\* Controller and nodes are plugins of one driver: they have the same name and store
\* their metadata in the same place, set by the user or not, and know of the system
\* files exactly when they have them mounted (common.go:36-168, node.go:220-338).
PluginsFit ==
  Built =>
    LET env == pods.env IN
    /\ "X_CSI_EMBER_CONFIG" \in DOMAIN env["controller"] <=>
         "X_CSI_EMBER_CONFIG" \in DOMAIN env["node"]
    /\ "X_CSI_EMBER_CONFIG" \in DOMAIN env["node"] =>
         \E own \in {"user", "default"} : \A mode \in PodModes :
           LET config == env[mode]["X_CSI_EMBER_CONFIG"]
           IN "plugin_name" \in DOMAIN config /\ config["plugin_name"] = own
    /\ env["controller"]["X_CSI_PERSISTENCE_CONFIG"] =
         env["node"]["X_CSI_PERSISTENCE_CONFIG"]
    /\ \A mode \in PodModes :
         "X_CSI_SYSTEM_FILES" \in DOMAIN env[mode] <=>
           "system-files" \in pods.mounts[mode]["ember-csi"]

\* Sequences with commas between them, after the first and before the last token.
Listed(first, parts, last) ==
  LET separated == [n \in DOMAIN parts |-> IF n = 1 THEN parts[n] ELSE <<",">> \o parts[n]]
  IN Append(FlattenSeq(<< <<first>> >> \o separated), last)

JsonObject(topology)  == Listed("{", [n \in DOMAIN topology |-> <<topology[n]>>], "}")
JsonArray(topologies) == Listed("[", [i \in DOMAIN topologies |-> JsonObject(topologies[i])], "]")

\* The controller parses X_CSI_TOPOLOGIES, and it lists the topologies that the node
\* plugins of the CR's topologies have, in the order of their DaemonSets. The nodes of
\* the default DaemonSet have a topology of their own, which is not in the list. A
\* topology without labels, which truncation makes unreadable, is excepted
\* (common.go:195-215, node.go:340-358).
TopologiesKnown ==
  Built /\ DOMAIN pods.topologies # {} /\ (\A i \in DOMAIN pods.topologies : pods.topologies[i] # {}) =>
    \E topologies \in TopologyLists :
      /\ pods.known = JsonArray(topologies)
      /\ DOMAIN pods.topologies = 0..Len(topologies)
      /\ \A i \in 1..Len(topologies) :
           pods.topologies[i] = {topologies[i][n] : n \in DOMAIN topologies[i]}
=============================================================================
