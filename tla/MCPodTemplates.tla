--------------------------- MODULE MCPodTemplates ---------------------------
(* Instances of PodTemplates for TLC: the configurations, the clusters, the *)
(* topologies and the settings.                                            *)
EXTENDS PodTemplates

CONSTANTS InUse, Other, Option, Label1, Label2

\* One option of one driver, marked or not, next to the same option without mark.
Slot(d, mark, marked, plain) ==
  [k \in Keys |->
     IF k.driver # d \/ k.option # Option THEN Missing
     ELSE IF k.mark = "none" THEN plain
     ELSE IF k.mark = mark THEN marked ELSE Missing]

NotText  == [form |-> "other", of |-> Blank]
NoOption == [k \in Keys |-> Missing]

\* The empty text, the ones that matter with every mark, and those this mark is for.
TextsFor(mark) ==
  {Blank, Hidden} \cup LvmTexts
  \cup (IF mark = "csv_kvs" THEN PairTexts ELSE {})
  \cup (IF mark = "string_float" THEN NumberTexts ELSE {})

\* In full for the driver in use, and what can get in its way from the others.
OwnOnes ==
  UNION {{Slot(InUse, mark, Text(t), Missing) : t \in TextsFor(mark)} : mark \in Marks \ {"none"}}
  \cup UNION {{Slot(InUse, mark, v, Text(Blank)) : v \in {Text(t) : t \in TextsFor(mark)} \cup {NotText}}
              : mark \in {"csv_kvs", "string_float"}}
CommonOnes == {NoOption, Slot(None, "csv", Text(Blank), Missing), Slot(None, "none", Missing, Text(Blank))}
OtherOnes  == {NoOption, Slot(Other, "csv", Text(Blank), Missing)}

Merged(f, g, h) ==
  [k \in Keys |-> IF k.driver = None THEN f[k] ELSE IF k.driver = InUse THEN g[k] ELSE h[k]]

SomeInputs == {Merged(f, g, h) : f \in CommonOnes, g \in OwnOnes, h \in OtherOnes}

\* The sections of build/config.yaml have the first set; older clusters the second.
SomeSections ==
  {[sidecars |-> (ControllerSidecars \cup NodeSidecars) \ {"cluster-driver-registrar", "driver-registrar"},
    ocp3 |-> FALSE],
   [sidecars |-> {"external-attacher", "cluster-driver-registrar", "driver-registrar"},
    ocp3 |-> TRUE]}

\* None, one with both labels, two, and one without label.
SomeTopologies ==
  {<<>>, << <<Label2, Label1>> >>, << <<Label1>>, <<Label2>> >>, << <<>> >>}

\* Nothing, everything, and configurations that do not parse.
SomeSettings ==
  {[variables |-> {}, ember |-> {}, persistence |-> {"storage"}],
   [variables |-> UserVariables, ember |-> EmberKeys, persistence |-> PersistenceKeys],
   [variables |-> {"CSI_MODE"}, ember |-> NotJson, persistence |-> {"storage"}]}
=============================================================================
