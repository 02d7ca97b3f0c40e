---------------------------- MODULE PodEnvironment ----------------------------
(***************************************************************************)
(* The environment of the driver's container, which controller and nodes    *)
(* build in two functions with the same variables (generateEnvVars in       *)
(* common.go, generateNodeEnvVars in node.go). Variables that are constant  *)
(* are left out.                                                           *)
(***************************************************************************)
CONSTANT NotJson  \* a configuration that is no JSON object

\* The variables users may set in the CR.
UserVariables ==
  {"X_CSI_DEBUG_MODE", "X_CSI_ABORT_DUPLICATES", "X_CSI_DEFAULT_MOUNT_FS", "X_CSI_NODE_ID",
   "X_CSI_STORAGE_NW_IP", "CSI_ENDPOINT", "CSI_MODE"}

NodeKeys        == {"project_id", "user_id", "root_helper"}
EmberKeys       == {"plugin_name"} \cup NodeKeys
PersistenceKeys == {"storage", "namespace"}

\* The variables a user sets, and the keys with a value in the two configurations, of
\* which a pass has made the second a map by then, whatever the user wrote.
Setting ==
  [variables   : SUBSET UserVariables,
   ember       : (SUBSET EmberKeys) \cup {NotJson},
   persistence : SUBSET PersistenceKeys]

\* setJsonKeyIfEmpty, key by key.
Filled(own, defaults) ==
  [k \in own \cup defaults |-> IF k \in own THEN "user" ELSE "default"]

DefaultsApart(mode) == \* broken: the copy for the nodes has lost one
  IF mode = "node" THEN NodeKeys ELSE {"plugin_name"}

EmberDefaults(mode) == {"plugin_name"} \cup (IF mode = "node" THEN NodeKeys ELSE {})

\* The variables the operator gives a value. A configuration that does not parse is
\* left out.
GivenNames(mode, setting, sysFiles) ==
  {"X_CSI_PERSISTENCE_CONFIG", "CSI_ENDPOINT", "CSI_MODE"}
  \cup (IF setting.ember # NotJson THEN {"X_CSI_EMBER_CONFIG"} ELSE {})
  \cup (IF mode = "node" THEN {"X_CSI_NODE_ID"} ELSE {})
  \cup (IF sysFiles THEN {"X_CSI_SYSTEM_FILES"} ELSE {})

Given(name, mode, setting) ==
  CASE name = "X_CSI_PERSISTENCE_CONFIG" -> Filled(setting.persistence, PersistenceKeys)
    [] name = "X_CSI_EMBER_CONFIG"       -> Filled(setting.ember, EmberDefaults(mode))
    [] name = "X_CSI_SYSTEM_FILES"       -> "file"
    [] name = "X_CSI_NODE_ID"            -> "nodeName"
    [] name = "CSI_ENDPOINT"             -> "socket"
    [] name = "CSI_MODE"                 -> mode

\* The kubelet takes the last of two variables of one name, so the user's.
DriverEnv(mode, setting, sysFiles) ==
  [name \in GivenNames(mode, setting, sysFiles) \cup setting.variables |->
     IF name \in setting.variables THEN "user" ELSE Given(name, mode, setting)]
=============================================================================
