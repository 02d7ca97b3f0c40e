---------------------------- MODULE NodePlacement ----------------------------
(***************************************************************************)
(* Where the node plugin of a backend runs. For the topologies of its CR   *)
(* the controller creates one DaemonSet each, and DaemonSet 0 for the nodes *)
(* of none of them, by inverting every node requirement of all topologies. *)
(* A DaemonSet is created when it is missing and never updated, so that the *)
(* ones in the cluster may stem from different versions of the CR. The     *)
(* cluster's DaemonSet controller places the pods, as nodes are relabelled. *)
(*                                                                         *)
(* The passes are those of Reconciler without their caches and errors.     *)
(***************************************************************************)
EXTENDS Integers, Sequences, Functions, FiniteSets

CONSTANTS
  Nodes,         \* the nodes of the cluster
  Keys,          \* keys of their labels
  Values,        \* values of their labels, all integers
  NoLabel,       \* the value of a label a node does not have
  Absent,        \* a DaemonSet that does not exist, a pass that is not running
  Offers,        \* the sequences of topologies users write
  MaxTopologies, \* bound on their length
  MaxEdits,      \* bound on the users' edits
  MaxUpsets      \* bound on relabelled nodes, removed DaemonSets, failed passes

Operators == {"In", "NotIn", "Exists", "DoesNotExist", "Gt", "Lt"}

\* A NodeSelectorRequirement, as far as the API server accepts it.
Requirement ==
  {r \in [key : Keys, op : Operators, values : SUBSET Values] :
     /\ r.op \in {"In", "NotIn"} => r.values # {}
     /\ r.op \in {"Exists", "DoesNotExist"} => r.values = {}
     /\ r.op \in {"Gt", "Lt"} => \E v \in Values : r.values = {v}}

\* Of a topology only its Nodes matter here, and a list of requirements that
\* must all hold is a set of them.
Topologies == Seq(SUBSET Requirement)

Labels == [Keys -> Values \cup {NoLabel}]

ASSUME PlacementAssumption ==
  /\ Values \subseteq Int /\ NoLabel \notin Values
  /\ MaxTopologies \in Nat /\ MaxEdits \in Nat /\ MaxUpsets \in Nat
  /\ Offers \subseteq {ts \in Topologies : Len(ts) <= MaxTopologies}
  /\ Absent \notin Topologies

VARIABLES
  topologies,  \* Spec.Topologies of the CR
  seen,        \* those of the pass under way, which may be out of date
  daemonSets,  \* of each DaemonSet, the topologies it was built from
  labels,      \* the labels of each node
  pods,        \* the DaemonSets with a pod on each node
  edits,       \* users' edits so far
  upsets       \* disturbances so far

vars == <<topologies, seen, daemonSets, labels, pods, edits, upsets>>

AllIndices == 0..MaxTopologies

OneTooMany(ts) == \* broken: one DaemonSet more than there should be
  {i \in AllIndices : i <= Len(ts) + 1}

NoDefault(ts) == 1..Len(ts) \* broken: no default DaemonSet

\* The DaemonSets a pass looks for: the default one, and one per topology.
Indices(ts) == 0..Len(ts)

TypeOK ==
  /\ topologies \in Offers
  /\ seen \in Offers \cup {Absent}
  /\ daemonSets \in [AllIndices -> Offers \cup {Absent}]
  /\ \A i \in AllIndices : daemonSets[i] # Absent => i \in 0..Len(daemonSets[i])
  /\ labels \in [Nodes -> Labels]
  /\ pods \in [Nodes -> SUBSET AllIndices]
  /\ edits \in 0..MaxEdits
  /\ upsets \in 0..MaxUpsets

Init ==
  /\ topologies \in Offers /\ seen = Absent
  /\ daemonSets = [i \in AllIndices |-> Absent]
  /\ labels \in [Nodes -> Labels]
  /\ pods = [n \in Nodes |-> {}]
  /\ edits = 0 /\ upsets = 0
-----------------------------------------------------------------------------
(* Requirements and affinities.                                            *)

\* What the scheduler takes a requirement to mean.
Matches(l, r) ==
  LET v == l[r.key]
  IN \/ r.op = "In" /\ v \in r.values
     \/ r.op = "NotIn" /\ v \notin r.values
     \/ r.op = "Exists" /\ v # NoLabel
     \/ r.op = "DoesNotExist" /\ v = NoLabel
     \/ r.op = "Gt" /\ v # NoLabel /\ \A w \in r.values : v > w
     \/ r.op = "Lt" /\ v # NoLabel /\ \A w \in r.values : v < w

Opposite ==
  [In |-> "NotIn", NotIn |-> "In", Exists |-> "DoesNotExist",
   DoesNotExist |-> "Exists", Gt |-> "Lt", Lt |-> "Gt"]

Invert(r) == [r EXCEPT !.op = Opposite[@]]

\* getNodesWithTopologies: the requirements of all topologies together.
LastTopology(ts) == \* broken: only those of the last one
  IF ts = <<>> THEN {} ELSE ts[Len(ts)]

NodesWithTopologies(ts) == UNION Range(ts)

\* The requirements of a DaemonSet's affinity when there are topologies.
NotInverted(ts, i) == \* broken: no antiaffinity
  IF i = 0 THEN NodesWithTopologies(ts) ELSE ts[i]

Affinity(ts, i) ==
  IF i = 0 THEN {Invert(r) : r \in NodesWithTopologies(ts)} ELSE ts[i]

\* Without topologies there is no affinity; an empty term selects no node.
Selects(ts, i, l) ==
  \/ ts = <<>>
  \/ Affinity(ts, i) # {} /\ \A r \in Affinity(ts, i) : Matches(l, r)

-----------------------------------------------------------------------------
(* The passes of the controller.                                           *)

Disturb == upsets < MaxUpsets /\ upsets' = upsets + 1

StartPass ==
  /\ seen = Absent /\ seen' = topologies
  /\ UNCHANGED <<topologies, daemonSets, labels, pods, edits, upsets>>

Missing == {i \in Indices(seen) : daemonSets[i] = Absent}

\* The missing DaemonSets are created in order, from the topologies of the pass.
CreateDaemonSet ==
  /\ seen # Absent
  /\ \E i \in Missing :
       /\ \A j \in Missing : i <= j
       /\ daemonSets' = [daemonSets EXCEPT ![i] = seen]
  /\ UNCHANGED <<topologies, seen, labels, pods, edits, upsets>>

\* A creation that fails ends the pass too.
EndPass ==
  /\ seen # Absent
  /\ \/ Missing = {} /\ UNCHANGED upsets
     \/ Missing # {} /\ Disturb
  /\ seen' = Absent
  /\ UNCHANGED <<topologies, daemonSets, labels, pods, edits>>
-----------------------------------------------------------------------------
(* Users and the cluster.                                                  *)

EditTopologies ==
  /\ edits < MaxEdits /\ edits' = edits + 1
  /\ topologies' \in Offers \ {topologies}
  /\ UNCHANGED <<seen, daemonSets, labels, pods, upsets>>

RemoveDaemonSet(i) ==
  /\ daemonSets[i] # Absent /\ daemonSets' = [daemonSets EXCEPT ![i] = Absent]
  /\ Disturb
  /\ UNCHANGED <<topologies, seen, labels, pods, edits>>

Relabel(n) ==
  /\ \E l \in Labels \ {labels[n]} : labels' = [labels EXCEPT ![n] = l]
  /\ Disturb
  /\ UNCHANGED <<topologies, seen, daemonSets, pods, edits>>

ShouldRun(i, n) == daemonSets[i] # Absent /\ Selects(daemonSets[i], i, labels[n])

Place(i, n) ==
  /\ ShouldRun(i, n) /\ i \notin pods[n]
  /\ pods' = [pods EXCEPT ![n] = @ \cup {i}]
  /\ UNCHANGED <<topologies, seen, daemonSets, labels, edits, upsets>>

Evict(i, n) ==
  /\ ~ ShouldRun(i, n) /\ i \in pods[n]
  /\ pods' = [pods EXCEPT ![n] = @ \ {i}]
  /\ UNCHANGED <<topologies, seen, daemonSets, labels, edits, upsets>>
-----------------------------------------------------------------------------
Pass == StartPass \/ CreateDaemonSet \/ EndPass

Next ==
  \/ Pass \/ EditTopologies
  \/ \E i \in AllIndices : RemoveDaemonSet(i)
  \/ \E n \in Nodes : Relabel(n)
  \/ \E i \in AllIndices, n \in Nodes : Place(i, n) \/ Evict(i, n)

Spec == Init /\ [][Next]_vars

\* A pass that began goes on, and another one follows it, be it at the resync;
\* the DaemonSet controller does its work.
FairSpec ==
  /\ Spec
  /\ WF_vars(StartPass) /\ WF_vars(CreateDaemonSet) /\ WF_vars(EndPass)
  /\ \A i \in AllIndices, n \in Nodes : WF_vars(Place(i, n) \/ Evict(i, n))
-----------------------------------------------------------------------------
(* Properties.                                                             *)

\* The default DaemonSet keeps off the nodes of every topology: if it and the
\* DaemonSet of a topology were built from the same topologies, no node is
\* selected by both, whatever its labels are or become, and whichever of the two
\* was lost and created anew in between (node.go:26-48).
DefaultApart ==
  \A i \in AllIndices \ {0}, n \in Nodes :
    daemonSets[i] # Absent /\ daemonSets[0] = daemonSets[i]
      => ~ (ShouldRun(0, n) /\ ShouldRun(i, n))

\* The default DaemonSet takes what the topologies leave: when all DaemonSets
\* were built from the same topologies, one of them selects each node.
NoNodeForgotten ==
  LET ts == daemonSets[0]
  IN ts # Absent /\ (\A i \in Indices(ts) : daemonSets[i] = ts)
       => \A n \in Nodes : \E i \in Indices(ts) : ShouldRun(i, n)

\* A pass found every DaemonSet of the CR, and the DaemonSet controller has
\* nothing to do.
Settled ==
  /\ \A i \in Indices(topologies) : daemonSets[i] # Absent
  /\ \A i \in AllIndices, n \in Nodes : ShouldRun(i, n) <=> i \in pods[n]

\* Once all of them are there and their pods are placed, every node runs the pod of
\* one DaemonSet and of no other, however many were lost and created anew and
\* whatever was relabelled before, unless the topologies were edited (node.go:26-128).
OnePluginWhenSettled ==
  edits = 0 /\ Settled => \A n \in Nodes : \E i \in AllIndices : pods[n] = {i}

\* Unless the topologies are edited, every node runs exactly one pod of the plugin
\* in the end, whatever was relabelled, removed or failed before.
EventuallyOnePlugin ==
  <>[](edits = 0 => \A n \in Nodes : Cardinality(pods[n]) = 1)
=============================================================================
