-------------------------- MODULE NodePlacementProofs --------------------------
(* Proofs about NodePlacement, for every value of its constants.           *)
EXTENDS NodePlacement, TLAPS

\* No node meets a requirement and its inversion, whatever the operator.
LEMMA InvertExcludes ==
  ASSUME NEW r \in Requirement, NEW l \in Labels
  PROVE  ~ (Matches(l, r) /\ Matches(l, Invert(r)))
<1> DEFINE v == l[r.key]
<1>1. v \in Values \cup {NoLabel} /\ r.values \subseteq Int /\ r.op \in Operators
  BY PlacementAssumption DEF Requirement, Labels
<1>2. Invert(r).key = r.key /\ Invert(r).values = r.values /\ Invert(r).op = Opposite[r.op]
  BY DEF Invert, Requirement
<1>3. CASE r.op \in {"In", "NotIn", "Exists", "DoesNotExist"}
  BY <1>1, <1>2, <1>3 DEF Matches, Opposite
<1>4. CASE r.op \in {"Gt", "Lt"}
  <2>1. PICK w \in Int : r.values = {w}
    BY <1>1, <1>4 DEF Requirement
  <2>2. v # NoLabel => v \in Int
    BY <1>1, PlacementAssumption
  <2> QED
    BY <1>2, <1>4, <2>1, <2>2 DEF Matches, Opposite
<1> QED
  BY <1>1, <1>3, <1>4 DEF Operators

\* A node meets one or the other, unless the requirement compares integers.
LEMMA InvertCovers ==
  ASSUME NEW r \in Requirement, NEW l \in Labels, r.op \notin {"Gt", "Lt"}
  PROVE  Matches(l, r) \/ Matches(l, Invert(r))
<1>1. r.op \in {"In", "NotIn", "Exists", "DoesNotExist"}
  BY DEF Requirement, Operators
<1>2. Invert(r).key = r.key /\ Invert(r).values = r.values /\ Invert(r).op = Opposite[r.op]
  BY DEF Invert, Requirement
<1> QED
  BY <1>1, <1>2 DEF Matches, Opposite

\* The default DaemonSet and the one of a topology share no node.
LEMMA Apart ==
  ASSUME NEW ts \in Topologies, NEW i \in 1..Len(ts), NEW l \in Labels
  PROVE  ~ (Selects(ts, 0, l) /\ Selects(ts, i, l))
<1> SUFFICES ASSUME Selects(ts, 0, l), Selects(ts, i, l) PROVE FALSE
  OBVIOUS
<1>1. ts # <<>> /\ i # 0 /\ ts[i] \in SUBSET Requirement
  BY DEF Topologies
<1>2. ts[i] # {} /\ \A r \in ts[i] : Matches(l, r)
  BY <1>1 DEF Selects, Affinity
<1>3. PICK r \in ts[i] : Matches(l, r)
  BY <1>2
<1>4. r \in NodesWithTopologies(ts)
  BY <1>3 DEF NodesWithTopologies, Range, Topologies
<1>5. Matches(l, Invert(r))
  BY <1>1, <1>4 DEF Selects, Affinity
<1> QED
  BY <1>1, <1>3, <1>5, InvertExcludes
-----------------------------------------------------------------------------
\* The topologies are one requirement each, and none compares integers.
Simple ==
  \A ts \in Offers : \A i \in 1..Len(ts) :
    \E r \in Requirement : ts[i] = {r} /\ r.op \notin {"Gt", "Lt"}

\* Every node falls to a topology or to the default DaemonSet.
LEMMA Covered ==
  ASSUME Simple, NEW ts \in Offers, NEW l \in Labels
  PROVE  \E i \in 0..Len(ts) : Selects(ts, i, l)
<1>0. ts \in Topologies /\ Len(ts) \in Nat
  BY PlacementAssumption DEF Topologies
<1>1. CASE ts = <<>>
  BY <1>0, <1>1 DEF Selects
<1>2. CASE ts # <<>>
  <2>1. \A i \in 1..Len(ts) :
          \E r \in Requirement : ts[i] = {r} /\ r.op \notin {"Gt", "Lt"}
    BY DEF Simple
  <2>2. CASE \E i \in 1..Len(ts) : \A r \in ts[i] : Matches(l, r)
    <3>1. PICK i \in 1..Len(ts) : \A r \in ts[i] : Matches(l, r)
      BY <2>2
    <3>2. ts[i] # {}
      BY <2>1
    <3>3. i \in 0..Len(ts) /\ i # 0
      BY <1>0
    <3> QED
      BY <3>1, <3>2, <3>3 DEF Selects, Affinity
  <2>3. CASE \A i \in 1..Len(ts) : \E r \in ts[i] : ~ Matches(l, r)
    <3>1. \A r \in NodesWithTopologies(ts) :
            r \in Requirement /\ r.op \notin {"Gt", "Lt"} /\ ~ Matches(l, r)
      BY <1>0, <2>1, <2>3 DEF NodesWithTopologies, Range, Topologies
    <3>2. \A r \in NodesWithTopologies(ts) : Matches(l, Invert(r))
      BY <3>1, InvertCovers
    <3>3. 1 \in DOMAIN ts /\ ts[1] # {}
      <4>1. Len(ts) # 0 /\ DOMAIN ts = 1..Len(ts)
        BY <1>0, <1>2 DEF Topologies
      <4>2. 1 \in 1..Len(ts)
        BY <1>0, <4>1
      <4> QED
        BY <2>1, <4>1, <4>2
    <3>4. NodesWithTopologies(ts) # {}
      BY <3>3 DEF NodesWithTopologies, Range
    <3>5. Affinity(ts, 0) # {} /\ \A r \in Affinity(ts, 0) : Matches(l, r)
      BY <3>2, <3>4 DEF Affinity
    <3> QED
      BY <1>0, <3>5 DEF Selects
  <2> QED
    BY <2>2, <2>3
<1> QED
  BY <1>1, <1>2
-----------------------------------------------------------------------------
LEMMA InitType == Init => TypeOK
BY PlacementAssumption DEF Init, TypeOK, AllIndices

LEMMA NextType == TypeOK /\ [Next]_vars => TypeOK'
<1> SUFFICES ASSUME TypeOK, [Next]_vars PROVE TypeOK'
  OBVIOUS
<1> USE PlacementAssumption
<1>1. CASE StartPass
  BY <1>1 DEF StartPass, TypeOK
<1>2. CASE CreateDaemonSet
  <2>1. PICK i \in Missing : daemonSets' = [daemonSets EXCEPT ![i] = seen]
    BY <1>2 DEF CreateDaemonSet
  <2>2. seen \in Offers /\ seen \in Topologies /\ Len(seen) \in 0..MaxTopologies
    BY <1>2 DEF CreateDaemonSet, TypeOK, Topologies
  <2>3. i \in 0..Len(seen) /\ i \in AllIndices
    BY <2>2 DEF Missing, Indices, AllIndices
  <2>4. /\ daemonSets' \in [AllIndices -> Offers \cup {Absent}]
        /\ \A j \in AllIndices : daemonSets'[j] # Absent => j \in 0..Len(daemonSets'[j])
    BY <2>1, <2>2, <2>3 DEF TypeOK
  <2> QED
    BY <1>2, <2>4 DEF CreateDaemonSet, TypeOK
<1>3. CASE EndPass
  BY <1>3 DEF EndPass, Disturb, TypeOK
<1>4. CASE EditTopologies
  BY <1>4 DEF EditTopologies, TypeOK
<1>5. ASSUME NEW i \in AllIndices, RemoveDaemonSet(i) PROVE TypeOK'
  BY <1>5 DEF RemoveDaemonSet, Disturb, TypeOK
<1>6. ASSUME NEW n \in Nodes, Relabel(n) PROVE TypeOK'
  BY <1>6 DEF Relabel, Disturb, TypeOK
<1>7. ASSUME NEW i \in AllIndices, NEW n \in Nodes, Place(i, n) PROVE TypeOK'
  BY <1>7 DEF Place, TypeOK
<1>8. ASSUME NEW i \in AllIndices, NEW n \in Nodes, Evict(i, n) PROVE TypeOK'
  BY <1>8 DEF Evict, TypeOK
<1>9. CASE UNCHANGED vars
  BY <1>9 DEF vars, TypeOK
<1> QED
  BY <1>1, <1>2, <1>3, <1>4, <1>5, <1>6, <1>7, <1>8, <1>9 DEF Next, Pass

\* Every behaviour keeps the types of the variables, and no DaemonSet exists for
\* a topology that the CR it was built from did not have.
THEOREM TypeCorrect == Spec => []TypeOK
BY InitType, NextType, PTL DEF Spec

\* The default DaemonSet and the one of a topology, built from the same
\* topologies, never select the same node: whatever the requirements, the labels,
\* the edits and the order in which the DaemonSets come and go.
THEOREM DefaultKeepsOff == Spec => []DefaultApart
<1>1. TypeOK => DefaultApart
  <2> SUFFICES ASSUME TypeOK, NEW i \in AllIndices \ {0}, NEW n \in Nodes,
                      daemonSets[i] # Absent, daemonSets[0] = daemonSets[i],
                      ShouldRun(0, n), ShouldRun(i, n)
               PROVE  FALSE
    BY DEF DefaultApart
  <2>1. daemonSets[i] \in Topologies /\ i \in 1..Len(daemonSets[i])
    BY PlacementAssumption DEF TypeOK, AllIndices, Topologies
  <2>2. labels[n] \in Labels
    BY DEF TypeOK
  <2> QED
    BY <2>1, <2>2, Apart DEF ShouldRun
<1> QED
  BY <1>1, TypeCorrect, PTL

\* With topologies of one requirement each, none of which compares integers, the
\* DaemonSets of a CR leave no node out.
THEOREM NoneForgotten == Simple => (Spec => []NoNodeForgotten)
<1> SUFFICES ASSUME Simple PROVE Spec => []NoNodeForgotten
  OBVIOUS
<1>1. TypeOK => NoNodeForgotten
  <2> SUFFICES ASSUME TypeOK, NEW n \in Nodes, daemonSets[0] # Absent,
                      \A i \in Indices(daemonSets[0]) : daemonSets[i] = daemonSets[0]
               PROVE  \E i \in Indices(daemonSets[0]) : ShouldRun(i, n)
    BY DEF NoNodeForgotten
  <2>1. daemonSets[0] \in Offers
    BY PlacementAssumption DEF TypeOK, AllIndices
  <2>2. labels[n] \in Labels
    BY DEF TypeOK
  <2>3. PICK i \in 0..Len(daemonSets[0]) : Selects(daemonSets[0], i, labels[n])
    BY <2>1, <2>2, Covered
  <2> QED
    BY <2>3 DEF ShouldRun, Indices
<1> QED
  BY <1>1, TypeCorrect, PTL
-----------------------------------------------------------------------------
\* No labels fall to two topologies of one CR.
Disjoint ==
  \A ts \in Offers : \A i, j \in 1..Len(ts) : \A l \in Labels :
    Selects(ts, i, l) /\ Selects(ts, j, l) => i = j

\* Until the first edit the pass and all DaemonSets stem from the one version of
\* the topologies there is. This is what a step preserves; that the pods are
\* right follows from it where the cluster has settled.
OneVersion ==
  edits = 0 => /\ seen \in {topologies, Absent}
               /\ \A i \in AllIndices : daemonSets[i] \in {topologies, Absent}

LEMMA InitOneVersion == Init => OneVersion
BY DEF Init, OneVersion

LEMMA NextOneVersion == TypeOK /\ OneVersion /\ [Next]_vars => OneVersion'
<1> SUFFICES ASSUME TypeOK, OneVersion, [Next]_vars PROVE OneVersion'
  OBVIOUS
<1>1. CASE StartPass
  BY <1>1 DEF StartPass, OneVersion
<1>2. CASE CreateDaemonSet
  <2>1. PICK i \in Missing : daemonSets' = [daemonSets EXCEPT ![i] = seen]
    BY <1>2 DEF CreateDaemonSet
  <2>2. \A j \in AllIndices : daemonSets'[j] \in {daemonSets[j], seen}
    BY <2>1 DEF TypeOK
  <2> QED
    BY <1>2, <2>2 DEF CreateDaemonSet, OneVersion
<1>3. CASE EndPass
  BY <1>3 DEF EndPass, OneVersion
<1>4. CASE EditTopologies
  BY <1>4 DEF EditTopologies, OneVersion, TypeOK
<1>5. ASSUME NEW i \in AllIndices, RemoveDaemonSet(i) PROVE OneVersion'
  BY <1>5 DEF RemoveDaemonSet, OneVersion, TypeOK
<1>6. ASSUME NEW n \in Nodes, Relabel(n) PROVE OneVersion'
  BY <1>6 DEF Relabel, OneVersion
<1>7. ASSUME NEW i \in AllIndices, NEW n \in Nodes, Place(i, n) PROVE OneVersion'
  BY <1>7 DEF Place, OneVersion
<1>8. ASSUME NEW i \in AllIndices, NEW n \in Nodes, Evict(i, n) PROVE OneVersion'
  BY <1>8 DEF Evict, OneVersion
<1>9. CASE UNCHANGED vars
  BY <1>9 DEF vars, OneVersion
<1> QED
  BY <1>1, <1>2, <1>3, <1>4, <1>5, <1>6, <1>7, <1>8, <1>9 DEF Next, Pass

\* Two DaemonSets of the same topologies never select the same node.
LEMMA AtMostOne ==
  ASSUME Disjoint, NEW ts \in Offers, NEW l \in Labels,
         NEW i \in 0..Len(ts), NEW j \in 0..Len(ts),
         Selects(ts, i, l), Selects(ts, j, l)
  PROVE  i = j
<1>1. ts \in Topologies /\ Len(ts) \in Nat
  BY PlacementAssumption DEF Topologies
<1>2. CASE i # 0 /\ j # 0
  BY <1>1, <1>2 DEF Disjoint
<1>3. CASE i = 0 /\ j # 0
  BY <1>1, <1>3, Apart
<1>4. CASE i # 0 /\ j = 0
  BY <1>1, <1>4, Apart
<1> QED
  BY <1>2, <1>3, <1>4

\* In a settled cluster the pods of a node are those of the DaemonSets selecting it.
LEMMA SettledPods ==
  ASSUME Simple, Disjoint, TypeOK, OneVersion, edits = 0, Settled, NEW n \in Nodes
  PROVE  \E i \in AllIndices : pods[n] = {i}
<1>1. topologies \in Offers /\ labels[n] \in Labels /\ pods[n] \subseteq AllIndices
  BY DEF TypeOK
<1>2. Len(topologies) \in 0..MaxTopologies
  BY <1>1, PlacementAssumption DEF Topologies
<1>3. PICK i \in 0..Len(topologies) : Selects(topologies, i, labels[n])
  BY <1>1, Covered
<1>4. i \in AllIndices /\ daemonSets[i] = topologies
  <2>1. i \in AllIndices /\ i \in Indices(topologies)
    BY <1>2, <1>3, PlacementAssumption DEF AllIndices, Indices
  <2> QED
    BY <2>1 DEF Settled, OneVersion
<1>5. i \in pods[n]
  BY <1>1, <1>3, <1>4, PlacementAssumption DEF Settled, ShouldRun
<1>6. ASSUME NEW j \in pods[n] PROVE j = i
  <2>1. j \in AllIndices /\ ShouldRun(j, n)
    BY <1>1 DEF Settled
  <2>2. daemonSets[j] = topologies /\ j \in 0..Len(topologies)
    BY <2>1 DEF ShouldRun, OneVersion, TypeOK
  <2>3. Selects(topologies, j, labels[n])
    BY <2>1, <2>2 DEF ShouldRun
  <2> QED
    BY <1>1, <1>3, <2>2, <2>3, AtMostOne
<1> QED
  BY <1>4, <1>5, <1>6

\* With disjoint topologies of one requirement each, none of which compares
\* integers, a settled cluster whose CR was not edited runs the plugin exactly
\* once on every node.
THEOREM ExactlyOnePlugin ==
  Simple /\ Disjoint => (Spec => []OnePluginWhenSettled)
<1> SUFFICES ASSUME Simple, Disjoint PROVE Spec => []OnePluginWhenSettled
  OBVIOUS
<1>1. TypeOK /\ OneVersion => OnePluginWhenSettled
  BY SettledPods DEF OnePluginWhenSettled
<1> QED
  BY <1>1, TypeCorrect, InitOneVersion, NextOneVersion, PTL DEF Spec
=============================================================================
