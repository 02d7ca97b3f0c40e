---------------------------- MODULE MCReconciler ----------------------------
(* Instances of Reconciler for TLC: the specs its users write.             *)
EXTENDS Reconciler

Plain(topologies, snapshots) ==
  [backend     |-> [cfg |-> NameOnly, mode |-> "plain"],
   persistence |-> [cfg |-> CHOOSE p \in Stores : TRUE, mode |-> "plain"],
   multipath   |-> "unset",
   emberMap    |-> TRUE,
   snapshots   |-> snapshots,
   topologies  |-> topologies,
   sysFiles    |-> FALSE,
   sysKey      |-> NoKey]

\* With snapshots and without, and with topologies and without.
SnapshotOffers == {Plain(0, TRUE), Plain(0, FALSE)}
AllOffers == {Plain(0, TRUE), Plain(MaxTopologies, FALSE)}

\* A multipath configuration that asks for a topology later.
MultipathOffers ==
  {[Plain(t, TRUE) EXCEPT !.backend.cfg = c] : t \in 0..MaxTopologies, c \in MultipathConfigs}
=============================================================================
