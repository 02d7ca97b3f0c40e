---------------------------- MODULE MCCredentials ----------------------------
(* Instances of Credentials for TLC: the specs its users write.            *)
EXTENDS Credentials

Plain(config, store) ==
  [backend     |-> [cfg |-> config, mode |-> "plain"],
   persistence |-> [cfg |-> store, mode |-> "plain"],
   multipath   |-> "unset",
   emberMap    |-> TRUE,
   snapshots   |-> TRUE,
   topologies  |-> 0,
   sysFiles    |-> FALSE,
   sysKey      |-> NoKey]

\* One spec per pair of configurations.
PlainOffers == {Plain(c, p) : c \in Configs, p \in Stores}

\* A text as the persistence configuration goes with the shortest backend
\* configuration only.
PairedOffers ==
  {s \in PlainOffers : (s.persistence.cfg \in TextStores) <=> (s.backend.cfg = NameOnly)}

\* The same with system files, and without snapshots for the shortest one; next to
\* them those without system files and X_CSI_EMBER_CONFIG.
SysOffers ==
  {[s EXCEPT !.sysFiles = TRUE, !.snapshots = s.backend.cfg # NameOnly] : s \in PairedOffers}
MixedOffers == SysOffers \cup {[s EXCEPT !.emberMap = FALSE] : s \in PairedOffers}
=============================================================================
