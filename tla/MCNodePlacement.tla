---------------------------- MODULE MCNodePlacement ----------------------------
(* Instances of NodePlacement for TLC: the topologies its users write.     *)
EXTENDS NodePlacement

CONSTANTS zone   \* a label key

Req(op, values) == [key |-> zone, op |-> op, values |-> values]

\* One requirement per topology, no node in two topologies.
SingleOffers ==
  {<<>>, <<{Req("Exists", {})}>>, <<{Req("NotIn", {1})}>>,
   <<{Req("In", {1})}, {Req("In", {2})}>>,
   <<{Req("In", {1})}, {Req("DoesNotExist", {})}>>}
=============================================================================
