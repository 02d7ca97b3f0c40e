--------------------------- MODULE CredentialVault ---------------------------
(***************************************************************************)
(* What the operator promises about storage credentials, whatever happens  *)
(* to it: a user shows credentials in the custom resource, the operator    *)
(* keeps credentials it was shown in a secret, and hides those in the      *)
(* resource only when they are the ones it keeps. While credentials are    *)
(* hidden nothing else is ever kept. Credentials implements this.          *)
(***************************************************************************)
CONSTANTS
  Nothing,  \* no resource; no secret: none of the Data
  Data,     \* what may be kept
  Blank     \* of the Data, what is left of credentials that cannot be hidden

VARIABLES
  shown,    \* what the resource has: Nothing, or credentials and whether they are hidden
  kept      \* what the secret has

vars == <<shown, kept>>

Visible(c) == [data |-> c, hidden |-> FALSE]
Hidden(c)  == [data |-> c, hidden |-> TRUE]

IsHidden == \E c \in Data : shown = Hidden(c)

Init == shown = Nothing /\ kept = Nothing

\* A user writes or deletes the resource.
Show(c)  == shown' = Visible(c) /\ UNCHANGED kept
Withdraw == shown' = Nothing /\ UNCHANGED kept

\* Credentials shown at some time are kept, though not over others that are hidden.
Keep(c) ==
  /\ shown = Hidden(c) \/ ~ IsHidden
  /\ kept' = c /\ UNCHANGED shown

\* Kept credentials are hidden; those that were kept may have been lost since.
Hide(c) ==
  /\ shown = Visible(c) /\ kept \in {c, Nothing}
  /\ shown' \in {Hidden(c), Visible(Blank)}
  /\ UNCHANGED kept

Lose == kept' = Nothing /\ UNCHANGED shown

Next ==
  \/ \E c \in Data : Show(c) \/ Keep(c) \/ Hide(c)
  \/ Withdraw \/ Lose

Spec == Init /\ [][Next]_vars
=============================================================================
