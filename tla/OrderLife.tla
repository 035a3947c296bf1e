------------------------------ MODULE OrderLife ------------------------------
(***************************************************************************)
(* What the rest of the service relies on about an order: it is placed     *)
(* pending, and settles once, confirmed or cancelled.  Inventory and       *)
(* OrderStore implement this module, and OrderCache builds on it.          *)
(***************************************************************************)

CONSTANT OrderIds  \* ids of orders rows that may exist

VARIABLE status    \* orders.status, "absent" where there is no row

RowStatus == {"pending", "confirmed", "cancelled"}

LifeInit == status = [o \in OrderIds |-> "absent"]

Place(o) ==
  /\ status[o] = "absent"
  /\ status' = [status EXCEPT ![o] = "pending"]

\* Mutant of Unsettled: one state is left out of NOT IN.
NotConfirmed(o) == status[o] \in {"pending", "cancelled"}

\* WHERE ... status NOT IN ('cancelled', 'confirmed')
Unsettled(o) == status[o] = "pending"

\* One order by Cancel, several by CancelStale.
Cancel(S) ==
  /\ S # {}
  /\ \A o \in S : Unsettled(o)
  /\ status' = [o \in OrderIds |-> IF o \in S THEN "cancelled" ELSE status[o]]

Confirm(o) ==
  /\ Unsettled(o)
  /\ status' = [status EXCEPT ![o] = "confirmed"]

LifeNext ==
  \/ \E o \in OrderIds : Place(o) \/ Confirm(o)
  \/ \E S \in SUBSET OrderIds : Cancel(S)

LifeSpec == LifeInit /\ [][LifeNext]_status
=============================================================================
