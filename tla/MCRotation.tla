----------------------------- MODULE MCRotation -----------------------------
(***************************************************************************)
(* A fixed-order circle of three, with members who exit and an organizer   *)
(* who may cancel.  Exits are those of members.                            *)
(***************************************************************************)
EXTENDS Circle

RotationNext ==
    \/ \E m \in Address : Join(m) \/ CancelCircle(m) \/ (IsMember(members, m) /\ Exit(m))
    \/ \E m \in Address, amount \in Amounts, r \in Rounds : Contribute(m, amount, r)
    \/ \E m \in Address, r \in Rounds : TriggerPayout(m, r) \/ SchedulePayout(m, r)

RotationSpec == Init /\ [][RotationNext]_vars
=============================================================================
