----------------------------- MODULE MCStaking -----------------------------
(***************************************************************************)
(* Two stakers, one of whom is the admin, with slashes with and without    *)
(* notice, and changes of admin.                                           *)
(***************************************************************************)
EXTENDS Staking, TLC

MCFunds == [u \in User |-> 3]
StakerSymmetry == Permutations(User)
=============================================================================
