---------------------------- MODULE MCFriendUser -----------------------------
(***************************************************************************)
(* The instances of FriendUser that TLC checks.                            *)
(***************************************************************************)
EXTENDS FriendUser, TLC

Symmetry == Permutations(Users)
=============================================================================
