----------------------------- MODULE MCTwoFactor -----------------------------
(***************************************************************************)
(* TwoFactor for TLC.  Either no request ends in the middle, or recovery   *)
(* codes are drawn once: which of them is chosen at the beginning.         *)
(* Requests, sessions and batches are interchangeable.                     *)
(***************************************************************************)
EXTENDS TwoFactor, TLC

VARIABLE focus

Bounds ==
    [renewals |-> crashes = 0,
     crashes |-> Cardinality(drawn) <= 1]

MCInit == Init /\ focus \in DOMAIN Bounds
MCNext == Next /\ UNCHANGED focus /\ Bounds'[focus]
MCSpec == MCInit /\ [][MCNext]_<<vars, focus>>

Symmetry == Permutations(Requests) \cup Permutations(Sessions) \cup Permutations(Batches)
==============================================================================
