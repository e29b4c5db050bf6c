----------------------------- MODULE MCSessionPool -----------------------------
(***************************************************************************)
(* SessionPool for TLC.  Tasks, ids and accounts are interchangeable: no   *)
(* action tells one from another, so the runs that check safety only may   *)
(* identify states that differ by a permutation of them.                   *)
(***************************************************************************)
EXTENDS SessionPool, TLC

Symmetry == Permutations(Callers) \cup Permutations(Sids) \cup Permutations(Accounts)
================================================================================
