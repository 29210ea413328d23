------------------------------ MODULE MCVault ------------------------------
(* Vault on a small instance: the processes, the values and the surrogates *)
(* are interchangeable (the types are not: _ZONE is exempt).               *)
EXTENDS Vault, TLC

Symmetry ==
    Permutations(Procs) \cup Permutations(Reals) \cup Permutations(Surrs)
=============================================================================
