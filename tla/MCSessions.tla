----------------------------- MODULE MCSessions -----------------------------
(* The instance of Sessions that TLC checks: everything a handler names is  *)
(* interchangeable, so each set of identifiers is a symmetry set.           *)
EXTENDS Sessions, TLC

Symmetry ==
    Permutations(Users) \cup Permutations(Jtis) \cup Permutations(Reqs)
=============================================================================
