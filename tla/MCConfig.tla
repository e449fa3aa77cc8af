------------------------------- MODULE MCConfig -------------------------------
EXTENDS Config, TLC

(* Not of settings: Unescapable tells them apart. *)
Symmetry ==
  Permutations(Ids) \cup Permutations(FileIds) \cup Permutations(Versions)
=============================================================================
