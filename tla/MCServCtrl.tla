------------------------------ MODULE MCServCtrl ------------------------------
EXTENDS ServCtrl, TLC

Symmetry == Permutations(Timers) \cup Permutations(Killers)
=============================================================================
