----------------------------- MODULE MCErasure -----------------------------
EXTENDS Erasure, TLC

RunSymmetry == Permutations(Runs)
=============================================================================
