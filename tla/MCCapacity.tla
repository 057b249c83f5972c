----------------------------- MODULE MCCapacity -----------------------------
EXTENDS Capacity, TLC

RequestsAndCandidacies == Permutations(Requests) \cup Permutations(Candidacies)
=============================================================================
