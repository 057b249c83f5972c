----------------------------- MODULE MCAccounts -----------------------------
EXTENDS Accounts, TLC

SlotSymmetry == Permutations(Slots)
=============================================================================
