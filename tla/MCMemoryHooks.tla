--------------------------- MODULE MCMemoryHooks ---------------------------
(* Addresses are interchangeable: malloc may return any that is free.      *)
EXTENDS MemoryHooks, TLC

AddressSymmetry == Permutations(Addresses)
=============================================================================
