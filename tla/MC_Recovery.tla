----------------------------- MODULE MC_Recovery -----------------------------
(* Small instances of Recovery.                                            *)
EXTENDS Recovery, TLC

SymbolSymmetry == Permutations(Symbols)
=============================================================================
