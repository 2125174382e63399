---------------------------- MODULE MCLifetimes -----------------------------
(* Small instances of Lifetimes.                                            *)
EXTENDS Lifetimes, TLC

KeySymmetry == Permutations(Keys)
=============================================================================
