---------------------------- MODULE MCClaimStore ----------------------------
(* ClaimStore for TLC: values, and notes that are not the owner's, are     *)
(* interchangeable.                                                        *)
EXTENDS ClaimStore, TLC

Symmetry == Permutations(Value) \cup Permutations(Note \ Owner)
=============================================================================
