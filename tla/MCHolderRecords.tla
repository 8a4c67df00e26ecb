--------------------------- MODULE MCHolderRecords ---------------------------
(* Small instances of HolderRecords for TLC. *)
EXTENDS HolderRecords, TLC

KeySymmetry == Permutations(Keys)
=============================================================================
