-------------------------- MODULE MCRunSupervision --------------------------
(* Small instances of RunSupervision for TLC: one or two workers, which are *)
(* interchangeable.                                                         *)
EXTENDS RunSupervision, TLC

WorkerSymmetry == Permutations(Workers)
=============================================================================
