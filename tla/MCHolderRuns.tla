---------------------------- MODULE MCHolderRuns ----------------------------
(* The runs of the holder as they are, for TLC. *)
EXTENDS HolderRuns

\* At most two disturbances, of either kind.  A phone that was never paired again signs as
\* the Mac does: for it, a new key is the change, and two faults leave no room for one.
FewDisturbances ==
    /\ faults + Changes <= 2
    /\ signer = "phone" => faults <= 1 /\ auth.gen = 1 /\ auth.kg = 1
=============================================================================
