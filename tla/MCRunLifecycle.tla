--------------------------- MODULE MCRunLifecycle ---------------------------
(* Small instances of RunLifecycle for TLC: one run. *)
EXTENDS RunLifecycle, TLC

\* Source states are interchangeable: no action and no property names one.
SourceSymmetry == Permutations(Sources)

\* No contract names a predecessor.
SoloPred == [r \in Runs |-> [c \in Contracts |-> NoRun]]
=============================================================================
