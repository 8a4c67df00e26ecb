-------------------------- MODULE MCHolderExecution --------------------------
(***************************************************************************)
(* Small instances for TLC of one execute of the holder and of the         *)
(* workspace lease.  They share no state, so one behaviour runs one of the *)
(* two, and the run's state space is the sum of theirs.                    *)
(***************************************************************************)
EXTENDS HolderExecution, Lease

CONSTANTS p1, p2

VARIABLE machine

HolderOrLeaseInit ==
    /\ machine \in {"execute", "lease"}
    /\ ExecutionInit /\ Init
    /\ machine = "lease" => platform = CHOOSE p \in Platforms : TRUE

\* Pids are interchangeable: that of the leader is called p1, and that of the ps which
\* listed the baseline p2.
Named ==
    /\ ExecutionNext
    /\ leader' \in {NoPid, p1} /\ mem'.baseline \subseteq {p1, p2}

HolderOrLeaseNext ==
    \/ machine = "execute" /\ Named /\ UNCHANGED <<machine, vars>>
    \/ machine = "lease" /\ Next /\ UNCHANGED <<machine, executionVars>>

\* The fairness of ExecutionSpec, when it is the holder that runs.
HolderOrLeaseSpec ==
    /\ HolderOrLeaseInit /\ [][HolderOrLeaseNext]_<<machine, executionVars, vars>>
    /\ WF_executionVars(machine = "execute" /\ HolderStep)
    /\ WF_executionVars(machine = "execute" /\ Deadline)
=============================================================================
