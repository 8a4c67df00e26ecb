--------------------------- MODULE MCRemoteConfirm ---------------------------
(***************************************************************************)
(* Small instances for TLC: RemoteConfirm on one run, or RunLifecycle on   *)
(* two runs, the second one's predecessor being the first.  A behaviour    *)
(* is of one of the two.                                                   *)
(***************************************************************************)
EXTENDS RemoteConfirm, TLC

CONSTANTS r1, r2, ChainLog

VARIABLE instance   \* "confirm" or "chain"

\* Source states are interchangeable: no action and no property names one; the chain
\* has only one.
SourceSymmetry == Permutations(Sources)

\* Every contract of r2 names r1.
ChainPred == [r \in Runs |-> [c \in Contracts |-> IF r = r2 THEN r1 ELSE NoRun]]

\* Two runs without source edits and without a clock.  The second may start, end and
\* begin its postflight; what a receipt adds is seen on the first.
Chain ==
    /\ Next /\ UNCHANGED remoteVars
    /\ now' = 0 /\ Len(log'[r1]) <= ChainLog /\ Len(log'[r2]) <= ChainLog - 1
    /\ seen' # NoLocals => seen'.s = CHOOSE s \in Sources : TRUE

InstanceInit == RemoteInit /\ instance \in {"confirm", "chain"}
\* On one run, a result that is not completed is called failed: only a successor tells
\* them apart.
Confirm == RemoteNext /\ cur' # r2 /\ result'[r1] \notin {"timeout", "interrupted"}

InstanceNext ==
    /\ \/ instance = "confirm" /\ Confirm
       \/ instance = "chain" /\ Chain
    /\ UNCHANGED instance
InstanceSpec == InstanceInit /\ [][InstanceNext]_<<instance, allVars>>

\* In the first instance each command gets as far as its event at most once: what is
\* retried after a crash of approve, run or postflight is the subject of MCRunLifecycle.
EventsOnce ==
    instance = "confirm" =>
        \A r \in Runs : \A i, j \in DOMAIN log[r] :
            log[r][i].type = log[r][j].type => i = j
=============================================================================
