------------------------------- MODULE MCSide -------------------------------
(***************************************************************************)
(* The machines beside the run: the event log, signing keys, launch        *)
(* handshake, snapshot binding, requirements evidence, the companion's     *)
(* mailboxes and the registers.  They share no state, so one behaviour     *)
(* runs one of them, and the run's state space is the sum of theirs and    *)
(* not the product.                                                        *)
(***************************************************************************)
EXTENDS EventLog, KeyRotation, LaunchHandshake, SnapshotBinding, Evidence, Mailbox, Registries,
        TLC

VARIABLE machine

Req(id, check) == [id |-> id, check |-> check, manual |-> FALSE, smuggles |-> FALSE,
                   badLeast |-> FALSE, evidence |-> FALSE, least |-> 0]
ManualReq(id) == [Req(id, "none") EXCEPT !.manual = TRUE]

\* Every provider, a manual requirement, and two manifests that do not load.
MCManifests ==
    {<<[Req("r1", "unittest") EXCEPT !.least = 2],
       [Req("r2", "pytest") EXCEPT !.evidence = TRUE, !.least = 1],
       Req("r3", "command_status")>>,
     <<Req("r1", "command_status")>>,
     <<ManualReq("r1")>>,
     <<Req("r1", "pytest"), Req("r1", "unittest")>>,
     <<[Req("r1", "pytest") EXCEPT !.smuggles = TRUE]>>}

\* A second check comes only under the manifest of one command, because what two checks do
\* to each other does not depend on what they check, and not beside an edit that is judged
\* without looking at a report.
ChecksAlone ==
    checks > 1 =>
        /\ manifest = <<Req("r1", "command_status")>>
        /\ parts["policy"] = 1 /\ parts["manifest"] = 1 /\ parts["runtime"] # 0

\* Entries that are not in use are interchangeable: an append takes one of them.
LogNext ==
    /\ Next
    /\ \A p \in Procs : item'[p] \notin {item[p], Nil} =>
          item'[p] = CHOOSE e \in Entries : Unused(e)

SideSymmetry == Permutations(Checkers)

Machines == {"log", "keys", "launch", "binding", "evidence", "mailbox", "registries"}

SideInit ==
    /\ machine \in Machines
    /\ Init /\ KeysInit /\ LaunchInit /\ BindInit /\ EvidenceInit /\ MailInit /\ RegInit
    /\ machine # "binding" => live = [s \in Sources |-> CHOOSE c \in Contents : TRUE]
    /\ machine # "evidence" => manifest = CHOOSE m \in MCManifests : TRUE

SideNext ==
    \/ /\ machine = "log" /\ LogNext
       /\ UNCHANGED <<machine, keysVars, launchVars, bindVars, evidenceVars, mailVars, regVars>>
    \/ /\ machine = "keys" /\ KeysNext
       /\ UNCHANGED <<machine, vars, launchVars, bindVars, evidenceVars, mailVars, regVars>>
    \/ /\ machine = "launch" /\ LaunchNext
       /\ UNCHANGED <<machine, vars, keysVars, bindVars, evidenceVars, mailVars, regVars>>
    \/ /\ machine = "binding" /\ BindNext
       /\ UNCHANGED <<machine, vars, keysVars, launchVars, evidenceVars, mailVars, regVars>>
    \/ /\ machine = "evidence" /\ EvidenceNext
       /\ UNCHANGED <<machine, vars, keysVars, launchVars, bindVars, mailVars, regVars>>
    \/ /\ machine = "mailbox" /\ MailNext
       /\ UNCHANGED <<machine, vars, keysVars, launchVars, bindVars, evidenceVars, regVars>>
    \/ /\ machine = "registries" /\ RegNext
       /\ UNCHANGED <<machine, vars, keysVars, launchVars, bindVars, evidenceVars, mailVars>>

SideSpec == SideInit /\ [][SideNext]_<<machine, vars, keysVars, launchVars, bindVars,
                                       evidenceVars, mailVars, regVars>>
=============================================================================
