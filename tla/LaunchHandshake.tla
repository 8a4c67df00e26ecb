--------------------------- MODULE LaunchHandshake ---------------------------
(***************************************************************************)
(* The launch handshake of holder_protocol.py as HolderSim states it: a    *)
(* nonce is consumed, a wrapper is spawned and waits for go and for commit, *)
(* and executes the payload only after a durable ack and the commit byte.  *)
(* The holder dies at any step, the pipe breaks, processes exit and fork,  *)
(* a pid is taken by an unrelated process, a record loses its fields, and  *)
(* a restarted holder that is nobody's parent recovers.                    *)
(***************************************************************************)
EXTENDS Naturals, Sequences, FiniteSets

CONSTANTS
    LaunchNonces,   \* nonces that are signed
    NoNonce,
    MaxPid          \* processes ever started

ASSUME MaxPidAssumption == MaxPid \in Nat

VARIABLES
    durable,   \* the record: phase, nonce, pid, start, lease
    spent,     \* nonces consumed
    procs,     \* start, image and life of each pid; a start names its launch
    started,   \* pids given so far
    launches,  \* start tokens given so far
    spawned, commits,
    ack, pipe, \* volatile: the ack was read; the pipe to the wrapper is open
    step,      \* the next step of ORDER, 0 when no launch is this holder's
    isParent

launchVars == <<durable, spent, procs, started, launches, spawned, commits, ack, pipe, step, isParent>>

Order == <<"consume", "write_intent", "spawn", "send_go", "recv_ack", "fsync_acked",
           "send_commit", "fsync_running">>

LaunchPids == 1..MaxPid
NoProc == [start |-> 0, image |-> "none", alive |-> FALSE]
Unrelated == [start |-> 0, image |-> "unrelated", alive |-> TRUE]
Images == {"wrapper", "payload", "descendant"}

Proc == procs[durable.pid]
OwnProc == durable.pid # 0 /\ Proc.start = durable.start
\* Mutant: only the recorded process is looked for, not what it forked.
LiveLeader == OwnProc /\ Proc.alive
Live == \E p \in LaunchPids : procs[p].alive /\ procs[p].start = durable.start
LiveOfALaunch == \E p \in LaunchPids : procs[p].alive /\ procs[p].image \in Images

-----------------------------------------------------------------------------
(* Steps of the holder that began the launch, in ORDER.                    *)

Due(name) == step > 0 /\ step <= Len(Order) /\ Order[step] = name /\ step' = step + 1

Consumable(n) == n \notin spent /\ ~durable.lease
Consumed(n) == [phase |-> "consumed", nonce |-> n, pid |-> 0, start |-> 0, lease |-> TRUE]
Forgets == ack' = FALSE /\ pipe' = TRUE

Consume(n) ==
    /\ step = 1 /\ step' = 2
    /\ Consumable(n) /\ spent' = spent \cup {n}
    /\ durable' = Consumed(n) /\ Forgets
    /\ UNCHANGED <<procs, started, launches, spawned, commits, isParent>>

WriteIntent ==
    /\ Due("write_intent") /\ durable.phase = "consumed"
    /\ durable' = [durable EXCEPT !.phase = "intent"]
    /\ UNCHANGED <<spent, procs, started, launches, spawned, commits, ack, pipe, isParent>>

\* The wrapper starts and its pid and start time are recorded: armed.
SpawnOf(record) ==
    /\ spawned = 0 /\ spawned' = 1
    /\ started < MaxPid /\ started' = started + 1
    /\ launches' = launches + 1
    /\ procs' = [procs EXCEPT ![started + 1] =
                   [start |-> launches + 1, image |-> "wrapper", alive |-> TRUE]]
    /\ durable' = [record EXCEPT !.phase = "armed", !.pid = started + 1, !.start = launches + 1]

SpawnWrapper ==
    /\ Due("spawn") /\ durable.phase = "intent"
    /\ SpawnOf(durable)
    /\ UNCHANGED <<spent, commits, ack, pipe, isParent>>

\* begin_other: consume, intent and spawn of another nonce after a restart.
BeginOther(n) ==
    /\ ~isParent /\ step = 0 /\ step' = 4
    /\ Consumable(n) /\ spent' = spent \cup {n}
    /\ SpawnOf(Consumed(n)) /\ Forgets
    /\ UNCHANGED <<commits, isParent>>

SendGo ==
    /\ Due("send_go") /\ durable.phase = "armed" /\ pipe
    /\ UNCHANGED <<durable, spent, procs, started, launches, spawned, commits, ack, pipe, isParent>>

RecvAck ==
    /\ Due("recv_ack") /\ pipe /\ ack' = TRUE
    /\ UNCHANGED <<durable, spent, procs, started, launches, spawned, commits, pipe, isParent>>

FsyncAcked ==
    /\ Due("fsync_acked") /\ ack
    /\ durable' = [durable EXCEPT !.phase = "acked"]
    /\ UNCHANGED <<spent, procs, started, launches, spawned, commits, ack, pipe, isParent>>

SendCommit ==
    /\ Due("send_commit") /\ durable.phase = "acked" /\ pipe
    /\ commits' = commits + 1
    /\ procs' = [procs EXCEPT ![durable.pid].image = "payload"]
    /\ UNCHANGED <<durable, spent, started, launches, spawned, ack, pipe, isParent>>

FsyncRunning ==
    /\ Due("fsync_running") /\ durable.phase = "acked" /\ commits >= 1
    /\ durable' = [durable EXCEPT !.phase = "running"]
    /\ UNCHANGED <<spent, procs, started, launches, spawned, commits, ack, pipe, isParent>>

-----------------------------------------------------------------------------
(* What happens to the holder, the pipe, the processes and the record.     *)

Crash ==
    /\ isParent \/ step > 0
    /\ isParent' = FALSE /\ step' = 0
    /\ ack' = (ack /\ durable.phase \in {"acked", "running", "reaped", "unknown"})
    /\ UNCHANGED <<durable, spent, procs, started, launches, spawned, commits, pipe>>

BreakPipe ==
    /\ pipe /\ pipe' = FALSE
    /\ UNCHANGED <<durable, spent, procs, started, launches, spawned, commits, ack, step, isParent>>

PayloadForks ==
    /\ durable.pid # 0 /\ Proc.image = "payload" /\ Proc.alive
    /\ started < MaxPid /\ started' = started + 1
    /\ procs' = [procs EXCEPT ![started + 1] = [Proc EXCEPT !.image = "descendant"]]
    /\ UNCHANGED <<durable, spent, launches, spawned, commits, ack, pipe, step, isParent>>

MarkDead(p) ==
    /\ procs[p].alive /\ procs' = [procs EXCEPT ![p].alive = FALSE]
    /\ UNCHANGED <<durable, spent, started, launches, spawned, commits, ack, pipe, step, isParent>>

ReusePid ==
    /\ durable.pid # 0 /\ OwnProc /\ ~Proc.alive
    /\ procs' = [procs EXCEPT ![durable.pid] = Unrelated]
    /\ UNCHANGED <<durable, spent, started, launches, spawned, commits, ack, pipe, step, isParent>>

\* A record without pid and start, as a torn or foreign file would be.
LoseFields ==
    /\ step = 0 /\ durable.pid # 0
    /\ durable' = [durable EXCEPT !.pid = 0, !.start = 0]
    /\ UNCHANGED <<spent, procs, started, launches, spawned, commits, ack, pipe, step, isParent>>

-----------------------------------------------------------------------------
(* Decisions of a process that is not the parent.                          *)

Complete(d) ==
    IF d.phase \in {"consumed", "intent"} THEN d.nonce # NoNonce
    ELSE d.phase \in {"armed", "acked", "running"} => d.nonce # NoNonce /\ d.pid # 0 /\ d.start # 0

\* assess_durable: may the lease go?  It never spawns and never waits.
AssessedLease(d) ==
    ~(d.phase \in {"consumed", "intent"} /\ d.nonce # NoNonce)

Waiting == OwnProc /\ Proc.alive /\ Proc.image = "wrapper"
Adoptable == OwnProc /\ Proc.alive /\ Proc.image = "payload"
PidReused == durable.pid # 0 /\ Proc.start # durable.start

\* The phase after recovery looked at the record, the wrapper it kills, and
\* then the lease, which goes only when nothing of this launch lives.
RecoveredPhase ==
    IF ~Complete(durable) \/ PidReused THEN "unknown"
    ELSE IF durable.phase \in {"armed", "acked"} /\ Adoptable THEN "running"
    ELSE durable.phase

Recover ==
    /\ ~isParent /\ step = 0
    /\ LET stops == Complete(durable) /\ ~PidReused /\ durable.phase \in {"armed", "acked"} /\ Waiting
           phase == RecoveredPhase
           keeps == phase = "unknown" \/ (Live /\ ~stops)
       IN  /\ procs' = IF stops THEN [procs EXCEPT ![durable.pid].alive = FALSE] ELSE procs
           /\ durable' = [durable EXCEPT
                !.lease = keeps,
                !.phase = IF keeps \/ phase = "empty" THEN phase
                          ELSE IF spawned > 0 THEN "reaped" ELSE "spent"]
           /\ spawned' = IF keeps THEN spawned ELSE 0
           /\ commits' = IF keeps THEN commits ELSE 0
    /\ UNCHANGED <<spent, started, launches, ack, pipe, step, isParent>>

-----------------------------------------------------------------------------
LaunchInit ==
    /\ durable = [phase |-> "empty", nonce |-> NoNonce, pid |-> 0, start |-> 0, lease |-> FALSE]
    /\ spent = {} /\ procs = [p \in LaunchPids |-> NoProc]
    /\ started = 0 /\ launches = 0 /\ spawned = 0 /\ commits = 0
    /\ ack = FALSE /\ pipe = TRUE /\ step = 1 /\ isParent = TRUE

LaunchNext ==
    \/ \E n \in LaunchNonces : Consume(n) \/ BeginOther(n)
    \/ WriteIntent \/ SpawnWrapper \/ SendGo \/ RecvAck
    \/ FsyncAcked \/ SendCommit \/ FsyncRunning
    \/ Crash \/ BreakPipe \/ PayloadForks \/ ReusePid \/ LoseFields
    \/ \E p \in LaunchPids : MarkDead(p)
    \/ Recover

LaunchSpec == LaunchInit /\ [][LaunchNext]_launchVars

-----------------------------------------------------------------------------
(* Properties.                                                             *)

\* While a wrapper, payload or descendant of any launch lives, the lease is
\* held, and neither decision procedure, recover or assess_durable, would
\* let another nonce in (holder_protocol.py 588-636, 774-822, 898-910); a
\* payload lives only after a durable ack of its own launch, and a nonce has
\* one wrapper at most (721-733, 845-855, 883-896).
LiveKeepsLease ==
    /\ LiveOfALaunch => durable.lease /\ AssessedLease(durable)
    /\ \A p \in LaunchPids : procs[p].alive /\ procs[p].image = "payload" =>
         durable.phase \in {"acked", "running", "unknown"}
    /\ launches <= Cardinality(spent)

=============================================================================
