--------------------------- MODULE HolderExecution ---------------------------
(***************************************************************************)
(* One execute of the execution holder, with the processes it starts: the  *)
(* lease record on disk, the helper that waits at a gate until supervision *)
(* is armed, the payload and what it forks (with setsid, exit, orphans and *)
(* zombies), unrelated processes that take a pid which has become free,    *)
(* the inspection of the process table, and the daemon's death at any      *)
(* step.                                                                   *)
(*                                                                         *)
(* The holder runs as root (a signal is never refused).  Its transaction   *)
(* lock is held for the whole execute, so there is one at a time.          *)
(***************************************************************************)
EXTENDS Naturals, FiniteSets

CONSTANTS
    Pids,       \* process identifiers
    Holder,     \* the daemon, as a parent
    InitProc,   \* process 1, as a parent
    NoPid, Free,
    Platforms,  \* the platforms it may run on
    Failing     \* which inspections may fail: "table" (ps -axo), "token" (ps -p)

Kinds == {"helper", "payload", "foreign"}
Processes ==
    [kind : Kinds, parent : Pids \cup {Holder, InitProc}, group : Pids, live : BOOLEAN]

ASSUME ExecutionAssumption ==
    /\ IsFiniteSet(Pids)
    /\ {Holder, InitProc, NoPid, Free} \cap Pids = {} /\ Holder # InitProc
    /\ Free \notin Processes
    /\ Platforms \subseteq {"linux", "darwin"}
    /\ Failing \subseteq {"table", "token"}

VARIABLES
    platform,
    proc,       \* the process of each pid, zombies included, or Free
    lease,      \* lease.json: held, child, pid
    pc,         \* where execute is; "idle" when nobody executes
    leader,     \* proc.pid of the spawned helper, which becomes the payload
    gate,       \* the pipe it waits on
    subreaper,  \* PR_SET_CHILD_SUBREAPER of the daemon (linux)
    noteFork,   \* NOTE_FORK pending in the kqueue (darwin)
    mem,        \* execute's local variables
    ran,        \* history: the payload was executed
    hidden      \* history: a descendant was given a pid of the watch's baseline

executionVars ==
    <<platform, proc, lease, pc, leader, gate, subreaper, noteFork, mem, ran, hidden>>

Children == {"uncertain", "running", "spawn-failed", "supervision-uncertain", "exited", "timeout"}
Places == {"idle", "spawn", "arm", "go", "abort", "reap", "reaped", "table", "loop", "scan",
           "term", "kill", "wait", "off", "judge", "track", "sweep", "check"}
NoMem == [forkSeen |-> FALSE, reparented |-> FALSE, blind |-> FALSE, timedOut |-> FALSE,
          observed |-> {}, baseline |-> {}]

ExecutionTypeOK ==
    /\ platform \in Platforms
    /\ proc \in [Pids -> Processes \cup {Free}]
    /\ lease.held \in BOOLEAN /\ lease.child \in Children
    /\ lease.pid \in Pids \cup {NoPid}
    /\ lease.held <=> lease.child \in {"uncertain", "running", "supervision-uncertain"}
    /\ pc \in Places
    /\ leader \in Pids \cup {NoPid}
    /\ gate \in {"none", "open", "go", "closed"}
    /\ subreaper => platform = "linux" /\ pc # "idle"
    /\ noteFork => platform = "darwin"
    /\ mem.observed \subseteq Pids /\ mem.baseline \subseteq Pids
    /\ ran \in BOOLEAN /\ hidden \in BOOLEAN

-----------------------------------------------------------------------------
(* Processes.                                                              *)

Used == {p \in Pids : proc[p] # Free}
Alive == {p \in Used : proc[p].live}
ChildrenOf(p) == {q \in Used : proc[q].parent = p}
Members(g) == {p \in Alive : proc[p].group = g}
\* kill(pid, 0) and killpg(pgid, 0) find zombies too.
Absent(p) == p \notin Used
GroupAbsent(g) == \A p \in Used : proc[p].group # g

Offspring(S) == S \cup {q \in Used : proc[q].parent \in S}
\* _descendants_of: the tree of parents and children below p, as ps shows it.
Tree(p) ==
    LET depth == Cardinality(Pids)
        gen[n \in 0..depth] == IF n = 0 THEN {p} ELSE Offspring(gen[n - 1])
    IN  gen[depth]

\* A pid is given out again once no process and no group has it.
Available == {p \in Pids : Absent(p) /\ GroupAbsent(p)}
Process(parent, group, kind) ==
    [kind |-> kind, parent |-> parent, group |-> group, live |-> TRUE]

\* Orphans go to the subreaper, else to process 1, which waits for its zombies.
Heir == IF subreaper THEN Holder ELSE InitProc
After(died, heir) ==
    LET Parent(p) == IF proc[p].parent \in died THEN heir ELSE proc[p].parent
        Lives(p) == proc[p].live /\ p \notin died
    IN  [p \in Pids |->
            IF p \notin Used \/ (~Lives(p) /\ Parent(p) = InitProc) THEN Free
            ELSE [kind |-> proc[p].kind, parent |-> Parent(p), group |-> proc[p].group,
                  live |-> Lives(p)]]

\* A signalled process may ignore SIGTERM, or not die yet of SIGKILL.
Signal(targets) == \E died \in SUBSET (targets \cap Alive) : proc' = After(died, Heir)
WaitedFor(p) == [proc EXCEPT ![p] = Free]

\* The helper at the gate (holder_supervise_exec): only the go byte lets it exec.
Exec ==
    /\ leader \in Alive /\ proc[leader].kind = "helper" /\ gate = "go"
    /\ proc' = [proc EXCEPT ![leader].kind = "payload"]
    /\ ran' = TRUE
    /\ UNCHANGED <<platform, lease, pc, leader, gate, subreaper, noteFork, mem, hidden>>

ForkChild ==
    \E p \in Alive, q \in Available :
        /\ proc[p].kind = "payload"
        /\ proc' = [proc EXCEPT ![q] = Process(p, proc[p].group, "payload")]
        \* The kqueue watches the leader, and tells that it forked, not whom.
        /\ noteFork' = (noteFork \/ (platform = "darwin" /\ p = leader /\ pc # "idle"))
        /\ hidden' = (hidden \/ q \in mem.baseline \ {leader})
        /\ UNCHANGED <<platform, lease, pc, leader, gate, subreaper, mem, ran>>

SetSid ==
    \E p \in Alive :
        /\ proc[p].kind = "payload" /\ proc[p].group # p /\ GroupAbsent(p)
        /\ proc' = [proc EXCEPT ![p].group = p]
        /\ UNCHANGED <<platform, lease, pc, leader, gate, subreaper, noteFork, mem, ran, hidden>>

\* Any process may end: the helper at EOF, on a failed exec or killed.
Exit ==
    \E p \in Alive :
        /\ proc' = After({p}, Heir)
        /\ UNCHANGED <<platform, lease, pc, leader, gate, subreaper, noteFork, mem, ran, hidden>>

\* A payload process waits for its child.  The holder waits for the leader only.
WaitChild ==
    \E p \in Used \ Alive :
        /\ proc[p].parent \in Alive
        /\ proc' = WaitedFor(p)
        /\ UNCHANGED <<platform, lease, pc, leader, gate, subreaper, noteFork, mem, ran, hidden>>

Foreign ==
    \E p \in Available :
        /\ leader # NoPid
        /\ proc' = [proc EXCEPT ![p] = Process(InitProc, p, "foreign")]
        /\ UNCHANGED <<platform, lease, pc, leader, gate, subreaper, noteFork, mem, ran, hidden>>

-----------------------------------------------------------------------------
(* execute.                                                                *)

At(from) == pc = from
Goto(to) == pc' = to
Local(m) == mem' = m
\* execute returns or raises: its local variables are gone, the kqueue among them.
Return == Goto("idle") /\ Local(NoMem) /\ noteFork' = FALSE
Record(held, child, pid) == lease' = [held |-> held, child |-> child, pid |-> pid]
Release(outcome) == Record(FALSE, outcome, lease.pid) /\ Return
Retain == Record(TRUE, "supervision-uncertain", leader) /\ Return

\* The uncertain lease of a consumed authorization becomes a running one
\* before anything is spawned.
BeginExecute ==
    /\ At("idle") /\ lease.held /\ lease.child = "uncertain"
    /\ Record(TRUE, "running", NoPid)
    /\ Goto("spawn") /\ Local(NoMem)
    /\ UNCHANGED <<platform, proc, leader, gate, subreaper, noteFork, ran, hidden>>

SpawnRefused ==
    /\ At("spawn")
    /\ Record(TRUE, "uncertain", NoPid)
    /\ Return
    /\ UNCHANGED <<platform, proc, leader, gate, subreaper, ran, hidden>>

SpawnDropped ==
    /\ At("spawn")
    /\ \E p \in Available :
          /\ leader' = p
          /\ proc' = [proc EXCEPT ![p] = Process(Holder, p, "helper")]
    /\ gate' = "open"
    /\ Goto("arm")
    /\ UNCHANGED <<platform, lease, subreaper, noteFork, mem, ran, hidden>>

\* The subreaper on linux, the kqueue on darwin; either may fail.  The baseline is
\* what ps shows below the daemon: the helper and ps itself, whose pid is free
\* again once it was waited for.
ArmPayloadWatch ==
    /\ At("arm")
    /\ \E armed \in BOOLEAN, listing \in {{}} \cup {{p} : p \in Available} :
          /\ Goto(IF armed THEN "go" ELSE "abort")
          /\ subreaper' = (armed /\ platform = "linux")
          /\ Local([mem EXCEPT !.baseline = listing \cup {leader}])
    /\ UNCHANGED <<platform, proc, lease, leader, gate, noteFork, ran, hidden>>

\* The go byte; a broken pipe when the helper has died.
ReleasePayload ==
    /\ At("go")
    /\ IF leader \in Alive
       THEN gate' = "go" /\ Goto("table") /\ UNCHANGED subreaper
       ELSE gate' = "closed" /\ Goto("abort") /\ subreaper' = FALSE
    /\ UNCHANGED <<platform, proc, lease, leader, noteFork, mem, ran, hidden>>

\* _reap_unreleased_child: close the gate, wait, kill, wait, look again.
AbortPayload ==
    /\ At("abort")
    /\ gate' = "closed" /\ Goto("reap")
    /\ UNCHANGED <<platform, proc, lease, leader, subreaper, noteFork, mem, ran, hidden>>

ReapUnreleased ==
    /\ At("reap")
    /\ IF leader \in Alive
       THEN /\ Signal(Members(leader))
            /\ IF proc'[leader].live
               THEN Retain
               ELSE UNCHANGED <<lease, pc, mem, noteFork>>
       ELSE proc' = WaitedFor(leader) /\ Goto("reaped") /\ UNCHANGED <<lease, mem, noteFork>>
    /\ UNCHANGED <<platform, leader, gate, subreaper, ran, hidden>>

NeverStarted ==
    /\ At("reaped")
    /\ IF Absent(leader) THEN Release("spawn-failed") ELSE Retain
    /\ UNCHANGED <<platform, proc, leader, gate, subreaper, ran, hidden>>

\* The process table at this moment, or none: then what was seen is in doubt.
Look(m) ==
    \/ Local([m EXCEPT !.observed = @ \cup Tree(leader)])
    \/ "table" \in Failing /\ Local([m EXCEPT !.blind = TRUE])

FirstTable ==
    /\ At("table")
    /\ Look(mem)
    /\ Record(TRUE, "running", leader)
    /\ Goto("loop")
    /\ UNCHANGED <<platform, proc, leader, gate, subreaper, noteFork, ran, hidden>>

Unpolled == mem  \* mutant: nobody reads the kqueue
Polled == [mem EXCEPT !.forkSeen = @ \/ noteFork]
Watch ==
    /\ At("loop")
    /\ Look(Polled)
    /\ UNCHANGED <<platform, proc, lease, pc, leader, gate, subreaper, noteFork, ran, hidden>>

Deadline ==
    /\ At("loop")
    /\ Goto("term") /\ Local([mem EXCEPT !.timedOut = TRUE])
    /\ UNCHANGED <<platform, proc, lease, leader, gate, subreaper, noteFork, ran, hidden>>

LeaderEnded ==
    /\ At("loop") /\ leader \in Used \ Alive
    /\ proc' = WaitedFor(leader)
    /\ Goto("scan")
    /\ UNCHANGED <<platform, lease, leader, gate, subreaper, noteFork, mem, ran, hidden>>

\* _reparented_still_alive: children of the daemon that are not of the baseline,
\* unless their start stamp cannot be read; no table counts as yes.
StillAlive ==
    {ChildrenOf(Holder) \ (mem.baseline \cup {leader}) # {}}
        \cup (IF "table" \in Failing THEN {TRUE} ELSE {})
        \cup (IF "token" \in Failing THEN {FALSE} ELSE {})

Scan ==
    /\ At("scan")
    /\ \E alive \in StillAlive : Local([mem EXCEPT !.reparented = alive])
    /\ Goto("off")
    /\ UNCHANGED <<platform, proc, lease, leader, gate, subreaper, noteFork, ran, hidden>>

\* killpg with SIGTERM, a bounded wait, killpg with SIGKILL, a bounded wait.
Terminate ==
    /\ At("term")
    /\ Signal(Members(leader))
    /\ Goto("kill")
    /\ UNCHANGED <<platform, lease, leader, gate, subreaper, noteFork, mem, ran, hidden>>

Stopped ==
    /\ pc \in {"kill", "wait"} /\ leader \notin Alive
    /\ proc' = WaitedFor(leader)
    /\ Goto("off")
    /\ UNCHANGED <<platform, lease, leader, gate, subreaper, noteFork, mem, ran, hidden>>

Kill ==
    /\ At("kill") /\ leader \in Alive
    /\ Signal(Members(leader))
    /\ Goto("wait")
    /\ UNCHANGED <<platform, lease, leader, gate, subreaper, noteFork, mem, ran, hidden>>

\* mutant: the last wait has no deadline
WaitForEver == At("wait") /\ leader \in Alive /\ UNCHANGED executionVars
\* The second wait timed out: the refusal leaves the lease as it is, running.
CouldNotStop ==
    /\ At("wait") /\ leader \in Alive
    /\ subreaper' = FALSE /\ Return
    /\ UNCHANGED <<platform, proc, lease, leader, gate, ran, hidden>>

DisableSubreaper ==
    /\ At("off")
    /\ subreaper' = FALSE /\ Goto("judge")
    /\ UNCHANGED <<platform, proc, lease, leader, gate, noteFork, mem, ran, hidden>>

\* A fork note or a reparented child: somebody may be alive whom nobody saw.
JudgeWatch ==
    /\ At("judge")
    /\ \E alive \in StillAlive :
          IF Polled.forkSeen \/ mem.reparented \/ alive THEN Retain
          ELSE Goto("track") /\ Local(Polled) /\ UNCHANGED <<lease, noteFork>>
    /\ UNCHANGED <<platform, proc, leader, gate, subreaper, ran, hidden>>

Outcome == IF mem.timedOut THEN "timeout" ELSE "exited"
Gone(S) == (\A p \in S \ {leader} : Absent(p)) /\ GroupAbsent(leader)

\* Everybody ever observed, and whoever is below the leader's pid now.
JudgeTracked ==
    /\ At("track")
    /\ IF mem.blind THEN Retain
       ELSE \/ "table" \in Failing /\ Retain
            \/ LET tracked == mem.observed \cup Tree(leader)
               IN  IF Gone(tracked) THEN Release(Outcome)
                   ELSE /\ Local([mem EXCEPT !.observed = tracked])
                        /\ Goto("sweep") /\ UNCHANGED <<lease, noteFork>>
    /\ UNCHANGED <<platform, proc, leader, gate, subreaper, ran, hidden>>

\* killpg, then each pid whose start stamp reads the same twice.
Sweep ==
    /\ At("sweep")
    /\ Signal(Members(leader) \cup (mem.observed \ {leader}))
    /\ Goto("check")
    /\ UNCHANGED <<platform, lease, leader, gate, subreaper, noteFork, mem, ran, hidden>>

JudgeAfterSweep ==
    /\ At("check")
    /\ IF Gone(mem.observed) THEN Release(Outcome) ELSE Retain
    /\ UNCHANGED <<platform, proc, leader, gate, subreaper, ran, hidden>>

\* The daemon dies: the gate's other end closes, its children become orphans.
\* A new daemon finds the lease as it was written.
ExecutorDies ==
    /\ pc # "idle"
    /\ proc' = After({Holder}, InitProc)
    /\ gate' = IF gate = "open" THEN "closed" ELSE gate
    /\ subreaper' = FALSE
    /\ Return
    /\ UNCHANGED <<platform, lease, leader, ran, hidden>>

-----------------------------------------------------------------------------
ExecutionInit ==
    /\ platform \in Platforms
    /\ proc = [p \in Pids |-> Free]
    /\ lease = [held |-> TRUE, child |-> "uncertain", pid |-> NoPid]
    /\ pc = "idle" /\ leader = NoPid /\ gate = "none"
    /\ subreaper = FALSE /\ noteFork = FALSE /\ mem = NoMem
    /\ ran = FALSE /\ hidden = FALSE

HolderStep ==
    \/ BeginExecute \/ SpawnRefused \/ SpawnDropped \/ ArmPayloadWatch \/ ReleasePayload
    \/ AbortPayload \/ ReapUnreleased \/ NeverStarted
    \/ FirstTable \/ Watch \/ LeaderEnded \/ Scan
    \/ Terminate \/ Stopped \/ Kill \/ CouldNotStop
    \/ DisableSubreaper \/ JudgeWatch \/ JudgeTracked \/ Sweep \/ JudgeAfterSweep
ProcessStep == Exec \/ ForkChild \/ SetSid \/ Exit \/ WaitChild \/ Foreign

ExecutionNext == HolderStep \/ Deadline \/ ProcessStep \/ ExecutorDies

\* The daemon's thread is scheduled and its clock advances.  Nothing is
\* assumed of the payload, nor of whether a signal is obeyed.
ExecutionSpec ==
    /\ ExecutionInit /\ [][ExecutionNext]_executionVars
    /\ WF_executionVars(HolderStep) /\ WF_executionVars(Deadline)

-----------------------------------------------------------------------------
(* What it promises.                                                       *)

PayloadLives == \E p \in Alive : proc[p].kind = "payload"

\* The process tree as the abstract launch sees it.
payload ==
    IF leader = NoPid THEN "none"
    ELSE IF PayloadLives THEN "running"
    ELSE IF ran THEN "gone"
    ELSE IF leader \in Alive /\ proc[leader].kind = "helper" THEN "waiting"
    ELSE "unborn"
child == IF lease.child = "running" /\ lease.pid = NoPid THEN "starting" ELSE lease.child

Launch == INSTANCE PayloadLaunch

\* The lease is released only when no process of the payload is alive, whatever
\* the payload forked, moved to sessions of its own and orphaned, whichever pids
\* unrelated processes took meanwhile and whichever listings failed, unless one of
\* its descendants was given a pid of the watch's baseline, which is not looked at;
\* a helper killed at its gate and a payload that ran are never confused; and what
\* a dead daemon or an unsure judgement left behind stays held (execute, lines 2733
\* to 2990).
ImplementsLaunch == Launch!Spec

\* execute always comes to an answer: every wait in it has a deadline, and what
\* the payload does cannot hold the transaction lock for ever (2804 to 2895).
ExecuteEnds == (pc # "idle") ~> (pc = "idle")

=============================================================================
