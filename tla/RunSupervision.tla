--------------------------- MODULE RunSupervision ---------------------------
(***************************************************************************)
(* The processes of one run: the CLI, the detached supervisor, the         *)
(* run_bind_exec wrapper that becomes the payload, its watchdog, and the   *)
(* processes the payload forks, with SIGKILL possible at any step.         *)
(*                                                                         *)
(* The supervisor takes the workspace lease (module Lease, instantiated),  *)
(* spawns, waits for the payload, a deadline or a lost CLI, stops the      *)
(* process group, records that it is empty and releases the lease.  A      *)
(* listing of the group (/proc, ps or libproc) takes two steps: the pids   *)
(* first, then what each of them is, and a worker forked in between is in  *)
(* neither.  A process that called setsid has left the group, and a worker *)
(* that has changed its user stays with it.                                *)
(***************************************************************************)
EXTENDS Naturals, FiniteSets

CONSTANTS
    Sup,      \* the supervisor process (run_supervisor.guarded_run, child)
    Rival,    \* another lifecycle command of the workspace
    Bind,     \* the group leader: run_bind_exec, and the payload after exec
    Dog,      \* the watchdog run_bind_exec forks
    Workers,  \* processes the payload forks in its group
    NoProc,
    Hosts     \* the platforms

ASSUME HostsAssumption == Hosts \subseteq {"linux", "darwin"}

ASSUME ProcessesAssumption ==
    /\ {Sup, Rival} \cap {Bind, Dog} = {} /\ Sup # Rival /\ Bind # Dog
    /\ NoProc \notin {Sup, Rival}
    /\ Workers \cap {Sup, Rival, Bind, Dog} = {}

VARIABLES
    step, fds, meta, guards, died,  \* of module Lease
    pc,         \* the supervisor's program counter
    attempt,    \* who called _stop_process: "first", "again" or "retain"
    cause,      \* why supervision ended
    cleaned,    \* group_cleaned of _supervise_process
    recorded,   \* recorded_pending of _retain_cleanup
    logged,     \* log of _retain_cleanup is set
    listed,     \* members among the pids its listing has read
    slipped,    \* history: workers forked since, and what they forked
    interrupt,  \* cli_lost, or a termination signal
    late,       \* the wall deadline has passed
    alive,      \* live processes among Bind, Dog and Workers
    unborn,     \* workers not forked yet
    doomed,     \* processes with SIGKILL pending
    foreign,    \* workers of another user (set-uid), not to be signalled
    leader,     \* the stage of Bind
    dog,        \* the watchdog's program counter
    dogSaw,     \* the status of the supervisor it read last
    dogListed,  \* members among the pids its listing has read
    phase, result, confirmed,  \* state.json phase, run_result, cleanup_confirmed
    torn,       \* the event log ends in half a line
    cli, msg,   \* the CLI, and what the result pipe carries
    supKilled, dogKilled,      \* history: SIGKILLed
    host        \* the platform, one of Hosts

leaseVars == <<step, fds, meta, guards, died>>
listVars == <<listed, slipped>>
retainVars == <<recorded, logged>>
supVars == <<pc, attempt, cause, cleaned, recorded, logged, listed, interrupt, late,
             supKilled>>
groupVars == <<alive, unborn, doomed, foreign, leader, slipped>>
dogVars == <<dog, dogSaw, dogListed, dogKilled>>
diskVars == <<phase, result, confirmed, torn>>
cliVars == <<cli, msg>>
vars == <<leaseVars, supVars, groupVars, dogVars, diskVars, cliVars, host>>

L == INSTANCE Lease WITH Procs <- {Sup, Rival}, Helpers <- {Bind, Dog}

\* The watchdog is a member until its setsid.
LiveGroup == {k \in alive : k # Dog \/ dog = "born"}

Goto(from, to) == pc = from /\ pc' = to

-----------------------------------------------------------------------------
(* Signals.                                                                *)

\* killpg(pgid, SIGKILL): every member that may be signalled, at once.  On
\* Darwin it may report ESRCH and reach none once the leader is a zombie.
KillGroup ==
    \E missed \in {{}} \cup {g \in {LiveGroup} : host = "darwin" /\ leader = "zombie"} :
        doomed' = doomed \cup (LiveGroup \ (foreign \cup missed))

\* EPERM: nobody could be signalled.  Darwin says so of a zombie-only group too.
KillDenied ==
    /\ LiveGroup \subseteq foreign
    /\ LiveGroup # {} \/ (host = "darwin" /\ leader = "zombie")

\* Mutant: a helper releases the lease where it should close its descriptor.
UnlockForAll(k) ==
    /\ fds' = {}
    /\ guards' = [guards EXCEPT ![k] = NoProc]
    /\ UNCHANGED <<step, meta, died>>

CloseLease(k) ==
    IF k \in fds THEN L!HelperCloses(k) ELSE UNCHANGED leaseVars

\* A child of the supervisor stays a zombie until that reaps it, or dies.
Remains == IF pc = "gone" THEN "reaped" ELSE "zombie"

Dies(k) ==
    /\ k \in doomed \cap alive
    /\ alive' = alive \ {k} /\ doomed' = doomed \ {k}
    /\ leader' = IF k = Bind THEN Remains ELSE leader
    /\ dog' = IF k = Dog THEN "gone" ELSE dog
    /\ CloseLease(k)
    /\ UNCHANGED <<supVars, unborn, foreign, slipped, dogSaw, dogListed, dogKilled,
                   diskVars, cliVars, host>>

-----------------------------------------------------------------------------
(* run_bind_exec: bind to the parent, fork the watchdog, exec the payload. *)

BindMoves(from, to) ==
    /\ leader = from /\ Bind \in alive \ doomed
    /\ leader' = to
    /\ UNCHANGED <<supVars, unborn, doomed, foreign, slipped, dogSaw, dogListed,
                   dogKilled, diskVars, cliVars, host>>

\* PR_SET_PDEATHSIG, then a look at the parent, which may be gone already.
BindChecks ==
    /\ BindMoves("bind", IF pc = "gone" THEN Remains ELSE "bound")
    /\ alive' = IF pc = "gone" THEN alive \ {Bind} ELSE alive
    /\ IF pc = "gone" THEN CloseLease(Bind) ELSE UNCHANGED leaseVars
    /\ UNCHANGED dog

BindForks ==
    /\ BindMoves("bound", "forked")
    /\ alive' = alive \cup {Dog} /\ dog' = "born"
    /\ IF Bind \in fds THEN L!Fork(Bind, Dog) ELSE UNCHANGED leaseVars

BindCloses ==
    /\ BindMoves("forked", "closed")
    /\ CloseLease(Bind)
    /\ UNCHANGED <<alive, dog>>

BindExecs ==
    /\ BindMoves("closed", "payload")
    /\ UNCHANGED <<leaseVars, alive, dog>>

\* exec fails, or the payload ends by itself.
LeaderExits ==
    /\ BindMoves("closed", Remains) \/ BindMoves("payload", Remains)
    /\ alive' = alive \ {Bind}
    /\ UNCHANGED <<leaseVars, dog>>

-----------------------------------------------------------------------------
(* The payload's other processes.                                          *)

\* Its user is the parent's.
WorkerForked(w) ==
    /\ w \in unborn /\ unborn' = unborn \ {w}
    /\ alive' = alive \cup {w}
    /\ \E parent \in alive \ doomed :
          /\ parent \in Workers \/ (parent = Bind /\ leader = "payload")
          /\ foreign' = IF parent \in foreign THEN foreign \cup {w} ELSE foreign
          /\ slipped' = IF pc = "read" \/ parent \in slipped
                        THEN slipped \cup {w} ELSE slipped
    /\ UNCHANGED <<leaseVars, supVars, doomed, leader, dogVars, diskVars, cliVars,
                   host>>

WorkerExits(w) ==
    /\ w \in alive \ doomed
    /\ alive' = alive \ {w} /\ foreign' = foreign \ {w}
    /\ UNCHANGED <<leaseVars, supVars, unborn, doomed, leader, slipped, dogVars,
                   diskVars, cliVars, host>>

\* It executes a set-uid program: signals from this user get EPERM.
WorkerBecomesForeign(w) ==
    /\ w \in alive \ (doomed \cup foreign)
    /\ foreign' = foreign \cup {w}
    /\ UNCHANGED <<leaseVars, supVars, alive, unborn, doomed, leader, slipped,
                   dogVars, diskVars, cliVars, host>>

-----------------------------------------------------------------------------
(* _run_watchdog.                                                          *)

DogMoves(from, to) ==
    /\ Dog \in alive \ doomed
    /\ dog = from /\ dog' = to
    /\ UNCHANGED <<supVars, unborn, foreign, leader, slipped, dogKilled, diskVars,
                   cliVars, host>>

DogSetsid ==
    /\ DogMoves("born", "watch")
    /\ UNCHANGED <<leaseVars, alive, doomed, dogSaw, dogListed>>

DogReadsStatus ==
    /\ DogMoves("watch", "decide")
    /\ dogSaw' \in {IF pc = "gone" THEN "dead" ELSE "live", "unknown"}
    /\ UNCHANGED <<leaseVars, alive, doomed, dogListed>>

\* getppid() is 1 when the payload has died, but for a subreaper that Linux may
\* have between it and init.  It is read after the status.
Reparented == Bind \notin alive
HasParent == Bind \in alive \/ host = "linux"

\* The watchdog's own exit gives up its descriptor of the lease.
DogExits(from) ==
    /\ DogMoves(from, "gone")
    /\ alive' = alive \ {Dog}
    /\ CloseLease(Dog)
    /\ dogSaw' = "unknown" /\ dogListed' = {}
    /\ UNCHANGED doomed

\* "Payload already exited; the supervisor still holds the lease."
DogLeaves ==
    /\ dogSaw = "live" /\ Reparented
    /\ DogExits("decide")

DogKeepsWatching ==
    /\ dogSaw # "dead" /\ HasParent
    /\ DogMoves("decide", "watch")
    /\ dogSaw' = "unknown"
    /\ UNCHANGED <<leaseVars, alive, doomed, dogListed>>

DogKills ==
    /\ dogSaw = "dead" \/ (dogSaw = "unknown" /\ Reparented)
    /\ DogMoves("decide", "probe")
    /\ KillGroup
    /\ dogSaw' = "unknown" /\ dogListed' = LiveGroup
    /\ UNCHANGED <<leaseVars, alive>>

\* It looks again when it has seen a member, or cannot say.
DogProbes ==
    \/ dogListed \cap LiveGroup = {} /\ DogExits("probe")
    \/ /\ DogMoves("probe", "watch")
       /\ dogListed' = {}
       /\ UNCHANGED <<leaseVars, alive, doomed, dogSaw>>

DogKilled ==
    /\ Dog \in alive /\ ~dogKilled
    /\ dogKilled' = TRUE
    /\ doomed' = doomed \cup {Dog}
    /\ UNCHANGED <<leaseVars, supVars, alive, unborn, foreign, leader, slipped, dog,
                   dogSaw, dogListed, diskVars, cliVars, host>>

-----------------------------------------------------------------------------
(* The supervisor: lease, run state, spawn.                                *)

SupUnchanged == UNCHANGED <<interrupt, late, supKilled, dogVars, host, cli>>

SupAcquires ==
    /\ pc = "begin"
    /\ L!Acquire(Sup)
    /\ SupUnchanged
    /\ UNCHANGED <<pc, attempt, cause, cleaned, retainVars, listed, groupVars,
                   diskVars, msg>>

SupRefused ==
    /\ Goto("begin", "answer")
    /\ L!Refused(Sup)
    /\ cause' = "refused"
    /\ SupUnchanged
    /\ UNCHANGED <<attempt, cleaned, retainVars, listed, groupVars, diskVars, msg>>

SupHolds ==
    /\ Goto("begin", "state")
    /\ L!WriteMeta(Sup)
    /\ SupUnchanged
    /\ UNCHANGED <<attempt, cause, cleaned, retainVars, listed, groupVars, diskVars,
                   msg>>

\* The checks of run are those of module RunLifecycle.  It appends run_start.
SupStarts ==
    /\ ~torn
    /\ Goto("state", "spawn")
    /\ phase' = "running"
    /\ SupUnchanged
    /\ UNCHANGED <<leaseVars, attempt, cause, cleaned, retainVars, listed, groupVars,
                   result, confirmed, torn, msg>>

\* A check fails, or the append.
SupCannotStart ==
    /\ Goto("state", "release")
    /\ cause' = "failed"
    /\ SupUnchanged
    /\ UNCHANGED <<leaseVars, attempt, cleaned, retainVars, listed, groupVars,
                   diskVars, msg>>

\* Interrupted before Popen, or Popen fails.
SupCannotSpawn ==
    /\ Goto("spawn", "release")
    /\ cause' = IF interrupt THEN "interrupted" ELSE "failed"
    /\ phase' = "failed" /\ result' = cause'
    /\ SupUnchanged
    /\ UNCHANGED <<leaseVars, attempt, cleaned, retainVars, listed, groupVars,
                   confirmed, torn, msg>>

SupSpawns ==
    /\ Goto("spawn", "supervise")
    /\ L!Spawn(Sup, Bind)
    /\ leader' = "bind" /\ alive' = {Bind}
    /\ SupUnchanged
    /\ UNCHANGED <<attempt, cause, cleaned, retainVars, listVars, unborn, doomed,
                   foreign, diskVars, msg>>

-----------------------------------------------------------------------------
(* _supervise_process.                                                     *)

Supervised(to, why, who) ==
    /\ Goto("supervise", to)
    /\ cause' = why /\ attempt' = who /\ cleaned' = FALSE
    /\ SupUnchanged
    /\ UNCHANGED <<leaseVars, retainVars, listed, groupVars, diskVars, msg>>

\* An exception: the handler of run stops the group once.
SupInterrupted ==
    /\ interrupt
    /\ Supervised("stop", "interrupted", "again")

\* Mutant: the deadline is looked at once the leader has exited.
TimesOutAfterExit ==
    /\ late /\ leader = "zombie"
    /\ Supervised("stop", "timeout", "first")

SupTimesOut ==
    /\ late
    /\ Supervised("stop", "timeout", "first")

\* The leader has exited, and stays unreaped: the rest of the group is killed.
LeaderSeen ==
    /\ leader = "zombie" /\ ~cleaned /\ ~KillDenied
    /\ pc = "supervise" /\ KillGroup /\ cleaned' = TRUE
    /\ SupUnchanged
    /\ UNCHANGED <<leaseVars, pc, attempt, cause, retainVars, listVars, alive, unborn,
                   foreign, leader, diskVars, msg>>

\* EPERM of killpg: the group is listed.  (No cause yet: called while it supervises.)
Denied(from) ==
    /\ KillDenied
    /\ Goto(from, "probe")
    /\ listed' = LiveGroup
    /\ SupUnchanged
    /\ UNCHANGED <<leaseVars, attempt, cause, cleaned, retainVars, groupVars, diskVars,
                   msg>>

LeaderSeenDenied == leader = "zombie" /\ ~cleaned /\ Denied("supervise")

ProbeClears ==
    /\ listed \cap LiveGroup = {} /\ listed' = {}
    /\ \/ cause = "none" /\ Goto("probe", "supervise") /\ cleaned' = TRUE
       \/ cause # "none" /\ Goto("probe", "list") /\ UNCHANGED cleaned
    /\ SupUnchanged
    /\ UNCHANGED <<leaseVars, attempt, cause, retainVars, groupVars, diskVars, msg>>

\* No process has the pipes open any more.
PipesClosed ==
    /\ cleaned /\ ~interrupt
    /\ Supervised("stop", "completed", "first")

-----------------------------------------------------------------------------
(* _stop_process, and what its callers do when it cannot confirm.          *)

\* Mutant: the second failure ends the run.
GivesUp(from) ==
    /\ pc = from /\ listed' = {}
    /\ IF attempt = "first"
       THEN pc' = "stop" /\ attempt' = "again" /\ cause' = "failed"
       ELSE pc' = "release" /\ UNCHANGED <<attempt, cause>>
    /\ SupUnchanged
    /\ UNCHANGED <<leaseVars, cleaned, retainVars, slipped, alive, unborn, foreign,
                   leader, diskVars, msg>>

\* A first failure is one more reason to stop the group; a second one keeps
\* the lease (_retain_cleanup).
Unconfirmed(from) ==
    /\ pc = from /\ listed' = {}
    /\ IF attempt = "first"
       THEN pc' = "stop" /\ attempt' = "again" /\ cause' = "failed"
       ELSE pc' = "record" /\ attempt' = "retain" /\ cause' = cause
    /\ SupUnchanged
    /\ UNCHANGED <<leaseVars, cleaned, retainVars, slipped, alive, unborn, foreign,
                   leader, diskVars, msg>>

\* The probe finds a member, or cannot say.
ProbeDenies == Unconfirmed("probe") /\ UNCHANGED doomed

StopKills ==
    /\ ~KillDenied
    /\ Goto("stop", "list") /\ KillGroup
    /\ SupUnchanged
    /\ UNCHANGED <<leaseVars, attempt, cause, cleaned, retainVars, listVars, alive,
                   unborn, foreign, leader, diskVars, msg>>

StopDenied == Denied("stop")

\* The pids are read first, and the state of each after that.
Lists ==
    /\ Goto("list", "read")
    /\ listed' = LiveGroup /\ slipped' = {}
    /\ SupUnchanged
    /\ UNCHANGED <<leaseVars, attempt, cause, cleaned, retainVars, alive, unborn,
                   doomed, foreign, leader, diskVars, msg>>

\* The members it has seen are killed one by one, until one is denied.
StopKillsMembers ==
    \E killed \in SUBSET (LiveGroup \ foreign) :
        /\ listed # {} /\ killed \subseteq listed
        /\ doomed' = doomed \cup killed
        /\ IF listed \cap LiveGroup \cap foreign = {}
           THEN /\ killed = listed \cap LiveGroup
                /\ Goto("read", "list") /\ listed' = {}
                /\ SupUnchanged
                /\ UNCHANGED <<leaseVars, attempt, cause, cleaned, retainVars, slipped,
                               alive, unborn, foreign, leader, diskVars, msg>>
           ELSE Unconfirmed("read")

\* The budget is spent, or membership is unknown.
StopGivesUp == Unconfirmed("list") /\ UNCHANGED doomed

Stopped ==
    /\ Goto("read", "stopped")
    /\ leader' = "reaped" /\ listed' = {}
    /\ SupUnchanged
    /\ UNCHANGED <<leaseVars, attempt, cause, cleaned, retainVars, slipped, alive,
                   unborn, doomed, foreign, diskVars, msg>>

\* Mutant: a dead leader is taken for an empty group.
LeaderIsGroup == Bind \notin alive /\ Stopped

\* None of the pids is a member any more, and the leader is reaped.
StopConfirms == listed \cap LiveGroup = {} /\ Stopped

\* _write_terminal_state, retried by a retained cleanup until it succeeds, and an
\* event, which a torn log refuses with an error of its own.
WritesTerminal ==
    /\ Goto("stopped", "release")
    /\ phase' = IF cause = "completed" THEN "completed" ELSE "failed"
    /\ result' = cause
    /\ confirmed' = TRUE
    /\ cause' = IF torn THEN "unpersisted" ELSE cause
    /\ SupUnchanged
    /\ UNCHANGED <<leaseVars, attempt, cleaned, retainVars, listed, groupVars, torn,
                   msg>>

CannotWriteTerminal ==
    /\ attempt # "retain"
    /\ Goto("stopped", "release")
    /\ cause' = "unpersisted"
    /\ SupUnchanged
    /\ UNCHANGED <<leaseVars, attempt, cleaned, retainVars, listed, groupVars, diskVars,
                   msg>>

-----------------------------------------------------------------------------
(* _retain_cleanup: record, notify once, and record and stop in a loop.    *)

AfterRecord == IF msg = "none" THEN "notify" ELSE "stop"

\* record_pending.  The append fails cleanly or tears the log, and is tried
\* again; of a torn log it raises ValueError, which nobody here catches.
RecordsPending ==
    /\ pc = "record" /\ ~logged
    /\ recorded' = TRUE
    /\ IF recorded THEN UNCHANGED <<phase, result, confirmed>>
       ELSE phase' = "cleanup_pending" /\ result' = cause /\ confirmed' = FALSE
    /\ \/ /\ torn
          /\ pc' = "release" /\ cause' = "unpersisted"
          /\ UNCHANGED <<logged, torn>>
       \/ /\ ~torn
          /\ pc' = AfterRecord /\ UNCHANGED cause
          /\ logged' \in BOOLEAN /\ torn' \in {FALSE, ~logged'}
    /\ SupUnchanged
    /\ UNCHANGED <<leaseVars, attempt, cleaned, listed, groupVars, msg>>

\* The state cannot be written, or all is recorded.
SkipsRecord ==
    /\ ~recorded \/ logged
    /\ Goto("record", AfterRecord)
    /\ SupUnchanged
    /\ UNCHANGED <<leaseVars, attempt, cause, cleaned, retainVars, listed, groupVars,
                   diskVars, msg>>

\* Mutant: the CLI is told only when the record is on disk.
NotifiesRecorded ==
    /\ recorded
    /\ Goto("notify", "record")
    /\ msg' = "pending"
    /\ SupUnchanged
    /\ UNCHANGED <<leaseVars, attempt, cause, cleaned, retainVars, listed, groupVars,
                   diskVars>>

\* The CLI returns, and the supervisor goes on with the lease.
Notifies ==
    /\ Goto("notify", "record")
    /\ msg' = "pending"
    /\ SupUnchanged
    /\ UNCHANGED <<leaseVars, attempt, cause, cleaned, retainVars, listed, groupVars,
                   diskVars>>

-----------------------------------------------------------------------------
(* Release, answer, exit; and SIGKILL instead.                             *)

Releases ==
    /\ pc = "release"
    /\ \/ L!RemoveMeta(Sup) /\ UNCHANGED pc
       \/ L!Unlock(Sup) /\ pc' = "answer"
    /\ SupUnchanged
    /\ UNCHANGED <<attempt, cause, cleaned, retainVars, listed, groupVars, diskVars,
                   msg>>

\* What the process knew is gone with it.
SupEnds ==
    /\ pc' = "gone" /\ attempt' = "first" /\ cause' = "none"
    /\ cleaned' = FALSE /\ recorded' = FALSE /\ logged' = FALSE /\ listed' = {}
    /\ interrupt' = FALSE /\ late' = FALSE

\* Linux kills the leader with it once run_bind_exec has asked for that; a
\* zombie leader is reaped by init.
Orphans ==
    /\ leader' = IF leader = "zombie" THEN "reaped" ELSE leader
    /\ doomed' = IF host = "darwin" \/ leader \in {"none", "bind"}
                 THEN doomed ELSE doomed \cup ({Bind} \cap alive)

\* Sent unless the CLI was told before; then os._exit.
Answers ==
    /\ pc = "answer" /\ SupEnds /\ Orphans
    /\ msg' = IF msg # "none" THEN msg
              ELSE IF cause = "completed" THEN "ok" ELSE "error"
    /\ UNCHANGED <<leaseVars, alive, unborn, foreign, slipped, dogVars, diskVars,
                   supKilled, cli, host>>

SupKilled ==
    /\ Sup \in fds
    /\ L!Die(Sup)
    /\ SupEnds /\ supKilled' = TRUE /\ Orphans
    /\ UNCHANGED <<alive, unborn, foreign, slipped, dogVars, diskVars, cliVars, host>>

-----------------------------------------------------------------------------
(* The CLI, the clock and the rival.                                       *)

\* _external_interrupt is looked at before the spawn and in _supervise_process; set
\* later, it is never seen.
Interruptible == {"begin", "state", "spawn", "supervise"}

\* A termination signal: a stop byte is sent down the control pipe.
CliStops ==
    /\ cli = "waiting" /\ pc \in Interruptible /\ ~interrupt
    /\ interrupt' = TRUE
    /\ UNCHANGED <<leaseVars, pc, attempt, cause, cleaned, retainVars, listed, late,
                   supKilled, groupVars, dogVars, diskVars, cliVars, host>>

CliDies ==
    /\ cli = "waiting"
    /\ cli' = "gone"
    /\ UNCHANGED <<leaseVars, supVars, groupVars, dogVars, diskVars, msg, host>>

\* A message, or EOF when the supervisor is gone.
CliReturns ==
    /\ cli = "waiting" /\ (msg # "none" \/ pc = "gone")
    /\ cli' = "gone"
    /\ UNCHANGED <<leaseVars, supVars, groupVars, dogVars, diskVars, msg, host>>

\* EOF on the control pipe: the CLI died, or returned early.
WatcherSeesEof ==
    /\ cli # "waiting" /\ pc \in Interruptible /\ ~interrupt
    /\ interrupt' = TRUE
    /\ UNCHANGED <<leaseVars, pc, attempt, cause, cleaned, retainVars, listed, late,
                   supKilled, groupVars, dogVars, diskVars, cliVars, host>>

\* It is looked at in _supervise_process only.
Deadline ==
    /\ pc = "supervise" /\ ~late /\ late' = TRUE
    /\ UNCHANGED <<leaseVars, pc, attempt, cause, cleaned, retainVars, listed,
                   interrupt, supKilled, groupVars, dogVars, diskVars, cliVars, host>>

\* An append of another command is cut: cancelling a challenge takes no lease.  A cut
\* before or after shows where this one does, or where the supervisor's own does.
LogTorn ==
    /\ pc = "supervise" /\ ~torn /\ torn' = TRUE
    /\ UNCHANGED <<leaseVars, supVars, groupVars, dogVars, phase, result, confirmed,
                   cliVars, host>>

RivalCommand ==
    /\ \/ L!Acquire(Rival) \/ L!WriteMeta(Rival)
       \/ L!RemoveMeta(Rival) \/ L!Unlock(Rival)
    /\ UNCHANGED <<supVars, groupVars, dogVars, diskVars, cliVars, host>>

-----------------------------------------------------------------------------
Init ==
    /\ L!Init
    /\ pc = "begin" /\ attempt = "first" /\ cause = "none"
    /\ cleaned = FALSE /\ recorded = FALSE /\ logged = FALSE /\ listed = {}
    /\ interrupt = FALSE /\ late = FALSE
    /\ alive = {} /\ unborn = Workers /\ doomed = {} /\ foreign = {} /\ slipped = {}
    /\ leader = "none"
    /\ dog = "none" /\ dogSaw = "unknown" /\ dogListed = {}
    /\ phase = "preflighted" /\ result = "none" /\ confirmed = FALSE /\ torn = FALSE
    /\ cli = "waiting" /\ msg = "none"
    /\ supKilled = FALSE /\ dogKilled = FALSE
    /\ host \in Hosts

Supervisor ==
    \/ SupAcquires \/ SupRefused \/ SupHolds \/ SupStarts \/ SupCannotStart
    \/ SupCannotSpawn \/ SupSpawns
    \/ SupInterrupted \/ SupTimesOut \/ LeaderSeen \/ LeaderSeenDenied \/ PipesClosed
    \/ ProbeClears \/ ProbeDenies
    \/ StopKills \/ StopDenied \/ Lists \/ StopKillsMembers \/ StopGivesUp \/ StopConfirms
    \/ WritesTerminal \/ CannotWriteTerminal
    \/ RecordsPending \/ SkipsRecord \/ Notifies
    \/ Releases \/ Answers

Helper == BindChecks \/ BindForks \/ BindCloses \/ BindExecs
Watchdog ==
    \/ DogSetsid \/ DogReadsStatus \/ DogLeaves \/ DogKeepsWatching \/ DogKills
    \/ DogProbes

Environment ==
    \/ LeaderExits \/ SupKilled \/ DogKilled
    \/ CliStops \/ CliDies \/ RivalCommand \/ LogTorn
    \/ \E w \in Workers :
          WorkerForked(w) \/ WorkerExits(w) \/ WorkerBecomesForeign(w)

Next ==
    \/ Supervisor \/ Helper \/ Watchdog \/ Environment
    \/ CliReturns \/ WatcherSeesEof \/ Deadline
    \/ \E k \in {Bind, Dog} \cup Workers : Dies(k)

\* Processes that are not stopped run; SIGKILL is delivered; time passes; group
\* membership cannot be unknown, or over budget, every time it is probed.
Fairness ==
    /\ WF_vars(Supervisor) /\ SF_vars(Lists) /\ WF_vars(Helper) /\ WF_vars(Watchdog)
    /\ WF_vars(CliReturns) /\ WF_vars(WatcherSeesEof) /\ WF_vars(Deadline)
    /\ \A k \in {Bind, Dog} \cup Workers : WF_vars(Dies(k))

Spec == Init /\ [][Next]_vars /\ Fairness

-----------------------------------------------------------------------------
(* Properties.                                                             *)

Leaders == {"none", "bind", "bound", "forked", "closed", "payload", "zombie", "reaped"}

\* Types; and the leader's stage, its life and its zombie agree.
TypeOK ==
    /\ L!TypeOK
    /\ pc \in {"begin", "state", "spawn", "supervise", "probe", "stop", "list", "read",
               "stopped", "record", "notify", "release", "answer", "gone"}
    /\ attempt \in {"first", "again", "retain"}
    /\ cause \in {"none", "completed", "timeout", "failed", "interrupted", "refused",
                  "unpersisted"}
    /\ {cleaned, recorded, logged, interrupt, late, confirmed, torn, supKilled, dogKilled}
          \subseteq BOOLEAN
    /\ alive \subseteq {Bind, Dog} \cup Workers
    /\ unborn \subseteq Workers /\ foreign \subseteq Workers /\ slipped \subseteq Workers
    /\ {listed, dogListed} \subseteq SUBSET ({Bind, Dog} \cup Workers)
    /\ doomed \subseteq {Bind, Dog} \cup Workers
    /\ leader \in Leaders
    /\ dog \in {"none", "born", "watch", "decide", "probe", "gone"}
    /\ dogSaw \in {"live", "dead", "unknown"}
    /\ phase \in {"preflighted", "running", "completed", "failed", "cleanup_pending"}
    /\ result \in {"none", "completed", "timeout", "failed", "interrupted"}
    /\ cli \in {"waiting", "gone"}
    /\ msg \in {"none", "ok", "error", "pending"}
    /\ host \in Hosts
    /\ (Bind \in alive) = (leader \notin {"none", "zombie", "reaped"})
    /\ (Dog \in alive) = (dog \notin {"none", "gone"})

\* The group is empty, or the last listing has missed what lives: workers
\* forked while it was made, by one that was gone when it was looked at.
Cleared ==
    \/ LiveGroup = {}
    \/ /\ pc \in {"stopped", "release", "answer", "gone"}
       /\ LiveGroup \subseteq slipped

\* cleanup_confirmed in state.json: no member of the payload's group lives, nor
\* ever will again, whoever was killed, denied or forked meanwhile, but for those a
\* listing has missed; on Linux, where killpg reaches every member it may signal, they
\* are another user's.  The CLI is told of success only then, of a completed record,
\* with the lease released.
ConfirmedMeansCleared ==
    /\ confirmed => Cleared /\ (host = "linux" => LiveGroup \subseteq foreign)
    /\ msg = "ok" => phase = "completed" /\ confirmed
    /\ msg \in {"ok", "error"} => Sup \notin fds

\* FAQ.md: the lease stays held until the group is empty.  So it is, by refusals,
\* failed state writes, EPERM and lost CLIs, unless the supervisor is killed, or an
\* append left half a line in the event log: then record_pending raises out of
\* _retain_cleanup, and the lease is unlocked for every descriptor.
Guarded == fds \cap {Sup, Bind, Dog} # {}
LeaseUntilCleared == ~Cleared => Guarded \/ supKilled \/ torn



\* The run uses the lease as module Lease says, and so inherits its theorems.
ImplementsLease == L!Spec

\* run_supervisor.py: the group is killed at the deadline, whatever became of the
\* CLI, if the supervisor lives and may signal it, and can append its record.
DeadlineKills ==
    late ~> Cleared \/ supKilled \/ torn \/ foreign # {}

\* The CLI is not left waiting: an answer, a retain notification or EOF.
CliAnswered == cli = "waiting" ~> cli # "waiting"
=============================================================================
