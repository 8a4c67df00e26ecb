-------------------------------- MODULE Lease --------------------------------
(***************************************************************************)
(* The workspace lease: an flock on .runspecimen/execution.lock, and the   *)
(* lease metadata file beside it that tells people who holds it.           *)
(*                                                                         *)
(* The kernel's lock belongs to an open file description.  Only one can    *)
(* have it, so fds, the processes with a descriptor of that description,   *)
(* is all there is to know of it: the lock is free when fds is empty.  A   *)
(* helper (the watchdog of a payload) shares the description of the        *)
(* command that spawned it, and keeps the lock when that command dies.     *)
(*                                                                         *)
(* A member of Procs is a process that runs one command after the other:   *)
(* a CLI command is one that crashes or never acquires again, the          *)
(* companion server one that lives on.                                     *)
(***************************************************************************)
CONSTANTS
    Procs,    \* processes that run commands in the workspace
    Helpers,  \* processes that inherit the lock file
    NoProc    \* no process

ASSUME ProcsAssumption == Procs \cap Helpers = {} /\ NoProc \notin Procs

VARIABLES
    step,    \* where a process is in acquire, release or a probe
    fds,     \* processes with a descriptor of the locked description
    meta,    \* the process lease metadata names
    guards,  \* history: the unreleased command a helper holds the lease for
    died     \* history: processes that left their metadata behind

vars == <<step, fds, meta, guards, died>>

SetStep(p, from, to) == step[p] = from /\ step' = [step EXCEPT ![p] = to]

-----------------------------------------------------------------------------
(* flock(2) and descriptors.                                               *)

\* Mutant: LOCK_SH for LOCK_EX.
FlockShared(p) == fds' = fds \cup {p}

Flock(p) == fds = {} /\ fds' = {p}

\* LOCK_UN frees the description, whoever else has a descriptor of it.
FlockUn == fds' = {}

\* The last close frees it.
Close(p) == fds' = fds \ {p}

\* Mutant: the descriptor is not passed to the child.
NotInherited(k) == UNCHANGED fds

Inherit(k) == fds' = fds \cup {k}

-----------------------------------------------------------------------------
(* Lease.acquire, Lease.release.                                           *)

Acquire(p) ==
    /\ SetStep(p, "out", "locked")
    /\ Flock(p)
    /\ UNCHANGED <<meta, guards, died>>

\* Mutant: metadata of a lease that cannot be had is taken for stale.
RefusedCleans(p) ==
    /\ SetStep(p, "out", "refused")
    /\ fds # {}
    /\ meta' = NoProc
    /\ UNCHANGED <<fds, guards, died>>

\* Every caller passes LOCK_NB: a lease that is held is an error at once.
Refused(p) ==
    /\ SetStep(p, "out", "refused")
    /\ fds # {}
    /\ UNCHANGED <<fds, meta, guards, died>>

RaiseLeaseError(p) ==
    /\ SetStep(p, "refused", "out")
    /\ UNCHANGED <<fds, meta, guards, died>>

WriteMeta(p) ==
    /\ SetStep(p, "locked", "in")
    /\ meta' = p
    /\ UNCHANGED <<fds, guards, died>>

\* The write fails outside the caller's try: the descriptor stays open, and
\* with it the lock, for as long as the process lives.
WriteMetaFails(p) ==
    /\ SetStep(p, "locked", "out")
    /\ UNCHANGED <<fds, meta, guards, died>>

\* A run passes its lease to run_bind_exec.
Spawn(p, k) ==
    /\ step[p] = "in"
    /\ guards[k] = NoProc /\ k \notin fds
    /\ Inherit(k)
    /\ guards' = [guards EXCEPT ![k] = p]
    /\ UNCHANGED <<step, meta, died>>

\* run_bind_exec forks the watchdog, whether or not the command still lives.
Fork(k, h) ==
    /\ k \in fds
    /\ guards[h] = NoProc /\ h \notin fds
    /\ Inherit(h)
    /\ guards' = [guards EXCEPT ![h] = guards[k]]
    /\ UNCHANGED <<step, meta, died>>

RemoveMeta(p) ==
    /\ SetStep(p, "in", "removed")
    /\ meta' = NoProc
    /\ UNCHANGED <<fds, guards, died>>

\* Any error but FileNotFoundError skips LOCK_UN and closes the descriptor.
RemoveMetaFails(p) ==
    /\ SetStep(p, "in", "out")
    /\ Close(p)
    /\ died' = died \cup {p}
    /\ UNCHANGED <<meta, guards>>

Unlock(p) ==
    /\ SetStep(p, "removed", "out")
    /\ FlockUn
    /\ guards' = [k \in Helpers |-> IF guards[k] = p THEN NoProc ELSE guards[k]]
    /\ UNCHANGED <<meta, died>>

-----------------------------------------------------------------------------
(* Lease.is_locked_by_other: status, recovery and the sync report probe by *)
(* taking the lock.                                                        *)

Probe(p) ==
    /\ SetStep(p, "out", "probing")
    /\ Flock(p)
    /\ UNCHANGED <<meta, guards, died>>

ProbeEnd(p) ==
    /\ SetStep(p, "probing", "out")
    /\ FlockUn
    /\ UNCHANGED <<meta, guards, died>>

-----------------------------------------------------------------------------
\* SIGKILL or exit at any step; metadata it wrote stays.
Die(p) ==
    /\ step[p] # "out" \/ p \in fds
    /\ step' = [step EXCEPT ![p] = "out"]
    /\ Close(p)
    /\ died' = died \cup {p}
    /\ UNCHANGED <<meta, guards>>

\* A helper exits, or closes the descriptor and goes on without it.
HelperCloses(k) ==
    /\ guards[k] # NoProc \/ k \in fds
    /\ Close(k)
    /\ guards' = [guards EXCEPT ![k] = NoProc]
    /\ UNCHANGED <<step, meta, died>>

Init ==
    /\ step = [p \in Procs |-> "out"]
    /\ fds = {}
    /\ meta = NoProc
    /\ guards = [k \in Helpers |-> NoProc]
    /\ died = {}

Command(p) ==
    \/ Acquire(p) \/ Refused(p) \/ RaiseLeaseError(p)
    \/ WriteMeta(p) \/ WriteMetaFails(p)
    \/ RemoveMeta(p) \/ RemoveMetaFails(p) \/ Unlock(p)
    \/ Probe(p) \/ ProbeEnd(p) \/ Die(p)
    \/ \E k \in Helpers : Spawn(p, k)

Next ==
    \/ \E p \in Procs : Command(p)
    \/ \E k \in Helpers : HelperCloses(k) \/ \E h \in Helpers : Fork(k, h)

Spec == Init /\ [][Next]_vars

-----------------------------------------------------------------------------
(* Properties.                                                             *)

Inside == {"locked", "in", "removed", "probing"}
Steps == Inside \cup {"out", "refused"}

\* Types; and a process inside has the lock file open.
TypeOK ==
    /\ step \in [Procs -> Steps]
    /\ fds \subseteq Procs \cup Helpers
    /\ meta \in Procs \cup {NoProc}
    /\ guards \in [Helpers -> Procs \cup {NoProc}]
    /\ died \subseteq Procs
    /\ \A p \in Procs : step[p] \in Inside => p \in fds

\* Two processes are never inside together, whichever died before.
Exclusive ==
    \A p, q \in Procs : step[p] \in Inside /\ step[q] \in Inside => p = q

\* The metadata names the command that holds the lease: no other process, not
\* even one that was refused, fails or dies, removes or replaces it.  Metadata
\* without a command is what a process left that died or failed.
MetaNamesHolder ==
    /\ \A p \in Procs : step[p] = "in" => meta = p
    /\ meta # NoProc => step[meta] = "in" \/ meta \in died

\* run_bind_exec.py: a helper keeps the lease of a command that was killed, so
\* none is inside but the one it guards.
HelperGuardsLease ==
    \A k \in Helpers, p \in Procs :
        guards[k] # NoProc /\ step[p] \in Inside => p = guards[k]

\* The commands, probes left aside, follow LeaseMutex.
Commands == {p \in Procs : step[p] \in {"locked", "in", "removed"}}
Mutex == INSTANCE LeaseMutex WITH inside <- Commands
ImplementsMutex == Mutex!Spec

=============================================================================
