----------------------------- MODULE LeaseProofs -----------------------------
(***************************************************************************)
(* For any number of processes and helpers: the lease excludes, its        *)
(* metadata names the holder, and a helper keeps it for a dead command.    *)
(*                                                                         *)
(* Exclusive is not inductive.  What is: all the descriptors of the locked *)
(* description belong to one command and its helpers (OneDescription), and *)
(* a helper that guards a command has one, while the command, if it lives, *)
(* is in its critical section (GuardsHold).                                *)
(***************************************************************************)
EXTENDS Lease, TLAPS

OneDescription == \A p, q \in Procs : p \in fds /\ q \in fds => p = q

GuardsHold ==
    \A k \in Helpers : guards[k] # NoProc =>
        /\ k \in fds
        /\ \A p \in Procs : p \in fds =>
              p = guards[k] /\ step[p] \in {"in", "removed"}

IInv == TypeOK /\ OneDescription /\ GuardsHold /\ MetaNamesHolder

\* The descriptors of the processes exclude, so the processes do.
LEMMA InvExclusive == IInv => Exclusive /\ HelperGuardsLease
  BY DEF IInv, TypeOK, OneDescription, GuardsHold, Exclusive, HelperGuardsLease

LEMMA InitInv == Init => IInv
  BY ProcsAssumption
  DEF Init, IInv, TypeOK, OneDescription, GuardsHold, MetaNamesHolder, Steps, Inside

\* One step at a time.
LEMMA AcquireInv == IInv /\ (\E p \in Procs : Acquire(p) \/ Probe(p)) => IInv'
  BY ProcsAssumption
  DEF Acquire, Probe, SetStep, Flock,
      IInv, TypeOK, OneDescription, GuardsHold, MetaNamesHolder, Steps, Inside

LEMMA RefusedInv == IInv /\ (\E p \in Procs : Refused(p) \/ RaiseLeaseError(p)) => IInv'
  BY DEF Refused, RaiseLeaseError, SetStep,
         IInv, TypeOK, OneDescription, GuardsHold, MetaNamesHolder, Steps, Inside

\* The writer of metadata is inside, so no other process is.
LEMMA MetaInv ==
  IInv /\ (\E p \in Procs : WriteMeta(p) \/ WriteMetaFails(p) \/ RemoveMeta(p))
    => IInv'
  BY DEF WriteMeta, WriteMetaFails, RemoveMeta, SetStep,
         IInv, TypeOK, OneDescription, GuardsHold, MetaNamesHolder, Steps, Inside

\* LOCK_UN: the command was the only one inside, and its helpers are released.
LEMMA UnlockInv ==
  ASSUME IInv, NEW p \in Procs, Unlock(p)
  PROVE  IInv'
<1> USE DEF IInv, Unlock, SetStep, FlockUn
<1>1. \A k \in Helpers : guards[k] # NoProc => guards[k] = p
  BY DEF TypeOK, GuardsHold, Inside
<1>2. \A k \in Helpers : guards'[k] = NoProc
  BY <1>1
<1>3. \A q \in Procs : step'[q] \notin Inside
  BY DEF TypeOK, OneDescription, Inside
<1>4. TypeOK'
  BY <1>3 DEF TypeOK, Steps
<1>5. OneDescription' /\ GuardsHold'
  BY <1>2 DEF OneDescription, GuardsHold
<1>6. MetaNamesHolder'
  BY <1>3 DEF MetaNamesHolder, Inside
<1> QED BY <1>4, <1>5, <1>6

LEMMA ProbeEndInv ==
  ASSUME IInv, NEW p \in Procs, ProbeEnd(p)
  PROVE  IInv'
<1> USE DEF IInv, ProbeEnd, SetStep, FlockUn
<1>1. \A q \in Procs : step'[q] \notin Inside
  BY DEF TypeOK, OneDescription, Inside
<1>2. \A k \in Helpers : guards[k] = NoProc
  BY DEF TypeOK, GuardsHold, Inside
<1> QED
  BY <1>1, <1>2
  DEF TypeOK, OneDescription, GuardsHold, MetaNamesHolder, Steps, Inside

LEMMA CloseInv == IInv /\ (\E p \in Procs : RemoveMetaFails(p) \/ Die(p)) => IInv'
  BY ProcsAssumption
  DEF RemoveMetaFails, Die, SetStep, Close,
      IInv, TypeOK, OneDescription, GuardsHold, MetaNamesHolder, Steps, Inside

LEMMA HelperInv ==
  /\ IInv
  /\ \E k \in Helpers :
        \/ HelperCloses(k)
        \/ \E p \in Procs : Spawn(p, k)
        \/ \E h \in Helpers : Fork(k, h)
  => IInv'
  BY ProcsAssumption
  DEF HelperCloses, Spawn, Fork, Close, Inherit,
      IInv, TypeOK, OneDescription, GuardsHold, MetaNamesHolder, Steps, Inside

\* IInv is inductive.
LEMMA NextInv == IInv /\ [Next]_vars => IInv'
<1> SUFFICES ASSUME IInv, [Next]_vars PROVE IInv'
  OBVIOUS
<1>1. CASE UNCHANGED vars
  BY <1>1
  DEF vars, IInv, TypeOK, OneDescription, GuardsHold, MetaNamesHolder, Steps, Inside
<1>2. CASE Next
  BY <1>2, AcquireInv, RefusedInv, MetaInv, UnlockInv, ProbeEndInv, CloseInv, HelperInv
  DEF Next, Command
<1> QED BY <1>1, <1>2

\* The inductive invariant holds in every reachable state.
THEOREM LeaseInvariant == Spec => []IInv
  BY InitInv, NextInv, PTL DEF Spec

\* Types, and a process inside acquire, release or a probe has the lock open.
THEOREM LeaseTypes == Spec => []TypeOK
<1>1. IInv => TypeOK
  BY DEF IInv
<1> QED BY <1>1, LeaseInvariant, PTL

\* At most one process is inside, whatever dies and in whatever order.
THEOREM MutualExclusion == Spec => []Exclusive
  BY InvExclusive, LeaseInvariant, PTL

\* The metadata of a command that holds the lease names that command.
THEOREM MetadataTheorem == Spec => []MetaNamesHolder
<1>1. IInv => MetaNamesHolder
  BY DEF IInv
<1> QED BY <1>1, LeaseInvariant, PTL

\* The lease outlives a killed command for as long as a helper does.
THEOREM HelperTheorem == Spec => []HelperGuardsLease
  BY InvExclusive, LeaseInvariant, PTL

-----------------------------------------------------------------------------
(* Refinement of LeaseMutex.                                               *)

\* A step of one process enters or leaves, or moves no command in or out.
LEMMA StepRefines == IInv /\ [Next]_vars => [Mutex!Next]_Commands
<1> SUFFICES ASSUME IInv, [Next]_vars, Commands' # Commands PROVE Mutex!Next
  OBVIOUS
<1> USE DEF Commands, SetStep
<1>0. \A p, q \in Procs : step[p] \in Inside /\ step[q] \in Inside => p = q
  BY InvExclusive DEF Exclusive
<1>1. ASSUME NEW p \in Procs, Acquire(p) PROVE Mutex!Enter(p)
  <2>1. \A q \in Procs : step[q] \notin Inside
    BY <1>1 DEF Acquire, Flock, IInv, TypeOK
  <2>2. Commands = {}
    BY <2>1 DEF Inside
  <2>3. Commands' = {p}
    BY <1>1, <2>1 DEF Acquire, Inside, IInv, TypeOK
  <2> QED BY <2>2, <2>3 DEF Mutex!Enter
<1>2. ASSUME NEW p \in Procs,
             step[p] \in Inside, step' = [step EXCEPT ![p] = "out"]
      PROVE  Mutex!Exit(p)
  <2>1. \A q \in Procs : q # p => step[q] \notin Inside
    BY <1>0, <1>2
  <2>2. Commands' = {}
    BY <1>2, <2>1 DEF Inside, IInv, TypeOK
  <2>3. Commands \subseteq {p}
    BY <2>1 DEF Inside
  <2> QED BY <2>2, <2>3 DEF Mutex!Exit
<1>3. ASSUME NEW p \in Procs, Command(p) PROVE Mutex!Next
  <2>1. CASE Acquire(p)
    BY <1>1, <2>1 DEF Mutex!Next
  <2>2. CASE WriteMetaFails(p) \/ RemoveMetaFails(p) \/ Unlock(p) \/ ProbeEnd(p)
    BY <1>2, <2>2
    DEF WriteMetaFails, RemoveMetaFails, Unlock, ProbeEnd, Inside, Mutex!Next
  <2>3. CASE Die(p)
    <3>1. step[p] \in Inside
      BY <2>3 DEF Die, IInv, TypeOK, Steps, Inside
    <3> QED BY <1>2, <2>3, <3>1 DEF Die, Mutex!Next
  <2>4. CASE Refused(p) \/ RaiseLeaseError(p) \/ WriteMeta(p) \/ RemoveMeta(p)
             \/ Probe(p) \/ \E k \in Helpers : Spawn(p, k)
    <3>1. Commands' = Commands
      BY <2>4 DEF Refused, RaiseLeaseError, WriteMeta, RemoveMeta, Probe, Spawn,
                  IInv, TypeOK
    <3> QED BY <3>1
  <2> QED BY <1>3, <2>1, <2>2, <2>3, <2>4 DEF Command
<1>4. ASSUME NEW k \in Helpers, HelperCloses(k) \/ \E h \in Helpers : Fork(k, h)
      PROVE  Mutex!Next
  BY <1>4 DEF HelperCloses, Fork
<1>5. CASE UNCHANGED vars
  BY <1>5 DEF vars
<1> QED BY <1>3, <1>4, <1>5 DEF Next

\* The lifecycle commands of a workspace are mutually exclusive, as LeaseMutex
\* says, for any number of processes that die at any step.
THEOREM MutexTheorem == Spec => ImplementsMutex
<1>1. Init => Mutex!Init
  BY DEF Init, Mutex!Init, Commands
<1> QED
  BY <1>1, StepRefines, LeaseInvariant, PTL DEF Spec, ImplementsMutex, Mutex!Spec
=============================================================================
