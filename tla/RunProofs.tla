------------------------------ MODULE RunProofs ------------------------------
(***************************************************************************)
(* Theorems about RunLifecycle and RemoteConfirm, for every value of their *)
(* constants.  Of the lifecycle: types and the shape of each step, the     *)
(* single launch, the closed runs, the refinement of RunFate, what the log *)
(* and state.json of a launched run say of its approval, and what the      *)
(* receipt of a postflighted run certifies.  Of remote confirmation: what  *)
(* a paired phone may do to the lifecycle, that the lifecycle's guarantees *)
(* stand beside it, and the fate of each challenge.                        *)
(***************************************************************************)
EXTENDS RemoteConfirm, TLAPS

(***************************************************************************)
(* What is known of the run in flight at each step of its operation: the   *)
(* phase its guards established still stands, because nobody else writes.  *)
(***************************************************************************)
Launchable == {"none", "approved", "preflighted"}

StepShape ==
    /\ pc \in {"approvePrompt", "approveEvent", "approveState",
               "preflightCheck", "preflightState"} => phase[cur] \notin Terminal
    /\ pc \in {"approveEvent", "approveState"} => approval[cur] \in ApprovalDocs
    /\ pc \in {"runCheck", "runRecheck", "runState"} =>
          /\ phase[cur] \in Launchable
          /\ Pred[cur][seen.c] # NoRun =>
                phase[Pred[cur][seen.c]] = "postflighted"
    /\ pc \in {"runSpawn", "live", "retain"} => phase[cur] = "running"
    /\ pc \in {"retainEvent", "retained"} => phase[cur] = "cleanup_pending"
    /\ pc \in {"runEvent", "confirmEvent"} => phase[cur] \in {"completed", "failed"}
    /\ pc \in {"postReceipt", "postIssue", "postState", "postFailed"} =>
          PostflightGate(cur, seen.c)
    /\ pc = "postReceipt" =>
          /\ Len(log[cur]) > 0
          /\ log[cur][Len(log[cur])] \in
                [type : {"postflight_assertions_ok"}, body : Assertions]
    /\ pc \in {"postIssue", "postState"} => receipt[cur] \in Receipts
    /\ pc \in {"abandonPrompt", "abandonState"} => Recoverable(cur)

Inv == TypeOK /\ StepShape

-----------------------------------------------------------------------------
\* Recording an event appends it to the log of the run in flight only.
LEMMA RecordTyped ==
    ASSUME TypeOK, cur \in Runs, NEW t, NEW b, Record(t, b),
           [type |-> t, body |-> b] \in Events
    PROVE  /\ log' \in [Runs -> Seq(Events)]
           /\ Len(log'[cur]) = Len(log[cur]) + 1
           /\ log'[cur][Len(log[cur]) + 1] = [type |-> t, body |-> b]
           /\ \A i \in 1..Len(log[cur]) : log'[cur][i] = log[cur][i]
           /\ \A r \in Runs \ {cur} : log'[r] = log[r]
  BY DEF TypeOK, Record

-----------------------------------------------------------------------------
(* Type correctness.                                                       *)

LEMMA InitTyped == Init => TypeOK
<1> SUFFICES ASSUME Init PROVE TypeOK
  OBVIOUS
<1>1. (CHOOSE c \in Contracts : TRUE) \in Contracts
  BY NonEmptyAssumption
<1>2. (CHOOSE s \in Sources : TRUE) \in Sources
  BY NonEmptyAssumption
<1> QED
  BY <1>1, <1>2 DEF Init, TypeOK, Phases, Results, Exits, StepsWithLocals

LEMMA ApproveTyped ==
    ASSUME TypeOK, StepShape, Approve PROVE TypeOK'
<1> USE NatAssumption DEF TypeOK, StepsWithLocals, Steps, history, opVars, stateVars
<1>1. ASSUME NEW s \in Sources, ApproveConfirm(s) PROVE TypeOK'
  <2>1. [c |-> seen.c, s |-> seen.s, exp |-> now + TTL, at |-> Len(log[cur]),
         chan |-> "local_tty_approve"] \in ApprovalDocs
    BY <1>1 DEF ApproveConfirm, Continue, Locals, ApprovalDocs, Channels
  <2> QED
    BY <1>1, <2>1 DEF ApproveConfirm, WriteApproval, Continue
<1>2. ASSUME ApproveEvent PROVE TypeOK'
  <2>1. [type |-> "approval", body |-> approval[cur]] \in Events
    BY <1>2 DEF ApproveEvent, Continue, StepShape, Events
  <2> QED
    BY <1>2, <2>1, RecordTyped DEF ApproveEvent, Continue
<1>3. ASSUME ApproveState PROVE TypeOK'
  BY <1>3 DEF ApproveState, SetPhase, SetProvenance, Finish, Phases, Locals
<1> QED
  BY <1>1, <1>2, <1>3 DEF Approve

LEMMA PreflightTyped ==
    ASSUME TypeOK, StepShape, Preflight PROVE TypeOK'
<1> USE DEF TypeOK, StepsWithLocals, Steps, history, opVars, stateVars
<1>1. ASSUME PreflightEvent PROVE TypeOK'
  <2>1. [type |-> "preflight_ok", body |-> [c |-> seen.c, s |-> seen.s]] \in Events
    BY <1>1 DEF PreflightEvent, Continue, Events, Locals, Provenance
  <2> QED
    BY <1>1, <2>1, RecordTyped DEF PreflightEvent, Continue
<1>2. ASSUME PreflightState PROVE TypeOK'
  BY <1>2 DEF PreflightState, SetPhase, SetProvenance, Finish, Phases, Locals
<1> QED
  BY <1>1, <1>2 DEF Preflight

LEMMA RunTyped ==
    ASSUME TypeOK, StepShape, Run PROVE TypeOK'
<1> USE DEF TypeOK, StepsWithLocals, Steps, history, opVars, stateVars, diskVars
<1>1. ASSUME RunCheck PROVE TypeOK'
  BY <1>1 DEF RunCheck, Continue
<1>2. ASSUME RunStartEvent PROVE TypeOK'
  <2>1. [type |-> "run_start", body |-> [c |-> seen.c, s |-> seen.s]] \in Events
    BY <1>2 DEF RunStartEvent, Continue, Events, Locals, Provenance
  <2> QED
    BY <1>2, <2>1, RecordTyped DEF RunStartEvent, Continue
<1>3. ASSUME RunState PROVE TypeOK'
  BY <1>3 DEF RunState, SetPhase, SetProvenance, Phases, Locals
<1>4. ASSUME RunSpawn PROVE TypeOK'
  BY <1>4 DEF RunSpawn, Continue
<1>5. ASSUME RunEvent PROVE TypeOK'
  <2>1. [type |-> "run_ended", body |-> [result |-> result[cur]]] \in Events
    BY <1>5 DEF RunEvent, Events, Outcomes
  <2> QED
    BY <1>5, <2>1, RecordTyped DEF RunEvent, Finish
<1>6. ASSUME RunUnconfirmed PROVE TypeOK'
  BY <1>6 DEF RunUnconfirmed, Continue
<1>7. ASSUME RetainEvent PROVE TypeOK'
  <2>1. [type |-> "cleanup_pending", body |-> [result |-> result[cur]]] \in Events
    BY <1>7 DEF RetainEvent, Continue, Events, Outcomes
  <2> QED
    BY <1>7, <2>1, RecordTyped DEF RetainEvent, Continue
<1>8. ASSUME ConfirmEvent PROVE TypeOK'
  <2>1. [type |-> "cleanup_confirmed", body |-> [result |-> result[cur]]] \in Events
    BY <1>8 DEF ConfirmEvent, Events, Outcomes
  <2> QED
    BY <1>8, <2>1, RecordTyped DEF ConfirmEvent, Finish
<1>9. ASSUME NEW v \in {"failed", "interrupted"},
             RunSpawnFails(v) \/ RetainState(v) \/ RetainConfirmed(v)
      PROVE  TypeOK'
  <2>1. CASE RunSpawnFails(v)
    BY <2>1 DEF RunSpawnFails, Continue, SetPhase, SetResult, Phases, Results
  <2>2. CASE RetainState(v)
    BY <2>2 DEF RetainState, Continue, SetPhase, SetResult, Phases, Results
  <2>3. CASE RetainConfirmed(v)
    BY <2>3 DEF RetainConfirmed, Continue, Finish, SetPhase, SetResult, Phases, Results
  <2> QED
    BY <1>9, <2>1, <2>2, <2>3
<1>10. ASSUME NEW v \in {"completed", "timeout", "failed", "interrupted"},
              NEW e \in {"ok", "bad"}, RunEnds(v, e)
       PROVE  TypeOK'
  BY <1>10 DEF RunEnds, Continue, SetPhase, SetResult, Phases, Results, Exits
<1> QED
  BY <1>1, <1>2, <1>3, <1>4, <1>5, <1>6, <1>7, <1>8, <1>9, <1>10 DEF Run

\* The receipt postflight writes is a receipt: its output digests are those of
\* the assertions event just appended.
LEMMA ReceiptBuilt ==
    ASSUME TypeOK, StepShape, PostflightReceipt
    PROVE  /\ receipt' \in [Runs -> Receipts \cup {NoReceipt}]
           /\ receipt'[cur] \in Receipts
<1> USE DEF TypeOK, StepsWithLocals, Steps
<1> DEFINE last == log[cur][Len(log[cur])]
<1>1. last.body.out \in Outputs
  BY DEF PostflightReceipt, Continue, StepShape, Assertions
<1>2. approval[cur] \in ApprovalDocs
  BY DEF PostflightReceipt, Continue, StepShape, PostflightGate
<1>3. [c |-> seen.c, s |-> seen.s, out |-> last.body.out,
       head |-> Len(log[cur]), exp |-> approval[cur].exp,
       chan |-> approval[cur].chan, result |-> result[cur]] \in Receipts
  BY <1>1, <1>2 DEF PostflightReceipt, Continue, Locals, Receipts, ApprovalDocs
<1> QED
  BY <1>3 DEF PostflightReceipt, Continue

LEMMA PostflightTyped ==
    ASSUME TypeOK, StepShape, Postflight PROVE TypeOK'
<1> USE DEF TypeOK, StepsWithLocals, Steps, history, opVars, stateVars
<1>1. ASSUME PostflightFailed PROVE TypeOK'
  BY <1>1 DEF PostflightFailed, SetPhase, Finish, Phases
<1>2. ASSUME PostflightReceipt PROVE TypeOK'
  BY <1>2, ReceiptBuilt DEF PostflightReceipt, Continue
<1>3. ASSUME PostflightIssued PROVE TypeOK'
  <2>1. [type |-> "certificate_issued", body |-> receipt[cur]] \in Events
    BY <1>3 DEF PostflightIssued, Continue, StepShape, Events
  <2> QED
    BY <1>3, <2>1, RecordTyped DEF PostflightIssued, Continue
<1>4. ASSUME PostflightState PROVE TypeOK'
  BY <1>4 DEF PostflightState, SetPhase, SetProvenance, Finish, Phases, Locals
<1> QED
  BY <1>1, <1>2, <1>3, <1>4 DEF Postflight

LEMMA AbandonTyped ==
    ASSUME TypeOK, StepShape, Abandon PROVE TypeOK'
<1> USE DEF TypeOK, StepsWithLocals, Steps, history, opVars, stateVars
<1>1. ASSUME AbandonEvent PROVE TypeOK'
  <2>1. [type |-> "recovery_abandon", body |-> [result |-> "abandoned"]] \in Events
    BY DEF Events, Outcomes, Results
  <2> QED
    BY <1>1, <2>1, RecordTyped DEF AbandonEvent, Continue
<1>2. ASSUME AbandonState PROVE TypeOK'
  BY <1>2 DEF AbandonState, SetPhase, SetResult, Finish, Phases, Results
<1> QED
  BY <1>1, <1>2 DEF Abandon

LEMMA CommandTyped ==
    ASSUME TypeOK, Command PROVE TypeOK'
<1> USE DEF TypeOK, StepsWithLocals, Steps, history, opVars, stateVars, diskVars
<1> SUFFICES ASSUME NEW r \in Runs,
                    \/ AbandonBegin(r)
                    \/ \E c \in Contracts, s \in Sources :
                          \/ ApproveBegin(r, c, s)
                          \/ PreflightBegin(r, c, s)
                          \/ RunBegin(r, c, s)
                          \/ \E o \in Outputs : PostflightAsserts(r, c, s, o)
             PROVE  TypeOK'
  BY DEF Command
<1>1. CASE AbandonBegin(r)
  BY <1>1 DEF AbandonBegin, Begin
<1>2. ASSUME NEW c \in Contracts, NEW s \in Sources,
             ApproveBegin(r, c, s) \/ PreflightBegin(r, c, s) \/ RunBegin(r, c, s)
      PROVE  TypeOK'
  <2>1. Hashed(c, s) \in Locals /\ [c |-> c, s |-> s, ts |-> now] \in Locals
    BY DEF Hashed, Locals
  <2> QED
    BY <1>2, <2>1 DEF ApproveBegin, PreflightBegin, RunBegin, Begin
<1>3. ASSUME NEW c \in Contracts, NEW s \in Sources, NEW o \in Outputs,
             PostflightAsserts(r, c, s, o)
      PROVE  TypeOK'
  <2>1. Hashed(c, s) \in Locals
    BY DEF Hashed, Locals
  <2>2. /\ [type |-> "postflight_assertions_ok",
            body |-> [c |-> c, s |-> s, out |-> o]] \in Events
        /\ [type |-> "postflight_failed", body |-> [result |-> "failed"]] \in Events
    BY DEF Events, Assertions, Outcomes, Results
  <2>3. PICK e \in Events : log' = [log EXCEPT ![r] = Append(@, e)]
    BY <1>3, <2>2 DEF PostflightAsserts
  <2>4. log' \in [Runs -> Seq(Events)]
    BY <2>3
  <2> QED
    BY <1>3, <2>1, <2>4 DEF PostflightAsserts, Begin
<1> QED
  BY <1>1, <1>2, <1>3

LEMMA NextTyped ==
    ASSUME TypeOK, StepShape, [Next]_vars PROVE TypeOK'
<1> USE DEF TypeOK, StepsWithLocals, Steps, history, opVars, stateVars, diskVars
<1>1. CASE Leave
  BY <1>1 DEF Leave, Finish
<1>2. CASE Tick
  BY <1>2 DEF Tick
<1>3. CASE UNCHANGED vars
  BY <1>3 DEF vars
<1> QED
  BY <1>1, <1>2, <1>3, CommandTyped, ApproveTyped, PreflightTyped, RunTyped,
     PostflightTyped, AbandonTyped DEF Next

-----------------------------------------------------------------------------
(* The shape of each step.                                                 *)

LEMMA ApproveShape ==
    ASSUME TypeOK, StepShape, Approve PROVE StepShape'
<1> USE NatAssumption DEF StepShape
<1>1. ASSUME NEW s \in Sources, ApproveConfirm(s) PROVE StepShape'
  <2>1. [c |-> seen.c, s |-> seen.s, exp |-> now + TTL, at |-> Len(log[cur]),
         chan |-> "local_tty_approve"] \in ApprovalDocs
    BY <1>1 DEF ApproveConfirm, Continue, Locals, ApprovalDocs, Channels, TypeOK,
                StepsWithLocals
  <2> QED
    BY <1>1, <2>1 DEF ApproveConfirm, WriteApproval, Continue, stateVars, TypeOK,
                      Approvable
<1>2. ASSUME ApproveEvent PROVE StepShape'
  BY <1>2 DEF ApproveEvent, Continue, stateVars
<1>3. ASSUME ApproveState PROVE StepShape'
  BY <1>3 DEF ApproveState, Finish
<1> QED
  BY <1>1, <1>2, <1>3 DEF Approve

LEMMA PreflightShape ==
    ASSUME TypeOK, StepShape, Preflight PROVE StepShape'
<1> USE DEF StepShape
<1>1. ASSUME PreflightEvent PROVE StepShape'
  BY <1>1 DEF PreflightEvent, Continue, stateVars
<1>2. ASSUME PreflightState PROVE StepShape'
  BY <1>2 DEF PreflightState, Finish
<1> QED
  BY <1>1, <1>2 DEF Preflight

LEMMA RunShape ==
    ASSUME TypeOK, StepShape, Run PROVE StepShape'
<1> USE DEF StepShape, stateVars, diskVars
<1>1. ASSUME RunCheck PROVE StepShape'
  BY <1>1 DEF RunCheck, Continue
<1>2. ASSUME RunStartEvent PROVE StepShape'
  BY <1>2 DEF RunStartEvent, Continue
<1>3. ASSUME RunState PROVE StepShape'
  BY <1>3 DEF RunState, SetPhase, TypeOK, Steps
<1>4. ASSUME RunSpawn PROVE StepShape'
  BY <1>4 DEF RunSpawn, Continue
<1>5. ASSUME RunEvent PROVE StepShape'
  BY <1>5 DEF RunEvent, Finish
<1>6. ASSUME RunUnconfirmed PROVE StepShape'
  BY <1>6 DEF RunUnconfirmed, Continue
<1>7. ASSUME RetainEvent PROVE StepShape'
  BY <1>7 DEF RetainEvent, Continue
<1>8. ASSUME ConfirmEvent PROVE StepShape'
  BY <1>8 DEF ConfirmEvent, Finish
<1>9. ASSUME NEW v \in {"failed", "interrupted"},
             RunSpawnFails(v) \/ RetainState(v) \/ RetainConfirmed(v)
      PROVE  StepShape'
  BY <1>9 DEF RunSpawnFails, RetainState, RetainConfirmed, Continue, Finish,
              SetPhase, TypeOK, Steps
<1>10. ASSUME NEW v \in {"completed", "timeout", "failed", "interrupted"},
              NEW e \in {"ok", "bad"}, RunEnds(v, e)
       PROVE  StepShape'
  BY <1>10 DEF RunEnds, Continue, SetPhase, TypeOK, Steps
<1> QED
  BY <1>1, <1>2, <1>3, <1>4, <1>5, <1>6, <1>7, <1>8, <1>9, <1>10 DEF Run

LEMMA PostflightShape ==
    ASSUME TypeOK, StepShape, Postflight PROVE StepShape'
<1> USE DEF StepShape, stateVars, PostflightGate
<1>1. ASSUME PostflightFailed PROVE StepShape'
  BY <1>1 DEF PostflightFailed, Finish
<1>2. ASSUME PostflightReceipt PROVE StepShape'
  BY <1>2, ReceiptBuilt DEF PostflightReceipt, Continue
<1>3. ASSUME PostflightIssued PROVE StepShape'
  BY <1>3 DEF PostflightIssued, Continue
<1>4. ASSUME PostflightState PROVE StepShape'
  BY <1>4 DEF PostflightState, Finish
<1> QED
  BY <1>1, <1>2, <1>3, <1>4 DEF Postflight

LEMMA AbandonShape ==
    ASSUME TypeOK, StepShape, Abandon PROVE StepShape'
<1> USE DEF StepShape, stateVars, Recoverable
<1>1. ASSUME AbandonEvent PROVE StepShape'
  BY <1>1 DEF AbandonEvent, Continue
<1>2. ASSUME AbandonState PROVE StepShape'
  BY <1>2 DEF AbandonState, Finish
<1> QED
  BY <1>1, <1>2 DEF Abandon

LEMMA CommandShape ==
    ASSUME TypeOK, Command PROVE StepShape'
<1> USE DEF StepShape, stateVars, diskVars, Begin
<1> SUFFICES ASSUME NEW r \in Runs,
                    \/ AbandonBegin(r)
                    \/ \E c \in Contracts, s \in Sources :
                          \/ ApproveBegin(r, c, s)
                          \/ PreflightBegin(r, c, s)
                          \/ RunBegin(r, c, s)
                          \/ \E o \in Outputs : PostflightAsserts(r, c, s, o)
             PROVE  StepShape'
  BY DEF Command
<1>1. CASE AbandonBegin(r)
  BY <1>1 DEF AbandonBegin, Recoverable
<1>2. ASSUME NEW c \in Contracts, NEW s \in Sources,
             ApproveBegin(r, c, s) \/ PreflightBegin(r, c, s)
      PROVE  StepShape'
  BY <1>2 DEF ApproveBegin, PreflightBegin, Approvable
<1>3. ASSUME NEW c \in Contracts, NEW s \in Sources, RunBegin(r, c, s)
      PROVE  StepShape'
  <2>1. phase[r] \in Launchable
    BY <1>3 DEF RunBegin, TypeOK, Phases, Terminal, Launchable
  <2>2. Pred[r][c] # NoRun => phase[Pred[r][c]] = "postflighted"
    BY <1>3 DEF RunBegin, PredecessorOk, ReceiptVerifies
  <2> QED
    BY <1>3, <2>1, <2>2 DEF RunBegin
<1>4. ASSUME NEW c \in Contracts, NEW s \in Sources, NEW o \in Outputs,
             PostflightAsserts(r, c, s, o)
      PROVE  StepShape'
  <2>1. PostflightGate(r, c) /\ seen'.c = c
    BY <1>4 DEF PostflightAsserts, Hashed
  <2>2. PostflightGate(r, c)'
    BY <1>4, <2>1 DEF PostflightAsserts, PostflightGate
  <2>3. [type |-> "postflight_assertions_ok", body |-> [c |-> c, s |-> s, out |-> o]]
            \in [type : {"postflight_assertions_ok"}, body : Assertions]
    BY DEF Assertions
  <2>4. CASE AssertionsHold(r, s, o)
    <3>1. log'[r] = Append(log[r], [type |-> "postflight_assertions_ok",
                                    body |-> [c |-> c, s |-> s, out |-> o]])
      BY <1>4, <2>4 DEF PostflightAsserts, TypeOK
    <3>2. /\ Len(log'[r]) = Len(log[r]) + 1
          /\ log'[r][Len(log[r]) + 1] = [type |-> "postflight_assertions_ok",
                                         body |-> [c |-> c, s |-> s, out |-> o]]
          /\ Len(log[r]) \in Nat
      BY <3>1 DEF TypeOK
    <3>3. pc' = "postReceipt" /\ cur' = r
      BY <1>4, <2>4 DEF PostflightAsserts
    <3> QED
      BY <2>1, <2>2, <2>3, <3>2, <3>3 DEF PostflightGate
  <2>5. CASE ~AssertionsHold(r, s, o)
    <3>1. pc' = "postFailed" /\ cur' = r
      BY <1>4, <2>5 DEF PostflightAsserts
    <3> QED
      BY <2>1, <2>2, <3>1 DEF PostflightGate
  <2> QED
    BY <2>4, <2>5
<1> QED
  BY <1>1, <1>2, <1>3, <1>4

LEMMA NextShape ==
    ASSUME TypeOK, StepShape, [Next]_vars PROVE StepShape'
<1> USE DEF StepShape, stateVars, diskVars, opVars, PostflightGate, Recoverable
<1>1. CASE Leave
  BY <1>1 DEF Leave, Finish
<1>2. CASE Tick
  BY <1>2 DEF Tick
<1>3. CASE UNCHANGED vars
  BY <1>3 DEF vars
<1> QED
  BY <1>1, <1>2, <1>3, NextTyped, CommandShape, ApproveShape, PreflightShape,
     RunShape, PostflightShape, AbandonShape DEF Next

\* At every step of every operation, in every interleaving with crashes, the
\* types hold and the guards the operation began with still stand.
THEOREM StepsGuarded == Spec => []Inv
<1>1. Init => Inv
  BY InitTyped DEF Inv, Init, StepShape
<1>2. Inv /\ [Next]_vars => Inv'
  BY NextTyped, NextShape DEF Inv
<1> QED
  BY <1>1, <1>2, PTL DEF Spec

\* Type correctness of the state the commands leave on disk.
THEOREM TypeCorrect == Spec => []TypeOK
<1>1. Inv => TypeOK
  BY DEF Inv
<1> QED
  BY <1>1, StepsGuarded, PTL

-----------------------------------------------------------------------------
(* A run ID is reused only after an unconfirmed cleanup.                   *)

\* What makes RelaunchOnlyAfterUnconfirmed inductive: a run that may still
\* start, or is about to be spawned, has no launch yet.
LaunchCount ==
    \A r \in Runs : ~unconfirmed[r] =>
        /\ phase[r] # "cleanup_pending"
        /\ launches[r] <= 1
        /\ phase[r] \in Launchable \/ (pc = "runSpawn" /\ cur = r) => launches[r] = 0

LEMMA LaunchCountFrame ==
    ASSUME LaunchCount, UNCHANGED <<phase, launches, unconfirmed>>,
           pc' # "runSpawn" \/ (pc' = pc /\ cur' = cur)
    PROVE  LaunchCount'
  BY DEF LaunchCount

\* A command that begins writes at most an event.
LEMMA CommandFrame ==
    ASSUME Command
    PROVE  /\ UNCHANGED <<stateVars, approval, receipt, history, now>>
           /\ pc' # "runSpawn"
<1> USE DEF diskVars, Begin
<1>1. ASSUME NEW r \in Runs, AbandonBegin(r)
      PROVE  UNCHANGED <<stateVars, approval, receipt, history, now>> /\ pc' # "runSpawn"
  BY <1>1 DEF AbandonBegin
<1>2. ASSUME NEW r \in Runs, NEW c \in Contracts, NEW s \in Sources,
             ApproveBegin(r, c, s) \/ PreflightBegin(r, c, s) \/ RunBegin(r, c, s)
      PROVE  UNCHANGED <<stateVars, approval, receipt, history, now>> /\ pc' # "runSpawn"
  BY <1>2 DEF ApproveBegin, PreflightBegin, RunBegin
<1>3. ASSUME NEW r \in Runs, NEW c \in Contracts, NEW s \in Sources,
             NEW o \in Outputs, PostflightAsserts(r, c, s, o)
      PROVE  UNCHANGED <<stateVars, approval, receipt, history, now>> /\ pc' # "runSpawn"
  BY <1>3 DEF PostflightAsserts
<1> QED
  BY <1>1, <1>2, <1>3 DEF Command

LEMMA LaunchCountNext ==
    ASSUME Inv, LaunchCount, [Next]_vars PROVE LaunchCount'
<1> USE DEF history, opVars, stateVars, diskVars
<1>1. CASE Leave \/ Tick \/ UNCHANGED vars
  BY <1>1, LaunchCountFrame DEF Leave, Finish, Tick, vars
<1>2. CASE Command
  BY <1>2, CommandFrame, LaunchCountFrame
<1>3. CASE Approve
  <2>1. ASSUME NEW s \in Sources, ApproveConfirm(s) PROVE LaunchCount'
    BY <2>1, LaunchCountFrame DEF ApproveConfirm, WriteApproval, Continue
  <2>2. ASSUME ApproveEvent PROVE LaunchCount'
    BY <2>2, LaunchCountFrame DEF ApproveEvent, Continue
  <2>3. ASSUME ApproveState PROVE LaunchCount'
    BY <2>3 DEF ApproveState, Finish, SetPhase, LaunchCount, Inv, TypeOK,
                StepShape, Terminal, Launchable, Phases, Steps
  <2> QED
    BY <1>3, <2>1, <2>2, <2>3 DEF Approve
<1>4. CASE Preflight
  <2>1. ASSUME PreflightEvent PROVE LaunchCount'
    BY <2>1, LaunchCountFrame DEF PreflightEvent, Continue
  <2>2. ASSUME PreflightState PROVE LaunchCount'
    BY <2>2 DEF PreflightState, Finish, SetPhase, LaunchCount, Inv, TypeOK,
                StepShape, Terminal, Launchable, Phases, Steps
  <2> QED
    BY <1>4, <2>1, <2>2 DEF Preflight
<1>5. CASE Run
  <2>1. ASSUME RunCheck \/ RunStartEvent \/ RunEvent \/ RunUnconfirmed
               \/ RetainEvent \/ ConfirmEvent
        PROVE  LaunchCount'
    BY <2>1, LaunchCountFrame DEF RunCheck, RunStartEvent, RunEvent,
       RunUnconfirmed, RetainEvent, ConfirmEvent, Continue, Finish
  <2>2. ASSUME RunState PROVE LaunchCount'
    BY <2>2 DEF RunState, SetPhase, LaunchCount, Inv, TypeOK, StepShape,
                Launchable, Steps
  <2>3. ASSUME RunSpawn PROVE LaunchCount'
    BY <2>3 DEF RunSpawn, Continue, LaunchCount, Inv, TypeOK, StepShape,
                Launchable, Steps
  <2>4. ASSUME NEW v \in {"failed", "interrupted"},
               RunSpawnFails(v) \/ RetainState(v) \/ RetainConfirmed(v)
        PROVE  LaunchCount'
    BY <2>4 DEF RunSpawnFails, RetainState, RetainConfirmed, Continue, Finish,
                SetPhase, LaunchCount, Inv, TypeOK, Launchable, Steps
  <2>5. ASSUME NEW v \in {"completed", "timeout", "failed", "interrupted"},
               NEW e \in {"ok", "bad"}, RunEnds(v, e)
        PROVE  LaunchCount'
    BY <2>5 DEF RunEnds, Continue, SetPhase, LaunchCount, Inv, TypeOK,
                Launchable, Steps
  <2> QED
    BY <1>5, <2>1, <2>2, <2>3, <2>4, <2>5 DEF Run
<1>6. CASE Postflight
  BY <1>6 DEF Postflight, PostflightFailed, PostflightReceipt, PostflightIssued,
     PostflightState, Continue, Finish, SetPhase, LaunchCount, Inv, TypeOK,
     Launchable, Steps
<1>7. CASE Abandon
  BY <1>7 DEF Abandon, AbandonEvent, AbandonState, Continue, Finish, SetPhase,
     LaunchCount, Inv, TypeOK, Launchable, Steps
<1> QED
  BY <1>1, <1>2, <1>3, <1>4, <1>5, <1>6, <1>7 DEF Next

\* However often a run is approved, crashes and is started again, its payload
\* is spawned once, unless state.json once recorded an unconfirmed cleanup.
THEOREM RelaunchTheorem == Spec => []RelaunchOnlyAfterUnconfirmed
<1>1. Init => LaunchCount
  BY DEF Init, LaunchCount
<1>2. Inv /\ LaunchCount /\ [Next]_vars => LaunchCount'
  BY LaunchCountNext
<1>3. Inv /\ LaunchCount => RelaunchOnlyAfterUnconfirmed
  BY DEF LaunchCount, RelaunchOnlyAfterUnconfirmed, Inv, TypeOK
<1> QED
  BY <1>1, <1>2, <1>3, StepsGuarded, PTL DEF Spec

-----------------------------------------------------------------------------
(* A certified or abandoned run is closed.                                 *)

Untouched(r) == /\ phase'[r] = phase[r] /\ receipt'[r] = receipt[r]
                /\ approval'[r] = approval[r] /\ log'[r] = log[r]

LEMMA ClosedStep ==
    ASSUME Inv, [Next]_vars, NEW r \in Runs,
           phase[r] \in {"postflighted", "abandoned"}
    PROVE  Untouched(r)
<1> USE DEF Untouched, Inv, TypeOK, StepShape, Terminal, Recoverable, Launchable,
            PostflightGate, history, opVars, stateVars, diskVars, Record,
            SetPhase, Continue, Finish, Steps
<1>1. CASE Leave \/ Tick \/ UNCHANGED vars
  BY <1>1 DEF Leave, Tick, vars
<1>2. CASE Command
  <2>1. ASSUME NEW q \in Runs, NEW c \in Contracts, NEW s \in Sources,
               NEW o \in Outputs, PostflightAsserts(q, c, s, o)
        PROVE  Untouched(r)
    BY <2>1 DEF PostflightAsserts
  <2>2. ASSUME NEW q \in Runs, NEW c \in Contracts, NEW s \in Sources,
               ApproveBegin(q, c, s) \/ PreflightBegin(q, c, s) \/ RunBegin(q, c, s)
        PROVE  Untouched(r)
    BY <2>2 DEF ApproveBegin, PreflightBegin, RunBegin
  <2>3. ASSUME NEW q \in Runs, AbandonBegin(q) PROVE Untouched(r)
    BY <2>3 DEF AbandonBegin
  <2> QED
    BY <1>2, <2>1, <2>2, <2>3 DEF Command
<1>3. CASE Approve
  BY <1>3 DEF Approve, ApproveConfirm, WriteApproval, Approvable, ApproveEvent,
     ApproveState
<1>4. CASE Preflight
  BY <1>4 DEF Preflight, PreflightEvent, PreflightState
<1>5. CASE Run
  BY <1>5 DEF Run, RunCheck, RunStartEvent, RunState, RunSpawn, RunEvent,
     RunUnconfirmed, RetainEvent, ConfirmEvent, RunSpawnFails, RetainState,
     RetainConfirmed, RunEnds
<1>6. CASE Postflight
  BY <1>6 DEF Postflight, PostflightFailed, PostflightReceipt, PostflightIssued,
     PostflightState
<1>7. CASE Abandon
  BY <1>7 DEF Abandon, AbandonEvent, AbandonState
<1> QED
  BY <1>1, <1>2, <1>3, <1>4, <1>5, <1>6, <1>7 DEF Next

\* No operation, not even one begun before, changes a closed run.
THEOREM ClosedTheorem == Spec => ClosedIsFinal
<1>1. Inv /\ [Next]_vars =>
        [\A r \in Runs : phase[r] \in {"postflighted", "abandoned"} =>
             Untouched(r)]_vars
  BY ClosedStep
<1> QED
  BY <1>1, StepsGuarded, PTL DEF Spec, ClosedIsFinal, Untouched

-----------------------------------------------------------------------------
(* The lifecycle implements RunFate.                                       *)

fates == [r \in Runs |-> FateOf(r)]

LEMMA FateStays ==
    ASSUME UNCHANGED <<phase, result>> PROVE UNCHANGED fates
  BY DEF fates, FateOf

\* A step that writes only the state of r moves only the fate of r.
LEMMA FateMoves ==
    ASSUME NEW r \in Runs, NEW from, NEW to, FateOf(r) \in from, FateOf(r)' = to,
           \A q \in Runs \ {r} : phase'[q] = phase[q] /\ result'[q] = result[q]
    PROVE  Fate!Move(r, from, to)
<1>1. \A q \in Runs \ {r} : FateOf(q)' = FateOf(q)
  BY DEF FateOf
<1>2. fates' = [fates EXCEPT ![r] = to]
  BY <1>1 DEF fates
<1> QED
  BY <1>2 DEF fates, Fate!Move

LEMMA FateNext ==
    ASSUME Inv, [Next]_vars PROVE [Fate!Next]_fates
<1> USE DEF history, opVars, stateVars, diskVars, Continue
<1> DEFINE Other(r) == \A q \in Runs \ {r} : phase'[q] = phase[q] /\ result'[q] = result[q]
<1>1. CASE Leave \/ Tick \/ UNCHANGED vars
  BY <1>1, FateStays DEF Leave, Tick, vars
<1>2. CASE Command
  BY <1>2, CommandFrame, FateStays
<1>3. CASE Approve \/ Preflight
  <2>1. ASSUME NEW s \in Sources, ApproveConfirm(s) PROVE UNCHANGED fates
    BY <2>1, FateStays DEF ApproveConfirm, WriteApproval
  <2>2. ASSUME ApproveEvent \/ PreflightEvent PROVE UNCHANGED fates
    BY <2>2, FateStays DEF ApproveEvent, PreflightEvent
  <2>3. ASSUME ApproveState \/ PreflightState PROVE UNCHANGED fates
    BY <2>3 DEF ApproveState, PreflightState, SetPhase, fates, FateOf, Inv, TypeOK,
                StepShape, Terminal, Phases, Steps
  <2> QED
    BY <1>3, <2>1, <2>2, <2>3 DEF Approve, Preflight
<1>4. CASE Run
  <2>1. ASSUME RunCheck \/ RunStartEvent \/ RunSpawn \/ RunEvent \/ RunUnconfirmed
               \/ RetainEvent \/ ConfirmEvent
        PROVE  UNCHANGED fates
    BY <2>1, FateStays DEF RunCheck, RunStartEvent, RunSpawn, RunEvent,
       RunUnconfirmed, RetainEvent, ConfirmEvent
  <2>2. ASSUME RunState PROVE Fate!Next
    <3>1. PICK r \in Runs : r = cur
      BY <2>2 DEF RunState, Inv, TypeOK
    <3>2. PICK c \in Contracts : c = seen.c
      BY <2>2 DEF RunState, Inv, TypeOK, StepsWithLocals, Locals
    <3>3. FateOf(r) \in {"open"} /\ FateOf(r)' = "spent" /\ Other(r)
      BY <2>2, <3>1 DEF RunState, SetPhase, Inv, TypeOK, StepShape, Launchable, FateOf
    <3>4. Pred[r][c] # NoRun => fates[Pred[r][c]] = "certified"
      BY <2>2, <3>1, <3>2, PredAssumption
         DEF RunState, Inv, StepShape, fates, FateOf
    <3> QED
      BY <3>3, <3>4, FateMoves DEF fates, Fate!Next, Fate!Launch
  <2>3. ASSUME NEW v \in {"failed", "interrupted"}, RunSpawnFails(v) PROVE Fate!Next
    <3>1. PICK r \in Runs : r = cur
      BY <2>3 DEF RunSpawnFails, Inv, TypeOK
    <3>2. FateOf(r) \in {"open", "spent"} /\ FateOf(r)' = "burnt" /\ Other(r)
      BY <2>3, <3>1 DEF RunSpawnFails, SetPhase, SetResult, Inv, TypeOK, StepShape, FateOf
    <3> QED
      BY <3>2, FateMoves DEF Fate!Next, Fate!Burn
  <2>4. ASSUME NEW v \in {"failed", "interrupted"}, RetainState(v) PROVE Fate!Next
    <3>1. PICK r \in Runs : r = cur
      BY <2>4 DEF RetainState, Inv, TypeOK
    <3>2. FateOf(r) \in {"spent"} /\ FateOf(r)' = "open" /\ Other(r)
      BY <2>4, <3>1 DEF RetainState, SetPhase, SetResult, Inv, TypeOK, StepShape, FateOf
    <3> QED
      BY <3>2, FateMoves DEF Fate!Next, Fate!Unresolve
  <2>5. ASSUME NEW v \in {"failed", "interrupted"}, RetainConfirmed(v) PROVE Fate!Next
    <3>1. PICK r \in Runs : r = cur
      BY <2>5 DEF RetainConfirmed, Inv, TypeOK
    <3>2. FateOf(r) \in {"open", "spent"} /\ FateOf(r)' = "burnt" /\ Other(r)
      BY <2>5, <3>1 DEF RetainConfirmed, SetPhase, SetResult, Inv, TypeOK, StepShape, FateOf
    <3> QED
      BY <3>2, FateMoves DEF Fate!Next, Fate!Burn
  <2>6. ASSUME NEW v \in {"completed", "timeout", "failed", "interrupted"},
               NEW e \in {"ok", "bad"}, RunEnds(v, e)
        PROVE  Fate!Next
    <3>1. PICK r \in Runs : r = cur
      BY <2>6 DEF RunEnds, Inv, TypeOK
    <3>2. FateOf(r) = "spent" /\ Other(r)
      BY <2>6, <3>1 DEF RunEnds, SetPhase, SetResult, Inv, TypeOK, StepShape, FateOf
    <3>3. FateOf(r)' = IF v = "completed" THEN "judgeable" ELSE "burnt"
      BY <2>6, <3>1 DEF RunEnds, SetPhase, SetResult, Inv, TypeOK, FateOf
    <3>4. CASE v = "completed"
      BY <3>2, <3>3, <3>4, FateMoves DEF Fate!Next, Fate!Complete
    <3>5. CASE v # "completed"
      BY <3>2, <3>3, <3>5, FateMoves DEF Fate!Next, Fate!Burn
    <3> QED
      BY <3>4, <3>5
  <2> QED
    BY <1>4, <2>1, <2>2, <2>3, <2>4, <2>5, <2>6 DEF Run
<1>5. CASE Postflight
  <2>1. ASSUME PostflightFailed PROVE UNCHANGED fates
    <3>1. cur \in Runs /\ PostflightGate(cur, seen.c)
      BY <2>1 DEF PostflightFailed, Inv, TypeOK, StepShape
    <3>2. FateOf(cur) = "judgeable"
      BY <3>1 DEF PostflightGate, FateOf
    <3>3. \A r \in Runs : /\ phase'[r] = IF r = cur THEN "failed" ELSE phase[r]
                         /\ result'[r] = result[r]
      BY <2>1, <3>1 DEF PostflightFailed, SetPhase, Inv, TypeOK
    <3>4. \A r \in Runs : FateOf(r)' = FateOf(r)
      BY <3>1, <3>2, <3>3 DEF FateOf, PostflightGate
    <3> QED
      BY <3>4 DEF fates
  <2>2. ASSUME PostflightReceipt \/ PostflightIssued PROVE UNCHANGED fates
    BY <2>2, FateStays DEF PostflightReceipt, PostflightIssued
  <2>3. ASSUME PostflightState PROVE Fate!Next
    <3>1. PICK r \in Runs : r = cur
      BY <2>3 DEF PostflightState, Inv, TypeOK
    <3>2. FateOf(r) \in {"judgeable"} /\ FateOf(r)' = "certified" /\ Other(r)
      BY <2>3, <3>1 DEF PostflightState, SetPhase, Inv, TypeOK, StepShape,
                        PostflightGate, FateOf
    <3> QED
      BY <3>2, FateMoves DEF Fate!Next, Fate!Certify
  <2> QED
    BY <1>5, <2>1, <2>2, <2>3 DEF Postflight
<1>6. CASE Abandon
  <2>1. ASSUME AbandonEvent PROVE UNCHANGED fates
    BY <2>1, FateStays DEF AbandonEvent
  <2>2. ASSUME AbandonState PROVE Fate!Next
    <3>1. PICK r \in Runs : r = cur
      BY <2>2 DEF AbandonState, Inv, TypeOK
    <3>2. FateOf(r) \in {"open", "spent"} /\ FateOf(r)' = "burnt" /\ Other(r)
      BY <2>2, <3>1 DEF AbandonState, SetPhase, SetResult, Inv, TypeOK, StepShape,
                        Recoverable, FateOf
    <3> QED
      BY <3>2, FateMoves DEF Fate!Next, Fate!Burn
  <2> QED
    BY <1>6, <2>1, <2>2 DEF Abandon
<1> QED
  BY <1>1, <1>2, <1>3, <1>4, <1>5, <1>6 DEF Next

\* Refinement: seen through FateOf, the commands and their crashes are the
\* moves of RunFate: launches wait for a certified predecessor, burnt and
\* certified are final, only a completed run is certified.
THEOREM FateTheorem == Spec => ImplementsFate
<1>1. Init => Fate!Init
  BY DEF Init, Fate!Init, FateOf
<1>2. Inv /\ [Next]_vars => [Fate!Next]_fates
  BY FateNext
<1> QED
  BY <1>1, <1>2, StepsGuarded, PTL DEF Spec, ImplementsFate, Fate!Spec, fates

-----------------------------------------------------------------------------
(* The log of a run grows by one event at a time.                          *)

Grows(r, e) == log'[r] = Append(log[r], e)

\* Only run appends a run_start or a run_ended, with the result it recorded; only
\* approve appends an approval and only recover an abandonment.
Step(r, e) ==
    /\ Grows(r, e)
    /\ e.type = "run_start" => RunStartEvent /\ r = cur
    /\ e.type = "approval" => ApproveEvent /\ r = cur
    /\ e.type = "run_ended" => RunEvent /\ r = cur /\ e.body.result = result[cur]
    /\ e.type = "recovery_abandon" => AbandonEvent /\ r = cur

LEMMA RecordStep ==
    ASSUME Inv, cur \in Runs, NEW t, NEW b, Record(t, b), NEW r \in Runs,
           t = "run_start" => RunStartEvent, t = "approval" => ApproveEvent,
           t = "run_ended" => RunEvent /\ b.result = result[cur],
           t = "recovery_abandon" => AbandonEvent
    PROVE  log'[r] = log[r] \/ \E e : Step(r, e)
<1> DEFINE e == [type |-> t, body |-> b]
<1>1. CASE r = cur
  <2>1. Step(r, e)
    BY <1>1 DEF Record, Step, Grows, Inv, TypeOK
  <2> QED
    BY <2>1
<1>2. CASE r # cur
  BY <1>2 DEF Record, Inv, TypeOK
<1> QED
  BY <1>1, <1>2

LEMMA LogStep ==
    ASSUME Inv, [Next]_vars, NEW r \in Runs
    PROVE  log'[r] = log[r] \/ \E e : Step(r, e)
<1> USE DEF history, opVars, stateVars, diskVars, Continue
<1>1. CASE Leave \/ Tick \/ UNCHANGED vars
  BY <1>1 DEF Leave, Tick, vars
<1>2. CASE Command
  <2>1. ASSUME NEW q \in Runs, NEW c \in Contracts, NEW s \in Sources,
               NEW o \in Outputs, PostflightAsserts(q, c, s, o)
        PROVE  log'[r] = log[r] \/ \E e : Step(r, e)
    <3>1. PICK e : /\ e.type \notin {"run_start", "approval", "run_ended", "recovery_abandon"}
                   /\ log' = [log EXCEPT ![q] = Append(@, e)]
      BY <2>1 DEF PostflightAsserts
    <3> QED
      BY <3>1 DEF Step, Grows, Inv, TypeOK
  <2>2. ASSUME NEW q \in Runs, NEW c \in Contracts, NEW s \in Sources,
               ApproveBegin(q, c, s) \/ PreflightBegin(q, c, s) \/ RunBegin(q, c, s)
        PROVE  log'[r] = log[r]
    BY <2>2 DEF ApproveBegin, PreflightBegin, RunBegin
  <2>3. ASSUME NEW q \in Runs, AbandonBegin(q) PROVE log'[r] = log[r]
    BY <2>3 DEF AbandonBegin
  <2> QED
    BY <1>2, <2>1, <2>2, <2>3 DEF Command
<1>3. CASE Approve
  <2>1. CASE ApproveEvent
    <3>1. cur \in Runs
      BY <2>1 DEF ApproveEvent, Inv, TypeOK
    <3> QED
      BY <2>1, <3>1, RecordStep DEF ApproveEvent
  <2> QED
    BY <1>3, <2>1 DEF Approve, ApproveConfirm, WriteApproval, ApproveState
<1>4. CASE Preflight
  <2>1. CASE PreflightEvent
    <3>1. cur \in Runs
      BY <2>1 DEF PreflightEvent, Inv, TypeOK
    <3> QED
      BY <2>1, <3>1, RecordStep DEF PreflightEvent
  <2> QED
    BY <1>4, <2>1 DEF Preflight, PreflightState
<1>5. CASE Run
  <2>1. CASE RunStartEvent \/ RunEvent \/ RetainEvent \/ ConfirmEvent
    <3>1. cur \in Runs
      BY <2>1 DEF RunStartEvent, RunEvent, RetainEvent, ConfirmEvent, Inv, TypeOK
    <3> QED
      BY <2>1, <3>1, RecordStep DEF RunStartEvent, RunEvent, RetainEvent, ConfirmEvent
  <2> QED
    BY <1>5, <2>1 DEF Run, RunCheck, RunState, RunSpawn, RunUnconfirmed,
       RunSpawnFails, RetainState, RetainConfirmed, RunEnds
<1>6. CASE Postflight
  <2>1. CASE PostflightIssued
    <3>1. cur \in Runs
      BY <2>1 DEF PostflightIssued, Inv, TypeOK
    <3> QED
      BY <2>1, <3>1, RecordStep DEF PostflightIssued
  <2> QED
    BY <1>6, <2>1 DEF Postflight, PostflightFailed, PostflightReceipt, PostflightState
<1>7. CASE Abandon
  <2>1. CASE AbandonEvent
    <3>1. cur \in Runs
      BY <2>1 DEF AbandonEvent, Inv, TypeOK
    <3> QED
      BY <2>1, <3>1, RecordStep DEF AbandonEvent
  <2> QED
    BY <1>7, <2>1 DEF Abandon, AbandonState
<1> QED
  BY <1>1, <1>2, <1>3, <1>4, <1>5, <1>6, <1>7 DEF Next

-----------------------------------------------------------------------------
(* Every run_start of the log follows its approval.                        *)

Logged == log \in [Runs -> Seq(Events)]

LEMMA LogTyped == Inv => Logged
  BY DEF Inv, TypeOK, Logged

\* What an appended event leaves as it was.
LEMMA GrowsKeeps ==
    ASSUME Logged, NEW r \in Runs, NEW e, Grows(r, e)
    PROVE  /\ Len(log[r]) \in Nat
           /\ DOMAIN log[r] = 1..Len(log[r])
           /\ DOMAIN log'[r] = 1..(Len(log[r]) + 1)
           /\ \A i \in 1..Len(log[r]) : log'[r][i] = log[r][i]
           /\ log'[r][Len(log[r]) + 1] = e
  BY DEF Grows, Logged

Approved(r, i) ==
    \E j \in 1..(i - 1) :
        /\ log[r][j].type = "approval"
        /\ log[r][j].body.c = log[r][i].body.c
        /\ log[r][j].body.s = log[r][i].body.s
        /\ \A k \in (j + 1)..(i - 1) : log[r][k].type # "approval"

\* Nothing appended later comes between an event and the approval before it.
LEMMA ApprovedKept ==
    ASSUME Logged, NEW r \in Runs, NEW e, Grows(r, e), NEW i \in DOMAIN log[r],
           Approved(r, i)
    PROVE  Approved(r, i)'
<1> DEFINE n == Len(log[r])
<1>1. n \in Nat /\ i \in 1..n /\ \A k \in 1..n : log'[r][k] = log[r][k]
  BY GrowsKeeps
<1> HIDE DEF n
<1>2. PICK j \in 1..(i - 1) :
          /\ log[r][j].type = "approval"
          /\ log[r][j].body.c = log[r][i].body.c
          /\ log[r][j].body.s = log[r][i].body.s
          /\ \A k \in (j + 1)..(i - 1) : log[r][k].type # "approval"
  BY DEF Approved
<1>3. \A k \in 1..i : log'[r][k] = log[r][k]
  BY <1>1
<1>4. \A k \in (j + 1)..(i - 1) : k \in 1..i
  BY <1>1
<1>5. j \in 1..i /\ i \in 1..i
  BY <1>1
<1> QED
  BY <1>2, <1>3, <1>4, <1>5 DEF Approved

LEMMA StartsNext ==
    ASSUME Inv, RunStartsApproved, [Next]_vars PROVE RunStartsApproved'
<1> SUFFICES ASSUME NEW r \in Runs, NEW i \in DOMAIN log'[r],
                    log'[r][i].type = "run_start"
             PROVE  Approved(r, i)'
  BY DEF RunStartsApproved, Approved
<1>1. CASE log'[r] = log[r]
  BY <1>1 DEF RunStartsApproved, Approved
<1>2. ASSUME NEW e, Step(r, e) PROVE Approved(r, i)'
  <2> DEFINE n == Len(log[r])
  <2>0. /\ n \in Nat /\ DOMAIN log[r] = 1..n /\ i \in 1..(n + 1)
        /\ \A k \in 1..n : log'[r][k] = log[r][k]
        /\ log'[r][n + 1] = e
    BY <1>2, GrowsKeeps, LogTyped DEF Step
  <2> HIDE DEF n
  <2>1. CASE i \in 1..n
    <3>1. i \in DOMAIN log[r] /\ log[r][i].type = "run_start"
      BY <2>0, <2>1
    <3>2. Approved(r, i)
      BY <3>1 DEF RunStartsApproved, Approved
    <3> QED
      BY <1>2, <3>1, <3>2, ApprovedKept, LogTyped DEF Step
  <2>2. CASE i = n + 1
    <3>1. e.type = "run_start"
      BY <2>0, <2>2
    <3>2. r = cur /\ RunStartEvent
      BY <1>2, <3>1 DEF Step
    <3>3. log'[r][i].body = [c |-> seen.c, s |-> seen.s]
      BY <2>0, <2>2, <3>2 DEF RunStartEvent, Record, Inv, TypeOK, n
    <3>4. /\ approval[r].c = seen.c /\ approval[r].s = seen.s
          /\ MatchesLatestEvent(r)
      BY <3>2 DEF RunStartEvent, ApprovalValid
    <3>5. PICK j \in 1..n :
              /\ log[r][j].type = "approval"
              /\ log[r][j].body = approval[r]
              /\ \A k \in 1..n : log[r][k].type = "approval" => k <= j
      BY <2>0, <3>4 DEF MatchesLatestEvent
    <3>6. i - 1 = n /\ j \in 1..(i - 1)
      BY <2>0, <2>2
    <3>7. \A k \in (j + 1)..n : k \in 1..n /\ ~(k <= j)
      BY <2>0
    <3>8. \A k \in (j + 1)..n : log'[r][k].type # "approval"
      BY <2>0, <3>5, <3>7
    <3> QED
      BY <2>0, <3>3, <3>4, <3>5, <3>6, <3>8 DEF Approved
  <2> QED
    BY <2>0, <2>1, <2>2
<1> QED
  BY <1>1, <1>2, LogStep

\* The log alone proves it: no run starts without an approval event, the latest
\* one before it, for the same contract and source.
THEOREM StartsTheorem == Spec => []RunStartsApproved
<1>1. Init => RunStartsApproved
  BY DEF Init, RunStartsApproved
<1>2. Inv /\ RunStartsApproved /\ [Next]_vars => RunStartsApproved'
  BY StartsNext
<1> QED
  BY <1>1, <1>2, StepsGuarded, PTL DEF Spec

-----------------------------------------------------------------------------
(* The state a launched run is left in answers for its launch.             *)

\* The runs whose approval.json is the latest approval event of their log.
Matched == {r \in Runs : MatchesLatestEvent(r)}

\* An event that is no approval leaves the latest approval event where it was.
LEMMA MatchKept ==
    ASSUME Logged, NEW r \in Runs, approval'[r] = approval[r], r \in Matched,
           \/ log'[r] = log[r]
           \/ \E e : Grows(r, e) /\ e.type # "approval"
    PROVE  r \in Matched'
<1>1. PICK i \in DOMAIN log[r] :
          /\ log[r][i].type = "approval"
          /\ log[r][i].body = approval[r]
          /\ \A j \in DOMAIN log[r] : log[r][j].type = "approval" => j <= i
  BY DEF Matched, MatchesLatestEvent
<1>2. CASE log'[r] = log[r]
  BY <1>1, <1>2 DEF Matched, MatchesLatestEvent
<1>3. ASSUME NEW e, Grows(r, e), e.type # "approval" PROVE r \in Matched'
  <2> DEFINE n == Len(log[r])
  <2>1. /\ n \in Nat /\ DOMAIN log[r] = 1..n /\ DOMAIN log'[r] = 1..(n + 1)
        /\ \A k \in 1..n : log'[r][k] = log[r][k]
        /\ log'[r][n + 1] = e
    BY <1>3, GrowsKeeps
  <2> HIDE DEF n
  <2>2. \A j \in DOMAIN log'[r] : log'[r][j].type = "approval" => j \in 1..n
    BY <1>3, <2>1
  <2>3. /\ i \in DOMAIN log'[r]
        /\ log'[r][i].type = "approval"
        /\ log'[r][i].body = approval'[r]
        /\ \A j \in DOMAIN log'[r] : log'[r][j].type = "approval" => j <= i
    BY <1>1, <2>1, <2>2
  <2> QED
    BY <2>3 DEF Matched, MatchesLatestEvent
<1> QED
  BY <1>2, <1>3

Kept(r) ==
    /\ approval'[r] = approval[r]
    /\ r \in Matched => r \in Matched'

\* Only approve replaces an approval document or outdates it in the log.
LEMMA ApprovalKept ==
    ASSUME Inv, [Next]_vars, NEW r \in Runs,
           r # cur \/ pc \notin {"approvePrompt", "approveEvent"}
    PROVE  Kept(r)
<1> USE DEF stateVars, diskVars
<1>1. approval'[r] = approval[r]
  <2>1. CASE Command
    <3>1. ASSUME NEW q \in Runs, NEW c \in Contracts, NEW s \in Sources,
                 NEW o \in Outputs, PostflightAsserts(q, c, s, o)
          PROVE  approval' = approval
      BY <3>1 DEF PostflightAsserts
    <3>2. ASSUME NEW q \in Runs, NEW c \in Contracts, NEW s \in Sources,
                 ApproveBegin(q, c, s) \/ PreflightBegin(q, c, s) \/ RunBegin(q, c, s)
          PROVE  approval' = approval
      BY <3>2 DEF ApproveBegin, PreflightBegin, RunBegin
    <3>3. ASSUME NEW q \in Runs, AbandonBegin(q) PROVE approval' = approval
      BY <3>3 DEF AbandonBegin
    <3> QED
      BY <2>1, <3>1, <3>2, <3>3 DEF Command
  <2>2. CASE Approve
    BY <2>2 DEF Approve, ApproveConfirm, WriteApproval, ApproveEvent,
                ApproveState, Continue, Inv, TypeOK
  <2>3. CASE Run
    BY <2>3 DEF Run, RunCheck, RunStartEvent, RunState, RunSpawn, RunEvent,
       RunUnconfirmed, RetainEvent, ConfirmEvent, RunSpawnFails, RetainState,
       RetainConfirmed, RunEnds
  <2>4. CASE Preflight \/ Postflight \/ Abandon
    BY <2>4 DEF Preflight, PreflightEvent, PreflightState, Postflight,
       PostflightFailed, PostflightReceipt, PostflightIssued, PostflightState,
       Abandon, AbandonEvent, AbandonState
  <2> QED
    BY <2>1, <2>2, <2>3, <2>4 DEF Next, Leave, Tick, vars
<1>2. \/ log'[r] = log[r]
      \/ \E e : Grows(r, e) /\ e.type # "approval"
  BY LogStep DEF Step, ApproveEvent, Continue
<1> QED
  BY <1>1, <1>2, MatchKept, LogTyped DEF Kept

Stands(r) ==
    /\ approval[r] # NoApproval
    /\ approval[r].c = stContract[r]
    /\ approval[r].s = stSource[r]
    /\ startedAt[r] < approval[r].exp
    /\ r \in Matched

\* What makes LaunchWasApproved inductive: run checks the approval before it
\* writes state.json, a cleanup that is confirmed later returns the run to
\* failed, and postflight rewrites the provenance it found.
ApprovalStands ==
    /\ \A r \in Runs : phase[r] \in Launched => Stands(r)
    /\ pc \in {"retainEvent", "retained"} => Stands(cur)
    /\ pc = "runState" =>
          /\ approval[cur] # NoApproval
          /\ approval[cur].c = seen.c
          /\ approval[cur].s = seen.s
          /\ seen.ts < approval[cur].exp
          /\ cur \in Matched
    /\ pc \in {"postReceipt", "postIssue", "postState"} => seen.s = stSource[cur]

\* One step of a run's command other than RunState touches what its approval
\* answers for only by moving the phase.
LEMMA RunStands ==
    ASSUME Inv, ApprovalStands, Run,
           \A r \in Runs : Kept(r)
    PROVE  ApprovalStands'
<1> USE DEF Kept, Inv, TypeOK, StepShape, ApprovalStands, Stands, Launched, Steps,
            stateVars, diskVars, Continue
<1>1. ASSUME RunCheck PROVE ApprovalStands'
  BY <1>1 DEF RunCheck
<1>2. ASSUME RunStartEvent PROVE ApprovalStands'
  <2>1. cur \in Matched
    BY <1>2 DEF RunStartEvent, ApprovalValid, Matched
  <2> QED
    BY <1>2, <2>1 DEF RunStartEvent, ApprovalValid
<1>3. ASSUME RunState PROVE ApprovalStands'
  BY <1>3 DEF RunState, SetPhase, SetProvenance
<1>4. ASSUME RunSpawn PROVE ApprovalStands'
  BY <1>4 DEF RunSpawn
<1>5. ASSUME RunEvent PROVE ApprovalStands'
  BY <1>5 DEF RunEvent, Finish
<1>6. ASSUME RunUnconfirmed PROVE ApprovalStands'
  BY <1>6 DEF RunUnconfirmed
<1>7. ASSUME RetainEvent PROVE ApprovalStands'
  BY <1>7 DEF RetainEvent
<1>8. ASSUME ConfirmEvent PROVE ApprovalStands'
  BY <1>8 DEF ConfirmEvent, Finish
<1>9. ASSUME NEW v \in {"failed", "interrupted"}, RunSpawnFails(v)
      PROVE  ApprovalStands'
  BY <1>9 DEF RunSpawnFails, SetPhase
<1>10. ASSUME NEW v \in {"failed", "interrupted"}, RetainState(v)
       PROVE  ApprovalStands'
  BY <1>10 DEF RetainState, SetPhase
<1>11. ASSUME NEW v \in {"failed", "interrupted"}, RetainConfirmed(v)
       PROVE  ApprovalStands'
  BY <1>11 DEF RetainConfirmed, SetPhase, Finish
<1>12. ASSUME NEW v \in {"completed", "timeout", "failed", "interrupted"},
              NEW e \in {"ok", "bad"}, RunEnds(v, e)
       PROVE  ApprovalStands'
  BY <1>12 DEF RunEnds, SetPhase
<1> QED
  BY <1>1, <1>2, <1>3, <1>4, <1>5, <1>6, <1>7, <1>8, <1>9, <1>10, <1>11, <1>12
     DEF Run

LEMMA OthersStand ==
    ASSUME Inv, ApprovalStands, Preflight \/ Postflight \/ Abandon,
           \A r \in Runs : Kept(r)
    PROVE  ApprovalStands'
<1> USE DEF Kept, Inv, TypeOK, StepShape, ApprovalStands, Stands, Launched, Steps,
            stateVars, diskVars, Continue, Finish, SetPhase, SetProvenance
<1>1. CASE Preflight
  BY <1>1 DEF Preflight, PreflightEvent, PreflightState
<1>2. CASE PostflightFailed \/ PostflightState
  BY <1>2 DEF PostflightFailed, PostflightState, PostflightGate
<1>3. CASE PostflightReceipt \/ PostflightIssued
  BY <1>3 DEF PostflightReceipt, PostflightIssued
<1>4. CASE Abandon
  BY <1>4 DEF Abandon, AbandonEvent, AbandonState
<1> QED
  BY <1>1, <1>2, <1>3, <1>4 DEF Postflight

\* A run that approve works on is not launched.
LEMMA ApproveStands ==
    ASSUME Inv, ApprovalStands, Approve,
           \A r \in Runs \ {cur} : Kept(r)
    PROVE  ApprovalStands'
<1> USE DEF Kept, Inv, TypeOK, StepShape, ApprovalStands, Stands, Launched, Terminal,
            stateVars, Continue
<1>1. ASSUME NEW s \in Sources, ApproveConfirm(s) PROVE ApprovalStands'
  BY <1>1 DEF ApproveConfirm, WriteApproval
<1>2. CASE ApproveEvent
  BY <1>2 DEF ApproveEvent
<1>3. CASE ApproveState
  BY <1>3 DEF ApproveState, SetPhase, SetProvenance, Finish
<1> QED
  BY <1>1, <1>2, <1>3 DEF Approve

LEMMA CommandStands ==
    ASSUME Inv, ApprovalStands, Command,
           \A r \in Runs : Kept(r)
    PROVE  ApprovalStands'
<1> USE DEF Kept, Inv, TypeOK, ApprovalStands, Stands, stateVars, diskVars, Begin
<1>1. ASSUME NEW q \in Runs, AbandonBegin(q) PROVE ApprovalStands'
  BY <1>1 DEF AbandonBegin
<1>2. ASSUME NEW q \in Runs, NEW c \in Contracts, NEW s \in Sources,
             ApproveBegin(q, c, s) \/ PreflightBegin(q, c, s) \/ RunBegin(q, c, s)
      PROVE  ApprovalStands'
  BY <1>2 DEF ApproveBegin, PreflightBegin, RunBegin
<1>3. ASSUME NEW q \in Runs, NEW c \in Contracts, NEW s \in Sources,
             NEW o \in Outputs, PostflightAsserts(q, c, s, o)
      PROVE  ApprovalStands'
  <2>1. /\ UNCHANGED <<phase, stContract, stSource, startedAt>>
        /\ cur' = q /\ seen'.s = s
    BY <1>3 DEF PostflightAsserts, Hashed
  <2>2. \/ pc' = "postReceipt" /\ AssertionsHold(q, s, o)
        \/ pc' = "postFailed"
    BY <1>3 DEF PostflightAsserts
  <2> QED
    BY <2>1, <2>2 DEF AssertionsHold
<1> QED
  BY <1>1, <1>2, <1>3 DEF Command

LEMMA ApprovalStandsNext ==
    ASSUME Inv, ApprovalStands, [Next]_vars PROVE ApprovalStands'
<1>1. CASE Leave \/ Tick \/ UNCHANGED vars
  <2>1. \A r \in Runs : Kept(r)
    BY <1>1 DEF Leave, Tick, diskVars, vars, Kept, Matched, MatchesLatestEvent
  <2>2. UNCHANGED <<phase, stContract, stSource, startedAt, approval>>
    BY <1>1 DEF Leave, Tick, vars, stateVars, diskVars
  <2>3. pc' = "idle" \/ UNCHANGED <<pc, cur, seen>>
    BY <1>1 DEF Leave, Tick, Finish, vars, opVars
  <2> USE DEF ApprovalStands, Stands, Kept
  <2>4. CASE pc' = "idle"
    BY <2>1, <2>2, <2>4
  <2>5. CASE UNCHANGED <<pc, cur, seen>>
    <3>1. pc \in {"retainEvent", "retained", "runState"} => cur \in Runs
      BY DEF Inv, TypeOK
    <3> QED
      BY <2>1, <2>2, <2>5, <3>1
  <2> QED
    BY <2>3, <2>4, <2>5
<1>2. CASE Approve
  <2>1. \A r \in Runs \ {cur} : Kept(r)
    BY ApprovalKept
  <2> QED
    BY <1>2, <2>1, ApproveStands
<1>3. CASE Command \/ Preflight \/ Run \/ Postflight \/ Abandon
  <2>1. pc \notin {"approvePrompt", "approveEvent"}
    <3>1. CASE Command
      <4>1. ASSUME NEW q \in Runs, NEW c \in Contracts, NEW s \in Sources,
                   NEW o \in Outputs, PostflightAsserts(q, c, s, o)
            PROVE  pc = "idle"
        BY <4>1 DEF PostflightAsserts, Begin
      <4>2. ASSUME NEW q \in Runs, NEW c \in Contracts, NEW s \in Sources,
                   \/ ApproveBegin(q, c, s)
                   \/ PreflightBegin(q, c, s)
                   \/ RunBegin(q, c, s)
            PROVE  pc = "idle"
        BY <4>2 DEF ApproveBegin, PreflightBegin, RunBegin, Begin
      <4>3. ASSUME NEW q \in Runs, AbandonBegin(q) PROVE pc = "idle"
        BY <4>3 DEF AbandonBegin, Begin
      <4> QED
        BY <3>1, <4>1, <4>2, <4>3 DEF Command
    <3>2. CASE Preflight \/ Postflight \/ Abandon
      BY <3>2 DEF Preflight, PreflightEvent, PreflightState, Postflight,
         PostflightFailed, PostflightReceipt, PostflightIssued, PostflightState,
         Abandon, AbandonEvent, AbandonState, Continue
    <3>3. CASE Run
      BY <3>3 DEF Run, RunCheck, RunStartEvent, RunState, RunSpawn, RunEvent,
         RunUnconfirmed, RetainEvent, ConfirmEvent, RunSpawnFails, RetainState,
         RetainConfirmed, RunEnds, Continue
    <3> QED
      BY <1>3, <3>1, <3>2, <3>3
  <2>2. \A r \in Runs : Kept(r)
    BY <2>1, ApprovalKept
  <2> QED
    BY <1>3, <2>2, CommandStands, RunStands, OthersStand
<1> QED
  BY <1>1, <1>2, <1>3 DEF Next

\* Whatever crashes, expires or is approved again: a run that was launched is
\* covered by its approval document, the latest of its log, for the contract
\* and source that state.json says were run.
THEOREM LaunchTheorem == Spec => []LaunchWasApproved
<1>1. Init => ApprovalStands
  BY DEF Init, ApprovalStands, Launched
<1>2. Inv /\ ApprovalStands /\ [Next]_vars => ApprovalStands'
  BY ApprovalStandsNext
<1>3. ApprovalStands => LaunchWasApproved
  BY DEF ApprovalStands, Stands, Matched, LaunchWasApproved
<1> QED
  BY <1>1, <1>2, <1>3, StepsGuarded, PTL DEF Spec

-----------------------------------------------------------------------------
(* The receipt of a postflighted run verifies.                             *)

\* The receipt names what postflight read and what the approval says.
ReceiptNames(r, c, s) ==
    /\ receipt[r] \in Receipts
    /\ receipt[r].c = c /\ receipt[r].s = s
    /\ receipt[r].exp = approval[r].exp /\ receipt[r].chan = approval[r].chan

\* The log ends with the assertions the receipt refers to.
EndsWithAssertions(r) ==
    /\ receipt[r].head = Len(log[r])
    /\ receipt[r].head \in DOMAIN log[r]
    /\ log[r][receipt[r].head].type = "postflight_assertions_ok"

\* What makes PostflightedVerifies inductive: each write of postflight finds the
\* ones before it at the end of the log, because nobody else appends.
Issuing ==
    /\ pc \in {"postIssue", "postState"} => ReceiptNames(cur, seen.c, seen.s)
    /\ pc = "postIssue" => EndsWithAssertions(cur)
    /\ pc = "postState" => IssuanceOrdered(cur)

LEMMA LogIs ==
    ASSUME Inv, NEW r \in Runs
    PROVE  Len(log[r]) \in Nat /\ DOMAIN log[r] = 1..Len(log[r])
  BY DEF Inv, TypeOK

\* Nothing changes state.json of a postflighted run either.
LEMMA ClosedState ==
    ASSUME Inv, [Next]_vars, NEW r \in Runs, phase[r] = "postflighted"
    PROVE  UNCHANGED <<stContract[r], stSource[r], stReceipt[r], exit[r], launches[r]>>
<1> USE DEF Inv, TypeOK, StepShape, Terminal, Recoverable, Launchable,
            PostflightGate, history, opVars, stateVars, diskVars,
            SetPhase, SetProvenance, Continue, Finish, Steps
<1>1. CASE Leave \/ Tick \/ UNCHANGED vars
  BY <1>1 DEF Leave, Tick, vars
<1>2. CASE Command
  BY <1>2, CommandFrame
<1>3. CASE Approve
  BY <1>3 DEF Approve, ApproveConfirm, WriteApproval, ApproveEvent, ApproveState
<1>4. CASE Preflight
  BY <1>4 DEF Preflight, PreflightEvent, PreflightState
<1>5. CASE Run
  BY <1>5 DEF Run, RunCheck, RunStartEvent, RunState, RunSpawn, RunEvent,
     RunUnconfirmed, RetainEvent, ConfirmEvent, RunSpawnFails, RetainState,
     RetainConfirmed, RunEnds
<1>6. CASE Postflight
  BY <1>6 DEF Postflight, PostflightFailed, PostflightReceipt, PostflightIssued,
     PostflightState
<1>7. CASE Abandon
  BY <1>7 DEF Abandon, AbandonEvent, AbandonState
<1> QED
  BY <1>1, <1>2, <1>3, <1>4, <1>5, <1>6, <1>7 DEF Next

LEMMA VerifiedStays ==
    ASSUME Inv, [Next]_vars, NEW r \in Runs, ReceiptVerifies(r)
    PROVE  ReceiptVerifies(r)'
  BY ClosedStep, ClosedState
     DEF ReceiptVerifies, Untouched, IssuanceOrdered, MatchesLatestEvent

\* A run becomes postflighted by the last write of postflight only.
LEMMA NewlyPostflighted ==
    ASSUME Inv, [Next]_vars, NEW r \in Runs,
           phase[r] # "postflighted", phase'[r] = "postflighted"
    PROVE  PostflightState /\ r = cur
<1> USE DEF Inv, TypeOK, history, opVars, stateVars, diskVars, SetPhase, Steps
<1>1. ~(Leave \/ Tick \/ UNCHANGED vars)
  BY DEF Leave, Tick, vars
<1>2. ~Command
  BY CommandFrame
<1>3. ~Approve
  BY DEF Approve, ApproveConfirm, WriteApproval, ApproveEvent, ApproveState
<1>4. ~Preflight
  BY DEF Preflight, PreflightEvent, PreflightState
<1>5. ~Run
  BY DEF Run, RunCheck, RunStartEvent, RunState, RunSpawn, RunEvent,
     RunUnconfirmed, RetainEvent, ConfirmEvent, RunSpawnFails, RetainState,
     RetainConfirmed, RunEnds
<1>6. ~Abandon
  BY DEF Abandon, AbandonEvent, AbandonState
<1>7. Postflight => PostflightState /\ r = cur
  BY DEF Postflight, PostflightFailed, PostflightReceipt, PostflightIssued,
     PostflightState
<1> QED
  BY <1>1, <1>2, <1>3, <1>4, <1>5, <1>6, <1>7 DEF Next

\* What postflight wrote so far carries what it read.
LEMMA ReceiptWritten ==
    ASSUME Inv, PostflightReceipt PROVE Issuing'
<1>1. /\ cur \in Runs /\ Len(log[cur]) \in Nat \ {0} /\ DOMAIN log[cur] = 1..Len(log[cur])
      /\ log[cur][Len(log[cur])].type = "postflight_assertions_ok"
      /\ phase[cur] # "postflighted"
  BY LogIs DEF PostflightReceipt, Continue, Inv, TypeOK, StepShape, PostflightGate
<1>2. receipt'[cur] \in Receipts
  BY ReceiptBuilt DEF Inv
<1>3. /\ receipt'[cur].c = seen.c /\ receipt'[cur].s = seen.s
      /\ receipt'[cur].exp = approval[cur].exp /\ receipt'[cur].chan = approval[cur].chan
      /\ receipt'[cur].head = Len(log[cur])
      /\ pc' = "postIssue" /\ UNCHANGED <<cur, seen, stateVars, approval, log>>
  BY <1>1 DEF PostflightReceipt, Continue, Inv, TypeOK
<1> QED
  BY <1>1, <1>2, <1>3 DEF Issuing, ReceiptNames, EndsWithAssertions

LEMMA CertificateIssued ==
    ASSUME Inv, Issuing, PostflightIssued PROVE Issuing'
<1>1. /\ cur \in Runs /\ Len(log[cur]) \in Nat /\ DOMAIN log[cur] = 1..Len(log[cur])
      /\ pc' = "postState" /\ UNCHANGED <<cur, seen, stateVars, approval, receipt>>
  BY LogIs DEF PostflightIssued, Continue, Inv, TypeOK
<1>2. ReceiptNames(cur, seen.c, seen.s) /\ EndsWithAssertions(cur)
  BY DEF Issuing, PostflightIssued, Continue
<1>3. Grows(cur, [type |-> "certificate_issued", body |-> receipt[cur]])
  BY <1>1 DEF PostflightIssued, Record, Grows, Inv, TypeOK
<1>4. IssuanceOrdered(cur)'
  <2> DEFINE n == Len(log[cur])
  <2>1. /\ \A i \in 1..n : log'[cur][i] = log[cur][i]
        /\ log'[cur][n + 1] = [type |-> "certificate_issued", body |-> receipt[cur]]
        /\ DOMAIN log'[cur] = 1..(n + 1) /\ Len(log'[cur]) = n + 1
    BY <1>1, <1>3 DEF Grows, Inv, TypeOK
  <2>2. n \in 1..n
    BY <1>1, <1>2 DEF EndsWithAssertions
  <2> HIDE DEF n
  <2> QED
    BY <1>1, <1>2, <2>1, <2>2 DEF EndsWithAssertions, IssuanceOrdered, n
<1> QED
  BY <1>1, <1>2, <1>4 DEF Issuing, ReceiptNames

\* The last write of postflight completes a receipt that verifies.
LEMMA NowVerifies ==
    ASSUME Inv, ApprovalStands, Issuing, PostflightState, NEW r \in Runs, r = cur
    PROVE  ReceiptVerifies(r)'
<1>1. ReceiptNames(r, seen.c, seen.s) /\ IssuanceOrdered(r)
  BY DEF Issuing, PostflightState
<1>2. MatchesLatestEvent(r) /\ approval[r] # NoApproval
  BY DEF PostflightState, Inv, StepShape, PostflightGate, ApprovalStands, Stands,
         Launched, Matched
<1>3. /\ phase'[r] = "postflighted" /\ stContract'[r] = seen.c
      /\ stSource'[r] = seen.s /\ stReceipt'[r] = receipt[r]
      /\ UNCHANGED <<approval, receipt, log>>
  BY DEF PostflightState, SetPhase, SetProvenance, Inv, TypeOK
<1>4. receipt[r] # NoReceipt
  BY <1>1, NoneAssumption DEF ReceiptNames
<1> QED
  BY <1>1, <1>2, <1>3, <1>4
     DEF ReceiptVerifies, ReceiptNames, MatchesLatestEvent, IssuanceOrdered

LEMMA VerifiesNext ==
    ASSUME Inv, ApprovalStands, Issuing, PostflightedVerifies, [Next]_vars
    PROVE  PostflightedVerifies'
<1> SUFFICES ASSUME NEW r \in Runs, phase'[r] = "postflighted" PROVE ReceiptVerifies(r)'
  BY DEF PostflightedVerifies
<1>1. CASE phase[r] = "postflighted"
  BY <1>1, VerifiedStays DEF PostflightedVerifies
<1>2. CASE phase[r] # "postflighted"
  BY <1>2, NewlyPostflighted, NowVerifies
<1> QED
  BY <1>1, <1>2

LEMMA IssuingNext ==
    ASSUME Inv, Issuing, [Next]_vars PROVE Issuing'
<1>2. CASE PostflightReceipt
  BY <1>2, ReceiptWritten
<1>3. CASE PostflightIssued
  BY <1>3, CertificateIssued
<1>4. ASSUME pc' \notin {"postIssue", "postState"} PROVE Issuing'
  BY <1>4 DEF Issuing
<1>5. CASE Leave \/ Tick \/ UNCHANGED vars
  <2>1. CASE Leave
    BY <1>4, <2>1 DEF Leave, Finish
  <2>2. CASE Tick \/ UNCHANGED vars
    BY <2>2 DEF Tick, vars, diskVars, opVars, Issuing, ReceiptNames,
                      EndsWithAssertions, IssuanceOrdered
  <2> QED
    BY <1>5, <2>1, <2>2
<1>6. CASE Command
  <2>1. pc' \notin {"postIssue", "postState"}
    <3>1. ASSUME NEW r \in Runs, NEW c \in Contracts, NEW s \in Sources,
                 NEW o \in Outputs, PostflightAsserts(r, c, s, o)
          PROVE  pc' \notin {"postIssue", "postState"}
      BY <3>1 DEF PostflightAsserts, Begin
    <3>2. ASSUME NEW r \in Runs, NEW c \in Contracts, NEW s \in Sources,
                 ApproveBegin(r, c, s) \/ PreflightBegin(r, c, s) \/ RunBegin(r, c, s)
          PROVE  pc' \notin {"postIssue", "postState"}
      BY <3>2 DEF ApproveBegin, PreflightBegin, RunBegin, Begin
    <3>3. ASSUME NEW r \in Runs, AbandonBegin(r) PROVE pc' \notin {"postIssue", "postState"}
      BY <3>3 DEF AbandonBegin, Begin
    <3> QED
      BY <1>6, <3>1, <3>2, <3>3 DEF Command
  <2> QED
    BY <1>4, <2>1
<1>7. CASE Approve \/ Preflight \/ Abandon
  <2>1. pc' \notin {"postIssue", "postState"}
    BY <1>7 DEF Approve, ApproveConfirm, ApproveEvent, ApproveState, Preflight,
       PreflightEvent, PreflightState, Abandon, AbandonEvent, AbandonState,
       Continue, Finish
  <2> QED
    BY <1>4, <2>1
<1>8. CASE Run
  <2>1. pc' \notin {"postIssue", "postState"}
    BY <1>8 DEF Run, RunCheck, RunStartEvent, RunState, RunSpawn, RunEvent,
       RunUnconfirmed, RetainEvent, ConfirmEvent, RunSpawnFails, RetainState,
       RetainConfirmed, RunEnds, Continue, Finish
  <2> QED
    BY <1>4, <2>1
<1>9. CASE PostflightFailed \/ PostflightState
  BY <1>4, <1>9 DEF PostflightFailed, PostflightState, Finish
<1> QED
  BY <1>2, <1>3, <1>5, <1>6, <1>7, <1>8, <1>9 DEF Next, Postflight

\* Whatever crashed or was retried before, the receipt of a postflighted run
\* verifies: the log ends with its issuance and nothing it names has changed.
THEOREM VerifiesTheorem == Spec => []PostflightedVerifies
<1> DEFINE J == ApprovalStands /\ Issuing /\ PostflightedVerifies
<1>1. Init => J
  BY DEF Init, ApprovalStands, Launched, Issuing, PostflightedVerifies
<1>2. Inv /\ J /\ [Next]_vars => J'
  BY ApprovalStandsNext, IssuingNext, VerifiesNext
<1> QED
  BY <1>1, <1>2, StepsGuarded, PTL DEF Spec

-----------------------------------------------------------------------------
(* The receipt is that of the launch that happened.                        *)

\* The contracts and sources of which the last run_start of r's log may be.
Started(r) ==
    {p \in Contracts \X Sources :
        \E i \in DOMAIN log[r] :
            /\ log[r][i].type = "run_start"
            /\ log[r][i].body = [c |-> p[1], s |-> p[2]]
            /\ \A j \in DOMAIN log[r] : log[r][j].type = "run_start" => j <= i}

\* state.json of a launched run says what the log says was started.
StartsStand ==
    /\ \A r \in Runs : phase[r] \in Launched => <<stContract[r], stSource[r]>> \in Started(r)
    /\ pc \in {"retainEvent", "retained"} =>
          <<stContract[cur], stSource[cur]>> \in Started(cur)
    /\ pc = "runState" => <<seen.c, seen.s>> \in Started(cur)

\* An exit code is that of a payload that was spawned; postflight goes on only
\* with the expected one.
ExitStands ==
    /\ \A r \in Runs : exit[r] # "none" => launches[r] > 0
    /\ pc = "live" => launches[cur] > 0
    /\ pc \in {"postReceipt", "postIssue", "postState"} => exit[cur] = "ok"
    /\ pc \in {"postIssue", "postState"} => receipt[cur].result = "completed"
    /\ \A r \in Runs : phase[r] = "postflighted" =>
          exit[r] = "ok" /\ receipt[r].result = "completed"

\* A failure that reached the log is what state.json says for ever.
FailureStands ==
    /\ \A r \in Runs : phase[r] \in {"completed", "postflighted"} => result[r] = "completed"
    /\ \A r \in Runs : \A i \in DOMAIN log[r] :
          log[r][i].type = "run_ended" /\ log[r][i].body.result # "completed" =>
              phase[r] = "failed" /\ result[r] # "completed"

\* A run that was being abandoned is running for ever or abandoned, and no payload
\* of it is in flight, unless its cleanup was once unconfirmed.
AbandonStands ==
    \A r \in Runs : \A i \in DOMAIN log[r] :
        log[r][i].type = "recovery_abandon" /\ ~unconfirmed[r] =>
            /\ phase[r] \in {"running", "abandoned"}
            /\ cur = r => pc \notin {"runSpawn", "live", "retain"}

-----------------------------------------------------------------------------
\* An event that is no run_start leaves the last one where it was.
LEMMA StartKept ==
    ASSUME Logged, NEW r \in Runs, NEW p \in Started(r), NEW e, Grows(r, e),
           e.type # "run_start"
    PROVE  p \in Started(r)'
<1>1. PICK i \in DOMAIN log[r] :
          /\ log[r][i].type = "run_start"
          /\ log[r][i].body = [c |-> p[1], s |-> p[2]]
          /\ \A j \in DOMAIN log[r] : log[r][j].type = "run_start" => j <= i
  BY DEF Started
<1> DEFINE n == Len(log[r])
<1>2. /\ n \in Nat /\ DOMAIN log[r] = 1..n /\ DOMAIN log'[r] = 1..(n + 1)
      /\ \A k \in 1..n : log'[r][k] = log[r][k]
      /\ log'[r][n + 1] = e
  BY GrowsKeeps
<1> HIDE DEF n
<1>3. \A j \in DOMAIN log'[r] : log'[r][j].type = "run_start" => j \in 1..n
  BY <1>2
<1>4. /\ i \in DOMAIN log'[r]
      /\ log'[r][i].type = "run_start"
      /\ log'[r][i].body = [c |-> p[1], s |-> p[2]]
      /\ \A j \in DOMAIN log'[r] : log'[r][j].type = "run_start" => j <= i
  BY <1>1, <1>2, <1>3
<1> QED
  BY <1>4 DEF Started

LEMMA StartedKept ==
    ASSUME Inv, [Next]_vars, NEW r \in Runs, r # cur \/ ~RunStartEvent,
           NEW p \in Started(r)
    PROVE  p \in Started(r)'
<1>1. CASE log'[r] = log[r]
  BY <1>1 DEF Started
<1>2. ASSUME NEW e, Step(r, e) PROVE p \in Started(r)'
  BY <1>2, StartKept, LogTyped DEF Step
<1> QED
  BY <1>1, <1>2, LogStep

\* run_start is the last one when it has just been appended.
LEMMA JustStarted ==
    ASSUME Inv, RunStartEvent
    PROVE  <<seen.c, seen.s>> \in Started(cur)'
<1>1. /\ cur \in Runs /\ cur' = cur /\ seen' = seen
      /\ seen.c \in Contracts /\ seen.s \in Sources
  BY DEF RunStartEvent, Continue, Inv, TypeOK, StepsWithLocals, Locals
<1> DEFINE n == Len(log[cur])
           e == [type |-> "run_start", body |-> [c |-> seen.c, s |-> seen.s]]
<1>2. Grows(cur, e)
  BY <1>1 DEF RunStartEvent, Record, Grows, Inv, TypeOK
<1>3. n \in Nat /\ DOMAIN log'[cur] = 1..(n + 1) /\ log'[cur][n + 1] = e
  BY <1>1, <1>2, GrowsKeeps, LogTyped
<1> HIDE DEF n
<1>4. /\ n + 1 \in DOMAIN log'[cur]
      /\ \A j \in DOMAIN log'[cur] : j <= n + 1
  BY <1>3
<1> QED
  BY <1>1, <1>3, <1>4 DEF Started

\* Every other step leaves the last start, and where it changes the provenance or the
\* phase of a launched run it is to the same effect.
LEMMA StartsStandNext ==
    ASSUME Inv, ApprovalStands, StartsStand, [Next]_vars PROVE StartsStand'
<1> DEFINE Stay == \A r \in Runs : \A p \in Started(r) : p \in Started(r)'
<1> USE DEF StartsStand, Launched, stateVars, diskVars, history, opVars
<1>1. CASE RunStartEvent
  <2>1. /\ cur \in Runs /\ phase[cur] \in Launchable /\ pc' = "runState"
        /\ UNCHANGED <<cur, seen, stateVars>>
    BY <1>1 DEF RunStartEvent, Continue, Inv, TypeOK, StepShape
  <2>2. \A r \in Runs : phase'[r] \in Launched => phase[r] \in Launched /\ r # cur
    BY <2>1 DEF Launchable
  <2> QED
    BY <1>1, <2>1, <2>2, JustStarted, StartedKept
<1>2. Stay \/ RunStartEvent
  BY StartedKept
<1>3. CASE Stay /\ (Leave \/ Tick \/ UNCHANGED vars)
  BY <1>3 DEF Leave, Finish, Tick, vars, Inv, TypeOK
<1>4. CASE Stay /\ Command
  <2>1. pc' \notin {"retainEvent", "retained", "runState"}
    <3>1. ASSUME NEW r \in Runs, NEW c \in Contracts, NEW s \in Sources,
                 NEW o \in Outputs, PostflightAsserts(r, c, s, o)
          PROVE  pc' \notin {"retainEvent", "retained", "runState"}
      BY <3>1 DEF PostflightAsserts, Begin
    <3>2. ASSUME NEW r \in Runs, NEW c \in Contracts, NEW s \in Sources,
                 ApproveBegin(r, c, s) \/ PreflightBegin(r, c, s) \/ RunBegin(r, c, s)
          PROVE  pc' \notin {"retainEvent", "retained", "runState"}
      BY <3>2 DEF ApproveBegin, PreflightBegin, RunBegin, Begin
    <3>3. ASSUME NEW r \in Runs, AbandonBegin(r)
          PROVE  pc' \notin {"retainEvent", "retained", "runState"}
      BY <3>3 DEF AbandonBegin, Begin
    <3> QED
      BY <1>4, <3>1, <3>2, <3>3 DEF Command
  <2> QED
    BY <1>4, <2>1, CommandFrame
<1>5. CASE Stay /\ (Approve \/ Preflight \/ Abandon)
  BY <1>5 DEF Approve, ApproveConfirm, WriteApproval, ApproveEvent, ApproveState, Preflight,
     PreflightEvent, PreflightState, Abandon, AbandonEvent, AbandonState,
     Continue, Finish, SetPhase, SetProvenance, Inv, TypeOK
<1>6. CASE Stay /\ Run /\ ~RunStartEvent
  <2>1. CASE RunState
    BY <1>6, <2>1 DEF RunState, SetPhase, SetProvenance, Inv, TypeOK
  <2>2. CASE \E v \in {"failed", "interrupted"} :
                 RunSpawnFails(v) \/ RetainState(v) \/ RetainConfirmed(v)
    BY <1>6, <2>2 DEF RunSpawnFails, RetainState, RetainConfirmed, Continue, Finish,
                      SetPhase, Inv, TypeOK, StepShape
  <2>3. CASE RunCheck \/ RunSpawn \/ RunEvent \/ RunUnconfirmed \/ RetainEvent \/ ConfirmEvent
    BY <1>6, <2>3 DEF RunCheck, RunSpawn, RunEvent, RunUnconfirmed, RetainEvent,
                      ConfirmEvent, Continue, Finish, Inv, TypeOK
  <2>4. CASE \E v \in {"completed", "timeout", "failed", "interrupted"}, e \in {"ok", "bad"} :
                 RunEnds(v, e)
    BY <1>6, <2>4 DEF RunEnds, Continue, SetPhase, Inv, TypeOK, StepShape
  <2> QED
    BY <1>6, <2>1, <2>2, <2>3, <2>4 DEF Run
<1>7. CASE Stay /\ Postflight
  BY <1>7 DEF Postflight, PostflightFailed, PostflightReceipt, PostflightIssued,
     PostflightState, Continue, Finish, SetPhase, SetProvenance, Inv, TypeOK, StepShape,
     PostflightGate, ApprovalStands
<1> QED
  BY <1>1, <1>2, <1>3, <1>4, <1>5, <1>6, <1>7 DEF Next

LEMMA ExitStandsNext ==
    ASSUME Inv, ExitStands, [Next]_vars PROVE ExitStands'
<1> USE DEF ExitStands, Inv, TypeOK, stateVars, diskVars, history, opVars, Continue, Finish,
            SetPhase, SetProvenance, Steps
<1>1. CASE Leave \/ Tick \/ UNCHANGED vars
  BY <1>1 DEF Leave, Tick, vars
<1>2. CASE Command
  <2>1. ASSUME NEW r \in Runs, NEW c \in Contracts, NEW s \in Sources,
               NEW o \in Outputs, PostflightAsserts(r, c, s, o)
        PROVE  ExitStands'
    <3>1. /\ UNCHANGED <<phase, exit, launches, receipt>> /\ cur' = r
          /\ \/ pc' = "postReceipt" /\ AssertionsHold(r, s, o)
             \/ pc' = "postFailed"
      BY <2>1 DEF PostflightAsserts, Begin
    <3> QED
      BY <3>1 DEF AssertionsHold
  <2>2. ASSUME NEW r \in Runs, NEW c \in Contracts, NEW s \in Sources,
               ApproveBegin(r, c, s) \/ PreflightBegin(r, c, s) \/ RunBegin(r, c, s)
        PROVE  ExitStands'
    BY <2>2 DEF ApproveBegin, PreflightBegin, RunBegin, Begin
  <2>3. ASSUME NEW r \in Runs, AbandonBegin(r) PROVE ExitStands'
    BY <2>3 DEF AbandonBegin, Begin
  <2> QED
    BY <1>2, <2>1, <2>2, <2>3 DEF Command
<1>3. CASE Approve \/ Preflight \/ Abandon
  BY <1>3 DEF Approve, ApproveConfirm, WriteApproval, ApproveEvent, ApproveState, Preflight,
     PreflightEvent, PreflightState, Abandon, AbandonEvent, AbandonState
<1>4. CASE RunSpawn
  BY <1>4 DEF RunSpawn
<1>5. CASE RunCheck \/ RunStartEvent \/ RunState \/ RunEvent \/ RunUnconfirmed
           \/ RetainEvent \/ ConfirmEvent
  BY <1>5 DEF RunCheck, RunStartEvent, RunState, RunEvent, RunUnconfirmed, RetainEvent,
              ConfirmEvent
<1>6. ASSUME NEW v \in {"failed", "interrupted"},
             RunSpawnFails(v) \/ RetainState(v) \/ RetainConfirmed(v)
      PROVE  ExitStands'
  BY <1>6 DEF RunSpawnFails, RetainState, RetainConfirmed
<1>7. ASSUME NEW v \in {"completed", "timeout", "failed", "interrupted"},
             NEW e \in {"ok", "bad"}, RunEnds(v, e)
      PROVE  ExitStands'
  BY <1>7 DEF RunEnds
<1>8. CASE PostflightReceipt
  BY <1>8 DEF PostflightReceipt, StepShape, PostflightGate
<1>9. CASE PostflightFailed \/ PostflightIssued \/ PostflightState
  BY <1>9 DEF PostflightFailed, PostflightIssued, PostflightState
<1> QED
  BY <1>1, <1>2, <1>3, <1>4, <1>5, <1>6, <1>7, <1>8, <1>9 DEF Next, Run, Postflight

-----------------------------------------------------------------------------
\* What a step may do to a run that failed, and to one that is being abandoned.
LEMMA FailedStays ==
    ASSUME Inv, [Next]_vars, NEW r \in Runs, phase[r] = "failed", result[r] # "completed"
    PROVE  phase'[r] = "failed" /\ result'[r] # "completed"
<1> USE DEF Inv, TypeOK, StepShape, Terminal, Recoverable, Launchable, PostflightGate,
            history, opVars, stateVars, diskVars, SetPhase, SetResult, Continue, Finish, Steps
<1>1. CASE Leave \/ Tick \/ UNCHANGED vars
  BY <1>1 DEF Leave, Tick, vars
<1>2. CASE Command
  BY <1>2, CommandFrame
<1>3. CASE Approve \/ Preflight \/ Abandon
  BY <1>3 DEF Approve, ApproveConfirm, WriteApproval, ApproveEvent, ApproveState, Preflight,
     PreflightEvent, PreflightState, Abandon, AbandonEvent, AbandonState
<1>4. CASE Run
  BY <1>4 DEF Run, RunCheck, RunStartEvent, RunState, RunSpawn, RunEvent,
     RunUnconfirmed, RetainEvent, ConfirmEvent, RunSpawnFails, RetainState,
     RetainConfirmed, RunEnds
<1>5. CASE Postflight
  BY <1>5 DEF Postflight, PostflightFailed, PostflightReceipt, PostflightIssued,
     PostflightState
<1> QED
  BY <1>1, <1>2, <1>3, <1>4, <1>5 DEF Next

LEMMA ResultFits ==
    ASSUME Inv, [Next]_vars, NEW r \in Runs, phase'[r] \in {"completed", "postflighted"},
           phase[r] \in {"completed", "postflighted"} => result[r] = "completed"
    PROVE  result'[r] = "completed"
<1> USE DEF Inv, TypeOK, StepShape, Terminal, Recoverable, Launchable, PostflightGate,
            history, opVars, stateVars, diskVars, SetPhase, SetResult, Continue, Finish, Steps
<1>1. CASE Leave \/ Tick \/ UNCHANGED vars
  BY <1>1 DEF Leave, Tick, vars
<1>2. CASE Command
  BY <1>2, CommandFrame
<1>3. CASE Approve \/ Preflight \/ Abandon
  BY <1>3 DEF Approve, ApproveConfirm, WriteApproval, ApproveEvent, ApproveState, Preflight,
     PreflightEvent, PreflightState, Abandon, AbandonEvent, AbandonState
<1>4. CASE Run
  BY <1>4 DEF Run, RunCheck, RunStartEvent, RunState, RunSpawn, RunEvent,
     RunUnconfirmed, RetainEvent, ConfirmEvent, RunSpawnFails, RetainState,
     RetainConfirmed, RunEnds
<1>5. CASE Postflight
  BY <1>5 DEF Postflight, PostflightFailed, PostflightReceipt, PostflightIssued,
     PostflightState
<1> QED
  BY <1>1, <1>2, <1>3, <1>4, <1>5 DEF Next

LEMMA FailureStandsNext ==
    ASSUME Inv, FailureStands, [Next]_vars PROVE FailureStands'
<1>1. \A r \in Runs : phase'[r] \in {"completed", "postflighted"} => result'[r] = "completed"
  BY ResultFits DEF FailureStands
<1>2. ASSUME NEW r \in Runs, NEW i \in DOMAIN log'[r], log'[r][i].type = "run_ended",
             log'[r][i].body.result # "completed"
      PROVE  phase'[r] = "failed" /\ result'[r] # "completed"
  <2>1. CASE log'[r] = log[r]
    BY <1>2, <2>1, FailedStays DEF FailureStands
  <2>2. ASSUME NEW e, Step(r, e)
        PROVE  phase'[r] = "failed" /\ result'[r] # "completed"
    <3> DEFINE n == Len(log[r])
    <3>1. /\ n \in Nat /\ DOMAIN log[r] = 1..n /\ i \in 1..(n + 1)
          /\ \A k \in 1..n : log'[r][k] = log[r][k]
          /\ log'[r][n + 1] = e
      BY <2>2, GrowsKeeps, LogTyped DEF Step
    <3> HIDE DEF n
    <3>2. CASE i \in 1..n
      BY <1>2, <3>1, <3>2, FailedStays DEF FailureStands
    <3>3. CASE i = n + 1
      <4>1. RunEvent /\ r = cur /\ result[r] # "completed"
        BY <1>2, <2>2, <3>1, <3>3 DEF Step
      <4>2. phase[r] \in {"completed", "failed"}
        BY <4>1 DEF RunEvent, Inv, StepShape
      <4> QED
        BY <4>1, <4>2, FailedStays DEF FailureStands
    <3> QED
      BY <3>1, <3>2, <3>3
  <2> QED
    BY <2>1, <2>2, LogStep
<1> QED
  BY <1>1, <1>2 DEF FailureStands

\* A run that nobody will start again: being abandoned, or abandoned.
Leaving(r) ==
    /\ phase[r] \in {"running", "abandoned"}
    /\ cur = r => pc \notin {"runSpawn", "live", "retain"}

LEMMA LeavingStays ==
    ASSUME Inv, LaunchCount, [Next]_vars, NEW r \in Runs, Leaving(r), ~unconfirmed[r]
    PROVE  Leaving(r)'
<1> USE DEF Leaving, Inv, TypeOK, StepShape, Terminal, Recoverable, Launchable, PostflightGate,
            history, opVars, stateVars, diskVars, SetPhase, SetResult, Continue, Finish, Steps
<1>1. CASE Leave \/ Tick \/ UNCHANGED vars
  BY <1>1 DEF Leave, Tick, vars
<1>2. CASE Command
  <2>1. ASSUME NEW q \in Runs, NEW c \in Contracts, NEW s \in Sources,
               NEW o \in Outputs, PostflightAsserts(q, c, s, o)
        PROVE  Leaving(r)'
    BY <2>1 DEF PostflightAsserts, Begin
  <2>2. ASSUME NEW q \in Runs, NEW c \in Contracts, NEW s \in Sources,
               ApproveBegin(q, c, s) \/ PreflightBegin(q, c, s) \/ RunBegin(q, c, s)
        PROVE  Leaving(r)'
    BY <2>2 DEF ApproveBegin, PreflightBegin, RunBegin, Begin
  <2>3. ASSUME NEW q \in Runs, AbandonBegin(q) PROVE Leaving(r)'
    BY <2>3 DEF AbandonBegin, Begin
  <2> QED
    BY <1>2, <2>1, <2>2, <2>3 DEF Command
<1>3. CASE Approve \/ Preflight \/ Abandon
  BY <1>3 DEF Approve, ApproveConfirm, WriteApproval, ApproveEvent, ApproveState, Preflight,
     PreflightEvent, PreflightState, Abandon, AbandonEvent, AbandonState
<1>4. CASE Run
  BY <1>4 DEF Run, RunCheck, RunStartEvent, RunState, RunSpawn, RunEvent,
     RunUnconfirmed, RetainEvent, ConfirmEvent, RunSpawnFails, RetainState,
     RetainConfirmed, RunEnds, LaunchCount
<1>5. CASE Postflight
  BY <1>5 DEF Postflight, PostflightFailed, PostflightReceipt, PostflightIssued,
     PostflightState
<1> QED
  BY <1>1, <1>2, <1>3, <1>4, <1>5 DEF Next

\* What once was unconfirmed stays so.
LEMMA UnconfirmedStays ==
    ASSUME Inv, [Next]_vars, NEW r \in Runs, unconfirmed[r]
    PROVE  unconfirmed'[r]
<1> USE DEF Inv, TypeOK, history, opVars, stateVars, diskVars
<1>1. CASE Leave \/ Tick \/ UNCHANGED vars
  BY <1>1 DEF Leave, Tick, vars
<1>2. CASE Command
  BY <1>2, CommandFrame
<1>3. CASE Approve \/ Preflight \/ Abandon \/ Postflight
  BY <1>3 DEF Approve, ApproveConfirm, WriteApproval, ApproveEvent, ApproveState, Preflight,
     PreflightEvent, PreflightState, Abandon, AbandonEvent, AbandonState,
     Postflight, PostflightFailed, PostflightReceipt, PostflightIssued, PostflightState
<1>4. CASE Run
  BY <1>4 DEF Run, RunCheck, RunStartEvent, RunState, RunSpawn, RunEvent,
     RunUnconfirmed, RetainEvent, ConfirmEvent, RunSpawnFails, RetainState,
     RetainConfirmed, RunEnds
<1> QED
  BY <1>1, <1>2, <1>3, <1>4 DEF Next

LEMMA AbandonStandsNext ==
    ASSUME Inv, LaunchCount, AbandonStands, [Next]_vars PROVE AbandonStands'
<1> SUFFICES ASSUME NEW r \in Runs, NEW i \in DOMAIN log'[r],
                    log'[r][i].type = "recovery_abandon", ~unconfirmed'[r]
             PROVE  Leaving(r)'
  BY DEF AbandonStands, Leaving
<1>1. ~unconfirmed[r]
  BY UnconfirmedStays
<1>2. CASE log'[r] = log[r]
  BY <1>1, <1>2, LeavingStays DEF AbandonStands, Leaving
<1>3. ASSUME NEW e, Step(r, e) PROVE Leaving(r)'
  <2> DEFINE n == Len(log[r])
  <2>1. /\ n \in Nat /\ DOMAIN log[r] = 1..n /\ i \in 1..(n + 1)
        /\ \A k \in 1..n : log'[r][k] = log[r][k]
        /\ log'[r][n + 1] = e
    BY <1>3, GrowsKeeps, LogTyped DEF Step
  <2> HIDE DEF n
  <2>2. CASE i \in 1..n
    BY <1>1, <2>1, <2>2, LeavingStays DEF AbandonStands, Leaving
  <2>3. CASE i = n + 1
    <3>1. AbandonEvent /\ r = cur
      BY <1>3, <2>1, <2>3 DEF Step
    <3>2. phase[r] = "running"
      BY <1>1, <3>1 DEF AbandonEvent, Continue, Inv, StepShape, Recoverable, LaunchCount
    <3> QED
      BY <3>1, <3>2 DEF AbandonEvent, Continue, stateVars, Leaving
  <2> QED
    BY <2>1, <2>2, <2>3
<1> QED
  BY <1>2, <1>3, LogStep

\* What these say of a receipt whose contract and source are those of state.json.
LEMMA BindsLaunch ==
    ASSUME StartsStand, ExitStands, FailureStands, AbandonStands,
           \A r \in Runs : phase[r] = "postflighted" =>
               stContract[r] = receipt[r].c /\ stSource[r] = receipt[r].s
    PROVE  ReceiptBindsLaunch
<1> SUFFICES ASSUME NEW r \in Runs, phase[r] = "postflighted"
             PROVE  /\ launches[r] > 0 /\ exit[r] = "ok" /\ receipt[r].result = "completed"
                    /\ \E i \in DOMAIN log[r] :
                          /\ log[r][i].type = "run_start"
                          /\ log[r][i].body.c = receipt[r].c
                          /\ log[r][i].body.s = receipt[r].s
                          /\ \A j \in DOMAIN log[r] : log[r][j].type = "run_start" => j <= i
                    /\ \A i \in DOMAIN log[r] :
                          /\ log[r][i].type = "run_ended" => log[r][i].body.result = "completed"
                          /\ log[r][i].type = "recovery_abandon" => unconfirmed[r]
  BY DEF ReceiptBindsLaunch
<1>1. launches[r] > 0 /\ exit[r] = "ok" /\ receipt[r].result = "completed"
  BY DEF ExitStands
<1>2. <<stContract[r], stSource[r]>> \in Started(r)
  BY DEF StartsStand, Launched
<1>3. \E i \in DOMAIN log[r] :
          /\ log[r][i].type = "run_start"
          /\ log[r][i].body.c = receipt[r].c
          /\ log[r][i].body.s = receipt[r].s
          /\ \A j \in DOMAIN log[r] : log[r][j].type = "run_start" => j <= i
  BY <1>2 DEF Started
<1>4. \A i \in DOMAIN log[r] :
          /\ log[r][i].type = "run_ended" => log[r][i].body.result = "completed"
          /\ log[r][i].type = "recovery_abandon" => unconfirmed[r]
  BY DEF FailureStands, AbandonStands
<1> QED
  BY <1>1, <1>3, <1>4

\* A receipt is that of the contract and source that were started last, of a payload
\* that was spawned, exited as expected and completed, of a run with no failure in
\* its log and no abandonment, but after an unconfirmed cleanup.
THEOREM BindsTheorem == Spec => []ReceiptBindsLaunch
<1> DEFINE J == ApprovalStands /\ Issuing /\ PostflightedVerifies /\ LaunchCount
                /\ StartsStand /\ ExitStands /\ FailureStands /\ AbandonStands
<1>1. Init => J
  BY DEF Init, ApprovalStands, Launched, Issuing, PostflightedVerifies, LaunchCount,
         StartsStand, ExitStands, FailureStands, AbandonStands
<1>2. Inv /\ J /\ [Next]_vars => J'
  BY ApprovalStandsNext, IssuingNext, VerifiesNext, LaunchCountNext, StartsStandNext,
     ExitStandsNext, FailureStandsNext, AbandonStandsNext
<1>3. J => ReceiptBindsLaunch
  BY BindsLaunch DEF PostflightedVerifies, ReceiptVerifies
<1> QED
  BY <1>1, <1>2, <1>3, StepsGuarded, PTL DEF Spec

-----------------------------------------------------------------------------
(***************************************************************************)
(* Remote confirmation.  While arm, settle or refuse holds the lease, the  *)
(* lifecycle stands still.                                                 *)
(***************************************************************************)

RemoteSteps == AnswerSteps \cup {"armWrite"}
LocalSteps == Steps \cup {"idle"}

\* The types of what is on disk and of the histories.
DiskTyped ==
    /\ phase \in [Runs -> Phases]
    /\ result \in [Runs -> Results]
    /\ exit \in [Runs -> Exits]
    /\ stContract \in [Runs -> Contracts]
    /\ stSource \in [Runs -> Sources]
    /\ startedAt \in [Runs -> Nat]
    /\ stReceipt \in [Runs -> Receipts \cup {NoReceipt}]
    /\ approval \in [Runs -> ApprovalDocs \cup {NoApproval}]
    /\ receipt \in [Runs -> Receipts \cup {NoReceipt}]
    /\ log \in [Runs -> Seq(Events)]
    /\ launches \in [Runs -> Nat]
    /\ unconfirmed \in [Runs -> BOOLEAN]
    /\ now \in Nat

\* The invariant of the lifecycle holds between the operations of the phone,
\* which keep a run and the locals they need; once settle has written the
\* approval, the run may still be approved.
RemoteShape ==
    /\ DiskTyped
    /\ pc \in LocalSteps \cup RemoteSteps
    /\ pc \in LocalSteps => Inv
    /\ pc \in RemoteSteps => cur \in Runs /\ seen \in Locals
    /\ pc \in {"settleEvent", "settleState"} =>
          phase[cur] \notin Terminal /\ approval[cur] \in ApprovalDocs
    /\ pc = "armWrite" => armed < MaxArms

LEMMA InvIsShape ==
    ASSUME Inv PROVE RemoteShape
<1>1. pc \in LocalSteps /\ pc \notin RemoteSteps
  BY DEF Inv, TypeOK, LocalSteps, RemoteSteps, AnswerSteps, Steps
<1> QED
  BY <1>1 DEF Inv, TypeOK, RemoteShape, DiskTyped, RemoteSteps, AnswerSteps

\* No command of the lifecycle begins, and none goes on, before the phone's
\* operation is over.
LEMMA NoCommand ==
    ASSUME pc \in RemoteSteps
    PROVE  ~(Command \/ Approve \/ Preflight \/ Run \/ Postflight \/ Abandon)
<1> USE DEF RemoteSteps, AnswerSteps, Continue, Begin
<1>1. ~Command
  <2>1. \A r \in Runs : ~AbandonBegin(r)
    BY DEF AbandonBegin
  <2>2. \A r \in Runs, c \in Contracts, s \in Sources :
            ~(ApproveBegin(r, c, s) \/ PreflightBegin(r, c, s) \/ RunBegin(r, c, s))
    BY DEF ApproveBegin, PreflightBegin, RunBegin
  <2>3. \A r \in Runs, c \in Contracts, s \in Sources, o \in Outputs :
            ~PostflightAsserts(r, c, s, o)
    BY DEF PostflightAsserts
  <2> QED
    BY <2>1, <2>2, <2>3 DEF Command
<1>2. ~Approve /\ ~Preflight /\ ~Abandon
  BY DEF Approve, ApproveConfirm, ApproveEvent, ApproveState, Preflight,
         PreflightEvent, PreflightState, Abandon, AbandonEvent, AbandonState
<1>3. ~Run
  BY DEF Run, RunCheck, RunStartEvent, RunState, RunSpawn, RunEvent,
     RunUnconfirmed, RetainEvent, ConfirmEvent, RunSpawnFails, RetainState,
     RetainConfirmed, RunEnds
<1>4. ~Postflight
  BY DEF Postflight, PostflightFailed, PostflightReceipt, PostflightIssued,
     PostflightState
<1> QED
  BY <1>1, <1>2, <1>3, <1>4

-----------------------------------------------------------------------------
(* What a step of the phone's operations does to the runs.                 *)

\* A run is left as it was, but for a refusal in its log.
Aside(r) ==
    /\ UNCHANGED <<phase[r], stContract[r], stSource[r], approval[r]>>
    /\ \/ log'[r] = log[r]
       \/ \E e : Grows(r, e) /\ e.type = "remote_confirm_refused"

\* A run that may be approved is brought closer to it.
Opens(r) ==
    /\ phase[r] \notin Terminal /\ phase'[r] \in {phase[r], "approved"}
    /\ \/ log'[r] = log[r]
       \/ \E e : Grows(r, e) /\ e.type = "approval"

\* A step that no command of the lifecycle makes, nor leaves in the middle of one.
Remotely ==
    /\ pc' \in RemoteSteps \cup {"idle"}
    /\ UNCHANGED <<result, exit, startedAt, stReceipt, receipt, history>>
    /\ \A r \in Runs : Aside(r) \/ Opens(r)

\* What a single write of the phone's operations does.
LEMMA NothingWritten ==
    ASSUME pc' \in RemoteSteps \cup {"idle"}, UNCHANGED <<diskVars, history>>
    PROVE  Remotely
  BY DEF Remotely, Aside, diskVars, stateVars

LEMMA Appended ==
    ASSUME RemoteShape, cur \in Runs, NEW t, NEW b, Record(t, b), NEW r \in Runs
    PROVE  IF r = cur THEN Grows(r, [type |-> t, body |-> b]) ELSE log'[r] = log[r]
  BY DEF Record, Grows, RemoteShape, DiskTyped

LEMMA RemotelyNext ==
    ASSUME RemoteShape, [RemoteNext]_allVars, ~(pc \in LocalSteps /\ [Next]_vars)
    PROVE  Remotely
<1> USE DEF RemoteSteps, AnswerSteps
<1>1. ASSUME pc \in RemoteSteps, Leave \/ Tick \/ UNCHANGED vars PROVE Remotely
  <2>1. UNCHANGED <<diskVars, history>> /\ pc' \in {pc, "idle"}
    BY <1>1 DEF Leave, Tick, Finish, vars, opVars, diskVars
  <2> QED
    BY <1>1, <2>1, NothingWritten
<1>2. CASE Lifecycle \/ LeaveRemote \/ UNCHANGED allVars \/ \E r \in Runs : Cancel(r)
  <2>1. Next \/ UNCHANGED vars
    BY <1>2 DEF Lifecycle, LeaveRemote, Cancel, allVars, Next
  <2>2. pc \in RemoteSteps
    BY <2>1 DEF RemoteShape
  <2> QED
    BY <1>1, <2>1, <2>2, NoCommand DEF Next
<1>3. CASE RemoteCommand
  <2>1. UNCHANGED <<diskVars, history>> /\ pc' \in RemoteSteps
    BY <1>3 DEF RemoteCommand, ArmBegin, AnswerBegin, Begin
  <2> QED
    BY <2>1, NothingWritten
<1>4. CASE ArmWrite \/ WrongAnswer \/ ClearPending
  BY <1>4, NothingWritten DEF ArmWrite, WrongAnswer, ClearPending, Finish
<1>5. CASE RightAnswer("settleAnswer", "settleApprove")
           \/ RightAnswer("refuseAnswer", "refuseEvent")
  BY <1>5, NothingWritten DEF RightAnswer, Continue
<1> USE DEF RemoteShape, DiskTyped, Remotely, Aside, Opens, stateVars
<1>6. ASSUME NEW s \in Sources, SettleApprove(s) PROVE Remotely
  BY <1>6 DEF SettleApprove, WriteApproval, Approvable, Continue
<1>7. CASE SettleEvent
  <2>1. cur \in Runs /\ phase[cur] \notin Terminal
    BY <1>7 DEF SettleEvent, Continue
  <2>2. \A r \in Runs : IF r = cur THEN Grows(r, [type |-> "approval", body |-> approval[cur]])
                                   ELSE log'[r] = log[r]
    BY <1>7, <2>1, Appended DEF SettleEvent
  <2> QED
    BY <1>7, <2>1, <2>2 DEF SettleEvent, Continue
<1>8. CASE SettleState
  BY <1>8 DEF SettleState, SetPhase, SetProvenance, Continue
<1>9. CASE RefuseEvent
  <2>1. cur \in Runs
    BY <1>9 DEF RefuseEvent, Continue
  <2> DEFINE e == [type |-> "remote_confirm_refused", body |-> [result |-> "none"]]
  <2>2. \A r \in Runs : IF r = cur THEN Grows(r, e) ELSE log'[r] = log[r]
    BY <1>9, <2>1, Appended DEF RefuseEvent
  <2>3. e.type = "remote_confirm_refused"
    OBVIOUS
  <2> HIDE DEF e
  <2> QED
    BY <1>9, <2>1, <2>2, <2>3 DEF RefuseEvent, Continue
<1> QED
  BY <1>2, <1>3, <1>4, <1>5, <1>6, <1>7, <1>8, <1>9 DEF RemoteNext, Settle, Refuse

-----------------------------------------------------------------------------
(* The shape of the phone's operations.                                    *)

\* An operation of the phone that is over leaves the lifecycle's invariant.
LEMMA OverIsShape ==
    ASSUME DiskTyped', pc' = "idle", cur' = NoRun, seen' = NoLocals
    PROVE  RemoteShape'
  BY DEF RemoteShape, LocalSteps, RemoteSteps, AnswerSteps, Inv, TypeOK, DiskTyped,
         StepsWithLocals, StepShape

LEMMA SettleShape ==
    ASSUME RemoteShape, Settle \/ Refuse PROVE RemoteShape'
<1> USE DEF RemoteShape, DiskTyped, LocalSteps, Steps, RemoteSteps, AnswerSteps, Continue,
            stateVars, diskVars, history
<1>1. CASE RightAnswer("settleAnswer", "settleApprove")
           \/ RightAnswer("refuseAnswer", "refuseEvent")
  BY <1>1 DEF RightAnswer
<1>2. ASSUME NEW s \in Sources, SettleApprove(s) PROVE RemoteShape'
  <2>1. [c |-> seen.c, s |-> seen.s, exp |-> now + TTL, at |-> Len(log[cur]),
         chan |-> "remote_human_confirm"] \in ApprovalDocs
    BY <1>2, NatAssumption DEF SettleApprove, Locals, ApprovalDocs, Channels
  <2> QED
    BY <1>2, <2>1 DEF SettleApprove, WriteApproval, Approvable
<1>3. CASE SettleEvent
  <2>1. [type |-> "approval", body |-> approval[cur]] \in Events
    BY <1>3 DEF SettleEvent, Events
  <2>2. log' \in [Runs -> Seq(Events)]
    BY <1>3, <2>1 DEF SettleEvent, Record
  <2> QED
    BY <1>3, <2>2 DEF SettleEvent
<1>4. CASE SettleState
  BY <1>4 DEF SettleState, SetPhase, SetProvenance, Phases, Locals
<1>5. CASE RefuseEvent
  <2>1. [type |-> "remote_confirm_refused", body |-> [result |-> "none"]] \in Events
    BY DEF Events, Outcomes, Results
  <2>2. log' \in [Runs -> Seq(Events)]
    BY <1>5, <2>1 DEF RefuseEvent, Record
  <2> QED
    BY <1>5, <2>2 DEF RefuseEvent
<1> QED
  BY <1>1, <1>2, <1>3, <1>4, <1>5 DEF Settle, Refuse

\* A step of the lifecycle keeps it within its own steps.
LEMMA StaysLocal ==
    ASSUME RemoteShape, pc \in LocalSteps, [Next]_vars
    PROVE  Inv' /\ pc' \in LocalSteps /\ pc' \notin RemoteSteps /\ pc \notin RemoteSteps
<1>1. Inv'
  BY NextTyped, NextShape DEF RemoteShape, Inv
<1> QED
  BY <1>1 DEF Inv, TypeOK, LocalSteps, RemoteSteps, AnswerSteps, Steps

LEMMA RemoteShapeNext ==
    ASSUME RemoteShape, RemoteTypeOK, [RemoteNext]_allVars PROVE RemoteShape'
<1>1. CASE pc \in LocalSteps /\ [Next]_vars
  BY <1>1, StaysLocal DEF RemoteShape, DiskTyped, Inv, TypeOK, RemoteSteps, AnswerSteps
<1>2. CASE Lifecycle \/ LeaveRemote \/ UNCHANGED allVars \/ \E r \in Runs : Cancel(r)
  <2>1. Next \/ UNCHANGED vars
    BY <1>2 DEF Lifecycle, LeaveRemote, Cancel, allVars, Next
  <2>2. CASE pc \in RemoteSteps
    <3>1. Leave \/ Tick \/ UNCHANGED vars
      BY <2>1, <2>2, NoCommand DEF Next
    <3>2. DiskTyped'
      BY <3>1 DEF RemoteShape, DiskTyped, Leave, Tick, vars, diskVars, stateVars, history
    <3>3. CASE Leave
      BY <3>2, <3>3, OverIsShape DEF Leave, Finish
    <3>4. CASE ~Leave
      <4>1. armed' = armed
        BY <1>2, <3>4 DEF Lifecycle, LeaveRemote, Cancel, allVars, remoteVars, tallies
      <4> QED
        BY <2>2, <3>1, <3>2, <3>4, <4>1 DEF RemoteShape, Tick, vars, diskVars,
           stateVars, opVars, LocalSteps, RemoteSteps, AnswerSteps, Steps
    <3> QED
      BY <3>3, <3>4
  <2> QED
    BY <1>1, <2>1, <2>2 DEF RemoteShape
<1>3. CASE RemoteCommand
  <2>1. PICK r \in Runs, c \in Contracts :
            \/ \E s \in Sources : ArmBegin(r, c, s)
            \/ AnswerBegin(r, c, "settleAnswer")
            \/ AnswerBegin(r, c, "refuseAnswer")
    BY <1>3 DEF RemoteCommand
  <2>2. UNCHANGED <<diskVars, history, now>>
    BY <2>1 DEF ArmBegin, AnswerBegin
  <2>3. cur' \in Runs /\ seen' \in Locals
    <3>1. CASE \E s \in Sources : ArmBegin(r, c, s)
      BY <3>1 DEF ArmBegin, Begin, Hashed, Locals
    <3>2. CASE AnswerBegin(r, c, "settleAnswer") \/ AnswerBegin(r, c, "refuseAnswer")
      <4>1. pending[r].s \in Sources
        BY <3>2 DEF AnswerBegin, Live, RemoteTypeOK, Pendings
      <4> QED
        BY <3>2, <4>1 DEF AnswerBegin, Begin, Hashed, Locals
    <3> QED
      BY <2>1, <3>1, <3>2
  <2>4. /\ pc' \in {"armWrite", "settleAnswer", "refuseAnswer"}
        /\ pc' = "armWrite" => armed' < MaxArms
    BY <2>1 DEF ArmBegin, AnswerBegin, Begin, remoteVars, tallies
  <2>5. DiskTyped'
    BY <2>2 DEF RemoteShape, DiskTyped, diskVars, stateVars, history
  <2> QED
    BY <2>3, <2>4, <2>5 DEF RemoteShape, LocalSteps, Steps, RemoteSteps, AnswerSteps
<1>4. CASE ArmWrite \/ WrongAnswer \/ ClearPending
  <2>1. DiskTyped'
    BY <1>4 DEF ArmWrite, WrongAnswer, ClearPending, RemoteShape, DiskTyped, diskVars,
                stateVars, history
  <2> QED
    BY <1>4, <2>1, OverIsShape DEF ArmWrite, WrongAnswer, ClearPending, Finish
<1> QED
  BY <1>1, <1>2, <1>3, <1>4, SettleShape DEF RemoteNext

-----------------------------------------------------------------------------
(* Types of the pending documents.                                         *)

\* A wrong answer is counted in the copy that was read, and the last allowed
\* one consumes it.
LEMMA FailureCounted ==
    ASSUME NEW p \in Pendings
    PROVE  /\ WithFailure(p) \in Pendings
           /\ WithFailure(p).id = p.id
           /\ WithFailure(p).fails = p.fails + 1
           /\ p.fails + 1 >= MaxAttempts => WithFailure(p).consumed
<1>1. PICK spent : spent = (p.fails + 1 >= MaxAttempts)
  OBVIOUS
<1>2. spent \in BOOLEAN
  BY <1>1
<1>3. [p EXCEPT !.fails = p.fails + 1] \in Pendings
  BY DEF Pendings
<1>4. [p EXCEPT !.fails = p.fails + 1, !.consumed = spent] \in Pendings
  BY <1>2, <1>3, Zenon DEF Pendings
<1>5. WithFailure(p) = [p EXCEPT !.fails = p.fails + 1, !.consumed = spent]
  BY <1>1, Zenon DEF WithFailure
<1>6. /\ WithFailure(p).id = p.id
      /\ WithFailure(p).fails = p.fails + 1
      /\ WithFailure(p).consumed = (p.fails + 1 >= MaxAttempts)
  BY Zenon DEF WithFailure, Pendings
<1>7. p.fails + 1 >= MaxAttempts => WithFailure(p).consumed
  BY <1>6, Zenon
<1> QED
  BY <1>4, <1>5, <1>6, <1>7, Zenon
LEMMA RemoteTypesNext ==
    ASSUME RemoteShape, RemoteTypeOK, [RemoteNext]_allVars PROVE RemoteTypeOK'
<1> USE DEF RemoteTypeOK, remoteVars, tallies
<1>1. CASE Lifecycle \/ UNCHANGED allVars
  <2>1. pc \in AnswerSteps <=> pc' \in AnswerSteps
    <3>1. CASE pc \in LocalSteps
      BY <1>1, <3>1, StaysLocal DEF Lifecycle, Next, allVars, RemoteSteps
    <3>2. CASE pc \in RemoteSteps
      BY <1>1, <3>2, NoCommand DEF Lifecycle, Tick, allVars, vars, opVars
    <3> QED
      BY <3>1, <3>2 DEF RemoteShape
  <2> QED
    BY <1>1, <2>1 DEF Lifecycle, allVars
<1>2. CASE LeaveRemote
  BY <1>2 DEF LeaveRemote, Leave, Finish, AnswerSteps
<1>3. ASSUME NEW r \in Runs, Cancel(r) PROVE RemoteTypeOK'
  <2>1. CancelledNow(r) \subseteq Challenges
    BY <1>3 DEF Cancel, CancelledNow, Pendings
  <2> QED
    BY <1>3, <2>1 DEF Cancel, vars, opVars
<1>4. CASE RemoteCommand
  <2>1. PICK r \in Runs, c \in Contracts :
            \/ \E s \in Sources : ArmBegin(r, c, s)
            \/ AnswerBegin(r, c, "settleAnswer")
            \/ AnswerBegin(r, c, "refuseAnswer")
    BY <1>4 DEF RemoteCommand
  <2>2. CASE \E s \in Sources : ArmBegin(r, c, s)
    BY <2>2 DEF ArmBegin, Begin, AnswerSteps
  <2>3. CASE AnswerBegin(r, c, "settleAnswer") \/ AnswerBegin(r, c, "refuseAnswer")
    <3>1. held' \in Pendings
      BY <2>3 DEF AnswerBegin, Live
    <3> QED
      BY <2>3, <3>1 DEF AnswerBegin, Begin, AnswerSteps
  <2> QED
    BY <2>1, <2>2, <2>3
<1>5. CASE ArmWrite
  <2>1. armed + 1 \in Challenges /\ seen.c \in Contracts /\ seen.s \in Sources
        /\ now + ChallengeTTL \in Nat
    BY <1>5, RemoteAssumption DEF ArmWrite, RemoteShape, DiskTyped, RemoteSteps, Locals, Challenges
  <2>2. [id |-> armed', c |-> seen.c, s |-> seen.s, exp |-> now + ChallengeTTL,
         fails |-> 0, consumed |-> FALSE] \in Pendings
    BY <1>5, <2>1 DEF ArmWrite, Pendings
  <2>3. pending' \in [Runs -> Pendings \cup {NoPending}]
    BY <1>5, <2>2 DEF ArmWrite, SetPending
  <2> QED
    BY <1>5, <2>1, <2>3 DEF ArmWrite, Finish, AnswerSteps, Challenges
<1>6. CASE WrongAnswer
  <2>1. held \in Pendings
    BY <1>6 DEF WrongAnswer, AnswerSteps
  <2>2. WithFailure(held) \in Pendings
    BY <2>1, FailureCounted
  <2>3. pending' \in [Runs -> Pendings \cup {NoPending}]
    BY <1>6, <2>2 DEF WrongAnswer, SetPending
  <2>4. wrong' \in [Challenges -> Nat]
    BY <1>6, <2>1 DEF WrongAnswer, Pendings
  <2> QED
    BY <1>6, <2>3, <2>4 DEF WrongAnswer, Finish, AnswerSteps
<1>7. CASE RightAnswer("settleAnswer", "settleApprove")
           \/ RightAnswer("refuseAnswer", "refuseEvent")
  <2>1. held \in Pendings
    BY <1>7 DEF RightAnswer, Continue, AnswerSteps
  <2>2. Consumed(held) \in Pendings
    BY <2>1 DEF Consumed, Pendings
  <2> QED
    BY <1>7, <2>1, <2>2 DEF RightAnswer, Continue, SetPending, AnswerSteps
<1>8. ASSUME NEW s \in Sources, SettleApprove(s) PROVE RemoteTypeOK'
  BY <1>8 DEF SettleApprove, Continue, AnswerSteps, Pendings
<1>9. CASE SettleEvent \/ SettleState
  BY <1>9 DEF SettleEvent, SettleState, Continue, AnswerSteps
<1>10. CASE RefuseEvent
  BY <1>10 DEF RefuseEvent, Continue, AnswerSteps, Pendings
<1>11. CASE ClearPending
  BY <1>11 DEF ClearPending, SetPending, Finish, AnswerSteps
<1> QED
  BY <1>1, <1>2, <1>3, <1>4, <1>5, <1>6, <1>7, <1>8, <1>9, <1>10, <1>11
     DEF RemoteNext, Settle, Refuse

RemoteInv == RemoteShape /\ RemoteTypeOK

\* Whatever crashes, expires or is cancelled: the documents of the lifecycle and
\* of the phone have their types, the guards the operation in flight began with
\* still stand, and an operation of the phone holds a copy of the challenge just
\* as long as it answers.
THEOREM RemoteTypes == RemoteSpec => []RemoteInv
<1>1. RemoteInit => RemoteInv
  <2> SUFFICES ASSUME RemoteInit PROVE RemoteInv
    OBVIOUS
  <2>1. Inv
    BY InitTyped DEF RemoteInit, Inv, Init, StepShape
  <2>2. RemoteTypeOK
    BY RemoteAssumption DEF RemoteInit, Init, RemoteTypeOK, AnswerSteps
  <2> QED
    BY <2>1, <2>2, InvIsShape DEF RemoteInv
<1>2. RemoteInv /\ [RemoteNext]_allVars => RemoteInv'
  BY RemoteShapeNext, RemoteTypesNext DEF RemoteInv
<1> QED
  BY <1>1, <1>2, PTL DEF RemoteSpec

-----------------------------------------------------------------------------
(* The guarantees of the lifecycle stand beside the phone.                 *)

LEMMA RemoteLogged == RemoteShape => Logged
  BY DEF RemoteShape, DiskTyped, Logged

\* A run that was started, or is closed, is at most refused.
LEMMA TerminalAside ==
    ASSUME Remotely, NEW r \in Runs, phase[r] \in Terminal \/ phase'[r] \in Terminal
    PROVE  Aside(r)
  BY DEF Remotely, Aside, Opens, Terminal

LEMMA RemoteEvent ==
    ASSUME Remotely, NEW r \in Runs
    PROVE  \/ log'[r] = log[r]
           \/ \E e : Grows(r, e) /\ e.type \in {"approval", "remote_confirm_refused"}
  BY DEF Remotely, Aside, Opens

LEMMA RemoteLaunchCount ==
    ASSUME RemoteShape, LaunchCount, Remotely PROVE LaunchCount'
<1> SUFFICES ASSUME NEW r \in Runs, ~unconfirmed'[r]
             PROVE  /\ phase'[r] # "cleanup_pending"
                    /\ launches'[r] <= 1
                    /\ phase'[r] \in Launchable => launches'[r] = 0
  BY DEF LaunchCount, Remotely, RemoteSteps, AnswerSteps
<1>1. /\ ~unconfirmed[r] /\ launches'[r] = launches[r]
      /\ phase[r] \in Phases
  BY DEF Remotely, history, RemoteShape, DiskTyped
<1>2. /\ phase[r] # "cleanup_pending" /\ launches[r] <= 1
      /\ phase[r] \in Launchable => launches[r] = 0
  BY <1>1 DEF LaunchCount
<1>3. CASE Aside(r)
  BY <1>1, <1>2, <1>3 DEF Aside
<1>4. CASE Opens(r)
  BY <1>1, <1>2, <1>4 DEF Opens, Terminal, Phases, Launchable
<1> QED
  BY <1>3, <1>4 DEF Remotely

LEMMA RemoteApprovalStands ==
    ASSUME RemoteShape, ApprovalStands, Remotely PROVE ApprovalStands'
<1>1. pc' \notin Steps
  BY DEF Remotely, RemoteSteps, AnswerSteps, Steps
<1> SUFFICES ASSUME NEW r \in Runs, phase'[r] \in Launched PROVE Stands(r)'
  BY <1>1 DEF ApprovalStands, Steps
<1>2. Aside(r)
  BY TerminalAside DEF Launched, Terminal
<1>3. Stands(r)
  BY <1>2 DEF Aside, ApprovalStands
<1>4. r \in Matched'
  BY <1>2, <1>3, MatchKept, RemoteLogged DEF Aside, Stands
<1> QED
  BY <1>2, <1>3, <1>4 DEF Aside, Stands, Remotely

LEMMA RemoteStarts ==
    ASSUME RemoteShape, RunStartsApproved, Remotely PROVE RunStartsApproved'
<1> SUFFICES ASSUME NEW r \in Runs, NEW i \in DOMAIN log'[r],
                    log'[r][i].type = "run_start"
             PROVE  Approved(r, i)'
  BY DEF RunStartsApproved, Approved
<1>1. CASE log'[r] = log[r]
  BY <1>1 DEF RunStartsApproved, Approved
<1>2. ASSUME NEW e, Grows(r, e), e.type \in {"approval", "remote_confirm_refused"}
      PROVE  Approved(r, i)'
  <2> DEFINE n == Len(log[r])
  <2>1. /\ n \in Nat /\ DOMAIN log[r] = 1..n /\ i \in 1..(n + 1)
        /\ \A k \in 1..n : log'[r][k] = log[r][k]
        /\ log'[r][n + 1] = e
    BY <1>2, GrowsKeeps, RemoteLogged
  <2> HIDE DEF n
  <2>2. i \in DOMAIN log[r] /\ log[r][i].type = "run_start"
    BY <1>2, <2>1
  <2>3. Approved(r, i)
    BY <2>2 DEF RunStartsApproved, Approved
  <2> QED
    BY <1>2, <2>2, <2>3, ApprovedKept, RemoteLogged
<1> QED
  BY <1>1, <1>2, RemoteEvent

LEMMA RemoteStartsStand ==
    ASSUME RemoteShape, StartsStand, Remotely PROVE StartsStand'
<1>1. pc' \notin Steps
  BY DEF Remotely, RemoteSteps, AnswerSteps, Steps
<1> SUFFICES ASSUME NEW r \in Runs, phase'[r] \in Launched
             PROVE  <<stContract'[r], stSource'[r]>> \in Started(r)'
  BY <1>1 DEF StartsStand, Steps
<1>2. Aside(r)
  BY TerminalAside DEF Launched, Terminal
<1>3. <<stContract[r], stSource[r]>> \in Started(r)
  BY <1>2 DEF Aside, StartsStand
<1>4. Started(r) \subseteq Started(r)'
  <2>1. CASE log'[r] = log[r]
    BY <2>1 DEF Started
  <2>2. ASSUME NEW e, Grows(r, e), e.type = "remote_confirm_refused"
        PROVE  Started(r) \subseteq Started(r)'
    BY <2>2, StartKept, RemoteLogged
  <2> QED
    BY <1>2, <2>1, <2>2 DEF Aside
<1> QED
  BY <1>2, <1>3, <1>4 DEF Aside

LEMMA RemoteExitStands ==
    ASSUME ExitStands, Remotely PROVE ExitStands'
<1>1. pc' \notin Steps
  BY DEF Remotely, RemoteSteps, AnswerSteps, Steps
<1>2. \A r \in Runs : phase'[r] = "postflighted" => phase[r] = "postflighted"
  BY TerminalAside DEF Terminal, Aside
<1> QED
  BY <1>1, <1>2 DEF ExitStands, Remotely, history, Steps

\* An event of the lifecycle that stands in the log was there before.
LEMMA OldEvent ==
    ASSUME RemoteShape, Remotely, NEW r \in Runs, NEW i \in DOMAIN log'[r],
           log'[r][i].type \notin {"approval", "remote_confirm_refused"}
    PROVE  i \in DOMAIN log[r] /\ log'[r][i] = log[r][i]
<1>1. ASSUME NEW e, Grows(r, e), e.type \in {"approval", "remote_confirm_refused"}
      PROVE  i \in DOMAIN log[r] /\ log'[r][i] = log[r][i]
  BY <1>1, GrowsKeeps, RemoteLogged
<1> QED
  BY <1>1, RemoteEvent

LEMMA RemoteFailureStands ==
    ASSUME RemoteShape, FailureStands, Remotely PROVE FailureStands'
<1>1. ASSUME NEW r \in Runs, phase'[r] \in {"completed", "postflighted"}
      PROVE  result'[r] = "completed"
  BY <1>1, TerminalAside DEF Terminal, Aside, FailureStands, Remotely
<1>2. ASSUME NEW r \in Runs, NEW i \in DOMAIN log'[r], log'[r][i].type = "run_ended",
             log'[r][i].body.result # "completed"
      PROVE  phase'[r] = "failed" /\ result'[r] # "completed"
  <2>1. phase[r] = "failed" /\ result[r] # "completed"
    BY <1>2, OldEvent DEF FailureStands
  <2> QED
    BY <2>1, TerminalAside DEF Terminal, Aside, Remotely
<1> QED
  BY <1>1, <1>2 DEF FailureStands

LEMMA RemoteAbandonStands ==
    ASSUME RemoteShape, AbandonStands, Remotely PROVE AbandonStands'
<1>1. pc' \notin Steps
  BY DEF Remotely, RemoteSteps, AnswerSteps, Steps
<1> SUFFICES ASSUME NEW r \in Runs, NEW i \in DOMAIN log'[r],
                    log'[r][i].type = "recovery_abandon", ~unconfirmed'[r]
             PROVE  phase'[r] \in {"running", "abandoned"}
  BY <1>1 DEF AbandonStands, Steps
<1>2. phase[r] \in {"running", "abandoned"}
  BY OldEvent DEF AbandonStands, Remotely, history
<1> QED
  BY <1>2, TerminalAside DEF Terminal, Aside

LEMMA RemoteFate ==
    ASSUME RemoteShape, Remotely PROVE UNCHANGED fates
<1>1. ASSUME NEW r \in Runs PROVE FateOf(r)' = FateOf(r)
  <2>1. CASE Aside(r)
    BY <2>1 DEF Aside, FateOf, Remotely
  <2>2. CASE Opens(r)
    BY <2>2 DEF Opens, FateOf, Terminal, RemoteShape, DiskTyped, Phases
  <2> QED
    BY <2>1, <2>2 DEF Remotely
<1> QED
  BY <1>1 DEF fates

-----------------------------------------------------------------------------
(* What is left of a receipt beside the phone.                             *)

\* The receipt of a postflighted run was issued, still names what state.json and
\* the approval say, and nothing but refusals follows it in the log.
Certified(r) ==
    LET h == receipt[r].head IN
    /\ receipt[r] # NoReceipt /\ stReceipt[r] = receipt[r]
    /\ stContract[r] = receipt[r].c /\ stSource[r] = receipt[r].s
    /\ h \in Nat /\ h \in DOMAIN log[r] /\ h + 1 \in DOMAIN log[r]
    /\ log[r][h].type = "postflight_assertions_ok"
    /\ log[r][h + 1].type = "certificate_issued" /\ log[r][h + 1].body = receipt[r]
    /\ \A i \in (h + 2)..Len(log[r]) : log[r][i].type = "remote_confirm_refused"
    /\ approval[r] # NoApproval /\ r \in Matched
    /\ receipt[r].exp = approval[r].exp /\ receipt[r].chan = approval[r].chan

ReceiptsCertified == \A r \in Runs : phase[r] = "postflighted" => Certified(r)

\* A receipt that verifies is one that no refusal followed yet.
LEMMA VerifiedIsCertified ==
    ASSUME Inv', NEW r \in Runs, ReceiptVerifies(r)' PROVE Certified(r)'
<1> DEFINE h == receipt'[r].head
<1>1. h \in Nat /\ receipt'[r] # NoReceipt
  BY DEF ReceiptVerifies, Inv, TypeOK, Receipts
<1>2. /\ Len(log'[r]) = h + 1 /\ h \in DOMAIN log'[r]
      /\ log'[r][h].type = "postflight_assertions_ok"
      /\ log'[r][h + 1].type = "certificate_issued"
      /\ log'[r][h + 1].body = receipt'[r]
  BY DEF ReceiptVerifies, IssuanceOrdered
<1>3. DOMAIN log'[r] = 1..Len(log'[r])
  BY DEF Inv, TypeOK
<1>4. h + 1 \in DOMAIN log'[r] /\ (h + 2)..Len(log'[r]) = {}
  BY <1>1, <1>2, <1>3
<1> QED
  BY <1>1, <1>2, <1>4 DEF Certified, ReceiptVerifies, Matched

LEMMA RemoteCertified ==
    ASSUME RemoteShape, ReceiptsCertified, Remotely PROVE ReceiptsCertified'
<1> SUFFICES ASSUME NEW r \in Runs, phase'[r] = "postflighted" PROVE Certified(r)'
  BY DEF ReceiptsCertified
<1> DEFINE h == receipt[r].head
           n == Len(log[r])
<1>1. Aside(r) /\ Certified(r)
  BY TerminalAside DEF Terminal, Aside, ReceiptsCertified
<1>2. r \in Matched'
  BY <1>1, MatchKept, RemoteLogged DEF Aside, Certified
<1>3. CASE log'[r] = log[r]
  BY <1>1, <1>2, <1>3 DEF Aside, Certified, Remotely
<1>4. ASSUME NEW e, Grows(r, e), e.type = "remote_confirm_refused" PROVE Certified(r)'
  <2>1. /\ n \in Nat /\ DOMAIN log[r] = 1..n /\ DOMAIN log'[r] = 1..(n + 1)
        /\ \A k \in 1..n : log'[r][k] = log[r][k]
        /\ log'[r][n + 1] = e /\ Len(log'[r]) = n + 1
    BY <1>4, GrowsKeeps, RemoteLogged DEF Grows, Logged
  <2>2. /\ h \in Nat /\ h \in 1..n /\ h + 1 \in 1..n
        /\ \A i \in (h + 2)..n : log[r][i].type = "remote_confirm_refused"
    BY <1>1, <2>1 DEF Certified
  <2> HIDE DEF n, h
  <2>3. \A i \in (h + 2)..(n + 1) : i = n + 1 \/ (i \in (h + 2)..n /\ i \in 1..n)
    BY <2>1, <2>2
  <2>4. \A i \in (h + 2)..(n + 1) : log'[r][i].type = "remote_confirm_refused"
    BY <1>4, <2>1, <2>2, <2>3
  <2>5. /\ h \in DOMAIN log'[r] /\ h + 1 \in DOMAIN log'[r]
        /\ log'[r][h] = log[r][h] /\ log'[r][h + 1] = log[r][h + 1]
    BY <2>1, <2>2
  <2> QED
    BY <1>1, <1>2, <2>1, <2>2, <2>4, <2>5 DEF Certified, Aside, Remotely, h
<1> QED
  BY <1>1, <1>3, <1>4 DEF Aside

LEMMA LocalCertified ==
    ASSUME Inv, ApprovalStands, Issuing, ReceiptsCertified, [Next]_vars
    PROVE  ReceiptsCertified'
<1> SUFFICES ASSUME NEW r \in Runs, phase'[r] = "postflighted" PROVE Certified(r)'
  BY DEF ReceiptsCertified
<1>1. CASE phase[r] = "postflighted"
  <2>1. Certified(r) /\ Untouched(r) /\ UNCHANGED <<stContract[r], stSource[r], stReceipt[r]>>
    BY <1>1, ClosedStep, ClosedState DEF ReceiptsCertified
  <2> QED
    BY <2>1 DEF Certified, Untouched, Matched, MatchesLatestEvent
<1>2. CASE phase[r] # "postflighted"
  <2>1. ReceiptVerifies(r)'
    BY <1>2, NewlyPostflighted, NowVerifies
  <2>2. Inv'
    BY NextTyped, NextShape DEF Inv
  <2> QED
    BY <2>1, <2>2, VerifiedIsCertified
<1> QED
  BY <1>1, <1>2

-----------------------------------------------------------------------------
(* Theorems about the lifecycle beside the phone.                          *)

Guarantees ==
    /\ LaunchCount /\ ApprovalStands /\ RunStartsApproved /\ Issuing
    /\ StartsStand /\ ExitStands /\ FailureStands /\ AbandonStands
    /\ ReceiptsCertified

LEMMA GuaranteesNext ==
    ASSUME RemoteInv, Guarantees, [RemoteNext]_allVars PROVE Guarantees'
<1> USE DEF Guarantees
<1>1. CASE pc \in LocalSteps /\ [Next]_vars
  <2>1. Inv
    BY <1>1 DEF RemoteInv, RemoteShape
  <2> QED
    BY <1>1, <2>1, LaunchCountNext, ApprovalStandsNext, StartsNext, IssuingNext,
       StartsStandNext, ExitStandsNext, FailureStandsNext, AbandonStandsNext,
       LocalCertified
<1>2. CASE ~(pc \in LocalSteps /\ [Next]_vars)
  <2>1. RemoteShape /\ Remotely
    BY <1>2, RemotelyNext DEF RemoteInv
  <2>2. Issuing'
    BY <2>1 DEF Remotely, RemoteSteps, AnswerSteps, Issuing
  <2> QED
    BY <2>1, <2>2, RemoteLaunchCount, RemoteApprovalStands, RemoteStarts,
       RemoteStartsStand, RemoteExitStands, RemoteFailureStands, RemoteAbandonStands,
       RemoteCertified
<1> QED
  BY <1>1, <1>2

LEMMA Guaranteed == RemoteSpec => [](RemoteInv /\ Guarantees)
<1>1. RemoteInit => Guarantees
  BY DEF RemoteInit, Init, Guarantees, LaunchCount, ApprovalStands, Launched,
         RunStartsApproved, Issuing, StartsStand, ExitStands, FailureStands,
         AbandonStands, ReceiptsCertified
<1>2. RemoteInv /\ Guarantees /\ [RemoteNext]_allVars => Guarantees'
  BY GuaranteesNext
<1> QED
  BY <1>1, <1>2, RemoteTypes, PTL DEF RemoteSpec

\* However a phone answers, and whatever is cancelled, crashes or expires: what a
\* postflighted run's receipt rests on is lost only to a refusal logged after it.
THEOREM RefusalTheorem == RemoteSpec => []ReceiptLostOnlyToRefusal
<1>1. Guarantees => ReceiptLostOnlyToRefusal
  <2> SUFFICES ASSUME Guarantees, NEW r \in Runs, phase[r] = "postflighted"
               PROVE  Certified(r)
    BY DEF ReceiptLostOnlyToRefusal, Certified, Matched
  <2> QED
    BY DEF Guarantees, ReceiptsCertified
<1> QED
  BY <1>1, Guaranteed, PTL

\* And a receipt that no refusal followed verifies.
UnrefusedVerifies ==
    \A r \in Runs :
        /\ phase[r] = "postflighted"
        /\ \A i \in DOMAIN log[r] : i > receipt[r].head =>
               log[r][i].type # "remote_confirm_refused"
        => ReceiptVerifies(r)

THEOREM UnrefusedTheorem == RemoteSpec => []UnrefusedVerifies
<1>1. RemoteInv /\ Guarantees => UnrefusedVerifies
  <2> SUFFICES ASSUME RemoteInv, Guarantees, NEW r \in Runs, phase[r] = "postflighted",
                      \A i \in DOMAIN log[r] : i > receipt[r].head =>
                          log[r][i].type # "remote_confirm_refused"
               PROVE  ReceiptVerifies(r)
    BY DEF UnrefusedVerifies
  <2> DEFINE h == receipt[r].head
             n == Len(log[r])
  <2>1. Certified(r)
    BY DEF Guarantees, ReceiptsCertified
  <2>2. n \in Nat /\ DOMAIN log[r] = 1..n
    BY DEF RemoteInv, RemoteShape, DiskTyped
  <2>3. /\ h \in Nat /\ h \in 1..n /\ h + 1 \in 1..n
        /\ \A i \in (h + 2)..n : log[r][i].type = "remote_confirm_refused"
        /\ \A i \in 1..n : i > h => log[r][i].type # "remote_confirm_refused"
    BY <2>1, <2>2 DEF Certified
  <2> HIDE DEF n, h
  <2>4. n = h + 1
    BY <2>2, <2>3
  <2> QED
    BY <2>1, <2>4 DEF Certified, ReceiptVerifies, IssuanceOrdered, Matched, n, h
<1> QED
  BY <1>1, Guaranteed, PTL

\* A phone's approval lets no run be launched a second time.
THEOREM RemoteRelaunchTheorem == RemoteSpec => []RelaunchOnlyAfterUnconfirmed
<1>1. RemoteInv /\ Guarantees => RelaunchOnlyAfterUnconfirmed
  BY DEF RemoteInv, RemoteShape, DiskTyped, Guarantees, LaunchCount,
         RelaunchOnlyAfterUnconfirmed
<1> QED
  BY <1>1, Guaranteed, PTL

\* A launched run answers for its approval, at the terminal or on the phone: what a
\* settle writes never replaces the approval it was launched with.
THEOREM RemoteLaunchTheorem == RemoteSpec => []LaunchWasApproved
<1>1. Guarantees => LaunchWasApproved
  BY DEF Guarantees, ApprovalStands, Stands, Matched, LaunchWasApproved
<1> QED
  BY <1>1, Guaranteed, PTL

\* The log shows the approval before each start, whichever channel it came by.
THEOREM RemoteStartsTheorem == RemoteSpec => []RunStartsApproved
<1>1. Guarantees => RunStartsApproved
  BY DEF Guarantees
<1> QED
  BY <1>1, Guaranteed, PTL

\* A receipt, refused or not, is that of the launch that happened.
THEOREM RemoteBindsTheorem == RemoteSpec => []ReceiptBindsLaunch
<1>1. Guarantees => ReceiptBindsLaunch
  BY BindsLaunch DEF Guarantees, ReceiptsCertified, Certified
<1> QED
  BY <1>1, Guaranteed, PTL

\* Seen through FateOf, settle and refuse are no moves at all: the lifecycle with a
\* phone beside it still implements RunFate.
THEOREM RemoteFateTheorem == RemoteSpec => ImplementsFate
<1>1. RemoteInit => Fate!Init
  BY DEF RemoteInit, Init, Fate!Init, FateOf
<1>2. RemoteInv /\ [RemoteNext]_allVars => [Fate!Next]_fates
  <2> SUFFICES ASSUME RemoteInv, [RemoteNext]_allVars PROVE [Fate!Next]_fates
    OBVIOUS
  <2>1. CASE pc \in LocalSteps /\ [Next]_vars
    BY <2>1, FateNext DEF RemoteInv, RemoteShape
  <2>2. CASE ~(pc \in LocalSteps /\ [Next]_vars)
    BY <2>2, RemotelyNext, RemoteFate DEF RemoteInv
  <2> QED
    BY <2>1, <2>2
<1> QED
  BY <1>1, <1>2, RemoteTypes, PTL DEF RemoteSpec, ImplementsFate, Fate!Spec, fates

\* No step of any operation changes a closed run, but a refusal that adds its
\* event: what ClosedIsFinal leaves of itself beside the phone.
RefusedAtMost(r) ==
    /\ phase'[r] = phase[r] /\ receipt'[r] = receipt[r] /\ approval'[r] = approval[r]
    /\ \/ log'[r] = log[r]
       \/ \E e : Grows(r, e) /\ e.type = "remote_confirm_refused"
ClosedButRefused ==
    [][\A r \in Runs : phase[r] \in {"postflighted", "abandoned"} =>
          RefusedAtMost(r)]_vars

THEOREM ClosedButRefusedTheorem == RemoteSpec => ClosedButRefused
<1>1. RemoteInv /\ [RemoteNext]_allVars =>
        [\A r \in Runs : phase[r] \in {"postflighted", "abandoned"} =>
             RefusedAtMost(r)]_vars
  <2> SUFFICES ASSUME RemoteInv, [RemoteNext]_allVars, NEW r \in Runs,
                      phase[r] \in {"postflighted", "abandoned"}
               PROVE  RefusedAtMost(r)
    OBVIOUS
  <2>1. CASE pc \in LocalSteps /\ [Next]_vars
    BY <2>1, ClosedStep DEF RemoteInv, RemoteShape, Untouched, RefusedAtMost
  <2>2. CASE ~(pc \in LocalSteps /\ [Next]_vars)
    BY <2>2, RemotelyNext, TerminalAside
       DEF RemoteInv, Terminal, Aside, Remotely, RefusedAtMost
  <2> QED
    BY <2>1, <2>2
<1> QED
  BY <1>1, RemoteTypes, PTL DEF RemoteSpec, ClosedButRefused

-----------------------------------------------------------------------------
(* The fate of a challenge.                                                *)

\* The copy p of a challenge is open: it counts every wrong answer so far, there
\* may be one more, and nothing was written for it.
Unanswered(p) ==
    /\ wrong[p.id] = p.fails /\ p.fails < MaxAttempts
    /\ granted[p.id] = 0 /\ refusals[p.id] = 0

Waiting(r) == pending[r] # NoPending /\ ~pending[r].consumed

\* A challenge number is used once: no two documents have it, nor the copy in
\* flight and the document of another run.
OwnChallenge ==
    /\ \A r \in Runs : pending[r] # NoPending =>
          /\ pending[r].id <= armed
          /\ \A q \in Runs \ {r} :
                pending[q] # NoPending => pending[q].id # pending[r].id
    /\ pc \in AnswerSteps =>
          /\ held.id <= armed
          /\ \A q \in Runs \ {cur} : pending[q] # NoPending => pending[q].id # held.id
    /\ \A id \in Challenges : id > armed =>
          wrong[id] = 0 /\ granted[id] = 0 /\ refusals[id] = 0

\* What makes OneFate inductive: a document that can still be answered was not,
\* nor was the copy an answer is judged by; and once it was judged right the
\* document cannot be answered again, even if the answer is never written.
OpenUntilAnswered ==
    /\ \A r \in Runs : Waiting(r) => Unanswered(pending[r])
    /\ pc \in {"settleAnswer", "refuseAnswer", "settleApprove", "refuseEvent"} =>
          Unanswered(held)
    /\ pc \in AnswerSteps \ {"settleAnswer", "refuseAnswer"} => ~Waiting(cur)

\* What makes CancelledGrantRaced inductive: a challenge cancelled while nobody held
\* a copy of it is gone.
CancelledGone ==
    /\ \A id \in cancelled : id <= armed
    /\ \A id \in cancelled \ raced :
          /\ granted[id] = 0
          /\ \A r \in Runs : Waiting(r) => pending[r].id # id
          /\ pc \in AnswerSteps => held.id # id

Fates == OwnChallenge /\ OpenUntilAnswered /\ OneFate /\ CancelledGone
JudgingSteps == {"settleAnswer", "refuseAnswer"}
OpenSteps == {"settleAnswer", "refuseAnswer", "settleApprove", "refuseEvent"}

LEMMA StepNames ==
    /\ JudgingSteps \subseteq OpenSteps /\ OpenSteps \subseteq AnswerSteps
    /\ "idle" \notin AnswerSteps /\ "armWrite" \notin AnswerSteps
  BY DEF JudgingSteps, OpenSteps, AnswerSteps

\* A step that leaves the documents and the tallies, and at most moves on within an
\* answer that was judged.
LEMMA FatesFrame ==
    ASSUME Fates, UNCHANGED <<pending, tallies>>,
           pc' \in AnswerSteps =>
               /\ pc \in AnswerSteps /\ held' = held /\ cur' = cur
               /\ pc' = pc \/ (pc' \notin OpenSteps /\ pc \notin JudgingSteps)
    PROVE  Fates'
<1> USE DEF Fates, tallies
<1>1. OwnChallenge'
  BY DEF OwnChallenge
<1>2. OpenUntilAnswered'
  BY StepNames DEF OpenUntilAnswered, Waiting, Unanswered, OpenSteps, JudgingSteps
<1>3. OneFate' /\ CancelledGone'
  BY DEF OneFate, CancelledGone, Waiting
<1> QED
  BY <1>1, <1>2, <1>3

\* Settle and refuse begin with a copy of a document that waits for an answer.
LEMMA BeginFates ==
    ASSUME RemoteInv, Fates, NEW r \in Runs, NEW c \in Contracts, NEW step \in JudgingSteps,
           AnswerBegin(r, c, step)
    PROVE  Fates'
<1> USE DEF Fates, tallies
<1>1. /\ UNCHANGED <<pending, tallies>> /\ held' = pending[r] /\ cur' = r /\ pc' = step
      /\ Waiting(r)
  BY DEF AnswerBegin, Begin, Live, Waiting
<1>2. OwnChallenge'
  BY <1>1 DEF OwnChallenge, Waiting
<1>3. OpenUntilAnswered'
  BY <1>1 DEF OpenUntilAnswered, Waiting, Unanswered, JudgingSteps
<1>4. OneFate' /\ CancelledGone'
  BY <1>1 DEF OneFate, CancelledGone, Waiting
<1> QED
  BY <1>2, <1>3, <1>4

\* A new challenge has a number of its own, and no fate yet.
LEMMA ArmFates ==
    ASSUME RemoteInv, Fates, ArmWrite PROVE Fates'
<1> USE DEF Fates
<1> DEFINE new == [id |-> armed + 1, c |-> seen.c, s |-> seen.s,
                   exp |-> now + ChallengeTTL, fails |-> 0, consumed |-> FALSE]
<1>1. /\ armed \in Nat /\ armed' = armed + 1 /\ armed + 1 \in Challenges /\ cur \in Runs
      /\ UNCHANGED <<wrong, granted, refusals, cancelled, raced>>
      /\ pc' \notin AnswerSteps
  BY RemoteAssumption DEF ArmWrite, Finish, AnswerSteps, RemoteInv, RemoteTypeOK, RemoteShape,
         RemoteSteps, Challenges
<1>1a. \A r \in Runs : pending'[r] = IF r = cur THEN new ELSE pending[r]
  BY <1>1 DEF ArmWrite, SetPending, RemoteInv, RemoteTypeOK
<1>2. new.id = armed + 1 /\ new.fails = 0
  OBVIOUS
<1>3. /\ wrong[armed + 1] = 0 /\ granted[armed + 1] = 0 /\ refusals[armed + 1] = 0
  BY <1>1 DEF OwnChallenge
<1>4. \A r \in Runs : pending[r] # NoPending => pending[r].id \in Nat /\ pending[r].id <= armed
  BY DEF OwnChallenge, RemoteInv, RemoteTypeOK, Pendings, Challenges
<1>5. cancelled \subseteq Nat
  BY DEF RemoteInv, RemoteTypeOK, Challenges
<1> HIDE DEF new
<1>6. OwnChallenge'
  BY <1>1a, <1>1, <1>2, <1>4 DEF OwnChallenge, Challenges
<1>7. OpenUntilAnswered'
  BY <1>1a, <1>1, <1>2, <1>3, RemoteAssumption, StepNames
     DEF OpenUntilAnswered, Waiting, Unanswered, OpenSteps
<1>8. OneFate'
  BY <1>1 DEF OneFate
<1>9. CancelledGone'
  BY <1>1a, <1>1, <1>2, <1>4, <1>5 DEF CancelledGone, Waiting
<1> QED
  BY <1>6, <1>7, <1>8, <1>9

\* A wrong answer is counted; the document it is written to may have been cancelled.
LEMMA WrongFates ==
    ASSUME RemoteInv, Fates, WrongAnswer PROVE Fates'
<1> USE DEF Fates
<1> DEFINE p == WithFailure(held)
<1>1. pc \in JudgingSteps /\ held \in Pendings /\ cur \in Runs
  BY DEF WrongAnswer, JudgingSteps, AnswerSteps, RemoteInv, RemoteTypeOK, RemoteShape, RemoteSteps
<1>2. /\ p.id = held.id /\ p.fails = held.fails + 1
      /\ held.fails + 1 >= MaxAttempts => p.consumed
  BY <1>1, FailureCounted
<1>3. /\ UNCHANGED <<armed, granted, refusals, cancelled, raced>>
      /\ pc' \notin AnswerSteps
      /\ \A r \in Runs : pending'[r] = IF r = cur THEN p ELSE pending[r]
      /\ \A id \in Challenges :
            wrong'[id] = IF id = held.id THEN wrong[id] + 1 ELSE wrong[id]
  BY <1>1 DEF WrongAnswer, SetPending, Finish, AnswerSteps, RemoteInv, RemoteTypeOK
<1>4. /\ wrong[held.id] = held.fails /\ held.fails < MaxAttempts /\ held.fails \in Nat
      /\ granted[held.id] = 0 /\ refusals[held.id] = 0 /\ held.id \in Challenges
      /\ held.id <= armed
      /\ \A q \in Runs \ {cur} : pending[q] # NoPending => pending[q].id # held.id
  BY <1>1, StepNames DEF OpenUntilAnswered, OwnChallenge, Unanswered, JudgingSteps, Pendings
<1>5. MaxAttempts \in Nat /\ armed \in Nat /\ Challenges \subseteq Nat
  BY RemoteAssumption DEF RemoteInv, RemoteTypeOK, Challenges
<1>6. \A r \in Runs : pending[r] # NoPending => pending[r].id \in Challenges
  BY DEF RemoteInv, RemoteTypeOK, Pendings
<1> HIDE DEF p
<1>7. OwnChallenge'
  <2>1. p.id = held.id
    BY <1>2
  <2>2. \A id \in Challenges : id > armed => id # held.id
    BY <1>4, <1>5
  <2>3. \A id \in Challenges : id > armed => wrong'[id] = 0
    BY <1>3, <2>2 DEF OwnChallenge
  <2> QED
    BY <1>3, <1>4, <2>1, <2>3 DEF OwnChallenge
<1>8. OpenUntilAnswered'
  <2>1. p.consumed \/ held.fails + 1 < MaxAttempts
    BY <1>2, <1>4, <1>5
  <2> QED
    BY <1>2, <1>3, <1>4, <1>6, <2>1, StepNames
       DEF OpenUntilAnswered, Waiting, Unanswered, OpenSteps
<1>9. OneFate'
  <2> SUFFICES ASSUME NEW id \in Challenges
               PROVE  /\ granted'[id] + refusals'[id] <= 1
                      /\ granted'[id] + refusals'[id] = 1 => wrong'[id] < MaxAttempts
                      /\ wrong'[id] <= MaxAttempts
    BY DEF OneFate
  <2>1. CASE id = held.id
    BY <1>3, <1>4, <1>5, <2>1
  <2>2. CASE id # held.id
    BY <1>3, <2>2 DEF OneFate
  <2> QED
    BY <2>1, <2>2
<1>10. CancelledGone'
  BY <1>1, <1>2, <1>3, StepNames DEF CancelledGone, Waiting
<1> QED
  BY <1>7, <1>8, <1>9, <1>10

\* A right answer consumes the document before anything is written for it.
LEMMA RightFates ==
    ASSUME RemoteInv, Fates,
           \/ RightAnswer("settleAnswer", "settleApprove")
           \/ RightAnswer("refuseAnswer", "refuseEvent")
    PROVE  Fates'
<1> USE DEF Fates, tallies
<1> DEFINE p == Consumed(held)
<1>1. pc \in JudgingSteps /\ held \in Pendings /\ cur \in Runs
  BY DEF RightAnswer, Continue, JudgingSteps, AnswerSteps, RemoteInv, RemoteTypeOK, RemoteShape,
         RemoteSteps
<1>2. p.id = held.id /\ p.consumed
  BY <1>1 DEF Consumed, Pendings
<1>3. /\ UNCHANGED <<held, cur, tallies>> /\ pc' \in OpenSteps
      /\ \A r \in Runs : pending'[r] = IF r = cur THEN p ELSE pending[r]
  BY <1>1 DEF RightAnswer, SetPending, Continue, OpenSteps, RemoteInv, RemoteTypeOK
<1> HIDE DEF p
<1>4. OwnChallenge'
  BY <1>1, <1>2, <1>3, StepNames DEF OwnChallenge
<1>5. OpenUntilAnswered'
  BY <1>1, <1>2, <1>3 DEF OpenUntilAnswered, Waiting, Unanswered, OpenSteps, JudgingSteps
<1>6. OneFate'
  BY <1>3 DEF OneFate
<1>7. CancelledGone'
  BY <1>1, <1>2, <1>3, StepNames DEF CancelledGone, Waiting
<1> QED
  BY <1>4, <1>5, <1>6, <1>7

\* The one approval, or the one refusal, that is written for a challenge.
LEMMA AnswerFates ==
    ASSUME RemoteInv, Fates,
           (\E s \in Sources : SettleApprove(s)) \/ RefuseEvent
    PROVE  Fates'
<1> USE DEF Fates
<1>1. pc \in OpenSteps \ JudgingSteps /\ held \in Pendings /\ cur \in Runs
  BY DEF SettleApprove, RefuseEvent, Continue, OpenSteps, JudgingSteps, AnswerSteps, RemoteInv,
         RemoteTypeOK, RemoteShape, RemoteSteps
<1>2. /\ UNCHANGED <<pending, held, cur, armed, wrong, cancelled, raced>>
      /\ pc' \in AnswerSteps \ OpenSteps
  BY DEF SettleApprove, RefuseEvent, Continue, OpenSteps, AnswerSteps
<1>3. \/ /\ granted' = [granted EXCEPT ![held.id] = @ + 1]
         /\ refusals' = refusals
      \/ /\ refusals' = [refusals EXCEPT ![held.id] = @ + 1]
         /\ granted' = granted
  BY DEF SettleApprove, RefuseEvent
<1>4. /\ wrong[held.id] < MaxAttempts
      /\ granted[held.id] = 0 /\ refusals[held.id] = 0 /\ held.id \in Challenges
      /\ held.id <= armed
      /\ \A q \in Runs \ {cur} : pending[q] # NoPending => pending[q].id # held.id
      /\ ~Waiting(cur)
  BY <1>1, StepNames DEF OpenUntilAnswered, OwnChallenge, Unanswered, OpenSteps, JudgingSteps, Pendings
<1>5. /\ granted \in [Challenges -> Nat] /\ refusals \in [Challenges -> Nat]
      /\ armed \in Nat /\ Challenges \subseteq Nat
  BY DEF RemoteInv, RemoteTypeOK, Challenges
<1>6. \A id \in Challenges \ {held.id} :
          granted'[id] = granted[id] /\ refusals'[id] = refusals[id]
  BY <1>3, <1>5
<1>7. \/ granted'[held.id] = 1 /\ refusals'[held.id] = 0
      \/ granted'[held.id] = 0 /\ refusals'[held.id] = 1
  BY <1>3, <1>4, <1>5
<1>8. \A r \in Runs : pending[r] # NoPending => pending[r].id \in Challenges
  BY DEF RemoteInv, RemoteTypeOK, Pendings
<1>9. OwnChallenge'
  BY <1>1, <1>2, <1>4, <1>5, <1>6, StepNames DEF OwnChallenge
<1>10. OpenUntilAnswered'
  <2>1. \A r \in Runs : Waiting(r) => pending[r].id # held.id
    BY <1>4 DEF Waiting
  <2> QED
    BY <1>2, <1>4, <1>6, <1>8, <2>1 DEF OpenUntilAnswered, Waiting, Unanswered, OpenSteps
<1>11. OneFate'
  <2> SUFFICES ASSUME NEW id \in Challenges
               PROVE  /\ granted'[id] + refusals'[id] <= 1
                      /\ granted'[id] + refusals'[id] = 1 => wrong'[id] < MaxAttempts
                      /\ wrong'[id] <= MaxAttempts
    BY DEF OneFate
  <2>1. CASE id = held.id
    BY <1>2, <1>4, <1>7, <2>1 DEF OneFate
  <2>2. CASE id # held.id
    BY <1>2, <1>6, <2>2 DEF OneFate
  <2> QED
    BY <2>1, <2>2
<1>12. CancelledGone'
  <2>1. cancelled \subseteq Challenges /\ held.id \notin cancelled \ raced
    BY <1>1, StepNames DEF CancelledGone, RemoteInv, RemoteTypeOK
  <2> QED
    BY <1>1, <1>2, <1>6, <2>1, StepNames DEF CancelledGone, Waiting
<1> QED
  BY <1>9, <1>10, <1>11, <1>12

\* A document that is removed waits for nothing.
LEMMA ClearFates ==
    ASSUME RemoteInv, Fates, ClearPending PROVE Fates'
<1> USE DEF Fates, tallies
<1>1. /\ UNCHANGED tallies /\ pc' \notin AnswerSteps
      /\ \A r \in Runs : pending'[r] = IF r = cur THEN NoPending ELSE pending[r]
  BY DEF ClearPending, SetPending, Finish, AnswerSteps, RemoteInv, RemoteTypeOK
<1>2. OwnChallenge'
  BY <1>1 DEF OwnChallenge
<1>3. OpenUntilAnswered'
  BY <1>1, StepNames DEF OpenUntilAnswered, Waiting, Unanswered, OpenSteps
<1>4. OneFate' /\ CancelledGone'
  BY <1>1 DEF OneFate, CancelledGone, Waiting
<1> QED
  BY <1>2, <1>3, <1>4

LEMMA CancelFates ==
    ASSUME RemoteInv, Fates, NEW r \in Runs, Cancel(r) PROVE Fates'
<1> USE DEF Fates
<1>1. /\ UNCHANGED <<pc, cur, held, armed, wrong, granted, refusals>>
      /\ \A q \in Runs : pending'[q] = IF q = r THEN NoPending ELSE pending[q]
      /\ pending[r] # NoPending /\ raced \subseteq raced'
  BY DEF Cancel, vars, opVars, RemoteInv, RemoteTypeOK
<1>2. \A id \in cancelled' \ cancelled :
          /\ id = pending[r].id /\ Waiting(r)
          /\ id \in raced' \/ held = NoPending \/ held.id # id
  BY DEF Cancel, CancelledNow, Waiting
<1>3. OwnChallenge'
  BY <1>1 DEF OwnChallenge
<1>4. OpenUntilAnswered'
  <2>1. \A q \in Runs : Waiting(q)' => Waiting(q) /\ pending'[q] = pending[q]
    BY <1>1 DEF Waiting
  <2>2. pc \in AnswerSteps => cur \in Runs /\ cur' = cur
    BY <1>1 DEF RemoteInv, RemoteShape, RemoteSteps
  <2>3. pc \in AnswerSteps => (Waiting(cur)' => Waiting(cur))
    BY <2>1, <2>2
  <2> QED
    BY <1>1, <2>1, <2>3, StepNames DEF OpenUntilAnswered, Unanswered, OpenSteps
<1>5. OneFate'
  BY <1>1 DEF OneFate
<1>6. CancelledGone'
  <2>1. pc \in AnswerSteps => held # NoPending
    BY NoPendingAssumption DEF RemoteInv, RemoteTypeOK
  <2>2. \A id \in cancelled' : id <= armed
    BY <1>1, <1>2 DEF CancelledGone, OwnChallenge
  <2>3. ASSUME NEW id \in cancelled' \ raced'
        PROVE  /\ granted'[id] = 0
               /\ \A q \in Runs : Waiting(q)' => pending'[q].id # id
               /\ pc' \in AnswerSteps => held'.id # id
    <3>1. CASE id \in cancelled
      BY <1>1, <2>3, <3>1 DEF CancelledGone, Waiting
    <3>2. CASE id \notin cancelled
      <4>1. id = pending[r].id /\ Waiting(r) /\ (held = NoPending \/ held.id # id)
        BY <1>2, <2>3, <3>2
      <4>2. granted[id] = 0
        BY <4>1 DEF OpenUntilAnswered, Unanswered
      <4>3. \A q \in Runs \ {r} : pending[q] # NoPending => pending[q].id # id
        BY <1>1, <4>1 DEF OwnChallenge
      <4> QED
        BY <1>1, <2>1, <4>1, <4>2, <4>3 DEF Waiting
    <3> QED
      BY <3>1, <3>2
  <2> QED
    BY <1>1, <2>2, <2>3 DEF CancelledGone
<1> QED
  BY <1>3, <1>4, <1>5, <1>6

LEMMA FatesNext ==
    ASSUME RemoteInv, Fates, [RemoteNext]_allVars PROVE Fates'
<1> USE DEF remoteVars, tallies
<1>1. CASE Lifecycle \/ UNCHANGED allVars
  <2>1. pc' \in AnswerSteps => pc' = pc /\ cur' = cur
    <3>1. CASE pc \in LocalSteps
      BY <1>1, <3>1, StaysLocal DEF Lifecycle, Next, allVars, RemoteSteps, RemoteInv
    <3>2. CASE pc \in RemoteSteps
      BY <1>1, <3>2, NoCommand DEF Lifecycle, Tick, allVars, vars, opVars
    <3> QED
      BY <3>1, <3>2 DEF RemoteInv, RemoteShape
  <2> QED
    BY <1>1, <2>1, FatesFrame DEF Lifecycle, allVars
<1>2. CASE LeaveRemote
  BY <1>2, FatesFrame, StepNames DEF LeaveRemote, Leave, Finish
<1>3. CASE RemoteCommand
  <2>1. PICK r \in Runs, c \in Contracts :
            \/ \E s \in Sources : ArmBegin(r, c, s)
            \/ AnswerBegin(r, c, "settleAnswer")
            \/ AnswerBegin(r, c, "refuseAnswer")
    BY <1>3 DEF RemoteCommand
  <2>2. CASE \E s \in Sources : ArmBegin(r, c, s)
    BY <2>2, FatesFrame, StepNames DEF ArmBegin, Begin
  <2> QED
    BY <2>1, <2>2, BeginFates DEF JudgingSteps
<1>4. CASE SettleEvent \/ SettleState
  <2>1. /\ UNCHANGED <<pending, tallies, held, cur>>
        /\ pc \in AnswerSteps /\ pc \notin JudgingSteps /\ pc' \notin OpenSteps
    BY <1>4 DEF SettleEvent, SettleState, Continue, AnswerSteps, JudgingSteps, OpenSteps
  <2> QED
    BY <2>1, FatesFrame
<1> QED
  BY <1>1, <1>2, <1>3, <1>4, ArmFates, WrongFates, RightFates, AnswerFates, ClearFates,
     CancelFates DEF RemoteNext, Settle, Refuse

LEMMA FatesHold == RemoteSpec => []Fates
<1>1. RemoteInit => Fates
  <2> SUFFICES ASSUME RemoteInit PROVE Fates
    OBVIOUS
  <2>1. /\ \A r \in Runs : pending[r] = NoPending
        /\ armed = 0 /\ cancelled = {} /\ pc = "idle"
        /\ \A id \in Challenges : wrong[id] = 0 /\ granted[id] = 0 /\ refusals[id] = 0
    BY DEF RemoteInit, Init
  <2> QED
    BY <2>1, StepNames, RemoteAssumption
       DEF Fates, OwnChallenge, OpenUntilAnswered, OneFate, CancelledGone, Waiting, OpenSteps
<1>2. RemoteInv /\ Fates /\ [RemoteNext]_allVars => Fates'
  BY FatesNext
<1> QED
  BY <1>1, <1>2, RemoteTypes, PTL DEF RemoteSpec

\* However guesses, crashes, retries and cancellations interleave, a challenge is
\* approved once or refused once or neither, and is guessed at no more often than
\* the limit.
THEOREM OneFateTheorem == RemoteSpec => []OneFate
<1>1. Fates => OneFate
  BY DEF Fates
<1> QED
  BY <1>1, FatesHold, PTL

\* An approval for a cancelled challenge is that of an operation that had read it.
THEOREM CancelTheorem == RemoteSpec => []CancelledGrantRaced
<1>1. RemoteInv /\ Fates => CancelledGrantRaced
  BY DEF RemoteInv, RemoteTypeOK, Fates, CancelledGone, CancelledGrantRaced
<1> QED
  BY <1>1, FatesHold, RemoteTypes, PTL

=============================================================================
