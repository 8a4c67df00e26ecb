---------------------------- MODULE RunLifecycle ----------------------------
(***************************************************************************)
(* The lifecycle of the runs of one workspace: approve, preflight, run,    *)
(* postflight and abandon, each written as the sequence of durable writes  *)
(* its function makes (approval.json, events.jsonl, state.json,            *)
(* certificate.json), with a crash, a refusal or an I/O error possible     *)
(* between any two of them.                                                *)
(*                                                                         *)
(* Every operation holds the workspace lease from its first read to its    *)
(* last write (module Lease), so at most one is in flight: pc, cur and     *)
(* seen are its program counter, the run it works on and its local         *)
(* variables.  Contract files, source trees and output files belong to the *)
(* user and change at any time: a command reads any value of them.         *)
(*                                                                         *)
(* A hash is modelled by what it commits to: an approval event carries the *)
(* approval document itself, an event_head is the position of the event in *)
(* the (append-only) log.                                                  *)
(***************************************************************************)
EXTENDS Naturals, Sequences

CONSTANTS
    Runs,        \* (campaign_id, run_id) pairs of the workspace
    Contracts,   \* versions of a run's contract file (contract_hash)
    Sources,     \* states of the source tree (source_hash)
    Outputs,     \* contents of the asserted output files (output_digests)
    GoodOutputs, \* those that pass every postflight assertion
    Pred,        \* Pred[r][c]: the predecessor version c of r's contract names
    TTL,         \* contract.approval.ttl_sec
    MaxTime,     \* bound on the clock
    MaxLog,      \* bound on the length of one run's event log
    NoRun,       \* no predecessor; no run in progress
    NoApproval,  \* no approval.json
    NoReceipt,   \* no certificate.json
    NoLocals     \* no operation in flight

Channels == {"local_tty_approve", "remote_human_confirm"}
Results == {"none", "completed", "timeout", "failed", "interrupted", "abandoned"}
Exits == {"none", "ok", "bad"}
Phases == {"none", "approved", "preflighted", "running", "cleanup_pending",
           "completed", "failed", "postflighted", "abandoned"}

\* approval.json; `at` stands for the timestamp that makes two documents of
\* the same content differ: the log length when the document was written.
ApprovalDocs == [c : Contracts, s : Sources, exp : Nat, at : Nat, chan : Channels]
\* certificate.json; `head` is the position of the event event_head names.
Receipts == [c : Contracts, s : Sources, out : Outputs, head : Nat,
             exp : Nat, chan : Channels, result : Results]
Provenance == [c : Contracts, s : Sources]
Assertions == [c : Contracts, s : Sources, out : Outputs]
Outcomes == [result : Results]
Events == [type : {"approval"}, body : ApprovalDocs]
    \cup [type : {"preflight_ok", "run_start"}, body : Provenance]
    \cup [type : {"postflight_assertions_ok"}, body : Assertions]
    \cup [type : {"run_ended", "cleanup_pending", "cleanup_confirmed",
                  "recovery_abandon", "postflight_failed",
                  "remote_confirm_refused"}, body : Outcomes]
    \cup [type : {"certificate_issued"}, body : Receipts]
\* What an operation has read and still needs (only run keeps a timestamp).
Locals == [c : Contracts, s : Sources, ts : Nat]

ASSUME NatAssumption == TTL \in Nat /\ MaxTime \in Nat /\ MaxLog \in Nat
ASSUME NonEmptyAssumption == Contracts # {} /\ Sources # {}
ASSUME PredAssumption == Pred \in [Runs -> [Contracts -> Runs \cup {NoRun}]]
ASSUME NoneAssumption ==
    /\ NoRun \notin Runs
    /\ NoApproval \notin ApprovalDocs
    /\ NoReceipt \notin Receipts
    /\ NoLocals \notin Locals
ASSUME OutputAssumption == GoodOutputs \subseteq Outputs

VARIABLES
    phase,       \* state.json phase, per run
    result,      \* state.json run_result
    exit,        \* state.json exit_code against the contract's expected one
    stContract,  \* state.json contract_hash (any contract before it is set)
    stSource,    \* state.json source_hash (any source before it is set)
    startedAt,   \* state.json run_started_at_unix
    stReceipt,   \* state.json certificate_id, as the receipt it identifies
    approval,    \* approval.json
    receipt,     \* certificate.json
    log,         \* events.jsonl
    launches,    \* history: payload processes spawned for the run
    unconfirmed, \* history: state.json once said cleanup_pending
    now,         \* the wall clock
    pc, cur, seen

stateVars == <<phase, result, exit, stContract, stSource, startedAt, stReceipt>>
diskVars == <<stateVars, approval, receipt, log>>
opVars == <<pc, cur, seen>>
history == <<launches, unconfirmed>>
vars == <<stateVars, approval, receipt, log, history, now, opVars>>

-----------------------------------------------------------------------------
(* The operation that holds the lease.                                     *)

Hashed(c, s) == [c |-> c, s |-> s, ts |-> 0]

Begin(r, step, locals) ==
    /\ pc = "idle"
    /\ pc' = step /\ cur' = r /\ seen' = locals

Continue(from, to) == pc = from /\ pc' = to /\ UNCHANGED <<cur, seen>>

Finish == pc' = "idle" /\ cur' = NoRun /\ seen' = NoLocals

\* EventLog.append, whole: module EventLog takes it apart.
Record(type, body) ==
    /\ Len(log[cur]) < MaxLog
    /\ log' = [log EXCEPT ![cur] = Append(@, [type |-> type, body |-> body])]

SetPhase(p) == phase' = [phase EXCEPT ![cur] = p]
SetResult(v) == result' = [result EXCEPT ![cur] = v]
SetProvenance(c, s) ==
    /\ stContract' = [stContract EXCEPT ![cur] = c]
    /\ stSource' = [stSource EXCEPT ![cur] = s]

\* An operation ends where it is: a refused check, a phrase that does not
\* match, an OSError, a signal, SIGKILL, a power cut.  Nothing more is written.
Leave ==
    /\ pc # "idle"
    /\ Finish
    /\ UNCHANGED <<diskVars, history, now>>

Tick ==
    /\ now < MaxTime
    /\ now' = now + 1
    /\ UNCHANGED <<diskVars, history, opVars>>

-----------------------------------------------------------------------------
(* approve: a human types the phrase at a prompt shown under the lease.    *)

\* Mutants: a launched, or a certified, run may be approved and run again.
ForgetRunning == {"completed", "failed", "postflighted", "abandoned"}
ForgetPostflighted == {"running", "completed", "failed", "abandoned"}
ForgetAbandoned == {"running", "completed", "failed", "postflighted"}

\* Neither list names cleanup_pending.
Terminal == {"running", "completed", "failed", "postflighted", "abandoned"}

Approvable(r) == phase[r] \notin Terminal

ApproveBegin(r, c, s) ==
    /\ Approvable(r)
    /\ Begin(r, "approvePrompt", Hashed(c, s))
    /\ UNCHANGED <<diskVars, history, now>>

\* complete_approval_document: the source is hashed again and must not have
\* changed since the prompt; the document is written, then event, then state.
WriteApproval(chan) ==
    /\ Approvable(cur)
    /\ approval' = [approval EXCEPT ![cur] =
           [c |-> seen.c, s |-> seen.s, exp |-> now + TTL,
            at |-> Len(log[cur]), chan |-> chan]]
    /\ UNCHANGED <<stateVars, receipt, log, history, now>>

ApproveConfirm(s) ==
    /\ Continue("approvePrompt", "approveEvent")
    /\ s = seen.s
    /\ WriteApproval("local_tty_approve")

ApproveEvent ==
    /\ Continue("approveEvent", "approveState")
    /\ Record("approval", approval[cur])
    /\ UNCHANGED <<stateVars, approval, receipt, history, now>>

ApproveState ==
    /\ pc = "approveState"
    /\ SetPhase("approved")
    /\ SetProvenance(seen.c, seen.s)
    /\ Finish
    /\ UNCHANGED <<result, exit, startedAt, stReceipt, approval, receipt, log,
                   history, now>>

-----------------------------------------------------------------------------
(* What preflight and run check of an approval and of a predecessor.       *)

\* approval.json equals the latest chained approval event.
MatchesLatestEvent(r) ==
    \E i \in DOMAIN log[r] :
        /\ log[r][i].type = "approval"
        /\ log[r][i].body = approval[r]
        /\ \A j \in DOMAIN log[r] : log[r][j].type = "approval" => j <= i

\* Mutant: the source hash is not compared.
AnySource(r, c, s, ts) ==
    /\ approval[r] # NoApproval
    /\ approval[r].c = c
    /\ MatchesLatestEvent(r)
    /\ ts < approval[r].exp

\* Mutant: approval.json is not compared with the log.
AnyDocument(r, c, s, ts) ==
    /\ approval[r] # NoApproval
    /\ approval[r].c = c
    /\ approval[r].s = s
    /\ ts < approval[r].exp

ApprovalValid(r, c, s, ts) ==
    /\ approval[r] # NoApproval
    /\ approval[r].c = c
    /\ approval[r].s = s
    /\ MatchesLatestEvent(r)
    /\ ts < approval[r].exp

\* assertions_ok, certificate_issued right after it, nothing after that.
IssuanceOrdered(r) ==
    LET h == receipt[r].head IN
    /\ Len(log[r]) = h + 1
    /\ h \in DOMAIN log[r]
    /\ log[r][h].type = "postflight_assertions_ok"
    /\ log[r][h + 1].type = "certificate_issued"
    /\ log[r][h + 1].body = receipt[r]

\* verify_run_receipt, but for the live output digests (the user's files) and the
\* report a receipt may bind (certificate.py 298-326, module Evidence).
ReceiptVerifies(r) ==
    /\ receipt[r] # NoReceipt
    /\ phase[r] = "postflighted"
    /\ stContract[r] = receipt[r].c
    /\ stSource[r] = receipt[r].s
    /\ stReceipt[r] = receipt[r]
    /\ IssuanceOrdered(r)
    /\ approval[r] # NoApproval
    /\ MatchesLatestEvent(r)
    /\ receipt[r].exp = approval[r].exp
    /\ receipt[r].chan = approval[r].chan

PredecessorOk(r, c) ==
    \/ Pred[r][c] = NoRun
    \/ /\ Pred[r][c] \in Runs
       /\ result[Pred[r][c]] \notin {"failed", "timeout", "abandoned"}
       /\ ReceiptVerifies(Pred[r][c])

-----------------------------------------------------------------------------
(* preflight.                                                              *)

PreflightBegin(r, c, s) ==
    /\ phase[r] \notin Terminal
    /\ ApprovalValid(r, c, s, now)
    /\ PredecessorOk(r, c)
    /\ Begin(r, "preflightCheck", Hashed(c, s))
    /\ UNCHANGED <<diskVars, history, now>>

\* Hashing and the predecessor's receipt take time: the clock is read again.
PreflightEvent ==
    /\ Continue("preflightCheck", "preflightState")
    /\ ApprovalValid(cur, seen.c, seen.s, now)
    /\ Record("preflight_ok", [c |-> seen.c, s |-> seen.s])
    /\ UNCHANGED <<stateVars, approval, receipt, history, now>>

PreflightState ==
    /\ pc = "preflightState"
    /\ SetPhase("preflighted")
    /\ SetProvenance(seen.c, seen.s)
    /\ Finish
    /\ UNCHANGED <<result, exit, startedAt, stReceipt, approval, receipt, log,
                   history, now>>

-----------------------------------------------------------------------------
(* run.                                                                    *)

\* Provenance, outputs, predecessor; ts is read here, before the checks of
\* the approval (it needs no preflight: an approved run may start at once).
RunBegin(r, c, s) ==
    /\ phase[r] \notin Terminal \cup {"cleanup_pending"}
    /\ approval[r] # NoApproval
    /\ PredecessorOk(r, c)
    /\ Begin(r, "runCheck", [c |-> c, s |-> s, ts |-> now])
    /\ UNCHANGED <<diskVars, history, now>>

RunCheck ==
    /\ Continue("runCheck", "runRecheck")
    /\ ApprovalValid(cur, seen.c, seen.s, now)
    /\ UNCHANGED <<diskVars, history, now>>

\* The second check uses the ts of RunBegin, then run_start is appended.
RunStartEvent ==
    /\ Continue("runRecheck", "runState")
    /\ ApprovalValid(cur, seen.c, seen.s, seen.ts)
    /\ Record("run_start", [c |-> seen.c, s |-> seen.s])
    /\ UNCHANGED <<stateVars, approval, receipt, history, now>>

RunState ==
    /\ pc = "runState" /\ pc' = "runSpawn"
    /\ SetPhase("running")
    /\ SetProvenance(seen.c, seen.s)
    /\ startedAt' = [startedAt EXCEPT ![cur] = seen.ts]
    /\ seen' = NoLocals
    /\ UNCHANGED <<result, exit, stReceipt, approval, receipt, log, history,
                   now, cur>>

\* A refused tool or environment, a failed Popen or a signal before it.
RunSpawnFails(v) ==
    /\ Continue("runSpawn", "runEvent")
    /\ SetPhase("failed") /\ SetResult(v)
    /\ UNCHANGED <<exit, stContract, stSource, startedAt, stReceipt, approval,
                   receipt, log, history, now>>

RunSpawn ==
    /\ Continue("runSpawn", "live")
    /\ launches' = [launches EXCEPT ![cur] = @ + 1]
    /\ UNCHANGED <<diskVars, unconfirmed, now>>

\* The process group is confirmed stopped; state.json before the event.  A timeout may
\* follow a leader that exited as expected: its group or its pipes took too long.
RunEnds(v, e) ==
    /\ Continue("live", "runEvent")
    /\ SetPhase(IF v = "completed" THEN "completed" ELSE "failed")
    /\ SetResult(v)
    /\ exit' = [exit EXCEPT ![cur] = e]
    /\ UNCHANGED <<stContract, stSource, startedAt, stReceipt, approval,
                   receipt, log, history, now>>

RunEvent ==
    /\ pc = "runEvent"
    /\ Record("run_ended", [result |-> result[cur]])
    /\ Finish
    /\ UNCHANGED <<stateVars, approval, receipt, history, now>>

\* _stop_process could not confirm the group empty: keep the lease and retry.
RunUnconfirmed ==
    /\ Continue("live", "retain")
    /\ UNCHANGED <<diskVars, history, now>>

\* record_pending, each half retried until its write succeeds.
RetainState(v) ==
    /\ Continue("retain", "retainEvent")
    /\ SetPhase("cleanup_pending") /\ SetResult(v)
    /\ unconfirmed' = [unconfirmed EXCEPT ![cur] = TRUE]
    /\ UNCHANGED <<exit, stContract, stSource, startedAt, stReceipt, approval,
                   receipt, log, launches, now>>

RetainEvent ==
    /\ Continue("retainEvent", "retained")
    /\ Record("cleanup_pending", [result |-> result[cur]])
    /\ UNCHANGED <<stateVars, approval, receipt, history, now>>

\* A retry confirms the group empty, whichever writes succeeded before it.
RetainConfirmed(v) ==
    /\ pc \in {"retain", "retainEvent", "retained"}
    /\ SetPhase("failed") /\ SetResult(v)
    /\ pc # "retain" => v = result[cur]
    /\ IF pc = "retained"
       THEN Continue("retained", "confirmEvent")
       ELSE Finish
    /\ UNCHANGED <<exit, stContract, stSource, startedAt, stReceipt, approval,
                   receipt, log, history, now>>

ConfirmEvent ==
    /\ pc = "confirmEvent"
    /\ Record("cleanup_confirmed", [result |-> result[cur]])
    /\ Finish
    /\ UNCHANGED <<stateVars, approval, receipt, history, now>>

-----------------------------------------------------------------------------
(* postflight: assertions, then event, receipt, event, state.              *)

\* Mutant: any finished execution is eligible.
AnyResult(r, c) ==
    /\ phase[r] \in {"completed", "failed"}
    /\ exit[r] # "none"
    /\ approval[r] # NoApproval
    /\ approval[r].c = c
    /\ stContract[r] = c

PostflightGate(r, c) ==
    /\ phase[r] \in {"completed", "failed"}
    /\ exit[r] # "none"
    /\ result[r] = "completed"
    /\ approval[r] # NoApproval
    /\ approval[r].c = c
    /\ stContract[r] = c

\* Mutant: source_unchanged is not asserted.
SourceIgnored(r, s, o) ==
    /\ exit[r] = "ok"
    /\ o \in GoodOutputs

AssertionsHold(r, s, o) ==
    /\ exit[r] = "ok"
    /\ o \in GoodOutputs
    /\ approval[r].s = s
    /\ stSource[r] = s

\* Acquiring the lease, the gate, the assertions and the first append.
PostflightAsserts(r, c, s, o) ==
    LET ok == AssertionsHold(r, s, o)
        event == IF ok
                 THEN [type |-> "postflight_assertions_ok",
                       body |-> [c |-> c, s |-> s, out |-> o]]
                 ELSE [type |-> "postflight_failed",
                       body |-> [result |-> "failed"]]
    IN
    /\ PostflightGate(r, c)
    /\ Begin(r, IF ok THEN "postReceipt" ELSE "postFailed", Hashed(c, s))
    /\ Len(log[r]) < MaxLog
    /\ log' = [log EXCEPT ![r] = Append(@, event)]
    /\ UNCHANGED <<stateVars, approval, receipt, history, now>>

PostflightFailed ==
    /\ pc = "postFailed"
    /\ SetPhase("failed")
    /\ Finish
    /\ UNCHANGED <<result, exit, stContract, stSource, startedAt, stReceipt,
                   approval, receipt, log, history, now>>

PostflightReceipt ==
    /\ Continue("postReceipt", "postIssue")
    /\ receipt' = [receipt EXCEPT ![cur] =
           [c |-> seen.c, s |-> seen.s, out |-> log[cur][Len(log[cur])].body.out,
            head |-> Len(log[cur]), exp |-> approval[cur].exp,
            chan |-> approval[cur].chan, result |-> result[cur]]]
    /\ UNCHANGED <<stateVars, approval, log, history, now>>

PostflightIssued ==
    /\ Continue("postIssue", "postState")
    /\ Record("certificate_issued", receipt[cur])
    /\ UNCHANGED <<stateVars, approval, receipt, history, now>>

PostflightState ==
    /\ pc = "postState"
    /\ SetPhase("postflighted")
    /\ SetProvenance(seen.c, seen.s)
    /\ stReceipt' = [stReceipt EXCEPT ![cur] = receipt[cur]]
    /\ Finish
    /\ UNCHANGED <<result, exit, startedAt, approval, receipt, log, history,
                   now>>

-----------------------------------------------------------------------------
(* recover --abandon: a prompt under the lease, then event, then state.    *)

Recoverable(r) == phase[r] \in {"running", "cleanup_pending"}

AbandonBegin(r) ==
    /\ Recoverable(r)
    /\ Begin(r, "abandonPrompt", NoLocals)
    /\ UNCHANGED <<diskVars, history, now>>

AbandonEvent ==
    /\ Continue("abandonPrompt", "abandonState")
    /\ Recoverable(cur)
    /\ Record("recovery_abandon", [result |-> "abandoned"])
    /\ UNCHANGED <<stateVars, approval, receipt, history, now>>

AbandonState ==
    /\ pc = "abandonState"
    /\ SetPhase("abandoned") /\ SetResult("abandoned")
    /\ Finish
    /\ UNCHANGED <<exit, stContract, stSource, startedAt, stReceipt, approval,
                   receipt, log, history, now>>

-----------------------------------------------------------------------------
Init ==
    /\ phase = [r \in Runs |-> "none"]
    /\ result = [r \in Runs |-> "none"]
    /\ exit = [r \in Runs |-> "none"]
    /\ stContract = [r \in Runs |-> CHOOSE c \in Contracts : TRUE]
    /\ stSource = [r \in Runs |-> CHOOSE s \in Sources : TRUE]
    /\ startedAt = [r \in Runs |-> 0]
    /\ stReceipt = [r \in Runs |-> NoReceipt]
    /\ approval = [r \in Runs |-> NoApproval]
    /\ receipt = [r \in Runs |-> NoReceipt]
    /\ log = [r \in Runs |-> <<>>]
    /\ launches = [r \in Runs |-> 0]
    /\ unconfirmed = [r \in Runs |-> FALSE]
    /\ now = 0
    /\ pc = "idle" /\ cur = NoRun /\ seen = NoLocals

Command ==
    \E r \in Runs :
        \/ AbandonBegin(r)
        \/ \E c \in Contracts, s \in Sources :
              \/ ApproveBegin(r, c, s)
              \/ PreflightBegin(r, c, s)
              \/ RunBegin(r, c, s)
              \/ \E o \in Outputs : PostflightAsserts(r, c, s, o)

Approve == (\E s \in Sources : ApproveConfirm(s)) \/ ApproveEvent \/ ApproveState
Preflight == PreflightEvent \/ PreflightState
Run ==
    \/ RunCheck \/ RunStartEvent \/ RunState \/ RunSpawn \/ RunEvent
    \/ RunUnconfirmed \/ RetainEvent \/ ConfirmEvent
    \/ \E v \in {"failed", "interrupted"} :
          RunSpawnFails(v) \/ RetainState(v) \/ RetainConfirmed(v)
    \/ \E v \in {"completed", "timeout", "failed", "interrupted"},
          e \in {"ok", "bad"} : RunEnds(v, e)
Postflight ==
    PostflightFailed \/ PostflightReceipt \/ PostflightIssued \/ PostflightState
Abandon == AbandonEvent \/ AbandonState

Next ==
    Leave \/ Tick \/ Command \/ Approve \/ Preflight \/ Run \/ Postflight \/ Abandon

Spec == Init /\ [][Next]_vars

-----------------------------------------------------------------------------
(* Properties.                                                             *)

\* Types, and the shape of the operation in flight: it has a run, and the
\* locals it still needs.
Steps == {"approvePrompt", "approveEvent", "approveState", "preflightCheck",
          "preflightState", "runCheck", "runRecheck", "runState", "runSpawn",
          "live", "runEvent", "retain", "retainEvent", "retained",
          "confirmEvent", "postReceipt", "postIssue", "postState",
          "postFailed", "abandonPrompt", "abandonState"}
StepsWithLocals == {"approvePrompt", "approveEvent", "approveState",
          "preflightCheck", "preflightState", "runCheck", "runRecheck",
          "runState", "postReceipt", "postIssue", "postState", "postFailed"}

TypeOK ==
    /\ phase \in [Runs -> Phases]
    /\ result \in [Runs -> Results]
    /\ exit \in [Runs -> Exits]
    /\ stContract \in [Runs -> Contracts]
    /\ stSource \in [Runs -> Sources]
    /\ startedAt \in [Runs -> Nat]
    /\ stReceipt \in [Runs -> Receipts \cup {NoReceipt}]
    /\ approval \in [Runs -> ApprovalDocs \cup {NoApproval}]
    /\ receipt \in [Runs -> Receipts \cup {NoReceipt}]
    /\ log \in [Runs -> Seq(Events)]
    /\ launches \in [Runs -> Nat]
    /\ unconfirmed \in [Runs -> BOOLEAN]
    /\ now \in Nat
    /\ pc \in Steps \cup {"idle"}
    /\ IF pc = "idle" THEN cur = NoRun ELSE cur \in Runs
    /\ IF pc \in StepsWithLocals THEN seen \in Locals ELSE seen = NoLocals

\* A run ID is not reused once its payload was spawned, whatever crashes and
\* whatever is approved again, unless its cleanup was once left unconfirmed.
RelaunchOnlyAfterUnconfirmed ==
    \A r \in Runs : launches[r] > 1 => unconfirmed[r]

\* PRODUCT_PLAN.md, frozen invariant 4, as written: it has no exception.
SingleLaunch == \A r \in Runs : launches[r] <= 1

\* The state a launched run is left in answers for its launch: approval.json
\* is the latest approval event, names the contract and source that state.json
\* says were run, and had not expired when run read the clock.
Launched == {"running", "completed", "failed", "postflighted"}
LaunchWasApproved ==
    \A r \in Runs : phase[r] \in Launched =>
        /\ approval[r] # NoApproval
        /\ approval[r].c = stContract[r]
        /\ approval[r].s = stSource[r]
        /\ startedAt[r] < approval[r].exp
        /\ MatchesLatestEvent(r)

\* The log alone shows it too: before every run_start stands an approval
\* event, the latest one, for the same contract and source.
RunStartsApproved ==
    \A r \in Runs : \A i \in DOMAIN log[r] : log[r][i].type = "run_start" =>
        \E j \in 1..(i - 1) :
            /\ log[r][j].type = "approval"
            /\ log[r][j].body.c = log[r][i].body.c
            /\ log[r][j].body.s = log[r][i].body.s
            /\ \A k \in (j + 1)..(i - 1) : log[r][k].type # "approval"

\* Whatever crashed or was retried before postflight finished, the receipt of
\* a postflighted run verifies: nothing was appended, approved or rewritten
\* after it was issued.
PostflightedVerifies ==
    \A r \in Runs : phase[r] = "postflighted" => ReceiptVerifies(r)

\* A receipt certifies the contract and source of the last run_start, of a
\* payload that was spawned, exited as expected and completed; and it never
\* follows a timeout, a failure or an interruption that reached the log
\* (PRODUCT_PLAN.md, frozen invariant 7), nor an abandonment, unless the cleanup
\* was once left unconfirmed: then a crash between recovery_abandon and the
\* state leaves a run that can start again.
ReceiptBindsLaunch ==
    \A r \in Runs : phase[r] = "postflighted" =>
        /\ launches[r] > 0 /\ exit[r] = "ok" /\ receipt[r].result = "completed"
        /\ \E i \in DOMAIN log[r] :
              /\ log[r][i].type = "run_start"
              /\ log[r][i].body.c = receipt[r].c
              /\ log[r][i].body.s = receipt[r].s
              /\ \A j \in DOMAIN log[r] : log[r][j].type = "run_start" => j <= i
        /\ \A i \in DOMAIN log[r] :
              /\ log[r][i].type = "run_ended" => log[r][i].body.result = "completed"
              /\ log[r][i].type = "recovery_abandon" => unconfirmed[r]

\* A certified or abandoned run is closed: no operation, not even one that
\* began before, changes its phase, its receipt, its approval or its log.
ClosedIsFinal ==
    [][\A r \in Runs : phase[r] \in {"postflighted", "abandoned"} =>
          /\ phase'[r] = phase[r] /\ receipt'[r] = receipt[r]
          /\ approval'[r] = approval[r] /\ log'[r] = log[r]]_vars

\* The fates the lifecycle promises (module RunFate).
FateOf(r) ==
    CASE phase[r] \in {"none", "approved", "preflighted", "cleanup_pending"} -> "open"
      [] phase[r] = "running" -> "spent"
      [] phase[r] = "completed" -> "judgeable"
      [] phase[r] = "failed" ->
            IF result[r] = "completed" THEN "judgeable" ELSE "burnt"
      [] phase[r] = "abandoned" -> "burnt"
      [] phase[r] = "postflighted" -> "certified"
Fate == INSTANCE RunFate WITH fate <- [r \in Runs |-> FateOf(r)]
ImplementsFate == Fate!Spec
=============================================================================
