---------------------------- MODULE RemoteConfirm ----------------------------
(***************************************************************************)
(* Mac-armed remote confirmation beside the run lifecycle: arm writes a    *)
(* pending one-shot challenge, a paired phone (or the command line)        *)
(* settles it into an approval or refuses it, a wrong answer is counted,   *)
(* and cancel removes it.  arm, settle and refuse hold the workspace lease *)
(* and share pc, cur and seen with the commands of RunLifecycle; cancel    *)
(* takes no lease and falls between any two of their steps.                *)
(*                                                                         *)
(* remote_confirm_pending.json is a record.  The challenge is the counter  *)
(* `armed` at the time it was generated; an answer is right or wrong.  The *)
(* Mac's display copy of the challenge is read by no operation.            *)
(***************************************************************************)
EXTENDS RunLifecycle, FiniteSets

CONSTANTS
    MaxAttempts,  \* MAX_FAILED_ATTEMPTS
    ChallengeTTL, \* ttl_sec of arm
    MaxArms,      \* bound on the number of challenges
    NoPending     \* no remote_confirm_pending.json

ASSUME RemoteAssumption ==
    MaxAttempts \in Nat \ {0} /\ ChallengeTTL \in Nat \ {0} /\ MaxArms \in Nat

Challenges == 1..MaxArms
Pendings == [id : Challenges, c : Contracts, s : Sources, exp : Nat,
             fails : Nat, consumed : BOOLEAN]

ASSUME NoPendingAssumption == NoPending \notin Pendings

VARIABLES
    pending,   \* remote_confirm_pending.json, per run
    held,      \* the copy of it the operation in flight read
    armed,     \* history: challenges generated so far
    wrong,     \* history: wrong answers that were told so, per challenge
    granted,   \* history: approvals written for a challenge
    refusals,  \* history: refusals logged for a challenge
    cancelled, \* history: unconsumed challenges cancel removed
    raced      \* history: those of them an operation had read and still held

tallies == <<armed, wrong, granted, refusals, cancelled, raced>>
remoteVars == <<pending, held, tallies>>
allVars == <<vars, remoteVars>>

SetPending(p) == pending' = [pending EXCEPT ![cur] = p]

-----------------------------------------------------------------------------
(* What is read and written of a pending confirmation.                     *)

\* Mutant: a consumed challenge is live until it expires.
LiveUntilExpiry(p) ==
    /\ p # NoPending
    /\ now < p.exp
    /\ p.fails < MaxAttempts

Live(p) ==
    /\ p # NoPending
    /\ ~p.consumed
    /\ now < p.exp
    /\ p.fails < MaxAttempts

Consumed(p) == [p EXCEPT !.consumed = TRUE]

\* _record_failure rewrites the whole document from the copy that was read.
WithFailure(p) ==
    [p EXCEPT !.fails = @ + 1, !.consumed = p.fails + 1 >= MaxAttempts]

-----------------------------------------------------------------------------
(* arm: a person at the Mac's terminal.                                    *)

ArmBegin(r, c, s) ==
    /\ phase[r] \notin Terminal
    /\ armed < MaxArms
    /\ Begin(r, "armWrite", Hashed(c, s))
    /\ UNCHANGED <<diskVars, history, now, remoteVars>>

\* A new challenge replaces whatever was pending.
ArmWrite ==
    /\ pc = "armWrite"
    /\ armed' = armed + 1
    /\ SetPending([id |-> armed', c |-> seen.c, s |-> seen.s,
                   exp |-> now + ChallengeTTL, fails |-> 0, consumed |-> FALSE])
    /\ Finish
    /\ UNCHANGED <<diskVars, history, now, held, wrong, granted, refusals,
                   cancelled, raced>>

-----------------------------------------------------------------------------
(* settle and refuse.                                                      *)

\* Both load the pending document under the lease, and judge the answer by
\* that copy.
AnswerBegin(r, c, step) ==
    /\ Live(pending[r])
    /\ pending[r].c = c
    /\ held' = pending[r]
    /\ Begin(r, step, Hashed(c, pending[r].s))
    /\ UNCHANGED <<diskVars, history, now, pending, tallies>>

WrongAnswer ==
    /\ pc \in {"settleAnswer", "refuseAnswer"}
    /\ SetPending(WithFailure(held))
    /\ wrong' = [wrong EXCEPT ![held.id] = @ + 1]
    /\ held' = NoPending
    /\ Finish
    /\ UNCHANGED <<diskVars, history, now, armed, granted, refusals, cancelled,
                   raced>>

\* Consumed before anything is written for it.
RightAnswer(from, to) ==
    /\ Continue(from, to)
    /\ SetPending(Consumed(held))
    /\ UNCHANGED <<diskVars, history, now, held, tallies>>

\* complete_approval_document, with the source hash of the arming, and without
\* allow_ttl_refresh.
SettleApprove(s) ==
    /\ Continue("settleApprove", "settleEvent")
    /\ phase[cur] \notin {"approved", "preflighted"}
    /\ s = seen.s
    /\ WriteApproval("remote_human_confirm")
    /\ granted' = [granted EXCEPT ![held.id] = @ + 1]
    /\ UNCHANGED <<pending, held, armed, wrong, refusals, cancelled, raced>>

SettleEvent ==
    /\ Continue("settleEvent", "settleState")
    /\ Record("approval", approval[cur])
    /\ UNCHANGED <<stateVars, approval, receipt, history, now, remoteVars>>

SettleState ==
    /\ Continue("settleState", "clearPending")
    /\ SetPhase("approved")
    /\ SetProvenance(seen.c, seen.s)
    /\ UNCHANGED <<result, exit, startedAt, stReceipt, approval, receipt, log,
                   history, now, remoteVars>>

\* The phase is not looked at.
RefuseEvent ==
    /\ Continue("refuseEvent", "clearPending")
    /\ Record("remote_confirm_refused", [result |-> "none"])
    /\ refusals' = [refusals EXCEPT ![held.id] = @ + 1]
    /\ UNCHANGED <<stateVars, approval, receipt, history, now, pending, held,
                   armed, wrong, granted, cancelled, raced>>

ClearPending ==
    /\ pc = "clearPending"
    /\ SetPending(NoPending)
    /\ held' = NoPending
    /\ Finish
    /\ UNCHANGED <<diskVars, history, now, tallies>>

CancelledNow(r) == {id \in {pending[r].id} : ~pending[r].consumed}

\* Mutant: cancel removes the displayed challenge and forgets the document.
CancelDisplay(r) ==
    /\ pending[r] # NoPending
    /\ cancelled' = cancelled \cup CancelledNow(r)
    /\ UNCHANGED <<vars, pending, held, armed, wrong, granted, refusals, raced>>

\* No lease: the operation that holds it, if any, goes on with its copy.
Cancel(r) ==
    /\ pending[r] # NoPending
    /\ pending' = [pending EXCEPT ![r] = NoPending]
    /\ cancelled' = cancelled \cup CancelledNow(r)
    /\ raced' = raced \cup
           {id \in CancelledNow(r) : held # NoPending /\ held.id = id}
    /\ UNCHANGED <<vars, held, armed, wrong, granted, refusals>>

-----------------------------------------------------------------------------
RemoteInit ==
    /\ Init
    /\ pending = [r \in Runs |-> NoPending]
    /\ held = NoPending
    /\ armed = 0
    /\ wrong = [id \in Challenges |-> 0]
    /\ granted = [id \in Challenges |-> 0]
    /\ refusals = [id \in Challenges |-> 0]
    /\ cancelled = {} /\ raced = {}

RemoteCommand ==
    \E r \in Runs, c \in Contracts :
        \/ \E s \in Sources : ArmBegin(r, c, s)
        \/ AnswerBegin(r, c, "settleAnswer")
        \/ AnswerBegin(r, c, "refuseAnswer")

Settle ==
    \/ RightAnswer("settleAnswer", "settleApprove")
    \/ \E s \in Sources : SettleApprove(s)
    \/ SettleEvent \/ SettleState
Refuse == RightAnswer("refuseAnswer", "refuseEvent") \/ RefuseEvent

\* The commands of the lifecycle leave the pending document alone; an
\* operation that dies forgets its copy.
Lifecycle ==
    /\ Tick \/ Command \/ Approve \/ Preflight \/ Run \/ Postflight \/ Abandon
    /\ UNCHANGED remoteVars
LeaveRemote == Leave /\ held' = NoPending /\ UNCHANGED <<pending, tallies>>

RemoteNext ==
    \/ Lifecycle \/ LeaveRemote \/ RemoteCommand \/ ArmWrite \/ WrongAnswer
    \/ Settle \/ Refuse \/ ClearPending
    \/ \E r \in Runs : Cancel(r)

RemoteSpec == RemoteInit /\ [][RemoteNext]_allVars

-----------------------------------------------------------------------------
(* Properties.                                                             *)

\* Types of the pending document, and when an operation holds a copy of it.
AnswerSteps == {"settleAnswer", "settleApprove", "settleEvent", "settleState",
                "refuseAnswer", "refuseEvent", "clearPending"}
RemoteTypeOK ==
    /\ pending \in [Runs -> Pendings \cup {NoPending}]
    /\ IF pc \in AnswerSteps THEN held \in Pendings ELSE held = NoPending
    /\ armed \in 0..MaxArms
    /\ wrong \in [Challenges -> Nat]
    /\ granted \in [Challenges -> Nat]
    /\ refusals \in [Challenges -> Nat]
    /\ raced \subseteq cancelled /\ cancelled \subseteq Challenges

\* A challenge has one fate, whatever crashes between its writes and whenever
\* cancel comes: at most one approval or one refusal, and neither once
\* it was answered wrong as often as is allowed.  No interleaving of guesses,
\* crashes and cancel, which lets a failure be written over it, gives it more
\* wrong answers than the limit.
OneFate ==
    \A id \in Challenges :
        /\ granted[id] + refusals[id] <= 1
        /\ granted[id] + refusals[id] = 1 => wrong[id] < MaxAttempts
        /\ wrong[id] <= MaxAttempts

\* A challenge that was cancelled and yet approved a run had been read by an
\* operation before cancel removed it: that one, or a later one that found it
\* back because a wrong answer was written over the cancellation.
CancelledGrantRaced ==
    \A id \in cancelled : granted[id] > 0 => id \in raced

\* The one thing that ends a postflighted run's receipt is a refusal: all else
\* verify demands still holds, and only refusals follow certificate_issued.
ReceiptLostOnlyToRefusal ==
    \A r \in Runs : phase[r] = "postflighted" =>
        LET h == receipt[r].head IN
        /\ receipt[r] # NoReceipt /\ stReceipt[r] = receipt[r]
        /\ log[r][h].type = "postflight_assertions_ok"
        /\ log[r][h + 1].body = receipt[r]
        /\ \A i \in (h + 2)..Len(log[r]) :
               log[r][i].type = "remote_confirm_refused"
        /\ MatchesLatestEvent(r)
        /\ receipt[r].exp = approval[r].exp
=============================================================================
