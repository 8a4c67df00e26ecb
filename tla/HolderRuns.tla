----------------------------- MODULE HolderRuns -----------------------------
(***************************************************************************)
(* Runs that the execution holder authorizes and executes, with everyone   *)
(* who takes part: the daemon (admission, the transaction lock, spent.json *)
(* and lease.json, the pending exact run in memory), the `run` command of  *)
(* a contract with execution_approval, the holder app's coordinator of     *)
(* exact runs, and administrators who change policy, keys and devices.     *)
(*                                                                         *)
(* A call is a request the daemon handles when it has the lock; its client *)
(* may stop waiting (a read deadline of five seconds) while the request    *)
(* goes on.  Daemon, command and app die at any step.  How an execute      *)
(* supervises its payload is module HolderExecution; here it ends, leaves  *)
(* the lease in doubt, or refuses to spawn.  The holder is the one without *)
(* installed protection: with it every signature is refused (module        *)
(* HolderRecords).                                                         *)
(***************************************************************************)
EXTENDS Naturals, Sequences, FiniteSets

CONSTANTS
    Runs,         \* runs of the workspace; the nonce of a run is its contract_hash
    MaxExact,     \* bound of the exact runs issued: their nonces are 1..MaxExact
    MaxInFlight,  \* limit of the AdmissionGate
    MaxFaults,    \* bound of the deaths and of the calls given up
    MaxChanges,   \* bound of the changes of policy, caller key and device
    None

Exact == 1..MaxExact
Nonces == Runs \cup Exact
Clients == {"run", "app"}
\* What is signed over: policy and key generation, device key.
Auths == [gen : Nat, kg : Nat, dev : Nat]

ASSUME HolderRunsAssumption ==
    /\ Runs \cap (Nat \cup {None}) = {} /\ None \notin Nat
    /\ MaxExact \in Nat /\ MaxInFlight \in Nat \ {0} /\ MaxChanges \in Nat
    /\ MaxFaults \in Nat
    /\ None \notin Clients \cup Auths \cup [nonce : Nonces, released : BOOLEAN]

VARIABLES
    auth,      \* [gen, kg, dev]: policy and key generation, device key (0 when revoked)
    keys,      \* device keys paired so far
    spent,     \* spent.json: nonce -> what it was consumed under
    lease,     \* lease.json
    snapshots, \* nonces with a directory under run-snapshots
    todo,      \* writes of the consume in progress that are still to come
    pending,   \* _pending_exact_run, in memory
    starting,  \* the execute in progress: its nonce, and whether the payload was released
    requests,  \* requests in flight, each in a worker of its own
    answer,    \* what each client's last call returned, None when taken
    payloads,  \* nonces whose payload is alive
    launches,  \* history: payloads launched per nonce
    faults,    \* history: deaths and calls given up
    phase, starts, cur, runpc,  \* the run command: state.json, run_start events, place
    apppc, at, retained, stale, uncertain, finished,  \* the coordinator
    sig,       \* the device key behind the signatures of this continueRun, 0 before
    shown,     \* history: what each exact run was displayed as, and the key enrolled then
    asked,     \* history: exact runs whose execute was asked for
    signer     \* whose key signs exact runs: the Mac's, or the phone's

holderVars == <<auth, keys, spent, lease, snapshots, todo, pending, starting>>
callVars == <<requests, answer>>
worldVars == <<payloads, launches>>
runVars == <<phase, starts, cur, runpc>>
appVars == <<apppc, at, retained, stale, uncertain, finished, sig, shown, asked>>
vars == <<holderVars, callVars, worldVars, runVars, appVars, faults, signer>>

NoLease == [held |-> FALSE, token |-> None, child |-> "none"]
Lease(held, token, child) == [held |-> held, token |-> token, child |-> child]

-----------------------------------------------------------------------------
(* Calls (HolderClient.call, the accept loop, AdmissionGate).              *)

Request(client, op, nonce, signed) ==
    [from |-> client, op |-> op, nonce |-> nonce, signed |-> signed, begun |-> FALSE]
Awaited(client) == {r \in requests : r.from = client}

\* Beyond the limit the accept loop answers with a refusal.
Answers(client, result, nonce) == [answer EXCEPT ![client] = [result |-> result, nonce |-> nonce]]
Call(client, op, nonce, signed) ==
    IF Cardinality(requests) < MaxInFlight
    THEN requests' = requests \cup {Request(client, op, nonce, signed)} /\ UNCHANGED answer
    ELSE answer' = Answers(client, "refused", nonce) /\ UNCHANGED requests

ReplyWith(r, result, nonce) ==
    /\ requests' = requests \ {r}
    /\ answer' = IF r.from = None THEN answer ELSE Answers(r.from, result, nonce)
Reply(r, result) == ReplyWith(r, result, r.nonce)
\* It is begun: it has the lock, and is answered later.
Begin(r) == requests' = (requests \ {r}) \cup {[r EXCEPT !.begun = TRUE]} /\ UNCHANGED answer
ReplyBegun(result) == \E r \in {q \in requests : q.begun} : Reply(r, result)

\* The client goes, its requests stay.
Orphaned(client) ==
    (requests \ Awaited(client)) \cup {[r EXCEPT !.from = None] : r \in Awaited(client)}

\* read_frame gives up: a FrameError for the caller.
Deadline(client) ==
    /\ Awaited(client) # {}
    /\ requests' = Orphaned(client)
    /\ answer' = Answers(client, "lost", None)
    /\ UNCHANGED <<holderVars, worldVars, runVars, appVars>>

\* The answer a client has is used by its next step.
Took(client) == answer' = [answer EXCEPT ![client] = None]

-----------------------------------------------------------------------------
(* The daemon.                                                             *)

LockFree == todo = <<>> /\ starting = None
Spent == {n \in Nonces : spent[n] # None}

\* mutant: the lease is written first
ConsumeLeaseFirst(n, record) ==
    <<[file |-> "lease", nonce |-> n, value |-> Lease(TRUE, n, "uncertain")],
      [file |-> "spent", nonce |-> n, value |-> record]>>
\* spent.json is replaced before lease.json.
ConsumeWrites(n, record) ==
    <<[file |-> "spent", nonce |-> n, value |-> record],
      [file |-> "lease", nonce |-> n, value |-> Lease(TRUE, n, "uncertain")]>>

\* The binding names the caller's key generation.
Envelope(signed) == signed.kg = auth.kg
\* What _consume_locked looks at before it makes the snapshot.
MayConsume(n, signed) == ~lease.held /\ auth.dev # 0 /\ n \notin Spent /\ Envelope(signed)
\* _bind makes the snapshot directory, and refuses one that is there; the files may
\* differ from the digests that were sent.
Binds(n) == n \notin snapshots
Contents == {"as bound", "changed"}

\* A device signature over this operation, in this policy generation.
Human(signed) == signed.gen = auth.gen /\ signed.dev = auth.dev

\* consume, under the run's contract_hash.  The directory is made before the files are
\* compared and the human is verified: after a refusal this nonce stays blocked.
Consume(r, contents) ==
    LET n == r.nonce
        tries == MayConsume(n, r.signed) /\ Binds(n)
    IN  /\ LockFree /\ r.op = "consume"
        /\ snapshots' = IF tries THEN snapshots \cup {n} ELSE snapshots
        /\ IF tries /\ contents = "as bound" /\ Human(r.signed)
           THEN todo' = ConsumeWrites(n, r.signed) /\ Begin(r)
           ELSE Reply(r, "refused") /\ UNCHANGED todo
        /\ UNCHANGED <<auth, keys, spent, lease, pending, starting, worldVars, runVars, appVars>>

\* issue_exact_run: a fresh nonce, its snapshot, and the one pending run replaced.
IssueExact(r, contents) ==
    LET n == Cardinality(snapshots \cap Exact) + 1
    IN  /\ LockFree /\ r.op = "issue"
        /\ IF n \in Exact /\ contents = "as bound"
           THEN /\ snapshots' = snapshots \cup {n}
                /\ pending' = [nonce |-> n, gen |-> auth.gen, kg |-> auth.kg]
                /\ shown' = [shown EXCEPT ![n] = auth]
                /\ ReplyWith(r, "ok", n)
           ELSE Reply(r, "refused") /\ UNCHANGED <<snapshots, pending, shown>>
        /\ UNCHANGED <<auth, keys, spent, lease, todo, starting, worldVars, runVars,
                       apppc, at, retained, stale, uncertain, finished, sig, asked>>

\* _verify_exact_run_session: one signature over nonce, payload, generations and expiry;
\* the clock is past the expiry (late) at any time.  The message names no device key:
\* it verifies under the one enrolled by then.
SessionAnyGeneration(signed, late) == ~late /\ auth.dev # 0 /\ signed.dev = auth.dev  \* mutant
Session(signed, late) ==
    /\ ~late
    /\ signed.gen = auth.gen /\ signed.kg = auth.kg
    /\ auth.dev # 0 /\ signed.dev = auth.dev

\* authorize_exact_run feeds the signature into consume, with the snapshot made before.
\* An expired or outdated pending run is dropped; a refused signature keeps it.
AuthorizeExact(r, late) ==
    LET n == r.nonce
        found == pending # None /\ pending.nonce = n
        old == found /\ (late \/ pending.gen # auth.gen \/ pending.kg # auth.kg)
        consumes == /\ found /\ ~old
                    /\ MayConsume(n, r.signed) /\ Session(r.signed, late)
    IN  /\ LockFree /\ r.op = "authorize"
        /\ pending' = IF old \/ consumes THEN None ELSE pending
        /\ IF consumes
           THEN todo' = ConsumeWrites(n, r.signed) /\ Begin(r)
           ELSE Reply(r, "refused") /\ UNCHANGED todo
        /\ UNCHANGED <<auth, keys, spent, lease, snapshots, starting, worldVars, runVars, appVars>>

\* A file is replaced; after the last one the consume is answered.
Write ==
    LET w == Head(todo)
    IN  /\ todo # <<>>
        /\ todo' = Tail(todo)
        /\ IF w.file = "spent"
           THEN spent' = [spent EXCEPT ![w.nonce] = w.value] /\ UNCHANGED lease
           ELSE lease' = w.value /\ UNCHANGED spent
        /\ IF todo' = <<>> THEN ReplyBegun("ok") ELSE UNCHANGED callVars
        /\ UNCHANGED <<auth, keys, snapshots, pending, starting, worldVars, runVars, appVars>>

\* The snapshot may fail to be sealed for the payload's user, and the launch vector to
\* be the one consumed, over snapshotted files.
Seals == {"sealed", "failed"}
Vectors == {"as consumed", "refused"}
\* The session signature is verified again, over what was written to spent.json.
Recorded(n, signed) == [spent[n] EXCEPT !.dev = signed.dev]

\* execute and execute-exact-run, up to the lease that says running.
Execute(r, late, sealed, launch) ==
    LET n == r.nonce
        allowed == /\ lease = Lease(TRUE, n, "uncertain") /\ n \in Spent
                   /\ IF n \in Exact THEN Session(Recorded(n, r.signed), late)
                      ELSE auth.dev # 0 /\ Human(r.signed)
                   /\ launch = "as consumed" /\ sealed = "sealed"
    IN  /\ LockFree /\ r.op = "execute"
        /\ IF allowed
           THEN /\ lease' = Lease(TRUE, n, "running")
                /\ starting' = [nonce |-> n, released |-> FALSE]
                /\ Begin(r)
           ELSE Reply(r, "refused") /\ UNCHANGED <<lease, starting>>
        /\ UNCHANGED <<auth, keys, spent, snapshots, todo, pending, worldVars, runVars, appVars>>

\* The payload is released.
Launch ==
    LET n == starting.nonce
    IN  /\ starting # None /\ ~starting.released
        /\ starting' = [starting EXCEPT !.released = TRUE]
        /\ launches' = [launches EXCEPT ![n] = @ + 1]
        /\ payloads' = payloads \cup {n}
        /\ UNCHANGED <<auth, keys, spent, lease, snapshots, todo, pending, callVars, runVars, appVars>>

\* How execute may leave the lease (module PayloadLaunch), and what it answers.
Leaves(held, child, result) ==
    LET n == starting.nonce
    IN  /\ lease' = Lease(held, n, child)
        /\ starting' = None
        /\ ReplyBegun(result)
        /\ UNCHANGED <<auth, keys, spent, snapshots, todo, pending, worldVars, runVars, appVars>>
NoSpawn ==
    /\ starting # None /\ ~starting.released
    /\ Leaves(TRUE, "uncertain", "refused") \/ Leaves(FALSE, "spawn-failed", "refused")
Ends ==
    /\ starting # None /\ starting.released /\ starting.nonce \notin payloads
    /\ Leaves(FALSE, "exited", "ok")
Doubt == starting # None /\ Leaves(TRUE, "supervision-uncertain", "refused")

PayloadEnds(n) ==
    /\ n \in payloads /\ payloads' = payloads \ {n}
    /\ UNCHANGED <<holderVars, callVars, launches, runVars, appVars>>

\* cancel_uncertain: before a spawn, and never an exact run.  note_child_absent,
\* for any lease, changes nothing.
Cancel ==
    /\ LockFree /\ auth.dev # 0
    /\ lease.held /\ lease.child = "uncertain" /\ lease.token \notin Exact \cap Spent
    /\ lease' = Lease(FALSE, lease.token, "cancelled")
    /\ UNCHANGED <<auth, keys, spent, snapshots, todo, pending, starting, callVars, worldVars, runVars, appVars>>

\* set_policy, rotate, revoke, and a revoked device paired with another key.
Changes == (auth.gen - 1) + (auth.kg - 1) + (keys - 1) + (IF auth.dev = 0 THEN 1 ELSE 0)
Administer ==
    /\ LockFree
    /\ \/ auth.dev # 0 /\ Changes < MaxChanges
          /\ auth' \in {[auth EXCEPT !.gen = @ + 1], [auth EXCEPT !.kg = @ + 1],
                        [auth EXCEPT !.dev = 0]}
          /\ UNCHANGED keys
       \/ auth.dev = 0
          /\ keys' = keys + 1 /\ auth' = [auth EXCEPT !.dev = keys + 1]
    /\ UNCHANGED <<spent, lease, snapshots, todo, pending, starting, callVars, worldVars, runVars, appVars>>

\* Files stay, memory and connections go: a closed socket is a FrameError for the
\* client (read_frame), a connection that was not read yet may be reset, an OSError.
Cuts == {"lost", "reset"}
DaemonDies ==
    /\ requests # {} \/ pending # None
    /\ todo' = <<>> /\ pending' = None /\ starting' = None
    /\ requests' = {}
    /\ \E cut \in [Clients -> Cuts] :
           /\ \A c \in Clients : cut[c] = "reset" => \A r \in Awaited(c) : ~r.begun
           /\ answer' = [c \in Clients |-> IF Awaited(c) = {} THEN answer[c]
                                           ELSE [result |-> cut[c], nonce |-> None]]
    /\ UNCHANGED <<auth, keys, spent, lease, snapshots, worldVars, runVars, appVars>>

-----------------------------------------------------------------------------
(* The run command of a held contract, under the workspace lease.          *)

Goes(from, to) == runpc = from /\ runpc' = to /\ cur' = cur
Quits(from) == runpc = from /\ runpc' = "idle" /\ cur' = None
SetPhase(p) == phase' = [phase EXCEPT ![cur] = p]
Answered(client) == answer[client] # None

\* authorize_held_execution comes before every other check.
RunConsume(r) ==
    /\ runpc = "idle" /\ phase[r] = "ready"
    /\ runpc' = "consume" /\ cur' = r
    /\ Call("run", "consume", r, auth)
    /\ UNCHANGED <<holderVars, worldVars, phase, starts, appVars>>

Consumed(result) == result = "ok"
RunConsumed ==
    /\ Answered("run") /\ Took("run")
    /\ IF Consumed(answer["run"].result) THEN Goes("consume", "check") ELSE Quits("consume")
    /\ UNCHANGED <<holderVars, requests, worldVars, phase, starts, appVars>>

\* Outputs, predecessor, cwd, isolation; then the event, then state.json.
RunRefused == Quits("check") /\ UNCHANGED <<holderVars, callVars, worldVars, phase, starts, appVars>>
RunStart ==
    /\ Goes("check", "state")
    /\ starts' = [starts EXCEPT ![cur] = @ + 1]
    /\ UNCHANGED <<holderVars, callVars, worldVars, phase, appVars>>
RunState ==
    /\ Goes("state", "call") /\ SetPhase("running")
    /\ UNCHANGED <<holderVars, callVars, worldVars, starts, appVars>>
RunExecute ==
    /\ Goes("call", "execute")
    /\ Call("run", "execute", cur, auth)
    /\ UNCHANGED <<holderVars, worldVars, phase, starts, appVars>>

\* mutant: a call that ran out of time ends a run too
SucceedsUnlessRefused(result) == result \in {"ok", "lost"}
Succeeds(result) == result = "ok"
\* A refusal and an OSError are recorded as failed (the event of it: RunLifecycle).
\* FrameError is neither: it leaves the command with state.json saying running.
RunExecuted ==
    LET result == answer["run"].result
    IN  /\ Answered("run") /\ Took("run") /\ Quits("execute")
        /\ \/ Succeeds(result) /\ (SetPhase("completed") \/ SetPhase("failed"))
           \/ result \in {"refused", "reset"} /\ SetPhase("failed")
           \/ result = "lost" /\ ~Succeeds("lost") /\ UNCHANGED phase
        /\ UNCHANGED <<holderVars, requests, worldVars, starts, appVars>>

RunDies ==
    /\ runpc # "idle" /\ Quits(runpc)
    /\ requests' = Orphaned("run") /\ Took("run")
    /\ UNCHANGED <<holderVars, worldVars, phase, starts, appVars>>

-----------------------------------------------------------------------------
(* The coordinator (ExactRunCoordinator), an actor: between two of its     *)
(* steps it may be invalidated, which changes the epoch (stale).           *)

Busy == apppc # "idle"
Steps(from, to) == apppc = from /\ apppc' = to /\ UNCHANGED <<at, stale, sig>>
Returns(from) == apppc \in from /\ apppc' = "idle" /\ at' = None /\ stale' = FALSE /\ sig' = 0
AppOnly == UNCHANGED <<holderVars, worldVars, runVars, shown>>

Invalidate ==
    /\ retained # None \/ (Busy /\ ~stale)
    /\ retained' = None /\ stale' = Busy
    /\ UNCHANGED <<callVars, apppc, at, uncertain, finished, sig, asked>> /\ AppOnly

Prepare ==
    /\ Steps("idle", "issue")
    /\ Cardinality(snapshots \cap Exact) < MaxExact
    /\ Call("app", "issue", None, auth)
    /\ UNCHANGED <<retained, uncertain, finished, asked>> /\ AppOnly

\* The issued run is retained unless an input changed meanwhile, then published to
\* the phone's mailbox, which may fail.
Prepared ==
    /\ Answered("app") /\ Took("app")
    /\ IF answer["app"].result = "ok" /\ ~stale
       THEN Steps("issue", "publish") /\ retained' = answer["app"].nonce
       ELSE Returns({"issue"}) /\ UNCHANGED retained
    /\ UNCHANGED <<requests, uncertain, finished, asked>> /\ AppOnly
Publish ==
    /\ Returns({"publish"})
    /\ retained' \in IF stale THEN {None} ELSE {None, retained}
    /\ UNCHANGED <<callVars, uncertain, finished, asked>> /\ AppOnly

Unused(n) == n \notin finished /\ n \notin uncertain
Continue ==
    /\ apppc = "idle" /\ retained # None /\ Unused(retained)
    /\ apppc' = "live" /\ at' = retained
    /\ UNCHANGED <<callVars, retained, stale, uncertain, finished, sig, asked>> /\ AppOnly

\* Expiry, a changed input, no phone answer, a refusal: continueRun throws.
Throw ==
    /\ Returns({"live", "collect"})
    /\ UNCHANGED <<callVars, retained, uncertain, finished, asked>> /\ AppOnly

\* liveSession must still say what was displayed, then the Mac key signs.
Sign ==
    /\ Steps("live", "collect") /\ ~stale /\ LockFree
    /\ shown[at].gen = auth.gen /\ shown[at].kg = auth.kg
    /\ UNCHANGED <<callVars, retained, uncertain, finished, asked>> /\ AppOnly
\* The Mac signs with the key that was enrolled when the run was displayed; what the
\* phone's mailbox gives may be signed with any key the phone ever had.  The same
\* signatures go to authorize and to execute.
Signers(n) == IF signer = "mac" THEN {shown[n].dev} ELSE 1..keys
Signed(n) == [gen |-> shown[n].gen, kg |-> shown[n].kg, dev |-> sig]
Authorize ==
    /\ apppc = "collect" /\ ~stale /\ apppc' = "authorize"
    /\ UNCHANGED <<at, stale, retained, uncertain, finished, asked>> /\ AppOnly
    /\ sig' \in Signers(at)
    /\ Call("app", "authorize", at, Signed(at)')

\* An error of authorize is thrown on: it counts as not consumed.
Authorized ==
    LET consumed == answer["app"].result = "ok"
    IN  /\ Answered("app") /\ Took("app")
        /\ IF consumed /\ ~stale
           THEN Steps("authorize", "execute") /\ asked' = asked \cup {at} /\ UNCHANGED uncertain
           ELSE /\ Returns({"authorize"})
                /\ uncertain' = IF consumed THEN uncertain \cup {at} ELSE uncertain
                /\ UNCHANGED asked
        /\ UNCHANGED <<requests, retained, finished>> /\ AppOnly
AppExecute ==
    /\ Steps("execute", "executing")
    /\ Call("app", "execute", at, Signed(at))
    /\ UNCHANGED <<retained, uncertain, finished, asked>> /\ AppOnly
\* mutant: an error of execute is taken for a run that did not start
ForgetFailure == uncertain
FailedExecute == uncertain \cup {at}
Executed ==
    /\ Answered("app") /\ Took("app") /\ Returns({"executing"})
    /\ IF answer["app"].result = "ok" /\ ~stale
       THEN finished' = finished \cup {at} /\ retained' = None /\ UNCHANGED uncertain
       ELSE uncertain' = FailedExecute /\ UNCHANGED <<finished, retained>>
    /\ UNCHANGED <<requests, asked>> /\ AppOnly

\* The app keeps none of this on disk.
AppDies ==
    /\ Busy \/ retained # None \/ uncertain # {} \/ finished # {}
    /\ Returns({apppc}) /\ retained' = None /\ uncertain' = {} /\ finished' = {}
    /\ requests' = Orphaned("app") /\ Took("app")
    /\ UNCHANGED asked /\ AppOnly

-----------------------------------------------------------------------------
Init ==
    /\ auth = [gen |-> 1, kg |-> 1, dev |-> 1] /\ keys = 1
    /\ spent = [n \in Nonces |-> None] /\ lease = NoLease /\ snapshots = {}
    /\ todo = <<>> /\ pending = None /\ starting = None
    /\ requests = {} /\ answer = [c \in Clients |-> None]
    /\ payloads = {} /\ launches = [n \in Nonces |-> 0]
    /\ phase = [r \in Runs |-> "ready"] /\ starts = [r \in Runs |-> 0]
    /\ cur = None /\ runpc = "idle"
    /\ apppc = "idle" /\ at = None /\ retained = None /\ stale = FALSE
    /\ uncertain = {} /\ finished = {} /\ shown = [n \in Exact |-> None] /\ asked = {}
    /\ sig = 0 /\ signer \in {"mac", "phone"} /\ faults = 0

Daemon ==
    \/ \E r \in requests, contents \in Contents : Consume(r, contents) \/ IssueExact(r, contents)
    \/ \E r \in requests, late \in BOOLEAN :
           \/ AuthorizeExact(r, late)
           \/ \E sealed \in Seals, launch \in Vectors : Execute(r, late, sealed, launch)
    \/ Write \/ Launch \/ NoSpawn \/ Ends \/ Doubt \/ Cancel \/ Administer
    \/ \E n \in payloads : PayloadEnds(n)
RunCommand ==
    \/ \E r \in Runs : RunConsume(r)
    \/ RunConsumed \/ RunRefused \/ RunStart \/ RunState \/ RunExecute \/ RunExecuted
Coordinator ==
    \/ Invalidate \/ Prepare \/ Prepared \/ Publish \/ Continue \/ Throw \/ Sign
    \/ Authorize \/ Authorized \/ AppExecute \/ Executed

Fault == DaemonDies \/ RunDies \/ AppDies \/ \E c \in Clients : Deadline(c)

Next ==
    \/ (Daemon \/ RunCommand \/ Coordinator) /\ UNCHANGED <<faults, signer>>
    \/ faults < MaxFaults /\ faults' = faults + 1 /\ Fault /\ UNCHANGED signer

Spec == Init /\ [][Next]_vars

-----------------------------------------------------------------------------
(* What it promises.                                                       *)

\* Every nonce meets the fate the holder promises (module NonceFates), through
\* deaths of the daemon, lost answers and repeated requests: spent before it holds
\* the lease, launched once, and never again when the lease is gone (2141 to 2231).
Fate(n) ==
    IF lease.token = n /\ lease.held
    THEN IF lease.child = "uncertain" THEN "held" ELSE "starting"
    ELSE IF n \notin Spent THEN "fresh"
    ELSE IF todo # <<>> /\ Head(todo).nonce = n THEN "spent"
    ELSE "over"
Fates == INSTANCE NonceFates WITH fate <- [n \in Nonces |-> Fate(n)]
ImplementsNonceFates == Fates!Spec

\* A held run says completed only when the holder has launched its payload, has seen
\* the end of it and has freed the lease (run.py 813 to 874); and its log never has
\* two run_start events: whatever dies after the first one, its nonce is spent and
\* stops the next attempt (run.py 714, 769).
CompletedMeansRan ==
    \A r \in Runs :
        /\ starts[r] <= 1
        /\ phase[r] = "completed" =>
              launches[r] = 1 /\ r \notin payloads /\ ~(lease.held /\ lease.token = r)

\* However long authorize and execute were under way, an exact run is launched under
\* the policy generation and key generation it was displayed with, and under the device
\* key it was authorized with: a key revoked and paired again between the two calls
\* stops it (_verify_exact_run_session).  A key of the Mac is the one enrolled when the
\* run was displayed; a phone may have been paired again since (bound_exact_run names
\* no key, ExactRunCoordinator.swift 232 to 243).
LaunchedAsShown ==
    [][\A n \in Exact : launches'[n] # launches[n] =>
          /\ auth = spent[n]
          /\ auth.gen = shown[n].gen /\ auth.kg = shown[n].kg
          /\ signer = "mac" => auth.dev = shown[n].dev]_vars

\* "A later Continue must not sign or authorize them again": once execute was asked
\* for, no further signature is made for that nonce, whatever became of the answer
\* (ExactRunCoordinator.swift 116 to 119, 246 to 258).
NeverSignsAgain == [][apppc = "live" /\ apppc' = "collect" => at \notin asked]_vars

=============================================================================
