# A TLA+ verification of runspecimen

runspecimen runs one human-approved command at a time in a workspace and issues
a receipt for it. This directory models the program's core, checks the models
with TLC and proves the most important of their properties with TLAPS. Paths
such as `approve.py:96` are below `src/runspecimen/` of the repository unless
they start with `docs/`, `apps/` or another top-level directory.

## 1. The system

### 1.1 Parts, state and operations

| Part | Code | State it keeps | Operations |
|---|---|---|---|
| Run lifecycle | `approve.py`, `preflight.py`, `run.py`, `postflight.py`, `certificate.py`, `recovery.py`, `state.py` | per run: `state.json`, `approval.json`, `events.jsonl`, `certificate.json` | approve, preflight, run, postflight, verify, recover --abandon |
| Event log | `events.py` | `events.jsonl`, the flock `events.append.lock` | append, read_all, verify_chain |
| Workspace lease | `lease.py` | the flock `execution.lock`, lease metadata | acquire, release, probe; inherited by the payload's helpers |
| Supervision | `run_supervisor.py`, `run_bind_exec.py`, `run.py:119-598` | processes, pipes, the lease's descriptors, cleanup fields of `state.json` | spawn, supervise, stop the group, retain an unconfirmed cleanup, answer the CLI; the watchdog |
| Remote confirmation | `remote_confirm.py`, `companion.py:819-900` | the pending challenge, the local challenge file | arm, settle, refuse, cancel, failed attempts |
| Execution holder | `execution_holder.py` and the other `holder_*.py` | `meta`, `callers`, `enrollment`, `devices`, `policy`, `os-boundary`, `spent`, `lease` JSON records; challenges, an enrollment session and one pending exact run in memory | init, enroll, pair, rotate, revoke, set_policy, issue and authorize an exact run, consume, execute, cancel_uncertain |
| Launch protocol | `holder_protocol.py` | a durable launch record, `HolderSim`; `files/<digest>` snapshots | consume, intent, spawn, go, ack, commit, recover; bind_execution |
| Exact-run coordinator | `apps/holder/Sources/HolderSocket/ExactRunCoordinator.swift` | the retained challenge, epoch, uncertain and finished nonces | prepare, continueRun, invalidate |
| Companion server | `companion.py`, `companion_attention.py`, `companion_tls.py` | two mailboxes, pairing token, rate limit | peer and phone posts and gets, the two remote-confirm routes, read-only routes |
| Evidence | `requirements.py`, `freshness.py`, `evalsuite.py`, `bundle.py` | preserved reports, a pointer, an attestation | run checks, publish, bind at postflight, evaluate freshness |
| Signing keys | `pubkey.py`, `signing.py` | a key pair in two files, a rotation journal with backups, the HMAC key | keygen, recovery, sign, verify, list, export |
| Registers | `usage.py`, `decisions.py`, `configsync.py`, `snapshot.py`, `coordination.py`, `fastpath.py` | ledger, decisions, active bundle and backups, snapshots | import, capture, apply, roll back, export, create, restore |
| Contracts and checks | `contract.py`, `paths.py`, `schema.py`, `hashutil.py`, `policy.py`, `runtime.py`, `isolation.py` | none | parse, hash, check |
| Durable writes | `atomic.py`, `holder_io.py` | none | write, fsync, rename, fsync the directory |
| Views | `status.py`, `present.py`, `scenes.py`, `dashboard.py`, `cli*.py`, `native_bridge.py`, `apps/` | none | render, forward |

Every lifecycle command takes the workspace lease first and keeps it until its
last write, human prompts included. It reads the contract, the source tree and
the files of the run; it appends to the log; it replaces `state.json`. `run`
executes in a detached supervisor process that owns the lease, starts
`run_bind_exec` in a new process group, passes it the lease's descriptor and
waits. The wrapper forks a watchdog, which keeps that descriptor, and then
becomes the payload. The CLI holds two pipes to the supervisor. The companion
server calls settle and refuse, which are lifecycle commands too. A run whose
contract asks for it goes through the holder daemon instead of spawning.

### 1.2 What is hard

- A command makes several durable writes and may end between any two of them;
  the next command, maybe another one, starts from what is there.
- Files that belong to the user change while a command runs or waits at a prompt.
- An approval expires while slow checks run.
- SIGKILL hits any of the CLI, the supervisor, the wrapper, the watchdog and the
  payload, in any order, on two platforms with different guarantees.
- A process group is identified by a pid, listed non-atomically (the pids first, then
  what each of them is), and may contain processes that may not be signalled.
- An append that fails may leave half a line, and the error of the next append is
  another one than that of the first.
- A lock belongs to a file description that several processes share.
- A log line is written in pieces by processes that may die.
- A record is several files, replaced one after the other.
- A request outlives the client that gave it up; its answer may be lost, and its
  nonce spent all the same.
- A pid is used again while somebody still means the process that had it.
- An actor suspends while the policy or the keys change beneath it.
- A post is handled after newer ones, or twice.

`PROJECT.json` lists each of these as a hazard, with the line where it bites and
the properties that cover it.

### 1.3 What makes each part correct

- Lifecycle (docs/PRODUCT_PLAN.md, frozen invariants): nothing starts that was
  not approved, a run ID is used once, a successor waits for its predecessor's
  receipt, a receipt certifies the launch that happened, a failure is never
  certified, a closed run stays closed.
- Event log: appends are totally ordered and chained, what a reader was given
  stays true, a damaged log is noticed and never silently short.
- Lease: mutual exclusion whoever dies; metadata that names the holder.
- Supervision: cleanup is called confirmed only when it is, the lease outlives
  everything that may still run, a deadline kills, the CLI is answered.
- Remote confirmation: one challenge has one fate, within the attempts allowed.
- Holder: one nonce, one launch; the lease is held while anything may live; no
  torn record authorizes; what changed while a user was waited for fails closed.
- Coordinator: a nonce whose fate is unknown is never signed or run again, and
  what runs is what was shown.
- Launch protocol: no recovery frees the lease while something of the launch
  lives; what is executed are the bytes that were signed.
- Companion: what is served together belongs together.
- Evidence: passed means passed; a receipt binds a report that stands; evidence
  called applicable is.
- Keys: a complete pair is replaced by a complete pair only, and what was signed
  goes on verifying.
- Registers: what a command answered stays.

## 2. Modules

| Module | Models | Abstract specification |
|---|---|---|
| `RunLifecycle` | the lifecycle commands of all runs of a workspace | `RunFate` |
| `RemoteConfirm` | remote confirmation; EXTENDS `RunLifecycle` | |
| `EventLog` | processes that append to and read `events.jsonl` | `AppendOnlyLog` |
| `Lease` | processes and helpers at the workspace lease | `LeaseMutex` |
| `RunSupervision` | the processes of one run; INSTANCEs `Lease` | `Lease` itself |
| `HolderRecords` | every operation on the holder's records | |
| `HolderExecution` | one execute, with processes and pids | `PayloadLaunch` |
| `HolderRuns` | the daemon, `run` and the coordinator over nonces and the lease | `NonceFates` |
| `LaunchHandshake` | `HolderSim` and `assess_durable` | |
| `SnapshotBinding` | `bind_execution` | |
| `Mailbox` | the companion's two mailboxes, the Mac and the phone | |
| `CheckOutcomes`, `Evidence` | what a check makes of its tools; checks, postflight and freshness | |
| `KeyRotation` | the key pair, the HMAC key and the commands that use them | `AtomicPair` |
| `Registries` | ledger, decisions, bundles, snapshots | |
| `MC...` | values for TLC; `MCSide`, `MCHolderExecution` and `MCRemoteConfirm` put several machines or instances into one run | |
| `LeaseProofs`, `EventLogProofs`, `RunSupervisionProofs`, `HolderRunsProofs`, `KeyRotationProofs` | theorems about the module of that name | |
| `HolderProofs` | theorems about `HolderRecords` and `HolderExecution` | |
| `RunProofs` | theorems about `RunLifecycle`, and about `RemoteConfirm` on top of them | |
| `SideProofs` | theorems about `Mailbox`, `LaunchHandshake`, `SnapshotBinding`, `Evidence`, `Registries` | |

**RunLifecycle.** Disk state is per run; `pc`, `cur` and `seen` are the program
counter, run and local variables of the one operation in flight (the lease
excludes others, which `Lease` shows). Each action is what a function does from
one durable write to the next: `ApproveConfirm` writes `approval.json`,
`ApproveEvent` appends, `ApproveState` updates `state.json`; likewise for the
other commands. `Leave` ends the operation anywhere: a refused check, an OSError,
SIGKILL and a power cut look the same on disk. What a command reads from the
user (contract version `c`, source state `s`, outputs `o`) is any value each
time. A hash is modelled by what it commits to: an approval event carries the
document, a receipt's `event_head` is a position in the append-only log.
`launches` and `unconfirmed` are history variables.

**EventLog.** Here a write is not atomic: a line passes through "some bytes", "the
text without its newline" and "all of it", and `Fail` may happen at each. The
abstract log may break, and then has no entries and takes no more.

**Lease.** `fds` is the set of processes with a descriptor of the locked file
description: the kernel frees the lock when it is empty or when anyone calls
LOCK_UN. `RemoveMetaFails` and `WriteMetaFails` are the two exceptions that the
code lets through between the lock and the metadata. A member of `Procs` is a
process, which runs one command after another.

**RunSupervision.** `pc` follows the supervisor through `guarded_run`,
`run_contract`, `_supervise_process`, `_stop_process` and `_retain_cleanup`;
`leader` the wrapper that becomes the payload; `dog` the watchdog; `cli`, `msg`
the CLI and the result pipe. A signal is pending (`doomed`) before it is
delivered (`Dies`). A listing of the group takes two steps, as in the code
(`run.py:275-303`, 403-422): `Lists` reads the pids, and the next step, which sees what
became of each of them, skips those that are gone. A worker forked in between is in neither:
the history `slipped` has these workers and what they fork. A group is `Cleared` when it is
empty, or judged empty with only such workers in it. `torn` is an event log that ends in half
a line: `record_pending` catches only `OSError`, and the `ValueError` that the log raises from
then on leaves `_retain_cleanup`, which unlocks the lease (`RecordsPending`). Its lease steps are the actions of `Lease`, so that
`ImplementsLease` says that the run, with its inheriting wrapper and watchdog,
never uses the lease in a way `Lease` does not cover: the theorems about `Lease`
hold of it.

**RemoteConfirm.** arm, settle and refuse hold the lease and therefore use `pc`, `cur`
and `seen` of `RunLifecycle`: they are further operations of the same kind, and settle
writes the approval by the same `WriteApproval`. `cancel` takes no lease and may
fall between any two steps of the others, hence `held`, the copy an operation has
read. The histories count what each challenge came to.

**HolderRecords.** An operation checks everything under `.holder.op.lock` and fixes the
sequence of files it will replace (`todo`); `Write` replaces one; `DaemonDies` is a daemon
that died between two of them. Enrollment is two operations with the user in between
(`session`). A signature is what it decides: a key signs while its device record
is there and not revoked.

**HolderExecution.** `proc` is the process table: `ForkChild`, `SetSid`, `Exit`, `WaitChild` and
`Foreign` (somebody takes a free pid) happen at any time, and the steps of execute
follow `execution_holder.py` 2733 to 2990: gate, watch, deadline, TERM, KILL, the
judgement and the sweep, on Linux (subreaper) and Darwin (NOTE_FORK). The judgement is by
the children that are not in the baseline, taken before the watch
(`execution_holder.py:3514-3518`, 3623), and the baseline names pids, dead ones too. The
history `hidden` says that a descendant was given one of them; `PayloadLaunch` lets the lease
go in that case only (`Hide`). The refinement mapping computes from the process table what became of the payload.

**HolderRuns.** A call is a member of `requests` until the daemon handles it; its client may
stop waiting, and the request goes on. When the daemon dies its clients find the socket
closed, a `FrameError` ("lost"); only a request that it had not read yet may end in a reset.
The Mac signs with the key an exact run was displayed under. No check pins the phone's key
(`execution_holder.py:101-131`, 1357-1368), so a phone may sign with any key it ever had
(`Signers`), and authorize and execute accept what is enrolled then. `HolderRuns` takes from `HolderExecution` only
how an execute may end (`Ends`, `Doubt`, `NoSpawn`); that these three are all is
what `PayloadLaunch` states. `run` is followed from consume to the recorded outcome, the
coordinator from prepare to executed, with every suspension point.

**LaunchHandshake, SnapshotBinding.** The two halves of `holder_protocol.py`: the
eight steps of `ORDER` with a holder that dies and one that recovers as nobody's
parent; and the copy of each file into `files/<digest>`, its verification and the
rebound shebang, with sources edited at any time.

**Mailbox.** A handler is one block under `phone_lock`. A post in `posts` may be handled at
any later time, so posts overtake each other, and once more after it was handled.

**CheckOutcomes, Evidence.** A tool's run is its exit, its marks, the state of its
result file, whether a test was counted (a fixture that errs or skips leaves a mark and no
test) and whether a subtest failed; the provider's judgement is a function
of it. `met` of a report says, beside that judgement and from the tool's run alone, whether
each requirement was met. A recorded fingerprint may lack a field (0), which the freshness
check then skips (`freshness.py:272`). `Evidence` runs two checks, a postflight and a freshness evaluation, each
in the steps in which the code reads and writes, and edits any part of the workspace.

**KeyRotation.** A save, a rollback and a recovery are lists of file operations
taken from `pubkey.py`, done one by one; `Recovered` is what the recovery at the start of
every use would leave, and the pair seen through it refines `AtomicPair`.

**Registries.** Two clerks run commands at once; a file replaced by rename appears in
one step, an archive or a copied backup is first truncated and then written.

Operators introduced by a comment `Mutant:` are plausible bugs of the definition
that follows them. They are used by no specification; each shows that a property
fails when the code is wrong in that way.

## 3. Runs

| Run | Bounds | States | What it shows |
|---|---|---|---|
| `lifecycle` | 1 run, 1 contract, 2 sources, 2 outputs, TTL 1, log up to 6 events | NLIFE | six properties of one run through every command and crash |
| `lifecycle_reuse` | as `lifecycle`, log up to 5 | | violation: a run is launched twice |
| `remote_confirm` | instance `confirm`: 1 run, 2 sources, 1 challenge, 2 attempts, TTLs 1, log up to 6; instance `chain`: 2 runs, the second names the first, 1 source, no clock, log up to 5 | NREMOTE | one fate per challenge; what cancel and refuse can disturb; the refinement of `RunFate` in both instances |
| `supervision_group` | 2 forked workers, both hosts | NGROUP | two invariants, refinement of `Lease` |
| `supervision_live` | 1 forked worker, both hosts | NLIVE | two liveness properties |
| `supervision_slips` | 2 forked workers, both hosts | | violation: cleanup is confirmed with a member alive |
| `supervision_torn` | 1 forked worker, both hosts | | violation: a torn log ends a retained cleanup |
| `holder_exec` | machine `execute`: 3 pids, both platforms, listings of the process table that may fail; machine `lease`: 3 processes, 2 helpers | NEXEC | refinement of `PayloadLaunch`; execute ends; metadata, helpers, refinement of `LeaseMutex` |
| `holder_records` | 1 caller, 2 keys, 2 generations, 2 challenges or sessions | NREC | torn records lock out and never authorize; a wait fails closed |
| `holder_runs` | 1 held run, 1 exact run, 2 requests in flight, 2 disturbances | NRUNS | refinement of `NonceFates`; completed, shown and signed mean what they say |
| `side` | see below | NSIDE | thirteen properties of seven machines |
| `evidence_subtests` | as `side`, subtests on | | violation: passed with a failed subtest |

Why the bounds are enough for what they show:

- Log length: a run's log is approval, preflight_ok, run_start, run_ended,
  postflight_assertions_ok, certificate_issued, so 6 events hold one complete
  life; a shorter life leaves room for a repeated approval, start or postflight
  after a crash, and those are the cases in which logs could mix. 5 events
  complete a run that skips preflight, which the code allows (`run.py:686-740`).
- One contract version in the runs: approvals that name another contract are
  told apart by the same comparison as approvals that name another source, which
  has two values. The proofs are for any number of both.
- `lifecycle` and `remote_confirm` take the two source states as symmetric: no
  action and no property names one. `Init` does, by CHOOSE, for a `source_hash` that
  nothing reads before approve, preflight or run has set it. `holder_records` takes
  its keys, `side` its two checkers, `supervision_group` its workers as symmetric, for the
  same reason. Where such a run checks a refinement as well, the mapping does not mention what
  is permuted: `ImplementsFate` no source state, `ImplementsAtomicPair` and
  `ImplementsAppendOnlyLog` no checker, `ImplementsLease` no worker. The runs with a liveness
  property use no symmetry.
- TTL 1 with a clock of 2 values lets an approval be valid, expire and be renewed.
- Two runs suffice for a gate between a run and its predecessor.
- Supervision: two workers are a member of another user and the child it forks while the
  group is listed, or one member that may be signalled and one that may not. The liveness
  properties are checked with one worker, which is the smallest group that outlives its leader,
  because TLC takes too long for them with two.
- `remote_confirm`: `EventsOnce` stops a behaviour in which a command of the lifecycle
  reaches its event a second time, which `lifecycle` explores. One challenge can be
  guessed, settled, refused, cancelled and brought back; a second one is another run
  of the same steps, because arm replaces the document as a whole. A behaviour is of one
  `instance`: the phone on a single run, or two runs without a phone.
- `holder_exec`: three pids are a payload, a descendant and one that is free, or belongs
  to a stranger. `Failing` lets the listing of the whole table fail. With `"token"` in it
  too, a failing `ps -p`, TLC finds `ImplementsLaunch` violated: see section 3.3. The lease
  shares no state with it, and a behaviour runs one of the two (`machine`); three processes
  there make two contend while a third dies or probes.
- `holder_records`: the second generation and the second serial are what a stale
  session or challenge needs; two keys tell an old key from its replacement.
- `holder_runs`: `FewDisturbances` allows two faults (a death, a call given up), or one
  fault and one change of policy, key or device. One held and one exact run contend for
  the one lease; two requests in flight is what lets a repeated one overtake.
- `side`: the seven machines share no state, so one behaviour runs one of them (`machine`), and
  the state space is the sum and not the product. Log: 3 processes, of which two contend while
  the third reads or dies, and 4 appends. Keys: 2 pairs and 3 kills or failed
  operations, so that a save, its recovery and the recovery of that can all be cut
  short. Handshake: 2 nonces, 3 processes. Binding: 2 sources of 2 contents, 2 binds.
  Evidence: 2 checks, 1 edit, all runs of a tool with at most 2 marks, five manifests; a second
  check comes only under the manifest of one command (`ChecksAlone`), because what two
  checks do to each other does not depend on what they check. Mailboxes: 2 phone
  challenges and one exact run, 2 posts on their way and 1 repeated. Registers: 2
  clerks, 3 commands (with 4 the property holds too, 4,093,348 states), 2 seconds, 1 edit.

`CHECK_DEADLOCK FALSE` is set where the system may really stop: the lifecycle
when the log bound is reached, a machine of `side` when its bounds are used up or its log is
torn, a run when all its processes are gone, an execute when it has answered or its daemon is
dead, the holder when its nonces and its disturbances are used up.

The type invariants of the lifecycle, the lease, the log, of `RemoteConfirm`, `RunSupervision`
(`SupervisionTypes`) and `HolderRecords` are proved, so no run spends time on them; that of `HolderExecution`
(`ExecutionTypeOK`) holds in the instance above, to which it can be added. The inductive
invariants of section 4 were checked by TLC on these instances before they were proved.

### 3.1 Fairness

`RunSupervision` and `HolderExecution` state liveness. The fairness of `RunSupervision`
assumes what an operating system gives: processes that are not stopped take steps
(`Supervisor`, `Helper`, `Watchdog`, `CliReturns`, `WatcherSeesEof`), SIGKILL is delivered
(`Dies`), time passes (`Deadline`). One assumption is stronger: `Lists` is strongly fair, that
is, the membership of the group is not unknown, and the budget of the loop not spent, each of
the infinitely many times that it is probed. Nothing is assumed
of the payload, which may run, fork and become foreign as it likes, nor of a
human. The worker count bounds forking, as a kernel's process limit would.
`DeadlineKills` leaves out a killed supervisor (on Darwin the payload then lives
until its watchdog kills it), a foreign process, which nobody may kill, and a torn event log,
which ends the loop that kills (finding 2).

`HolderExecution` assumes only that the daemon's thread is scheduled (`HolderStep`) and
that its clock advances (`Deadline`). The payload may fork for ever, ignore signals and
never exit: `ExecuteEnds` says that no wait of execute depends on it. It may end in
the answer "uncertain", with the lease held.

### 3.2 Findings

Each violation run contradicts a line of the documentation.

1. **A run can be launched twice** (`lifecycle_reuse`). `_TERMINAL_PHASES` of
   `approve.py:96` and `preflight.py:102` lack `cleanup_pending`, which
   `run.py:698` has. After a supervisor dies with cleanup unconfirmed, the run is
   preflighted or approved again and starts again; docs/PRODUCT_PLAN.md:20 rules that
   out. `RelaunchOnlyAfterUnconfirmed` proves that this is the only way.
2. **A torn event log ends a retained cleanup** (`supervision_torn`). `record_pending` catches
   `OSError` alone (`run.py:556-561`). After an append that left half a line its retry (571)
   raises the `ValueError` of `events.py:174`, which leaves `_retain_cleanup`: the lease is
   unlocked, for the watchdog's descriptor too, with the group alive and nobody killed.
   `run_supervisor.py:15` rules that out. `LeaseUntilCleared` says that this and a killed
   supervisor are the only ways. For the records of `RunLifecycle` the escape is a crash that
   leaves `cleanup_pending`, which `Leave` covers.
3. **Cleanup is confirmed with a live member** (`supervision_slips`). `_proc_group_members`
   (`run.py:275-303`, `libproc` alike, 403-422) reads the pids, then the state of each, and skips
   what has gone. A member of another user that forks in between and exits is missed with its
   child. `run_supervisor.py:17` says that no member lives. `ConfirmedMeansCleared` says that
   only what a listing missed can live, and on Linux only processes of another user.
4. **A failed subtest passes** (`evidence_subtests`). The result class of the unittest
   runner (`requirements.py:705`) does not override `addSubTest`. A suite in which a
   subtest fails beside a test that passes leaves one mark, a pass, and the requirement
   and its report say passed (docs/ADR-005-evidence-expansion.md:85).

### 3.3 Observations

Met while modelling, without a run that is kept. Most of them are visible in a model: it
contains the behaviour, and the properties are stated so as to hold beside it.

Run and lease
- `run.py:759` passes the timestamp of line 740, so the expiry check its comment
  describes cannot fail for time that passed in between.
- `append` does not look whether the log ends with a newline (`events.py:256`): a last
  line that lacks only its newline parses, the next append joins it, returns, and
  the log is unreadable. `ReturnedIsThere` therefore speaks of logs that parse.
- `is_locked_by_other` takes the lock (`lease.py:135`): a probe by status can refuse a
  command, though docs/USER_GUIDE.md:333 says it never does. `Probe` is in `Lease`.
- On Darwin killpg may report that there is no such group when the leader is a zombie; a worker
  of the same user can then be missed by the listing too (`ConfirmedMeansCleared` says "on Linux").
- The watchdog leaves when the leader has exited (`run_bind_exec.py:200`); a kill of the
  supervisor right then leaves a worker with the lease free, and docs/FAQ.md:53 names
  only the double kill. It may also signal a group identifier after the group is
  gone (206).
- Metadata that fails to be written leaks the lock for the life of the process
  (`lease.py:97-99`, `WriteMetaFails`).
- An abandonment that crashes between its event and its state leaves a run that was in
  `cleanup_pending` open.

Remote confirmation
- refuse does not look at the phase (`remote_confirm.py:396`): on a postflighted run it
  appends an event, and the receipt no longer verifies. `ReceiptLostOnlyToRefusal`.
- A wrong answer written over a cancellation brings the challenge back.
  `CancelledGrantRaced` says exactly when a cancelled challenge may still approve.

Holder
- A descendant that is given a pid of the baseline, such as that of the `ps` which listed it, is
  not looked at (`execution_holder.py:3514-3518`, 3623), and the lease may be freed while it
  lives: `hidden` and the `Hide` of `PayloadLaunch`.
- An exact run that was displayed under one key of the phone can be authorized and launched under
  another, after a revocation and a new pairing: neither `bound_exact_run` (101-131) nor
  continueRun (236-243) names a key of the phone. The two calls must agree in their key.
- The start token of a process is read when it is signalled (`execution_holder.py:2964`),
  not when it was first seen, so it does not tell a reused pid from the old process. An
  unreadable token (3630) counts as gone, and the lease may be freed while that process
  lives. Zombies that are reparented to the holder
  keep the lease for ever.
- A crash in `__init__` after `meta.json`, and one in set_policy between `policy.json` and
  `meta.json`, locks the holder out: the two cases in `LockedOutOnlyWhenTorn`.
- replace_device_key changes the fingerprint only; accept_native_ipc rewrites
  `os-boundary.json` with its own roles; a challenge issued before a revocation may
  enroll the revoked role again; with two callers rotate can give one key generation twice.
- The CLI reads an answer for five seconds (`holder_io.py:17`), an execute may take up to
  its `wall_timeout`. The resulting FrameError is caught nowhere (`run.py:931-957`): `state.json`
  says running and the workspace lease is free while the payload runs under the holder's
  lease; an OSError instead records failed. docs/PRODUCT_PLAN.md:16 speaks of one
  execution lease per workspace.
- A lost answer to authorize is not counted as uncertain by the coordinator. A held
  run killed between consume and run_start can never run under that contract. A pending
  exact run whose policy, key or device changed, or that expired, after authorize keeps
  the lease for ever: cancel_uncertain takes no exact run.
- Recovery after "reaped" with the old pid in use again retakes the lease for ever
  (`holder_protocol.py:793-795, 902-905`). A bind killed in the middle of a copy leaves a
  partial file, which refuses that digest from then on.

Companion
- phone-peer-invalidate ignores the identifier it is given: a late one clears a newer
  challenge. A challenge posted late, after an invalidation, comes back with an empty
  list of receipts. Cancelling on the Mac does not tell the mailbox.

Evidence
- A check publishes outside the lease and answers from the pointer, so that a concurrent
  check can give it another's answer (`cli_expansion.py:306-335`); the approval is
  looked at before the lease is taken (1115-1119).
- A check after postflight moves the pointer, and verify then fails: `BindsWhatStood`
  excepts it.
- `reverification_plan` (`freshness.py:376-389`) can never say "applicable"; a requirement
  without declared inputs never is.

Keys
- A first keygen killed between the rename of the private key and the journal's next
  entry leaves a private half, though the comment beside that rename (`pubkey.py:934-935`) says
  that a crash cannot leave a private-only orphan which recovery would treat as a working key:
  recovery takes the journal away and keeps the half. Overwriting a half may leave a mixture,
  which list-keys lists. Both are steps of `AtomicPair`.
- verify-signature --key-id reads without lock or recovery (`cli.py:1135`). An HMAC keygen
  killed between creation and write leaves an empty file for ever (`signing.py:278`).

Registers
- Two overlapping captures of one decision both answer, and the first is lost
  (`decisions.py:120`). Two applies in one second overwrite each other's backup, and of two
  concurrent ones one is lost; the copy is not atomic (`configsync.py:344`).
- snapshot create hashes the tree after it has archived it: an edit in between makes
  `source_hash` that of another tree. Creating an id again truncates the old archive
  first. Only the usage import takes the lease.

## 4. Proofs

`tlapm` checks every obligation of the eight modules. Nothing is assumed but the named
assumptions on the constants, which TLC evaluates in the runs, and in `PassedTheorem` the
hypothesis `SubTests = FALSE`.

**RunProofs**, on `RunLifecycle`, for any runs, contracts, sources, outputs, predecessor
relation, TTL and bounds:

- `StepsGuarded`: the inductive invariant `Inv` = `TypeOK` /\ `StepShape`. Types alone
  are not inductive for what follows: an operation checks its guard when it begins
  and acts on it several writes later. `StepShape` says that at each step the guard
  still stands (the phase was not terminal, the document is the one written, the run
  is `running`), which holds because no other operation is in flight and `Tick` and
  `Leave` write nothing. Lemmas named `...Shape` prove it command by command.
- `TypeCorrect`: `TypeOK`.
- `RelaunchTheorem`: `RelaunchOnlyAfterUnconfirmed`, with `LaunchCount`: a run whose
  payload was spawned is in a phase that no command starts from, or was once
  unconfirmed.
- `ClosedTheorem`: `ClosedIsFinal`, from the guards that `StepShape` carries.
- `FateTheorem`: every step is a step of `RunFate` or a stutter, command by command.
- `StartsTheorem`: `RunStartsApproved`. It is inductive with `Inv`: lemma `LogStep` says
  that a log grows by one event, that only `RunStartEvent` appends a `run_start` and
  only `ApproveEvent` an approval; the check before `RunStartEvent` supplies the
  approval event the property asks for.
- `LaunchTheorem`: `LaunchWasApproved`. It is not inductive: `state.json` is written one
  step after the check, a cleanup confirmed later returns a run to `failed`, and
  postflight rewrites the provenance. `ApprovalStands` adds what holds at those
  steps; lemma `ApprovalKept` says that only approve replaces the document or
  outdates it, and approve never works on a launched run.
- `VerifiesTheorem`: `PostflightedVerifies`. A receipt is issued in four writes, and verifies
  only after the last. `Issuing` says that each write of postflight finds the ones
  before it at the end of the log, because nobody else appends while it is in flight,
  that what is written is what was read, and that of a postflighted run neither log nor state nor receipt
  is written again.
- `BindsTheorem`: `ReceiptBindsLaunch`. It relates the receipt to the last `run_start`, long
  before it. `StartsStand` says that the state of a launched run names the contract and source
  of that event; `ExitStands` that an exit code is that of a payload that was spawned;
  `FailureStands` and `AbandonStands` that a failure in the log, and an abandonment that
  began, are what the state says from then on, or a cleanup was once unconfirmed.

On `RemoteConfirm`, for the same constants and any codes, challenges, attempts and
times to live:

- While an operation of the phone is under way no command of the lifecycle is, and the
  other way round. `RemotelyNext` therefore splits the steps of `RemoteSpec` in two: a step
  of the lifecycle, of which all lemmas above hold, and `Remotely`, which to
  each run does at most one of two things: it stands `Aside` (its log may grow by a
  refusal), or, while it is in no terminal phase, it `Opens` for an approval.
- `RemoteTypes`: the inductive invariant `RemoteInv`, types and guards as in `StepShape`.
- `RemoteRelaunchTheorem`, `RemoteLaunchTheorem`, `RemoteStartsTheorem`, `RemoteBindsTheorem`,
  `RemoteFateTheorem`: what was proved of the lifecycle alone holds beside the phone too. `Guarantees`
  are the inductive invariants of the lifecycle, here preserved by `Remotely`.
- `RefusalTheorem`: `ReceiptLostOnlyToRefusal`; `UnrefusedTheorem`: a receipt that no refusal
  followed verifies; `ClosedButRefusedTheorem`: of `ClosedIsFinal` a phone breaks nothing but
  that the log ends.
- `OneFateTheorem`, `CancelTheorem`: `OneFate` and `CancelledGrantRaced`, from the inductive
  invariant `Fates`. It says that a number belongs to one document (`OwnChallenge`), that a
  document which can still be answered, and the copy an answer is judged by, count every
  wrong answer and nothing was written for them (`OpenUntilAnswered`), and that a challenge
  cancelled while nobody held a copy is gone (`CancelledGone`).

**LeaseProofs**, for any number of processes and helpers:

- `LeaseInvariant`: `IInv` = types, `OneDescription` (what is open is one process and
  the helpers that guard it), `GuardsHold` (a guarding helper has the descriptor
  open), `MetaNamesHolder`. Exclusion alone is not inductive: LOCK_UN frees the lock
  for everyone who shares it, so it matters who can share.
- `LeaseTypes`, `MutualExclusion`, `MetadataTheorem`, `HelperTheorem`: the invariants.
- `MutexTheorem`: the refinement of `LeaseMutex`.

**EventLogProofs**, for any number of processes and appends:

- `LogInvariant`: the inductive invariant `LogInv`. Neither `ChainVerifies` nor
  `ReturnedIsThere` is inductive: a record is computed two steps before its first bytes
  and three before it parses. `LogInv` adds that only the holder of the exclusive lock
  is inside an append (`Locks`), that what it computed still continues the file
  (`Drafts`), that a torn line is the last one (`Chained`), that entries are told apart by
  the append that made them (`Distinct`), and that what returned or was read stands
  unless the last line will never parse (`Kept`).
- `LogTypes`, `ChainTheorem`, `ReturnedTheorem`: `TypeOK`, `ChainVerifies`, `ReturnedIsThere`.
- `RefinementTheorem`: `ImplementsAppendOnlyLog`. The bytes of a line are there before
  its entry counts: `Settled` hides a line in progress. The completion of its text is
  `Add` (`WriteTextRefines`), a failure that leaves a torn line is `Break`, everything else
  leaves `Settled` as it is (`SteadySettled`, one lemma for each action that writes).

**RunSupervisionProofs**, for any number of workers and either host:

- `SupervisionInvariant`: `SupInv` contains the inductive invariant of `LeaseProofs`, taken
  through the INSTANCE of `Lease`: the rival command is never inside together with the supervisor, so the
  descriptor that the supervisor opened stays its own. The rest is about the group, and does not take
  a listing for what is there. Nobody enters a group but by a fork of a member; while the state of the
  listed is read, a live member is among the listed or slipped (`Listing`); hence what a judgement passes over
  is slipped, and so is whatever that forks (`ClearedAfter`). On Linux all that killpg could reach was
  doomed before the listing, so what slipped is another user's (`KilledAll`).
- `SupervisionTypes`: `TypeOK`.
- `ConfirmedTheorem`, `LeaseHeldTheorem`: `ConfirmedMeansCleared`, and `LeaseUntilCleared` with the escape of a
  torn log among its cases.
- `UsesLease`: `ImplementsLease`, each step of each process is one of `Lease` or leaves it
  alone. With `LeaseProofs` this gives exclusion for the run and everything it forks.

**HolderProofs**, on `HolderRecords`, for any callers, keys, generations and serials:

- `RecordsInvariant`: `RecordsInv`. An operation decides what it will write and the daemon may
  die before each write, so the invariant speaks of `todo` as much as of the files. Each write to come is in a
  set of writes that do no harm: `Benign` leaves what `_load` compares, `Harmless` is all
  that installed protection lets through, `Revoking` leaves revoked what was revoked during
  a session. Only init and set_policy write anything else, and `Stage` follows these two write by write.
  One lemma for each other operation shows that what it writes is `Quiet`.
- `RecordsTypes`: `TypeOK`.
- `LockedOutTheorem`, `BoundaryTheorem`, `WaitTheorem`: `LockedOutOnlyWhenTorn`, `BoundaryIsWhole` and the
  action property `WaitFailsClosed`.

On `HolderExecution`, for any number of processes, on either platform, if `"token"` is not in
`Failing` (with it TLC refutes the property, see section 3.3):

- `ExecutionInvariant`: `ExecutionInv`, on the judgement that the code makes, children less the
  baseline. The holder does not know which processes are the payload's, so
  that the lease is released only when none lives cannot be inductive by itself. What is: a payload
  process that is alive has a living parent in the payload, or was adopted, and among any set of them
  one has its parent outside (`Rooted`: parents form a forest, stated without ages or paths); on
  linux none is adopted by process 1 while execute supervises (`Adopted`); hence, when the leader
  has been waited for, some child of the holder is left, and on darwin a fork was noted
  (`Watched`). That child is outside the baseline unless a descendant was given a pid of it
  (`Seen`, with `hidden`). The judgement of the watch passes only when there is neither, after which
  the payload, if nothing was hidden, is empty and stays so. The rest (`HelperWaits`, `LeaderThere`, `LeaseSays`, `GateSays`) ties
  the helper, the gate and lease.json to the places of execute. What `_descendants_of` finds in the
  table plays no part in the argument: it decides who is killed, not whether the lease may go.
- `ExecuteTheorem`: `ImplementsLaunch`. Steps come in four kinds (`Kindly`): what leaves the
  processes alone, deaths and waits, births, and a changed field. Each kind has one lemma for
  what it does to the process table and one that maps it to a step of `PayloadLaunch` or a stutter.

**HolderRunsProofs**, for any held runs, exact runs and bounds:

- `HolderInvariant`: `HolderInv` relates three places that change apart: the records on disk,
  the requests in flight, and what the command and the coordinator remember. Exact
  nonces are issued in order; a request carries what was shown for its nonce; a client waits for one
  answer; an authorize and its execute carry one signature (`SignedInv`), with the key of the display if
  the Mac signed (`KeySigned`); at most one request has begun, and holds the transaction lock; the
  writes of one consume come in order (`todo` is a suffix); what is settled or ended stays. Each
  action is on the daemon's side or on a client's (`TwoSides`), and the lemmas go side by side.
- `CompletedTheorem`, `LaunchedTheorem`, `SignsTheorem`: `CompletedMeansRan`, `LaunchedAsShown`
  and the action property `NeverSignsAgain`.
- `FatesTheorem`: `ImplementsNonceFates`. A consume of several writes is one abstract step, at the
  write that makes the nonce spent.

**SideProofs**, for any values of the constants:

- `ServedTheorem`: `ServedBelongs`. It is not inductive alone: a signature collected by the
  Mac and a receipt sealed by the holder return as posts, and what a repeated post may
  carry matters. `MailInv` adds the types that rule out other routes (`Shapes`), that every
  receipt in a post or a mailbox was sealed (`ReceiptsSealed`), and `Belongs`, which says of
  the stored mailboxes what the property says of the served values.
- `LaunchTheorem`: `LiveKeepsLease`. A recovery looks at the recorded pid and start, so `LaunchInv`
  says which processes those find: a live one is the recorded one or bears its
  start, a wrapper that waits has forked nothing, and a launch in progress holds the lease under
  a nonce that was spent for it (`Holding` counts wrappers and nonces).
- `BoundTheorem`: `BoundIsSigned`. A stored file is none, cut short, or what its name says
  (`StoreTrue`), and a copy that fails removes only what it created (`CopyingNew`).
- `EvidenceTheorem`, `BindsStoodTheorem`, `ApplicableTheorem`: what `EvidenceInv` has to add is the
  order: a report is captured before anything names it, a pointer that moves under a
  postflight is remembered, and each part a reader has compared is as it was, in the order
  of the reading.
- `PassedTheorem`: `PassedMeansTrue` if `SubTests = FALSE`; with subtests the run
  `evidence_subtests` refutes it. `PassIsMet` is the step on the pure functions: for every
  manifest and tool's run, an aggregate of success means that each requirement was met; a skipped, manual
  or errored one is not.
- `RegistersTheorem`: `AnsweredStays`, a conjunction over four registers that share only the clerks.
  `LeadsLeaves` says that a clerk's step at one register leaves the clerks at the others alone, so the four
  invariants are kept apart: the ledger's is the lease's exclusion (`Imports`), the decision's that the
  one capture not raced found nothing (`DecisionInv`), the backups' that until a second is
  contested its backup is what the apply will replace (`Owns`), the snapshots' that a create which
  is alone still has the tree it archived (`Alone`).

**KeyRotationProofs**, for any number of keys, kills and failed operations:

- `KeysInvariant`: `KeysInv`. What a command is about to do is a list of file operations, and a
  kill may leave it anywhere. `PairStands` therefore speaks of the list: while a pair that signed
  something is not being overwritten it is installed, there is no journal, and all that the holder
  of the lock has left to do is `Harmless` to it. That needs `RecoveryEnds`: every recovery takes the
  journal away before a key is used.
- `SignedVerifiesTheorem`: `SignedVerifiesUntilOverwritten`, from `KeysInv`; `MacStands` is the part
  of the HMAC key, which is created once.
- `AtomicPairTheorem`: `ImplementsAtomicPair`. Whether an operation may move `Recovered` depends on
  the files it finds, which several operations before it have prepared. `PairInv` says, for each
  list that recovery (`RecoverPlan`), rollback (`RollbackPlan`) or save (`SavePlan`) may have left, what the
  files and the journal are then; `AtRest` is what remains when the command is killed. The lemmas
  go operation by operation: in a recovery, and when a rollback puts backups back, `Recovered`
  stays (`RecoverStep`, `PutBackStep`); an operation of a save moves it as `AtomicPair` allows, and if it
  fails instead, what the rollback needs is there (`SaveStep`, `HandlerStep`). Lemmas named
  `...Listed` say that the lists of the model are those of the plans.

Only model-checked: the liveness properties `DeadlineKills`, `CliAnswered` and `ExecuteEnds` (temporal reasoning with fairness and
ENABLED is out of the prover's reach), and what `Tree` computes, which needs induction over
its depth; no theorem depends on it.

## 5. Not modelled, and why

- The runtime, isolation and policy checks of preflight and run have no state. A
  refusal by one of them is `Leave`, or `RunSpawnFails` after the run has started.
- Verification of a receipt also hashes the live output files, which the user may
  change at any time, and evaluates the evidence it is bound to (`certificate.py:298-326`), which
  `Evidence` does: `ReceiptVerifies` leaves both out and says so.
- `atomic.py` replaces a file by rename after fsync. The models take one such
  replacement as one step that happens or not. The exceptions are the event log, backups,
  archives, snapshots of payload bytes and the HMAC key, which are not written that way.
- Processes that call setsid leave the group that `run` supervises; docs/FAQ.md lists
  them as a limit. The holder looks for them, and `HolderExecution` has `SetSid`.
- Contents: captures, formatting, hashes as strings, JSON, signature formats and frames.
  Cryptography is what it decides.
- `HolderExecution` takes the holder as root, a listing of the process table as atomic and one
  execute at a time (the transaction lock is held). `HolderRuns` leaves out recover
  --abandon of a held run. `HolderRecords` leaves out `begin_human_*`, which nothing calls.
- Forged and unreadable rotation journals, which are discarded, and symbolic links.
- TLS, pairing tokens and the rate limiter of the companion: the limiter counts requests
  and changes nothing else. The attention list is computed from the files.
- Coordination plans are a reading of reports and usage; evaluation suites and bundles
  run or pack what is modelled; the fast path is a preset of commands. None keeps state
  of its own.
- Views, applications, packaging, scripts: no execution authority.

## 6. Plan

Done: all modules of section 2; every safety property and refinement that a passing run
checks is also a theorem (`PassedMeansTrue` without subtests, `ImplementsLaunch` without `"token"`).

Models that could be extended: two exact runs and two held runs at once in
`HolderRuns`; recover --abandon there; a second challenge in `RemoteConfirm`.
