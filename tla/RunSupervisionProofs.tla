------------------------ MODULE RunSupervisionProofs ------------------------
(***************************************************************************)
(* For any processes that a payload forks, and on either platform: when    *)
(* cleanup is confirmed nothing of the group lives, nor ever will, but     *)
(* what the last listing has missed; and the lease is held until then      *)
(* unless the supervisor is killed or the event log is torn.               *)
(*                                                                         *)
(* Neither is inductive.  The first needs that what a listing misses was   *)
(* forked while it was made, that nothing else is forked afterwards, and   *)
(* that the leader is dead or dying before any listing; on Linux, that     *)
(* killpg left alive what it may not signal only, which forks nothing      *)
(* else.  The second needs that the rival command is never inside the      *)
(* lease together with the supervisor, as module LeaseProofs says.         *)
(***************************************************************************)
EXTENDS RunSupervision, TLAPS

LP == INSTANCE LeaseProofs WITH Procs <- {Sup, Rival}, Helpers <- {Bind, Dog}

-----------------------------------------------------------------------------
(* The invariant.                                                          *)

Before == {"begin", "state", "spawn"}
Stopping == {"probe", "stop", "list", "read", "stopped", "record", "notify"}
After == {"release", "answer", "gone"}
Reasons == {"completed", "timeout", "failed", "interrupted"}

\* The group begins with the spawn.
Unspawned == pc \in Before => leader = "none" /\ alive = {} /\ dog = "none" /\ ~supKilled

\* What ended supervision is a result that state.json can have.
CauseKnown ==
    /\ pc \in Before \cup {"supervise"} => attempt = "first" /\ cause = "none"
    /\ pc \in Stopping => cause \in Reasons \/ (pc = "probe" /\ cause = "none" /\ attempt = "first")

\* The leader is dead or dying when the group is listed, and what the listing lacks has
\* slipped.
Listing ==
    /\ pc \in {"probe", "list", "read"} => Bind \notin alive \ doomed
    /\ pc = "read" => LiveGroup \subseteq listed \cup slipped

\* On Linux killpg has left alive what may not be signalled only.
KilledAll ==
    /\ unborn \cap (alive \cup doomed \cup slipped) = {} /\ foreign \cap doomed = {}
    /\ host = "linux" =>
          /\ slipped \cap alive \subseteq foreign
          /\ pc \in {"probe", "list", "read"} => LiveGroup \ doomed \subseteq foreign

\* Past its group the supervisor has seen nothing of it alive, unless it was killed or
\* could not append.
ClearedAfter ==
    /\ pc = "stopped" => LiveGroup \subseteq slipped
    /\ pc \in After => LiveGroup \subseteq slipped \/ supKilled \/ torn
    /\ supKilled => pc = "gone"

\* The supervisor has the lease from its first write to its last.
HoldsLease ==
    /\ pc = "begin" => step[Sup] \in {"out", "locked"} /\ (step[Sup] = "out" => Sup \notin fds)
    /\ pc \in {"state", "spawn", "supervise", "release"} \cup Stopping => Sup \in fds
    /\ pc \in {"answer", "gone"} => Sup \notin fds

\* Confirmation is written past the group, and success told of it only.
Confirmed ==
    /\ confirmed => pc \in After /\ LiveGroup \subseteq slipped
    /\ pc \in {"release", "answer"} /\ cause = "completed" => phase = "completed" /\ confirmed
    /\ msg \in {"ok", "error"} => pc = "gone"
    /\ msg = "ok" => phase = "completed" /\ confirmed

SupInv ==
    /\ LP!IInv
    /\ TypeOK /\ Unspawned /\ CauseKnown /\ Listing /\ KilledAll /\ ClearedAfter
    /\ HoldsLease /\ Confirmed

-----------------------------------------------------------------------------
(* The lease.                                                              *)

\* Two instances of one module are the same.
LEMMA SameLease == L!Next <=> LP!Next
BY DEF L!Next, LP!Next, L!Command, LP!Command, L!Acquire, LP!Acquire, L!Refused, LP!Refused,
  L!RaiseLeaseError, LP!RaiseLeaseError, L!WriteMeta, LP!WriteMeta, L!WriteMetaFails,
  LP!WriteMetaFails, L!RemoveMeta, LP!RemoveMeta, L!RemoveMetaFails, LP!RemoveMetaFails,
  L!Unlock, LP!Unlock, L!Probe, LP!Probe, L!ProbeEnd, LP!ProbeEnd, L!Die, LP!Die, L!Spawn,
  LP!Spawn, L!Fork, LP!Fork, L!HelperCloses, LP!HelperCloses, L!SetStep, LP!SetStep, L!Flock,
  LP!Flock, L!FlockUn, LP!FlockUn, L!Close, LP!Close, L!Inherit, LP!Inherit

\* A process that closes its descriptor is a helper: no other process of the payload
\* ever had one.
LEMMA CloseIsLease ==
    ASSUME fds \subseteq {Sup, Rival, Bind, Dog}, NEW k \in {Bind, Dog} \cup Workers, CloseLease(k)
    PROVE  L!Next \/ UNCHANGED leaseVars
BY ProcessesAssumption DEF CloseLease, L!Next

\* Every step is one of module Lease, or leaves the lease alone.
LEMMA LeaseStep ==
    ASSUME fds \subseteq {Sup, Rival, Bind, Dog}, [Next]_vars
    PROVE  [L!Next]_(L!vars)
<1> SUFFICES L!Next \/ UNCHANGED leaseVars
  BY DEF leaseVars, L!vars
<1> USE DEF L!Next, L!Command
<1>1. CASE Supervisor
  <2>1. CASE SupAcquires \/ SupRefused \/ SupHolds \/ SupSpawns \/ Releases
    BY <2>1 DEF SupAcquires, SupRefused, SupHolds, SupSpawns, Releases
  <2>2. CASE SupStarts \/ SupCannotStart \/ SupCannotSpawn \/ LeaderSeen \/ ProbeClears
             \/ StopKills \/ Lists \/ StopConfirms
             \/ WritesTerminal \/ CannotWriteTerminal \/ RecordsPending \/ SkipsRecord
             \/ Notifies \/ Answers
    BY <2>2 DEF SupStarts, SupCannotStart, SupCannotSpawn, LeaderSeen, ProbeClears, StopKills, Lists,
       StopConfirms, Stopped, WritesTerminal, CannotWriteTerminal, RecordsPending, SkipsRecord,
       Notifies, Answers
  <2>3. CASE SupInterrupted \/ SupTimesOut \/ LeaderSeenDenied \/ PipesClosed \/ StopDenied
    BY <2>3 DEF SupInterrupted, SupTimesOut, LeaderSeenDenied, PipesClosed, StopDenied, Supervised, Denied
  <2>4. CASE ProbeDenies \/ StopKillsMembers \/ StopGivesUp
    BY <2>4 DEF ProbeDenies, StopKillsMembers, StopGivesUp, Unconfirmed
  <2> QED BY <1>1, <2>1, <2>2, <2>3, <2>4 DEF Supervisor
<1>2. CASE Helper
  BY <1>2, CloseIsLease DEF Helper, BindChecks, BindForks, BindCloses, BindExecs
<1>3. CASE Watchdog
  BY <1>3, CloseIsLease
  DEF Watchdog, DogSetsid, DogReadsStatus, DogLeaves, DogKeepsWatching, DogKills, DogProbes, DogExits
<1>4. CASE Environment
  BY <1>4
  DEF Environment, LeaderExits, SupKilled, DogKilled, CliStops, CliDies, RivalCommand, LogTorn,
      WorkerForked, WorkerExits, WorkerBecomesForeign
<1>5. CASE CliReturns \/ WatcherSeesEof \/ Deadline
  BY <1>5 DEF CliReturns, WatcherSeesEof, Deadline
<1>6. CASE \E k \in {Bind, Dog} \cup Workers : Dies(k)
  BY <1>6, CloseIsLease DEF Dies
<1>7. CASE UNCHANGED vars
  BY <1>7 DEF vars
<1> QED BY <1>1, <1>2, <1>3, <1>4, <1>5, <1>6, <1>7 DEF Next

LEMMA LeaseKept ==
    ASSUME LP!IInv, [Next]_vars
    PROVE  LP!IInv'
<1>1. fds \subseteq {Sup, Rival, Bind, Dog}
  BY DEF LP!IInv, LP!TypeOK
<1>2. [LP!Next]_(LP!vars)
  BY <1>1, LeaseStep, SameLease DEF L!vars, LP!vars
<1>3. LP!ProcsAssumption
  BY ProcessesAssumption DEF LP!ProcsAssumption
<1> QED BY <1>2, <1>3, LP!NextInv

-----------------------------------------------------------------------------
(* Who moves what.                                                         *)

\* The supervisor's own state, and what it writes and tells.
supOwn == <<pc, attempt, cause, cleaned, recorded, logged, listed, supKilled, phase, result,
            confirmed, torn, msg>>

\* A step of the payload's processes and of the watchdog.
ProcessStep ==
    \/ Helper \/ Watchdog \/ LeaderExits \/ DogKilled
    \/ \E w \in Workers : WorkerForked(w) \/ WorkerExits(w) \/ WorkerBecomesForeign(w)
    \/ \E k \in {Bind, Dog} \cup Workers : Dies(k)

LEMMA ProcessesLeaveSup ==
    ASSUME ProcessStep
    PROVE  UNCHANGED <<supOwn, interrupt, late, cli, host>>
<1> USE DEF supOwn, supVars, retainVars, diskVars, cliVars
<1>1. CASE Helper \/ LeaderExits
  BY <1>1 DEF Helper, LeaderExits, BindChecks, BindForks, BindCloses, BindExecs, BindMoves
<1>2. CASE Watchdog
  BY <1>2 DEF Watchdog, DogSetsid, DogReadsStatus, DogLeaves, DogKeepsWatching, DogKills,
     DogProbes, DogExits, DogMoves
<1>3. CASE DogKilled \/ \E w \in Workers : WorkerForked(w) \/ WorkerExits(w) \/ WorkerBecomesForeign(w)
  BY <1>3 DEF DogKilled, WorkerForked, WorkerExits, WorkerBecomesForeign
<1>4. CASE \E k \in {Bind, Dog} \cup Workers : Dies(k)
  BY <1>4 DEF Dies
<1> QED BY <1>1, <1>2, <1>3, <1>4 DEF ProcessStep

\* The group's part of the types.
GroupTypes ==
    /\ alive \subseteq {Bind, Dog} \cup Workers /\ doomed \subseteq {Bind, Dog} \cup Workers
    /\ unborn \subseteq Workers /\ foreign \subseteq Workers /\ slipped \subseteq Workers
    /\ dogListed \subseteq {Bind, Dog} \cup Workers
    /\ leader \in Leaders
    /\ dog \in {"none", "born", "watch", "decide", "probe", "gone"}
    /\ dogSaw \in {"live", "dead", "unknown"}
    /\ (Bind \in alive) = (leader \notin {"none", "zombie", "reaped"})
    /\ (Dog \in alive) = (dog \notin {"none", "gone"})

LEMMA GroupTypesKept ==
    ASSUME GroupTypes, ProcessStep
    PROVE  GroupTypes'
<1> USE DEF GroupTypes, Leaders, Remains
<1>1. CASE Helper \/ LeaderExits
  BY <1>1, ProcessesAssumption
  DEF Helper, LeaderExits, BindChecks, BindForks, BindCloses, BindExecs, BindMoves
<1>2. CASE Watchdog
  BY <1>2, ProcessesAssumption
  DEF Watchdog, DogSetsid, DogReadsStatus, DogLeaves, DogKeepsWatching, DogKills, DogProbes,
      DogExits, DogMoves, KillGroup, LiveGroup
<1>3. CASE DogKilled \/ \E w \in Workers : WorkerForked(w) \/ WorkerExits(w) \/ WorkerBecomesForeign(w)
  BY <1>3, ProcessesAssumption DEF DogKilled, WorkerForked, WorkerExits, WorkerBecomesForeign, dogVars
<1>4. CASE \E k \in {Bind, Dog} \cup Workers : Dies(k)
  BY <1>4, ProcessesAssumption DEF Dies
<1> QED BY <1>1, <1>2, <1>3, <1>4 DEF ProcessStep

\* What the last listing has missed is all there is left: it is all there will be.
LEMMA SlippedStays ==
    ASSUME GroupTypes, ProcessStep, LiveGroup \subseteq slipped
    PROVE  LiveGroup' \subseteq slipped'
<1>0. Bind \notin alive /\ (Dog \in alive => dog # "born")
  BY ProcessesAssumption DEF LiveGroup, GroupTypes
<1> USE DEF LiveGroup
<1>1. CASE Helper \/ LeaderExits
  BY <1>0, <1>1 DEF Helper, LeaderExits, BindChecks, BindForks, BindCloses, BindExecs, BindMoves
<1>2. CASE Watchdog
  BY <1>0, <1>2
  DEF Watchdog, DogSetsid, DogReadsStatus, DogLeaves, DogKeepsWatching, DogKills, DogProbes,
      DogExits, DogMoves
<1>3. CASE \E w \in Workers : WorkerForked(w)
  <2>1. PICK w \in Workers : WorkerForked(w)
    BY <1>3
  <2>2. PICK parent \in alive : parent \in Workers /\ (parent \in slipped => w \in slipped')
    BY <1>0, <2>1 DEF WorkerForked
  <2>3. w \in slipped'
    BY <2>2, ProcessesAssumption
  <2> QED BY <2>1, <2>3, ProcessesAssumption DEF WorkerForked, dogVars
<1>4. CASE DogKilled \/ \E w \in Workers : WorkerExits(w) \/ WorkerBecomesForeign(w)
  BY <1>4 DEF DogKilled, WorkerExits, WorkerBecomesForeign, dogVars
<1>5. CASE \E k \in {Bind, Dog} \cup Workers : Dies(k)
  BY <1>0, <1>5, ProcessesAssumption DEF Dies
<1> QED BY <1>1, <1>2, <1>3, <1>4, <1>5 DEF ProcessStep

\* A leader that is dead or dying forks nothing, and does not come back.
LEMMA LeaderStaysDead ==
    ASSUME GroupTypes, ProcessStep, Bind \notin alive \ doomed
    PROVE  Bind \notin alive' \ doomed'
<1>1. CASE Helper \/ LeaderExits
  BY <1>1 DEF Helper, LeaderExits, BindChecks, BindForks, BindCloses, BindExecs, BindMoves
<1>2. CASE Watchdog
  BY <1>2
  DEF Watchdog, DogSetsid, DogReadsStatus, DogLeaves, DogKeepsWatching, DogKills, DogProbes,
      DogExits, DogMoves, KillGroup
<1>3. CASE DogKilled \/ \E w \in Workers : WorkerForked(w) \/ WorkerExits(w) \/ WorkerBecomesForeign(w)
  BY <1>3, ProcessesAssumption DEF DogKilled, WorkerForked, WorkerExits, WorkerBecomesForeign
<1>4. CASE \E k \in {Bind, Dog} \cup Workers : Dies(k)
  BY <1>4 DEF Dies
<1> QED BY <1>1, <1>2, <1>3, <1>4 DEF ProcessStep

\* What is forked while the group is listed has slipped.
LEMMA ListingStays ==
    ASSUME GroupTypes, ProcessStep, Bind \notin alive \ doomed, pc = "read",
           LiveGroup \subseteq listed \cup slipped
    PROVE  LiveGroup' \subseteq listed \cup slipped'
<1> USE DEF LiveGroup
<1>1. CASE Helper \/ LeaderExits
  BY <1>1 DEF Helper, LeaderExits, BindChecks, BindForks, BindCloses, BindExecs, BindMoves
<1>2. CASE Watchdog
  BY <1>2
  DEF Watchdog, DogSetsid, DogReadsStatus, DogLeaves, DogKeepsWatching, DogKills, DogProbes,
      DogExits, DogMoves
<1>3. CASE DogKilled \/ \E w \in Workers : WorkerForked(w) \/ WorkerExits(w) \/ WorkerBecomesForeign(w)
  BY <1>3, ProcessesAssumption DEF DogKilled, WorkerForked, WorkerExits, WorkerBecomesForeign, dogVars
<1>4. CASE \E k \in {Bind, Dog} \cup Workers : Dies(k)
  BY <1>4, ProcessesAssumption DEF Dies
<1> QED BY <1>1, <1>2, <1>3, <1>4 DEF ProcessStep

\* What may not be signalled is not killed, and forks nothing that may.
LEMMA KilledAllStays ==
    ASSUME GroupTypes, ProcessStep, Listing, KilledAll
    PROVE  KilledAll'
<1>0. pc' = pc /\ host' = host
  BY ProcessesLeaveSup DEF supOwn
<1> USE DEF KilledAll, LiveGroup
<1>1. CASE Helper \/ LeaderExits
  BY <1>0, <1>1, ProcessesAssumption
  DEF Helper, LeaderExits, BindChecks, BindForks, BindCloses, BindExecs, BindMoves, GroupTypes, Listing
<1>2. CASE Watchdog
  BY <1>0, <1>2
  DEF Watchdog, DogSetsid, DogReadsStatus, DogLeaves, DogKeepsWatching, DogKills, DogProbes,
      DogExits, DogMoves, KillGroup
<1>3. CASE \E w \in Workers : WorkerForked(w)
  <2>1. PICK w \in Workers : WorkerForked(w)
    BY <1>3
  <2>2. PICK parent \in alive \ doomed :
          /\ parent \in Workers \/ (parent = Bind /\ leader = "payload")
          /\ foreign' = IF parent \in foreign THEN foreign \cup {w} ELSE foreign
          /\ slipped' = IF pc = "read" \/ parent \in slipped
                        THEN slipped \cup {w} ELSE slipped
    BY <2>1 DEF WorkerForked
  <2>3. /\ w \notin doomed \cup slipped /\ doomed' = doomed /\ dog' = dog
        /\ alive' = alive \cup {w} /\ unborn' = unborn \ {w}
    BY <2>1 DEF WorkerForked, dogVars
  <2>4. (unborn \cap (alive \cup doomed \cup slipped) = {} /\ foreign \cap doomed = {})'
    BY <2>2, <2>3
  <2>5. ASSUME host = "linux", pc \in {"probe", "list", "read"}
        PROVE  parent \in foreign
    <3>1. parent \in Workers
      BY <2>2, <2>5 DEF Listing
    <3> QED BY <2>2, <2>5, <3>1, ProcessesAssumption
  <2>6. host = "linux" => slipped' \cap alive' \subseteq foreign'
    BY <2>2, <2>3, <2>5
  <2>7. host = "linux" /\ pc \in {"probe", "list", "read"} => LiveGroup' \ doomed' \subseteq foreign'
    BY <2>2, <2>3, <2>5
  <2> QED BY <1>0, <2>4, <2>6, <2>7
<1>4. CASE DogKilled
  <2>1. doomed' = doomed \cup {Dog} /\ UNCHANGED <<alive, unborn, foreign, slipped, dog>>
    BY <1>4 DEF DogKilled
  <2>2. Dog \notin unborn \cup foreign
    BY ProcessesAssumption DEF GroupTypes
  <2> QED BY <1>0, <2>1, <2>2
<1>5. CASE \E w \in Workers : WorkerExits(w)
  BY <1>0, <1>5 DEF WorkerExits, dogVars
<1>6. CASE \E w \in Workers : WorkerBecomesForeign(w)
  BY <1>0, <1>6 DEF WorkerBecomesForeign, dogVars
<1>7. CASE \E k \in {Bind, Dog} \cup Workers : Dies(k)
  BY <1>0, <1>7, ProcessesAssumption DEF Dies
<1> QED BY <1>1, <1>2, <1>3, <1>4, <1>5, <1>6, <1>7 DEF ProcessStep

\* They never touch the supervisor's descriptor, nor its place in the lease.
LEMMA ProcessesLeaveLease ==
    ASSUME ProcessStep
    PROVE  (Sup \in fds' <=> Sup \in fds) /\ step' = step
<1>0. ASSUME NEW k \in {Bind, Dog} \cup Workers, CloseLease(k)
      PROVE  (Sup \in fds' <=> Sup \in fds) /\ step' = step
  BY <1>0, ProcessesAssumption DEF CloseLease, L!HelperCloses, L!Close, leaseVars
<1>1. CASE Helper \/ LeaderExits
  BY <1>0, <1>1, ProcessesAssumption
  DEF Helper, LeaderExits, BindChecks, BindForks, BindCloses, BindExecs, L!Fork, L!Inherit, leaseVars
<1>2. CASE Watchdog
  BY <1>0, <1>2
  DEF Watchdog, DogSetsid, DogReadsStatus, DogLeaves, DogKeepsWatching, DogKills, DogProbes,
      DogExits, leaseVars
<1>3. CASE DogKilled \/ \E w \in Workers : WorkerForked(w) \/ WorkerExits(w) \/ WorkerBecomesForeign(w)
  BY <1>3 DEF DogKilled, WorkerForked, WorkerExits, WorkerBecomesForeign, leaseVars
<1>4. CASE \E k \in {Bind, Dog} \cup Workers : Dies(k)
  BY <1>0, <1>4 DEF Dies
<1> QED BY <1>1, <1>2, <1>3, <1>4 DEF ProcessStep

\* The rest of the invariant, for a step that leaves the supervisor alone.
SupParts == Unspawned /\ CauseKnown /\ Listing /\ KilledAll /\ ClearedAfter /\ HoldsLease /\ Confirmed
OwnTypes ==
    /\ pc \in Before \cup {"supervise"} \cup Stopping \cup After
    /\ attempt \in {"first", "again", "retain"}
    /\ cause \in {"none", "completed", "timeout", "failed", "interrupted", "refused",
                  "unpersisted"}
    /\ {cleaned, recorded, logged, interrupt, late, confirmed, torn, supKilled, dogKilled}
          \subseteq BOOLEAN
    /\ listed \subseteq {Bind, Dog} \cup Workers
    /\ phase \in {"preflighted", "running", "completed", "failed", "cleanup_pending"}
    /\ result \in {"none", "completed", "timeout", "failed", "interrupted"}
    /\ cli \in {"waiting", "gone"}
    /\ msg \in {"none", "ok", "error", "pending"}
    /\ host \in Hosts

LEMMA TypesSplit == TypeOK <=> L!TypeOK /\ GroupTypes /\ OwnTypes
BY DEF TypeOK, GroupTypes, OwnTypes, Before, Stopping, After

LEMMA QuietKeeps ==
    ASSUME SupParts, UNCHANGED supOwn, host' = host, KilledAll', Listing',
           pc \in Before => UNCHANGED <<leader, alive, dog>>,
           LiveGroup \subseteq slipped => LiveGroup' \subseteq slipped',
           Sup \in fds' <=> Sup \in fds, step'[Sup] = step[Sup]
    PROVE  SupParts'
BY DEF SupParts, Unspawned, CauseKnown, ClearedAfter, HoldsLease, Confirmed, supOwn

\* Nobody of the group moves before there is one.
LEMMA NobodyBefore ==
    ASSUME ProcessStep, GroupTypes, alive = {}
    PROVE  UNCHANGED <<leader, alive, dog>>
<1>1. CASE Helper \/ LeaderExits
  BY <1>1 DEF Helper, LeaderExits, BindChecks, BindForks, BindCloses, BindExecs, BindMoves
<1>2. CASE Watchdog
  BY <1>2 DEF Watchdog, DogSetsid, DogReadsStatus, DogLeaves, DogKeepsWatching, DogKills,
     DogProbes, DogExits, DogMoves
<1>3. CASE DogKilled \/ \E w \in Workers : WorkerForked(w) \/ WorkerExits(w) \/ WorkerBecomesForeign(w)
  BY <1>3 DEF DogKilled, WorkerForked, WorkerExits, WorkerBecomesForeign, dogVars
<1>4. CASE \E k \in {Bind, Dog} \cup Workers : Dies(k)
  BY <1>4 DEF Dies
<1> QED BY <1>1, <1>2, <1>3, <1>4 DEF ProcessStep

LEMMA ProcessKeeps ==
    ASSUME SupParts, GroupTypes, OwnTypes, ProcessStep
    PROVE  SupParts' /\ GroupTypes' /\ OwnTypes'
<1>1. GroupTypes' /\ (LiveGroup \subseteq slipped => LiveGroup' \subseteq slipped')
  BY GroupTypesKept, SlippedStays
<1>2. UNCHANGED supOwn /\ host' = host
  BY ProcessesLeaveSup
<1>3. KilledAll' /\ Listing'
  <2>1. Listing'
    BY <1>2, LeaderStaysDead, ListingStays DEF SupParts, Listing, supOwn
  <2> QED BY <2>1, KilledAllStays DEF SupParts
<1>4. SupParts'
  BY <1>1, <1>2, <1>3, ProcessesLeaveLease, NobodyBefore, QuietKeeps DEF SupParts, Unspawned
<1>5. dogKilled' \in {dogKilled, TRUE}
  <2>1. CASE Helper \/ LeaderExits
    BY <2>1 DEF Helper, LeaderExits, BindChecks, BindForks, BindCloses, BindExecs, BindMoves
  <2>2. CASE Watchdog
    BY <2>2 DEF Watchdog, DogSetsid, DogReadsStatus, DogLeaves, DogKeepsWatching, DogKills,
       DogProbes, DogExits, DogMoves
  <2>3. CASE DogKilled \/ \E w \in Workers : WorkerForked(w) \/ WorkerExits(w) \/ WorkerBecomesForeign(w)
    BY <2>3 DEF DogKilled, WorkerForked, WorkerExits, WorkerBecomesForeign, dogVars
  <2>4. CASE \E k \in {Bind, Dog} \cup Workers : Dies(k)
    BY <2>4 DEF Dies
  <2> QED BY <2>1, <2>2, <2>3, <2>4 DEF ProcessStep
<1>6. OwnTypes'
  BY <1>5, ProcessesLeaveSup DEF OwnTypes, supOwn
<1> QED BY <1>1, <1>4, <1>6

\* The rival is inside the lease only without the supervisor.
LEMMA RivalKeeps ==
    ASSUME LP!IInv, SupParts, GroupTypes, OwnTypes, RivalCommand
    PROVE  SupParts' /\ GroupTypes' /\ OwnTypes'
<1>1. UNCHANGED <<supOwn, interrupt, late, cli, host, groupVars, dogVars>>
  BY DEF RivalCommand, supOwn, supVars, retainVars, diskVars, cliVars
<1>2. step'[Sup] = step[Sup]
  BY ProcessesAssumption
  DEF RivalCommand, L!Acquire, L!WriteMeta, L!RemoveMeta, L!Unlock, L!SetStep, LP!IInv, LP!TypeOK
<1>3. Sup \in fds' <=> Sup \in fds
  BY ProcessesAssumption
  DEF RivalCommand, L!Acquire, L!WriteMeta, L!RemoveMeta, L!Unlock, L!SetStep, L!Flock, L!FlockUn,
      LP!IInv, LP!TypeOK, LP!OneDescription, LP!Inside
<1>4. KilledAll' /\ Listing'
  BY <1>1 DEF SupParts, KilledAll, Listing, groupVars, dogVars, LiveGroup, supOwn
<1>5. SupParts'
  BY <1>1, <1>2, <1>3, <1>4, QuietKeeps DEF groupVars, dogVars, LiveGroup
<1> QED BY <1>1, <1>5 DEF GroupTypes, OwnTypes, groupVars, dogVars, supOwn

\* The CLI, the clock, and SIGKILL of the supervisor.
LEMMA OutsideKeeps ==
    ASSUME SupParts, GroupTypes, OwnTypes,
           CliStops \/ CliDies \/ CliReturns \/ WatcherSeesEof \/ Deadline \/ UNCHANGED vars
    PROVE  SupParts' /\ GroupTypes' /\ OwnTypes'
<1>1. UNCHANGED <<supOwn, leaseVars, groupVars, dogVars, host>>
  BY DEF CliStops, CliDies, CliReturns, WatcherSeesEof, Deadline, vars, supOwn, supVars, retainVars,
     diskVars, cliVars
<1>2. /\ interrupt' \in {interrupt, TRUE} /\ late' \in {late, TRUE}
      /\ cli' \in {cli, "gone"}
  BY DEF CliStops, CliDies, CliReturns, WatcherSeesEof, Deadline, vars, supOwn, supVars, cliVars
<1>3. SupParts'
  <2>1. KilledAll' /\ Listing'
    BY <1>1 DEF SupParts, KilledAll, Listing, groupVars, dogVars, LiveGroup, supOwn
  <2> QED BY <1>1, <2>1, QuietKeeps DEF groupVars, dogVars, leaseVars, LiveGroup
<1>4. GroupTypes'
  BY <1>1 DEF GroupTypes, groupVars, dogVars
<1>5. {cleaned, recorded, logged, interrupt, late, confirmed, torn, supKilled, dogKilled}' \subseteq BOOLEAN
  BY <1>1, <1>2 DEF OwnTypes, dogVars, supOwn
<1>6. OwnTypes'
  BY <1>1, <1>2, <1>5 DEF OwnTypes, dogVars, supOwn
<1> QED BY <1>3, <1>4, <1>6

\* An append of another command is cut.
LEMMA TornKeeps ==
    ASSUME SupParts, GroupTypes, OwnTypes, LogTorn
    PROVE  SupParts' /\ GroupTypes' /\ OwnTypes'
<1>1. /\ torn' = TRUE
      /\ UNCHANGED <<leaseVars, supVars, groupVars, dogVars, phase, result, confirmed, cliVars, host>>
  BY DEF LogTorn
<1>2. GroupTypes'
  BY <1>1 DEF GroupTypes, groupVars, dogVars
<1>3. OwnTypes'
  BY <1>1 DEF OwnTypes, supVars, retainVars, dogVars, cliVars
<1>4. SupParts'
  BY <1>1
  DEF SupParts, Unspawned, CauseKnown, Listing, KilledAll, ClearedAfter, HoldsLease, Confirmed, LiveGroup,
      leaseVars, supVars, groupVars, dogVars, cliVars
<1> QED BY <1>2, <1>3, <1>4

\* The group without its supervisor.
LEMMA OrphansGroup ==
    ASSUME GroupTypes, KilledAll, Orphans, UNCHANGED <<alive, unborn, foreign, slipped, dogVars, host>>,
           pc' = "gone"
    PROVE  GroupTypes' /\ KilledAll' /\ LiveGroup' = LiveGroup
<1> USE DEF Orphans, dogVars
<1>1. leader' \in Leaders /\ doomed' \subseteq doomed \cup ({Bind} \cap alive)
      /\ (leader \in {"none", "zombie", "reaped"} <=> leader' \in {"none", "zombie", "reaped"})
  BY DEF GroupTypes, Leaders
<1>2. GroupTypes'
  BY <1>1 DEF GroupTypes
<1>3. KilledAll'
  BY <1>1, ProcessesAssumption DEF GroupTypes, KilledAll
<1> QED BY <1>2, <1>3 DEF LiveGroup

LEMMA KilledKeeps ==
    ASSUME SupParts, GroupTypes, OwnTypes, SupKilled
    PROVE  SupParts' /\ GroupTypes' /\ OwnTypes'
<1>1. /\ SupEnds /\ supKilled' = TRUE /\ Orphans /\ Sup \notin fds' /\ Sup \in fds
      /\ UNCHANGED <<alive, unborn, foreign, slipped, dogVars, diskVars, cliVars, host>>
  BY DEF SupKilled, L!Die, L!Close
<1>2. GroupTypes' /\ KilledAll' /\ LiveGroup' = LiveGroup
  BY <1>1, OrphansGroup DEF SupEnds, SupParts
<1>3. OwnTypes'
  BY <1>1 DEF OwnTypes, SupEnds, dogVars, diskVars, cliVars, After
<1>4. SupParts'
  BY <1>1, <1>2
  DEF SupParts, SupEnds, dogVars, diskVars, cliVars, After, Before, Stopping, Unspawned,
      CauseKnown, Listing, ClearedAfter, HoldsLease, Confirmed
<1> QED BY <1>2, <1>3, <1>4

-----------------------------------------------------------------------------
(* The supervisor, one step at a time.                                     *)

Parts == SupParts /\ GroupTypes /\ OwnTypes

\* A step with the processes as they are, but for what is signalled and reaped.
Handles ==
    /\ UNCHANGED <<alive, unborn, foreign, dogVars, supKilled, interrupt, late, host, cli>>
    /\ doomed \subseteq doomed' /\ doomed' \subseteq doomed \cup (alive \ foreign)
    /\ leader' = leader \/ (leader' = "reaped" /\ Bind \notin alive)
    /\ slipped' \in {slipped, {}}

LEMMA HandlesGroup ==
    ASSUME GroupTypes, Handles
    PROVE  GroupTypes' /\ LiveGroup' = LiveGroup
BY ProcessesAssumption DEF GroupTypes, Handles, LiveGroup, Leaders, dogVars, Before

\* On Linux killpg leaves what may not be signalled; the leader may be.
LEMMA KillsAll ==
    ASSUME GroupTypes, KillGroup
    PROVE  /\ doomed \subseteq doomed' /\ doomed' \subseteq doomed \cup (alive \ foreign)
           /\ Bind \notin alive \ doomed'
           /\ host = "linux" => LiveGroup \ doomed' \subseteq foreign
BY ProcessesAssumption DEF GroupTypes, KillGroup, LiveGroup

\* What of KilledAll holds anywhere.
KilledWell ==
    /\ unborn \cap (alive \cup doomed \cup slipped) = {} /\ foreign \cap doomed = {}
    /\ host = "linux" => slipped \cap alive \subseteq foreign

LEMMA HandlesWell ==
    ASSUME KilledAll, Handles
    PROVE  KilledWell'
BY DEF KilledAll, KilledWell, Handles

\* Up to the spawn.
LEMMA BeginKeeps ==
    ASSUME LP!IInv, Parts, \/ SupAcquires \/ SupRefused \/ SupHolds
                           \/ SupStarts \/ SupCannotStart \/ SupCannotSpawn
    PROVE  Parts'
<1> USE DEF Parts, SupUnchanged, dogVars, groupVars, diskVars, retainVars
<1>1. Handles /\ leader' = leader /\ listed' = listed /\ UNCHANGED <<recorded, logged, torn>>
  BY DEF SupAcquires, SupRefused, SupHolds, SupStarts, SupCannotStart, SupCannotSpawn, Handles
<1>2. GroupTypes' /\ LiveGroup' = LiveGroup
  BY <1>1, HandlesGroup
<1>3. pc \in Before /\ pc' \in {"begin", "state", "spawn", "answer", "release"}
  BY DEF SupAcquires, SupRefused, SupHolds, SupStarts, SupCannotStart, SupCannotSpawn, Before, Goto
<1>4. LiveGroup = {}
  BY <1>3 DEF SupParts, Unspawned, LiveGroup
<1>5. OwnTypes'
  <2>1. /\ UNCHANGED <<attempt, msg>>
        /\ cause' \in {cause, "refused", "interrupted", "failed"}
        /\ phase' \in {phase, "running", "failed"} /\ result' \in {result, "interrupted", "failed"}
        /\ UNCHANGED <<cleaned, confirmed>>
    BY DEF SupAcquires, SupRefused, SupHolds, SupStarts, SupCannotStart, SupCannotSpawn, Goto
  <2> QED BY <1>1, <1>3, <2>1 DEF OwnTypes, Handles, Before, After
<1>6. HoldsLease'
  <2>1. CASE SupAcquires
    BY <2>1, ProcessesAssumption
    DEF SupAcquires, L!Acquire, L!SetStep, L!Flock, LP!IInv, LP!TypeOK, SupParts, HoldsLease, Before,
        Stopping
  <2>2. CASE SupRefused
    BY <2>2 DEF SupRefused, L!Refused, L!SetStep, Goto, SupParts, HoldsLease, Stopping
  <2>3. CASE SupHolds
    BY <2>3
    DEF SupHolds, L!WriteMeta, L!SetStep, LP!IInv, LP!TypeOK, LP!Inside, Goto, SupParts, HoldsLease
  <2>4. CASE SupStarts \/ SupCannotStart \/ SupCannotSpawn
    BY <2>4 DEF SupStarts, SupCannotStart, SupCannotSpawn, Goto, SupParts, HoldsLease, leaseVars
  <2> QED BY <2>1, <2>2, <2>3, <2>4
<1>7. CauseKnown'
  BY <1>3
  DEF SupAcquires, SupRefused, SupHolds, SupStarts, SupCannotStart, SupCannotSpawn, Goto, SupParts,
      CauseKnown, Before, Stopping
<1>8. Unspawned' /\ ClearedAfter' /\ Listing' /\ KilledAll'
  BY <1>1, <1>2, <1>3, <1>4
  DEF SupParts, Unspawned, ClearedAfter, Listing, KilledAll, Handles, Before, After, SupAcquires,
      SupRefused, SupHolds, SupStarts, SupCannotStart, SupCannotSpawn
<1>9. Confirmed'
  BY <1>2, <1>3, <1>4
  DEF SupAcquires, SupRefused, SupHolds, SupStarts, SupCannotStart, SupCannotSpawn, Goto, SupParts,
      Confirmed, Before, After
<1> QED BY <1>2, <1>5, <1>6, <1>7, <1>8, <1>9 DEF SupParts

LEMMA SpawnKeeps ==
    ASSUME Parts, SupSpawns
    PROVE  Parts'
<1> USE DEF Parts, SupSpawns, SupUnchanged, dogVars, diskVars, listVars, retainVars, Goto
<1>1. pc = "spawn" /\ pc' = "supervise" /\ Sup \in fds' /\ alive' = {Bind} /\ leader' = "bind"
  BY DEF SupParts, HoldsLease, L!Spawn, L!Inherit
<1>2. GroupTypes'
  BY <1>1, ProcessesAssumption DEF GroupTypes, Leaders, SupParts, Unspawned, Before
<1>3. OwnTypes'
  BY <1>1 DEF OwnTypes
<1>4. KilledAll'
  BY <1>1, ProcessesAssumption DEF SupParts, KilledAll, GroupTypes
<1>5. SupParts'
  BY <1>1, <1>4
  DEF SupParts, Unspawned, CauseKnown, Listing, ClearedAfter, HoldsLease, Confirmed, Before,
      Stopping, After
<1> QED BY <1>2, <1>3, <1>5


\* While it supervises and stops the group: a step goes from one place to the next, and
\* the cause of the end is decided on the way.
Stops ==
    \/ SupInterrupted \/ SupTimesOut \/ LeaderSeen \/ LeaderSeenDenied \/ PipesClosed
    \/ ProbeClears \/ ProbeDenies
    \/ StopKills \/ StopDenied \/ Lists \/ StopKillsMembers \/ StopGivesUp \/ StopConfirms
StopFacts ==
    /\ Handles
    /\ UNCHANGED <<leaseVars, retainVars, diskVars, msg>> /\ cleaned' \in BOOLEAN
    /\ listed' \in {listed, {}, LiveGroup}
    /\ pc \in {"supervise", "probe", "stop", "list", "read"}
    /\ pc' \in {"supervise", "probe", "stop", "list", "read", "stopped", "record"}
    /\ pc' \in {"probe", "list", "read"} =>
          Bind \notin alive \ doomed' /\ (host = "linux" => LiveGroup \ doomed' \subseteq foreign)
    /\ pc' = "read" => listed' = LiveGroup
    /\ pc' = "stopped" => LiveGroup \subseteq slipped'
    /\ attempt' \in {"first", "again", "retain"}
    /\ \/ cause' \in Reasons /\ pc' # "supervise"
       \/ pc' \in {"supervise", "probe"} /\ cause' = "none" /\ attempt' = "first"

\* An attempt that fails had a cause, or was the first.
LEMMA UnconfirmedCause ==
    ASSUME CauseKnown, OwnTypes, NEW from \in {"probe", "list", "read"}, Unconfirmed(from)
    PROVE  /\ pc = from /\ pc' \in {"stop", "record"} /\ listed' = {} /\ cause' \in Reasons
           /\ attempt' \in {"again", "retain"}
           /\ UNCHANGED <<leaseVars, cleaned, retainVars, slipped, alive, unborn, foreign, leader,
                          diskVars, msg, interrupt, late, supKilled, dogVars, host, cli>>
BY DEF Unconfirmed, SupUnchanged, CauseKnown, Stopping, Reasons

LEMMA StopsFacts ==
    ASSUME GroupTypes, OwnTypes, CauseKnown, Listing, KilledAll, Stops
    PROVE  StopFacts
<1> USE DEF StopFacts, Handles, SupUnchanged, groupVars, listVars, Goto
<1>1. CASE SupInterrupted \/ SupTimesOut \/ PipesClosed
  BY <1>1 DEF SupInterrupted, SupTimesOut, PipesClosed, Supervised, Reasons
<1>2. CASE LeaderSeen
  BY <1>2, KillsAll DEF LeaderSeen, CauseKnown
<1>3. CASE LeaderSeenDenied \/ StopDenied
  <2>1. Bind \notin alive /\ LiveGroup \subseteq foreign
    BY <1>3, ProcessesAssumption DEF LeaderSeenDenied, StopDenied, Denied, KillDenied, GroupTypes, LiveGroup
  <2> QED BY <1>3, <2>1
      DEF LeaderSeenDenied, StopDenied, Denied, OwnTypes, CauseKnown, Stopping, Reasons
<1>4. CASE ProbeClears
  BY <1>4 DEF ProbeClears, Listing, KilledAll, OwnTypes, CauseKnown, Stopping, Reasons
<1>5. CASE StopKills
  BY <1>5, KillsAll DEF StopKills, OwnTypes, CauseKnown, Stopping
<1>6. CASE ProbeDenies \/ StopGivesUp
  <2>1. PICK from \in {"probe", "list"} : Unconfirmed(from) /\ doomed' = doomed
    BY <1>6 DEF ProbeDenies, StopGivesUp
  <2> QED BY <2>1, UnconfirmedCause DEF OwnTypes
<1>7. CASE Lists
  BY <1>7 DEF Lists, Listing, KilledAll, OwnTypes, CauseKnown, Stopping
<1>8. CASE StopKillsMembers
  <2>1. PICK killed \in SUBSET (LiveGroup \ foreign) :
          /\ doomed' = doomed \cup killed
          /\ \/ /\ Goto("read", "list") /\ listed' = {}
                /\ SupUnchanged
                /\ UNCHANGED <<leaseVars, attempt, cause, cleaned, retainVars, slipped,
                               alive, unborn, foreign, leader, diskVars, msg>>
             \/ Unconfirmed("read")
    BY <1>8 DEF StopKillsMembers
  <2>2. doomed \subseteq doomed' /\ doomed' \subseteq doomed \cup (alive \ foreign)
    BY <2>1 DEF LiveGroup
  <2>3. CASE Unconfirmed("read")
    BY <2>2, <2>3, UnconfirmedCause DEF OwnTypes
  <2>4. CASE pc = "read" /\ pc' = "list"
    BY <2>1, <2>2, <2>4 DEF Listing, KilledAll, OwnTypes, CauseKnown, Stopping, Unconfirmed
  <2> QED BY <2>1, <2>3, <2>4
<1>9. CASE StopConfirms
  <2>1. LiveGroup \subseteq slipped
    BY <1>9 DEF StopConfirms, Stopped, Listing
  <2>2. Bind \notin alive
    BY <2>1, ProcessesAssumption DEF GroupTypes, LiveGroup
  <2> QED BY <1>9, <2>1, <2>2 DEF StopConfirms, Stopped, OwnTypes, CauseKnown, Stopping
<1> QED BY <1>1, <1>2, <1>3, <1>4, <1>5, <1>6, <1>7, <1>8, <1>9 DEF Stops

LEMMA StopsKeep ==
    ASSUME Parts, Stops
    PROVE  Parts'
<1>1. StopFacts
  BY StopsFacts DEF Parts, SupParts
<1> USE <1>1 DEF Parts, StopFacts
<1>2. GroupTypes' /\ LiveGroup' = LiveGroup
  BY HandlesGroup
<1>3. OwnTypes'
  <2>1. listed' \subseteq {Bind, Dog} \cup Workers
    BY DEF OwnTypes, GroupTypes, LiveGroup
  <2> QED BY <2>1 DEF OwnTypes, Handles, dogVars, diskVars, retainVars, Before, Stopping, After, Reasons
<1>4. KilledAll' /\ Listing'
  <2>1. KilledWell'
    BY HandlesWell DEF SupParts
  <2>2. Listing'
    BY <1>2 DEF Listing, Handles
  <2> QED BY <1>2, <2>1, <2>2 DEF KilledAll, KilledWell, Handles
<1>5. CauseKnown'
  BY DEF CauseKnown, Before, Stopping, Reasons
<1>6. SupParts'
  BY <1>2, <1>4, <1>5
  DEF SupParts, Unspawned, ClearedAfter, HoldsLease, Confirmed, Handles, leaseVars,
      diskVars, Before, Stopping, After
<1> QED BY <1>2, <1>3, <1>6

\* What it writes when it has seen the group empty, and when it cannot be confirmed.
LEMMA WritesKeep ==
    ASSUME Parts, \/ WritesTerminal \/ CannotWriteTerminal
                  \/ RecordsPending \/ SkipsRecord \/ Notifies
    PROVE  Parts'
<1> USE DEF Parts, SupUnchanged, Goto
<1>1. Handles /\ leader' = leader /\ listed' = listed /\ UNCHANGED leaseVars /\ UNCHANGED groupVars
  BY DEF WritesTerminal, CannotWriteTerminal, RecordsPending, SkipsRecord, Notifies, Handles, groupVars
<1>2. GroupTypes' /\ LiveGroup' = LiveGroup
  BY <1>1, HandlesGroup
<1>3. pc \in Stopping \ {"probe", "list", "read"} /\ cause \in Reasons /\ ~confirmed
  BY DEF WritesTerminal, CannotWriteTerminal, RecordsPending, SkipsRecord, Notifies, SupParts,
     CauseKnown, Confirmed, Stopping, After
<1>4. pc' \in {"release", "notify", "stop", "record"}
  BY DEF WritesTerminal, CannotWriteTerminal, RecordsPending, SkipsRecord, Notifies, AfterRecord
<1>5. KilledAll' /\ Listing' /\ CauseKnown'
  <2>1. KilledWell'
    BY <1>1, HandlesWell DEF SupParts
  <2>2. CauseKnown'
    BY <1>3, <1>4
    DEF WritesTerminal, CannotWriteTerminal, RecordsPending, SkipsRecord, Notifies, AfterRecord,
        CauseKnown, Before, Stopping
  <2> QED BY <1>1, <1>2, <1>4, <2>1, <2>2 DEF KilledAll, KilledWell, Listing, Handles
<1>6. CASE WritesTerminal
  <2>1. OwnTypes'
    BY <1>1, <1>3, <1>6 DEF WritesTerminal, OwnTypes, Handles, dogVars, retainVars, After, Reasons
  <2>2. SupParts'
    BY <1>1, <1>2, <1>5, <1>6
    DEF WritesTerminal, SupParts, Unspawned, ClearedAfter, HoldsLease, Confirmed, Handles,
        leaseVars, groupVars, Before, Stopping, After
  <2> QED BY <1>2, <2>1, <2>2
<1>7. CASE CannotWriteTerminal
  <2>1. OwnTypes'
    BY <1>1, <1>7 DEF CannotWriteTerminal, OwnTypes, Handles, dogVars, diskVars, retainVars, After
  <2>2. SupParts'
    BY <1>1, <1>2, <1>5, <1>7
    DEF CannotWriteTerminal, SupParts, Unspawned, ClearedAfter, HoldsLease, Confirmed,
        Handles, leaseVars, diskVars, groupVars, Before, Stopping, After
  <2> QED BY <1>2, <2>1, <2>2
<1>8. CASE RecordsPending
  <2>1. OwnTypes'
    <3>1. /\ phase' \in {phase, "cleanup_pending"} /\ result' \in {result, cause} /\ recorded' = TRUE
          /\ confirmed' \in {confirmed, FALSE} /\ UNCHANGED <<attempt, cleaned, msg>>
          /\ cause' \in {cause, "unpersisted"}
      BY <1>8 DEF RecordsPending
    <3>2. logged' \in BOOLEAN /\ torn' \in BOOLEAN
      BY <1>8 DEF RecordsPending, OwnTypes
    <3>3. {cleaned, recorded, logged, interrupt, late, confirmed, torn, supKilled, dogKilled}'
             \subseteq BOOLEAN
      BY <1>1, <3>1, <3>2 DEF OwnTypes, Handles, dogVars
    <3> QED BY <1>1, <1>3, <1>4, <3>1, <3>3 DEF OwnTypes, Handles, dogVars, Stopping, After, Reasons
  <2>2. ~confirmed' /\ msg' = msg
    BY <1>3, <1>8 DEF RecordsPending
  <2>3. pc' = "release" => torn' /\ cause' = "unpersisted"
    <3>1. CASE torn /\ torn' = torn /\ cause' = "unpersisted"
      BY <3>1
    <3>2. CASE pc' = AfterRecord
      BY <3>2 DEF AfterRecord
    <3> QED BY <1>8, <3>1, <3>2 DEF RecordsPending
  <2>4. SupParts'
    BY <1>1, <1>2, <1>3, <1>4, <1>5, <2>2, <2>3
    DEF SupParts, Unspawned, ClearedAfter, HoldsLease, Confirmed, Handles, leaseVars, Before,
        Stopping, After
  <2> QED BY <1>2, <2>1, <2>4
<1>9. CASE SkipsRecord \/ Notifies
  <2>1. /\ UNCHANGED <<attempt, cause, cleaned, retainVars, diskVars>> /\ msg' \in {msg, "pending"}
        /\ pc' # "release"
    BY <1>9 DEF SkipsRecord, Notifies, AfterRecord
  <2>2. OwnTypes'
    BY <1>1, <1>4, <2>1 DEF OwnTypes, Handles, dogVars, diskVars, retainVars, Stopping, After
  <2>3. SupParts'
    BY <1>1, <1>2, <1>3, <1>4, <1>5, <2>1
    DEF SupParts, Unspawned, ClearedAfter, HoldsLease, Confirmed, Handles, leaseVars, diskVars,
        Before, Stopping, After
  <2> QED BY <1>2, <2>2, <2>3
<1> QED BY <1>6, <1>7, <1>8, <1>9


\* Release, answer, exit.
LEMMA EndsKeep ==
    ASSUME LP!IInv, Parts, Releases \/ Answers
    PROVE  Parts'
<1> USE DEF Parts, SupUnchanged, diskVars, retainVars
<1>1. CASE Releases
  <2>1. /\ Handles /\ leader' = leader /\ pc = "release" /\ UNCHANGED groupVars
        /\ UNCHANGED <<attempt, cause, listed, phase, result, confirmed, torn, msg>>
    BY <1>1 DEF Releases, Handles, groupVars
  <2>2. GroupTypes' /\ LiveGroup' = LiveGroup
    BY <2>1, HandlesGroup
  <2>3. (pc' = pc /\ UNCHANGED fds) \/ (pc' = "answer" /\ Sup \notin fds')
    BY <1>1 DEF Releases, L!RemoveMeta, L!Unlock, L!FlockUn
  <2>4. OwnTypes'
    BY <1>1, <2>1, <2>3 DEF Releases, OwnTypes, Handles, dogVars, After
  <2>5. KilledAll' /\ Listing'
    <3>1. KilledWell'
      BY <2>1, HandlesWell DEF SupParts
    <3> QED BY <2>1, <2>3, <3>1 DEF KilledAll, KilledWell, Listing
  <2>6. SupParts'
    BY <2>1, <2>2, <2>3, <2>5
    DEF SupParts, Unspawned, CauseKnown, ClearedAfter, HoldsLease, Confirmed, Handles, groupVars,
        Before, Stopping, After
  <2> QED BY <2>2, <2>4, <2>6
<1>2. CASE Answers
  <2>1. GroupTypes' /\ KilledAll' /\ LiveGroup' = LiveGroup
    BY <1>2, OrphansGroup DEF Answers, SupEnds, SupParts
  <2>2. OwnTypes'
    BY <1>2 DEF Answers, SupEnds, OwnTypes, dogVars, After
  <2>3. SupParts'
    BY <1>2, <2>1
    DEF Answers, SupEnds, SupParts, OwnTypes, Unspawned, CauseKnown, Listing, ClearedAfter,
        HoldsLease, Confirmed, Before, Stopping, After, leaseVars
  <2> QED BY <2>1, <2>2, <2>3
<1> QED BY <1>1, <1>2

-----------------------------------------------------------------------------
(* The theorems.                                                           *)

LEMMA InitHolds == Init => SupInv
<1> SUFFICES ASSUME Init PROVE SupInv
  OBVIOUS
<1>1. L!Init <=> LP!Init
  BY DEF L!Init, LP!Init
<1>2. LP!IInv
  BY <1>1, LP!InitInv, ProcessesAssumption DEF Init, LP!ProcsAssumption
<1>3. L!TypeOK
  BY <1>2 DEF LP!IInv, LP!TypeOK, L!TypeOK, LP!Steps, L!Steps, LP!Inside, L!Inside
<1>4. GroupTypes
  BY DEF Init, GroupTypes, Leaders
<1>5. OwnTypes
  BY DEF Init, OwnTypes, Before
<1>6. SupParts
  BY ProcessesAssumption
  DEF Init, L!Init, SupParts, Unspawned, CauseKnown, Listing, KilledAll, ClearedAfter, HoldsLease,
      Confirmed, Before, Stopping, After
<1> QED BY <1>2, <1>3, <1>4, <1>5, <1>6, TypesSplit DEF SupInv, SupParts

LEMMA NextKeeps ==
    ASSUME SupInv, [Next]_vars
    PROVE  SupInv'
<1>1. LP!IInv /\ Parts
  BY TypesSplit DEF SupInv, Parts, SupParts
<1>2. LP!IInv'
  BY <1>1, LeaseKept
<1>3. L!TypeOK'
  BY <1>2 DEF LP!IInv, LP!TypeOK, L!TypeOK, LP!Steps, L!Steps, LP!Inside, L!Inside
<1>4. ASSUME Supervisor PROVE Parts'
  BY <1>1, <1>4, BeginKeeps, SpawnKeeps, StopsKeep, WritesKeep, EndsKeep DEF Supervisor, Stops
<1>5. ASSUME ProcessStep PROVE Parts'
  BY <1>1, <1>5, ProcessKeeps DEF Parts
<1>6. ASSUME RivalCommand PROVE Parts'
  BY <1>1, <1>6, RivalKeeps DEF Parts
<1>7. ASSUME CliStops \/ CliDies \/ CliReturns \/ WatcherSeesEof \/ Deadline \/ UNCHANGED vars
      PROVE  Parts'
  BY <1>1, <1>7, OutsideKeeps DEF Parts
<1>8. ASSUME SupKilled \/ LogTorn PROVE Parts'
  BY <1>1, <1>8, KilledKeeps, TornKeeps DEF Parts
<1>9. Parts'
  BY <1>4, <1>5, <1>6, <1>7, <1>8 DEF Next, Environment, ProcessStep
<1>10. TypeOK'
  <2>1. (TypeOK <=> L!TypeOK /\ GroupTypes /\ OwnTypes)'
    BY DEF TypeOK, GroupTypes, OwnTypes, Before, Stopping, After
  <2> QED BY <1>3, <1>9, <2>1 DEF Parts
<1> QED BY <1>2, <1>9, <1>10 DEF SupInv, Parts, SupParts

\* The inductive invariant of the supervisor, its group and the lease
\* (run_supervisor.py, run_bind_exec.py, lease.py).
THEOREM SupervisionInvariant == Spec => []SupInv
  BY InitHolds, NextKeeps, PTL DEF Spec

\* Types of the processes' states; the leader's stage, its life and its zombie agree.
THEOREM SupervisionTypes == Spec => []TypeOK
<1>1. SupInv => TypeOK
  BY DEF SupInv
<1> QED BY <1>1, SupervisionInvariant, PTL

\* A confirmed cleanup means that nothing of the payload's group lives, nor will, but what
\* the last listing has missed, which on Linux is another user's; and the CLI is told of
\* success only then, with the lease released (_supervise_process, _stop_process).
THEOREM ConfirmedTheorem == Spec => []ConfirmedMeansCleared
<1>1. SupInv => ConfirmedMeansCleared
  <2> SUFFICES ASSUME SupInv PROVE ConfirmedMeansCleared
    OBVIOUS
  <2>1. confirmed => Cleared
    BY DEF SupInv, Confirmed, Cleared, After
  <2>2. confirmed /\ host = "linux" => LiveGroup \subseteq foreign
    BY DEF SupInv, Confirmed, KilledAll, LiveGroup
  <2> QED BY <2>1, <2>2 DEF SupInv, Confirmed, HoldsLease, ConfirmedMeansCleared
<1> QED BY <1>1, SupervisionInvariant, PTL

\* Until then the lease is held, unless the supervisor was killed or the event log torn
\* (FAQ.md; _retain_cleanup).
THEOREM LeaseHeldTheorem == Spec => []LeaseUntilCleared
<1>1. SupInv => LeaseUntilCleared
  <2> SUFFICES ASSUME SupInv, ~Cleared, ~supKilled, ~torn
               PROVE  Sup \in fds
    BY DEF LeaseUntilCleared, Guarded
  <2>1. pc \notin Before
    BY DEF SupInv, Unspawned, LiveGroup, Cleared
  <2>2. pc \notin After \cup {"stopped"}
    BY DEF SupInv, ClearedAfter, Cleared, After
  <2> QED BY <2>1, <2>2, TypesSplit DEF SupInv, HoldsLease, OwnTypes
<1> QED BY <1>1, SupervisionInvariant, PTL

\* The processes of a run use the lease as module Lease says, so that its theorems hold of
\* them: every step is one of Lease, or leaves it alone.
THEOREM UsesLease == Spec => ImplementsLease
<1>1. Init => L!Init
  BY DEF Init
<1>2. SupInv /\ [Next]_vars => [L!Next]_(L!vars)
  <2> SUFFICES ASSUME SupInv, [Next]_vars
               PROVE  [L!Next]_(L!vars)
    OBVIOUS
  <2>1. fds \subseteq {Sup, Rival, Bind, Dog}
    BY DEF SupInv, LP!IInv, LP!TypeOK
  <2> QED BY <2>1, LeaseStep
<1> QED BY <1>1, <1>2, SupervisionInvariant, PTL DEF Spec, ImplementsLease, L!Spec

=============================================================================
