-------------------------- MODULE HolderRunsProofs --------------------------
(***************************************************************************)
(* What the execution holder promises of its runs, proved for every number *)
(* of runs, exact runs, requests in flight, changes and faults.            *)
(***************************************************************************)
EXTENDS HolderRuns, FiniteSetTheorems, TLAPS

-----------------------------------------------------------------------------
(* The invariant.                                                          *)

Ops == {"consume", "issue", "authorize", "execute"}
RunPlaces == {"idle", "consume", "check", "state", "call", "execute"}
AppPlaces == {"idle", "issue", "publish", "live", "collect", "authorize", "execute", "executing"}
Phases == {"ready", "running", "completed", "failed"}
Children == {"none", "uncertain", "running", "supervision-uncertain", "spawn-failed", "exited",
             "cancelled"}
\* The places of the coordinator that are about one exact run.
AtOne == {"live", "collect", "authorize", "execute", "executing"}

Types ==
    /\ auth \in Auths /\ keys \in Nat
    /\ spent \in [Nonces -> Auths \cup {None}]
    /\ lease \in [held : BOOLEAN, token : Nonces \cup {None}, child : Children]
    /\ snapshots \subseteq Nonces
    /\ starting \in [nonce : Nonces, released : BOOLEAN] \cup {None}
    /\ payloads \subseteq Nonces /\ launches \in [Nonces -> Nat]
    /\ phase \in [Runs -> Phases] /\ starts \in [Runs -> Nat]
    /\ runpc \in RunPlaces /\ cur \in Runs \cup {None}
    /\ shown \in [Exact -> Auths \cup {None}]
    /\ DOMAIN answer = Clients

\* Exact nonces are given out in order, and displayed with the snapshot.
IssuedInOrder ==
    /\ \E k \in Nat : snapshots \cap Exact = 1..k
    /\ \A n \in Exact : n \in snapshots => shown[n] \in Auths

\* What may be authorized of an exact run: the generations it was displayed with, and
\* of the Mac the key that was enrolled then.
AsShown(x, n) ==
    /\ x \in Auths
    /\ x.gen = shown[n].gen /\ x.kg = shown[n].kg
    /\ signer = "mac" => x.dev = shown[n].dev

\* A request carries what the client saw.
RequestOK(q) ==
    /\ q \in [from : Clients \cup {None}, op : Ops, nonce : Nonces \cup {None},
              signed : Auths, begun : BOOLEAN]
    /\ q.op = "consume" => q.nonce \in Runs
    /\ q.op = "authorize" => q.nonce \in Exact
    /\ q.op = "execute" => q.nonce \in Nonces
    /\ q.nonce \in Exact => q.nonce \in snapshots /\ AsShown(q.signed, q.nonce)
RequestsCarry == \A q \in requests : RequestOK(q)

\* A client waits for at most one answer, of the operation it is at.
Waits(c) == IF c = "run" THEN runpc ELSE IF apppc = "executing" THEN "execute" ELSE apppc
WaitsForOne ==
    /\ \A q \in requests : q.from # None =>
           /\ answer[q.from] = None /\ Waits(q.from) = q.op
           /\ q.from = "run" => q.nonce = cur
           /\ q.from = "app" => apppc # "execute"
    /\ \A p, q \in requests : p.from = q.from /\ p.from # None => p = q
    /\ answer["run"] # None => runpc \in {"consume", "execute"}
    /\ answer["app"] # None => apppc \in {"issue", "authorize", "executing"}

\* The lock is held for one request, which the pending writes or the start are about.
OneBegun ==
    /\ \A p, q \in requests : p.begun /\ q.begun => p = q
    /\ \A q \in requests : q.begun =>
        /\ todo # <<>> \/ starting # None
        /\ todo # <<>> => q.op \in {"consume", "authorize"} /\ q.nonce = Head(todo).nonce
        /\ starting # None => q.op = "execute" /\ q.nonce = starting.nonce

\* Consumed for good: nothing of the consume is left to write.
Settled(n) == n \in Spent /\ (todo # <<>> => Head(todo).nonce # n)
Ended(n) == /\ Settled(n) /\ launches[n] = 1 /\ n \notin payloads
            /\ ~(lease.held /\ lease.token = n)

LeaseWrite(n) == [file |-> "lease", nonce |-> n, value |-> Lease(TRUE, n, "uncertain")]
WritesInOrder ==
    todo # <<>> =>
        \E n \in Nonces, record \in Auths :
            /\ ~lease.held /\ starting = None
            /\ n \in Exact => n \in snapshots /\ AsShown(record, n)
            /\ \/ todo = ConsumeWrites(n, record) /\ n \notin Spent
               \/ todo = <<LeaseWrite(n)>> /\ n \in Spent

SpentAsShown == \A n \in Exact \cap Spent : n \in snapshots /\ AsShown(spent[n], n)

LeaseOfSpent ==
    lease.held => /\ lease.token \in Nonces /\ Settled(lease.token)
                  /\ lease.child = "uncertain" => launches[lease.token] = 0
StartOfHeld ==
    starting # None =>
        /\ todo = <<>> /\ lease = Lease(TRUE, starting.nonce, "running")
        /\ launches[starting.nonce] = IF starting.released THEN 1 ELSE 0
LaunchedOnce == \A n \in Nonces : launches[n] # 0 => launches[n] = 1 /\ Settled(n)

StartedOnce == \A r \in Runs : starts[r] # 0 => starts[r] = 1 /\ Settled(r)
CompletedEnded == \A r \in Runs : phase[r] = "completed" => Ended(r)
RunAt ==
    /\ runpc # "idle" => cur \in Runs
    /\ runpc = "check" => Settled(cur) /\ starts[cur] = 0
    /\ answer["run"] # None /\ answer["run"].result = "ok" =>
           /\ runpc = "consume" => Settled(cur) /\ starts[cur] = 0
           /\ runpc = "execute" => Ended(cur)

Issued(n) == n \in Exact \cap snapshots
AppAt ==
    /\ apppc \in AppPlaces
    /\ apppc \in AtOne => Issued(at) /\ retained \in {None, at}
    /\ retained # None => Issued(retained)
    /\ asked \subseteq Exact \cap snapshots
    /\ answer["app"] # None /\ answer["app"].result = "ok" /\ apppc = "issue" =>
           Issued(answer["app"].nonce) /\ answer["app"].nonce \notin asked
NotAskedAgain ==
    /\ apppc \in {"live", "collect", "authorize"} => at \notin asked
    /\ retained \in asked => \/ retained \in finished \cup uncertain
                             \/ apppc \in {"execute", "executing"}

\* What the coordinator sends is what it had signed.
KeySigned ==
    apppc \in {"authorize", "execute", "executing"} =>
        sig \in Nat /\ (signer = "mac" => sig = shown[at].dev)

HolderInv ==
    /\ Types /\ IssuedInOrder /\ RequestsCarry /\ WaitsForOne /\ OneBegun /\ KeySigned
    /\ WritesInOrder /\ SpentAsShown /\ LeaseOfSpent /\ StartOfHeld /\ LaunchedOnce
    /\ StartedOnce /\ CompletedEnded /\ RunAt /\ AppAt /\ NotAskedAgain

-----------------------------------------------------------------------------
(* Steps.                                                                  *)

\* A client leaves the holder's records, the payloads and the displays alone.
Quiet == UNCHANGED <<holderVars, worldVars, shown, signer>>
ClientStep ==
    /\ \/ RunCommand \/ Coordinator \/ RunDies \/ AppDies
       \/ \E c \in Clients : Deadline(c)
    /\ UNCHANGED signer
DaemonStep == (Daemon \/ DaemonDies) /\ UNCHANGED signer

\* A step is of the daemon or of a client.
LEMMA TwoSides ==
    ASSUME [Next]_vars
    PROVE  DaemonStep \/ ClientStep \/ UNCHANGED vars
BY DEF Next, Fault, DaemonStep, ClientStep

LEMMA ClientsAreQuiet ==
    ASSUME ClientStep
    PROVE  Quiet
<1> USE DEF Quiet, holderVars, worldVars, ClientStep
<1>1. CASE RunCommand
  BY <1>1 DEF RunCommand, RunConsume, RunConsumed, RunRefused, RunStart, RunState, RunExecute,
     RunExecuted, appVars
<1>2. CASE Coordinator
  BY <1>2 DEF Coordinator, Invalidate, Prepare, Prepared, Publish, Continue, Throw, Sign, Authorize,
     Authorized, AppExecute, Executed, AppOnly
<1>3. CASE RunDies \/ AppDies
  BY <1>3 DEF RunDies, AppDies, AppOnly, appVars
<1>4. CASE \E c \in Clients : Deadline(c)
  BY <1>4 DEF Deadline, appVars
<1> QED BY <1>1, <1>2, <1>3, <1>4 DEF ClientStep

LEMMA DaemonIsAlone ==
    ASSUME DaemonStep
    PROVE  UNCHANGED <<runVars, apppc, at, retained, stale, uncertain, finished, sig, asked, signer>>
<1> USE DEF runVars, appVars, DaemonStep
<1>1. CASE \E r \in requests, contents \in Contents : Consume(r, contents) \/ IssueExact(r, contents)
  BY <1>1 DEF Consume, IssueExact
<1>2. CASE \E r \in requests, late \in BOOLEAN :
               \/ AuthorizeExact(r, late)
               \/ \E sealed \in Seals, launch \in Vectors : Execute(r, late, sealed, launch)
  BY <1>2 DEF AuthorizeExact, Execute
<1>3. CASE Write \/ Launch \/ Cancel \/ Administer \/ DaemonDies \/ \E n \in payloads : PayloadEnds(n)
  BY <1>3 DEF Write, Launch, Cancel, Administer, DaemonDies, PayloadEnds
<1>4. CASE NoSpawn \/ Ends \/ Doubt
  BY <1>4 DEF NoSpawn, Ends, Doubt, Leaves
<1> QED BY <1>1, <1>2, <1>3, <1>4 DEF DaemonStep, Daemon

LEMMA TwoElements ==
    ASSUME NEW a, NEW b
    PROVE  <<a, b>> # <<>> /\ Head(<<a, b>>) = a /\ Tail(<<a, b>>) = <<b>>
<1>1. <<a, b>> \in Seq({a, b}) /\ Len(<<a, b>>) = 2
  OBVIOUS
<1>2. Len(Tail(<<a, b>>)) = 1 /\ Tail(<<a, b>>)[1] = b
  BY <1>1
<1>3. Tail(<<a, b>>) = <<b>>
  BY <1>1, <1>2
<1> QED BY <1>1, <1>3

\* What is left of a consume: its two writes, in their order.
LEMMA WriteIsOneOfTwo ==
    ASSUME WritesInOrder, Write
    PROVE  \E n \in Nonces, record \in Auths :
               /\ todo # <<>> /\ Head(todo).nonce = n /\ ~lease.held /\ starting = None
               /\ n \in Exact => n \in snapshots /\ AsShown(record, n)
               /\ \/ /\ n \notin Spent /\ spent' = [spent EXCEPT ![n] = record]
                     /\ todo' = <<LeaseWrite(n)>> /\ UNCHANGED <<lease, requests, answer>>
                  \/ /\ n \in Spent /\ lease' = Lease(TRUE, n, "uncertain")
                     /\ todo' = <<>> /\ ReplyBegun("ok") /\ UNCHANGED spent
<1>1. PICK n \in Nonces, record \in Auths :
          /\ ~lease.held /\ starting = None
          /\ n \in Exact => n \in snapshots /\ AsShown(record, n)
          /\ \/ todo = ConsumeWrites(n, record) /\ n \notin Spent
             \/ todo = <<LeaseWrite(n)>> /\ n \in Spent
  BY DEF WritesInOrder, Write
<1>2. CASE todo = ConsumeWrites(n, record) /\ n \notin Spent
  <2>1. /\ todo # <<>> /\ Head(todo) = [file |-> "spent", nonce |-> n, value |-> record]
        /\ Tail(todo) = <<LeaseWrite(n)>>
    BY <1>2, TwoElements DEF ConsumeWrites, LeaseWrite
  <2>2. /\ Head(todo).file = "spent" /\ Head(todo).nonce = n /\ Head(todo).value = record
        /\ Tail(todo) # <<>>
    BY <2>1
  <2>3. /\ spent' = [spent EXCEPT ![n] = record] /\ todo' = <<LeaseWrite(n)>>
        /\ UNCHANGED <<lease, requests, answer>>
    BY <2>1, <2>2 DEF Write, callVars
  <2> QED BY <1>1, <1>2, <2>1, <2>2, <2>3
<1>3. CASE todo = <<LeaseWrite(n)>> /\ n \in Spent
  <2>1. /\ todo # <<>> /\ Head(todo) = LeaseWrite(n) /\ Tail(todo) = <<>>
    BY <1>3
  <2>2. /\ Head(todo).file = "lease" /\ Head(todo).nonce = n
        /\ Head(todo).value = Lease(TRUE, n, "uncertain")
    BY <2>1 DEF LeaseWrite, Lease
  <2>3. /\ lease' = Lease(TRUE, n, "uncertain") /\ todo' = <<>> /\ ReplyBegun("ok") /\ UNCHANGED spent
    BY <2>1, <2>2 DEF Write
  <2> QED BY <1>1, <1>3, <2>1, <2>2, <2>3
<1> QED BY <1>1, <1>2, <1>3

\* What a step of the daemon does to its records, the requests left aside.
Records == <<auth, spent, lease, snapshots, todo, starting, shown, payloads, launches>>
Snaps(n) ==
    /\ n \in Runs /\ LockFree /\ snapshots' = snapshots \cup {n}
    /\ UNCHANGED <<auth, spent, lease, todo, starting, shown, payloads, launches>>
Spends(n, record) ==
    /\ LockFree /\ ~lease.held /\ n \notin Spent /\ n \in Nonces /\ record \in Auths
    /\ n \in Exact => n \in snapshots /\ AsShown(record, n)
    /\ todo' = ConsumeWrites(n, record)
    /\ snapshots' = IF n \in Runs THEN snapshots \cup {n} ELSE snapshots
    /\ UNCHANGED <<auth, spent, lease, starting, shown, payloads, launches>>
Issues(n) ==
    /\ LockFree /\ n \in Exact /\ n \notin snapshots /\ snapshots \cap Exact = 1..(n - 1)
    /\ snapshots' = snapshots \cup {n} /\ shown' = [shown EXCEPT ![n] = auth]
    /\ UNCHANGED <<auth, spent, lease, todo, starting, payloads, launches>>
WritesSpent(n, record) ==
    /\ n \in Nonces /\ record \in Auths /\ n \notin Spent
    /\ n \in Exact => n \in snapshots /\ AsShown(record, n)
    /\ todo # <<>> /\ Head(todo).nonce = n /\ ~lease.held /\ starting = None
    /\ spent' = [spent EXCEPT ![n] = record] /\ todo' = <<LeaseWrite(n)>>
    /\ UNCHANGED <<auth, lease, snapshots, starting, shown, payloads, launches>>
WritesLease(n) ==
    /\ n \in Nonces /\ n \in Spent
    /\ todo # <<>> /\ Head(todo).nonce = n /\ ~lease.held /\ starting = None
    /\ lease' = Lease(TRUE, n, "uncertain") /\ todo' = <<>>
    /\ UNCHANGED <<auth, spent, snapshots, starting, shown, payloads, launches>>
Starts(n) ==
    /\ n \in Nonces /\ LockFree /\ n \in Spent /\ lease = Lease(TRUE, n, "uncertain")
    /\ lease' = Lease(TRUE, n, "running") /\ starting' = [nonce |-> n, released |-> FALSE]
    /\ UNCHANGED <<auth, spent, snapshots, todo, shown, payloads, launches>>
Launches ==
    /\ starting # None /\ ~starting.released
    /\ starting' = [starting EXCEPT !.released = TRUE]
    /\ launches' = [launches EXCEPT ![starting.nonce] = @ + 1]
    /\ payloads' = payloads \cup {starting.nonce}
    /\ UNCHANGED <<auth, spent, lease, snapshots, todo, shown>>
LeavesLease ==
    /\ starting # None
    /\ \/ ~starting.released /\ lease' \in {Lease(TRUE, starting.nonce, "uncertain"),
                                           Lease(FALSE, starting.nonce, "spawn-failed")}
       \/ /\ starting.released /\ starting.nonce \notin payloads
          /\ lease' = Lease(FALSE, starting.nonce, "exited")
       \/ lease' = Lease(TRUE, starting.nonce, "supervision-uncertain")
    /\ starting' = None
    /\ UNCHANGED <<auth, spent, snapshots, todo, shown, payloads, launches>>
Cancels ==
    /\ LockFree /\ lease.held /\ lease.child = "uncertain"
    /\ lease' = Lease(FALSE, lease.token, "cancelled")
    /\ UNCHANGED <<auth, spent, snapshots, todo, starting, shown, payloads, launches>>
Administers ==
    /\ LockFree /\ auth' \in Auths
    /\ UNCHANGED <<spent, lease, snapshots, todo, starting, shown, payloads, launches>>
PayloadLeaves ==
    /\ \E n \in payloads : payloads' = payloads \ {n}
    /\ UNCHANGED <<auth, spent, lease, snapshots, todo, starting, shown, launches>>
Forgets ==
    /\ todo' = <<>> /\ starting' = None
    /\ UNCHANGED <<auth, spent, lease, snapshots, shown, payloads, launches>>

RecordStep ==
    \/ UNCHANGED Records
    \/ \E n \in Nonces : Snaps(n) \/ Issues(n) \/ WritesLease(n) \/ Starts(n)
    \/ \E n \in Nonces, record \in Auths : Spends(n, record) \/ WritesSpent(n, record)
    \/ Launches \/ LeavesLease \/ Cancels \/ Administers \/ PayloadLeaves \/ Forgets

LEMMA NextExact ==
    ASSUME IssuedInOrder, Cardinality(snapshots \cap Exact) + 1 \in Exact
    PROVE  LET n == Cardinality(snapshots \cap Exact) + 1
           IN  n \notin snapshots /\ snapshots \cap Exact = 1..(n - 1)
<1>1. PICK k \in Nat : snapshots \cap Exact = 1..k
  BY DEF IssuedInOrder
<1>2. Cardinality(snapshots \cap Exact) = k
  <2>1. 1 \in Int /\ k \in Int
    OBVIOUS
  <2>2. Cardinality(1..k) = IF 1 > k THEN 0 ELSE k - 1 + 1
    BY <2>1, FS_Interval
  <2>3. Cardinality(1..k) = k
    BY <2>2
  <2> QED BY <1>1, <2>3
<1>3. k + 1 \in Exact /\ k + 1 \notin snapshots \cap Exact
  BY <1>1, <1>2
<1>4. k + 1 \notin snapshots /\ snapshots \cap Exact = 1..(k + 1 - 1)
  BY <1>1, <1>3
<1> QED BY <1>2, <1>4

LEMMA DaemonRecords ==
    ASSUME HolderInv, DaemonStep
    PROVE  RecordStep
<1> USE DEF HolderInv, Types, worldVars, appVars
<1> USE HolderRunsAssumption
<1>1. ASSUME NEW r \in requests, NEW contents \in Contents, Consume(r, contents)
      PROVE  RecordStep
  <2>1. r.op = "consume" /\ r.nonce \in Runs /\ r.nonce \in Nonces /\ r.signed \in Auths
        /\ r.nonce \notin Exact
    <3>1. r.op = "consume"
      BY <1>1 DEF Consume
    <3>2. RequestOK(r)
      BY DEF RequestsCarry
    <3>3. r.nonce \in Runs /\ r.signed \in Auths
      BY <3>1, <3>2 DEF RequestOK
    <3> QED BY <3>1, <3>3 DEF Nonces, Exact
  <2>2. CASE snapshots' = snapshots
    <3>1. CASE todo' = todo
      BY <1>1, <2>2, <3>1 DEF Consume, RecordStep, Records
    <3> QED BY <1>1, <2>1, <2>2, <3>1 DEF Consume, RecordStep, Spends, MayConsume
  <2>3. CASE snapshots' = snapshots \cup {r.nonce} /\ todo' = todo
    BY <1>1, <2>1, <2>3 DEF Consume, RecordStep, Snaps
  <2>4. CASE snapshots' = snapshots \cup {r.nonce} /\ todo' # todo
    <3>1. Spends(r.nonce, r.signed)
      BY <1>1, <2>1, <2>4 DEF Consume, Spends, MayConsume
    <3> QED BY <2>1, <3>1 DEF RecordStep
  <2> QED BY <1>1, <2>2, <2>3, <2>4 DEF Consume
<1>2. ASSUME NEW r \in requests, NEW contents \in Contents, IssueExact(r, contents)
      PROVE  RecordStep
  <2> DEFINE n == Cardinality(snapshots \cap Exact) + 1
  <2>1. CASE n \in Exact /\ contents = "as bound"
    <3>1. n \notin snapshots /\ snapshots \cap Exact = 1..(n - 1) /\ n \in Nonces
      BY <2>1, NextExact DEF Nonces
    <3>2. Issues(n)
      BY <1>2, <2>1, <3>1 DEF IssueExact, Issues
    <3> QED BY <3>1, <3>2 DEF RecordStep
  <2>2. CASE ~(n \in Exact /\ contents = "as bound")
    BY <1>2, <2>2 DEF IssueExact, RecordStep, Records
  <2> QED BY <2>1, <2>2
<1>3. ASSUME NEW r \in requests, NEW late \in BOOLEAN, AuthorizeExact(r, late)
      PROVE  RecordStep
  <2>1. r.nonce \in Exact /\ r.nonce \in Nonces /\ r.signed \in Auths /\ r.nonce \in snapshots
        /\ AsShown(r.signed, r.nonce) /\ r.nonce \notin Runs
    BY <1>3 DEF AuthorizeExact, RequestsCarry, RequestOK, Nonces, Exact
  <2>2. CASE todo' = todo
    BY <1>3, <2>2 DEF AuthorizeExact, RecordStep, Records
  <2>3. CASE todo' # todo
    <3>1. Spends(r.nonce, r.signed)
      BY <1>3, <2>1, <2>3 DEF AuthorizeExact, Spends, MayConsume
    <3> QED BY <2>1, <3>1 DEF RecordStep
  <2> QED BY <2>2, <2>3
<1>4. ASSUME NEW r \in requests, NEW late \in BOOLEAN, NEW sealed \in Seals, NEW launch \in Vectors,
             Execute(r, late, sealed, launch)
      PROVE  RecordStep
  <2>1. r.nonce \in Nonces
    BY <1>4 DEF Execute, RequestsCarry, RequestOK
  <2>2. CASE lease' = lease /\ starting' = starting
    BY <1>4, <2>2 DEF Execute, RecordStep, Records
  <2>3. CASE ~(lease' = lease /\ starting' = starting)
    <3>1. /\ lease = Lease(TRUE, r.nonce, "uncertain") /\ r.nonce \in Spent
          /\ lease' = Lease(TRUE, r.nonce, "running")
          /\ starting' = [nonce |-> r.nonce, released |-> FALSE]
      BY <1>4, <2>3 DEF Execute
    <3>3. Starts(r.nonce)
      BY <1>4, <2>1, <3>1 DEF Execute, Starts
    <3> QED BY <2>1, <3>3 DEF RecordStep
  <2> QED BY <2>2, <2>3
<1>5. CASE Write
  <2>1. PICK n \in Nonces, record \in Auths :
               /\ todo # <<>> /\ Head(todo).nonce = n /\ ~lease.held /\ starting = None
               /\ n \in Exact => n \in snapshots /\ AsShown(record, n)
               /\ \/ /\ n \notin Spent /\ spent' = [spent EXCEPT ![n] = record]
                     /\ todo' = <<LeaseWrite(n)>> /\ UNCHANGED <<lease, requests, answer>>
                  \/ /\ n \in Spent /\ lease' = Lease(TRUE, n, "uncertain")
                     /\ todo' = <<>> /\ ReplyBegun("ok") /\ UNCHANGED spent
    BY <1>5, WriteIsOneOfTwo
  <2>2. UNCHANGED <<auth, snapshots, starting, shown, payloads, launches>>
    BY <1>5 DEF Write
  <2>3. WritesSpent(n, record) \/ WritesLease(n)
    BY <2>1, <2>2 DEF WritesSpent, WritesLease
  <2> QED BY <2>3 DEF RecordStep
<1>6. CASE Launch
  BY <1>6 DEF Launch, Launches, RecordStep
<1>7. CASE NoSpawn
  BY <1>7 DEF NoSpawn, Leaves, LeavesLease, RecordStep
<1>8. CASE Ends
  BY <1>8 DEF Ends, Leaves, LeavesLease, RecordStep
<1>9. CASE Doubt
  BY <1>9 DEF Doubt, Leaves, LeavesLease, RecordStep
<1>10. CASE Cancel
  BY <1>10 DEF Cancel, Cancels, RecordStep
<1>11. CASE Administer
  <2>1. auth' \in Auths
    BY <1>11 DEF Administer, Auths
  <2> QED BY <1>11, <2>1 DEF Administer, Administers, RecordStep
<1>12. CASE \E n \in payloads : PayloadEnds(n)
  BY <1>12 DEF PayloadEnds, PayloadLeaves, RecordStep, holderVars
<1>13. CASE DaemonDies
  BY <1>13 DEF DaemonDies, Forgets, RecordStep
<1> QED
  BY <1>1, <1>2, <1>3, <1>4, <1>5, <1>6, <1>7, <1>8, <1>9, <1>10, <1>11, <1>12, <1>13
  DEF DaemonStep, Daemon

-----------------------------------------------------------------------------
(* The records: each part of the invariant that is about them.             *)

RecordInv ==
    /\ Types /\ IssuedInOrder /\ WritesInOrder /\ SpentAsShown /\ LeaseOfSpent /\ StartOfHeld
    /\ LaunchedOnce

\* Once settled, a nonce stays settled.
LEMMA SettledStays ==
    ASSUME RecordInv, RecordStep, NEW n \in Nonces, Settled(n)
    PROVE  Settled(n)'
<1> USE DEF RecordInv, Types, Settled, Spent
<1> USE HolderRunsAssumption
<1>1. CASE \E m \in Nonces, record \in Auths : Spends(m, record)
  <2>1. PICK m \in Nonces, record \in Auths : Spends(m, record)
    BY <1>1
  <2>2. Head(todo').nonce = m /\ m # n
    BY <2>1, TwoElements DEF Spends, ConsumeWrites
  <2> QED BY <2>1, <2>2 DEF Spends
<1>2. CASE \E m \in Nonces, record \in Auths : WritesSpent(m, record)
  <2>1. PICK m \in Nonces, record \in Auths : WritesSpent(m, record)
    BY <1>2
  <2>2. Head(todo').nonce = m /\ m # n
    BY <2>1 DEF WritesSpent, LeaseWrite
  <2> QED BY <2>1, <2>2 DEF WritesSpent
<1>3. CASE \E m \in Nonces : Snaps(m) \/ Issues(m) \/ WritesLease(m) \/ Starts(m)
  BY <1>3 DEF Snaps, Issues, WritesLease, Starts
<1>4. CASE UNCHANGED Records \/ Launches \/ LeavesLease \/ Cancels \/ Administers \/ PayloadLeaves
           \/ Forgets
  BY <1>4 DEF Records, Launches, LeavesLease, Cancels, Administers, PayloadLeaves, Forgets
<1> QED BY <1>1, <1>2, <1>3, <1>4 DEF RecordStep

\* Once a payload has ended, its nonce has neither payload nor lease again.
LEMMA EndedStays ==
    ASSUME RecordInv, RecordStep, NEW n \in Nonces, Ended(n)
    PROVE  Ended(n)'
<1>1. Settled(n)' /\ Settled(n)
  BY SettledStays DEF Ended
<1> USE DEF RecordInv, Types, Ended
<1>2. CASE \E m \in Nonces : WritesLease(m)
  BY <1>1, <1>2 DEF WritesLease, Lease, Settled
<1>3. CASE \E m \in Nonces : Starts(m)
  BY <1>1, <1>3 DEF Starts, Lease
<1>4. CASE \E m \in Nonces : Snaps(m) \/ Issues(m)
  BY <1>1, <1>4 DEF Snaps, Issues
<1>5. CASE \E m \in Nonces, record \in Auths : Spends(m, record) \/ WritesSpent(m, record)
  BY <1>1, <1>5 DEF Spends, WritesSpent
<1>6. CASE Launches \/ LeavesLease
  <2>1. lease.held /\ lease.token = starting.nonce /\ starting.nonce # n
    BY <1>6 DEF Launches, LeavesLease, StartOfHeld, Lease
  <2> QED BY <1>1, <1>6, <2>1 DEF Launches, LeavesLease, Lease
<1>7. CASE UNCHANGED Records \/ Cancels \/ Administers \/ PayloadLeaves \/ Forgets
  BY <1>1, <1>7 DEF Records, Cancels, Administers, PayloadLeaves, Forgets, Lease
<1> QED BY <1>2, <1>3, <1>4, <1>5, <1>6, <1>7 DEF RecordStep

LEMMA IssuedInOrderNext ==
    ASSUME RecordInv, RecordStep
    PROVE  IssuedInOrder'
<1> USE DEF RecordInv, Types, IssuedInOrder, Nonces
<1> USE HolderRunsAssumption
<1>1. CASE \E m \in Nonces : Issues(m)
  <2>1. PICK m \in Nonces : Issues(m)
    BY <1>1
  <2>2. m \in Nat \ {0} /\ m \in Exact
    BY <2>1 DEF Issues, Exact
  <2>3. snapshots' \cap Exact = 1..m
    <3>1. snapshots' \cap Exact = (1..(m - 1)) \cup {m}
      BY <2>1, <2>2 DEF Issues
    <3>2. (1..(m - 1)) \cup {m} = 1..m
      BY <2>2
    <3> QED BY <3>1, <3>2
  <2> QED BY <2>1, <2>2, <2>3 DEF Issues
<1>2. ASSUME snapshots' \cap Exact = snapshots \cap Exact, UNCHANGED shown
      PROVE  IssuedInOrder'
  <2>1. \A n \in Exact : n \in snapshots' => n \in snapshots
    BY <1>2
  <2>2. \E k \in Nat : snapshots' \cap Exact = 1..k
    BY <1>2
  <2> QED BY <1>2, <2>1, <2>2
<1> HIDE DEF IssuedInOrder
<1>3. CASE \E m \in Nonces : Snaps(m) \/ WritesLease(m) \/ Starts(m)
  <2>1. \A m \in Runs : m \notin Exact
    BY DEF Exact
  <2>2. ASSUME NEW m \in Nonces, Snaps(m) PROVE IssuedInOrder'
    BY <1>2, <2>1, <2>2 DEF Snaps
  <2> QED BY <1>2, <1>3, <2>2 DEF WritesLease, Starts
<1>5. CASE \E m \in Nonces, record \in Auths : Spends(m, record) \/ WritesSpent(m, record)
  BY <1>2, <1>5 DEF Spends, WritesSpent, Exact
<1>4. CASE UNCHANGED Records \/ Launches \/ LeavesLease \/ Cancels \/ Administers \/ PayloadLeaves
           \/ Forgets
  BY <1>2, <1>4 DEF Records, Launches, LeavesLease, Cancels, Administers, PayloadLeaves, Forgets
<1> QED BY <1>1, <1>3, <1>4, <1>5 DEF RecordStep

LEMMA WritesInOrderNext ==
    ASSUME RecordInv, RecordStep, UNCHANGED signer
    PROVE  WritesInOrder'
<1> USE DEF RecordInv, Types, AsShown
<1>1. CASE \E m \in Nonces, record \in Auths : Spends(m, record)
  BY <1>1 DEF Spends, WritesInOrder, Spent, LockFree
<1>2. CASE \E m \in Nonces, record \in Auths : WritesSpent(m, record)
  BY <1>2, HolderRunsAssumption DEF WritesSpent, WritesInOrder, Spent
<1>3. CASE \E m \in Nonces : Snaps(m) \/ Issues(m) \/ Starts(m)
  BY <1>3 DEF Snaps, Issues, Starts, WritesInOrder, LockFree
<1>4. CASE \E m \in Nonces : WritesLease(m)
  BY <1>4 DEF WritesLease, WritesInOrder
<1>5. CASE Launches \/ LeavesLease
  BY <1>5 DEF Launches, LeavesLease, WritesInOrder, StartOfHeld
<1>6. CASE Cancels \/ Administers \/ Forgets
  BY <1>6 DEF Cancels, Administers, Forgets, WritesInOrder, LockFree
<1>7. CASE UNCHANGED Records \/ PayloadLeaves
  BY <1>7 DEF Records, PayloadLeaves, WritesInOrder, Spent
<1> QED BY <1>1, <1>2, <1>3, <1>4, <1>5, <1>6, <1>7 DEF RecordStep

LEMMA SpentAsShownNext ==
    ASSUME RecordInv, RecordStep, UNCHANGED signer
    PROVE  SpentAsShown'
<1> USE DEF RecordInv, Types, SpentAsShown, Spent, AsShown
<1>1. CASE \E m \in Nonces, record \in Auths : Spends(m, record) \/ WritesSpent(m, record)
  BY <1>1 DEF Spends, WritesSpent
<1>2. CASE \E m \in Nonces : Snaps(m) \/ Issues(m) \/ WritesLease(m) \/ Starts(m)
  BY <1>2 DEF Snaps, Issues, WritesLease, Starts
<1>3. CASE UNCHANGED Records \/ Launches \/ LeavesLease \/ Cancels \/ Administers \/ PayloadLeaves
           \/ Forgets
  BY <1>3 DEF Records, Launches, LeavesLease, Cancels, Administers, PayloadLeaves, Forgets
<1> QED BY <1>1, <1>2, <1>3 DEF RecordStep

LEMMA LeaseOfSpentNext ==
    ASSUME RecordInv, RecordStep
    PROVE  LeaseOfSpent'
<1> USE DEF RecordInv, Types, LeaseOfSpent, Lease
<1>1. /\ lease.held => lease.token \in Nonces
      /\ \A n \in Nonces : lease.held /\ n = lease.token => Settled(n)'
  BY SettledStays
<1>2. CASE \E m \in Nonces : WritesLease(m)
  BY <1>2 DEF WritesLease, Settled, Spent, LaunchedOnce
<1>3. CASE \E m \in Nonces : Starts(m)
  BY <1>1, <1>3 DEF Starts
<1>4. CASE \E m \in Nonces : Snaps(m) \/ Issues(m)
  BY <1>1, <1>4 DEF Snaps, Issues
<1>5. CASE \E m \in Nonces, record \in Auths : Spends(m, record) \/ WritesSpent(m, record)
  BY <1>1, <1>5 DEF Spends, WritesSpent
<1>6. CASE Launches
  BY <1>1, <1>6 DEF Launches, StartOfHeld
<1>7. CASE LeavesLease
  BY <1>1, <1>7 DEF LeavesLease, StartOfHeld
<1>8. CASE UNCHANGED Records \/ Cancels \/ Administers \/ PayloadLeaves \/ Forgets
  BY <1>1, <1>8 DEF Records, Cancels, Administers, PayloadLeaves, Forgets
<1> QED BY <1>2, <1>3, <1>4, <1>5, <1>6, <1>7, <1>8 DEF RecordStep

LEMMA StartOfHeldNext ==
    ASSUME RecordInv, RecordStep
    PROVE  StartOfHeld'
<1> USE DEF RecordInv, Types, StartOfHeld
<1>1. CASE \E m \in Nonces : Starts(m)
  BY <1>1 DEF Starts, LockFree, LeaseOfSpent, Lease
<1>2. CASE Launches
  BY <1>2 DEF Launches
<1>3. CASE LeavesLease \/ Forgets
  BY <1>3 DEF LeavesLease, Forgets
<1>4. CASE \E m \in Nonces : Snaps(m) \/ Issues(m) \/ WritesLease(m)
  BY <1>4 DEF Snaps, Issues, WritesLease, LockFree
<1>5. CASE \E m \in Nonces, record \in Auths : Spends(m, record) \/ WritesSpent(m, record)
  BY <1>5 DEF Spends, WritesSpent, LockFree
<1>6. CASE UNCHANGED Records \/ Cancels \/ Administers \/ PayloadLeaves
  BY <1>6 DEF Records, Cancels, Administers, PayloadLeaves, LockFree
<1> QED BY <1>1, <1>2, <1>3, <1>4, <1>5, <1>6 DEF RecordStep

LEMMA LaunchedOnceNext ==
    ASSUME RecordInv, RecordStep
    PROVE  LaunchedOnce'
<1> USE DEF RecordInv, Types, LaunchedOnce
<1>1. ASSUME NEW n \in Nonces, Settled(n)
      PROVE  Settled(n)'
  BY <1>1, SettledStays
<1>2. CASE Launches
  <2>1. starting.nonce \in Nonces /\ launches[starting.nonce] = 0 /\ Settled(starting.nonce)
    BY <1>2 DEF Launches, StartOfHeld, LeaseOfSpent, Lease
  <2> QED BY <1>1, <1>2, <2>1 DEF Launches
<1>3. CASE ~Launches
  <2>1. launches' = launches
    BY <1>3 DEF RecordStep, Records, Snaps, Issues, WritesLease, Starts, Spends, WritesSpent,
       LeavesLease, Cancels, Administers, PayloadLeaves, Forgets
  <2> QED BY <1>1, <2>1
<1> QED BY <1>2, <1>3

-----------------------------------------------------------------------------
(* The requests, under the steps of the daemon.                            *)

KeepsCalls ==
    /\ UNCHANGED <<requests, answer>>
    /\ (todo # <<>>) = (todo' # <<>>) /\ (starting # None) = (starting' # None)
    /\ todo # <<>> => Head(todo').nonce = Head(todo).nonce
    /\ starting # None => starting'.nonce = starting.nonce
Begins(r) ==
    /\ LockFree /\ Begin(r)
    /\ \/ /\ r.op \in {"consume", "authorize"} /\ starting' = None
          /\ todo' # <<>> /\ Head(todo').nonce = r.nonce
       \/ /\ r.op = "execute" /\ todo' = <<>>
          /\ starting' # None /\ starting'.nonce = r.nonce
Refuses(r) == LockFree /\ Reply(r, "refused") /\ UNCHANGED <<todo, starting>>
AnswersIssue(r) ==
    /\ LockFree /\ r.op = "issue" /\ UNCHANGED <<todo, starting>>
    /\ \E n \in Exact \ snapshots : snapshots' = snapshots \cup {n} /\ ReplyWith(r, "ok", n)
Finishes(r, result) ==
    /\ r.begun /\ ~LockFree /\ Reply(r, result) /\ todo' = <<>> /\ starting' = None
    /\ result = "ok" =>
           \/ todo # <<>> /\ WritesLease(Head(todo).nonce)
           \/ /\ starting # None /\ starting.released /\ starting.nonce \notin payloads
              /\ lease' = Lease(FALSE, starting.nonce, "exited")
              /\ UNCHANGED <<spent, launches, payloads>>
DropsCalls ==
    /\ requests' = {} /\ todo' = <<>> /\ starting' = None
    /\ \E cut \in [Clients -> Cuts] :
           answer' = [c \in Clients |-> IF Awaited(c) = {} THEN answer[c]
                                       ELSE [result |-> cut[c], nonce |-> None]]
CallStep ==
    \/ KeepsCalls \/ DropsCalls
    \/ \E r \in requests : Begins(r) \/ Refuses(r) \/ AnswersIssue(r) \/ Finishes(r, "ok")
                           \/ Finishes(r, "refused")

LEMMA NotNone ==
    ASSUME NEW n \in Nonces, NEW released \in BOOLEAN
    PROVE  [nonce |-> n, released |-> released] # None
BY HolderRunsAssumption

LEMMA DaemonCalls ==
    ASSUME HolderInv, DaemonStep
    PROVE  CallStep
<1> USE DEF HolderInv, Types, CallStep
<1> USE HolderRunsAssumption
<1>a. \A r \in requests : r.op \in {"consume", "execute"} => r.nonce \in Nonces
  BY DEF RequestsCarry, RequestOK, Nonces
<1>1. ASSUME NEW r \in requests, NEW contents \in Contents, Consume(r, contents)
      PROVE  CallStep
  <2>1. CASE todo' = todo
    <3>1. Refuses(r) \/ todo' = ConsumeWrites(r.nonce, r.signed)
      BY <1>1, <2>1 DEF Consume, Refuses
    <3>2. todo' # ConsumeWrites(r.nonce, r.signed)
      BY <1>1, <2>1, TwoElements DEF Consume, LockFree, ConsumeWrites
    <3> QED BY <3>1, <3>2
  <2>2. CASE todo' # todo
    <3>1. /\ LockFree /\ Begin(r) /\ starting' = None /\ r.op = "consume"
          /\ todo' = ConsumeWrites(r.nonce, r.signed)
      BY <1>1, <2>2 DEF Consume, LockFree
    <3>2. todo' # <<>> /\ Head(todo').nonce = r.nonce
      BY <3>1, TwoElements DEF ConsumeWrites
    <3> QED BY <3>1, <3>2 DEF Begins
  <2> QED BY <2>1, <2>2
<1>2. ASSUME NEW r \in requests, NEW contents \in Contents, IssueExact(r, contents)
      PROVE  CallStep
  <2> DEFINE n == Cardinality(snapshots \cap Exact) + 1
  <2>1. CASE n \in Exact /\ contents = "as bound"
    <3>1. n \in Exact \ snapshots
      BY <2>1, NextExact
    <3>2. AnswersIssue(r)
      BY <1>2, <2>1, <3>1 DEF IssueExact, AnswersIssue
    <3> QED BY <3>2
  <2>2. CASE ~(n \in Exact /\ contents = "as bound")
    BY <1>2, <2>2 DEF IssueExact, Refuses
  <2> QED BY <2>1, <2>2
<1>3. ASSUME NEW r \in requests, NEW late \in BOOLEAN, AuthorizeExact(r, late)
      PROVE  CallStep
  <2>1. CASE todo' = todo
    <3>1. Refuses(r) \/ todo' = ConsumeWrites(r.nonce, r.signed)
      BY <1>3, <2>1 DEF AuthorizeExact, Refuses
    <3>2. todo' # ConsumeWrites(r.nonce, r.signed)
      BY <1>3, <2>1, TwoElements DEF AuthorizeExact, LockFree, ConsumeWrites
    <3> QED BY <3>1, <3>2
  <2>2. CASE todo' # todo
    <3>1. /\ LockFree /\ Begin(r) /\ starting' = None /\ r.op = "authorize"
          /\ todo' = ConsumeWrites(r.nonce, r.signed)
      BY <1>3, <2>2 DEF AuthorizeExact, LockFree
    <3>2. todo' # <<>> /\ Head(todo').nonce = r.nonce
      BY <3>1, TwoElements DEF ConsumeWrites
    <3> QED BY <3>1, <3>2 DEF Begins
  <2> QED BY <2>1, <2>2
<1>4. ASSUME NEW r \in requests, NEW late \in BOOLEAN, NEW sealed \in Seals, NEW launch \in Vectors,
             Execute(r, late, sealed, launch)
      PROVE  CallStep
  <2>1. \/ Refuses(r)
        \/ Begin(r) /\ starting' = [nonce |-> r.nonce, released |-> FALSE]
    BY <1>4 DEF Execute, Refuses
  <2>2. ASSUME Begin(r), starting' = [nonce |-> r.nonce, released |-> FALSE]
        PROVE  Begins(r)
    <3>1. r.op = "execute" /\ LockFree /\ todo' = <<>>
      BY <1>4 DEF Execute, LockFree
    <3>2. r.nonce \in Nonces
      BY <1>a, <3>1
    <3>3. starting' # None /\ starting'.nonce = r.nonce
      BY <2>2, <3>2, NotNone
    <3> QED BY <2>2, <3>1, <3>3 DEF Begins
  <2> QED BY <2>1, <2>2
<1>5. CASE Write
  <2>1. PICK n \in Nonces, record \in Auths :
               /\ todo # <<>> /\ Head(todo).nonce = n /\ ~lease.held /\ starting = None
               /\ n \in Exact => n \in snapshots /\ AsShown(record, n)
               /\ \/ /\ n \notin Spent /\ spent' = [spent EXCEPT ![n] = record]
                     /\ todo' = <<LeaseWrite(n)>> /\ UNCHANGED <<lease, requests, answer>>
                  \/ /\ n \in Spent /\ lease' = Lease(TRUE, n, "uncertain")
                     /\ todo' = <<>> /\ ReplyBegun("ok") /\ UNCHANGED spent
    BY <1>5, WriteIsOneOfTwo
  <2>2. UNCHANGED <<auth, snapshots, starting, shown, payloads, launches>>
    BY <1>5 DEF Write, worldVars, appVars
  <2>3. CASE todo' = <<LeaseWrite(n)>> /\ UNCHANGED <<lease, requests, answer>>
    <3>1. todo' # <<>> /\ Head(todo').nonce = n
      BY <2>3 DEF LeaseWrite
    <3> QED BY <2>1, <2>2, <2>3, <3>1 DEF KeepsCalls
  <2>4. CASE n \in Spent /\ lease' = Lease(TRUE, n, "uncertain") /\ todo' = <<>>
             /\ ReplyBegun("ok") /\ UNCHANGED spent
    <3>1. WritesLease(n)
      BY <2>1, <2>2, <2>4 DEF WritesLease
    <3>2. PICK r \in requests : r.begun /\ Reply(r, "ok")
      BY <2>4 DEF ReplyBegun
    <3>3. Finishes(r, "ok")
      BY <2>1, <2>2, <2>4, <3>1, <3>2 DEF Finishes, LockFree
    <3> QED BY <3>3
  <2> QED BY <2>1, <2>3, <2>4
<1>6. CASE Launch
  <2>1. starting' # None /\ starting'.nonce = starting.nonce
    <3>1. starting \in [nonce : Nonces, released : BOOLEAN] /\ starting' = [starting EXCEPT !.released = TRUE]
      BY <1>6 DEF Launch
    <3>2. starting' = [nonce |-> starting.nonce, released |-> TRUE]
      BY <3>1
    <3> QED BY <3>1, <3>2, NotNone
  <2> QED BY <1>6, <2>1 DEF Launch, KeepsCalls, callVars
<1>7. CASE NoSpawn
  <2>1. PICK r \in requests : r.begun /\ Reply(r, "refused")
    BY <1>7 DEF NoSpawn, Leaves, ReplyBegun
  <2>2. Finishes(r, "refused")
    BY <1>7, <2>1 DEF NoSpawn, Leaves, Finishes, LockFree, StartOfHeld
  <2> QED BY <2>2
<1>8. CASE Ends
  <2>1. PICK r \in requests : r.begun /\ Reply(r, "ok")
    BY <1>8 DEF Ends, Leaves, ReplyBegun
  <2>2. Finishes(r, "ok")
    BY <1>8, <2>1 DEF Ends, Leaves, Finishes, LockFree, StartOfHeld, worldVars
  <2> QED BY <2>2
<1>9. CASE Doubt
  <2>1. PICK r \in requests : r.begun /\ Reply(r, "refused")
    BY <1>9 DEF Doubt, Leaves, ReplyBegun
  <2>2. Finishes(r, "refused")
    BY <1>9, <2>1 DEF Doubt, Leaves, Finishes, LockFree, StartOfHeld
  <2> QED BY <2>2
<1>10. CASE Cancel \/ Administer \/ \E n \in payloads : PayloadEnds(n)
  BY <1>10 DEF Cancel, Administer, PayloadEnds, KeepsCalls, callVars, holderVars
<1>11. CASE DaemonDies
  BY <1>11 DEF DaemonDies, DropsCalls
<1> QED
  BY <1>1, <1>2, <1>3, <1>4, <1>5, <1>6, <1>7, <1>8, <1>9, <1>10, <1>11 DEF DaemonStep, Daemon

-----------------------------------------------------------------------------
(* The parts about requests and answers, under the steps of the daemon.    *)

LEMMA RequestsOf ==
    ASSUME CallStep, NEW q \in requests'
    PROVE  \/ q \in requests
           \/ \E r \in requests : q = [r EXCEPT !.begun = TRUE] /\ Begins(r)
BY DEF CallStep, KeepsCalls, DropsCalls, Begins, Begin, Refuses, AnswersIssue, Finishes, Reply, ReplyWith

\* What is displayed of an issued run stays.
LEMMA ShownStays ==
    ASSUME RecordInv, RecordStep
    PROVE  /\ snapshots \subseteq snapshots'
           /\ \A n \in Exact \cap snapshots : shown'[n] = shown[n]
<1> USE DEF RecordInv, Types
<1>1. CASE \E m \in Nonces : Snaps(m) \/ Issues(m) \/ WritesLease(m) \/ Starts(m)
  BY <1>1 DEF Snaps, Issues, WritesLease, Starts
<1>2. CASE \E m \in Nonces, record \in Auths : Spends(m, record) \/ WritesSpent(m, record)
  BY <1>2 DEF Spends, WritesSpent
<1>3. CASE UNCHANGED Records \/ Launches \/ LeavesLease \/ Cancels \/ Administers \/ PayloadLeaves
           \/ Forgets
  BY <1>3 DEF Records, Launches, LeavesLease, Cancels, Administers, PayloadLeaves, Forgets
<1> QED BY <1>1, <1>2, <1>3 DEF RecordStep

LEMMA RequestStays ==
    ASSUME RecordInv, RecordStep, UNCHANGED signer, NEW q, RequestOK(q)
    PROVE  /\ RequestOK(q)' /\ RequestOK([q EXCEPT !.begun = TRUE])'
           /\ RequestOK([q EXCEPT !.from = None])'
BY ShownStays DEF RequestOK, AsShown

LEMMA RequestsCarryDaemon ==
    ASSUME HolderInv, RecordStep, CallStep, UNCHANGED signer
    PROVE  RequestsCarry'
<1>1. RecordInv
  BY DEF HolderInv, RecordInv
<1>2. \A q \in requests : RequestOK(q)
  BY DEF HolderInv, RequestsCarry
<1>3. ASSUME NEW q \in requests'
      PROVE  RequestOK(q)'
  BY <1>1, <1>2, RequestsOf, RequestStays
<1> QED BY <1>3 DEF RequestsCarry

LEMMA WaitsForOneDaemon ==
    ASSUME HolderInv, CallStep, UNCHANGED <<runpc, cur, apppc>>
    PROVE  WaitsForOne'
<1> USE DEF HolderInv, Types, WaitsForOne, Clients, Waits
<1> USE HolderRunsAssumption
<1>1. CASE KeepsCalls
  BY <1>1 DEF KeepsCalls
<1>2. ASSUME NEW r \in requests, Begins(r)
      PROVE  WaitsForOne'
  <2>1. \A p \in requests' : \E q \in requests : p.from = q.from /\ p.op = q.op /\ p.nonce = q.nonce
                                                /\ (p = q \/ q = r)
    BY <1>2 DEF Begins, Begin, RequestsCarry, RequestOK
  <2>2. answer' = answer
    BY <1>2 DEF Begins, Begin
  <2>3. \A p, q \in requests' : p.from = q.from /\ p.from # None => p = q
    <3> DEFINE s == [r EXCEPT !.begun = TRUE]
    <3>1. s.from = r.from
      BY DEF RequestsCarry, RequestOK
    <3>2. \A q \in requests' : q = s \/ (q \in requests /\ q # r)
      BY <1>2 DEF Begins, Begin
    <3> HIDE DEF s
    <3> QED BY <3>1, <3>2
  <2> QED BY <2>1, <2>2, <2>3
<1>3. ASSUME NEW r \in requests, NEW result, NEW n, ReplyWith(r, result, n)
      PROVE  WaitsForOne'
  <2>1. requests' = requests \ {r} /\ \A q \in requests' : q.from # None => q.from # r.from
    BY <1>3 DEF ReplyWith
  <2>2. r.from \in Clients \cup {None} /\ r.op \in Ops
    BY DEF RequestsCarry, RequestOK
  <2>3. /\ \A c \in Clients : c # r.from => answer'[c] = answer[c]
        /\ r.from = None => answer' = answer
    BY <1>3, <2>2 DEF ReplyWith, Answers
  <2>4. \A q \in requests' : q.from # None => answer'[q.from] = answer[q.from]
    BY <2>1, <2>3 DEF RequestsCarry, RequestOK
  <2>5. (answer["run"] # None => runpc \in {"consume", "execute"})'
    BY <2>2, <2>3 DEF Ops, RunPlaces
  <2>6. (answer["app"] # None => apppc \in {"issue", "authorize", "executing"})'
    BY <2>2, <2>3 DEF Ops, AppPlaces, AppAt
  <2> QED BY <2>1, <2>4, <2>5, <2>6
<1>4. CASE DropsCalls
  <2>1. \A c \in Clients : answer'[c] # None => answer[c] # None \/ Awaited(c) # {}
    BY <1>4 DEF DropsCalls
  <2>2. \A q \in Awaited("run") : q.op \in Ops /\ q.op = runpc
    BY DEF Awaited, RequestsCarry, RequestOK
  <2>3. \A q \in Awaited("app") : q.op \in Ops /\ q.op = Waits("app") /\ apppc # "execute"
    BY DEF Awaited, RequestsCarry, RequestOK
  <2>4. (answer["run"] # None => runpc \in {"consume", "execute"})'
    BY <2>1, <2>2 DEF Ops, RunPlaces
  <2>5. (answer["app"] # None => apppc \in {"issue", "authorize", "executing"})'
    BY <2>1, <2>3 DEF Ops, AppPlaces, AppAt
  <2> QED BY <1>4, <2>4, <2>5 DEF DropsCalls
<1> QED
  BY <1>1, <1>2, <1>3, <1>4 DEF CallStep, Refuses, AnswersIssue, Finishes, Reply

LEMMA OneBegunDaemon ==
    ASSUME HolderInv, CallStep
    PROVE  OneBegun'
<1> USE DEF HolderInv, Types, OneBegun
<1>1. CASE KeepsCalls
  BY <1>1 DEF KeepsCalls
<1>2. ASSUME NEW r \in requests, Begins(r)
      PROVE  OneBegun'
  <2>1. \A q \in requests : ~q.begun
    BY <1>2 DEF Begins, LockFree
  <2>2. r \in [from : Clients \cup {None}, op : Ops, nonce : Nonces \cup {None},
               signed : Auths, begun : BOOLEAN]
    BY DEF RequestsCarry, RequestOK
  <2> DEFINE s == [r EXCEPT !.begun = TRUE]
  <2>3. s.op = r.op /\ s.nonce = r.nonce
    BY <2>2
  <2>4. \A q \in requests' : q.begun => q = s
    BY <1>2, <2>1 DEF Begins, Begin
  <2> HIDE DEF s
  <2> QED BY <1>2, <2>3, <2>4 DEF Begins
<1>3. ASSUME NEW r \in requests, Refuses(r) \/ AnswersIssue(r)
      PROVE  OneBegun'
  <2>1. \A q \in requests : ~q.begun
    BY <1>3 DEF Refuses, AnswersIssue, LockFree
  <2> QED BY <1>3, <2>1 DEF Refuses, AnswersIssue, Reply, ReplyWith
<1>4. ASSUME NEW r \in requests, NEW result, Finishes(r, result)
      PROVE  OneBegun'
  BY <1>4 DEF Finishes, Reply, ReplyWith
<1>5. CASE DropsCalls
  BY <1>5 DEF DropsCalls
<1> QED BY <1>1, <1>2, <1>3, <1>4, <1>5 DEF CallStep

\* An answer of "ok" says what was done.
LEMMA RunAtDaemon ==
    ASSUME HolderInv, RecordStep, CallStep, UNCHANGED <<runpc, cur, starts>>
    PROVE  RunAt'
<1> USE DEF HolderInv, Types
<1> USE HolderRunsAssumption
<1>1. RecordInv
  BY DEF RecordInv
<1>2. \A n \in Runs : (Settled(n) => Settled(n)') /\ (Ended(n) => Ended(n)')
  BY <1>1, SettledStays, EndedStays DEF Nonces
<1> DEFINE Ok == answer["run"] # None /\ answer["run"].result = "ok"
           Fine(n) == /\ runpc = "consume" => Settled(n) /\ starts[n] = 0
                      /\ runpc = "execute" => Ended(n)
<1>3. /\ (runpc # "idle" => cur \in Runs)'
      /\ \A n \in Runs : n = cur /\ runpc = "check" => Settled(n)' /\ starts[n]' = 0
  BY <1>2 DEF RunAt
<1>4. SUFFICES ASSUME Ok', NEW n \in Runs, n = cur, runpc # "idle"
               PROVE  Fine(n)'
  <2>1. Ok' /\ cur \in Runs => Fine(cur)'
    BY <1>4 DEF RunAt
  <2> QED BY <1>3, <2>1 DEF RunAt
<1>5. CASE Ok /\ answer'["run"] = answer["run"]
  BY <1>2, <1>4, <1>5 DEF RunAt
<1>6. CASE DropsCalls
  BY <1>4, <1>5, <1>6 DEF DropsCalls, Clients, Cuts
<1>7. ASSUME NEW r \in requests, NEW result, NEW m, ReplyWith(r, result, m)
      PROVE  \/ answer'["run"] = answer["run"]
             \/ /\ r.from = "run" /\ answer'["run"].result = result
                /\ r.op = runpc /\ r.nonce = cur
  <2>1. CASE r.from = "run"
    <3>1. answer'["run"].result = result
      BY <1>7, <2>1 DEF ReplyWith, Answers, Clients
    <3>2. r.from # None
      BY <2>1 DEF Clients
    <3>3. r.op = runpc /\ r.nonce = cur
      BY <2>1, <3>2 DEF WaitsForOne, Waits
    <3> QED BY <2>1, <3>1, <3>3
  <2>2. CASE r.from # "run"
    <3>1. answer' = answer \/ answer' = [answer EXCEPT ![r.from] = [result |-> result, nonce |-> m]]
      BY <1>7 DEF ReplyWith, Answers
    <3>2. DOMAIN answer = {"run", "app"}
      BY DEF Clients
    <3> QED BY ONLY <2>2, <3>1, <3>2
  <2> QED BY <2>1, <2>2
<1>8. CASE KeepsCalls \/ \E r \in requests : Begins(r) \/ Refuses(r) \/ Finishes(r, "refused")
  <2>1. answer'["run"] = answer["run"]
    BY <1>4, <1>7, <1>8 DEF KeepsCalls, Begins, Begin, Refuses, Finishes, Reply
  <2> QED BY <1>4, <1>5, <2>1
<1>9. ASSUME NEW r \in requests, AnswersIssue(r)
      PROVE  Fine(n)'
  <2>1. r.op # runpc
    BY <1>9 DEF AnswersIssue, RunPlaces
  <2>2. answer'["run"] = answer["run"]
    BY <1>7, <1>9, <2>1 DEF AnswersIssue
  <2> QED BY <1>4, <1>5, <2>2
<1>10. ASSUME NEW r \in requests, Finishes(r, "ok")
       PROVE  Fine(n)'
  <2>1. CASE answer'["run"] = answer["run"]
    BY <1>4, <1>5, <2>1
  <2>2. ASSUME r.op = runpc, r.nonce = n
        PROVE  Fine(n)'
    <3>1. CASE todo # <<>>
      <4>1. Head(todo).nonce = n /\ runpc = "consume" /\ n \in Nonces
        BY <1>10, <2>2, <3>1 DEF Finishes, OneBegun, RunPlaces, Nonces
      <4>2. WritesLease(n)
        <5>1. WritesLease(Head(todo).nonce)
          BY <1>10, <3>1, <4>1 DEF Finishes, LockFree, OneBegun
        <5> QED BY ONLY <4>1, <5>1 DEF WritesLease
      <4>3. Settled(n)'
        BY <4>1, <4>2 DEF WritesLease, Settled, Spent
      <4>4. starts[n] = 0
        BY <3>1, <4>1 DEF StartedOnce, Settled
      <4> QED BY <4>1, <4>3, <4>4
    <3>2. CASE todo = <<>>
      <4>1. starting # None /\ starting.nonce = n /\ runpc = "execute" /\ n \in Nonces
        BY <1>10, <2>2, <3>2 DEF Finishes, LockFree, OneBegun, Nonces
      <4>2. /\ starting.released /\ n \notin payloads /\ lease' = Lease(FALSE, n, "exited")
            /\ UNCHANGED <<spent, launches, payloads>>
        BY <1>10, <3>2, <4>1 DEF Finishes
      <4>3. Settled(n)
        BY <4>1 DEF StartOfHeld, LeaseOfSpent, Lease
      <4>4. Settled(n)'
        BY <1>2, <4>3
      <4>5. launches[n] = 1 /\ lease'.held = FALSE
        BY <4>1, <4>2 DEF StartOfHeld, Lease
      <4>6. Ended(n)'
        BY <4>2, <4>4, <4>5 DEF Ended
      <4> QED BY <4>1, <4>6
    <3> QED BY <3>1, <3>2
  <2> QED BY <1>4, <1>7, <1>10, <2>1, <2>2 DEF Finishes, Reply
<1> QED BY <1>6, <1>8, <1>9, <1>10 DEF CallStep

LEMMA AppAtDaemon ==
    ASSUME HolderInv, RecordStep, CallStep,
           UNCHANGED <<apppc, at, retained, uncertain, finished, asked>>
    PROVE  AppAt' /\ NotAskedAgain'
<1> USE DEF HolderInv, Types, AppAt, Issued
<1>1. snapshots \subseteq snapshots'
  BY ShownStays DEF RecordInv
<1>2. NotAskedAgain'
  BY DEF NotAskedAgain
<1> DEFINE Ok == answer["app"] # None /\ answer["app"].result = "ok" /\ apppc = "issue"
           Fine == Issued(answer["app"].nonce) /\ answer["app"].nonce \notin asked
<1>3. SUFFICES ASSUME Ok'
               PROVE  Fine'
  BY <1>1, <1>2
<1>4. CASE answer'["app"] = answer["app"]
  BY <1>1, <1>3, <1>4
<1>5. ASSUME NEW r \in requests, NEW result, NEW m, ReplyWith(r, result, m)
      PROVE  \/ answer'["app"] = answer["app"]
             \/ /\ r.from = "app" /\ answer'["app"].result = result /\ answer'["app"].nonce = m
                /\ r.op = "issue"
  <2>1. answer' = answer \/ answer' = [answer EXCEPT ![r.from] = [result |-> result, nonce |-> m]]
    BY <1>5 DEF ReplyWith, Answers
  <2>2. DOMAIN answer = {"run", "app"}
    BY DEF Clients
  <2>3. CASE r.from = "app"
    <3>1. \/ answer' = answer
          \/ answer'["app"].result = result /\ answer'["app"].nonce = m
      BY ONLY <2>1, <2>2, <2>3
    <3>2. r.op = "issue"
      BY <1>3, <2>3, HolderRunsAssumption DEF WaitsForOne, Waits, Clients
    <3> QED BY <2>3, <3>1, <3>2
  <2>4. CASE r.from # "app"
    BY ONLY <2>1, <2>2, <2>4
  <2> QED BY <2>3, <2>4
<1>6. CASE KeepsCalls \/ \E r \in requests : Begins(r) \/ Refuses(r) \/ Finishes(r, "refused")
  <2>1. answer'["app"] = answer["app"]
    BY <1>3, <1>5, <1>6 DEF KeepsCalls, Begins, Begin, Refuses, Finishes, Reply
  <2> QED BY <1>4, <2>1
<1>7. CASE DropsCalls
  BY <1>3, <1>4, <1>7 DEF DropsCalls, Clients, Cuts
<1>8. ASSUME NEW r \in requests, Finishes(r, "ok")
      PROVE  Fine'
  <2>1. r.op # "issue"
    BY <1>8 DEF Finishes, OneBegun, LockFree
  <2> QED BY <1>4, <1>5, <1>8, <2>1 DEF Finishes, Reply
<1>9. ASSUME NEW r \in requests, AnswersIssue(r)
      PROVE  Fine'
  <2>1. PICK m \in Exact \ snapshots : snapshots' = snapshots \cup {m} /\ ReplyWith(r, "ok", m)
    BY <1>9 DEF AnswersIssue
  <2>2. ASSUME answer'["app"].nonce = m
        PROVE  Fine'
    BY <2>1, <2>2
  <2> HIDE DEF Fine
  <2>3. answer'["app"] = answer["app"] \/ answer'["app"].nonce = m
    BY <1>5, <2>1
  <2> QED BY <1>4, <2>2, <2>3
<1> QED BY <1>6, <1>7, <1>8, <1>9 DEF CallStep

-----------------------------------------------------------------------------
(* The invariant, under the steps of the daemon.                           *)

LEMMA TypesDaemon ==
    ASSUME HolderInv, DaemonStep
    PROVE  Types'
<1>0. Types /\ StartOfHeld
  BY DEF HolderInv
<1>1. RecordStep /\ CallStep /\ UNCHANGED <<phase, starts, runpc, cur>>
  BY DaemonRecords, DaemonCalls, DaemonIsAlone DEF runVars
<1>2. /\ auth' \in Auths /\ spent' \in [Nonces -> Auths \cup {None}] /\ snapshots' \subseteq Nonces
      /\ shown' \in [Exact -> Auths \cup {None}]
  <2>1. CASE \E m \in Nonces : Issues(m)
    BY <1>0, <2>1 DEF Types, Issues
  <2>4. CASE \E m \in Nonces : Snaps(m) \/ WritesLease(m) \/ Starts(m)
    BY <1>0, <2>4 DEF Types, Snaps, WritesLease, Starts
  <2>2. CASE \E m \in Nonces, record \in Auths : Spends(m, record) \/ WritesSpent(m, record)
    <3>1. auth' = auth /\ shown' = shown /\ snapshots' \subseteq Nonces
      BY <1>0, <2>2 DEF Types, Spends, WritesSpent
    <3>2. \/ spent' = spent
          \/ \E m \in Nonces, record \in Auths : spent' = [spent EXCEPT ![m] = record]
      BY <2>2 DEF Spends, WritesSpent
    <3>3. spent \in [Nonces -> Auths \cup {None}]
      BY <1>0 DEF Types
    <3>4. spent' \in [Nonces -> Auths \cup {None}]
      BY ONLY <3>2, <3>3
    <3> QED BY <1>0, <3>1, <3>4 DEF Types
  <2>3. CASE UNCHANGED Records \/ Launches \/ LeavesLease \/ Cancels \/ Administers
             \/ PayloadLeaves \/ Forgets
    BY <1>0, <2>3 DEF Types, Records, Launches, LeavesLease, Cancels, Administers, PayloadLeaves, Forgets
  <2> QED BY <1>1, <2>1, <2>2, <2>3, <2>4 DEF RecordStep
<1> DEFINE Leases == [held : BOOLEAN, token : Nonces \cup {None}, child : Children]
<1>6. ASSUME NEW n \in Nonces \cup {None}
      PROVE  /\ Lease(TRUE, n, "uncertain") \in Leases /\ Lease(TRUE, n, "running") \in Leases
             /\ Lease(TRUE, n, "supervision-uncertain") \in Leases
             /\ Lease(FALSE, n, "spawn-failed") \in Leases /\ Lease(FALSE, n, "exited") \in Leases
             /\ Lease(FALSE, n, "cancelled") \in Leases
  BY DEF Lease, Children
<1>3. lease' \in Leases
  <2> HIDE DEF Leases
  <2>0. lease \in Leases /\ lease.token \in Nonces \cup {None}
    BY <1>0 DEF Types, Leases
  <2>1. CASE \E m \in Nonces : Snaps(m) \/ Issues(m) \/ WritesLease(m) \/ Starts(m)
    BY <1>6, <2>0, <2>1 DEF Snaps, Issues, WritesLease, Starts
  <2>2. CASE \E m \in Nonces, record \in Auths : Spends(m, record) \/ WritesSpent(m, record)
    BY <2>0, <2>2 DEF Spends, WritesSpent
  <2>3. CASE LeavesLease
    <3>1. starting.nonce \in Nonces
      BY <1>0, <2>3 DEF Types, LeavesLease
    <3> QED BY <1>6, <2>3, <3>1 DEF LeavesLease
  <2>4. CASE UNCHANGED Records \/ Launches \/ Cancels \/ Administers \/ PayloadLeaves \/ Forgets
    BY <1>6, <2>0, <2>4 DEF Records, Launches, Cancels, Administers, PayloadLeaves, Forgets
  <2> QED BY <1>1, <2>1, <2>2, <2>3, <2>4 DEF RecordStep
<1> DEFINE Startings == [nonce : Nonces, released : BOOLEAN] \cup {None}
<1>7. starting' \in Startings
  <2>0. \A n \in Nonces, released \in BOOLEAN : [nonce |-> n, released |-> released] \in Startings
    OBVIOUS
  <2>1. starting # None => starting \in [nonce : Nonces, released : BOOLEAN]
    BY <1>0 DEF Types
  <2>2. CASE Launches
    <3>1. starting' = [nonce |-> starting.nonce, released |-> TRUE] /\ starting.nonce \in Nonces
      BY <2>1, <2>2 DEF Launches
    <3> QED BY <2>0, <3>1
  <2>3. starting \in Startings /\ None \in Startings
    BY <1>0 DEF Types
  <2> HIDE DEF Startings
  <2>4. CASE \E m \in Nonces : Snaps(m) \/ Issues(m) \/ WritesLease(m) \/ Starts(m)
    BY <2>0, <2>3, <2>4 DEF Snaps, Issues, WritesLease, Starts
  <2>5. CASE \E m \in Nonces, record \in Auths : Spends(m, record) \/ WritesSpent(m, record)
    BY <2>3, <2>5 DEF Spends, WritesSpent
  <2>6. CASE UNCHANGED Records \/ LeavesLease \/ Cancels \/ Administers \/ PayloadLeaves \/ Forgets
    BY <2>3, <2>6 DEF Records, LeavesLease, Cancels, Administers, PayloadLeaves, Forgets
  <2> QED BY <1>1, <2>2, <2>4, <2>5, <2>6 DEF RecordStep
<1>8. payloads' \subseteq Nonces /\ launches' \in [Nonces -> Nat]
  <2>1. CASE Launches
    <3>1. starting.nonce \in Nonces
      BY <1>0, <2>1 DEF Types, Launches
    <3> QED BY <1>0, <2>1, <3>1 DEF Types, Launches
  <2>2. CASE ~Launches
    <3>1. payloads' \subseteq payloads /\ launches' = launches
      BY <1>1, <2>2 DEF RecordStep, Records, Snaps, Issues, WritesLease, Starts, Spends, WritesSpent,
         LeavesLease, Cancels, Administers, PayloadLeaves, Forgets
    <3> QED BY <1>0, <3>1 DEF Types
  <2> QED BY <2>1, <2>2
<1>4. DOMAIN answer' = Clients
  BY <1>0, <1>1 DEF Types, CallStep, KeepsCalls, DropsCalls, Begins, Begin, Refuses, AnswersIssue, Finishes,
     Reply, ReplyWith, Answers
<1>5. keys' \in Nat
  <2>1. CASE Administer
    BY <1>0, <2>1 DEF Administer, Types
  <2>2. CASE ~Administer
    BY <1>0, <2>2 DEF Types, DaemonStep, Daemon, Consume, IssueExact, AuthorizeExact, Write, Execute, Launch,
       NoSpawn, Ends, Doubt, Leaves, Cancel, PayloadEnds, DaemonDies, holderVars
  <2> QED BY <2>1, <2>2
<1> QED BY <1>0, <1>1, <1>2, <1>3, <1>4, <1>5, <1>7, <1>8 DEF Types

LEMMA HolderInvDaemon ==
    ASSUME HolderInv, DaemonStep
    PROVE  HolderInv'
<1>1. RecordStep /\ CallStep
  BY DaemonRecords, DaemonCalls
<1>2. UNCHANGED <<phase, starts, cur, runpc, apppc, at, retained, uncertain, finished, sig, asked, signer>>
  BY DaemonIsAlone DEF runVars
<1>3. RecordInv
  BY DEF HolderInv, RecordInv
<1>4. /\ Types' /\ IssuedInOrder' /\ WritesInOrder' /\ SpentAsShown' /\ LeaseOfSpent'
      /\ StartOfHeld' /\ LaunchedOnce'
  BY <1>1, <1>2, <1>3, TypesDaemon, IssuedInOrderNext, WritesInOrderNext, SpentAsShownNext, LeaseOfSpentNext,
     StartOfHeldNext, LaunchedOnceNext
<1>5. RequestsCarry' /\ WaitsForOne' /\ OneBegun'
  BY <1>1, <1>2, RequestsCarryDaemon, WaitsForOneDaemon, OneBegunDaemon
<1>6. RunAt' /\ AppAt' /\ NotAskedAgain'
  BY <1>1, <1>2, RunAtDaemon, AppAtDaemon
<1>7. StartedOnce' /\ CompletedEnded'
  <2>1. \A n \in Runs : (Settled(n) => Settled(n)') /\ (Ended(n) => Ended(n)')
    BY <1>1, <1>3, SettledStays, EndedStays DEF Nonces
  <2> QED BY <1>2, <2>1 DEF HolderInv, StartedOnce, CompletedEnded
<1>8. KeySigned'
  <2>1. apppc \in AtOne => at \in Exact \cap snapshots
    BY DEF HolderInv, AppAt, Issued
  <2>2. apppc \in AtOne => shown'[at] = shown[at]
    BY <1>1, <1>3, <2>1, ShownStays
  <2> QED BY <1>2, <2>2 DEF HolderInv, KeySigned, AtOne
<1> QED BY <1>4, <1>5, <1>6, <1>7, <1>8 DEF HolderInv

-----------------------------------------------------------------------------
(* The steps of the clients leave the records alone.                       *)

LEMMA QuietRecords ==
    ASSUME RecordInv, Quiet
    PROVE  /\ IssuedInOrder' /\ WritesInOrder' /\ SpentAsShown' /\ LeaseOfSpent' /\ StartOfHeld'
           /\ LaunchedOnce' /\ \A n : Settled(n)' = Settled(n) /\ Ended(n)' = Ended(n)
<1> USE DEF Quiet, holderVars, worldVars
<1>1. UNCHANGED Spent
  BY DEF Spent
<1>2. \A n : Settled(n)' = Settled(n)
  BY <1>1 DEF Settled
<1>3. \A n : Ended(n)' = Ended(n)
  BY <1>2 DEF Ended
<1>4. IssuedInOrder' /\ SpentAsShown'
  BY <1>1 DEF RecordInv, IssuedInOrder, SpentAsShown, AsShown
<1>5. WritesInOrder'
  BY <1>1 DEF RecordInv, WritesInOrder, AsShown
<1>6. StartOfHeld'
  BY DEF RecordInv, StartOfHeld
<1>7. LeaseOfSpent' /\ LaunchedOnce'
  BY <1>2 DEF RecordInv, LeaseOfSpent, LaunchedOnce
<1> QED BY <1>2, <1>3, <1>4, <1>5, <1>6, <1>7

\* At these places a client waits for nothing.
LEMMA NotWaiting ==
    ASSUME HolderInv
    PROVE  /\ runpc \in {"idle", "check", "state", "call"} => answer["run"] = None /\ Awaited("run") = {}
           /\ apppc \in {"idle", "publish", "live", "collect", "execute"} =>
                  answer["app"] = None /\ Awaited("app") = {}
           /\ \A c \in Clients : answer[c] # None => Awaited(c) = {}
<1> USE HolderRunsAssumption DEF HolderInv, Awaited, WaitsForOne, Waits, Clients
<1>1. \A q \in requests : q.op \in Ops
  BY DEF RequestsCarry, RequestOK
<1>2. \A q \in Awaited("run") : q.op = runpc
  OBVIOUS
<1>3. \A q \in Awaited("app") : q.op = (IF apppc = "executing" THEN "execute" ELSE apppc)
                                /\ apppc # "execute"
  OBVIOUS
<1>4. ASSUME NEW c \in Clients, answer[c] # None
      PROVE  Awaited(c) = {}
  BY <1>4
<1> QED BY <1>1, <1>2, <1>3, <1>4 DEF Ops

Stays(c) == IF c = "run" THEN UNCHANGED <<runpc, cur>> ELSE UNCHANGED apppc
CallInv == RequestsCarry /\ WaitsForOne /\ OneBegun

LEMMA QuietRequest ==
    ASSUME Quiet, NEW q, RequestOK(q)
    PROVE  RequestOK(q)' /\ RequestOK([q EXCEPT !.from = None])'
BY DEF Quiet, holderVars, RequestOK, AsShown

\* A client that waits for nothing moves, and calls nobody.
LEMMA MovesAlone ==
    ASSUME HolderInv, Quiet, NEW c \in Clients, Awaited(c) = {},
           \/ answer[c] = None /\ UNCHANGED answer
           \/ answer' = [answer EXCEPT ![c] = None],
           UNCHANGED requests, \A d \in Clients \ {c} : Stays(d)
    PROVE  CallInv'
<1> USE HolderRunsAssumption DEF HolderInv, Types
<1>1. RequestsCarry'
  BY QuietRequest DEF RequestsCarry
<1>2. OneBegun'
  BY DEF OneBegun, Quiet, holderVars
<1>3. \A q \in requests : q.from # c
  BY DEF Awaited
<1>4. answer'[c] = None /\ \A d \in Clients \ {c} : answer'[d] = answer[d]
  OBVIOUS
<1>5. WaitsForOne'
  <2>1. \A q \in requests : q.from \in Clients \cup {None}
    BY DEF RequestsCarry, RequestOK
  <2> QED BY <1>3, <1>4, <2>1 DEF WaitsForOne, Stays, Waits, Clients
<1> QED BY <1>1, <1>2, <1>5 DEF CallInv

LEMMA CallKeeps ==
    ASSUME HolderInv, Quiet, NEW c \in Clients, NEW op, NEW n, NEW signed, Call(c, op, n, signed),
           answer[c] = None, Awaited(c) = {}, RequestOK(Request(c, op, n, signed)),
           runpc' \in RunPlaces, apppc' \in AppPlaces, Waits(c)' = op, c = "run" => n = cur', c = "app" => apppc' # "execute",
           \A d \in Clients \ {c} : Stays(d)
    PROVE  CallInv'
<1> USE HolderRunsAssumption DEF HolderInv, Types
<1> DEFINE q == Request(c, op, n, signed)
<1>1. q.from = c /\ q.op = op /\ q.nonce = n /\ ~q.begun /\ op \in Ops
  BY DEF Request, RequestOK
<1> HIDE DEF q
<1>2. \A p \in requests : p.from # c /\ p.from \in Clients \cup {None}
  BY DEF Awaited, RequestsCarry, RequestOK
<1>3. CASE requests' = requests \cup {q} /\ UNCHANGED answer
  <2>1. RequestsCarry'
    BY <1>3, QuietRequest DEF RequestsCarry, q
  <2>2. OneBegun'
    BY <1>1, <1>3 DEF OneBegun, Quiet, holderVars
  <2>3. WaitsForOne'
    <3>1. \A p \in requests' : p.from # None =>
              answer'[p.from] = None /\ Waits(p.from)' = p.op
              /\ (p.from = "run" => p.nonce = cur') /\ (p.from = "app" => apppc' # "execute")
      BY <1>1, <1>2, <1>3 DEF WaitsForOne, Stays, Waits, Clients
    <3>2. \A p, r \in requests' : p.from = r.from /\ p.from # None => p = r
      BY <1>1, <1>2, <1>3 DEF WaitsForOne
    <3>3. (answer["run"] # None => runpc \in {"consume", "execute"})'
      BY <1>3 DEF WaitsForOne, Stays, Clients
    <3>4. (answer["app"] # None => apppc \in {"issue", "authorize", "executing"})'
      BY <1>3 DEF WaitsForOne, Stays, Clients
    <3> QED BY <3>1, <3>2, <3>3, <3>4 DEF WaitsForOne
  <2> QED BY <2>1, <2>2, <2>3 DEF CallInv
<1>4. CASE answer' = Answers(c, "refused", n) /\ UNCHANGED requests
  <2>1. RequestsCarry'
    BY <1>4, QuietRequest DEF RequestsCarry
  <2>2. OneBegun'
    BY <1>4 DEF OneBegun, Quiet, holderVars
  <2>3. \A d \in Clients \ {c} : answer'[d] = answer[d]
    BY <1>4 DEF Answers
  <2>4. c = "run" => runpc' \in {"consume", "execute"}
    BY <1>1 DEF Waits, Ops, RunPlaces, AppPlaces
  <2>5. c = "app" => apppc' \in {"issue", "authorize", "executing"}
    BY <1>1 DEF Waits, Ops, RunPlaces, AppPlaces
  <2>6. WaitsForOne'
    BY <1>2, <1>4, <2>3, <2>4, <2>5 DEF WaitsForOne, Stays, Waits, Clients
  <2> QED BY <2>1, <2>2, <2>6 DEF CallInv
<1> QED BY <1>3, <1>4 DEF Call, q

\* A client is gone, or gives a call up: its requests are nobody's.
LEMMA OrphansKeep ==
    ASSUME HolderInv, Quiet, NEW c \in Clients, requests' = Orphaned(c),
           \A d \in Clients \ {c} : Stays(d) /\ answer'[d] = answer[d],
           answer'[c] = None \/ (Stays(c) /\ Awaited(c) # {})
    PROVE  CallInv'
<1> USE HolderRunsAssumption DEF HolderInv, Types
<1> DEFINE Nobodys(q) == [q EXCEPT !.from = None]
<1>1. \A q \in requests : RequestOK(q) /\ Nobodys(q).from = None /\ Nobodys(q).begun = q.begun
                          /\ Nobodys(q).op = q.op /\ Nobodys(q).nonce = q.nonce
  BY DEF RequestsCarry, RequestOK
<1>2. \A q \in requests' : \/ q \in requests /\ q.from # c
                           \/ \E r \in requests : q = Nobodys(r) /\ r.from = c
  BY DEF Orphaned, Awaited
<1>3. RequestsCarry'
  <2>1. \A q \in requests : RequestOK(q)' /\ RequestOK(Nobodys(q))'
    BY <1>1, QuietRequest
  <2> HIDE DEF Nobodys
  <2> QED BY <1>2, <2>1 DEF RequestsCarry
<1> HIDE DEF Nobodys
<1>4. OneBegun'
  <2>1. \A p, q \in requests' : p.begun /\ q.begun => p = q
    <3>1. \A p, q \in requests : p.begun /\ q.begun => p = q
      BY DEF OneBegun
    <3>2. \A q \in requests : Nobodys(q).begun = q.begun
      BY <1>1
    <3> QED BY ONLY <1>2, <3>1, <3>2
  <2>2. \A q \in requests' : q.begun => \E r \in requests : r.begun /\ r.op = q.op /\ r.nonce = q.nonce
    BY <1>1, <1>2
  <2> QED BY <2>1, <2>2 DEF OneBegun, Quiet, holderVars
<1>5. \A q \in requests' : q.from # None => q \in requests /\ q.from # c
  BY <1>1, <1>2
<1>6. WaitsForOne'
  <2>1. \A q \in requests : q.from \in Clients \cup {None}
    BY <1>1 DEF RequestOK
  <2>2. Awaited(c) # {} => \/ c = "run" /\ runpc \in {"consume", "execute"}
                           \/ c = "app" /\ apppc \in {"issue", "authorize", "executing"}
    BY NotWaiting DEF Clients, RunPlaces, AppAt, AppPlaces
  <2> QED BY <1>5, <2>1, <2>2 DEF WaitsForOne, Stays, Waits, Clients
<1> QED BY <1>3, <1>4, <1>6 DEF CallInv

RunPart ==
    /\ runpc \in RunPlaces /\ cur \in Runs \cup {None}
    /\ phase \in [Runs -> Phases] /\ starts \in [Runs -> Nat] /\ DOMAIN answer = Clients
    /\ StartedOnce /\ CompletedEnded /\ RunAt
AppPart == AppAt /\ NotAskedAgain

\* What the run command's part needs of the others.
LEMMA RunPartKept ==
    ASSUME HolderInv, Quiet, UNCHANGED runVars, answer'["run"] = answer["run"], DOMAIN answer' = Clients
    PROVE  RunPart'
<1>1. \A n : Settled(n)' = Settled(n) /\ Ended(n)' = Ended(n)
  BY QuietRecords DEF HolderInv, RecordInv
<1> QED
  BY <1>1 DEF HolderInv, Types, RunPart, StartedOnce, CompletedEnded, RunAt, runVars

LEMMA AppPartKept ==
    ASSUME HolderInv, Quiet, UNCHANGED <<apppc, at, retained, uncertain, finished, asked>>,
           answer'["app"] = answer["app"]
    PROVE  AppPart'
BY DEF HolderInv, AppPart, AppAt, NotAskedAgain, Issued, Quiet, holderVars

LEMMA RunSide ==
    ASSUME HolderInv, RunCommand, UNCHANGED signer
    PROVE  CallInv' /\ RunPart' /\ AppPart'
<1>0. Quiet
  BY ClientsAreQuiet DEF ClientStep
<1>a. \A n : Settled(n)' = Settled(n) /\ Ended(n)' = Ended(n)
  BY <1>0, QuietRecords DEF HolderInv, RecordInv
<1>b. /\ runpc \in RunPlaces /\ cur \in Runs \cup {None} /\ apppc \in AppPlaces
      /\ phase \in [Runs -> Phases] /\ starts \in [Runs -> Nat] /\ DOMAIN answer = Clients
      /\ StartedOnce /\ CompletedEnded /\ RunAt
  BY DEF HolderInv, Types, AppAt
<1>c. "run" \in Clients /\ "app" \in Clients
  BY DEF Clients
<1>1. ASSUME NEW r \in Runs, RunConsume(r)
      PROVE  CallInv' /\ RunPart' /\ AppPart'
  <2>1. RequestOK(Request("run", "consume", r, auth))
    BY <1>c, HolderRunsAssumption DEF HolderInv, Types, RequestOK, Request, Ops, Nonces, Exact
  <2>2. answer["run"] = None /\ Awaited("run") = {}
    BY <1>1, NotWaiting DEF RunConsume
  <2>3. /\ Call("run", "consume", r, auth) /\ runpc' = "consume" /\ cur' = r
        /\ UNCHANGED <<phase, starts, apppc, at, retained, uncertain, finished, asked>>
    BY <1>1 DEF RunConsume, appVars
  <2>4. CallInv'
    <3>1. Waits("run")' = "consume" /\ \A d \in Clients \ {"run"} : Stays(d)
      BY <2>3 DEF Waits, Stays
    <3>2. runpc' \in RunPlaces /\ apppc' \in AppPlaces
      BY <1>b, <2>3 DEF RunPlaces
    <3> QED BY <1>0, <1>c, <2>1, <2>2, <2>3, <3>1, <3>2, CallKeeps
  <2>5. /\ answer'["app"] = answer["app"] /\ DOMAIN answer' = Clients
        /\ answer'["run"] = None \/ answer'["run"].result = "refused"
    BY <1>b, <1>c, <2>2, <2>3 DEF Call, Answers, Clients
  <2>6. RunPart'
    BY <1>a, <1>b, <2>3, <2>5 DEF RunPart, StartedOnce, CompletedEnded, RunAt, RunPlaces
  <2> QED BY <1>0, <2>3, <2>4, <2>5, <2>6, AppPartKept
<1>2. CASE RunExecute
  <2>0. cur \in Runs
    BY <1>b, <1>2 DEF RunExecute, Goes, RunAt
  <2>1. RequestOK(Request("run", "execute", cur, auth))
    BY <1>c, <2>0, HolderRunsAssumption DEF HolderInv, Types, RequestOK, Request, Ops, Nonces, Exact
  <2>2. answer["run"] = None /\ Awaited("run") = {}
    BY <1>2, NotWaiting DEF RunExecute, Goes
  <2>3. /\ Call("run", "execute", cur, auth) /\ runpc' = "execute" /\ cur' = cur
        /\ UNCHANGED <<phase, starts, apppc, at, retained, uncertain, finished, asked>>
    BY <1>2 DEF RunExecute, Goes, appVars
  <2>4. CallInv'
    <3>1. Waits("run")' = "execute" /\ \A d \in Clients \ {"run"} : Stays(d)
      BY <2>3 DEF Waits, Stays
    <3>2. runpc' \in RunPlaces /\ apppc' \in AppPlaces
      BY <1>b, <2>3 DEF RunPlaces
    <3> QED BY <1>0, <1>c, <2>1, <2>2, <2>3, <3>1, <3>2, CallKeeps
  <2>5. /\ answer'["app"] = answer["app"] /\ DOMAIN answer' = Clients
        /\ answer'["run"] = None \/ answer'["run"].result = "refused"
    BY <1>b, <1>c, <2>2, <2>3 DEF Call, Answers, Clients
  <2>6. RunPart'
    BY <1>a, <1>b, <2>0, <2>3, <2>5 DEF RunPart, StartedOnce, CompletedEnded, RunAt, RunPlaces
  <2> QED BY <1>0, <2>3, <2>4, <2>5, <2>6, AppPartKept
<1>3. CASE RunConsumed \/ RunExecuted
  <2>1. /\ answer["run"] # None /\ answer' = [answer EXCEPT !["run"] = None] /\ requests' = requests
        /\ UNCHANGED <<apppc, at, retained, uncertain, finished, asked>>
    BY <1>3 DEF RunConsumed, RunExecuted, Answered, Took, appVars
  <2>2. Awaited("run") = {} /\ \A d \in Clients \ {"run"} : Stays(d)
    BY <1>c, <2>1, NotWaiting DEF Stays
  <2>3. CallInv'
    BY <1>0, <1>c, <2>1, <2>2, MovesAlone
  <2>4. answer'["app"] = answer["app"] /\ DOMAIN answer' = Clients /\ answer'["run"] = None
    BY <1>b, <1>c, <2>1
  <2>5. ASSUME RunConsumed
        PROVE  RunPart'
    <3>1. UNCHANGED <<phase, starts>>
      BY <2>5 DEF RunConsumed
    <3>2. CASE answer["run"].result = "ok"
      <4>1. runpc = "consume" /\ runpc' = "check" /\ cur' = cur
        BY <2>5, <3>2 DEF RunConsumed, Consumed, Goes
      <4> QED BY <1>a, <1>b, <2>1, <2>4, <3>1, <3>2, <4>1
              DEF RunPart, StartedOnce, CompletedEnded, RunAt, RunPlaces
    <3>3. CASE answer["run"].result # "ok"
      <4>1. runpc' = "idle" /\ cur' = None
        BY <2>5, <3>3 DEF RunConsumed, Consumed, Quits
      <4> QED BY <1>a, <1>b, <2>4, <3>1, <4>1
              DEF RunPart, StartedOnce, CompletedEnded, RunAt, RunPlaces
    <3> QED BY <3>2, <3>3
  <2>6. ASSUME RunExecuted
        PROVE  RunPart'
    <3>1. runpc = "execute" /\ runpc' = "idle" /\ cur' = None /\ cur \in Runs /\ starts' = starts
      BY <1>b, <2>6 DEF RunExecuted, Quits, RunAt
    <3>2. \/ phase' = phase \/ phase' = [phase EXCEPT ![cur] = "failed"]
          \/ phase' = [phase EXCEPT ![cur] = "completed"] /\ answer["run"].result = "ok"
      BY <2>6 DEF RunExecuted, SetPhase, Succeeds
    <3>3. answer["run"].result = "ok" => Ended(cur)
      BY <1>b, <2>1, <3>1 DEF RunAt
    <3> QED BY <1>a, <1>b, <2>4, <3>1, <3>2, <3>3
            DEF RunPart, StartedOnce, CompletedEnded, RunAt, RunPlaces, Phases
  <2> QED BY <1>0, <1>3, <2>1, <2>3, <2>4, <2>5, <2>6, AppPartKept
<1>4. CASE RunRefused \/ RunStart \/ RunState
  <2>1. /\ runpc \in {"check", "state"} /\ UNCHANGED <<requests, answer>>
        /\ UNCHANGED <<apppc, at, retained, uncertain, finished, asked>>
    BY <1>4 DEF RunRefused, RunStart, RunState, Goes, Quits, appVars, callVars
  <2>2. answer["run"] = None /\ Awaited("run") = {} /\ \A d \in Clients \ {"run"} : Stays(d)
    BY <2>1, NotWaiting DEF Stays
  <2>3. CallInv'
    BY <1>0, <1>c, <2>1, <2>2, MovesAlone
  <2>4. ASSUME RunRefused
        PROVE  RunPart'
    BY <1>a, <1>b, <2>1, <2>2, <2>4
    DEF RunRefused, Quits, RunPart, StartedOnce, CompletedEnded, RunAt, RunPlaces
  <2>5. ASSUME RunStart
        PROVE  RunPart'
    <3>1. /\ runpc = "check" /\ runpc' = "state" /\ cur' = cur /\ UNCHANGED phase
          /\ starts' = [starts EXCEPT ![cur] = @ + 1]
      BY <2>5 DEF RunStart, Goes
    <3>2. cur \in Runs /\ Settled(cur) /\ starts[cur] = 0
      BY <1>b, <3>1 DEF RunAt
    <3>3. StartedOnce'
      BY <1>a, <1>b, <3>1, <3>2 DEF StartedOnce
    <3> QED BY <1>a, <1>b, <2>1, <2>2, <3>1, <3>2, <3>3 DEF RunPart, CompletedEnded, RunAt, RunPlaces
  <2>6. ASSUME RunState
        PROVE  RunPart'
    <3>1. /\ runpc = "state" /\ runpc' = "call" /\ cur' = cur /\ UNCHANGED starts
          /\ phase' = [phase EXCEPT ![cur] = "running"]
      BY <2>6 DEF RunState, Goes, SetPhase
    <3>2. CompletedEnded' /\ phase' \in [Runs -> Phases]
      BY <1>a, <1>b, <3>1 DEF CompletedEnded, Phases
    <3> QED BY <1>a, <1>b, <2>1, <2>2, <3>1, <3>2 DEF RunPart, StartedOnce, RunAt, RunPlaces
  <2> QED BY <1>0, <1>4, <2>1, <2>3, <2>4, <2>5, <2>6, AppPartKept
<1> QED BY <1>1, <1>2, <1>3, <1>4 DEF RunCommand

\* Nothing of a call moves, nor any place.
LEMMA CallsKept ==
    ASSUME HolderInv, Quiet, UNCHANGED <<requests, answer, runpc, cur, apppc>>
    PROVE  CallInv'
BY QuietRequest
DEF HolderInv, CallInv, RequestsCarry, WaitsForOne, OneBegun, Waits, Quiet, holderVars

LEMMA AppSide ==
    ASSUME HolderInv, Coordinator, UNCHANGED signer
    PROVE  CallInv' /\ RunPart' /\ AppPart'
<1>0. Quiet /\ UNCHANGED runVars /\ UNCHANGED <<snapshots, shown>>
  <2>1. Quiet
    BY ClientsAreQuiet DEF ClientStep
  <2>2. UNCHANGED runVars
    BY DEF Coordinator, Invalidate, Prepare, Prepared, Publish, Continue, Throw, Sign,
       Authorize, Authorized, AppExecute, Executed, AppOnly
  <2> QED BY <2>1, <2>2 DEF Quiet, holderVars
<1>b. /\ AppAt /\ NotAskedAgain /\ DOMAIN answer = Clients /\ runpc \in RunPlaces /\ auth \in Auths
      /\ keys \in Nat
  BY DEF HolderInv, Types
<1>c. "run" \in Clients /\ "app" \in Clients /\ \A d \in Clients \ {"app"} : Stays(d)
  BY <1>0 DEF Clients, Stays, runVars
<1>d. None \notin Exact
  BY HolderRunsAssumption DEF Exact
<1>1. CASE Invalidate
  <2>1. UNCHANGED <<requests, answer, apppc, at, uncertain, finished, asked>> /\ retained' = None
    BY <1>1 DEF Invalidate, callVars
  <2>2. AppPart'
    BY <1>0, <1>b, <1>d, <2>1 DEF AppPart, AppAt, NotAskedAgain, Issued
  <2> QED BY <1>0, <1>b, <2>1, <2>2, CallsKept, RunPartKept DEF runVars
<1>2. CASE Publish \/ Continue \/ Throw \/ Sign
  <2>1. /\ apppc \in {"idle", "publish", "live", "collect"} /\ UNCHANGED <<requests, answer>>
    BY <1>2 DEF Publish, Continue, Throw, Sign, Returns, Steps, callVars
  <2>2. answer["app"] = None /\ Awaited("app") = {}
    BY <2>1, NotWaiting
  <2>3. CallInv'
    BY <1>0, <1>c, <2>1, <2>2, MovesAlone
  <2>4. ASSUME Publish PROVE AppPart'
    <3>1. /\ apppc = "publish" /\ apppc' = "idle" /\ retained' \in {None, retained}
          /\ UNCHANGED <<uncertain, finished, asked>>
      BY <2>4 DEF Publish, Returns
    <3> QED BY <1>0, <1>b, <1>d, <3>1, <2>1, <2>2
            DEF AppPart, AppAt, NotAskedAgain, Issued, AtOne, AppPlaces
  <2>5. ASSUME Continue PROVE AppPart'
    <3>1. /\ apppc = "idle" /\ apppc' = "live" /\ at' = retained /\ retained # None /\ Unused(retained)
          /\ UNCHANGED <<retained, uncertain, finished, asked>>
      BY <2>5 DEF Continue
    <3> QED BY <1>0, <1>b, <1>d, <3>1, <2>1, <2>2
            DEF AppPart, AppAt, NotAskedAgain, Issued, AtOne, AppPlaces, Unused
  <2>6. ASSUME Throw PROVE AppPart'
    <3>1. /\ apppc \in {"live", "collect"} /\ apppc' = "idle"
          /\ UNCHANGED <<retained, uncertain, finished, asked>>
      BY <2>6 DEF Throw, Returns
    <3> QED BY <1>0, <1>b, <1>d, <3>1, <2>1, <2>2
            DEF AppPart, AppAt, NotAskedAgain, Issued, AtOne, AppPlaces
  <2>7. ASSUME Sign PROVE AppPart'
    <3>1. /\ apppc = "live" /\ apppc' = "collect"
          /\ UNCHANGED <<at, retained, uncertain, finished, asked>>
      BY <2>7 DEF Sign, Steps
    <3> QED BY <1>0, <1>b, <1>d, <3>1, <2>1, <2>2
            DEF AppPart, AppAt, NotAskedAgain, Issued, AtOne, AppPlaces
  <2> QED BY <1>0, <1>2, <1>b, <2>1, <2>3, <2>4, <2>5, <2>6, <2>7, RunPartKept
<1>3. ASSUME NEW op, NEW n, NEW signed, Call("app", op, n, signed),
             RequestOK(Request("app", op, n, signed)),
             apppc \in {"idle", "publish", "live", "collect", "execute"},
             apppc' \in AppPlaces, apppc' # "execute", Waits("app")' = op
      PROVE  /\ CallInv' /\ RunPart'
             /\ answer'["app"] = None \/ answer'["app"].result = "refused"
  <2>1. answer["app"] = None /\ Awaited("app") = {}
    BY <1>3, NotWaiting
  <2>2. runpc' \in RunPlaces
    BY <1>0, <1>b DEF runVars
  <2>3. CallInv'
    BY <1>0, <1>3, <1>c, <2>1, <2>2, CallKeeps
  <2>4. /\ answer'["run"] = answer["run"] /\ DOMAIN answer' = Clients
        /\ answer'["app"] = None \/ answer'["app"].result = "refused"
    BY <1>3, <1>b, <1>c, <2>1 DEF Call, Answers
  <2> QED BY <1>0, <2>3, <2>4, RunPartKept
<1>4. CASE Prepare
  <2>1. /\ Call("app", "issue", None, auth) /\ apppc = "idle" /\ apppc' = "issue"
        /\ UNCHANGED <<at, retained, uncertain, finished, asked>>
    BY <1>4 DEF Prepare, Steps
  <2>2. RequestOK(Request("app", "issue", None, auth))
    BY <1>b, <1>c, <1>d DEF RequestOK, Request, Ops
  <2>3. CallInv' /\ RunPart' /\ (answer'["app"] = None \/ answer'["app"].result = "refused")
    BY <1>3, <2>1, <2>2 DEF Waits, AppPlaces
  <2>4. AppPart'
    BY <1>0, <1>b, <1>d, <2>1, <2>3 DEF AppPart, AppAt, NotAskedAgain, Issued, AtOne, AppPlaces
  <2> QED BY <2>3, <2>4
<1>5. CASE Authorize
  <2>1. /\ Call("app", "authorize", at, Signed(at)') /\ apppc = "collect" /\ apppc' = "authorize"
        /\ UNCHANGED <<at, retained, uncertain, finished, asked>> /\ sig' \in Signers(at)
    BY <1>5 DEF Authorize
  <2>2. Issued(at) /\ shown[at] \in Auths
    BY <1>b, <2>1 DEF AppAt, AtOne, Issued, HolderInv, IssuedInOrder
  <2>a. sig' \in Nat /\ (signer = "mac" => sig' = shown[at].dev)
    BY <1>b, <2>1, <2>2 DEF Signers, Auths
  <2>b. AsShown(Signed(at)', at)
    BY <1>0, <2>1, <2>2, <2>a DEF AsShown, Signed, Auths
  <2>3. RequestOK(Request("app", "authorize", at, Signed(at)'))
    BY <1>c, <1>d, <2>2, <2>b, HolderRunsAssumption
    DEF RequestOK, Request, Ops, Issued, Nonces, Exact, AsShown
  <2>4. CallInv' /\ RunPart' /\ (answer'["app"] = None \/ answer'["app"].result = "refused")
    BY <1>3, <2>1, <2>3 DEF Waits, AppPlaces
  <2>5. AppPart'
    BY <1>0, <1>b, <1>d, <2>1, <2>4 DEF AppPart, AppAt, NotAskedAgain, Issued, AtOne, AppPlaces
  <2> QED BY <2>4, <2>5
<1>6. CASE AppExecute
  <2>1. /\ Call("app", "execute", at, Signed(at)) /\ apppc = "execute" /\ apppc' = "executing"
        /\ UNCHANGED <<at, retained, uncertain, finished, asked>>
    BY <1>6 DEF AppExecute, Steps
  <2>2. Issued(at) /\ shown[at] \in Auths
    BY <1>b, <2>1 DEF AppAt, AtOne, Issued, HolderInv, IssuedInOrder
  <2>b. AsShown(Signed(at), at)
    BY <2>1, <2>2 DEF AsShown, Signed, Auths, HolderInv, KeySigned
  <2>3. RequestOK(Request("app", "execute", at, Signed(at)))
    BY <1>c, <1>d, <2>2, <2>b, HolderRunsAssumption
    DEF RequestOK, Request, Ops, Issued, Nonces, Exact, AsShown
  <2>4. CallInv' /\ RunPart' /\ (answer'["app"] = None \/ answer'["app"].result = "refused")
    BY <1>3, <2>1, <2>3 DEF Waits, AppPlaces
  <2>5. AppPart'
    BY <1>0, <1>b, <1>d, <2>1, <2>4 DEF AppPart, AppAt, NotAskedAgain, Issued, AtOne, AppPlaces
  <2> QED BY <2>4, <2>5
<1>7. CASE Prepared \/ Authorized \/ Executed
  <2>1. answer["app"] # None /\ answer' = [answer EXCEPT !["app"] = None] /\ requests' = requests
    BY <1>7 DEF Prepared, Authorized, Executed, Answered, Took
  <2>2. Awaited("app") = {}
    BY <1>c, <2>1, NotWaiting
  <2>3. CallInv'
    BY <1>0, <1>c, <2>1, <2>2, MovesAlone
  <2>4. answer'["run"] = answer["run"] /\ DOMAIN answer' = Clients /\ answer'["app"] = None
    BY <1>b, <1>c, <2>1
  <2>5. ASSUME Prepared PROVE AppPart'
    <3>1. /\ apppc = "issue" /\ UNCHANGED <<uncertain, finished, asked>>
          /\ \/ /\ apppc' = "publish" /\ answer["app"].result = "ok" /\ retained' = answer["app"].nonce
             \/ apppc' = "idle" /\ retained' = retained
      BY <2>5 DEF Prepared, Steps, Returns
    <3> QED BY <1>0, <1>b, <1>d, <2>1, <2>4, <3>1
            DEF AppPart, AppAt, NotAskedAgain, Issued, AtOne, AppPlaces
  <2>6. ASSUME Authorized PROVE AppPart'
    <3>1. /\ apppc = "authorize" /\ UNCHANGED <<retained, finished>>
          /\ \/ apppc' = "execute" /\ at' = at /\ asked' = asked \cup {at} /\ UNCHANGED uncertain
             \/ apppc' = "idle" /\ UNCHANGED asked /\ uncertain' \in {uncertain, uncertain \cup {at}}
      BY <2>6 DEF Authorized, Steps, Returns
    <3> QED BY <1>0, <1>b, <1>d, <2>4, <3>1
            DEF AppPart, AppAt, NotAskedAgain, Issued, AtOne, AppPlaces
  <2>7. ASSUME Executed PROVE AppPart'
    <3>1. /\ apppc = "executing" /\ apppc' = "idle" /\ UNCHANGED asked
          /\ \/ retained' = None
             \/ retained' = retained /\ uncertain' = uncertain \cup {at} /\ UNCHANGED finished
      BY <2>7 DEF Executed, Returns, FailedExecute
    <3> QED BY <1>0, <1>b, <1>d, <2>4, <3>1
            DEF AppPart, AppAt, NotAskedAgain, Issued, AtOne, AppPlaces
  <2> QED BY <1>0, <1>7, <2>3, <2>4, <2>5, <2>6, <2>7, RunPartKept
<1> QED BY <1>1, <1>2, <1>4, <1>5, <1>6, <1>7 DEF Coordinator

LEMMA FaultSide ==
    ASSUME HolderInv, RunDies \/ AppDies \/ \E c \in Clients : Deadline(c), UNCHANGED signer
    PROVE  CallInv' /\ RunPart' /\ AppPart'
<1>0. Quiet /\ UNCHANGED <<snapshots, shown>>
  <2>1. Quiet
    BY ClientsAreQuiet DEF ClientStep
  <2> QED BY <2>1 DEF Quiet, holderVars
<1>a. \A n : Settled(n)' = Settled(n) /\ Ended(n)' = Ended(n)
  BY <1>0, QuietRecords DEF HolderInv, RecordInv
<1>b. /\ runpc \in RunPlaces /\ cur \in Runs \cup {None} /\ AppAt /\ NotAskedAgain
      /\ phase \in [Runs -> Phases] /\ starts \in [Runs -> Nat] /\ DOMAIN answer = Clients
      /\ StartedOnce /\ CompletedEnded /\ RunAt
  BY DEF HolderInv, Types
<1>c. "run" \in Clients /\ "app" \in Clients
  BY DEF Clients
<1>d. None \notin Exact
  BY HolderRunsAssumption DEF Exact
<1>1. CASE RunDies
  <2>1. /\ requests' = Orphaned("run") /\ answer' = [answer EXCEPT !["run"] = None]
        /\ runpc' = "idle" /\ cur' = None
        /\ UNCHANGED <<phase, starts, apppc, at, retained, uncertain, finished, asked>>
    BY <1>1 DEF RunDies, Quits, Took, appVars
  <2>2. answer'["app"] = answer["app"] /\ DOMAIN answer' = Clients /\ answer'["run"] = None
    BY <1>b, <1>c, <2>1
  <2>3. \A d \in Clients \ {"run"} : Stays(d) /\ answer'[d] = answer[d]
    BY <2>1, <2>2 DEF Clients, Stays
  <2>4. CallInv'
    BY <1>0, <1>c, <2>1, <2>2, <2>3, OrphansKeep
  <2>5. RunPart'
    BY <1>a, <1>b, <2>1, <2>2 DEF RunPart, StartedOnce, CompletedEnded, RunAt, RunPlaces
  <2> QED BY <1>0, <2>1, <2>2, <2>4, <2>5, AppPartKept
<1>2. CASE AppDies
  <2>1. /\ requests' = Orphaned("app") /\ answer' = [answer EXCEPT !["app"] = None]
        /\ apppc' = "idle" /\ retained' = None /\ UNCHANGED asked
    BY <1>2 DEF AppDies, Returns, Took
  <2>2. UNCHANGED runVars
    BY <1>2 DEF AppDies, AppOnly
  <2>3. answer'["run"] = answer["run"] /\ DOMAIN answer' = Clients /\ answer'["app"] = None
    BY <1>b, <1>c, <2>1
  <2>4. \A d \in Clients \ {"app"} : Stays(d) /\ answer'[d] = answer[d]
    BY <2>2, <2>3 DEF Clients, Stays, runVars
  <2>5. CallInv'
    BY <1>0, <1>c, <2>1, <2>3, <2>4, OrphansKeep
  <2>6. AppPart'
    BY <1>0, <1>b, <1>d, <2>1, <2>3 DEF AppPart, AppAt, NotAskedAgain, Issued, AtOne, AppPlaces
  <2> QED BY <1>0, <2>2, <2>3, <2>5, <2>6, RunPartKept
<1>3. ASSUME NEW c \in Clients, Deadline(c)
      PROVE  CallInv' /\ RunPart' /\ AppPart'
  <2>1. /\ requests' = Orphaned(c) /\ Awaited(c) # {} /\ UNCHANGED runVars
        /\ answer' = [answer EXCEPT ![c] = [result |-> "lost", nonce |-> None]]
        /\ UNCHANGED <<runpc, cur, phase, starts, apppc, at, retained, uncertain, finished, asked>>
    BY <1>3 DEF Deadline, Answers, runVars, appVars
  <2>2. /\ \A d \in Clients : Stays(d) /\ (d # c => answer'[d] = answer[d])
        /\ DOMAIN answer' = Clients /\ answer'[c].result = "lost"
    BY <1>b, <2>1 DEF Stays
  <2>3. CallInv'
    BY <1>0, <2>1, <2>2, OrphansKeep
  <2>4. RunPart'
    BY <1>a, <1>b, <1>c, <2>1, <2>2 DEF RunPart, StartedOnce, CompletedEnded, RunAt, Clients
  <2>5. AppPart'
    BY <1>0, <1>b, <1>c, <2>1, <2>2 DEF AppPart, AppAt, NotAskedAgain, Issued, Clients
  <2> QED BY <2>3, <2>4, <2>5
<1> QED BY <1>1, <1>2, <1>3

-----------------------------------------------------------------------------
(* The invariant holds.                                                    *)

LEMMA KeySignedKept ==
    ASSUME HolderInv, ClientStep
    PROVE  KeySigned'
<1>1. UNCHANGED <<shown, signer, keys>> /\ keys \in Nat
  BY ClientsAreQuiet DEF Quiet, holderVars, HolderInv, Types
<1>2. CASE UNCHANGED <<apppc, at, sig>>
  BY <1>1, <1>2 DEF HolderInv, KeySigned
<1>3. CASE apppc' \notin {"authorize", "execute", "executing"}
  BY <1>3 DEF KeySigned
<1>4. CASE Authorize
  <2>1. apppc = "collect" /\ UNCHANGED at /\ sig' \in Signers(at)
    BY <1>4 DEF Authorize
  <2>2. shown[at] \in Auths
    BY <2>1 DEF HolderInv, AppAt, AtOne, Issued, IssuedInOrder
  <2> QED BY <1>1, <2>1, <2>2 DEF Signers, KeySigned, Auths
<1>5. CASE Authorized \/ AppExecute
  <2>1. \/ apppc' = "idle"
        \/ apppc \in {"authorize", "execute"} /\ UNCHANGED <<at, sig>>
    BY <1>5 DEF Authorized, AppExecute, Steps, Returns
  <2> QED BY <1>1, <2>1 DEF HolderInv, KeySigned
<1>6. CASE RunCommand \/ RunDies \/ \E c \in Clients : Deadline(c)
  BY <1>2, <1>6 DEF RunCommand, RunConsume, RunConsumed, RunRefused, RunStart, RunState, RunExecute,
     RunExecuted, RunDies, Deadline, appVars
<1>7. CASE AppDies \/ Prepare \/ Prepared \/ Publish \/ Continue \/ Throw \/ Sign \/ Executed
  BY <1>3, <1>7 DEF AppDies, Prepare, Prepared, Publish, Continue, Throw, Sign, Executed, Steps, Returns
<1>8. CASE Invalidate
  BY <1>2, <1>8 DEF Invalidate
<1> QED BY <1>4, <1>5, <1>6, <1>7, <1>8 DEF ClientStep, Coordinator

LEMMA HolderInvInit ==
    ASSUME Init
    PROVE  HolderInv
<1> USE HolderRunsAssumption DEF Init
<1>1. Types
  BY DEF Types, Auths, Nonces, NoLease, Children, Phases, RunPlaces
<1>2. IssuedInOrder
  <2>1. snapshots \cap Exact = 1..0 /\ 0 \in Nat
    OBVIOUS
  <2> QED BY <2>1 DEF IssuedInOrder
<1>3. RequestsCarry /\ WaitsForOne /\ OneBegun /\ WritesInOrder
  BY DEF RequestsCarry, WaitsForOne, OneBegun, WritesInOrder, Clients
<1>4. Spent = {}
  BY DEF Spent
<1>5. SpentAsShown /\ LeaseOfSpent /\ StartOfHeld /\ LaunchedOnce
  BY <1>4 DEF SpentAsShown, LeaseOfSpent, StartOfHeld, LaunchedOnce, NoLease
<1>6. StartedOnce /\ CompletedEnded /\ RunAt
  BY DEF StartedOnce, CompletedEnded, RunAt, Clients
<1>7. AppAt /\ NotAskedAgain /\ KeySigned
  BY DEF AppAt, NotAskedAgain, KeySigned, AppPlaces, AtOne, Clients
<1> QED BY <1>1, <1>2, <1>3, <1>5, <1>6, <1>7 DEF HolderInv

LEMMA HolderInvNext ==
    ASSUME HolderInv, [Next]_vars
    PROVE  HolderInv'
<1>1. CASE DaemonStep
  BY <1>1, HolderInvDaemon
<1>2. CASE ClientStep
  <2>1. Quiet
    BY <1>2, ClientsAreQuiet
  <2>2. CallInv' /\ RunPart' /\ AppPart'
    BY <1>2, RunSide, AppSide, FaultSide DEF ClientStep
  <2>3. /\ IssuedInOrder' /\ WritesInOrder' /\ SpentAsShown' /\ LeaseOfSpent' /\ StartOfHeld'
        /\ LaunchedOnce'
    BY <2>1, QuietRecords DEF HolderInv, RecordInv
  <2>4. Types'
    BY <1>2, <2>1, <2>2 DEF HolderInv, Types, RunPart, Quiet, holderVars, worldVars
  <2> QED BY <1>2, <2>2, <2>3, <2>4, KeySignedKept DEF HolderInv, CallInv, RunPart, AppPart
<1>3. CASE UNCHANGED vars
  <2>1. UNCHANGED Spent
    BY <1>3 DEF vars, holderVars, Spent
  <2>2. Quiet /\ UNCHANGED <<runVars, requests, answer, apppc, at, retained, uncertain, finished, asked>>
    BY <1>3 DEF vars, Quiet, callVars, appVars
  <2>3. CallInv' /\ RunPart' /\ AppPart'
    BY <2>2, CallsKept, RunPartKept, AppPartKept DEF HolderInv, Types, runVars
  <2>4. /\ IssuedInOrder' /\ WritesInOrder' /\ SpentAsShown' /\ LeaseOfSpent' /\ StartOfHeld'
        /\ LaunchedOnce'
    BY <2>2, QuietRecords DEF HolderInv, RecordInv
  <2>5. Types'
    BY <2>2, <2>3 DEF HolderInv, Types, RunPart, Quiet, holderVars, worldVars
  <2>6. KeySigned'
    BY <1>3 DEF vars, appVars, HolderInv, KeySigned
  <2> QED BY <2>3, <2>4, <2>5, <2>6 DEF HolderInv, CallInv, RunPart, AppPart
<1> QED BY <1>1, <1>2, <1>3, TwoSides

\* The inductive invariant of holder, run command and coordinator: what is on disk, in
\* flight and in memory agree at every step of execution_holder.py, run.py and the app.
THEOREM HolderInvariant == Spec => []HolderInv
<1>1. Init => HolderInv
  BY HolderInvInit
<1>2. HolderInv /\ [Next]_vars => HolderInv'
  BY HolderInvNext
<1> QED BY <1>1, <1>2, PTL DEF Spec

-----------------------------------------------------------------------------
(* What the runs check, for every instance.                                *)

\* A held run that says completed has been launched once, its payload has ended and
\* the lease is free; no log has a second run_start (run.py 714, 769, 813 to 874).
THEOREM CompletedTheorem == Spec => []CompletedMeansRan
<1>1. HolderInv => CompletedMeansRan
  BY DEF HolderInv, Types, StartedOnce, CompletedEnded, Ended, CompletedMeansRan
<1> QED BY <1>1, HolderInvariant, PTL

-----------------------------------------------------------------------------
(* The signatures of an exact run: authorize and execute get the same ones.*)

Authorizes(q) == q.from = "app" /\ q.op = "authorize"
\* What is asked to be executed was authorized with the same signatures.
ExecutesAuthorized ==
    \A q \in requests : q.op = "execute" /\ q.nonce \in Exact => spent[q.nonce] = q.signed
AuthorizeCarries == \A q \in requests : Authorizes(q) => q.nonce = at /\ q.signed = Signed(at)
\* What an authorize writes is what it was sent.
WritesSent ==
    \A q \in requests : q.begun /\ q.op = "authorize" =>
        \/ todo = ConsumeWrites(q.nonce, q.signed)
        \/ todo = <<LeaseWrite(q.nonce)>> /\ spent[q.nonce] = q.signed
AuthorizedAt ==
    \/ apppc = "execute"
    \/ apppc = "authorize" /\ answer["app"] # None /\ answer["app"].result = "ok"
AppAuthorized == AuthorizedAt => spent[at] = Signed(at)
StartsAuthorized == starting # None /\ starting.nonce \in Exact => auth = spent[starting.nonce]

SignedInv ==
    ExecutesAuthorized /\ AuthorizeCarries /\ WritesSent /\ AppAuthorized /\ StartsAuthorized

\* What is spent stays under the same signatures.
LEMMA SpentStays ==
    ASSUME RecordInv, RecordStep, NEW n \in Nonces, n \in Spent
    PROVE  spent'[n] = spent[n]
<1> USE DEF RecordInv, Types, Spent
<1>1. CASE \E m \in Nonces, record \in Auths : Spends(m, record) \/ WritesSpent(m, record)
  BY <1>1 DEF Spends, WritesSpent
<1>2. CASE \E m \in Nonces : Snaps(m) \/ Issues(m) \/ WritesLease(m) \/ Starts(m)
  BY <1>2 DEF Snaps, Issues, WritesLease, Starts
<1>3. CASE UNCHANGED Records \/ Launches \/ LeavesLease \/ Cancels \/ Administers \/ PayloadLeaves
           \/ Forgets
  BY <1>3 DEF Records, Launches, LeavesLease, Cancels, Administers, PayloadLeaves, Forgets
<1> QED BY <1>1, <1>2, <1>3 DEF RecordStep

\* A request, begun or not, is the one that was sent.
LEMMA SentBefore ==
    ASSUME HolderInv, CallStep, NEW q \in requests'
    PROVE  \E r \in requests : /\ q.from = r.from /\ q.op = r.op /\ q.nonce = r.nonce
                               /\ q.signed = r.signed /\ (q.begun /\ ~r.begun => Begins(r))
<1>1. \A r \in requests : RequestOK(r)
  BY DEF HolderInv, RequestsCarry
<1>2. CASE q \in requests
  BY <1>2
<1>3. ASSUME NEW r \in requests, q = [r EXCEPT !.begun = TRUE], Begins(r)
      PROVE  /\ q.from = r.from /\ q.op = r.op /\ q.nonce = r.nonce /\ q.signed = r.signed
  BY <1>1, <1>3 DEF RequestOK
<1> QED BY <1>2, <1>3, RequestsOf

LEMMA SpentIs ==
    ASSUME HolderInv, NEW n \in Nonces, spent[n] \in Auths
    PROVE  n \in Spent
BY HolderRunsAssumption DEF Spent

LEMMA ExecutesAuthorizedDaemon ==
    ASSUME HolderInv, SignedInv, RecordStep, CallStep
    PROVE  ExecutesAuthorized'
<1>1. RecordInv
  BY DEF HolderInv, RecordInv
<1>2. ASSUME NEW q \in requests', q.op = "execute", q.nonce \in Exact
      PROVE  spent'[q.nonce] = q.signed
  <2>1. PICK r \in requests : q.op = r.op /\ q.nonce = r.nonce /\ q.signed = r.signed
    BY <1>2, SentBefore
  <2>2. spent[q.nonce] = q.signed /\ q.signed \in Auths /\ q.nonce \in Nonces
    BY <1>2, <2>1 DEF SignedInv, ExecutesAuthorized, HolderInv, RequestsCarry, RequestOK, Nonces
  <2> QED BY <1>1, <2>2, SpentIs, SpentStays
<1> QED BY <1>2 DEF ExecutesAuthorized

LEMMA AuthorizeCarriesDaemon ==
    ASSUME HolderInv, SignedInv, RecordStep, CallStep, UNCHANGED <<at, sig, apppc>>
    PROVE  AuthorizeCarries'
<1>1. RecordInv
  BY DEF HolderInv, RecordInv
<1>2. ASSUME NEW q \in requests', Authorizes(q)
      PROVE  q.nonce = at' /\ q.signed = Signed(at)'
  <2>1. PICK r \in requests : q.from = r.from /\ q.op = r.op /\ q.nonce = r.nonce /\ q.signed = r.signed
    BY <1>2, SentBefore
  <2>2. Authorizes(r) /\ q.nonce = at /\ q.signed = Signed(at)
    BY <1>2, <2>1 DEF SignedInv, AuthorizeCarries, Authorizes
  <2>3. at \in Exact \cap snapshots
    BY <2>1, <2>2 DEF HolderInv, RequestsCarry, RequestOK, Authorizes
  <2>4. shown'[at] = shown[at]
    BY <1>1, <2>3, ShownStays
  <2> QED BY <2>2, <2>4 DEF Signed
<1> QED BY <1>2 DEF AuthorizeCarries

LEMMA WritesSentDaemon ==
    ASSUME HolderInv, SignedInv, DaemonStep
    PROVE  WritesSent'
<1>0. RecordStep /\ CallStep
  BY DaemonRecords, DaemonCalls
<1>1. SUFFICES ASSUME NEW q \in requests', q.begun, q.op = "authorize"
               PROVE  \/ todo' = ConsumeWrites(q.nonce, q.signed)
                      \/ todo' = <<LeaseWrite(q.nonce)>> /\ spent'[q.nonce] = q.signed
  BY DEF WritesSent
<1>2. PICK r \in requests : /\ q.op = r.op /\ q.nonce = r.nonce
                            /\ q.signed = r.signed /\ (q.begun /\ ~r.begun => Begins(r))
  BY <1>0, SentBefore
<1>3. q.nonce \in Exact /\ q.nonce \in Nonces /\ q.signed \in Auths
  BY <1>1, <1>2 DEF HolderInv, RequestsCarry, RequestOK, Nonces
<1>4. CASE ~r.begun
  <2>1. LockFree /\ todo' # <<>> /\ Begin(r)
    BY <1>1, <1>2, <1>4 DEF Begins
  <2>2. r \notin requests'
    BY <1>4, <2>1 DEF Begin, HolderInv, RequestsCarry, RequestOK
  <2>3. ASSUME NEW p \in requests, NEW late \in BOOLEAN, AuthorizeExact(p, late)
        PROVE  todo' = ConsumeWrites(q.nonce, q.signed)
    <3>1. todo' = ConsumeWrites(p.nonce, p.signed) /\ Begin(p)
      BY <2>1, <2>3 DEF AuthorizeExact, LockFree
    <3>2. p = r
      BY <2>2, <3>1 DEF Begin
    <3> QED BY <1>2, <3>1, <3>2
  <2>4. ASSUME NEW p \in requests, NEW contents \in Contents, Consume(p, contents)
        PROVE  FALSE
    <3>1. Begin(p) /\ p.op = "consume"
      BY <2>1, <2>4 DEF Consume, LockFree
    <3>2. p = r
      BY <2>2, <3>1 DEF Begin
    <3> QED BY <1>1, <1>2, <3>1, <3>2
  <2>5. ~(\E p \in requests, contents \in Contents : IssueExact(p, contents))
    BY <2>1 DEF IssueExact, LockFree
  <2>6. ~(\E p \in requests, late \in BOOLEAN, sealed \in Seals, launch \in Vectors :
              Execute(p, late, sealed, launch))
    BY <2>1 DEF Execute, LockFree
  <2>7. ~(Write \/ Launch \/ NoSpawn \/ Ends \/ Doubt \/ Cancel \/ Administer \/ DaemonDies)
    BY <2>1 DEF LockFree, Write, Launch, NoSpawn, Ends, Doubt, Leaves, Cancel, Administer, DaemonDies
  <2>8. ~(\E n \in payloads : PayloadEnds(n))
    BY <2>1 DEF LockFree, PayloadEnds, holderVars
  <2> QED BY <2>3, <2>4, <2>5, <2>6, <2>7, <2>8 DEF DaemonStep, Daemon
<1>5. CASE r.begun
  <2>1. /\ \/ todo = ConsumeWrites(q.nonce, q.signed)
           \/ todo = <<LeaseWrite(q.nonce)>> /\ spent[q.nonce] = q.signed
        /\ todo # <<>> /\ starting = None
    <3>1. \/ todo = ConsumeWrites(q.nonce, q.signed)
          \/ todo = <<LeaseWrite(q.nonce)>> /\ spent[q.nonce] = q.signed
      BY <1>1, <1>2, <1>5 DEF SignedInv, WritesSent
    <3>2. ConsumeWrites(q.nonce, q.signed) # <<>>
      BY TwoElements DEF ConsumeWrites
    <3>3. <<LeaseWrite(q.nonce)>> # <<>>
      OBVIOUS
    <3>4. todo # <<>>
      BY ONLY <3>1, <3>2, <3>3
    <3> QED BY <3>1, <3>4 DEF HolderInv, StartOfHeld
  <2>2. CASE UNCHANGED <<todo, spent>>
    BY <2>1, <2>2
  <2>3. CASE Write
    <3>1. CASE todo = ConsumeWrites(q.nonce, q.signed)
      <4>1. /\ Head(todo) = [file |-> "spent", nonce |-> q.nonce, value |-> q.signed]
            /\ Tail(todo) = <<LeaseWrite(q.nonce)>>
        BY <3>1, TwoElements DEF ConsumeWrites, LeaseWrite
      <4>2. Head(todo).file = "spent" /\ Head(todo).nonce = q.nonce /\ Head(todo).value = q.signed
        BY <4>1
      <4>3. spent' = [spent EXCEPT ![q.nonce] = q.signed] /\ todo' = <<LeaseWrite(q.nonce)>>
        BY <2>3, <4>1, <4>2 DEF Write
      <4> QED BY <1>3, <4>3 DEF HolderInv, Types
    <3>2. CASE todo = <<LeaseWrite(q.nonce)>>
      <4>1. /\ Head(todo).file = "lease" /\ Tail(todo) = <<>>
        BY <3>2 DEF LeaseWrite
      <4>2. ReplyBegun("ok")
        BY <2>3, <4>1 DEF Write
      <4>3. PICK p \in requests : p.begun /\ requests' = requests \ {p}
        BY <4>2 DEF ReplyBegun, Reply, ReplyWith
      <4>4. q \in requests /\ q # p
        BY <4>3
      <4> QED BY <1>1, <4>3, <4>4 DEF HolderInv, OneBegun
    <3> QED BY <2>1, <3>1, <3>2
  <2>4. CASE DaemonDies
    BY <2>4 DEF DaemonDies
  <2>5. CASE Cancel \/ Administer \/ \E n \in payloads : PayloadEnds(n)
    BY <2>1, <2>2, <2>5 DEF Cancel, Administer, PayloadEnds, LockFree, holderVars
  <2>6. ~LockFree /\ starting = None
    BY <2>1 DEF LockFree
  <2> QED BY <2>2, <2>3, <2>4, <2>5, <2>6
          DEF DaemonStep, Daemon, Consume, IssueExact, AuthorizeExact, Execute, Launch, NoSpawn, Ends,
              Doubt, Leaves, LockFree
<1> QED BY <1>4, <1>5

LEMMA AppAuthorizedDaemon ==
    ASSUME HolderInv, SignedInv, DaemonStep
    PROVE  AppAuthorized'
<1>0. /\ RecordStep /\ CallStep /\ RecordInv
      /\ UNCHANGED <<at, sig, apppc>> /\ HolderInv'
  BY DaemonRecords, DaemonCalls, DaemonIsAlone, HolderInvDaemon DEF HolderInv, RecordInv
<1>1. SUFFICES ASSUME AuthorizedAt'
               PROVE  spent'[at] = Signed(at)'
  BY <1>0 DEF AppAuthorized
<1>2. at \in Exact \cap snapshots /\ at \in Nonces
  BY <1>0, <1>1 DEF AuthorizedAt, HolderInv, AppAt, AtOne, Issued, Nonces
<1>3. Signed(at)' = Signed(at) /\ Signed(at) \in Auths
  <2>1. shown'[at] = shown[at] /\ shown[at] \in Auths
    BY <1>0, <1>2, ShownStays DEF HolderInv, IssuedInOrder
  <2>2. sig \in Nat
    BY <1>0, <1>1 DEF HolderInv, KeySigned, AuthorizedAt
  <2> QED BY <1>0, <2>1, <2>2 DEF Signed, Auths
<1>4. CASE AuthorizedAt
  <2>1. spent[at] = Signed(at)
    BY <1>4 DEF SignedInv, AppAuthorized
  <2> QED BY <1>0, <1>2, <1>3, <2>1, SpentIs, SpentStays
<1>5. CASE ~AuthorizedAt
  <2>1. apppc = "authorize" /\ answer'["app"] # answer["app"] /\ answer'["app"] # None
        /\ answer'["app"].result = "ok"
    BY <1>0, <1>1, <1>5 DEF AuthorizedAt
  <2>2. ASSUME NEW r \in requests, NEW result, NEW m, ReplyWith(r, result, m)
        PROVE  r.from = "app" /\ r.op = "authorize" /\ result = "ok"
    <3>1. answer' = answer \/ answer' = [answer EXCEPT ![r.from] = [result |-> result, nonce |-> m]]
      BY <2>2 DEF ReplyWith, Answers
    <3>2. DOMAIN answer = {"run", "app"}
      BY DEF HolderInv, Types, Clients
    <3>3. r.from = "app" /\ result = "ok"
      BY ONLY <2>1, <3>1, <3>2
    <3>4. r.op = "authorize"
      BY <2>1, <3>3, HolderRunsAssumption DEF HolderInv, WaitsForOne, Waits, Clients
    <3> QED BY <3>3, <3>4
  <2>3. PICK r \in requests : Finishes(r, "ok") /\ r.from = "app" /\ r.op = "authorize"
    <3>1. CASE DropsCalls
      BY <2>1, <3>1 DEF DropsCalls, Cuts, Clients
    <3>2. CASE KeepsCalls \/ \E r \in requests : Begins(r)
      BY <2>1, <3>2 DEF KeepsCalls, Begins, Begin
    <3>3. ASSUME NEW r \in requests, AnswersIssue(r)
          PROVE  FALSE
      BY <2>2, <3>3 DEF AnswersIssue
    <3>4. ASSUME NEW r \in requests, Refuses(r) \/ Finishes(r, "refused")
          PROVE  FALSE
      BY <2>2, <3>4 DEF Refuses, Finishes, Reply
    <3>5. ASSUME NEW r \in requests, Finishes(r, "ok")
          PROVE  r.from = "app" /\ r.op = "authorize"
      BY <2>2, <3>5 DEF Finishes, Reply
    <3> QED BY <1>0, <3>1, <3>2, <3>3, <3>4, <3>5 DEF CallStep
  <2>4. r.begun /\ todo' = <<>> /\ todo # <<>> /\ r.nonce = at /\ r.signed = Signed(at)
    BY <2>3 DEF Finishes, SignedInv, AuthorizeCarries, Authorizes, HolderInv, OneBegun, LockFree
  <2>5. /\ WritesLease(Head(todo).nonce)
        /\ \/ todo = ConsumeWrites(at, Signed(at))
           \/ todo = <<LeaseWrite(at)>> /\ spent[at] = Signed(at)
    BY <2>3, <2>4 DEF Finishes, SignedInv, WritesSent, HolderInv, StartOfHeld
  <2>6. CASE todo = <<LeaseWrite(at)>> /\ spent[at] = Signed(at)
    BY <1>0, <1>2, <1>3, <2>6, SpentIs, SpentStays
  <2>7. CASE todo = ConsumeWrites(at, Signed(at))
    <3>1. Head(todo).nonce = at /\ at \in Spent
      BY <2>5, <2>7, TwoElements DEF ConsumeWrites, WritesLease
    <3>2. Len(todo) = 2
      BY <2>7 DEF ConsumeWrites
    <3>3. PICK n \in Nonces, record \in Auths :
              \/ todo = ConsumeWrites(n, record) /\ n \notin Spent
              \/ todo = <<LeaseWrite(n)>>
      BY <2>4 DEF HolderInv, WritesInOrder
    <3>4. todo # <<LeaseWrite(n)>>
      BY <3>2
    <3>6. todo = ConsumeWrites(n, record) /\ n \notin Spent
      BY <3>3, <3>4
    <3>7. Head(todo) = [file |-> "spent", nonce |-> n, value |-> record]
      BY <3>6, TwoElements DEF ConsumeWrites
    <3>5. Head(todo).nonce = n /\ n \notin Spent
      BY <3>6, <3>7
    <3> QED BY <3>1, <3>5
  <2> QED BY <2>5, <2>6, <2>7
<1> QED BY <1>4, <1>5

LEMMA StartsAuthorizedDaemon ==
    ASSUME HolderInv, SignedInv, DaemonStep
    PROVE  StartsAuthorized'
<1>0. RecordStep /\ RecordInv
  BY DaemonRecords DEF HolderInv, RecordInv
<1>1. ASSUME NEW r \in requests, NEW late \in BOOLEAN, NEW sealed \in Seals, NEW launch \in Vectors,
             Execute(r, late, sealed, launch)
      PROVE  StartsAuthorized'
  <2>1. CASE starting' = starting
    BY <1>1, <2>1 DEF Execute, LockFree, StartsAuthorized
  <2>2. CASE starting' # starting
    <3>1. /\ starting' = [nonce |-> r.nonce, released |-> FALSE] /\ r.op = "execute"
          /\ r.nonce \in Exact => Session(Recorded(r.nonce, r.signed), late)
          /\ UNCHANGED <<auth, spent>>
      BY <1>1, <2>2 DEF Execute
    <3>2. ASSUME r.nonce \in Exact
          PROVE  auth = spent[r.nonce]
      <4>1. spent[r.nonce] = r.signed /\ r.signed \in Auths /\ auth \in Auths
        BY <3>1, <3>2 DEF SignedInv, ExecutesAuthorized, HolderInv, RequestsCarry, RequestOK, Types
      <4>2. Recorded(r.nonce, r.signed) = r.signed
        BY <4>1 DEF Recorded, Auths
      <4>3. auth.gen = r.signed.gen /\ auth.kg = r.signed.kg /\ auth.dev = r.signed.dev
        BY <3>1, <3>2, <4>2 DEF Session
      <4>4. auth = r.signed
        BY <4>1, <4>3 DEF Auths
      <4> QED BY <4>1, <4>4
    <3> QED BY <3>1, <3>2 DEF StartsAuthorized
  <2> QED BY <2>1, <2>2
<1>2. CASE Launch
  BY <1>2 DEF Launch, StartsAuthorized, SignedInv, HolderInv, Types
<1>3. CASE NoSpawn \/ Ends \/ Doubt \/ DaemonDies
  BY <1>3 DEF NoSpawn, Ends, Doubt, Leaves, DaemonDies, StartsAuthorized
<1>4. ASSUME starting' = None
      PROVE  StartsAuthorized'
  BY <1>4 DEF StartsAuthorized
<1>5. ASSUME NEW r \in requests, NEW contents \in Contents, Consume(r, contents) \/ IssueExact(r, contents)
      PROVE  StartsAuthorized'
  BY <1>4, <1>5 DEF Consume, IssueExact, LockFree
<1>6. ASSUME NEW r \in requests, NEW late \in BOOLEAN, AuthorizeExact(r, late)
      PROVE  StartsAuthorized'
  BY <1>4, <1>6 DEF AuthorizeExact, LockFree
<1>7. CASE Cancel \/ Administer
  BY <1>4, <1>7 DEF Cancel, Administer, LockFree
<1>8. CASE Write
  <2>1. todo # <<>>
    BY <1>8 DEF Write
  <2> QED BY <1>4, <1>8, <2>1 DEF Write, HolderInv, StartOfHeld
<1>9. CASE \E n \in payloads : PayloadEnds(n)
  BY <1>9 DEF PayloadEnds, holderVars, StartsAuthorized, SignedInv
<1> QED BY <1>1, <1>2, <1>3, <1>5, <1>6, <1>7, <1>8, <1>9 DEF DaemonStep, Daemon

\* The clients: only the coordinator asks for an exact run.
LEMMA SignedClients ==
    ASSUME HolderInv, SignedInv, ClientStep
    PROVE  SignedInv'
<1>0. /\ UNCHANGED <<auth, keys, spent, todo, starting, shown, signer>>
      /\ \A r \in requests : RequestOK(r)
  BY ClientsAreQuiet DEF Quiet, holderVars, HolderInv, RequestsCarry
<1>1. StartsAuthorized'
  BY <1>0 DEF SignedInv, StartsAuthorized
\* The requests are those there were, some of them nobody's now, and perhaps a new one.
<1> DEFINE Old(q) == \E r \in requests : /\ q.op = r.op /\ q.nonce = r.nonce /\ q.signed = r.signed
                                         /\ q.begun = r.begun /\ (q.from = r.from \/ q.from = None)
<1>2. ASSUME \A q \in requests' : Old(q) \/ (~q.begun /\ (q.op = "execute" /\ q.nonce \in Exact
                                                          => spent[q.nonce] = q.signed))
      PROVE  ExecutesAuthorized' /\ WritesSent'
  <2>1. ASSUME NEW q \in requests', q.op = "execute", q.nonce \in Exact
        PROVE  spent[q.nonce] = q.signed
    BY <1>2, <2>1 DEF SignedInv, ExecutesAuthorized
  <2>2. ASSUME NEW q \in requests', q.begun, q.op = "authorize"
        PROVE  \E r \in requests : r.begun /\ r.op = "authorize" /\ r.nonce = q.nonce /\ r.signed = q.signed
    BY <1>2, <2>2
  <2>3. ExecutesAuthorized'
    BY <1>0, <2>1 DEF ExecutesAuthorized
  <2>4. WritesSent'
    BY <1>0, <2>2 DEF WritesSent, SignedInv
  <2> QED BY <2>3, <2>4
<1>3. ASSUME \A q \in requests' : Old(q) \/ ~Authorizes(q), UNCHANGED <<at, sig>>
      PROVE  AuthorizeCarries'
  <2>1. ASSUME NEW q \in requests', Authorizes(q)
        PROVE  \E r \in requests : Authorizes(r) /\ r.nonce = q.nonce /\ r.signed = q.signed
    <3>1. PICK r \in requests : /\ q.op = r.op /\ q.nonce = r.nonce /\ q.signed = r.signed
                                /\ (q.from = r.from \/ q.from = None)
      BY <1>3, <2>1
    <3> QED BY <2>1, <3>1, HolderRunsAssumption DEF Authorizes, Clients
  <2> QED BY <1>0, <1>3, <2>1 DEF AuthorizeCarries, SignedInv, Signed
<1>4. ASSUME requests' \subseteq requests
      PROVE  \A q \in requests' : Old(q)
  BY <1>4
<1>5. ASSUME NEW c \in Clients, requests' = Orphaned(c)
      PROVE  \A q \in requests' : Old(q)
  <2>1. ASSUME NEW r \in requests
        PROVE  LET q == [r EXCEPT !.from = None]
               IN  /\ q.op = r.op /\ q.nonce = r.nonce /\ q.signed = r.signed
                   /\ q.begun = r.begun /\ q.from = None
    BY <1>0 DEF RequestOK
  <2> QED BY <1>5, <2>1 DEF Orphaned, Awaited
<1>6. ASSUME NEW c, NEW op, NEW n, NEW signed, Call(c, op, n, signed), NEW q \in requests'
      PROVE  Old(q) \/ (~q.begun /\ q.from = c /\ q.op = op /\ q.nonce = n /\ q.signed = signed)
  BY <1>6 DEF Call, Request
<1> HIDE DEF Old
<1>7. "app" \in Clients /\ "run" \in Clients
  BY DEF Clients
\* The run command asks for its own run.
<1>8. CASE RunCommand \/ RunDies
  <2>0. UNCHANGED <<apppc, at, sig>>
    BY <1>8 DEF RunCommand, RunConsume, RunConsumed, RunRefused, RunStart, RunState, RunExecute,
       RunExecuted, RunDies, AppOnly, appVars
  <2>a. \/ answer' = answer \/ answer' = [answer EXCEPT !["run"] = None]
        \/ \E n \in Runs : answer' = [answer EXCEPT !["run"] = [result |-> "refused", nonce |-> n]]
    <3>1. CASE RunExecute
      <4>1. cur \in Runs
        BY <3>1 DEF RunExecute, Goes, HolderInv, RunAt
      <4> QED BY <3>1, <4>1 DEF RunExecute, Call, Answers
    <3>2. CASE \E r \in Runs : RunConsume(r)
      BY <3>2 DEF RunConsume, Call, Answers
    <3>3. CASE RunConsumed \/ RunRefused \/ RunStart \/ RunState \/ RunExecuted \/ RunDies
      BY <3>3 DEF RunConsumed, RunRefused, RunStart, RunState, RunExecuted, RunDies, callVars, Took
    <3> QED BY <1>8, <3>1, <3>2, <3>3 DEF RunCommand
  <2>1. UNCHANGED <<apppc, at, sig>> /\ answer'["app"] = answer["app"]
    <3>1. DOMAIN answer = {"run", "app"}
      BY DEF HolderInv, Types, Clients
    <3>2. answer'["app"] = answer["app"]
      BY ONLY <2>a, <3>1
    <3> QED BY <2>0, <3>2
  <2>2. \A q \in requests' : Old(q) \/ (~q.begun /\ q.from = "run" /\ q.nonce \in Runs)
    <3>1. CASE RunCommand /\ ~(RunExecute \/ \E r \in Runs : RunConsume(r))
      <4>1. requests' = requests
        BY <3>1 DEF RunCommand, RunConsumed, RunRefused, RunStart, RunState, RunExecuted, callVars
      <4> QED BY <1>4, <4>1
    <3>2. CASE RunExecute
      <4>1. cur \in Runs
        BY <3>2 DEF RunExecute, Goes, HolderInv, RunAt
      <4> QED BY <1>6, <3>2, <4>1 DEF RunExecute
    <3>3. CASE \E r \in Runs : RunConsume(r)
      BY <1>6, <3>3 DEF RunConsume
    <3>4. CASE RunDies
      BY <1>5, <1>7, <3>4 DEF RunDies
    <3> QED BY <1>8, <3>1, <3>2, <3>3, <3>4
  <2>3. ExecutesAuthorized' /\ WritesSent'
    BY <1>2, <2>2, HolderRunsAssumption DEF Exact
  <2>4. AuthorizeCarries'
    BY <1>3, <2>1, <2>2 DEF Authorizes
  <2>5. AppAuthorized'
    BY <1>0, <2>1 DEF SignedInv, AppAuthorized, AuthorizedAt, Signed
  <2> QED BY <1>1, <2>3, <2>4, <2>5 DEF SignedInv
<1>9. ASSUME NEW c \in Clients, Deadline(c)
      PROVE  SignedInv'
  <2>1. UNCHANGED <<apppc, at, sig>> /\ (answer'["app"] = answer["app"] \/ answer'["app"].result = "lost")
    BY <1>7, <1>9 DEF Deadline, appVars, Answers, HolderInv, Types
  <2>2. \A q \in requests' : Old(q)
    BY <1>5, <1>9 DEF Deadline
  <2>3. AppAuthorized'
    BY <1>0, <2>1 DEF SignedInv, AppAuthorized, AuthorizedAt, Signed
  <2> QED BY <1>1, <1>2, <1>3, <2>1, <2>2, <2>3 DEF SignedInv
\* Where the coordinator waits for nothing, no request of its own is there.
<1>10. ASSUME apppc \in {"idle", "publish", "live", "collect", "execute"} \/ answer["app"] # None,
              NEW q \in requests
       PROVE  q.from # "app"
  BY <1>7, <1>10, NotWaiting DEF Awaited
<1>11. ASSUME requests' \subseteq requests,
              apppc \in {"idle", "publish", "live", "collect", "execute"} \/ answer["app"] # None,
              ~AuthorizedAt' \/ (AuthorizedAt /\ UNCHANGED <<at, sig>>)
       PROVE  SignedInv'
  <2>1. \A q \in requests' : ~Authorizes(q)
    BY <1>10, <1>11 DEF Authorizes
  <2>2. AuthorizeCarries'
    BY <2>1 DEF AuthorizeCarries
  <2>3. AppAuthorized'
    BY <1>0, <1>11 DEF SignedInv, AppAuthorized, Signed
  <2> QED BY <1>1, <1>2, <1>4, <1>11, <2>2, <2>3 DEF SignedInv
<1>12. CASE Invalidate
  <2>1. UNCHANGED <<requests, answer, apppc, at, sig>>
    BY <1>12 DEF Invalidate, callVars
  <2>2. AppAuthorized'
    BY <1>0, <2>1 DEF SignedInv, AppAuthorized, AuthorizedAt, Signed
  <2> QED BY <1>1, <1>2, <1>3, <1>4, <2>1, <2>2 DEF SignedInv
<1>13. CASE Publish \/ Continue \/ Throw \/ Sign
  <2>1. /\ requests' \subseteq requests /\ apppc \in {"idle", "publish", "live", "collect"}
        /\ apppc' \notin {"authorize", "execute"}
    BY <1>13 DEF Publish, Continue, Throw, Sign, Returns, Steps, callVars
  <2> QED BY <1>11, <2>1 DEF AuthorizedAt
<1>14. CASE Prepared \/ Executed \/ Authorized
  <2>1. answer["app"] # None /\ answer'["app"] = None /\ requests' \subseteq requests
    BY <1>7, <1>14 DEF Prepared, Executed, Authorized, Answered, Took, HolderInv, Types
  <2>2. CASE apppc' # "execute"
    BY <1>11, <2>1, <2>2 DEF AuthorizedAt
  <2>3. CASE apppc' = "execute"
    <3>1. AuthorizedAt /\ UNCHANGED <<at, sig>>
      BY <1>14, <2>1, <2>3 DEF Prepared, Executed, Authorized, Steps, Returns, AuthorizedAt
    <3> QED BY <1>11, <2>1, <3>1
  <2> QED BY <2>2, <2>3
<1>15. CASE Prepare
  <2>1. Call("app", "issue", None, auth) /\ apppc' = "issue" /\ UNCHANGED <<at, sig>>
    BY <1>15 DEF Prepare, Steps
  <2>2. \A q \in requests' : Old(q) \/ (~q.begun /\ q.op = "issue")
    BY <1>6, <2>1
  <2>3. AppAuthorized'
    BY <2>1 DEF AppAuthorized, AuthorizedAt
  <2>4. AuthorizeCarries'
    BY <1>3, <2>1, <2>2 DEF Authorizes
  <2>5. ExecutesAuthorized' /\ WritesSent'
    BY <1>2, <2>2
  <2> QED BY <1>1, <2>3, <2>4, <2>5 DEF SignedInv
<1>16. CASE Authorize
  <2>1. /\ Call("app", "authorize", at, Signed(at)') /\ apppc = "collect" /\ apppc' = "authorize"
        /\ UNCHANGED at
    BY <1>16 DEF Authorize
  <2>2. \A q \in requests : ~Authorizes(q) /\ q.from # "app"
    BY <1>10, <2>1 DEF Authorizes
  <2>3. \A q \in requests' : \/ q \in requests
                             \/ ~q.begun /\ q.op = "authorize" /\ q.nonce = at /\ q.signed = Signed(at)'
    BY <2>1 DEF Call, Request
  <2>4. AuthorizeCarries'
    BY <2>1, <2>2, <2>3 DEF AuthorizeCarries
  <2>5. ExecutesAuthorized' /\ WritesSent'
    <3>1. \A q \in requests' : Old(q) \/ (~q.begun /\ q.op = "authorize")
      BY <1>6, <2>1
    <3> QED BY <1>2, <3>1
  <2>6. answer'["app"] = None \/ answer'["app"].result = "refused"
    <3>1. answer["app"] = None
      BY <2>1, NotWaiting
    <3> QED BY <1>7, <2>1, <3>1 DEF Call, Answers, HolderInv, Types
  <2>7. AppAuthorized'
    BY <2>1, <2>6 DEF AppAuthorized, AuthorizedAt
  <2> QED BY <1>1, <2>4, <2>5, <2>7 DEF SignedInv
<1>17. CASE AppExecute
  <2>1. /\ Call("app", "execute", at, Signed(at)) /\ apppc = "execute" /\ apppc' = "executing"
        /\ UNCHANGED <<at, sig>> /\ spent[at] = Signed(at)
    BY <1>17 DEF AppExecute, Steps, SignedInv, AppAuthorized, AuthorizedAt
  <2>2. \A q \in requests' : Old(q) \/ (/\ ~q.begun /\ q.op = "execute" /\ q.nonce = at
                                        /\ q.signed = Signed(at))
    BY <1>6, <2>1
  <2>3. AuthorizeCarries'
    BY <1>3, <2>1, <2>2 DEF Authorizes
  <2>4. ExecutesAuthorized' /\ WritesSent'
    BY <1>2, <2>1, <2>2
  <2>5. AppAuthorized'
    BY <2>1 DEF AppAuthorized, AuthorizedAt
  <2> QED BY <1>1, <2>3, <2>4, <2>5 DEF SignedInv
<1>18. CASE AppDies
  <2>1. /\ requests' = Orphaned("app") /\ apppc' = "idle"
    BY <1>18 DEF AppDies, Returns
  <2>2. \A q \in requests' : Old(q)
    BY <1>5, <1>7, <2>1
  <2>3. \A q \in requests' : q.from # "app"
    <3>1. \A r \in requests : [r EXCEPT !.from = None].from # "app"
      BY <1>0, <1>7, HolderRunsAssumption DEF RequestOK
    <3> QED BY <2>1, <3>1 DEF Orphaned, Awaited
  <2>4. AuthorizeCarries' /\ AppAuthorized'
    BY <2>1, <2>3 DEF AuthorizeCarries, Authorizes, AppAuthorized, AuthorizedAt
  <2> QED BY <1>1, <1>2, <2>2, <2>4 DEF SignedInv
<1> QED
  BY <1>8, <1>9, <1>12, <1>13, <1>14, <1>15, <1>16, <1>17, <1>18 DEF ClientStep, Coordinator

LEMMA SignedNext ==
    ASSUME HolderInv, SignedInv, [Next]_vars
    PROVE  SignedInv'
<1>1. CASE DaemonStep
  <2>1. RecordStep /\ CallStep /\ UNCHANGED <<at, sig, apppc>>
    BY <1>1, DaemonRecords, DaemonCalls, DaemonIsAlone
  <2> QED BY <1>1, <2>1, ExecutesAuthorizedDaemon, AuthorizeCarriesDaemon, WritesSentDaemon,
             AppAuthorizedDaemon, StartsAuthorizedDaemon DEF SignedInv
<1>2. CASE ClientStep
  BY <1>2, SignedClients
<1>3. CASE UNCHANGED vars
  BY <1>3 DEF vars, holderVars, callVars, appVars, SignedInv, ExecutesAuthorized, AuthorizeCarries,
     WritesSent, AppAuthorized, AuthorizedAt, StartsAuthorized, Signed
<1> QED BY <1>1, <1>2, <1>3, TwoSides

\* The payload of an exact run is released under the generations it was displayed with
\* and the very signatures it was authorized with, whatever was changed or paired again
\* between the calls (_verify_exact_run_session, execution_holder.py 1306 to 1369).
THEOREM LaunchedTheorem == Spec => LaunchedAsShown
<1> DEFINE Shown(n) == /\ auth = spent[n]
                       /\ auth.gen = shown[n].gen /\ auth.kg = shown[n].kg
                       /\ signer = "mac" => auth.dev = shown[n].dev
<1>1. ASSUME HolderInv, SignedInv, [Next]_vars, NEW n \in Exact, launches'[n] # launches[n]
      PROVE  Shown(n)
  <2>1. CASE DaemonStep
    <3>1. RecordStep
      BY <1>1, <2>1, DaemonRecords
    <3>2. Launches
      BY <1>1, <3>1 DEF RecordStep, Records, Snaps, Issues, WritesLease, Starts, Spends, WritesSpent,
         LeavesLease, Cancels, Administers, PayloadLeaves, Forgets
    <3>3. starting.nonce = n
      BY <1>1, <3>2 DEF Launches, HolderInv, Types
    <3>4. auth = spent[n]
      BY <1>1, <3>2, <3>3 DEF Launches, SignedInv, StartsAuthorized
    <3>5. n \in Spent
      BY <1>1, <3>2, <3>3 DEF Launches, HolderInv, StartOfHeld, LeaseOfSpent, Settled, Lease
    <3> QED BY <1>1, <3>4, <3>5 DEF HolderInv, SpentAsShown, AsShown
  <2>2. CASE ClientStep
    BY <1>1, <2>2, ClientsAreQuiet DEF Quiet, worldVars
  <2>3. CASE UNCHANGED vars
    BY <1>1, <2>3 DEF vars, worldVars
  <2> QED BY <1>1, <2>1, <2>2, <2>3, TwoSides
<1>2. HolderInv /\ SignedInv /\ [Next]_vars =>
          [\A n \in Exact : launches'[n] # launches[n] => Shown(n)]_vars
  BY <1>1
<1>3. Init => SignedInv
  BY DEF Init, SignedInv, ExecutesAuthorized, AuthorizeCarries, WritesSent, AppAuthorized, AuthorizedAt,
     StartsAuthorized
<1>4. HolderInv /\ SignedInv /\ [Next]_vars => SignedInv'
  BY SignedNext
<1> QED BY <1>2, <1>3, <1>4, HolderInvariant, PTL DEF Spec, LaunchedAsShown

\* Once the execute of an exact run was asked for, the coordinator never makes another
\* signature for its nonce (ExactRunCoordinator.swift 116 to 119, 246 to 258).
THEOREM SignsTheorem == Spec => NeverSignsAgain
<1>1. HolderInv /\ [Next]_vars => [apppc = "live" /\ apppc' = "collect" => at \notin asked]_vars
  BY DEF HolderInv, NotAskedAgain
<1> QED BY <1>1, HolderInvariant, PTL DEF Spec, NeverSignsAgain

-----------------------------------------------------------------------------
(* The fates.                                                              *)

fates == [n \in Nonces |-> Fate(n)]

LEMMA OneFateMoves ==
    ASSUME NEW n \in Nonces, \A m \in Nonces \ {n} : Fate(m)' = Fate(m)
    PROVE  fates' = [fates EXCEPT ![n] = Fate(n)']
BY DEF fates

LEMMA NothingHolds ==
    ASSUME ~lease.held
    PROVE  Fates!Holding = {}
BY DEF Fates!Holding, Fate

LEMMA FatesOf ==
    ASSUME NEW n \in Nonces
    PROVE  fates[n] = Fate(n)
BY DEF fates

\* Spent while nothing holds the lease, held, started, launched once, over for good.
LEMMA FateStep ==
    ASSUME RecordInv, RecordStep
    PROVE  [Fates!Next]_(Fates!fateVars)
<1> DEFINE Abstract == \E n \in Nonces :
               \/ Fates!Spend(n) \/ Fates!Hold(n) \/ Fates!Start(n) \/ Fates!Launch(n)
               \/ Fates!GiveBack(n) \/ Fates!End(n)
           Same == \A n \in Nonces : Fate(n)' = Fate(n)
<1>1. SUFFICES Abstract \/ (Same /\ launches' = launches)
  <2>1. Same => fates' = fates
    BY DEF fates
  <2> QED BY <2>1 DEF Fates!Next, Fates!fateVars, fates
<1> USE DEF RecordInv
<1>2. CASE UNCHANGED Records \/ PayloadLeaves \/ Administers \/ \E m \in Nonces : Snaps(m) \/ Issues(m)
  <2>1. UNCHANGED <<lease, spent, todo, launches>>
    BY <1>2 DEF Records, PayloadLeaves, Administers, Snaps, Issues
  <2> QED BY <2>1 DEF Fate, Spent
<1>3. CASE \E m \in Nonces, record \in Auths : Spends(m, record)
  <2>1. PICK m \in Nonces, record \in Auths : Spends(m, record)
    BY <1>3
  <2>2. Head(todo').nonce = m /\ UNCHANGED <<lease, spent, launches>> /\ todo = <<>> /\ m \notin Spent
    BY <2>1, TwoElements DEF Spends, ConsumeWrites, LockFree
  <2> QED BY <2>2 DEF Fate, Spent
<1>4. CASE \E m \in Nonces, record \in Auths : WritesSpent(m, record)
  <2>1. PICK m \in Nonces, record \in Auths : WritesSpent(m, record)
    BY <1>4
  <2>2. /\ Head(todo').nonce = m /\ todo' # <<>> /\ Head(todo).nonce = m /\ todo # <<>>
        /\ ~lease.held /\ UNCHANGED <<lease, launches>>
        /\ m \notin Spent /\ m \in Spent' /\ \A n \in Nonces \ {m} : n \in Spent' <=> n \in Spent
    BY <2>1, HolderRunsAssumption DEF WritesSpent, LeaseWrite, Spent, Types
  <2>3. /\ Fate(m) = "fresh" /\ Fate(m)' = "spent"
        /\ \A n \in Nonces \ {m} : Fate(n)' = Fate(n)
    BY <2>2 DEF Fate
  <2>4. Fates!Spend(m)
    BY <2>2, <2>3, OneFateMoves, NothingHolds, FatesOf DEF Fates!Spend, Fates!Move, fates
  <2> QED BY <2>4
<1>5. CASE \E m \in Nonces : WritesLease(m)
  <2>1. PICK m \in Nonces : WritesLease(m)
    BY <1>5
  <2>2. /\ Fate(m) = "spent" /\ Fate(m)' = "held"
        /\ \A n \in Nonces \ {m} : Fate(n)' = Fate(n)
    BY <2>1 DEF WritesLease, Fate, Lease, Spent
  <2>3. Fates!Hold(m)
    BY <2>1, <2>2, OneFateMoves, NothingHolds, FatesOf DEF Fates!Hold, Fates!Move, fates, WritesLease
  <2> QED BY <2>3
<1>6. CASE \E m \in Nonces : Starts(m)
  <2>1. PICK m \in Nonces : Starts(m)
    BY <1>6
  <2>2. /\ Fate(m) = "held" /\ Fate(m)' = "starting" /\ UNCHANGED launches
        /\ \A n \in Nonces \ {m} : Fate(n)' = Fate(n)
    BY <2>1 DEF Starts, Fate, Lease, Spent
  <2>3. Fates!Start(m)
    BY <2>2, OneFateMoves, FatesOf DEF Fates!Start, Fates!Move, fates
  <2> QED BY <2>3
<1>7. CASE Launches
  <2> DEFINE m == starting.nonce
  <2>1. m \in Nonces /\ lease = Lease(TRUE, m, "running") /\ launches[m] = 0
    BY <1>7 DEF Launches, Types, StartOfHeld
  <2>2. Same /\ Fate(m) = "starting"
    BY <1>7, <2>1 DEF Launches, Fate, Lease, Spent
  <2>3. launches' = [launches EXCEPT ![m] = 1]
    BY <1>7, <2>1 DEF Launches, Types
  <2>4. Fates!Launch(m)
    BY <2>1, <2>2, <2>3, FatesOf DEF Fates!Launch, fates
  <2> QED BY <2>1, <2>4
<1>8. CASE LeavesLease
  <2>0. PICK m \in Nonces : m = starting.nonce
    BY <1>8 DEF LeavesLease, Types
  <2>1. m \in Nonces /\ lease = Lease(TRUE, m, "running") /\ todo = <<>> /\ m \in Spent
    BY <1>8, <2>0 DEF LeavesLease, Types, StartOfHeld, LeaseOfSpent, Settled, Lease
  <2>2. /\ UNCHANGED <<spent, todo, launches>> /\ lease'.token = m
        /\ ~starting.released => launches[m] = 0
    BY <1>8, <2>0, <2>1 DEF LeavesLease, StartOfHeld, Lease
  <2>3. Fate(m) = "starting" /\ \A n \in Nonces \ {m} : Fate(n)' = Fate(n)
    BY <2>1, <2>2 DEF Fate, Lease, Spent
  <2>4. CASE lease' = Lease(TRUE, m, "supervision-uncertain")
    <3>1. Fate(m)' = "starting"
      BY <2>4 DEF Fate, Lease
    <3> QED BY <2>2, <2>3, <3>1
  <2>5. CASE lease' = Lease(TRUE, m, "uncertain") /\ ~starting.released
    <3>1. Fate(m)' = "held"
      BY <2>5 DEF Fate, Lease
    <3>2. Fates!GiveBack(m)
      BY <2>1, <2>2, <2>3, <2>5, <3>1, OneFateMoves, FatesOf DEF Fates!GiveBack, Fates!Move, fates
    <3> QED BY <2>1, <3>2
  <2>6. CASE lease' \in {Lease(FALSE, m, "spawn-failed"), Lease(FALSE, m, "exited")}
    <3>1. Fate(m)' = "over"
      BY <2>1, <2>2, <2>6 DEF Fate, Lease, Spent
    <3>2. Fates!End(m)
      BY <2>1, <2>2, <2>3, <3>1, OneFateMoves, FatesOf DEF Fates!End, Fates!Move, fates
    <3> QED BY <2>1, <3>2
  <2> QED BY <1>8, <2>0, <2>4, <2>5, <2>6 DEF LeavesLease
<1>9. CASE Cancels
  <2> DEFINE m == lease.token
  <2>1. m \in Nonces /\ lease.held /\ lease.child = "uncertain" /\ todo = <<>> /\ m \in Spent
    BY <1>9 DEF Cancels, LeaseOfSpent, Settled, LockFree
  <2>2. UNCHANGED <<spent, todo, launches>> /\ lease'.token = m /\ ~lease'.held
    BY <1>9 DEF Cancels, Lease
  <2>3. Fate(m) = "held" /\ Fate(m)' = "over" /\ \A n \in Nonces \ {m} : Fate(n)' = Fate(n)
    BY <2>1, <2>2 DEF Fate, Spent
  <2>4. Fates!End(m)
    BY <2>1, <2>2, <2>3, OneFateMoves, FatesOf DEF Fates!End, Fates!Move, fates
  <2> QED BY <2>1, <2>4
<1>10. CASE Forgets
  <2>1. UNCHANGED <<lease, spent, launches>> /\ todo' = <<>>
    BY <1>10 DEF Forgets
  <2>2. CASE todo = <<>>
    BY <2>1, <2>2 DEF Fate, Spent
  <2>3. CASE todo # <<>>
    <3>1. PICK m \in Nonces : Head(todo).nonce = m /\ ~lease.held
      <4>1. PICK n \in Nonces, record \in Auths :
                ~lease.held /\ (todo = ConsumeWrites(n, record) \/ todo = <<LeaseWrite(n)>>)
        BY <2>3 DEF WritesInOrder
      <4>2. CASE todo = ConsumeWrites(n, record)
        BY <4>1, <4>2, TwoElements DEF ConsumeWrites
      <4>3. CASE todo = <<LeaseWrite(n)>>
        BY <4>1, <4>3 DEF LeaseWrite
      <4> QED BY <4>1, <4>2, <4>3
    <3>2. \A n \in Nonces \ {m} : Fate(n)' = Fate(n)
      BY <2>1, <2>3, <3>1 DEF Fate, Spent
    <3>3. CASE m \notin Spent
      BY <2>1, <3>1, <3>2, <3>3 DEF Fate, Spent
    <3>4. CASE m \in Spent
      <4>1. Fate(m) = "spent" /\ Fate(m)' = "over"
        BY <2>1, <2>3, <3>1, <3>4 DEF Fate, Spent
      <4>2. Fates!End(m)
        BY <2>1, <3>2, <4>1, OneFateMoves, FatesOf DEF Fates!End, Fates!Move, fates
      <4> QED BY <4>2
    <3> QED BY <3>3, <3>4
  <2> QED BY <2>2, <2>3
<1> QED
  BY <1>2, <1>3, <1>4, <1>5, <1>6, <1>7, <1>8, <1>9, <1>10 DEF RecordStep

\* Every nonce meets a fate of NonceFates: spent before it holds the lease, launched
\* once, and never again when the lease is gone (execution_holder.py 2141 to 2231).
THEOREM FatesTheorem == Spec => ImplementsNonceFates
<1>1. Init => Fates!Init
  BY HolderRunsAssumption DEF Init, Fates!Init, Fate, NoLease, Spent
<1>2. HolderInv /\ [Next]_vars => [Fates!Next]_(Fates!fateVars)
  <2> SUFFICES ASSUME HolderInv, [Next]_vars
               PROVE  [Fates!Next]_(Fates!fateVars)
    OBVIOUS
  <2>1. RecordInv
    BY DEF HolderInv, RecordInv
  <2>2. CASE DaemonStep
    BY <2>1, <2>2, DaemonRecords, FateStep
  <2>3. CASE ~DaemonStep
    <3>1. UNCHANGED Records
      BY <2>3, TwoSides, ClientsAreQuiet DEF Quiet, holderVars, worldVars, Records, vars, appVars
    <3> QED BY <2>1, <3>1, FateStep DEF RecordStep
  <2> QED BY <2>2, <2>3
<1> QED BY <1>1, <1>2, HolderInvariant, PTL DEF Spec, ImplementsNonceFates, Fates!Spec

=============================================================================
