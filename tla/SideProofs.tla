------------------------------ MODULE SideProofs ------------------------------
(***************************************************************************)
(* For any values of their constants, the machines beside the run keep      *)
(* what they promise: the companion's mailboxes, the launch handshake, the  *)
(* binding of snapshots, the evidence of requirements and the registers of  *)
(* a workspace.  Each has an inductive invariant of its own, given before   *)
(* the steps that keep it.                                                  *)
(***************************************************************************)
EXTENDS Mailbox, LaunchHandshake, SnapshotBinding, Evidence, Registries,
        FiniteSetTheorems, SequenceTheorems, TLAPS

-----------------------------------------------------------------------------
(***************************************************************************)
(* The mailboxes.  ServedBelongs is not inductive: a receipt that is       *)
(* handled late, or for the second time, was posted long before.  What is  *)
(* inductive says of every receipt on its way, and of every one that may   *)
(* be handled again, that the holder sealed it (ReceiptsSealed).           *)
(***************************************************************************)

\* The mailboxes and the bookkeeping of posts are records with these fields.
Shapes ==
    /\ phone = [challenge |-> phone.challenge, signature |-> phone.signature,
                verification |-> phone.verification, invalidated |-> phone.invalidated,
                receipts |-> phone.receipts]
    /\ exact = [challenge |-> exact.challenge, signature |-> exact.signature]
    /\ handled = [posts |-> handled.posts, again |-> handled.again]

ReceiptsSealed ==
    \A p \in posts \cup handled.posts :
        p.route = "phone-peer-verification" => p.of \in sealed

\* What a mailbox holds belongs to the challenge on display.
Belongs ==
    /\ phone.signature \in {Blank, phone.challenge}
    /\ phone.verification \in {Blank, phone.challenge}
    /\ phone.verification # Blank => phone.verification \in sealed
    /\ phone.invalidated => phone.challenge = Blank
    /\ exact.signature \in {Blank, exact.challenge}

MailInv == Shapes /\ ReceiptsSealed /\ Belongs

LEMMA InvServes == MailInv => ServedBelongs
  BY DEF MailInv, Belongs, ServedBelongs, ServedChallenge, ServedSignature,
         ServedVerification, ServedExact, ServedExactSignature

LEMMA MailInitInv == MailInit => MailInv
  BY DEF MailInit, Emptied, MailInv, Shapes, ReceiptsSealed, Belongs

\* A handler keeps what belongs together, given that its receipt was sealed.
LEMMA HandleBelongs ==
  ASSUME MailInv, NEW p, Handle(p), sealed' = sealed,
         p.route = "phone-peer-verification" => p.of \in sealed
  PROVE  /\ Belongs'
         /\ phone' = [challenge |-> phone'.challenge, signature |-> phone'.signature,
                      verification |-> phone'.verification,
                      invalidated |-> phone'.invalidated, receipts |-> phone'.receipts]
         /\ exact' = [challenge |-> exact'.challenge, signature |-> exact'.signature]
<1> USE DEF MailInv, Shapes, Belongs
<1>1. CASE p.route = "phone-peer-challenge"
  BY <1>1 DEF Handle, PeerChallenge, Emptied
<1>2. CASE p.route = "phone-peer-signature"
  BY <1>2 DEF Handle, PeerSignature
<1>3. CASE p.route = "phone-peer-verification"
  BY <1>3 DEF Handle, PeerVerification
<1>4. CASE p.route = "phone-peer-invalidate"
  BY <1>4 DEF Handle, PeerInvalidate, Emptied
<1>5. CASE p.route = "exact-peer-challenge"
  BY <1>5 DEF Handle, ExactChallenge
<1>6. CASE p.route = "exact-peer-signature"
  BY <1>6 DEF Handle, ExactSignature
<1>7. CASE p.route \notin {"phone-peer-challenge", "phone-peer-signature",
                           "phone-peer-verification", "phone-peer-invalidate",
                           "exact-peer-challenge", "exact-peer-signature"}
  BY <1>7 DEF Handle
<1> QED BY <1>1, <1>2, <1>3, <1>4, <1>5, <1>6, <1>7

LEMMA HandlePostInv == MailInv /\ HandlePost => MailInv'
<1> SUFFICES ASSUME MailInv, HandlePost PROVE MailInv'
  OBVIOUS
<1>1. PICK p \in posts :
        /\ Handle(p) /\ posts' = posts \ {p}
        /\ handled' = [handled EXCEPT !.posts = @ \cup {p}]
        /\ sealed' = sealed
  BY DEF HandlePost
<1>2. p.route = "phone-peer-verification" => p.of \in sealed
  BY DEF MailInv, ReceiptsSealed
<1>3. Belongs' /\ Shapes'
  BY <1>1, <1>2, HandleBelongs DEF MailInv, Shapes
<1>4. ReceiptsSealed'
  BY <1>1 DEF MailInv, Shapes, ReceiptsSealed
<1> QED BY <1>3, <1>4 DEF MailInv

LEMMA HandleAgainInv == MailInv /\ HandleAgain => MailInv'
<1> SUFFICES ASSUME MailInv, HandleAgain PROVE MailInv'
  OBVIOUS
<1>1. PICK p \in handled.posts :
        /\ Handle(p) /\ posts' = posts
        /\ handled' = [handled EXCEPT !.again = @ + 1]
        /\ sealed' = sealed
  BY DEF HandleAgain
<1>2. p.route = "phone-peer-verification" => p.of \in sealed
  BY DEF MailInv, ReceiptsSealed
<1>3. Belongs' /\ Shapes'
  BY <1>1, <1>2, HandleBelongs DEF MailInv, Shapes
<1>4. ReceiptsSealed'
  BY <1>1 DEF MailInv, Shapes, ReceiptsSealed
<1> QED BY <1>3, <1>4 DEF MailInv

\* The holder seals the receipt in the step that posts it.
LEMMA CollectInv == MailInv /\ Collect => MailInv'
  BY DEF Collect, Sent, Post, MailInv, Shapes, ReceiptsSealed, Belongs

\* Nothing else touches a mailbox, and nothing else posts a receipt.
LEMMA ClientInv ==
  ASSUME MailInv,
         \/ Published \/ CancelPhone \/ Fetch
         \/ \E c \in PhoneChallenges : Publish(c) \/ Invalidate(c)
         \/ \E r \in ExactChallenges : PublishExact(r)
         \/ \E c \in PhoneChallenges \cup ExactChallenges : Submit(c)
  PROVE  MailInv'
<1> USE DEF MailInv, Shapes, ReceiptsSealed, Belongs, Sent, Post
<1>1. CASE Published BY <1>1 DEF Published
<1>2. CASE CancelPhone BY <1>2 DEF CancelPhone
<1>3. CASE Fetch BY <1>3 DEF Fetch
<1>4. CASE \E c \in PhoneChallenges : Publish(c) BY <1>4 DEF Publish
<1>5. CASE \E c \in PhoneChallenges : Invalidate(c) BY <1>5 DEF Invalidate
<1>6. CASE \E r \in ExactChallenges : PublishExact(r) BY <1>6 DEF PublishExact
<1>7. CASE \E c \in PhoneChallenges \cup ExactChallenges : Submit(c) BY <1>7 DEF Submit
<1> QED BY <1>1, <1>2, <1>3, <1>4, <1>5, <1>6, <1>7

LEMMA MailNextInv == MailInv /\ [MailNext]_mailVars => MailInv'
<1> SUFFICES ASSUME MailInv, [MailNext]_mailVars PROVE MailInv'
  OBVIOUS
<1>1. CASE UNCHANGED mailVars
  BY <1>1 DEF mailVars, MailInv, Shapes, ReceiptsSealed, Belongs
<1>2. CASE MailNext
  BY <1>2, HandlePostInv, HandleAgainInv, CollectInv, ClientInv DEF MailNext
<1> QED BY <1>1, <1>2

\* ServedBelongs: whatever is served belongs to the challenge on display, however late,
\* often and in whatever order the handlers of companion.py run.
THEOREM ServedTheorem == MailSpec => []ServedBelongs
<1>1. MailSpec => []MailInv
  BY MailInitInv, MailNextInv, PTL DEF MailSpec
<1> QED BY <1>1, InvServes, PTL

-----------------------------------------------------------------------------
(***************************************************************************)
(* The launch handshake.  A process that lives is the recorded one or bears *)
(* its start; a wrapper that waits has forked nothing; a launch under way  *)
(* holds the lease, and its nonce was spent.                               *)
(***************************************************************************)

Processes == [start : Nat, image : Images \cup {"none", "unrelated"}, alive : BOOLEAN]

LaunchShapes ==
    /\ durable = [phase |-> durable.phase, nonce |-> durable.nonce, pid |-> durable.pid,
                  start |-> durable.start, lease |-> durable.lease]
    /\ durable.pid \in 0..started /\ durable.start \in Nat
    /\ started \in 0..MaxPid /\ launches \in Nat /\ step \in Nat
    /\ procs \in [LaunchPids -> Processes]
    /\ durable.pid # 0 => durable.start # 0

\* Every wrapper has a nonce of its own; a launch that is still under way holds the lease.
Holding ==
    /\ IsFiniteSet(spent)
    /\ launches <= Cardinality(spent)
    /\ step \in {2, 3} => launches < Cardinality(spent)
    /\ step > 1 => durable.lease
    /\ step > 3 => durable.pid # 0

\* A process of a launch that lives is the recorded one or was forked by it, unless
\* the recorded pid is another process by now; and the record says it may live.
Alive(p) == procs[p].alive /\ procs[p].image \in Images
Kin(p) ==
    /\ durable.lease /\ durable.phase \in {"armed", "acked", "running", "unknown"}
    /\ procs[p].image = "payload" => durable.phase # "armed"
    /\ OwnProc => procs[p].start = durable.start /\ (p # durable.pid => Proc.image = "payload")
KinHeld == \A p \in LaunchPids : Alive(p) => Kin(p)

LaunchInv == LaunchShapes /\ Holding /\ KinHeld

LEMMA InvKeepsLease == LaunchInv => LiveKeepsLease
<1> SUFFICES ASSUME LaunchInv PROVE LiveKeepsLease
  OBVIOUS
<1>1. LiveOfALaunch => durable.lease /\ AssessedLease(durable)
  BY DEF LaunchInv, KinHeld, Kin, Alive, LiveOfALaunch, AssessedLease
<1>2. \A p \in LaunchPids : procs[p].alive /\ procs[p].image = "payload" =>
         durable.phase \in {"acked", "running", "unknown"}
  BY DEF LaunchInv, KinHeld, Kin, Alive, Images
<1>3. launches <= Cardinality(spent)
  BY DEF LaunchInv, Holding
<1> QED BY <1>1, <1>2, <1>3 DEF LiveKeepsLease

LEMMA LaunchInitInv == LaunchInit => LaunchInv
<1> SUFFICES ASSUME LaunchInit PROVE LaunchInv
  OBVIOUS
<1> USE DEF LaunchInit
<1>1. LaunchShapes
  BY MaxPidAssumption DEF LaunchShapes, Processes, NoProc, LaunchPids, Images
<1>2. Holding
  BY FS_EmptySet DEF Holding
<1>3. KinHeld
  BY DEF KinHeld, Alive, NoProc, Images
<1> QED BY <1>1, <1>2, <1>3 DEF LaunchInv

\* A nonce that was not spent yet makes one more.
LEMMA SpendsOne ==
  ASSUME NEW n, IsFiniteSet(spent), n \notin spent
  PROVE  /\ IsFiniteSet(spent \cup {n})
         /\ Cardinality(spent) \in Nat
         /\ Cardinality(spent \cup {n}) = Cardinality(spent) + 1
  BY FS_AddElement, FS_CardinalityType

\* The steps of ORDER that leave the record's identity, the nonces and the processes alone.
LEMMA ConsumeInv == ASSUME LaunchInv, NEW n, Consume(n) PROVE LaunchInv'
<1> USE DEF LaunchInv, Consume, Consumable, Consumed, Forgets
<1>1. LaunchShapes'
  BY DEF LaunchShapes
<1>2. Holding'
  BY SpendsOne DEF LaunchShapes, Holding
<1>3. KinHeld'
  BY DEF KinHeld, Alive, Kin
<1> QED BY <1>1, <1>2, <1>3

LEMMA WriteIntentInv == LaunchInv /\ WriteIntent => LaunchInv'
<1> SUFFICES ASSUME LaunchInv, WriteIntent PROVE LaunchInv'
  OBVIOUS
<1> USE DEF LaunchInv, WriteIntent, Due
<1>1. step = 2 /\ step' = 3
  BY DEF LaunchShapes, Order
<1>2. LaunchShapes'
  BY <1>1 DEF LaunchShapes
<1>3. Holding'
  BY <1>1 DEF LaunchShapes, Holding
<1>4. KinHeld'
  BY DEF KinHeld, Alive, Kin
<1> QED BY <1>2, <1>3, <1>4

\* A new wrapper is the only process of a launch: none lived when its nonce was consumed.
LEMMA SpawnKin ==
  ASSUME LaunchInv, NEW rec, SpawnOf(rec),
         rec.lease, rec = [phase |-> rec.phase, nonce |-> rec.nonce,
           pid |-> rec.pid, start |-> rec.start, lease |-> rec.lease],
         \A p \in LaunchPids : ~Alive(p)
  PROVE  /\ KinHeld' /\ durable'.lease
         /\ durable' = [phase |-> durable'.phase, nonce |-> durable'.nonce,
              pid |-> durable'.pid, start |-> durable'.start, lease |-> durable'.lease]
         /\ durable'.pid = started' /\ durable'.pid # 0
         /\ durable'.start \in Nat \ {0} /\ launches' = launches + 1
         /\ started' \in 0..MaxPid
         /\ procs' \in [LaunchPids -> Processes]
<1> DEFINE w == [start |-> launches + 1, image |-> "wrapper", alive |-> TRUE]
<1>1. /\ started + 1 \in LaunchPids /\ started' = started + 1 /\ started' \in 0..MaxPid
      /\ launches' = launches + 1 /\ launches \in Nat
  BY MaxPidAssumption DEF LaunchInv, LaunchShapes, SpawnOf, LaunchPids
<1>2. durable' = [phase |-> "armed", nonce |-> rec.nonce, pid |-> started + 1,
                  start |-> launches + 1, lease |-> rec.lease]
  BY DEF SpawnOf
<1>3. w \in Processes
  BY <1>1 DEF Processes, Images
<1>4. procs' = [procs EXCEPT ![started + 1] = w]
  BY DEF SpawnOf
<1>5. procs' \in [LaunchPids -> Processes] /\ procs'[started + 1] = w
      /\ \A p \in LaunchPids : p # started + 1 => procs'[p] = procs[p]
  BY <1>1, <1>3, <1>4 DEF LaunchInv, LaunchShapes
<1>6. KinHeld'
  BY <1>1, <1>2, <1>5 DEF KinHeld, Kin, Alive, OwnProc, Proc
<1> QED BY <1>1, <1>2, <1>5, <1>6 DEF LaunchInv, LaunchShapes

LEMMA SpawnWrapperInv == LaunchInv /\ SpawnWrapper => LaunchInv'
<1> SUFFICES ASSUME LaunchInv, SpawnWrapper PROVE LaunchInv'
  OBVIOUS
<1>1. step = 3 /\ step' = 4 /\ durable.phase = "intent" /\ SpawnOf(durable) /\ spent' = spent
  BY DEF SpawnWrapper, Due, Order, LaunchInv, LaunchShapes
<1>2. durable.lease /\ \A p \in LaunchPids : ~Alive(p)
  BY <1>1 DEF LaunchInv, Holding, KinHeld, Kin
<1>3. /\ KinHeld' /\ durable'.lease
      /\ durable' = [phase |-> durable'.phase, nonce |-> durable'.nonce,
              pid |-> durable'.pid, start |-> durable'.start, lease |-> durable'.lease]
      /\ durable'.pid = started' /\ durable'.pid # 0
      /\ durable'.start \in Nat \ {0} /\ launches' = launches + 1
      /\ started' \in 0..MaxPid
      /\ procs' \in [LaunchPids -> Processes]
  <2>1. durable = [phase |-> durable.phase, nonce |-> durable.nonce, pid |-> durable.pid,
                   start |-> durable.start, lease |-> durable.lease]
    BY DEF LaunchInv, LaunchShapes
  <2> QED BY <1>1, <1>2, <2>1, SpawnKin
<1>4. LaunchShapes'
  BY <1>1, <1>3 DEF LaunchInv, LaunchShapes
<1>5. Holding'
  BY <1>1, <1>3, FS_CardinalityType DEF LaunchInv, LaunchShapes, Holding
<1> QED BY <1>3, <1>4, <1>5 DEF LaunchInv

LEMMA BeginOtherInv == ASSUME LaunchInv, NEW n, BeginOther(n) PROVE LaunchInv'
<1>1. step = 0 /\ step' = 4 /\ SpawnOf(Consumed(n)) /\ n \notin spent /\ spent' = spent \cup {n}
  BY DEF BeginOther, Consumable
<1>2. \A p \in LaunchPids : ~Alive(p)
  BY DEF BeginOther, Consumable, LaunchInv, KinHeld, Kin
<1>3. /\ KinHeld' /\ durable'.lease
      /\ durable' = [phase |-> durable'.phase, nonce |-> durable'.nonce,
              pid |-> durable'.pid, start |-> durable'.start, lease |-> durable'.lease]
      /\ durable'.pid = started' /\ durable'.pid # 0
      /\ durable'.start \in Nat \ {0} /\ launches' = launches + 1
      /\ started' \in 0..MaxPid
      /\ procs' \in [LaunchPids -> Processes]
  <2> DEFINE r == Consumed(n)
  <2>1. r.lease /\ r = [phase |-> r.phase, nonce |-> r.nonce, pid |-> r.pid,
                        start |-> r.start, lease |-> r.lease]
    BY DEF Consumed
  <2> HIDE DEF r
  <2>2. SpawnOf(r)
    BY <1>1 DEF r
  <2> QED BY <1>2, <2>1, <2>2, SpawnKin
<1>4. LaunchShapes'
  BY <1>1, <1>3 DEF LaunchInv, LaunchShapes
<1>5. Holding'
  BY <1>1, <1>3, SpendsOne DEF LaunchInv, LaunchShapes, Holding
<1> QED BY <1>3, <1>4, <1>5 DEF LaunchInv

\* Steps that touch neither a process nor whose launch it is.
LEMMA HandshakeInv ==
  ASSUME LaunchInv, SendGo \/ RecvAck \/ FsyncAcked \/ FsyncRunning \/ Crash \/ BreakPipe
  PROVE  LaunchInv'
<1>1. /\ UNCHANGED <<spent, procs, started, launches>>
      /\ durable' = durable \/ (durable' = [durable EXCEPT !.phase = "acked"])
         \/ (durable' = [durable EXCEPT !.phase = "running"] /\ durable.phase = "acked")
      /\ step' \in {0, step} \/ (step' = step + 1 /\ step > 3)
  BY DEF SendGo, RecvAck, FsyncAcked, FsyncRunning, Crash, BreakPipe, Due, Order, LaunchInv, LaunchShapes
<1>2. LaunchShapes'
  BY <1>1 DEF LaunchInv, LaunchShapes
<1>3. Holding'
  BY <1>1 DEF LaunchInv, LaunchShapes, Holding
<1>4. KinHeld'
  BY <1>1 DEF LaunchInv, LaunchShapes, KinHeld, Alive, Kin, OwnProc, Proc
<1> QED BY <1>2, <1>3, <1>4 DEF LaunchInv

\* Steps that change one process, or start one, and not the record.
LEMMA ProcsTyped == LaunchInv => \A p \in LaunchPids : procs[p] \in Processes
  BY DEF LaunchInv, LaunchShapes

LEMMA WithImage ==
  ASSUME NEW r \in Processes, NEW i
  PROVE  [r EXCEPT !.image = i] = [start |-> r.start, image |-> i, alive |-> r.alive]
  BY DEF Processes

LEMMA WithoutLife ==
  ASSUME NEW r \in Processes
  PROVE  LET d == [r EXCEPT !.alive = FALSE]
         IN  d \in Processes /\ d.start = r.start /\ d.image = r.image /\ ~d.alive
  BY DEF Processes

LEMMA SendCommitInv == LaunchInv /\ SendCommit => LaunchInv'
<1> SUFFICES ASSUME LaunchInv, SendCommit PROVE LaunchInv'
  OBVIOUS
<1> DEFINE w == [start |-> Proc.start, image |-> "payload", alive |-> Proc.alive]
<1>1. step = 7 /\ step' = 8 /\ durable.pid # 0 /\ durable.phase = "acked" /\ durable.lease
      /\ UNCHANGED <<durable, spent, started, launches>>
  BY DEF SendCommit, Due, Order, LaunchInv, LaunchShapes, Holding
<1>2. durable.pid \in LaunchPids
  BY <1>1, MaxPidAssumption DEF LaunchInv, LaunchShapes, LaunchPids
<1>3. procs' = [procs EXCEPT ![durable.pid] = w]
  <2>1. [Proc EXCEPT !.image = "payload"] = w
    BY <1>2, ProcsTyped, WithImage DEF Proc
  <2> QED BY <2>1 DEF SendCommit, Proc
<1>4. w \in Processes
  BY <1>2, ProcsTyped DEF Processes, Images, Proc
<1>5. procs' \in [LaunchPids -> Processes] /\ procs'[durable.pid] = w
      /\ \A p \in LaunchPids : p # durable.pid => procs'[p] = procs[p]
  BY <1>2, <1>3, <1>4 DEF LaunchInv, LaunchShapes
<1>6. LaunchShapes'
  BY <1>1, <1>5 DEF LaunchInv, LaunchShapes
<1>7. Holding'
  BY <1>1 DEF LaunchInv, Holding
<1>8. KinHeld'
  <2>1. OwnProc' <=> OwnProc
    BY <1>1, <1>5 DEF OwnProc, Proc
  <2>2. ASSUME NEW p \in LaunchPids, Alive(p)' PROVE Kin(p)'
    <3>1. CASE p = durable.pid
      BY <1>1, <1>5, <2>1, <3>1 DEF Kin, OwnProc, Proc
    <3>2. CASE p # durable.pid
      BY <1>1, <1>5, <2>1, <2>2, <3>2 DEF LaunchInv, KinHeld, Alive, Kin, OwnProc, Proc
    <3> QED BY <3>1, <3>2
  <2> QED BY <2>2, <1>1 DEF KinHeld
<1> QED BY <1>6, <1>7, <1>8 DEF LaunchInv

LEMMA PayloadForksInv == LaunchInv /\ PayloadForks => LaunchInv'
<1> SUFFICES ASSUME LaunchInv, PayloadForks PROVE LaunchInv'
  OBVIOUS
<1> DEFINE w == [start |-> Proc.start, image |-> "descendant", alive |-> TRUE]
<1>1. /\ durable.pid \in LaunchPids /\ durable.pid # 0 /\ Proc.image = "payload" /\ Proc.alive = TRUE
      /\ started + 1 \in LaunchPids /\ started' = started + 1 /\ started' \in 0..MaxPid
      /\ durable.pid # started + 1
      /\ UNCHANGED <<durable, spent, launches, step>>
  <2>1. Proc.alive /\ durable.pid \in LaunchPids
    BY MaxPidAssumption DEF PayloadForks, LaunchInv, LaunchShapes, LaunchPids
  <2>2. Proc.alive = TRUE
    BY <2>1 DEF LaunchInv, LaunchShapes, Processes, Proc
  <2> QED BY <2>1, <2>2, MaxPidAssumption DEF PayloadForks, LaunchInv, LaunchShapes, LaunchPids
<1>2. procs' = [procs EXCEPT ![started + 1] = w]
  <2>1. [Proc EXCEPT !.image = "descendant"] = w
    <3>1. [Proc EXCEPT !.image = "descendant"] = [start |-> Proc.start, image |-> "descendant", alive |-> Proc.alive]
      BY <1>1, ProcsTyped, WithImage DEF Proc
    <3> QED BY <3>1, <1>1
  <2> QED BY <2>1 DEF PayloadForks
<1>3. w \in Processes
  BY <1>1, ProcsTyped DEF Processes, Images, Proc
<1>4. procs' \in [LaunchPids -> Processes] /\ procs'[started + 1] = w
      /\ \A p \in LaunchPids : p # started + 1 => procs'[p] = procs[p]
  BY <1>1, <1>2, <1>3 DEF LaunchInv, LaunchShapes
<1>5. LaunchShapes'
  BY <1>1, <1>4 DEF LaunchInv, LaunchShapes
<1>6. Holding'
  BY <1>1 DEF LaunchInv, Holding
<1>7. KinHeld'
  <2>1. Proc' = Proc /\ (OwnProc' <=> OwnProc)
    BY <1>1, <1>4 DEF OwnProc, Proc
  <2>2. Alive(durable.pid) /\ Kin(durable.pid)
    BY <1>1 DEF LaunchInv, KinHeld, Alive, Images, Proc
  <2>3. ASSUME NEW p \in LaunchPids, Alive(p)' PROVE Kin(p)'
    <3>1. CASE p = started + 1
      BY <1>1, <1>4, <2>1, <2>2, <3>1 DEF Kin, OwnProc, Proc
    <3>2. CASE p # started + 1
      BY <1>1, <1>4, <2>1, <2>3, <3>2 DEF LaunchInv, KinHeld, Alive, Kin
    <3> QED BY <3>1, <3>2
  <2> QED BY <2>3 DEF KinHeld
<1> QED BY <1>5, <1>6, <1>7 DEF LaunchInv

LEMMA MarkDeadInv == ASSUME LaunchInv, NEW q \in LaunchPids, MarkDead(q) PROVE LaunchInv'
<1> DEFINE w == [procs[q] EXCEPT !.alive = FALSE]
<1>1. UNCHANGED <<durable, spent, started, launches, step>>
  BY DEF MarkDead
<1>2. procs' = [procs EXCEPT ![q] = w]
  BY DEF MarkDead
<1>3. w \in Processes /\ w.start = procs[q].start /\ w.image = procs[q].image /\ ~w.alive
  BY ProcsTyped, WithoutLife
<1> HIDE DEF w
<1>4. procs' \in [LaunchPids -> Processes] /\ procs'[q] = w
      /\ \A p \in LaunchPids : p # q => procs'[p] = procs[p]
  BY <1>2, <1>3 DEF LaunchInv, LaunchShapes
<1>5. LaunchShapes'
  BY <1>1, <1>4 DEF LaunchInv, LaunchShapes
<1>6. Holding'
  BY <1>1 DEF LaunchInv, Holding
<1>7. KinHeld'
  <2>1. ASSUME NEW p \in LaunchPids PROVE procs'[p].start = procs[p].start /\ procs'[p].image = procs[p].image
                                          /\ (procs'[p].alive => procs[p].alive)
    BY <1>3, <1>4
  <2>2. ASSUME NEW p \in LaunchPids, Alive(p)' PROVE Kin(p)'
    <3>1. Alive(p) /\ Kin(p)
      BY <2>1, <2>2 DEF Alive, LaunchInv, KinHeld
    <3>2. CASE durable.pid = 0
      BY <1>1, <2>1, <3>1, <3>2 DEF Kin, OwnProc
    <3>3. CASE durable.pid # 0
      <4>1. durable.pid \in LaunchPids
        BY <3>3, MaxPidAssumption DEF LaunchInv, LaunchShapes, LaunchPids
      <4> QED BY <1>1, <2>1, <3>1, <4>1 DEF Kin, OwnProc, Proc
    <3> QED BY <3>2, <3>3
  <2> QED BY <2>2 DEF KinHeld
<1> QED BY <1>5, <1>6, <1>7 DEF LaunchInv

\* The recorded process is gone and its pid is another's: none of this launch is known by it.
LEMMA ReusePidInv == LaunchInv /\ ReusePid => LaunchInv'
<1> SUFFICES ASSUME LaunchInv, ReusePid PROVE LaunchInv'
  OBVIOUS
<1>1. /\ durable.pid # 0 /\ durable.pid \in LaunchPids /\ durable.start # 0
      /\ UNCHANGED <<durable, spent, started, launches, step>>
      /\ procs' = [procs EXCEPT ![durable.pid] = Unrelated]
  BY MaxPidAssumption DEF ReusePid, LaunchInv, LaunchShapes, LaunchPids
<1>2. Unrelated \in Processes
  BY DEF Unrelated, Processes
<1>3. procs' \in [LaunchPids -> Processes] /\ procs'[durable.pid] = Unrelated
      /\ \A p \in LaunchPids : p # durable.pid => procs'[p] = procs[p]
  BY <1>1, <1>2 DEF LaunchInv, LaunchShapes
<1>4. LaunchShapes'
  BY <1>1, <1>3 DEF LaunchInv, LaunchShapes
<1>5. Holding'
  BY <1>1 DEF LaunchInv, Holding
<1>6. KinHeld'
  <2>1. ~OwnProc'
    BY <1>1, <1>3 DEF OwnProc, Proc, Unrelated
  <2>2. ASSUME NEW p \in LaunchPids, Alive(p)' PROVE Alive(p) /\ procs'[p] = procs[p]
    BY <1>3, <2>2 DEF Alive, Unrelated, Images
  <2> QED BY <1>1, <2>1, <2>2 DEF LaunchInv, KinHeld, Kin
<1> QED BY <1>4, <1>5, <1>6 DEF LaunchInv

LEMMA LoseFieldsInv == LaunchInv /\ LoseFields => LaunchInv'
<1> SUFFICES ASSUME LaunchInv, LoseFields PROVE LaunchInv'
  OBVIOUS
<1>1. /\ durable' = [phase |-> durable.phase, nonce |-> durable.nonce, pid |-> 0,
                     start |-> 0, lease |-> durable.lease]
      /\ step = 0 /\ UNCHANGED <<spent, procs, started, launches, step>>
  BY DEF LoseFields, LaunchInv, LaunchShapes
<1>2. LaunchShapes'
  BY <1>1 DEF LaunchInv, LaunchShapes
<1>3. Holding'
  BY <1>1 DEF LaunchInv, Holding
<1>4. KinHeld'
  BY <1>1 DEF LaunchInv, KinHeld, Kin, Alive, OwnProc
<1> QED BY <1>2, <1>3, <1>4 DEF LaunchInv

\* A process that is not the parent frees the lease only when nothing of a launch lives:
\* the recorded process would be found, what it forked bears its start, and a wrapper that
\* still waits has forked nothing and is stopped.
LEMMA RecoverInv == LaunchInv /\ Recover => LaunchInv'
<1> SUFFICES ASSUME LaunchInv, Recover PROVE LaunchInv'
  OBVIOUS
<1> DEFINE
      stops == Complete(durable) /\ ~PidReused /\ durable.phase \in {"armed", "acked"} /\ Waiting
      keeps == RecoveredPhase = "unknown" \/ (Live /\ ~stops)
<1>1. /\ step = 0 /\ UNCHANGED <<spent, started, launches, step>>
      /\ procs' = IF stops THEN [procs EXCEPT ![durable.pid].alive = FALSE] ELSE procs
      /\ durable' = [durable EXCEPT
           !.lease = keeps,
           !.phase = IF keeps \/ RecoveredPhase = "empty" THEN RecoveredPhase
                     ELSE IF spawned > 0 THEN "reaped" ELSE "spent"]
  BY DEF Recover
<1>2. /\ durable'.pid = durable.pid /\ durable'.start = durable.start /\ durable'.nonce = durable.nonce
      /\ durable' = [phase |-> durable'.phase, nonce |-> durable'.nonce, pid |-> durable'.pid,
                     start |-> durable'.start, lease |-> durable'.lease]
      /\ keeps => durable'.lease /\ durable'.phase = RecoveredPhase
  <2> HIDE DEF keeps
  <2>1. durable = [phase |-> durable.phase, nonce |-> durable.nonce, pid |-> durable.pid,
                  start |-> durable.start, lease |-> durable.lease]
    BY DEF LaunchInv, LaunchShapes
  <2> QED BY <1>1, <2>1
<1>3. /\ procs' \in [LaunchPids -> Processes]
      /\ \A p \in LaunchPids : /\ procs'[p].start = procs[p].start /\ procs'[p].image = procs[p].image
                               /\ procs'[p].alive => procs[p].alive
                               /\ stops /\ p = durable.pid => ~procs'[p].alive
  <2>1. CASE ~stops
    BY <1>1, <2>1 DEF LaunchInv, LaunchShapes
  <2>2. CASE stops
    <3> DEFINE w == [procs[durable.pid] EXCEPT !.alive = FALSE]
    <3>1. durable.pid \in LaunchPids
      BY <2>2, MaxPidAssumption DEF Waiting, OwnProc, LaunchInv, LaunchShapes, LaunchPids
    <3>2. w \in Processes /\ w.start = procs[durable.pid].start
          /\ w.image = procs[durable.pid].image /\ ~w.alive
      BY <3>1, ProcsTyped, WithoutLife
    <3>3. procs' = [procs EXCEPT ![durable.pid] = w]
      BY <1>1, <2>2
    <3> HIDE DEF w, stops
    <3> QED BY <3>1, <3>2, <3>3 DEF LaunchInv, LaunchShapes
  <2> QED BY <2>1, <2>2
<1> HIDE DEF stops, keeps
<1>4. LaunchShapes'
  BY <1>1, <1>2, <1>3 DEF LaunchInv, LaunchShapes
<1>5. Holding'
  BY <1>1 DEF LaunchInv, Holding
<1>6. ASSUME NEW p \in LaunchPids, Alive(p)' PROVE Kin(p)'
  <2>1. Alive(p) /\ Kin(p)
    BY <1>3, <1>6 DEF Alive, LaunchInv, KinHeld
  <2>2. durable.pid # 0 => durable.pid \in LaunchPids
    BY MaxPidAssumption DEF LaunchInv, LaunchShapes, LaunchPids
  <2>3. (OwnProc' <=> OwnProc) /\ (OwnProc => Proc'.image = Proc.image)
    BY <1>2, <1>3, <2>2 DEF OwnProc, Proc
  <2>4. keeps
    <3>1. CASE RecoveredPhase = "unknown"
      BY <3>1 DEF keeps
    <3>2. CASE RecoveredPhase # "unknown"
      <4>1. Complete(durable) /\ ~PidReused
        BY <3>2, Zenon DEF RecoveredPhase
      <4>2. durable.phase # "unknown"
        BY <3>2, <4>1 DEF RecoveredPhase
      <4>3. durable.phase \in {"armed", "acked", "running"} /\ OwnProc
        BY <2>1, <4>1, <4>2 DEF Kin, Complete, PidReused, OwnProc
      <4>4. procs[p].start = durable.start /\ (p # durable.pid => Proc.image = "payload")
        BY <2>1, <4>3 DEF Kin
      <4>5. Live
        BY <2>1, <4>4 DEF Live, Alive
      <4>6. ~stops
        BY <1>3, <1>6, <4>4 DEF stops, Waiting, Alive
      <4> QED BY <4>5, <4>6 DEF keeps
    <3> QED BY <3>1, <3>2
  <2>5. durable'.lease /\ durable'.phase = RecoveredPhase
    BY <1>2, <2>4
  <2>6. durable'.phase \in {durable.phase, "running", "unknown"}
    BY <2>5 DEF RecoveredPhase
  <2> QED BY <1>2, <1>3, <2>1, <2>3, <2>5, <2>6 DEF Kin
<1> QED BY <1>4, <1>5, <1>6 DEF LaunchInv, KinHeld

LEMMA LaunchNextInv == LaunchInv /\ [LaunchNext]_launchVars => LaunchInv'
<1> SUFFICES ASSUME LaunchInv, [LaunchNext]_launchVars PROVE LaunchInv'
  OBVIOUS
<1>1. CASE UNCHANGED launchVars
  BY <1>1 DEF launchVars, LaunchInv, LaunchShapes, Holding, KinHeld, Kin, Alive, OwnProc, Proc
<1>2. CASE LaunchNext
  BY <1>2, ConsumeInv, BeginOtherInv, WriteIntentInv, SpawnWrapperInv, HandshakeInv,
     SendCommitInv, PayloadForksInv, ReusePidInv, LoseFieldsInv, MarkDeadInv, RecoverInv
     DEF LaunchNext
<1> QED BY <1>1, <1>2

\* LiveKeepsLease: while a process of any launch lives the lease is held and no decision would
\* free it, a payload runs only after a durable ack, and a nonce has one wrapper at most, for
\* any number of nonces, processes, crashes and lost records.
THEOREM LaunchTheorem == LaunchSpec => []LiveKeepsLease
<1>1. LaunchSpec => []LaunchInv
  BY LaunchInitInv, LaunchNextInv, PTL DEF LaunchSpec
<1> QED BY <1>1, InvKeepsLease, PTL

-----------------------------------------------------------------------------
(***************************************************************************)
(* The binding of snapshots.  A stored file is none, cut short, or what its *)
(* name says; a failed copy takes away only what it created.               *)
(***************************************************************************)

BindShapes ==
    /\ live \in [Sources -> Contents \cup {Link}]
    /\ request = [signed |-> request.signed, script |-> request.script]
    /\ request.signed \in Requests
    /\ todo \subseteq Sources
    /\ taking # NoSource => taking \in todo
    /\ taken \in [Sources -> Digests \cup {Absent}]
    /\ store \in [Digests -> Digests \cup {Absent, Partial}]
    /\ \A b \in bound : b.signed \in Requests /\ b.files \in [Sources -> Digests \cup {Absent}]

\* A stored file is none yet, cut short, or what its name says; the one being copied was
\* not there before.
StoreTrue == \A d \in Digests : store[d] \in {Absent, Partial, d}
CopyingNew == taking # NoSource /\ got = Partial => store[request.signed[taking]] = Partial

\* What was taken is stored whole, and is the signed file or the script rebound to the
\* signed interpreter; what was not taken is still to do.
TakenOf(s, digest) ==
    \/ digest = request.signed[s]
    \/ /\ request.script /\ s = Script /\ request.signed[Interpreter] # Absent
       /\ digest = Rebound(request.signed[s], request.signed[Interpreter])
WasTakenAt(s) ==
    /\ s \in todo => request.signed[s] # Absent
    /\ request.signed[s] # Absent /\ s \notin todo => taken[s] # Absent
    /\ taken[s] # Absent =>
         /\ request.signed[s] # Absent /\ store[taken[s]] = taken[s]
         /\ TakenOf(s, taken[s])
WasTaken == \A s \in Sources : WasTakenAt(s)

BindInv == BindShapes /\ StoreTrue /\ CopyingNew /\ WasTaken /\ BoundIsSigned

\* A digest is told from every mark of the store, and a rebound script from a body, by its
\* length.
LEMMA ContentsAreBodies ==
  /\ \A c \in Contents : c \in Seq(Bodies) /\ Len(c) = 1
  /\ Absent \in Seq(Bodies)
<1>1. ASSUME NEW c \in Contents PROVE c \in Seq(Bodies) /\ Len(c) = 1
  <2>1. PICK b \in Bodies : c = <<b>>
    BY DEF Contents
  <2>2. <<b>> \in Seq(Bodies) /\ Len(<<b>>) = 1
    OBVIOUS
  <2> QED BY <2>1, <2>2
<1>2. Absent \in Seq(Bodies)
  BY DEF Absent
<1> QED BY <1>1, <1>2

LEMMA JoinsToMore == ASSUME NEW a \in Seq(Bodies), NEW c \in Seq(Bodies), Len(a) = 1
                     PROVE  a \o c # Absent
<1>1. Len(a \o c) = Len(a) + Len(c) /\ Len(c) \in Nat
  BY ConcatProperties, LenProperties
<1>2. Len(Absent) = 0
  BY DEF Absent
<1> QED BY <1>1, <1>2

LEMMA DigestsApart ==
  /\ \A c \in Contents : Len(c) = 1 /\ c \in Digests
  /\ \A c, i \in Contents : Len(Rebound(c, i)) = 2 /\ Rebound(c, i) \in Digests
  /\ \A d \in Digests : d # Absent /\ d # Partial /\ d # Link
  /\ \A c, i \in Contents : Rebound(c, i) \notin Contents
<1>1. \A c \in Contents : Len(c) = 1 /\ c \in Digests /\ c \in Seq(Bodies)
  BY ContentsAreBodies DEF Digests
<1>2. \A c, i \in Contents : Len(Rebound(c, i)) = 2 /\ Rebound(c, i) \in Digests
  <2>1. ASSUME NEW c \in Contents, NEW i \in Contents PROVE Len(Rebound(c, i)) = 2
    <3>1. c \in Seq(Bodies) /\ i \in Seq(Bodies) /\ Len(c) = 1 /\ Len(i) = 1
      BY <1>1
    <3> QED BY <3>1 DEF Rebound
  <2>2. \A c, i \in Contents : Rebound(c, i) \in Digests
    BY DEF Digests
  <2> QED BY <2>1, <2>2
<1>3. \A d \in Digests : Len(d) = 1 \/ Len(d) = 2
  BY <1>1, <1>2 DEF Digests
<1>4. Len(Absent) = 0 /\ Len(Partial) = 3 /\ Len(Link) = 3
  BY DEF Absent, Partial, Link
<1>5. \A d \in Digests : d # Absent /\ d # Partial /\ d # Link
  BY <1>3, <1>4
<1>6. \A c, i \in Contents : Rebound(c, i) \notin Contents
  BY <1>1, <1>2
<1> QED BY <1>1, <1>2, <1>5, <1>6

LEMMA BindInitInv == BindInit => BindInv
<1> SUFFICES ASSUME BindInit PROVE BindInv
  OBVIOUS
<1> USE DEF BindInit, NoRequest, NoneTaken
<1>1. BindShapes
  BY DEF BindShapes, Requests
<1>2. StoreTrue /\ CopyingNew /\ BoundIsSigned
  BY DEF StoreTrue, CopyingNew, BoundIsSigned
<1>3. WasTaken
  BY DEF WasTaken, WasTakenAt
<1> QED BY <1>1, <1>2, <1>3 DEF BindInv

\* A whole file stays; so every command that was returned keeps its files.
LEMMA BoundStays ==
  ASSUME BindInv, bound' = bound, store' \in [Digests -> Digests \cup {Absent, Partial}],
         \A d \in Digests : store[d] = d => store'[d] = d
  PROVE  BoundIsSigned'
<1> SUFFICES ASSUME NEW b \in bound, NEW s \in Sources, b.signed[s] # Absent
             PROVE  /\ store'[b.files[s]] = b.files[s]
                    /\ b.files[s] = IF b.script /\ s = Script
                                    THEN Rebound(b.signed[s], b.signed[Interpreter]) ELSE b.signed[s]
  BY DEF BoundIsSigned
<1>1. /\ store[b.files[s]] = b.files[s]
      /\ b.files[s] = IF b.script /\ s = Script
                      THEN Rebound(b.signed[s], b.signed[Interpreter]) ELSE b.signed[s]
  BY DEF BindInv, BoundIsSigned
<1>2. b.files[s] \in Digests
  <2>1. b.signed[s] \in Contents
    BY DEF BindInv, BindShapes, Requests
  <2>2. b.files[s] # Absent
    <3>1. CASE ~(b.script /\ s = Script)
      BY <1>1, <3>1
    <3>2. CASE b.script /\ s = Script
      <4>2. b.files[s] = b.signed[s] \o b.signed[Interpreter]
        BY <1>1, <3>2 DEF Rebound
      <4>3. b.signed[s] \in Seq(Bodies) /\ Len(b.signed[s]) = 1
        BY <2>1, ContentsAreBodies
      <4>4. b.signed[Interpreter] \in Seq(Bodies)
        BY SourcesAssumption, ContentsAreBodies DEF BindInv, BindShapes, Requests
      <4> QED BY <4>2, <4>3, <4>4, JoinsToMore
    <3> QED BY <3>1, <3>2
  <2> QED BY <2>2 DEF BindInv, BindShapes
<1> QED BY <1>1, <1>2

\* A bind that ends, or has not begun, has taken nothing.
LEMMA EndsClean ==
  ASSUME BindInv, BindEnds, live' = live,
         \A b \in bound' : b.signed \in Requests /\ b.files \in [Sources -> Digests \cup {Absent}],
         store' \in [Digests -> Digests \cup {Absent, Partial}]
  PROVE  BindShapes' /\ CopyingNew' /\ WasTaken'
<1> USE DEF BindEnds, NoRequest, NoneTaken
<1>1. BindShapes'
  BY DEF BindInv, BindShapes, Requests
<1>2. CopyingNew'
  BY DEF CopyingNew
<1>3. WasTaken'
  BY DEF WasTaken, WasTakenAt
<1> QED BY <1>1, <1>2, <1>3

LEMMA BeginsInv == ASSUME BindInv, NEW signed \in Requests, NEW script \in BOOLEAN, Bind(signed, script)
                   PROVE  BindInv'
<1> USE DEF Bind
<1>1. BindShapes'
  BY DEF BindInv, BindShapes, NoneTaken
<1>2. StoreTrue' /\ CopyingNew' /\ BoundIsSigned'
  BY DEF BindInv, StoreTrue, CopyingNew, BoundIsSigned
<1>3. WasTaken'
  BY DEF WasTaken, WasTakenAt, NoneTaken
<1> QED BY <1>1, <1>2, <1>3 DEF BindInv

LEMMA DiesInv == BindInv /\ BindDies => BindInv'
<1> SUFFICES ASSUME BindInv, BindDies PROVE BindInv'
  OBVIOUS
<1>1. BindShapes' /\ CopyingNew' /\ WasTaken'
  BY EndsClean DEF BindDies, BindInv, BindShapes
<1>2. StoreTrue' /\ BoundIsSigned'
  BY DEF BindDies, BindInv, StoreTrue, BoundIsSigned
<1> QED BY <1>1, <1>2 DEF BindInv

\* The destination is created where nothing was: nothing whole is lost.
LEMMA OpenInv == ASSUME BindInv, NEW s \in Sources, Open(s) PROVE BindInv'
<1> DEFINE d == request.signed[s]
<1>1. /\ taking = NoSource /\ s \in todo /\ taking' = s /\ live[s] \in Contents
      /\ UNCHANGED <<live, temp, request, bound, binds, todo, taken>>
  BY DEF Open, NothingElse, BindInv, BindShapes
<1>2. d \in Digests
  BY <1>1, DigestsApart DEF BindInv, BindShapes, WasTaken, WasTakenAt, Requests
<1>3. \/ store[d] = Absent /\ store' = [store EXCEPT ![d] = Partial] /\ got' = Partial
      \/ got' # Partial /\ store' = store
  BY <1>1, DigestsApart DEF Open
<1> HIDE DEF d
<1>4. /\ store' \in [Digests -> Digests \cup {Absent, Partial}]
      /\ \A e \in Digests : store'[e] = store[e] \/ (e = d /\ store[e] = Absent /\ store'[e] = Partial)
      /\ got' = Partial => store'[d] = Partial
  BY <1>2, <1>3 DEF BindInv, BindShapes
<1>5. BindShapes'
  BY <1>1, <1>4 DEF BindInv, BindShapes
<1>6. StoreTrue'
  BY <1>4 DEF BindInv, StoreTrue
<1>7. CopyingNew'
  BY <1>1, <1>4 DEF CopyingNew, d
<1>8. \A e \in Digests : store[e] = e => store'[e] = e
  BY <1>4, DigestsApart
<1>9. WasTaken'
  BY <1>1, <1>8 DEF BindInv, BindShapes, WasTaken, WasTakenAt, TakenOf
<1>10. BoundIsSigned'
  BY <1>1, <1>4, <1>8, BoundStays
<1> QED BY <1>5, <1>6, <1>7, <1>9, <1>10 DEF BindInv

LEMMA CopyInv == BindInv /\ Copy => BindInv'
<1> SUFFICES ASSUME BindInv, Copy PROVE BindInv'
  OBVIOUS
<1> DEFINE d == request.signed[taking]
<1>1. /\ taking \in todo /\ taking \in Sources /\ got = Partial
      /\ UNCHANGED <<live, temp, request, bound, binds, todo, taken, taking>>
      /\ got' = d /\ store' = [store EXCEPT ![d] = d]
  BY DEF Copy, NothingElse, BindInv, BindShapes
<1>2. d \in Digests
  BY <1>1, DigestsApart DEF BindInv, BindShapes, WasTaken, WasTakenAt, Requests
<1> HIDE DEF d
<1>3. /\ store' \in [Digests -> Digests \cup {Absent, Partial}]
      /\ \A e \in Digests : store'[e] = store[e] \/ (e = d /\ store'[e] = d)
  BY <1>1, <1>2 DEF BindInv, BindShapes
<1>4. BindShapes'
  BY <1>1, <1>3 DEF BindInv, BindShapes
<1>5. StoreTrue'
  BY <1>3 DEF BindInv, StoreTrue
<1>6. CopyingNew'
  BY <1>1, <1>2, DigestsApart DEF CopyingNew
<1>7. \A e \in Digests : store[e] = e => store'[e] = e
  BY <1>3
<1>8. WasTaken'
  BY <1>1, <1>7 DEF BindInv, BindShapes, WasTaken, WasTakenAt, TakenOf
<1>9. BoundIsSigned'
  BY <1>1, <1>3, <1>7, BoundStays
<1> QED BY <1>4, <1>5, <1>6, <1>8, <1>9 DEF BindInv

\* What a failed copy removes is what it created.
LEMMA CopyFailsInv == BindInv /\ CopyFails => BindInv'
<1> SUFFICES ASSUME BindInv, CopyFails PROVE BindInv'
  OBVIOUS
<1> DEFINE d == request.signed[taking]
<1>1. /\ taking \in todo /\ taking \in Sources /\ BindEnds
      /\ UNCHANGED <<live, bound, binds>> /\ store[d] = Partial
      /\ store' = [store EXCEPT ![d] = Absent]
  BY DEF CopyFails, BindInv, BindShapes, CopyingNew
<1>2. d \in Digests
  BY <1>1, DigestsApart DEF BindInv, BindShapes, WasTaken, WasTakenAt, Requests
<1> HIDE DEF d
<1>3. /\ store' \in [Digests -> Digests \cup {Absent, Partial}]
      /\ \A e \in Digests : store'[e] = store[e] \/ (e = d /\ store'[e] = Absent)
      /\ \A e \in Digests : store[e] = e => store'[e] = e
  BY <1>1, <1>2, DigestsApart DEF BindInv, BindShapes
<1>4. BindShapes' /\ CopyingNew' /\ WasTaken'
  BY <1>1, <1>3, EndsClean DEF BindInv, BindShapes
<1>5. StoreTrue'
  BY <1>3 DEF BindInv, StoreTrue
<1>6. BoundIsSigned'
  BY <1>1, <1>3, BoundStays
<1> QED BY <1>4, <1>5, <1>6 DEF BindInv

LEMMA TakeInv == BindInv /\ Take => BindInv'
<1> SUFFICES ASSUME BindInv, Take PROVE BindInv'
  OBVIOUS
<1>1. /\ taking \in todo /\ taking \in Sources /\ taking' = NoSource
      /\ got = request.signed[taking] /\ store[got] = got
      /\ taken' = [taken EXCEPT ![taking] = got] /\ todo' = todo \ {taking}
      /\ UNCHANGED <<live, temp, request, bound, binds, store>>
  BY DEF Take, Reusable, NothingElse, BindInv, BindShapes
<1>2. got \in Digests /\ got # Absent
  BY <1>1, DigestsApart DEF BindInv, BindShapes, WasTaken, WasTakenAt, Requests
<1>3. /\ taken' \in [Sources -> Digests \cup {Absent}] /\ taken'[taking] = got
      /\ \A s \in Sources : s # taking => taken'[s] = taken[s]
  BY <1>1, <1>2 DEF BindInv, BindShapes
<1>4. BindShapes'
  BY <1>1, <1>3 DEF BindInv, BindShapes
<1>5. StoreTrue' /\ CopyingNew' /\ BoundIsSigned'
  BY <1>1 DEF BindInv, StoreTrue, CopyingNew, BoundIsSigned
<1>6. WasTaken'
  <2>1. ASSUME NEW s \in Sources PROVE WasTakenAt(s)'
    <3>1. CASE s = taking
      BY <1>1, <1>2, <1>3, <3>1 DEF BindInv, WasTaken, WasTakenAt, TakenOf
    <3>2. CASE s # taking
      BY <1>1, <1>3, <3>2 DEF BindInv, WasTaken, WasTakenAt, TakenOf
    <3> QED BY <3>1, <3>2
  <2> QED BY <2>1 DEF WasTaken
<1> QED BY <1>4, <1>5, <1>6 DEF BindInv

LEMMA EditInv == ASSUME BindInv, NEW s \in Sources, NEW c \in Contents \cup {Link}, Edit(s, c) PROVE BindInv'
<1>1. UNCHANGED <<store, temp, request, todo, taking, got, taken, bound, binds>>
      /\ live' = [live EXCEPT ![s] = c]
  BY DEF Edit
<1>2. BindShapes'
  BY <1>1 DEF BindInv, BindShapes
<1> QED BY <1>1, <1>2 DEF BindInv, StoreTrue, CopyingNew, WasTaken, WasTakenAt, TakenOf, BoundIsSigned

LEMMA WriteTempInv == BindInv /\ WriteTemp => BindInv'
  BY DEF WriteTemp, BindInv, BindShapes, StoreTrue, CopyingNew, WasTaken, WasTakenAt, TakenOf, BoundIsSigned

\* What is rebound is the signed script to the signed interpreter.
LEMMA RebindsSigned ==
  ASSUME BindInv, Rebinding
  PROVE  /\ taken[Script] = request.signed[Script] /\ request.signed[Script] \in Contents
         /\ taken[Interpreter] = request.signed[Interpreter] /\ request.signed[Interpreter] \in Contents
         /\ request.script
<1>1. request.script /\ taken[Interpreter] # Absent /\ taken[Script] \in Contents
  BY DEF Rebinding
<1>2. taken[Script] # Absent
  BY <1>1, DigestsApart
<1>3. WasTakenAt(Script) /\ WasTakenAt(Interpreter)
  BY SourcesAssumption DEF BindInv, WasTaken
<1>4. request.signed[Script] \in Contents /\ request.signed[Interpreter] \in Contents
  BY <1>1, <1>2, <1>3, SourcesAssumption DEF WasTakenAt, BindInv, BindShapes, Requests
<1>5. taken[Script] = request.signed[Script]
  BY <1>1, <1>2, <1>3, <1>4, DigestsApart DEF WasTakenAt, TakenOf
<1>6. taken[Interpreter] = request.signed[Interpreter]
  BY <1>1, <1>3, <1>5 DEF WasTakenAt, TakenOf
<1> QED BY <1>1, <1>4, <1>5, <1>6

LEMMA LinkTempInv == BindInv /\ LinkTemp => BindInv'
<1> SUFFICES ASSUME BindInv, LinkTemp PROVE BindInv'
  OBVIOUS
<1> DEFINE d == RebindsTo
<1>1. /\ request # NoRequest /\ todo = {} /\ Rebinding
      /\ UNCHANGED <<live, request, todo, taking, got, bound, binds>>
      /\ taken' = [taken EXCEPT ![Script] = d]
      /\ \/ store[d] # Absent /\ store' = store /\ store[d] = d
         \/ store[d] = Absent /\ store' = [store EXCEPT ![d] = d]
  BY DEF LinkTemp, Reusable
<1>2. /\ d = Rebound(request.signed[Script], request.signed[Interpreter])
      /\ d \in Digests /\ d # Absent
      /\ request.signed[Script] # Absent /\ request.signed[Interpreter] # Absent /\ request.script
  BY <1>1, RebindsSigned, DigestsApart DEF RebindsTo
<1> HIDE DEF d
<1>3. /\ store' \in [Digests -> Digests \cup {Absent, Partial}] /\ store'[d] = d
      /\ \A e \in Digests : store'[e] = store[e] \/ (e = d /\ store'[e] = d)
  BY <1>1, <1>2 DEF BindInv, BindShapes
<1>4. /\ taken' \in [Sources -> Digests \cup {Absent}] /\ taken'[Script] = d
      /\ \A s \in Sources : s # Script => taken'[s] = taken[s]
  BY <1>1, <1>2, SourcesAssumption DEF BindInv, BindShapes
<1>5. BindShapes'
  BY <1>1, <1>3, <1>4 DEF BindInv, BindShapes
<1>6. StoreTrue'
  BY <1>3 DEF BindInv, StoreTrue
<1>7. CopyingNew'
  BY <1>1 DEF CopyingNew, BindInv, BindShapes
<1>8. \A e \in Digests : store[e] = e => store'[e] = e
  BY <1>3
<1>9. WasTaken'
  <2>1. ASSUME NEW s \in Sources PROVE WasTakenAt(s)'
    <3>1. CASE s = Script
      BY <1>1, <1>2, <1>3, <1>4, <3>1 DEF WasTakenAt, TakenOf
    <3>2. CASE s # Script
      BY <1>1, <1>4, <1>8, <3>2 DEF BindInv, BindShapes, WasTaken, WasTakenAt, TakenOf
    <3> QED BY <3>1, <3>2
  <2> QED BY <2>1 DEF WasTaken
<1>10. BoundIsSigned'
  BY <1>1, <1>3, <1>8, BoundStays
<1> QED BY <1>5, <1>6, <1>7, <1>9, <1>10 DEF BindInv

\* Nothing is left to take, and a script whose interpreter was taken was rebound.
LEMMA ReturnInv == BindInv /\ Return => BindInv'
<1> SUFFICES ASSUME BindInv, Return PROVE BindInv'
  OBVIOUS
<1> DEFINE b == [signed |-> request.signed, files |-> taken, script |-> request.script]
<1>1. /\ todo = {} /\ ~Rebinding /\ (request.script => taken[Interpreter] # Absent)
      /\ bound' = bound \cup {b} /\ BindEnds /\ UNCHANGED <<live, store, binds>>
      /\ request # NoRequest
  BY DEF Return
<1>2. b.signed \in Requests /\ b.files \in [Sources -> Digests \cup {Absent}]
  BY DEF BindInv, BindShapes
<1>3. BindShapes' /\ CopyingNew' /\ WasTaken'
  BY <1>1, <1>2, EndsClean DEF BindInv, BindShapes
<1>4. ASSUME NEW s \in Sources, request.signed[s] # Absent
      PROVE  /\ store[taken[s]] = taken[s]
             /\ taken[s] = IF request.script /\ s = Script
                           THEN Rebound(request.signed[s], request.signed[Interpreter])
                           ELSE request.signed[s]
  <2>1. taken[s] # Absent /\ store[taken[s]] = taken[s] /\ TakenOf(s, taken[s])
    BY <1>1, <1>4 DEF BindInv, WasTaken, WasTakenAt
  <2>2. request.script /\ s = Script => taken[s] # request.signed[s]
    BY <1>1, <1>4 DEF Rebinding, BindInv, BindShapes, Requests
  <2> QED BY <2>1, <2>2 DEF TakenOf
<1>5. BoundIsSigned'
  <2> SUFFICES ASSUME NEW x \in bound', NEW s \in Sources, x.signed[s] # Absent
               PROVE  /\ store[x.files[s]] = x.files[s]
                      /\ x.files[s] = IF x.script /\ s = Script
                                      THEN Rebound(x.signed[s], x.signed[Interpreter]) ELSE x.signed[s]
    BY <1>1 DEF BoundIsSigned
  <2>1. CASE x \in bound
    BY <2>1 DEF BindInv, BoundIsSigned
  <2>2. CASE x = b
    BY <1>4, <2>2
  <2> HIDE DEF b
  <2> QED BY <1>1, <2>1, <2>2
<1>6. StoreTrue'
  BY <1>1 DEF BindInv, StoreTrue
<1> QED BY <1>3, <1>5, <1>6 DEF BindInv

LEMMA BindNextInv == BindInv /\ [BindNext]_bindVars => BindInv'
<1> SUFFICES ASSUME BindInv, [BindNext]_bindVars PROVE BindInv'
  OBVIOUS
<1>1. CASE UNCHANGED bindVars
  BY <1>1 DEF bindVars, BindInv, BindShapes, StoreTrue, CopyingNew, WasTaken, WasTakenAt, TakenOf,
              BoundIsSigned
<1>2. CASE BindNext
  BY <1>2, BeginsInv, DiesInv, OpenInv, CopyInv, CopyFailsInv, TakeInv, EditInv, WriteTempInv,
     LinkTempInv, ReturnInv DEF BindNext
<1> QED BY <1>1, <1>2

\* BoundIsSigned: the files of every returned command hold the signed bytes, then and after any
\* later bind, for any files, edits, failures and deaths of bind_execution.
THEOREM BoundTheorem == BindSpec => []BoundIsSigned
<1>1. BindSpec => []BindInv
  BY BindInitInv, BindNextInv, PTL DEF BindSpec
<1>2. BindInv => BoundIsSigned
  BY DEF BindInv
<1> QED BY <1>1, <1>2, PTL

-----------------------------------------------------------------------------
(***************************************************************************)
(* The evidence.  A report is preserved before it is named, a move of the  *)
(* pointer during postflight is remembered, and what a reader has compared *)
(* has not changed unless the workspace was edited under it.               *)
(***************************************************************************)

CheckerFields == {"pc", "before", "runtime", "inputs", "outs", "judged", "ran", "missing",
                  "met", "report"}
CheckerShape(k) == k = [f \in CheckerFields |-> k[f]]
EvidenceShapes ==
    /\ checker = [c \in Checkers |-> checker[c]]
    /\ \A c \in Checkers : CheckerShape(checker[c])
    /\ binder = [pc |-> binder.pc, loaded |-> binder.loaded]
    /\ reader = [pc |-> reader.pc, report |-> reader.report, todo |-> reader.todo,
                 edited |-> reader.edited]
    /\ parts = [p \in Parts |-> parts[p]]

\* What a file names, or is about to name, is preserved.
Preserved ==
    /\ EvidenceStands
    /\ binder.loaded \in captures \cup {None}
    /\ \A c \in Checkers : checker[c].pc \in {"captured", "pointed"} => checker[c].report \in captures

\* From the comparison on, the report that postflight binds is the pointer's, unless a check
\* moved the pointer meanwhile; and there is one postflight.
BindsPointer ==
    /\ Binding("compared") /\ ~moved /\ binder.loaded # None => pointer = binder.loaded
    /\ Binding("issued") /\ ~moved /\ certificate.binds # None => pointer = certificate.binds
    /\ phase = "postflighted" => Binding("idle")
    /\ BindsWhatStood

\* What a freshness evaluation read before, in its order, is unchanged if nobody edited.
WasRead(k) ==
    /\ reader.todo \in Seq(Parts) /\ Len(reader.todo) = 5 - k
    /\ \A i \in 1..(5 - k) : reader.todo[i] = ReadOrder[k + i]
    /\ ~reader.edited =>
         \A i \in 1..k : ~Changed(reader.report, ReadOrder[i], parts[ReadOrder[i]])
ReadsInOrder ==
    /\ reader.pc = "loaded" => reader.report \in captures
    /\ reader.pc \in {"reading", "applicable"} =>
         reader.report.certifiable /\ reader.report \in captures
    /\ reader.pc = "reading" => \E k \in 0..5 : WasRead(k)
    /\ reader.pc = "applicable" => WasRead(5)

EvidenceInv == EvidenceShapes /\ Preserved /\ BindsPointer /\ ReadsInOrder

-----------------------------------------------------------------------------
LEMMA EvidenceInitInv == EvidenceInit => EvidenceInv
<1> SUFFICES ASSUME EvidenceInit PROVE EvidenceInv
  OBVIOUS
<1> USE DEF EvidenceInit, NotBinding, NotReading, NoReceipt
<1>1. EvidenceShapes
  BY DEF EvidenceShapes, CheckerShape, CheckerFields, Idle
<1>2. Preserved
  BY DEF Preserved, EvidenceStands, Idle
<1>3. BindsPointer
  BY DEF BindsPointer, BindsWhatStood, Binding
<1>4. ReadsInOrder
  BY DEF ReadsInOrder
<1> QED BY <1>1, <1>2, <1>3, <1>4 DEF EvidenceInv

\* A step of one check changes what that check holds and keeps its shape.
CheckStep(c) ==
    \/ Authorize(c) \/ Begin(c) \/ Fingerprint(c) \/ RunCheck(c) \/ End(c)
    \/ Capture(c) \/ Point(c) \/ Attest(c) \/ CheckEnds(c)

LEMMA GoesOn ==
  ASSUME EvidenceShapes, NEW c \in Checkers, NEW pc, Goes(c, pc)
  PROVE  /\ checker' = [x \in Checkers |-> checker'[x]]
         /\ \A x \in Checkers : x # c => checker'[x] = checker[x]
         /\ checker'[c] = [checker[c] EXCEPT !.pc = pc]
         /\ CheckerShape(checker'[c]) /\ checker'[c].pc = pc
         /\ checker'[c].report = checker[c].report
<1>1. /\ checker' = [x \in Checkers |-> checker'[x]]
      /\ \A x \in Checkers : x # c => checker'[x] = checker[x]
      /\ checker'[c] = [checker[c] EXCEPT !.pc = pc]
  BY DEF EvidenceShapes, Goes
<1>2. CheckerShape(checker[c])
  BY DEF EvidenceShapes
<1>3. \A k : CheckerShape(k) =>
         LET d == [k EXCEPT !.pc = pc] IN CheckerShape(d) /\ d.pc = pc /\ d.report = k.report
  BY DEF CheckerShape, CheckerFields
<1> QED BY <1>1, <1>2, <1>3

\* What the steps make of a check's record.
BegunAs(k, b, r) == [k EXCEPT !.pc = "checking", !.before = b, !.runtime = r]
Fingerprinted(k, s, v, j) == [k EXCEPT !.inputs = s, !.missing = v = 0, !.judged = j, !.ran = FALSE]
RanAs(k, s, h) == [k EXCEPT !.outs = s, !.ran = TRUE, !.met = h]
ReportedAs(r, h) == [Idle EXCEPT !.pc = "reported", !.report = r, !.met = h]

GoneTo(k, pc) == [k EXCEPT !.pc = pc]
LEMMA GoneRecord ==
  ASSUME NEW k, CheckerShape(k), NEW pc
  PROVE  LET d == GoneTo(k, pc)
         IN  /\ CheckerShape(d) /\ d.pc = pc /\ d.report = k.report
             /\ d.judged = k.judged /\ d.ran = k.ran /\ d.met = k.met /\ d.outs = k.outs
  BY DEF GoneTo, CheckerShape, CheckerFields

LEMMA BegunRecord ==
  ASSUME NEW k, CheckerShape(k), NEW b, NEW r
  PROVE  LET d == BegunAs(k, b, r)
         IN  /\ CheckerShape(d) /\ d.pc = "checking" /\ d.report = k.report
             /\ d.judged = k.judged /\ d.ran = k.ran /\ d.met = k.met /\ d.outs = k.outs
  BY DEF BegunAs, CheckerShape, CheckerFields

LEMMA FingerprintedRecord ==
  ASSUME NEW k, CheckerShape(k), NEW s, NEW v, NEW j
  PROVE  LET d == Fingerprinted(k, s, v, j)
         IN  /\ CheckerShape(d) /\ d.pc = k.pc /\ d.report = k.report
             /\ d.judged = j /\ d.met = k.met /\ d.outs = k.outs
  BY DEF Fingerprinted, CheckerShape, CheckerFields

LEMMA RanRecord ==
  ASSUME NEW k, CheckerShape(k), NEW s, NEW h
  PROVE  LET d == RanAs(k, s, h)
         IN  /\ CheckerShape(d) /\ d.pc = k.pc /\ d.report = k.report
             /\ d.judged = k.judged /\ d.ran /\ d.met = h /\ d.outs = s
  BY DEF RanAs, CheckerShape, CheckerFields

LEMMA ReportedRecord ==
  ASSUME NEW r, NEW h
  PROVE  LET d == ReportedAs(r, h)
         IN  /\ CheckerShape(d) /\ d.pc = "reported" /\ d.report = r
             /\ d.judged = 0 /\ d.ran /\ d.met = h
  BY DEF ReportedAs, CheckerShape, CheckerFields, Idle

LEMMA IdleRecord == /\ CheckerShape(Idle) /\ Idle.pc = "idle" /\ Idle.report = None
                    /\ Idle.judged = 0 /\ Idle.ran /\ Idle.met /\ Idle.outs = {}
  BY DEF CheckerShape, CheckerFields, Idle

\* One check's record is replaced.
Replaced(c, d) ==
    /\ checker' = [x \in Checkers |-> checker'[x]]
    /\ \A x \in Checkers : x # c => checker'[x] = checker[x]
    /\ checker'[c] = d

LEMMA Replaces ==
  ASSUME EvidenceShapes, NEW c \in Checkers, NEW d, checker' = [checker EXCEPT ![c] = d]
  PROVE  Replaced(c, d)
  BY DEF EvidenceShapes, Replaced

LEMMA CheckerSteps ==
  ASSUME EvidenceShapes, NEW c \in Checkers, CheckStep(c)
  PROVE  /\ Replaced(c, checker'[c]) /\ CheckerShape(checker'[c])
         /\ \/ Capture(c) /\ checker'[c].report = checker[c].report
            \/ Point(c) /\ checker'[c].report = checker[c].report
            \/ checker'[c].pc \notin {"captured", "pointed"}
<1> DEFINE Goal(d) == Replaced(c, d) /\ CheckerShape(d) /\ d.pc \notin {"captured", "pointed"}
<1>0. CheckerShape(checker[c])
  BY DEF EvidenceShapes
<1>1. CASE Capture(c) \/ Point(c) \/ Attest(c)
  BY <1>1, GoesOn DEF Capture, Point, Attest, Replaced
<1>2. CASE Authorize(c) \/ End(c) \/ CheckEnds(c)
  <2>1. CASE Authorize(c)
    <3>1. checker' = [checker EXCEPT ![c] = GoneTo(Idle, "authorized")]
      BY <2>1 DEF Authorize, GoneTo
    <3>2. CheckerShape(GoneTo(Idle, "authorized")) /\ GoneTo(Idle, "authorized").pc = "authorized"
      BY IdleRecord, GoneRecord
    <3> QED BY <3>1, <3>2, Replaces DEF Replaced
  <2>2. CASE End(c)
    BY <2>2, Replaces, ReportedRecord DEF End, Replaced, ReportedAs
  <2>3. CASE CheckEnds(c)
    BY <2>3, Replaces, IdleRecord DEF CheckEnds, Replaced
  <2> QED BY <1>2, <2>1, <2>2, <2>3
<1>3. CASE Begin(c)
  <2>1. CASE lease = NoLease
    <3> DEFINE d == BegunAs(checker[c], parts["source"], parts["runtime"])
    <3>1. checker' = [checker EXCEPT ![c] = d]
      BY <1>3, <2>1 DEF Begin, BegunAs
    <3>2. CheckerShape(d) /\ d.pc = "checking"
      BY <1>0, BegunRecord
    <3> HIDE DEF d
    <3> QED BY <3>1, <3>2, Replaces DEF Replaced
  <2>2. CASE lease # NoLease
    BY <1>3, <2>2, GoesOn DEF Begin, Replaced
  <2> QED BY <2>1, <2>2
<1>4. CASE Fingerprint(c)
  <2> DEFINE d == Fingerprinted(checker[c], checker[c].inputs \cup {parts["input"]}, parts["input"],
                                checker[c].judged + 1)
  <2>1. checker' = [checker EXCEPT ![c] = d] /\ checker[c].pc = "checking"
    BY <1>4 DEF Fingerprint, At, Fingerprinted
  <2>2. CheckerShape(d) /\ d.pc = "checking"
    BY <1>0, <2>1, FingerprintedRecord
  <2> HIDE DEF d
  <2> QED BY <2>1, <2>2, Replaces DEF Replaced
<1>5. CASE RunCheck(c)
  <2>2. \E o, m : Adds(c, o, m)
    BY <1>5 DEF RunCheck
  <2>3. PICK o, m : Adds(c, o, m)
    BY <2>2
  <2> DEFINE d == RanAs(checker[c], {Aggregate(checker[c].outs \cup {o}, FALSE)},
                        checker[c].met /\ m)
  <2>4. checker' = [checker EXCEPT ![c] = d] /\ checker[c].pc = "checking"
    BY <1>5, <2>3 DEF Adds, RunCheck, At, RanAs
  <2>5. CheckerShape(d) /\ d.pc = "checking"
    BY <1>0, <2>4, RanRecord
  <2> HIDE DEF d
  <2> QED BY <2>4, <2>5, Replaces DEF Replaced
<1> QED BY <1>1, <1>2, <1>3, <1>4, <1>5 DEF CheckStep

\* The checks: a report is captured before the pointer or the attestation names it, and a
\* pointer written while postflight binds, or after, is recorded as moved.
LEMMA CheckStepInv == ASSUME EvidenceInv, NEW c \in Checkers, CheckStep(c) PROVE EvidenceInv'
<1> USE DEF EvidenceInv
<1>1. /\ Replaced(c, checker'[c]) /\ CheckerShape(checker'[c])
      /\ \/ Capture(c) /\ checker'[c].report = checker[c].report
         \/ Point(c) /\ checker'[c].report = checker[c].report
         \/ checker'[c].pc \notin {"captured", "pointed"}
  BY CheckerSteps
<1>2. /\ UNCHANGED <<parts, phase, certificate, binder, reader>>
      /\ captures \subseteq captures'
      /\ Point(c) \/ UNCHANGED <<pointer, moved>>
      /\ Attest(c) \/ attestation' = attestation
  BY DEF CheckStep, Authorize, Begin, Fingerprint, RunCheck, End, Capture, Point, Attest, CheckEnds,
         workspaceVars, evidenceFiles
<1>3. EvidenceShapes'
  BY <1>1, <1>2 DEF EvidenceShapes, Replaced
<1>4. Preserved'
  <2>1. {pointer', attestation', certificate'.binds} \subseteq captures' \cup {None}
    <3>1. CASE Point(c)
      <4>1. checker[c].report \in captures
        BY <3>1 DEF Point, At, Preserved
      <4> QED BY <1>2, <3>1, <4>1 DEF Point, Preserved, EvidenceStands
    <3>2. CASE Attest(c)
      <4>1. checker[c].report \in captures
        BY <3>2 DEF Attest, At, Preserved
      <4> QED BY <1>2, <3>2, <4>1 DEF Attest, Preserved, EvidenceStands
    <3>3. CASE ~Point(c) /\ ~Attest(c)
      BY <1>2, <3>3 DEF Preserved, EvidenceStands
    <3> QED BY <3>1, <3>2, <3>3
  <2>2. ASSUME NEW x \in Checkers, checker'[x].pc \in {"captured", "pointed"}
        PROVE  checker'[x].report \in captures'
    <3>1. CASE x # c
      BY <1>1, <1>2, <2>2, <3>1 DEF Replaced, Preserved
    <3>2. CASE x = c
      BY <1>1, <1>2, <2>2, <3>2 DEF Capture, Point, At, Preserved
    <3> QED BY <3>1, <3>2
  <2> QED BY <1>2, <2>1, <2>2 DEF Preserved, EvidenceStands
<1>5. BindsPointer'
  <2>1. CASE Point(c)
    BY <1>2, <2>1 DEF Point, BindsPointer, BindsWhatStood, Binding
  <2>2. CASE ~Point(c)
    BY <1>2, <2>2 DEF BindsPointer, BindsWhatStood, Binding
  <2> QED BY <2>1, <2>2
<1>6. ReadsInOrder'
  BY <1>2 DEF ReadsInOrder, WasRead
<1> QED BY <1>3, <1>4, <1>5, <1>6

\* Postflight and abandon.
BindStep ==
    \/ PostflightBegins \/ ReadAttestation \/ CompareCurrent \/ WriteReceipt
    \/ Postflighted \/ PostflightDies \/ AbandonRun

LEMMA BindStepInv == EvidenceInv /\ BindStep => EvidenceInv'
<1> SUFFICES ASSUME EvidenceInv, BindStep PROVE EvidenceInv'
  OBVIOUS
<1> USE DEF EvidenceInv
<1>1. UNCHANGED <<parts, checker, captures, pointer, attestation, reader>>
  BY DEF BindStep, PostflightBegins, ReadAttestation, CompareCurrent, WriteReceipt, Postflighted,
         PostflightDies, AbandonRun, workspaceVars, evidenceFiles
<1>2. binder' = [pc |-> binder'.pc, loaded |-> binder'.loaded]
      /\ binder'.loaded \in captures \cup {None}
  BY DEF BindStep, PostflightBegins, ReadAttestation, CompareCurrent, WriteReceipt, Postflighted,
         PostflightDies, AbandonRun, NotBinding, Preserved, EvidenceStands, EvidenceShapes
<1>3. certificate'.binds \in captures \cup {None}
  BY DEF BindStep, PostflightBegins, ReadAttestation, CompareCurrent, WriteReceipt, Postflighted,
         PostflightDies, AbandonRun, Preserved, EvidenceStands, evidenceFiles
<1>4. EvidenceShapes' /\ Preserved' /\ ReadsInOrder'
  BY <1>1, <1>2, <1>3 DEF EvidenceShapes, Preserved, EvidenceStands, ReadsInOrder, WasRead
<1>5. BindsPointer'
  <2> USE DEF BindsPointer, BindsWhatStood, Binding
  <2>1. CASE PostflightBegins
    BY <2>1 DEF PostflightBegins, NotBinding, evidenceFiles
  <2>2. CASE ReadAttestation
    BY <2>2 DEF ReadAttestation
  <2>3. CASE CompareCurrent
    BY <2>3 DEF CompareCurrent, BindsReport, evidenceFiles
  <2>4. CASE WriteReceipt
    BY <2>4 DEF WriteReceipt, EvidenceShapes
  <2>5. CASE Postflighted
    BY <2>5 DEF Postflighted, NotBinding, evidenceFiles
  <2>6. CASE PostflightDies
    BY <2>6 DEF PostflightDies, NotBinding
  <2>7. CASE AbandonRun
    BY <2>7 DEF AbandonRun, evidenceFiles
  <2> QED BY <2>1, <2>2, <2>3, <2>4, <2>5, <2>6, <2>7 DEF BindStep
<1> QED BY <1>4, <1>5

\* A freshness evaluation.
LEMMA Reads == ReadOrder \in Seq(Parts) /\ Len(ReadOrder) = 5 /\ {ReadOrder[i] : i \in 1..5} = Parts
  BY DEF ReadOrder, Parts

ReadStep == LoadReport \/ ReadAuthenticity \/ ReadPart \/ Conclude \/ ForgetVerdict

LEMMA ReadPartInv == EvidenceInv /\ ReadPart => ReadsInOrder'
<1> SUFFICES ASSUME EvidenceInv, ReadPart PROVE ReadsInOrder'
  OBVIOUS
<1> USE DEF EvidenceInv
<1>1. reader.pc = "reading" /\ reader.todo # <<>> /\ UNCHANGED <<parts, captures>>
  BY DEF ReadPart, workspaceVars, evidenceFiles
<1>2. CASE Changed(reader.report, Head(reader.todo), parts[Head(reader.todo)])
  BY <1>2 DEF ReadPart, ReadsInOrder, NotReading
<1>3. CASE ~Changed(reader.report, Head(reader.todo), parts[Head(reader.todo)])
  <2>1. reader' = [pc |-> reader.pc, report |-> reader.report, todo |-> Tail(reader.todo),
                   edited |-> reader.edited]
    BY <1>3 DEF ReadPart, EvidenceShapes
  <2>2. PICK k \in 0..5 : WasRead(k)
    BY <1>1 DEF ReadsInOrder
  <2>3. k # 5 /\ Head(reader.todo) = ReadOrder[k + 1]
    BY <1>1, <2>2 DEF WasRead
  <2>4. /\ Tail(reader.todo) \in Seq(Parts) /\ Len(Tail(reader.todo)) = 5 - (k + 1)
        /\ \A i \in 1..(5 - (k + 1)) : Tail(reader.todo)[i] = reader.todo[i + 1]
    BY <1>1, <2>2 DEF WasRead
  <2>5. \A i \in 1..(5 - (k + 1)) : Tail(reader.todo)[i] = ReadOrder[(k + 1) + i]
    BY <2>2, <2>4 DEF WasRead
  <2>6. ~reader.edited => \A i \in 1..(k + 1) :
           ~Changed(reader.report, ReadOrder[i], parts[ReadOrder[i]])
    BY <1>3, <2>2, <2>3 DEF WasRead
  <2>7. WasRead(k + 1)'
    BY <1>1, <2>1, <2>4, <2>5, <2>6 DEF WasRead
  <2> QED BY <1>1, <2>1, <2>2, <2>3, <2>7 DEF ReadsInOrder
<1> QED BY <1>2, <1>3

LEMMA ReadStepInv == EvidenceInv /\ ReadStep => EvidenceInv'
<1> SUFFICES ASSUME EvidenceInv, ReadStep PROVE EvidenceInv'
  OBVIOUS
<1> USE DEF EvidenceInv
<1>1. UNCHANGED <<parts, phase, checker, evidenceFiles, binder>>
  BY DEF ReadStep, LoadReport, ReadAuthenticity, ReadPart, Conclude, ForgetVerdict, workspaceVars
<1>2. reader' = [pc |-> reader'.pc, report |-> reader'.report, todo |-> reader'.todo,
                 edited |-> reader'.edited]
  BY DEF ReadStep, LoadReport, ReadAuthenticity, ReadPart, Conclude, ForgetVerdict, NotReading,
         EvidenceShapes
<1>3. EvidenceShapes' /\ Preserved' /\ BindsPointer'
  BY <1>1, <1>2 DEF EvidenceShapes, Preserved, EvidenceStands, BindsPointer, BindsWhatStood,
                    Binding, evidenceFiles
<1>4. ReadsInOrder'
  <2>1. CASE LoadReport
    BY <2>1, <1>1 DEF LoadReport, ReadsInOrder, NotReading, Preserved, EvidenceStands, evidenceFiles
  <2>2. CASE ReadAuthenticity
    <3>1. CASE certificate.issued /\ certificate.binds = reader.report /\ reader.report.certifiable
      <4>1. reader' = [pc |-> "reading", report |-> reader.report, todo |-> ReadOrder,
                       edited |-> reader.edited] /\ reader.report \in captures
        BY <2>2, <3>1 DEF ReadAuthenticity, EvidenceShapes, ReadsInOrder
      <4>2. WasRead(0)'
        BY <4>1, Reads DEF WasRead
      <4> QED BY <1>1, <3>1, <4>1, <4>2 DEF ReadsInOrder, evidenceFiles
    <3>2. CASE ~(certificate.issued /\ certificate.binds = reader.report /\ reader.report.certifiable)
      BY <2>2, <3>2 DEF ReadAuthenticity, ReadsInOrder, NotReading
    <3> QED BY <3>1, <3>2
  <2>3. CASE ReadPart
    BY <2>3, ReadPartInv
  <2>4. CASE Conclude
    <3>1. /\ reader.pc = "reading" /\ reader.todo = <<>>
          /\ reader' = [pc |-> "applicable", report |-> reader.report, todo |-> reader.todo,
                        edited |-> reader.edited]
      BY <2>4 DEF Conclude, EvidenceShapes
    <3>2. PICK k \in 0..5 : WasRead(k)
      BY <3>1 DEF ReadsInOrder
    <3>3. k = 5
      BY <3>1, <3>2 DEF WasRead
    <3>4. WasRead(5)'
      BY <1>1, <3>1, <3>2, <3>3 DEF WasRead
    <3> QED BY <1>1, <3>1, <3>4 DEF ReadsInOrder, evidenceFiles
  <2>5. CASE ForgetVerdict
    BY <2>5 DEF ForgetVerdict, ReadsInOrder, NotReading
  <2> QED BY <2>1, <2>2, <2>3, <2>4, <2>5 DEF ReadStep
<1> QED BY <1>3, <1>4

\* An edit under an evaluation is seen by its history, and touches nothing else here.
LEMMA EditPartInv == ASSUME EvidenceInv, NEW p \in Parts, NEW v, EditPart(p, v) PROVE EvidenceInv'
<1> USE DEF EvidenceInv
<1>1. /\ UNCHANGED <<phase, checker, evidenceFiles, binder>>
      /\ parts' = [parts EXCEPT ![p] = v]
      /\ reader' = [pc |-> reader.pc, report |-> reader.report, todo |-> reader.todo,
                    edited |-> reader'.edited]
      /\ reader'.edited <=> reader.pc # "idle"
  BY DEF EditPart, EvidenceShapes
<1>2. EvidenceShapes' /\ Preserved' /\ BindsPointer'
  BY <1>1 DEF EvidenceShapes, Preserved, EvidenceStands, BindsPointer, BindsWhatStood,
              Binding, evidenceFiles
<1>3. ReadsInOrder'
  BY <1>1 DEF ReadsInOrder, WasRead, evidenceFiles
<1> QED BY <1>2, <1>3

LEMMA EvidenceNextInv == EvidenceInv /\ [EvidenceNext]_evidenceVars => EvidenceInv'
<1> SUFFICES ASSUME EvidenceInv, [EvidenceNext]_evidenceVars PROVE EvidenceInv'
  OBVIOUS
<1>1. CASE UNCHANGED evidenceVars
  BY <1>1 DEF evidenceVars, EvidenceInv, EvidenceShapes, Preserved, EvidenceStands, BindsPointer,
              BindsWhatStood, Binding, ReadsInOrder, WasRead
<1>2. CASE ApprovalEnds
  BY <1>2 DEF ApprovalEnds, evidenceFiles, EvidenceInv, EvidenceShapes, Preserved, EvidenceStands,
              BindsPointer, BindsWhatStood, Binding, ReadsInOrder, WasRead
<1>3. CASE \E c \in Checkers : CheckStep(c)
  BY <1>3, CheckStepInv
<1>4. CASE BindStep
  BY <1>4, BindStepInv
<1>5. CASE ReadStep
  BY <1>5, ReadStepInv
<1>6. CASE \E p \in Parts : \E v \in Versions(p) : EditPart(p, v)
  BY <1>6, EditPartInv
<1>7. EvidenceNext => \/ ApprovalEnds \/ (\E c \in Checkers : CheckStep(c)) \/ BindStep \/ ReadStep
                      \/ \E p \in Parts : \E v \in Versions(p) : EditPart(p, v)
  BY DEF EvidenceNext, CheckStep, BindStep, ReadStep
<1> QED BY <1>1, <1>2, <1>3, <1>4, <1>5, <1>6, <1>7

LEMMA InvApplicable == EvidenceInv => ApplicableHolds
<1> SUFFICES ASSUME EvidenceInv, reader.pc = "applicable"
             PROVE  /\ reader.report.certifiable /\ reader.report \in captures
                    /\ ~reader.edited => \A p \in Parts : ~Changed(reader.report, p, parts[p])
  BY DEF ApplicableHolds
<1>1. WasRead(5) /\ reader.report.certifiable /\ reader.report \in captures
  BY DEF EvidenceInv, ReadsInOrder
<1>2. ~reader.edited => \A p \in Parts : ~Changed(reader.report, p, parts[p])
  BY <1>1, Reads DEF WasRead
<1> QED BY <1>1, <1>2

LEMMA EvidenceInvariant == EvidenceSpec => []EvidenceInv
  BY EvidenceInitInv, EvidenceNextInv, PTL DEF EvidenceSpec

\* EvidenceStands: what pointer, attestation and receipt name is preserved, however checks and
\* postflights overlap and die.
THEOREM EvidenceTheorem == EvidenceSpec => []EvidenceStands
<1>1. EvidenceInv => EvidenceStands
  BY DEF EvidenceInv, Preserved
<1> QED BY <1>1, EvidenceInvariant, PTL

\* BindsWhatStood: the evidence a receipt binds is what the pointer names, unless a check moved
\* the pointer after postflight had begun.
THEOREM BindsStoodTheorem == EvidenceSpec => []BindsWhatStood
<1>1. EvidenceInv => BindsWhatStood
  BY DEF EvidenceInv, BindsPointer
<1> QED BY <1>1, EvidenceInvariant, PTL

\* ApplicableHolds: evidence called applicable is that of the receipt and of the workspace as it
\* is, unless it was edited while freshness read it part by part.
THEOREM ApplicableTheorem == EvidenceSpec => []ApplicableHolds
  BY InvApplicable, EvidenceInvariant, PTL

-----------------------------------------------------------------------------
(* What passed means.  The operators first: an outcome is a pass only of a *)
(* run that truly meets the requirement.                                   *)

LEMMA MarksOf ==
  ASSUME NEW S, NEW run, run.marks \in SeqsUpTo2(S)
  PROVE  Marks(run) \subseteq S /\ (run.marks # <<>> => Marks(run) # {})
<1>1. CASE run.marks = <<>>
  BY <1>1 DEF Marks
<1>2. ASSUME NEW a \in S, run.marks = <<a>> PROVE Marks(run) \subseteq S /\ Marks(run) # {}
  <2>1. DOMAIN run.marks = {1} /\ run.marks[1] = a
    BY <1>2
  <2> QED BY <2>1 DEF Marks
<1>3. ASSUME NEW a \in S, NEW b \in S, run.marks = <<a, b>> PROVE Marks(run) \subseteq S /\ Marks(run) # {}
  <2>1. DOMAIN run.marks = {1, 2} /\ run.marks[1] = a /\ run.marks[2] = b
    BY <1>3
  <2> QED BY <2>1 DEF Marks
<1>4. run.marks = <<>> \/ (\E a \in S : run.marks = <<a>>) \/ (\E a, b \in S : run.marks = <<a, b>>)
  BY DEF SeqsUpTo2
<1> QED BY <1>1, <1>2, <1>3, <1>4

LEMMA PassesCounted ==
  ASSUME NEW S, NEW run, run.marks \in SeqsUpTo2(S)
  PROVE  Passes(run) \in Nat
<1>1. DOMAIN run.marks \subseteq 1..2
  <2>1. ASSUME NEW a \in S, run.marks = <<a>> PROVE DOMAIN run.marks \subseteq 1..2
    BY <2>1
  <2>2. ASSUME NEW a \in S, NEW b \in S, run.marks = <<a, b>> PROVE DOMAIN run.marks \subseteq 1..2
    BY <2>2
  <2>3. run.marks = <<>> \/ (\E a \in S : run.marks = <<a>>) \/ (\E a, b \in S : run.marks = <<a, b>>)
    BY DEF SeqsUpTo2
  <2> QED BY <2>1, <2>2, <2>3
<1>2. IsFiniteSet(1..2)
  <2>1. 1..2 \in SUBSET Nat /\ 2 \in Nat /\ \A s \in 1..2 : s <= 2
    OBVIOUS
  <2> QED BY <2>1, FS_BoundedSetOfNaturals
<1>3. IsFiniteSet({i \in DOMAIN run.marks : run.marks[i] = Success})
  BY <1>1, <1>2, FS_Subset
<1> QED BY <1>3, FS_CardinalityType DEF Passes

\* A pytest or unittest pass: the tool exited as expected, and every test it ran passed.
LEMMA PytestPass ==
  ASSUME NEW run, run.marks \in SeqsUpTo2(JunitMarks), run.exit \in Exits,
         PytestOutcome(run) = Success
  PROVE  run.exit = "expected" /\ run.file = "whole" /\ Marks(run) = {Success}
<1> USE DEF Success
<1>1. /\ run.exit = "expected" /\ run.file = "whole" /\ run.marks # <<>>
      /\ Marks(run) \cap {"failed", "error", "skipped"} = {}
  BY DEF PytestOutcome, Exits
<1> QED BY <1>1, MarksOf DEF JunitMarks

LEMMA UnittestPass ==
  ASSUME NEW run, run.marks \in SeqsUpTo2(RunnerMarks), run.exit \in Exits,
         UnittestOutcome(run) = Success
  PROVE  run.exit = "expected" /\ run.file = "whole" /\ Marks(run) = {Success}
<1> USE DEF Success
<1>1. /\ run.exit = "expected" /\ run.file = "whole" /\ run.marks # <<>>
      /\ Marks(run) \cap {"failed", "error", "skipped", "unexpected_success", "expected_failure"} = {}
  BY DEF UnittestOutcome
<1> QED BY <1>1, MarksOf DEF RunnerMarks, JunitMarks

LEMMA CommandPass == ASSUME NEW run, CommandOutcome(run) = Success PROVE run.exit = "expected"
  BY DEF CommandOutcome, Success

\* Without suites whose subtests fail: with one the unittest provider says passed of a run
\* that does not meet its requirement.
LEMMA PassIsMet ==
  ASSUME SubTests = FALSE, NEW req, req.least \in Nat, NEW run \in ToolRuns(req.check),
         RequirementOutcome(req, run) = Success
  PROVE  TrulyMet(req, run)
<1> DEFINE short == (req.evidence /\ ~HasArtifact(req, run)) \/ Passes(run) < req.least
<1>1. ProviderOutcome(req, run) = Success /\ ~short
  BY DEF RequirementOutcome, Success
<1>2. run.exit \in Exits /\ run.subtest = FALSE
  BY DEF ToolRuns
<1>3. run.marks \in SeqsUpTo2(CASE req.check = "pytest" -> JunitMarks
                                [] req.check = "unittest" -> RunnerMarks
                                [] OTHER -> {})
  BY DEF ToolRuns
<1>4. /\ run.target /\ run.exit = "expected"
      /\ req.check \in {"pytest", "unittest"} =>
           run.file = "whole" /\ Marks(run) = {Success} /\ ~run.subtest
  <2>1. CASE req.check = "pytest"
    <3>1. run.marks \in SeqsUpTo2(JunitMarks)
      BY <1>3, <2>1
    <3>2. run.target /\ PytestOutcome(run) = Success
      BY <1>1, <2>1 DEF ProviderOutcome, Success
    <3> QED BY <1>2, <2>1, <3>1, <3>2, PytestPass
  <2>2. CASE req.check = "unittest"
    <3>1. run.marks \in SeqsUpTo2(RunnerMarks)
      BY <1>3, <2>2
    <3>2. run.target /\ UnittestOutcome(run) = Success
      BY <1>1, <2>2 DEF ProviderOutcome, Success
    <3> QED BY <1>2, <2>2, <3>1, <3>2, UnittestPass
  <2>3. CASE req.check \notin {"pytest", "unittest"}
    <3>1. run.target /\ CommandOutcome(run) = Success
      BY <1>1, <2>3 DEF ProviderOutcome, Success
    <3> QED BY <2>3, <3>1, CommandPass
  <2> QED BY <2>1, <2>2, <2>3
<1>5. (req.evidence => HasArtifact(req, run)) /\ ~(Passes(run) < req.least)
  BY <1>1
<1>6. Passes(run) >= req.least
  BY <1>3, <1>5, PassesCounted
<1> QED BY <1>4, <1>5, <1>6 DEF TrulyMet

\* A check judges the requirements of its manifest in order, and one it fingerprinted is run.
JudgesInOrder ==
    /\ manifest \in Manifests
    /\ \A c \in Checkers :
         /\ checker[c].judged \in 0..Len(manifest)
         /\ ~checker[c].ran => checker[c].judged \in 1..Len(manifest)
\* While its outcomes are nothing but passes, a check has met what it judged; it has no
\* report yet.
Honest(k) ==
    /\ k.pc \in {"authorized", "checking"} =>
         (k.outs \subseteq {Success} => k.met) /\ k.report.aggregate # Success
    /\ k.report.aggregate = Success => k.met /\ k.report.certifiable
PassInv == EvidenceShapes /\ JudgesInOrder /\ \A c \in Checkers : Honest(checker[c])

\* An aggregate is a pass only if every outcome is.
LEMMA PassOfPasses ==
  ASSUME NEW outs, NEW moved0, Aggregate(outs, moved0) = Success
  PROVE  outs = {Success} /\ ~moved0
BY DEF Aggregate, Success

LEMMA NoReportIsNoPass == None.aggregate # Success
  BY DEF None, Success

LEMMA VerdictIsTrue ==
  ASSUME SubTests = FALSE, NEW req \in Requirements, NEW v \in Verdicts[req]
  PROVE  v.outcome = Success => v.met
<1>1. Verdicts[req] = {[outcome |-> RequirementOutcome(req, run), met |-> TrulyMet(req, run)] :
                         run \in ToolRuns(req.check)}
  BY DEF Verdicts
<1>2. PICK run \in ToolRuns(req.check) :
         v = [outcome |-> RequirementOutcome(req, run), met |-> TrulyMet(req, run)]
  BY <1>1
<1>3. v.outcome = RequirementOutcome(req, run) /\ (TrulyMet(req, run) => v.met)
  BY <1>2
<1>4. req.least \in Nat
  BY ManifestsAssumption
<1> QED BY <1>3, <1>4, PassIsMet

\* What one step makes of what a check has judged.
JudgesOn(k, d) ==
    /\ d.judged \in 0..Len(manifest)
    /\ ~d.ran => d.judged \in 1..Len(manifest)
    /\ Honest(d)

LEMMA CheckStepPass ==
  ASSUME SubTests = FALSE, PassInv, NEW c \in Checkers, CheckStep(c)
  PROVE  JudgesOn(checker[c], checker'[c])
<1> DEFINE k == checker[c]
<1>0. /\ CheckerShape(k) /\ k.judged \in 0..Len(manifest) /\ Len(manifest) \in Nat
      /\ manifest \in Seq(Requirements)
      /\ ~k.ran => k.judged \in 1..Len(manifest)
      /\ Honest(k)
  BY ManifestsAssumption DEF PassInv, EvidenceShapes, JudgesInOrder
<1>1. CASE Capture(c) \/ Point(c) \/ Attest(c)
  <2>1. PICK pc \in {"captured", "pointed", "attested"} : Goes(c, pc)
    BY <1>1 DEF Capture, Point, Attest
  <2>2. checker'[c] = [k EXCEPT !.pc = pc]
    BY <2>1, GoesOn DEF PassInv
  <2> QED BY <1>0, <2>2, GoneRecord DEF GoneTo, JudgesOn, Honest
<1>2. CASE Authorize(c) \/ CheckEnds(c)
  <2>1. checker'[c] = GoneTo(Idle, "authorized") \/ checker'[c] = Idle
    BY <1>2, Replaces DEF Authorize, CheckEnds, Replaced, PassInv, GoneTo
  <2>2. JudgesOn(k, Idle)
    BY <1>0, IdleRecord, NoReportIsNoPass DEF JudgesOn, Honest
  <2>3. LET d == GoneTo(Idle, "authorized")
        IN  /\ d.report = Idle.report /\ d.judged = Idle.judged /\ d.ran = Idle.ran
            /\ d.met = Idle.met /\ d.outs = Idle.outs
    BY IdleRecord, GoneRecord
  <2>4. JudgesOn(k, GoneTo(Idle, "authorized"))
    BY <2>2, <2>3, IdleRecord, NoReportIsNoPass DEF JudgesOn, Honest
  <2> QED BY <2>1, <2>2, <2>4
<1>3. CASE End(c)
  <2>0. PICK h : h = k.met
    OBVIOUS
  <2> DEFINE d == ReportedAs(Report(c), h)
  <2>1. checker'[c] = d
    BY <1>3, <2>0, Replaces DEF End, Replaced, PassInv, ReportedAs
  <2>2. Report(c).aggregate = Success => k.outs = {Success} /\ Report(c).certifiable
    BY PassOfPasses DEF Report
  <2>3. k.pc = "checking"
    BY <1>3 DEF End, At
  <2>4. d.judged = 0 /\ d.ran /\ d.met = h /\ d.report = Report(c) /\ d.pc = "reported"
    BY ReportedRecord
  <2> HIDE DEF d
  <2>5. Report(c).aggregate = Success => k.met
    BY <1>0, <2>2, <2>3 DEF Honest
  <2> QED BY <1>0, <2>0, <2>1, <2>2, <2>4, <2>5 DEF JudgesOn, Honest
<1>4. CASE Begin(c)
  <2>1. CASE lease = NoLease
    <3>1. checker' = [checker EXCEPT ![c] = BegunAs(k, parts["source"], parts["runtime"])]
      BY <1>4, <2>1 DEF Begin, BegunAs
    <3>2. checker'[c] = BegunAs(k, parts["source"], parts["runtime"])
      BY <3>1, Replaces DEF Replaced, PassInv
    <3>3. k.pc = "authorized"
      BY <1>4 DEF Begin, At
    <3> QED BY <1>0, <3>2, <3>3, BegunRecord DEF JudgesOn, Honest
  <2>2. CASE lease # NoLease
    <3>1. checker'[c] = [k EXCEPT !.pc = "idle"]
      BY <1>4, <2>2, GoesOn DEF Begin, PassInv
    <3> DEFINE d == GoneTo(k, "idle")
    <3>2. checker'[c] = d
      BY <3>1 DEF GoneTo
    <3>3. /\ d.pc = "idle" /\ d.report = k.report /\ d.judged = k.judged /\ d.ran = k.ran
          /\ d.met = k.met /\ d.outs = k.outs
      BY <1>0, GoneRecord
    <3> HIDE DEF d
    <3>4. Honest(d)
      BY <1>0, <3>3 DEF Honest
    <3> QED BY <1>0, <3>2, <3>3, <3>4 DEF JudgesOn
  <2> QED BY <2>1, <2>2
<1>5. CASE Fingerprint(c)
  <2> DEFINE d == Fingerprinted(k, k.inputs \cup {parts["input"]}, parts["input"], k.judged + 1)
  <2>1. checker'[c] = d /\ k.judged < Len(manifest)
    BY <1>5, Replaces DEF Fingerprint, Fingerprinted, Replaced, PassInv
  <2>2. k.judged + 1 \in 1..Len(manifest)
    BY <1>0, <2>1
  <2>3. /\ d.pc = k.pc /\ d.report = k.report /\ d.judged = k.judged + 1
        /\ d.met = k.met /\ d.outs = k.outs
    BY <1>0, FingerprintedRecord
  <2> HIDE DEF d
  <2>4. Honest(d)
    BY <1>0, <2>3 DEF Honest
  <2> QED BY <1>0, <2>1, <2>2, <2>3, <2>4 DEF JudgesOn
<1>6. CASE RunCheck(c)
  <2>1. \E o, m : Adds(c, o, m) /\ (o = Success => m)
    <3>1. CASE k.missing
      <4>1. \E m : Adds(c, "error", m)
        BY <1>6, <3>1, Zenon DEF RunCheck
      <4> QED BY <4>1 DEF Success
    <3>2. CASE ~k.missing /\ Current(c).manual
      <4>1. \E m : Adds(c, "manual_unverifiable", m)
        BY <1>6, <3>2, Zenon DEF RunCheck
      <4> QED BY <4>1 DEF Success
    <3>3. CASE ~k.missing /\ ~Current(c).manual
      <4>1. PICK v \in Verdicts[Current(c)] : Adds(c, v.outcome, v.met)
        BY <1>6, <3>3 DEF RunCheck
      <4>2. Current(c) \in Requirements
        BY <1>0, <1>6 DEF RunCheck, Current
      <4>3. v.outcome = Success => v.met
        BY <4>2, VerdictIsTrue
      <4> QED BY <4>1, <4>3
    <3> QED BY <3>1, <3>2, <3>3
  <2>2. PICK o, m : Adds(c, o, m) /\ (o = Success => m)
    BY <2>1
  <2>0. PICK h : h = (k.met /\ m)
    OBVIOUS
  <2> DEFINE s == {Aggregate(k.outs \cup {o}, FALSE)}
             d == RanAs(k, s, h)
  <2>3. checker'[c] = d
    BY <2>0, <2>2, Replaces DEF Adds, RanAs, Replaced, PassInv
  <2>4. s \subseteq {Success} => k.outs \subseteq {Success} /\ o = Success
    <3>1. s \subseteq {Success} => Aggregate(k.outs \cup {o}, FALSE) = Success
      OBVIOUS
    <3>2. s \subseteq {Success} => k.outs \cup {o} = {Success}
      BY <3>1, PassOfPasses
    <3> QED BY <3>2
  <2>5. k.pc = "checking"
    BY <1>6 DEF RunCheck, At
  <2>6. s \subseteq {Success} => k.met /\ m
    BY <1>0, <2>2, <2>4, <2>5 DEF Honest
  <2>7. d.report = k.report /\ d.judged = k.judged /\ d.ran /\ d.outs = s /\ d.met = h
    <3>1. CheckerShape(k)
      BY <1>0
    <3> HIDE DEF k, s
    <3> QED BY <3>1, RanRecord
  <2>8. k.report.aggregate # Success
    BY <1>0, <2>5 DEF Honest
  <2> HIDE DEF d, s
  <2>9. Honest(d)
    BY <2>0, <2>6, <2>7, <2>8 DEF Honest
  <2> QED BY <1>0, <2>3, <2>7, <2>9 DEF JudgesOn
<1> QED BY <1>1, <1>2, <1>3, <1>4, <1>5, <1>6 DEF CheckStep

LEMMA PassNextInv == ASSUME SubTests = FALSE, PassInv, EvidenceInv', [EvidenceNext]_evidenceVars
                     PROVE  PassInv'
<1>1. EvidenceShapes'
  BY DEF EvidenceInv
<1>2. manifest' = manifest
  BY DEF EvidenceNext, evidenceVars, workspaceVars, Authorize, Begin, Fingerprint, RunCheck, End, Capture,
         Point, Attest, CheckEnds, PostflightBegins, ReadAttestation, CompareCurrent, WriteReceipt,
         Postflighted, PostflightDies, AbandonRun, LoadReport, ReadAuthenticity, ReadPart, Conclude,
         ForgetVerdict, EditPart, ApprovalEnds
<1>3. CASE checker' = checker
  BY <1>1, <1>2, <1>3 DEF PassInv, JudgesInOrder
<1>4. ASSUME NEW c \in Checkers, CheckStep(c) PROVE PassInv'
  <2>1. JudgesOn(checker[c], checker'[c])
    BY <1>4, CheckStepPass
  <2>2. \A x \in Checkers : x # c => checker'[x] = checker[x]
    BY <1>4, CheckerSteps DEF PassInv, Replaced
  <2> QED BY <1>1, <1>2, <2>1, <2>2 DEF PassInv, JudgesInOrder, JudgesOn
<1>5. (\E c \in Checkers : CheckStep(c)) \/ checker' = checker
  BY DEF EvidenceNext, CheckStep, evidenceVars, PostflightBegins, ReadAttestation, CompareCurrent,
         WriteReceipt, Postflighted, PostflightDies, AbandonRun, LoadReport, ReadAuthenticity, ReadPart,
         Conclude, ForgetVerdict, EditPart, ApprovalEnds
<1> QED BY <1>3, <1>4, <1>5

LEMMA PassInitInv == EvidenceInit => PassInv
<1> SUFFICES ASSUME EvidenceInit PROVE PassInv
  OBVIOUS
<1>1. EvidenceShapes
  BY EvidenceInitInv DEF EvidenceInv
<1>2. manifest \in Manifests /\ Len(manifest) \in Nat /\ checker = [c \in Checkers |-> Idle]
  BY ManifestsAssumption DEF EvidenceInit
<1>3. \A c \in Checkers : checker[c] = Idle
  BY <1>2
<1>4. JudgesInOrder
  BY <1>2, <1>3, IdleRecord DEF JudgesInOrder
<1>5. \A c \in Checkers : Honest(checker[c])
  BY <1>3, IdleRecord, NoReportIsNoPass DEF Honest
<1> QED BY <1>1, <1>4, <1>5 DEF PassInv

\* PassedMeansTrue: a report that says passed is one whose every requirement was met, none
\* skipped, manual, without its inputs or in error, for any manifest, checks and edits, if no
\* suite hides a failing subtest; with one the run evidence_subtests refutes it.
THEOREM PassedTheorem == ASSUME SubTests = FALSE PROVE EvidenceSpec => []PassedMeansTrue
<1>1. PassInv /\ EvidenceInv /\ [EvidenceNext]_evidenceVars => PassInv'
  BY PassNextInv, EvidenceNextInv
<1>2. PassInv => PassedMeansTrue
  BY DEF PassInv, Honest, PassedMeansTrue
<1> QED BY <1>1, <1>2, PassInitInv, EvidenceInvariant, PTL DEF EvidenceSpec

-----------------------------------------------------------------------------
(***************************************************************************)
(* The registers.  Each step is a clerk's at one register and leaves what  *)
(* the others are doing (LeadsLeaves), so each keeps its own invariant.    *)
(***************************************************************************)

Importing == {"import", "import_check", "import_write"}
Capturing == {"capture"}
Applying == {"apply", "apply_copy", "apply_write"}
Restoring == {"restore", "restore_extract"}

HasFields(w, F) == w = [f \in F |-> w[f]]
Clerical == work = [p \in Clerks |-> work[p]] /\ begun \in Nat

\* The ledger is read and written under the lease, so what an import counted is the ledger's
\* count with its keys.
Counts == [UsageKeys -> {0, 1}]
Imports(p) ==
    LET w == work[p] IN
    w.at \in Importing =>
      /\ leaseOf = p /\ w.keys \subseteq UsageKeys /\ w.n \in Nat \ {0}
      /\ w.at \in {"import_check", "import_write"} =>
           /\ HasFields(w, {"at", "keys", "n", "prior", "count"})
           /\ w.count = Counted(LoadedLedger, w.keys)
UsageInv ==
    /\ ledger # Missing => ledger.count \in Counts
    /\ imported \subseteq UsageKeys /\ \A k \in imported : LoadedLedger[k] = 1
    /\ \A p \in Clerks : Imports(p)

\* Before a capture that is alone writes, there is no decision.
DecisionInv ==
    /\ captured = {} \/ decision # Missing
    /\ \A p \in Clerks : work[p].at = "capture" => work[p].decision # Missing
    /\ ~captureRaced =>
         /\ captured \subseteq {decision}
         /\ \A p \in Clerks : work[p].at = "capture" =>
              captured = {} /\ \A q \in Clerks : work[q].at = "capture" => q = p

LEMMA InvLedger == UsageInv => LedgerStands
<1> SUFFICES ASSUME UsageInv PROVE LedgerStands
  OBVIOUS
<1>1. LoadedLedger \in Counts
  BY DEF UsageInv, LoadedLedger, Counts, Uncounted
<1> QED BY <1>1 DEF UsageInv, LedgerStands, Counts

LEMMA InvDecision == DecisionInv => DecisionStands
  BY DEF DecisionInv, DecisionStands

-----------------------------------------------------------------------------
\* What a clerk's step does to the clerks' work.
Same(steps) == \A q \in Clerks : work'[q].at \in steps => work'[q] = work[q]
Works(p, next) ==
    /\ work' = [q \in Clerks |-> work'[q]] /\ work'[p] = next
    /\ \A q \in Clerks : q # p => work'[q] = work[q]

LEMMA ClerkWorks == ASSUME Clerical, NEW p \in Clerks, NEW next, ClerkDoes(p, next) PROVE Works(p, next)
  BY DEF Clerical, ClerkDoes, Works

UsageStep(p) ==
    \/ \E keys \in Exports : ImportBegin(p, keys)
    \/ ImportLoad(p) \/ ImportCheck(p) \/ ImportWrite(p)
DecisionStep(p) == CaptureCheck(p) \/ CaptureWrite(p)
ConfigStep(p) ==
    \/ \E secret \in BOOLEAN : ApplyBegin(p, secret)
    \/ RollbackBegin(p) \/ ApplyBackup(p) \/ ApplyCopy(p) \/ ApplyWrite(p)

\* A clerk goes on to one of its steps, or rests.
Leads(p, steps) == \E d : ClerkDoes(p, d) /\ d.at \in steps \cup {"rest"}

LEMMA LeadsLeaves ==
  ASSUME Clerical, NEW p \in Clerks, NEW steps, Leads(p, steps), begun' \in Nat
  PROVE  /\ Clerical'
         /\ \A others : others \cap (steps \cup {"rest"}) = {} => Same(others)
<1>1. PICK d : ClerkDoes(p, d) /\ d.at \in steps \cup {"rest"}
  BY DEF Leads
<1>2. Works(p, d)
  BY <1>1, ClerkWorks
<1> QED BY <1>1, <1>2 DEF Works, Same, Clerical

LEMMA UsageLeads ==
  ASSUME Clerical, UsageInv, NEW p \in Clerks, UsageStep(p)
  PROVE  /\ Leads(p, Importing) /\ begun' \in Nat
         /\ UNCHANGED <<decisionVars, configVars, snapVars>>
<1> USE DEF Leads, Importing, Rests, Resting
<1>1. CASE \E keys \in Exports : ImportBegin(p, keys)
  <2>1. PICK keys \in Exports : ImportBegin(p, keys)
    BY <1>1
  <2> DEFINE d == [at |-> "import", keys |-> keys, n |-> begun + 1]
  <2>2. d.at = "import" /\ ClerkDoes(p, d)
    BY <2>1 DEF ImportBegin, Begins
  <2> HIDE DEF d
  <2> QED BY <2>1, <2>2 DEF ImportBegin, Begins, Clerical
<1>2. CASE ImportLoad(p)
  BY <1>2 DEF ImportLoad, Clerical
<1>3. CASE ImportCheck(p)
  <2>1. CASE ledger = work[p].prior
    <3> DEFINE d == [work[p] EXCEPT !.at = "import_write"]
    <3>1. ClerkDoes(p, d) /\ work[p].at = "import_check"
      BY <1>3, <2>1 DEF ImportCheck, Does
    <3>2. d.at = "import_write"
      BY <3>1 DEF UsageInv, Imports, HasFields
    <3> HIDE DEF d
    <3> QED BY <1>3, <3>1, <3>2 DEF ImportCheck, Clerical
  <2>2. CASE ledger # work[p].prior
    BY <1>3, <2>2 DEF ImportCheck, Clerical
  <2> QED BY <2>1, <2>2
<1>4. CASE ImportWrite(p)
  BY <1>4 DEF ImportWrite, Clerical
<1> QED BY <1>1, <1>2, <1>3, <1>4 DEF UsageStep

LEMMA DecisionLeads ==
  ASSUME Clerical, NEW p \in Clerks, DecisionStep(p)
  PROVE  /\ Leads(p, Capturing) /\ begun' \in Nat
         /\ UNCHANGED <<leaseOf, usageVars, configVars, snapVars>>
<1> USE DEF Leads, Capturing, Rests, Resting
<1>1. CASE CaptureCheck(p)
  BY <1>1 DEF CaptureCheck, Begins, Clerical
<1>2. CASE CaptureWrite(p)
  BY <1>2 DEF CaptureWrite, Clerical
<1> QED BY <1>1, <1>2 DEF DecisionStep

LEMMA ConfigLeads ==
  ASSUME Clerical, NEW p \in Clerks, ConfigStep(p)
  PROVE  /\ Leads(p, Applying) /\ begun' \in Nat
         /\ UNCHANGED <<leaseOf, usageVars, decisionVars, snapVars>>
<1> USE DEF Leads, Applying, Rests, Resting
<1>1. CASE \E secret \in BOOLEAN : ApplyBegin(p, secret)
  <2>1. PICK secret : ApplyBegin(p, secret)
    BY <1>1
  <2> DEFINE d == [at |-> "apply", bundle |-> [of |-> begun + 1, secret |-> secret]]
  <2>2. d.at = "apply" /\ ClerkDoes(p, d)
    BY <2>1 DEF ApplyBegin, Begins
  <2> HIDE DEF d
  <2> QED BY <2>1, <2>2 DEF ApplyBegin, Begins, Clerical
<1>2. CASE RollbackBegin(p)
  <2>1. PICK s : Begins(p, [at |-> "apply", bundle |-> backups[s]])
    BY <1>2 DEF RollbackBegin
  <2> DEFINE d == [at |-> "apply", bundle |-> backups[s]]
  <2>2. d.at = "apply" /\ ClerkDoes(p, d)
    BY <2>1 DEF Begins
  <2> HIDE DEF d
  <2> QED BY <1>2, <2>1, <2>2 DEF RollbackBegin, Begins, Clerical
<1>3. CASE ApplyBackup(p)
  BY <1>3 DEF ApplyBackup, Clerical
<1>4. CASE ApplyCopy(p)
  BY <1>4 DEF ApplyCopy, Clerical
<1>5. CASE ApplyWrite(p)
  BY <1>5 DEF ApplyWrite, Clerical
<1> QED BY <1>1, <1>2, <1>3, <1>4, <1>5 DEF ConfigStep

\* A killed clerk rests.
LEMMA KillLeads ==
  ASSUME Clerical, NEW p \in Clerks, KillClerk(p)
  PROVE  /\ Leads(p, {}) /\ begun' = begun /\ work'[p] = Resting
         /\ UNCHANGED <<usageVars, decisionVars, configVars, snapVars>>
         /\ leaseOf' = leaseOf \/ leaseOf = p
<1>1. ClerkDoes(p, Resting) /\ Resting.at = "rest"
  BY DEF KillClerk, Rests, Resting
<1>2. Works(p, Resting)
  BY <1>1, ClerkWorks
<1> QED BY <1>1, <1>2 DEF Leads, Works, KillClerk, LeaseFreed

-----------------------------------------------------------------------------
(* The ledger.                                                             *)

LEMMA UsageElsewhere ==
  ASSUME UsageInv, Same(Importing), UNCHANGED usageVars,
         \/ leaseOf' = leaseOf
         \/ \E p \in Clerks : leaseOf = p /\ work'[p].at = "rest"
  PROVE  UsageInv'
<1>1. LoadedLedger' = LoadedLedger /\ ledger' = ledger /\ imported' = imported
  BY DEF usageVars, LoadedLedger
<1>2. ASSUME NEW q \in Clerks, work'[q].at \in Importing PROVE work'[q] = work[q] /\ leaseOf' = leaseOf
  <2>1. work'[q] = work[q] /\ leaseOf = q
    BY <1>2 DEF Same, UsageInv, Imports
  <2> QED BY <1>2, <2>1 DEF Importing
<1> QED BY <1>1, <1>2 DEF UsageInv, Imports, Counted

LEMMA UsageStepInv ==
  ASSUME Clerical, UsageInv, NEW p \in Clerks, UsageStep(p)
  PROVE  UsageInv'
<1>0. LoadedLedger \in Counts
  BY DEF UsageInv, LoadedLedger, Counts, Uncounted
<1>1. CASE \E keys \in Exports : ImportBegin(p, keys)
  <2>1. PICK keys \in Exports : ImportBegin(p, keys)
    BY <1>1
  <2>2. Works(p, [at |-> "import", keys |-> keys, n |-> begun + 1])
    BY <2>1, ClerkWorks DEF ImportBegin, Begins
  <2>3. leaseOf = NoClerk /\ leaseOf' = p /\ ledger' = ledger /\ imported' = imported
    BY <2>1 DEF ImportBegin, LeaseTaken, usageVars
  <2>4. \A q \in Clerks : work[q].at \notin Importing
    BY <2>3, RegistriesAssumption DEF UsageInv, Imports
  <2>5. \A q \in Clerks : Imports(q)'
    BY <2>2, <2>3, <2>4 DEF Imports, Works, Exports, Clerical
  <2> QED BY <2>3, <2>5 DEF UsageInv, LoadedLedger
<1>2. CASE ImportLoad(p)
  <2> DEFINE d == [at |-> "import_check", keys |-> work[p].keys, n |-> work[p].n, prior |-> ledger,
                   count |-> Counted(LoadedLedger, work[p].keys)]
  <2>1. work[p].at = "import" /\ Works(p, d) /\ UNCHANGED <<leaseOf, ledger, imported>>
    BY <1>2, ClerkWorks DEF ImportLoad, Does, usageVars
  <2>2. /\ HasFields(d, {"at", "keys", "n", "prior", "count"})
        /\ d.at = "import_check" /\ d.keys = work[p].keys /\ d.n = work[p].n
        /\ d.count = Counted(LoadedLedger, d.keys)
    BY DEF HasFields
  <2> HIDE DEF d
  <2>3. Imports(p)'
    BY <2>1, <2>2 DEF UsageInv, Imports, Importing, Works, LoadedLedger, Counted
  <2>4. \A q \in Clerks : q # p => Imports(q)'
    BY <2>1 DEF UsageInv, Imports, Works, LoadedLedger, Counted
  <2> QED BY <2>1, <2>3, <2>4 DEF UsageInv, LoadedLedger
<1>3. CASE ImportCheck(p)
  <2>0. work[p].at = "import_check" /\ UNCHANGED <<ledger, imported>>
    BY <1>3 DEF ImportCheck, Does, usageVars
  <2>1. CASE ledger = work[p].prior
    <3> DEFINE d == [work[p] EXCEPT !.at = "import_write"]
    <3>1. Works(p, d) /\ leaseOf' = leaseOf
      BY <1>3, <2>1, ClerkWorks DEF ImportCheck
    <3>2. /\ HasFields(d, {"at", "keys", "n", "prior", "count"})
          /\ d.at = "import_write" /\ d.keys = work[p].keys /\ d.n = work[p].n /\ d.count = work[p].count
      BY <2>0 DEF UsageInv, Imports, Importing, HasFields
    <3> HIDE DEF d
    <3>3. Imports(p)'
      BY <2>0, <3>1, <3>2 DEF UsageInv, Imports, Importing, Works, LoadedLedger, Counted
    <3>4. \A q \in Clerks : q # p => Imports(q)'
      BY <2>0, <3>1 DEF UsageInv, Imports, Works, LoadedLedger, Counted
    <3> QED BY <2>0, <3>3, <3>4 DEF UsageInv, LoadedLedger
  <2>2. CASE ledger # work[p].prior
    <3>1. Works(p, Resting) /\ LeaseFreed(p) /\ UNCHANGED usageVars
      BY <1>3, <2>2, ClerkWorks DEF ImportCheck, Rests
    <3>2. Same(Importing)
      BY <3>1 DEF Same, Works, Resting, Importing
    <3>3. leaseOf' = leaseOf \/ (leaseOf = p /\ work'[p].at = "rest")
      BY <3>1 DEF LeaseFreed, Works, Resting
    <3> QED BY <3>1, <3>2, <3>3, UsageElsewhere
  <2> QED BY <2>1, <2>2
<1>4. CASE ImportWrite(p)
  <2>1. /\ work[p].at = "import_write" /\ leaseOf = p /\ Works(p, Resting) /\ LeaseFreed(p)
        /\ ledger' = LedgerOf(work[p].n, work[p].count) /\ imported' = imported \cup work[p].keys
        /\ work[p].n \in Nat \ {0} /\ work[p].keys \subseteq UsageKeys
        /\ work[p].count = Counted(LoadedLedger, work[p].keys)
    BY <1>4, ClerkWorks DEF ImportWrite, Does, Rests, UsageInv, Imports, Importing
  <2>2. ledger' # Missing /\ ledger'.count = work[p].count
    BY <2>1 DEF LedgerOf, Missing
  <2>3. LoadedLedger' = work[p].count
    BY <2>2 DEF LoadedLedger
  <2>4. work[p].count \in Counts
        /\ \A k \in UsageKeys : LoadedLedger[k] = 1 \/ k \in work[p].keys => work[p].count[k] = 1
    BY <1>0, <2>1 DEF Counts, Counted
  <2>5. \A q \in Clerks : Imports(q)'
    <3>1. \A q \in Clerks : work'[q].at \notin Importing
      BY <2>1 DEF UsageInv, Imports, Works, Resting, Importing
    <3> QED BY <3>1 DEF Imports
  <2> QED BY <2>1, <2>2, <2>3, <2>4, <2>5 DEF UsageInv
<1> QED BY <1>1, <1>2, <1>3, <1>4 DEF UsageStep


-----------------------------------------------------------------------------
(* The decisions.                                                          *)

LEMMA DecisionElsewhere ==
  ASSUME DecisionInv, Same(Capturing), UNCHANGED decisionVars
  PROVE  DecisionInv'
<1>1. \A q \in Clerks : work'[q].at = "capture" => work'[q] = work[q]
  BY DEF Same, Capturing
<1> QED BY <1>1 DEF DecisionInv, decisionVars

LEMMA DecisionStepInv ==
  ASSUME Clerical, DecisionInv, NEW p \in Clerks, DecisionStep(p)
  PROVE  DecisionInv'
<1>1. CASE CaptureCheck(p)
  <2> DEFINE d == [at |-> "capture", decision |-> [of |-> begun + 1]]
  <2>1. /\ decision = Missing /\ work[p].at = "rest" /\ Works(p, d)
        /\ captureRaced' = (captureRaced \/ Others(p, {"capture"}))
        /\ UNCHANGED <<decision, captured>>
    BY <1>1, ClerkWorks DEF CaptureCheck, Capturable, Begins, Does
  <2>2. d.at = "capture" /\ d.decision # Missing
    BY DEF Clerical, Missing
  <2> HIDE DEF d
  <2>3. ASSUME ~captureRaced' PROVE ~captureRaced /\ \A q \in Clerks : q # p => work[q].at # "capture"
    BY <2>1, <2>3 DEF Others
  <2> QED BY <2>1, <2>2, <2>3 DEF DecisionInv, Works
<1>2. CASE CaptureWrite(p)
  <2>1. /\ work[p].at = "capture" /\ Works(p, Resting) /\ UNCHANGED captureRaced
        /\ decision' = work[p].decision /\ captured' = captured \cup {decision'}
    BY <1>2, ClerkWorks DEF CaptureWrite, Rests, Does
  <2> QED BY <2>1 DEF DecisionInv, Works, Resting
<1> QED BY <1>1, <1>2 DEF DecisionStep

-----------------------------------------------------------------------------
(* The configuration.                                                      *)

Bundles == [of : Nat, secret : BOOLEAN]
Clean == [of : Nat, secret : {FALSE}]
Stamps(w) == w.at \in {"apply_copy", "apply_write"} /\ w.stamp # 0
\* Until another apply contests its second, an apply's backup is its own: what it keeps is
\* the bundle it will replace.
Owns(p) ==
    LET w == work[p] IN
    /\ IF w.at = "apply_copy" THEN w.kept = active ELSE backups[w.stamp] = active
    /\ \A a \in applied : a.stamp # w.stamp
    /\ \A q \in Clerks : Stamps(work[q]) /\ work[q].stamp = w.stamp => q = p
Applies(p) ==
    LET w == work[p] IN
    /\ w.at \in Applying => w.bundle \in Bundles
    /\ w.at \in {"apply_copy", "apply_write"} => w.stamp \in 0..MaxSeconds
    /\ w.at = "apply_copy" => w.stamp # 0 /\ w.kept \in Clean
    /\ Stamps(w) => backups[w.stamp] # Missing
    /\ Stamps(w) /\ w.stamp \notin contested => Owns(p)
Bundled ==
    /\ second \in 1..MaxSeconds
    /\ active \in Clean \cup {Missing} /\ exported \in Clean \cup {Missing}
    /\ backups \in [1..MaxSeconds -> Clean \cup {Missing, CutShort}]
Answered(a) ==
    /\ a.stamp \in 1..MaxSeconds /\ backups[a.stamp] # Missing
    /\ a.stamp \in contested \/ backups[a.stamp] = a.replaced
ConfigInv == Bundled /\ (\A a \in applied : Answered(a)) /\ \A p \in Clerks : Applies(p)

LEMMA CleanBundles ==
  /\ \A b \in Clean : b \in Bundles /\ b # Missing /\ b # CutShort /\ ~b.secret
  /\ \A b \in Bundles : Sanitized(b) \in Clean
  /\ CutShort # Missing
  /\ "secret" \notin DOMAIN Missing /\ "secret" \notin DOMAIN CutShort
<1>1. "secret" \notin DOMAIN Missing /\ "secret" \notin DOMAIN CutShort
  BY DEF Missing, CutShort
<1>2. CutShort # Missing
  BY RegistriesAssumption DEF Missing, CutShort
<1>3. \A b \in Clean : b \in Bundles /\ "secret" \in DOMAIN b /\ ~b.secret
  BY DEF Clean, Bundles
<1>4. \A b \in Bundles : Sanitized(b) \in Clean
  BY DEF Clean, Bundles, Sanitized
<1> QED BY <1>1, <1>2, <1>3, <1>4

LEMMA InvConfig == ConfigInv => BackupStands
  BY CleanBundles DEF ConfigInv, Bundled, Answered, BackupStands

LEMMA ConfigElsewhere ==
  ASSUME ConfigInv, Same(Applying), UNCHANGED configVars
  PROVE  ConfigInv'
<1>1. \A q \in Clerks : work'[q].at \in {"apply", "apply_copy", "apply_write"} => work'[q] = work[q]
  BY DEF Same, Applying
<1>2. UNCHANGED <<active, backups, exported, applied, contested, second>>
  BY DEF configVars
<1>3. ASSUME NEW q \in Clerks PROVE Applies(q)'
  <2>1. Applies(q)
    BY DEF ConfigInv
  <2> QED BY <1>1, <1>2, <2>1 DEF Applies, Owns, Stamps, Applying
<1> QED BY <1>2, <1>3 DEF ConfigInv, Bundled, Answered

\* A clerk that takes up or leaves an apply disturbs no other.
LEMMA ApplyTurns ==
  ASSUME ConfigInv, NEW p \in Clerks, NEW d, Works(p, d), UNCHANGED <<configVars>>,
         ~Stamps(d), d.at \in Applying => d.bundle \in Bundles,
         d.at # "apply_copy", d.at = "apply_write" => d.stamp = 0
  PROVE  ConfigInv'
<1>2. UNCHANGED <<active, backups, exported, applied, contested, second>>
  BY DEF configVars
<1>3. ASSUME NEW q \in Clerks PROVE Applies(q)'
  <2>1. Applies(q)
    BY DEF ConfigInv
  <2>2. CASE q = p
    BY <1>2, <2>2, RegistriesAssumption DEF Applies, Stamps, Works
  <2>3. CASE q # p
    <3>1. work'[q] = work[q] /\ \A r \in Clerks : Stamps(work[r])' => Stamps(work[r]) /\ work'[r] = work[r]
      BY <2>3 DEF Works, Stamps
    <3> QED BY <1>2, <2>1, <3>1 DEF Applies, Owns
  <2> QED BY <2>2, <2>3
<1> QED BY <1>2, <1>3 DEF ConfigInv, Bundled, Answered

LEMMA ApplyBackupInv ==
  ASSUME Clerical, ConfigInv, NEW p \in Clerks, ApplyBackup(p), active # Missing
  PROVE  ConfigInv'
<1> DEFINE d == [at |-> "apply_copy", bundle |-> work[p].bundle, stamp |-> second, kept |-> active]
<1>1. /\ work[p].at = "apply" /\ Works(p, d) /\ backups' = [backups EXCEPT ![second] = CutShort]
      /\ contested' = IF Overwritten(second) THEN contested \cup {second} ELSE contested
      /\ UNCHANGED <<active, exported, second, applied>>
  BY ClerkWorks DEF ApplyBackup, Does
<1>2. d.at = "apply_copy" /\ d.bundle = work[p].bundle /\ d.stamp = second /\ d.kept = active
  OBVIOUS
<1> HIDE DEF d
<1>3. work[p].bundle \in Bundles /\ active \in Clean /\ second \in 1..MaxSeconds
  BY <1>1 DEF ConfigInv, Applies, Applying, Bundled
<1>4. backups'[second] = CutShort /\ \A s \in 1..MaxSeconds : s # second => backups'[s] = backups[s]
  BY <1>1, <1>3 DEF ConfigInv, Bundled
<1>5. Bundled'
  BY <1>1, <1>3 DEF ConfigInv, Bundled
<1>6. contested \subseteq contested' /\ (backups[second] # Missing => second \in contested')
  BY <1>1 DEF Overwritten
<1>7. \A a \in applied : Answered(a)'
  BY <1>1, <1>4, <1>6, CleanBundles DEF ConfigInv, Answered
<1>8. ASSUME NEW q \in Clerks PROVE Applies(q)'
  <2>1. CASE q = p
    <3>1. ASSUME second \notin contested'
          PROVE  /\ \A a \in applied : a.stamp # second
                 /\ \A r \in Clerks : Stamps(work[r]) => work[r].stamp # second
      BY <1>6, <3>1 DEF ConfigInv, Applies, Answered
    <3>2. second \notin contested' => Owns(p)'
      BY <1>1, <1>2, <3>1 DEF Owns, Works
    <3> QED BY <1>1, <1>2, <1>3, <1>4, <2>1, <3>2, CleanBundles DEF Applies, Works, Stamps, Applying
  <2>2. CASE q # p
    <3>1. work'[q] = work[q] /\ Applies(q)
      BY <1>1, <2>2 DEF Works, ConfigInv
    <3>2. Stamps(work[q]) => backups'[work[q].stamp] # Missing /\ work[q].stamp \in 1..MaxSeconds
      BY <1>4, <3>1, CleanBundles, RegistriesAssumption DEF Applies, Stamps
    <3>3. ASSUME Stamps(work[q]), work[q].stamp \notin contested' PROVE Owns(q)'
      <4>1. work[q].stamp # second /\ Owns(q)
        BY <1>6, <3>1, <3>3 DEF Applies
      <4> QED BY <1>1, <1>2, <1>4, <3>1, <3>2, <3>3, <4>1 DEF Owns, Works, Stamps
    <3> QED BY <3>1, <3>2, <3>3 DEF Applies, Stamps
  <2> QED BY <2>1, <2>2
<1> QED BY <1>1, <1>5, <1>7, <1>8 DEF ConfigInv

LEMMA ApplyCopyInv ==
  ASSUME Clerical, ConfigInv, NEW p \in Clerks, ApplyCopy(p)
  PROVE  ConfigInv'
<1> DEFINE t == work[p].stamp
<1> DEFINE d == [at |-> "apply_write", bundle |-> work[p].bundle, stamp |-> t]
<1>1. /\ work[p].at = "apply_copy" /\ Works(p, d) /\ backups' = [backups EXCEPT ![t] = work[p].kept]
      /\ UNCHANGED <<active, exported, second, applied, contested>>
  BY ClerkWorks DEF ApplyCopy, Kept, Does
<1>2. d.at = "apply_write" /\ d.bundle = work[p].bundle /\ d.stamp = t
  OBVIOUS
<1> HIDE DEF d
<1>3. work[p].bundle \in Bundles /\ work[p].kept \in Clean /\ t \in 1..MaxSeconds /\ Stamps(work[p])
  BY <1>1, RegistriesAssumption DEF ConfigInv, Applies, Applying, Stamps
<1>4. backups'[t] = work[p].kept /\ \A s \in 1..MaxSeconds : s # t => backups'[s] = backups[s]
  BY <1>1, <1>3 DEF ConfigInv, Bundled
<1>5. Bundled'
  BY <1>1, <1>3 DEF ConfigInv, Bundled
<1>6. t \notin contested => Owns(p) /\ work[p].kept = active
  BY <1>1, <1>3 DEF ConfigInv, Applies, Owns
<1>7. \A a \in applied : Answered(a)'
  BY <1>1, <1>3, <1>4, <1>6, CleanBundles DEF ConfigInv, Answered, Owns
<1>8. ASSUME NEW q \in Clerks PROVE Applies(q)'
  <2>1. CASE q = p
    <3>1. t \notin contested => Owns(p)'
      BY <1>1, <1>2, <1>4, <1>6 DEF Owns, Works, Stamps
    <3> QED BY <1>1, <1>2, <1>3, <1>4, <2>1, <3>1, CleanBundles DEF Applies, Works, Stamps, Applying
  <2>2. CASE q # p
    <3>1. work'[q] = work[q] /\ Applies(q)
      BY <1>1, <2>2 DEF Works, ConfigInv
    <3>2. Stamps(work[q]) => backups'[work[q].stamp] # Missing /\ work[q].stamp \in 1..MaxSeconds
      BY <1>3, <1>4, <3>1, CleanBundles, RegistriesAssumption DEF Applies, Stamps
    <3>3. ASSUME Stamps(work[q]), work[q].stamp \notin contested PROVE Owns(q)'
      <4>1. Owns(q) /\ work[q].stamp # t
        BY <1>3, <2>2, <3>1, <3>3 DEF Applies, Owns
      <4> QED BY <1>1, <1>2, <1>4, <3>1, <3>2, <3>3, <4>1 DEF Owns, Works, Stamps
    <3> QED BY <1>1, <3>1, <3>2, <3>3 DEF Applies, Stamps
  <2> QED BY <2>1, <2>2
<1> QED BY <1>1, <1>5, <1>7, <1>8 DEF ConfigInv

LEMMA ApplyWriteInv ==
  ASSUME Clerical, ConfigInv, NEW p \in Clerks, ApplyWrite(p)
  PROVE  ConfigInv'
<1>1. /\ work[p].at = "apply_write" /\ Works(p, Resting) /\ active' = Sanitized(work[p].bundle)
      /\ UNCHANGED <<backups, exported, second>>
      /\ applied' = IF work[p].stamp = 0 THEN applied
                    ELSE applied \cup {[stamp |-> work[p].stamp, replaced |-> active]}
  BY ClerkWorks DEF ApplyWrite, Rests, Does
<1>2. /\ contested \subseteq contested'
      /\ \A q \in Clerks : q # p /\ work[q].at \in {"apply_copy", "apply_write"}
           => work[q].stamp \in contested'
  BY DEF ApplyWrite
<1>3. work[p].bundle \in Bundles
  BY <1>1 DEF ConfigInv, Applies, Applying
<1>4. Bundled'
  BY <1>1, <1>3, CleanBundles DEF ConfigInv, Bundled
<1>5. ASSUME work[p].stamp # 0, NEW a, a = [stamp |-> work[p].stamp, replaced |-> active]
      PROVE  Answered(a)'
  <2>1. work[p].stamp \in 1..MaxSeconds /\ backups[work[p].stamp] # Missing
        /\ (work[p].stamp \in contested \/ backups[work[p].stamp] = active)
    BY <1>1, <1>5, RegistriesAssumption DEF ConfigInv, Applies, Owns, Stamps
  <2> QED BY <1>1, <1>2, <1>5, <2>1 DEF Answered
<1>6. \A a \in applied : Answered(a)'
  BY <1>1, <1>2 DEF ConfigInv, Answered
<1>7. ASSUME NEW q \in Clerks PROVE Applies(q)'
  <2>1. CASE q = p
    BY <1>1, <2>1 DEF Applies, Works, Resting, Stamps, Applying
  <2>2. CASE q # p
    <3>1. work'[q] = work[q] /\ Applies(q)
      BY <1>1, <2>2 DEF Works, ConfigInv
    <3> QED BY <1>1, <1>2, <2>2, <3>1 DEF Applies, Stamps
  <2> QED BY <2>1, <2>2
<1>8. \A a \in applied' : Answered(a)'
  BY <1>1, <1>5, <1>6
<1> QED BY <1>4, <1>7, <1>8 DEF ConfigInv


LEMMA ConfigStepInv ==
  ASSUME Clerical, ConfigInv, NEW p \in Clerks, ConfigStep(p)
  PROVE  ConfigInv'
<1>1. CASE \E secret \in BOOLEAN : ApplyBegin(p, secret)
  <2>1. PICK secret \in BOOLEAN : ApplyBegin(p, secret)
    BY <1>1
  <2> DEFINE d == [at |-> "apply", bundle |-> [of |-> begun + 1, secret |-> secret]]
  <2>2. ClerkDoes(p, d) /\ UNCHANGED configVars
    BY <2>1 DEF ApplyBegin, Begins
  <2>3. d.at = "apply" /\ d.bundle \in Bundles
    BY DEF Bundles, Clerical
  <2> HIDE DEF d
  <2> QED BY <2>2, <2>3, ClerkWorks, ApplyTurns DEF Stamps
<1>2. CASE RollbackBegin(p)
  <2>1. PICK s \in WholeBackups : Begins(p, [at |-> "apply", bundle |-> backups[s]])
    BY <1>2 DEF RollbackBegin
  <2> DEFINE d == [at |-> "apply", bundle |-> backups[s]]
  <2>2. ClerkDoes(p, d) /\ UNCHANGED configVars
    BY <1>2, <2>1 DEF RollbackBegin, Begins
  <2>3. backups[s] \in Bundles
    BY <2>1, CleanBundles DEF WholeBackups, ConfigInv, Bundled
  <2>4. d.at = "apply" /\ d.bundle \in Bundles
    BY <2>3
  <2> HIDE DEF d
  <2> QED BY <2>2, <2>4, ClerkWorks, ApplyTurns DEF Stamps
<1>3. CASE ApplyBackup(p) /\ active = Missing
  <2> DEFINE d == [at |-> "apply_write", bundle |-> work[p].bundle, stamp |-> 0]
  <2>1. work[p].at = "apply" /\ ClerkDoes(p, d) /\ UNCHANGED configVars
    BY <1>3 DEF ApplyBackup, Does, configVars
  <2>2. d.at = "apply_write" /\ d.bundle \in Bundles /\ d.stamp = 0
    BY <2>1 DEF ConfigInv, Applies, Applying
  <2> HIDE DEF d
  <2> QED BY <2>1, <2>2, ClerkWorks, ApplyTurns DEF Stamps
<1>4. CASE ApplyBackup(p) /\ active # Missing
  BY <1>4, ApplyBackupInv
<1>5. CASE ApplyCopy(p)
  BY <1>5, ApplyCopyInv
<1>6. CASE ApplyWrite(p)
  BY <1>6, ApplyWriteInv
<1> QED BY <1>1, <1>2, <1>3, <1>4, <1>5, <1>6 DEF ConfigStep

\* An export, and a second that passes.
LEMMA BundleMoves ==
  ASSUME ConfigInv, ExportBundle \/ NextSecond
  PROVE  ConfigInv'
<1>1. UNCHANGED <<work, active, backups, applied, contested>>
  BY DEF ExportBundle, NextSecond
<1>2. Bundled'
  <2>1. CASE ExportBundle
    BY <1>1, <2>1, CleanBundles DEF ExportBundle, ConfigInv, Bundled
  <2>2. CASE NextSecond
    BY <1>1, <2>2, RegistriesAssumption DEF NextSecond, ConfigInv, Bundled
  <2> QED BY <2>1, <2>2
<1>3. ASSUME NEW q \in Clerks PROVE Applies(q)'
  BY <1>1 DEF ConfigInv, Applies, Owns, Stamps
<1> QED BY <1>1, <1>2, <1>3 DEF ConfigInv, Answered

-----------------------------------------------------------------------------
(* The snapshots.                                                          *)

\* What a record that was made alone says of its archive.
RecordTrue(rec) == rec.alone => rec.r.archive.tree = rec.r.source
\* A create that is alone is the only one, and the tree is still the one it archived.
Alone(p) ==
    LET w == work[p] IN
    /\ \A q \in Clerks : work[q].at \in Creating => q = p
    /\ w.at = "create_hash" => archive.tree = tree
    /\ w.at = "create_digest" => archive.tree = w.source
    /\ w.at = "create_record" => w.record.archive.tree = w.record.source
Creates(p) ==
    LET w == work[p] IN
    /\ w.at \in {"create", "create_hash"} => HasFields(w, {"at", "n", "alone"})
    /\ w.at = "create_digest" => HasFields(w, {"at", "alone", "source"})
    /\ w.at = "create_record" => HasFields(w, {"at", "alone", "record"})
    /\ w.at \in Creating /\ w.alone => Alone(p)
Restores(w) ==
    /\ w.at \in Restoring => RecordTrue(w.record)
    /\ w.at = "restore_extract" =>
         /\ HasFields(w, {"at", "record", "alone"})
         /\ w.alone => archive = w.record.r.archive
SnapInv ==
    /\ record # Missing => RecordTrue(record)
    /\ \A p \in Clerks : Creates(p) /\ Restores(work[p])
    /\ \A x \in restored : RecordTrue(x.record) /\ (x.alone => x.got = x.record.r.archive)

LEMMA InvSnap == SnapInv => RestoreStands
  BY DEF SnapInv, RestoreStands, RecordTrue

LEMMA SnapElsewhere ==
  ASSUME SnapInv, Same(Creating), Same(Restoring), UNCHANGED snapVars
  PROVE  SnapInv'
<1>1. UNCHANGED <<tree, archive, record, restored>>
  BY DEF snapVars
<1>2. ASSUME NEW q \in Clerks PROVE Creates(q)' /\ Restores(work[q])'
  BY <1>1 DEF SnapInv, Same, Creates, Alone, Restores, RecordTrue, Creating, Restoring
<1> QED BY <1>1, <1>2 DEF SnapInv, RecordTrue

\* A clerk that is disturbed goes on, alone no more.
LEMMA DisturbedStill ==
  ASSUME SnapInv, NEW q \in Clerks, work[q].at \in Creating \cup {"restore_extract"},
         NEW w, w = [work[q] EXCEPT !.alone = FALSE]
  PROVE  /\ w.at = work[q].at /\ w.alone = FALSE
         /\ w.at \in {"create", "create_hash"} => HasFields(w, {"at", "n", "alone"})
         /\ w.at = "create_digest" => HasFields(w, {"at", "alone", "source"})
         /\ w.at = "create_record" => HasFields(w, {"at", "alone", "record"})
         /\ w.at = "restore_extract" => HasFields(w, {"at", "record", "alone"}) /\ w.record = work[q].record
<1>1. w = [work[q] EXCEPT !.alone = FALSE]
  OBVIOUS
<1>2. Creates(q) /\ Restores(work[q])
  BY DEF SnapInv
<1>3. CASE work[q].at \in {"create", "create_hash"}
  BY <1>1, <1>2, <1>3 DEF Creates, HasFields
<1>4. CASE work[q].at = "create_digest"
  BY <1>1, <1>2, <1>4 DEF Creates, HasFields
<1>5. CASE work[q].at = "create_record"
  BY <1>1, <1>2, <1>5 DEF Creates, HasFields
<1>6. CASE work[q].at = "restore_extract"
  BY <1>1, <1>2, <1>6 DEF Restores, HasFields
<1> QED BY <1>3, <1>4, <1>5, <1>6 DEF Creating

LEMMA OthersDisturbed ==
  ASSUME Clerical, SnapInv, NEW p \in Clerks, NEW next, DisturbsOthers(p, next)
  PROVE  /\ work' = [q \in Clerks |-> work'[q]] /\ work'[p] = next
         /\ \A q \in Clerks : q # p =>
              /\ work'[q].at = work[q].at /\ Creates(q)' /\ Restores(work[q])'
              /\ work[q].at \notin Creating \cup {"restore_extract"} => work'[q] = work[q]
<1>1. work' = [q \in Clerks |-> work'[q]] /\ work'[p] = next
  BY DEF DisturbsOthers
<1>2. ASSUME NEW q \in Clerks, q # p, work[q].at \in Creating \cup {"restore_extract"}
      PROVE  work'[q].at = work[q].at /\ Creates(q)' /\ Restores(work[q])'
  <2>1. work'[q] = [work[q] EXCEPT !.alone = FALSE]
    BY <1>2 DEF DisturbsOthers, Disturbed
  <2> HIDE DEF DisturbsOthers
  <2>2. /\ work'[q].at = work[q].at /\ work'[q].alone = FALSE
        /\ work'[q].at \in {"create", "create_hash"} => HasFields(work'[q], {"at", "n", "alone"})
        /\ work'[q].at = "create_digest" => HasFields(work'[q], {"at", "alone", "source"})
        /\ work'[q].at = "create_record" => HasFields(work'[q], {"at", "alone", "record"})
        /\ work'[q].at = "restore_extract" =>
             HasFields(work'[q], {"at", "record", "alone"}) /\ work'[q].record = work[q].record
    BY <1>2, <2>1, DisturbedStill
  <2>3. Restores(work[q])
    BY DEF SnapInv
  <2> QED BY <1>2, <2>2, <2>3 DEF Creates, Restores, RecordTrue, Restoring, Creating
<1>3. ASSUME NEW q \in Clerks, q # p, work[q].at \notin Creating \cup {"restore_extract"}
      PROVE  work'[q] = work[q] /\ Creates(q)' /\ Restores(work[q])'
  <2>1. work'[q] = work[q]
    BY <1>3 DEF DisturbsOthers, Disturbed
  <2>2. Creates(q) /\ Restores(work[q])
    BY DEF SnapInv
  <2> QED BY <1>3, <2>1, <2>2 DEF Creates, Restores, RecordTrue, Creating
<1> QED BY <1>1, <1>2, <1>3

SnapStep(p) ==
    \/ CreateBegin(p) \/ CreateArchive(p) \/ CreateHash(p) \/ CreateDigest(p) \/ CreateRecord(p)
    \/ RestoreBegin(p) \/ RestoreVerify(p) \/ RestoreExtract(p)

\* What a snapshot's step leaves of the clerks' other work.
Aside == Clerical' /\ Same(Importing) /\ Same(Capturing) /\ Same(Applying)
         /\ UNCHANGED <<leaseOf, usageVars, decisionVars, configVars>>

LEMMA SnapLeads ==
  ASSUME Clerical, SnapInv, NEW p \in Clerks, SnapStep(p)
  PROVE  Aside
<1> DEFINE mine == Creating \cup Restoring
<1>1. CASE CreateBegin(p) \/ CreateArchive(p)
  <2>1. PICK d : DisturbsOthers(p, d) /\ d.at \in Creating
    <3>1. CASE CreateBegin(p)
      <4> DEFINE d == [at |-> "create", n |-> begun + 1, alone |-> ~Others(p, Creating)]
      <4>1. DisturbsOthers(p, d) /\ d.at = "create"
        BY <3>1 DEF CreateBegin
      <4> HIDE DEF d
      <4> QED BY <4>1 DEF Creating
    <3>2. CASE CreateArchive(p)
      <4> DEFINE d == [work[p] EXCEPT !.at = "create_hash"]
      <4>1. DisturbsOthers(p, d) /\ work[p].at = "create"
        BY <3>2 DEF CreateArchive, Does
      <4>2. d.at = "create_hash"
        BY <4>1 DEF SnapInv, Creates, HasFields
      <4> HIDE DEF d
      <4> QED BY <4>1, <4>2 DEF Creating
    <3> QED BY <1>1, <3>1, <3>2
  <2>2. Clerical' /\ UNCHANGED <<leaseOf, usageVars, decisionVars, configVars>>
    BY <1>1, <2>1, OthersDisturbed DEF Clerical, CreateBegin, CreateArchive
  <2> QED BY <2>1, <2>2, OthersDisturbed DEF Aside, Same, Creating, Importing, Capturing, Applying
<1>2. CASE ~(CreateBegin(p) \/ CreateArchive(p))
  <2>1. Leads(p, mine)
    <3> USE DEF Leads, Creating, Restoring, Rests, Resting
    <3>1. CASE CreateHash(p)
      BY <3>1 DEF CreateHash
    <3>2. CASE CreateDigest(p)
      BY <3>2 DEF CreateDigest
    <3>3. CASE CreateRecord(p)
      BY <3>3 DEF CreateRecord
    <3>4. CASE RestoreBegin(p)
      BY <3>4 DEF RestoreBegin, Begins
    <3>5. CASE RestoreVerify(p)
      <4> DEFINE d == [at |-> "restore_extract", record |-> work[p].record, alone |-> TRUE]
      <4>1. ClerkDoes(p, d) \/ Rests(p)
        BY <3>5 DEF RestoreVerify
      <4>2. d.at = "restore_extract"
        OBVIOUS
      <4> HIDE DEF d
      <4> QED BY <4>1, <4>2
    <3>6. CASE RestoreExtract(p)
      BY <3>6 DEF RestoreExtract
    <3> QED BY <1>2, <3>1, <3>2, <3>3, <3>4, <3>5, <3>6 DEF SnapStep
  <2>2. begun' \in Nat /\ UNCHANGED <<leaseOf, usageVars, decisionVars, configVars>>
    BY <1>2 DEF SnapStep, Clerical, CreateHash, CreateDigest, CreateRecord, RestoreBegin, Begins,
                RestoreVerify, RestoreExtract
  <2>3. /\ Importing \cap (mine \cup {"rest"}) = {} /\ Capturing \cap (mine \cup {"rest"}) = {}
        /\ Applying \cap (mine \cup {"rest"}) = {}
    BY DEF Creating, Restoring, Importing, Capturing, Applying
  <2> HIDE DEF mine
  <2> QED BY <2>1, <2>2, <2>3, LeadsLeaves DEF Aside
<1> QED BY <1>1, <1>2

\* A clerk that turns to a step of its own leaves the others' creates and restores.
LEMMA SnapTurns ==
  ASSUME SnapInv, NEW p \in Clerks, NEW d, Works(p, d), UNCHANGED <<tree, archive>>,
         d.at \in Creating => work[p].at \in Creating,
         NEW q \in Clerks, q # p
  PROVE  Creates(q)' /\ Restores(work[q])'
<1>1. work'[q] = work[q] /\ work'[p] = d /\ \A r \in Clerks : work'[r].at \in Creating => work[r].at \in Creating
  BY DEF Works
<1>2. Creates(q) /\ Restores(work[q])
  BY DEF SnapInv
<1> QED BY <1>1, <1>2 DEF Creates, Alone, Restores, RecordTrue

LEMMA CreateBeginInv ==
  ASSUME Clerical, SnapInv, NEW p \in Clerks, CreateBegin(p)
  PROVE  SnapInv'
<1> DEFINE d == [at |-> "create", n |-> begun + 1, alone |-> ~Others(p, Creating)]
<1>1. DisturbsOthers(p, d) /\ UNCHANGED <<record, restored>>
  BY DEF CreateBegin
<1>2. d.at = "create" /\ HasFields(d, {"at", "n", "alone"})
  BY DEF HasFields
<1>3. d.alone => ~Others(p, Creating)
  OBVIOUS
<1> HIDE DEF d
<1>4. work'[p] = d /\ \A q \in Clerks : q # p => work'[q].at = work[q].at /\ Creates(q)' /\ Restores(work[q])'
  BY <1>1, OthersDisturbed
<1>5. Creates(p)' /\ Restores(work[p])'
  BY <1>2, <1>3, <1>4 DEF Creates, Restores, Alone, Others, Creating, Restoring
<1> QED BY <1>1, <1>4, <1>5 DEF SnapInv, RecordTrue

LEMMA CreateArchiveInv ==
  ASSUME Clerical, SnapInv, NEW p \in Clerks, CreateArchive(p)
  PROVE  SnapInv'
<1> DEFINE d == [work[p] EXCEPT !.at = "create_hash"]
<1>1. /\ work[p].at = "create" /\ DisturbsOthers(p, d) /\ UNCHANGED <<tree, record, restored>>
      /\ archive' = IF Others(p, {"create"}) THEN CutShort ELSE [of |-> work[p].n, tree |-> tree]
  BY DEF CreateArchive, Does
<1>2. d.at = "create_hash" /\ HasFields(d, {"at", "n", "alone"}) /\ d.alone = work[p].alone
  BY <1>1 DEF HasFields, SnapInv, Creates
<1> HIDE DEF d
<1>4. work'[p] = d /\ \A q \in Clerks : q # p => work'[q].at = work[q].at /\ Creates(q)' /\ Restores(work[q])'
  BY <1>1, OthersDisturbed
<1>3. d.alone => Alone(p)
  BY <1>1, <1>2 DEF SnapInv, Creates, Creating
<1>5. d.alone => Alone(p)'
  BY <1>1, <1>2, <1>3, <1>4 DEF Alone, Others, Creating
<1>6. Creates(p)' /\ Restores(work[p])'
  BY <1>2, <1>4, <1>5 DEF Creates, Restores, Restoring
<1> QED BY <1>1, <1>4, <1>6 DEF SnapInv, RecordTrue

LEMMA CreateHashInv ==
  ASSUME Clerical, SnapInv, NEW p \in Clerks, CreateHash(p)
  PROVE  SnapInv'
<1> DEFINE d == [at |-> "create_digest", alone |-> work[p].alone, source |-> tree]
<1>1. work[p].at = "create_hash" /\ Works(p, d) /\ UNCHANGED <<tree, archive, record, restored>>
  BY ClerkWorks DEF CreateHash, Does, snapVars
<1>2. /\ d.at = "create_digest" /\ HasFields(d, {"at", "alone", "source"}) /\ d.alone = work[p].alone
      /\ d.source = tree
  BY DEF HasFields
<1> HIDE DEF d
<1>3. \A q \in Clerks : q # p => Creates(q)' /\ Restores(work[q])'
  BY <1>1, SnapTurns DEF Creating
<1>4. d.alone => Alone(p)
  BY <1>1, <1>2 DEF SnapInv, Creates, Creating
<1>5. d.alone => Alone(p)'
  BY <1>1, <1>2, <1>4 DEF Alone, Works, Creating
<1>6. Creates(p)' /\ Restores(work[p])'
  BY <1>1, <1>2, <1>5 DEF Creates, Restores, Restoring, Works
<1> QED BY <1>1, <1>3, <1>6 DEF SnapInv, RecordTrue

LEMMA CreateDigestInv ==
  ASSUME Clerical, SnapInv, NEW p \in Clerks, CreateDigest(p)
  PROVE  SnapInv'
<1> DEFINE rec == [of |-> archive.of, archive |-> archive, source |-> work[p].source]
<1> DEFINE d == [at |-> "create_record", alone |-> work[p].alone, record |-> rec]
<1>1. work[p].at = "create_digest" /\ Works(p, d) /\ UNCHANGED <<tree, archive, record, restored>>
  BY ClerkWorks DEF CreateDigest, Does, snapVars
<1>2. /\ d.at = "create_record" /\ HasFields(d, {"at", "alone", "record"}) /\ d.alone = work[p].alone
      /\ d.record.archive = archive /\ d.record.source = work[p].source
  BY DEF HasFields
<1> HIDE DEF d
<1>3. \A q \in Clerks : q # p => Creates(q)' /\ Restores(work[q])'
  BY <1>1, <1>2, SnapTurns DEF Creating
<1>4. d.alone => Alone(p)
  BY <1>1, <1>2 DEF SnapInv, Creates, Creating
<1>5. d.alone => Alone(p)'
  BY <1>1, <1>2, <1>4 DEF Alone, Works, Creating
<1>6. Creates(p)' /\ Restores(work[p])'
  BY <1>1, <1>2, <1>5 DEF Creates, Restores, Restoring, Works
<1> QED BY <1>1, <1>3, <1>6 DEF SnapInv, RecordTrue

LEMMA SnapStepInv ==
  ASSUME Clerical, SnapInv, NEW p \in Clerks, SnapStep(p)
  PROVE  SnapInv'
<1>1. CASE CreateBegin(p)
  BY <1>1, CreateBeginInv
<1>2. CASE CreateArchive(p)
  BY <1>2, CreateArchiveInv
<1>3. CASE CreateHash(p)
  BY <1>3, CreateHashInv
<1>4. CASE CreateDigest(p)
  BY <1>4, CreateDigestInv
<1>5. CASE CreateRecord(p)
  <2>1. /\ work[p].at = "create_record" /\ Works(p, Resting) /\ UNCHANGED <<tree, archive, restored>>
        /\ record' = [r |-> work[p].record, alone |-> work[p].alone]
    BY <1>5, ClerkWorks DEF CreateRecord, Rests, Does
  <2>2. RecordTrue(record')
    BY <2>1 DEF SnapInv, Creates, Alone, Creating, RecordTrue
  <2>3. \A q \in Clerks : q # p => Creates(q)' /\ Restores(work[q])'
    BY <2>1, SnapTurns DEF Resting, Creating
  <2>4. Creates(p)' /\ Restores(work[p])'
    BY <2>1 DEF Works, Resting, Creates, Restores, Creating, Restoring
  <2> QED BY <2>1, <2>2, <2>3, <2>4 DEF SnapInv, RecordTrue
<1>6. CASE RestoreBegin(p)
  <2> DEFINE d == [at |-> "restore", record |-> record]
  <2>1. record # Missing /\ Works(p, d) /\ UNCHANGED <<tree, archive, record, restored>>
    BY <1>6, ClerkWorks DEF RestoreBegin, Begins, snapVars
  <2>2. d.at = "restore" /\ d.record = record
    OBVIOUS
  <2> HIDE DEF d
  <2>3. \A q \in Clerks : q # p => Creates(q)' /\ Restores(work[q])'
    BY <2>1, <2>2, SnapTurns DEF Creating
  <2>4. Creates(p)' /\ Restores(work[p])'
    BY <2>1, <2>2 DEF Works, Creates, Restores, Creating, Restoring, SnapInv, RecordTrue
  <2> QED BY <2>1, <2>3, <2>4 DEF SnapInv, RecordTrue
<1>7. CASE RestoreVerify(p)
  <2>0. work[p].at = "restore" /\ UNCHANGED <<tree, archive, record, restored>>
    BY <1>7 DEF RestoreVerify, Does, snapVars
  <2>1. CASE VerifiedArchive(work[p].record.r)
    <3> DEFINE d == [at |-> "restore_extract", record |-> work[p].record, alone |-> TRUE]
    <3>1. Works(p, d)
      BY <1>7, <2>1, ClerkWorks DEF RestoreVerify
    <3>2. d.at = "restore_extract" /\ d.record = work[p].record /\ HasFields(d, {"at", "record", "alone"})
      BY DEF HasFields
    <3> HIDE DEF d
    <3>3. \A q \in Clerks : q # p => Creates(q)' /\ Restores(work[q])'
      BY <2>0, <3>1, <3>2, SnapTurns DEF Creating
    <3>4. Creates(p)' /\ Restores(work[p])'
      BY <2>0, <2>1, <3>1, <3>2 DEF Works, Creates, Restores, Creating, Restoring, SnapInv, RecordTrue,
                                    VerifiedArchive
    <3> QED BY <2>0, <3>3, <3>4 DEF SnapInv, RecordTrue
  <2>2. CASE ~VerifiedArchive(work[p].record.r)
    <3>1. Works(p, Resting)
      BY <1>7, <2>2, ClerkWorks DEF RestoreVerify, Rests
    <3>3. \A q \in Clerks : q # p => Creates(q)' /\ Restores(work[q])'
      BY <2>0, <3>1, SnapTurns DEF Resting, Creating
    <3>4. Creates(p)' /\ Restores(work[p])'
      BY <3>1 DEF Works, Resting, Creates, Restores, Creating, Restoring
    <3> QED BY <2>0, <3>3, <3>4 DEF SnapInv, RecordTrue
  <2> QED BY <2>1, <2>2
<1>8. CASE RestoreExtract(p)
  <2> DEFINE x == [record |-> work[p].record, got |-> archive, alone |-> work[p].alone]
  <2>1. /\ work[p].at = "restore_extract" /\ Works(p, Resting) /\ UNCHANGED <<tree, archive, record>>
        /\ restored' \subseteq restored \cup {x}
    BY <1>8, ClerkWorks DEF RestoreExtract, Rests, Does
  <2>2. x.record = work[p].record /\ x.got = archive /\ (x.alone => work[p].alone)
    OBVIOUS
  <2> HIDE DEF x
  <2>3. RecordTrue(x.record) /\ (x.alone => x.got = x.record.r.archive)
    BY <2>1, <2>2 DEF SnapInv, Restores, Restoring
  <2>4. \A q \in Clerks : q # p => Creates(q)' /\ Restores(work[q])'
    BY <2>1, SnapTurns DEF Resting, Creating
  <2>5. Creates(p)' /\ Restores(work[p])'
    BY <2>1 DEF Works, Resting, Creates, Restores, Creating, Restoring
  <2> QED BY <2>1, <2>3, <2>4, <2>5 DEF SnapInv, RecordTrue
<1> QED BY <1>1, <1>2, <1>3, <1>4, <1>5, <1>6, <1>7, <1>8 DEF SnapStep


\* The source tree is edited under the creates.
LEMMA EditTreeInv ==
  ASSUME Clerical, SnapInv, EditTree
  PROVE  SnapInv' /\ Aside
<1>1. UNCHANGED <<begun, leaseOf, archive, record, restored, usageVars, decisionVars, configVars>>
  BY DEF EditTree
<1>2. work' = [q \in Clerks |-> work'[q]]
  BY DEF EditTree
<1>3. ASSUME NEW q \in Clerks
      PROVE  /\ Creates(q)' /\ Restores(work[q])' /\ work'[q].at = work[q].at
             /\ work[q].at \in Creating \/ work'[q] = work[q]
  <2>2. Creates(q) /\ Restores(work[q])
    BY DEF SnapInv
  <2>3. CASE work[q].at \in Creating
    <3>0. work'[q] = [work[q] EXCEPT !.alone = FALSE]
      BY <2>3 DEF EditTree, Disturbed
    <3>1. /\ work'[q].at = work[q].at /\ work'[q].alone = FALSE
          /\ work'[q].at \in {"create", "create_hash"} => HasFields(work'[q], {"at", "n", "alone"})
          /\ work'[q].at = "create_digest" => HasFields(work'[q], {"at", "alone", "source"})
          /\ work'[q].at = "create_record" => HasFields(work'[q], {"at", "alone", "record"})
      BY <2>3, <3>0, DisturbedStill
    <3> QED BY <2>3, <3>1 DEF Creates, Restores, Creating, Restoring
  <2>4. CASE work[q].at \notin Creating
    <3>1. work'[q] = work[q]
      BY <2>4 DEF EditTree, Disturbed
    <3> QED BY <1>1, <2>2, <2>4, <3>1 DEF Creates, Restores, RecordTrue, Creating
  <2> QED BY <2>3, <2>4
<1>4. SnapInv'
  BY <1>1, <1>3 DEF SnapInv, RecordTrue
<1>5. Aside
  BY <1>1, <1>2, <1>3 DEF Aside, Clerical, Same, Creating, Importing, Capturing, Applying
<1> QED BY <1>4, <1>5

-----------------------------------------------------------------------------
(* All of them.                                                            *)

RegInv == Clerical /\ UsageInv /\ DecisionInv /\ ConfigInv /\ SnapInv

LEMMA RegInitInv == RegInit => RegInv
<1> SUFFICES ASSUME RegInit PROVE RegInv
  OBVIOUS
<1>1. \A p \in Clerks : work[p].at = "rest"
  BY DEF RegInit, Resting
<1>2. Clerical
  BY DEF RegInit, Clerical
<1>3. UsageInv
  BY <1>1 DEF RegInit, UsageInv, Imports, Importing
<1>4. DecisionInv
  BY <1>1 DEF RegInit, DecisionInv
<1>5. ConfigInv
  BY <1>1, RegistriesAssumption DEF RegInit, ConfigInv, Bundled, Answered, Applies, Stamps, Applying
<1>6. SnapInv
  BY <1>1 DEF RegInit, SnapInv, Creates, Restores, Creating, Restoring
<1> QED BY <1>2, <1>3, <1>4, <1>5, <1>6 DEF RegInv

\* Every step is a clerk's at one of the four registers, a kill, or the outside's.
LEMMA RegSteps ==
  ASSUME RegNext
  PROVE  \/ ExportBundle \/ NextSecond \/ EditTree
         \/ \E p \in Clerks : UsageStep(p) \/ DecisionStep(p) \/ ConfigStep(p) \/ SnapStep(p) \/ KillClerk(p)
  BY DEF RegNext, UsageStep, DecisionStep, ConfigStep, SnapStep

\* Steps at one register are none of another's.
LEMMA StepsApart ==
  /\ Importing \cap (Capturing \cup {"rest"}) = {} /\ Importing \cap (Applying \cup {"rest"}) = {}
  /\ Capturing \cap (Importing \cup {"rest"}) = {} /\ Capturing \cap (Applying \cup {"rest"}) = {}
  /\ Applying \cap (Importing \cup {"rest"}) = {} /\ Applying \cap (Capturing \cup {"rest"}) = {}
  /\ Creating \cap (Importing \cup {"rest"}) = {} /\ Restoring \cap (Importing \cup {"rest"}) = {}
  /\ Creating \cap (Capturing \cup {"rest"}) = {} /\ Restoring \cap (Capturing \cup {"rest"}) = {}
  /\ Creating \cap (Applying \cup {"rest"}) = {} /\ Restoring \cap (Applying \cup {"rest"}) = {}
  /\ \A A \in {Importing, Capturing, Applying, Creating, Restoring} : A \cap ({} \cup {"rest"}) = {}
  BY DEF Importing, Capturing, Applying, Creating, Restoring

LEMMA RegNextInv == RegInv /\ [RegNext]_regVars => RegInv'
<1> SUFFICES ASSUME RegInv, [RegNext]_regVars PROVE RegInv'
  OBVIOUS
<1> USE DEF RegInv
<1>0. ASSUME UNCHANGED work PROVE Same(Importing) /\ Same(Capturing) /\ Same(Applying) /\ Same(Creating) /\ Same(Restoring)
  BY <1>0 DEF Same
<1>1. CASE ExportBundle \/ NextSecond
  <2>1. UNCHANGED <<work, begun, leaseOf, usageVars, decisionVars, snapVars>>
    BY <1>1 DEF ExportBundle, NextSecond
  <2>2. Clerical'
    BY <2>1 DEF Clerical
  <2> QED BY <1>0, <1>1, <2>1, <2>2, UsageElsewhere, DecisionElsewhere, BundleMoves, SnapElsewhere
<1>2. CASE EditTree
  <2>1. SnapInv' /\ Aside
    BY <1>2, EditTreeInv
  <2> QED BY <2>1, UsageElsewhere, DecisionElsewhere, ConfigElsewhere DEF Aside
<1>3. ASSUME NEW p \in Clerks, UsageStep(p) PROVE RegInv'
  <2>1. Leads(p, Importing) /\ begun' \in Nat /\ UNCHANGED <<decisionVars, configVars, snapVars>>
    BY <1>3, UsageLeads
  <2>2. Clerical' /\ Same(Capturing) /\ Same(Applying) /\ Same(Creating) /\ Same(Restoring)
    BY <2>1, StepsApart, LeadsLeaves
  <2> QED BY <1>3, <2>1, <2>2, UsageStepInv, DecisionElsewhere, ConfigElsewhere, SnapElsewhere
<1>4. ASSUME NEW p \in Clerks, DecisionStep(p) PROVE RegInv'
  <2>1. Leads(p, Capturing) /\ begun' \in Nat /\ UNCHANGED <<leaseOf, usageVars, configVars, snapVars>>
    BY <1>4, DecisionLeads
  <2>2. Clerical' /\ Same(Importing) /\ Same(Applying) /\ Same(Creating) /\ Same(Restoring)
    BY <2>1, StepsApart, LeadsLeaves
  <2> QED BY <1>4, <2>1, <2>2, DecisionStepInv, UsageElsewhere, ConfigElsewhere, SnapElsewhere
<1>5. ASSUME NEW p \in Clerks, ConfigStep(p) PROVE RegInv'
  <2>1. Leads(p, Applying) /\ begun' \in Nat /\ UNCHANGED <<leaseOf, usageVars, decisionVars, snapVars>>
    BY <1>5, ConfigLeads
  <2>2. Clerical' /\ Same(Importing) /\ Same(Capturing) /\ Same(Creating) /\ Same(Restoring)
    BY <2>1, StepsApart, LeadsLeaves
  <2> QED BY <1>5, <2>1, <2>2, ConfigStepInv, UsageElsewhere, DecisionElsewhere, SnapElsewhere
<1>6. ASSUME NEW p \in Clerks, SnapStep(p) PROVE RegInv'
  <2>1. Aside
    BY <1>6, SnapLeads
  <2> QED BY <1>6, <2>1, SnapStepInv, UsageElsewhere, DecisionElsewhere, ConfigElsewhere DEF Aside
<1>7. ASSUME NEW p \in Clerks, KillClerk(p) PROVE RegInv'
  <2>1. /\ Leads(p, {}) /\ begun' = begun /\ work'[p] = Resting
        /\ UNCHANGED <<usageVars, decisionVars, configVars, snapVars>>
        /\ leaseOf' = leaseOf \/ leaseOf = p
    BY <1>7, KillLeads
  <2>2. Clerical' /\ \A A \in {Importing, Capturing, Applying, Creating, Restoring} : Same(A)
    BY <2>1, StepsApart, LeadsLeaves DEF Clerical
  <2>3. UsageInv'
    BY <2>1, <2>2, UsageElsewhere DEF Resting
  <2> QED BY <2>1, <2>2, <2>3, DecisionElsewhere, ConfigElsewhere, SnapElsewhere
<1>8. CASE UNCHANGED regVars
  <2>1. UNCHANGED <<work, begun, leaseOf, usageVars, decisionVars, configVars, snapVars>>
    BY <1>8 DEF regVars
  <2>2. Clerical'
    BY <2>1 DEF Clerical
  <2> QED BY <1>0, <2>1, <2>2, UsageElsewhere, DecisionElsewhere, ConfigElsewhere, SnapElsewhere
<1> QED BY <1>1, <1>2, <1>3, <1>4, <1>5, <1>6, <1>7, <1>8, RegSteps

\* Every register keeps what it answered: what an import counted, a decision captured alone, a
\* backup whose second is its own, an archive restored as its record names it (usage.py
\* import_usage, decisions.py capture_decision, configsync.py apply_bundle, snapshot.py create
\* and restore).
THEOREM RegistersTheorem == RegSpec => []AnsweredStays
<1>1. RegInv => AnsweredStays
  BY InvLedger, InvDecision, InvConfig, InvSnap DEF RegInv, AnsweredStays
<1> QED BY <1>1, RegInitInv, RegNextInv, PTL DEF RegSpec
=============================================================================
