---------------------------- MODULE HolderProofs -----------------------------
(***************************************************************************)
(* Theorems about the execution holder: its records (HolderRecords), and   *)
(* one execute with its processes (HolderExecution).                       *)
(*                                                                         *)
(* Records, for any callers, keys and bounds, and a daemon that dies       *)
(* between any two files: only a death inside init or set_policy locks the *)
(* holder out, a boundary key that was half written never authorizes,      *)
(* installed protection authorizes nothing, and a session stores no key    *)
(* over what was revoked while its user was waited for.  None of this is   *)
(* inductive: an operation decides what it will write, and a file changes  *)
(* several steps later.  What is inductive speaks of the writes to come    *)
(* (todo) as well: each belongs to a set of writes that cannot do harm,    *)
(* whatever happens between them.                                          *)
(*                                                                         *)
(* Execute, for any number of processes: the lease is given up only when   *)
(* nothing of the payload is alive.  The holder does not know the          *)
(* payload's processes.  The invariant says what it knows instead: that    *)
(* on linux the roots of their forest are its own children, and on darwin  *)
(* that somebody forked.                                                   *)
(***************************************************************************)
EXTENDS HolderRecords, HolderExecution, SequenceTheorems, TLAPS

-----------------------------------------------------------------------------
(* Records.                                                                *)

\* Writes after which the records load as before: no policy, and no other
\* generation than m in meta.json.
Benign(m) == {w \in Writes : w.file # "policy" /\ (w.file = "meta" => w.value = m)}

\* What installed protection lets through: no policy, boundary or receipt, and
\* devices without an enrollment of the boundary.
Unbound(d) == \A r \in Roles : d[r] # None => d[r].id = 0 /\ ~d[r].revoked
Harmless ==
    {w \in Writes :
        /\ w.file \notin {"policy", "boundary"}
        /\ w.file = "receipt" => w.value = None
        /\ w.file = "devices" => Unbound(w.value)}

\* Writes that leave the devices of R revoked.
RevokedIn(d, r) == d[r] # None /\ d[r].revoked
Revoking(R) ==
    {w \in Writes : w.file = "devices" => \A r \in R : RevokedIn(w.value, r)}

Installed ==
    installed => /\ disk.policy = None /\ disk.boundary = NoRoles /\ disk.receipt = None
                 /\ Unbound(disk.devices) /\ todo \in Seq(Harmless)

\* An id in os-boundary.json got there after devices.json was written.
BoundaryIds == \A r \in Roles : disk.boundary[r] # None => disk.boundary[r].id \in whole

\* While a user is waited for, a role that was revoked and not enrolled again is
\* revoked on disk, or about to be.
Waits ==
    /\ session = None => regained = Roles
    /\ session # None => disk.meta # None
    /\ todo \in Seq(Revoking(Roles \ regained))
    /\ \A r \in Roles \ regained :
          RevokedIn(disk.devices, r) \/ \E i \in 1..Len(todo) : todo[i].file = "devices"

-----------------------------------------------------------------------------
(* Stages of the operations that replace what _load compares.              *)

Consistent ==
    disk.meta # None =>
        /\ disk.callers # None /\ disk.spent # None
        /\ disk.policy # None => disk.policy.generation = disk.meta.generation

Settled == Consistent /\ todo \in Seq(Benign(disk.meta))

\* set_policy, before and after policy.json is replaced.
Drops == {<<>>, <<Put("receipt", None)>>}
MetaWith(g) == Put("meta", [generation |-> g])
PolicyComes ==
    /\ op = "policy" /\ Consistent /\ disk.meta # None
    /\ todo # <<>> /\ todo[1].file = "policy"
    /\ \E rest \in Drops :
          todo = <<todo[1], MetaWith(todo[1].value.generation)>> \o rest
PolicyCame ==
    /\ op = "policy" /\ disk.callers # None /\ disk.spent # None /\ disk.policy # None
    /\ \E rest \in Drops : todo = <<MetaWith(disk.policy.generation)>> \o rest

\* __init__ of a new holder.
InitComes ==
    /\ op = "init" /\ disk.policy = None
    /\ \/ todo = <<Put("meta", [generation |-> 1]), Put("callers", {}),
                   Put("devices", NoRoles), Put("spent", {})>>
       \/ todo = <<Put("callers", {}), Put("devices", NoRoles), Put("spent", {})>>
       \/ todo = <<Put("devices", NoRoles), Put("spent", {})>> /\ disk.callers # None
       \/ todo = <<Put("spent", {})>> /\ disk.callers # None

Stage == torn \/ Settled \/ PolicyComes \/ PolicyCame \/ InitComes

RecordsInv == TypeOK /\ Installed /\ BoundaryIds /\ Waits /\ Stage

-----------------------------------------------------------------------------
(* Sequences of writes.                                                    *)

LEMMA SeqWithin ==
    ASSUME NEW A, NEW B, A \subseteq B, NEW s \in Seq(A)
    PROVE  s \in Seq(B)
OBVIOUS

LEMMA Concatenated ==
    ASSUME NEW W, NEW s \in Seq(W), NEW t \in Seq(W)
    PROVE  s \o t \in Seq(W)
OBVIOUS

LEMMA OneOf ==
    ASSUME NEW W, NEW a \in W
    PROVE  <<a>> \in Seq(W)
OBVIOUS

LEMMA TwoOf ==
    ASSUME NEW W, NEW a \in W, NEW b \in W
    PROVE  <<a, b>> \in Seq(W)
OBVIOUS

LEMMA FourOf ==
    ASSUME NEW W, NEW a \in W, NEW b \in W, NEW c \in W, NEW d \in W
    PROVE  <<a, b, c, d>> \in Seq(W)
OBVIOUS

LEMMA NoneOf ==
    ASSUME NEW W
    PROVE  <<>> \in Seq(W)
OBVIOUS

LEMMA HeadTail ==
    ASSUME NEW W, NEW s \in Seq(W), s # <<>>
    PROVE  /\ Head(s) \in W /\ Tail(s) \in Seq(W) /\ Head(s) = s[1]
           /\ Len(s) \in Nat \ {0} /\ Len(Tail(s)) = Len(s) - 1
           /\ \A i \in 1..Len(Tail(s)) : Tail(s)[i] = s[i + 1]
OBVIOUS

LEMMA AfterOne ==
    ASSUME NEW W, NEW a, NEW s \in Seq(W)
    PROVE  Head(<<a>> \o s) = a /\ Tail(<<a>> \o s) = s /\ <<a>> \o s # <<>>
OBVIOUS

LEMMA AfterTwo ==
    ASSUME NEW W, NEW a, NEW b, NEW s \in Seq(W)
    PROVE  Head(<<a, b>> \o s) = a /\ Tail(<<a, b>> \o s) = <<b>> \o s /\ <<a, b>> \o s # <<>>
OBVIOUS

-----------------------------------------------------------------------------
(* Types.                                                                  *)

LEMMA PutTyped ==
    /\ \A v \in Metas : Put("meta", v) \in Writes
    /\ \A v \in SUBSET Callers : Put("callers", v) \in Writes
    /\ Put("spent", {}) \in Writes
    /\ \A v \in Callers : Put("enrollment", v) \in Writes
    /\ \A v \in PolicyRecords : Put("policy", v) \in Writes
    /\ \A v \in [Roles -> Devices \cup {None}] : Put("devices", v) \in Writes
    /\ \A v \in [Roles -> Boundaries \cup {None}] : Put("boundary", v) \in Writes
    /\ \A v \in SUBSET Nat : Put("nonces", v) \in Writes
    /\ \A v \in PhoneReceipts \cup {None} : Put("receipt", v) \in Writes
  BY DEF Put, Writes

LEMMA WriteTyped ==
    ASSUME NEW w \in Writes
    PROVE  /\ w.file \in Files
           /\ w.file = "meta" => w.value \in Metas
           /\ w.file = "callers" => w.value \in SUBSET Callers
           /\ w.file = "spent" => w.value = {}
           /\ w.file = "enrollment" => w.value \in Callers
           /\ w.file = "policy" => w.value \in PolicyRecords
           /\ w.file = "devices" => w.value \in [Roles -> Devices \cup {None}]
           /\ w.file = "boundary" => w.value \in [Roles -> Boundaries \cup {None}]
           /\ w.file = "nonces" => w.value \in SUBSET Nat
           /\ w.file = "receipt" => w.value \in PhoneReceipts \cup {None}
  BY DEF Writes, Files

\* A Write replaces one file.
LEMMA OneFile ==
    ASSUME TypeOK, Write
    PROVE  /\ Head(todo) \in Writes
           /\ disk' = [f \in Files |-> disk'[f]]
           /\ \A f \in Files :
                 disk'[f] = IF f = Head(todo).file THEN Head(todo).value ELSE disk[f]
<1>1. Head(todo) \in Writes
  BY HeadTail DEF TypeOK, Write
<1>2. Head(todo).file \in Files
  BY <1>1, WriteTyped
<1> QED
  BY <1>1, <1>2 DEF TypeOK, Write

LEMMA DropTyped ==
    ASSUME TypeOK
    PROVE  DropReceipt \in Seq(Writes)
  BY PutTyped, OneOf, NoneOf DEF DropReceipt

LEMMA DeviceTyped ==
    ASSUME TypeOK, Loads, NEW k \in Keys, NEW id \in Nat
    PROVE  Device(k, id) \in Devices /\ generation \in Nat
  BY DEF TypeOK, Loads, Device, Devices, Metas, generation

LEMMA EnrolledTyped ==
    ASSUME TypeOK, Loads, NEW r \in Roles, NEW k \in Keys, NEW id \in Nat
    PROVE  Enrolled(r, Device(k, id)) \in [Roles -> Devices \cup {None}]
  BY DeviceTyped DEF TypeOK, Enrolled

LEMMA RevokedTyped ==
    ASSUME TypeOK, NEW r \in Roles, disk.devices[r] # None
    PROVE  [disk.devices EXCEPT ![r].revoked = TRUE] \in [Roles -> Devices \cup {None}]
  BY DEF TypeOK, Devices

\* What the running operation does to the type of the rest.
LEMMA BeginTyped ==
    ASSUME TypeOK, NEW name, NEW writes, writes \in Seq(Writes), Begin(name, writes),
           UNCHANGED <<challenge, session, serial>>, regained' \subseteq Roles
    PROVE  TypeOK'
  BY DEF TypeOK, Begin

LEMMA RolesTyped == \A p \in Policies : RolesOf[p] \subseteq Roles /\ RolesOf[p] # {}
  BY DEF Policies, RolesOf, Roles

LEMMA SetPolicyTyped ==
    ASSUME TypeOK, NEW p \in Policies, SetPolicy(p)
    PROVE  TypeOK'
<1> DEFINE a == Put("policy", [name |-> p, generation |-> generation + 1])
           b == Put("meta", [generation |-> generation + 1])
<1>1. generation \in Nat
  BY DEF SetPolicy, Ready, Loads, TypeOK, Metas, generation
<1>2. a \in Writes /\ b \in Writes
  BY <1>1, PutTyped DEF PolicyRecords, Metas
<1>3. <<a, b>> \o DropReceipt \in Seq(Writes)
  BY <1>2, TwoOf, DropTyped, Concatenated
<1>4. Begin("policy", <<a, b>> \o DropReceipt) /\ regained' \subseteq Roles
      /\ UNCHANGED <<challenge, session, serial>>
  BY DEF SetPolicy, TypeOK
<1> QED
  BY <1>3, <1>4, BeginTyped

LEMMA RotateTyped ==
    ASSUME TypeOK, RotateCaller
    PROVE  TypeOK'
<1> DEFINE a == Put("callers", disk.callers)
           b == Put("meta", disk.meta)
<1>1. disk.callers \in SUBSET Callers /\ disk.meta \in Metas
  BY DEF RotateCaller, Ready, Loads, TypeOK
<1>2. a \in Writes /\ b \in Writes
  BY <1>1, PutTyped
<1>3. <<a, b>> \o DropReceipt \in Seq(Writes)
  BY <1>2, TwoOf, DropTyped, Concatenated
<1>4. Begin("rotate", <<a, b>> \o DropReceipt) /\ regained' \subseteq Roles
      /\ UNCHANGED <<challenge, session, serial>>
  BY DEF RotateCaller, TypeOK
<1> QED
  BY <1>3, <1>4, BeginTyped

LEMMA StartTyped ==
    ASSUME TypeOK, Start
    PROVE  TypeOK'
<1> DEFINE a == Put("meta", [generation |-> 1])
           b == Put("callers", {})
           c == Put("devices", NoRoles)
           d == Put("spent", {})
<1>1. a \in Writes /\ b \in Writes /\ c \in Writes /\ d \in Writes
  BY PutTyped DEF Metas, NoRoles
<1>2. <<a, b, c, d>> \in Seq(Writes)
  BY <1>1, FourOf
<1>3. Begin("init", <<a, b, c, d>>) /\ regained' \subseteq Roles
      /\ UNCHANGED <<challenge, session, serial>>
  BY DEF Start, TypeOK
<1> QED
  BY <1>2, <1>3, BeginTyped

LEMMA EnrollTyped ==
    ASSUME TypeOK, NEW c \in Callers, Enroll(c)
    PROVE  TypeOK'
<1> DEFINE a == Put("callers", disk.callers \cup {c})
           b == Put("enrollment", c)
<1>1. disk.callers \cup {c} \in SUBSET Callers
  BY DEF Enroll, TypeOK
<1>2. a \in Writes /\ b \in Writes
  BY <1>1, PutTyped
<1>3. <<a, b>> \in Seq(Writes)
  BY <1>2, TwoOf
<1>4. Begin("enroll", <<a, b>>) /\ regained' \subseteq Roles
      /\ UNCHANGED <<challenge, session, serial>>
  BY DEF Enroll, TypeOK
<1> QED
  BY <1>3, <1>4, BeginTyped

LEMMA DeviceOpTyped ==
    ASSUME TypeOK, NEW r \in Roles, RevokeDevice(r) \/ ReplaceDeviceKey(r)
    PROVE  TypeOK'
<1>1. ASSUME RevokeDevice(r) PROVE TypeOK'
  <2> DEFINE a == Put("devices", [disk.devices EXCEPT ![r].revoked = TRUE])
  <2>1. a \in Writes
    BY <1>1, RevokedTyped, PutTyped DEF RevokeDevice
  <2>2. <<a>> \o DropReceipt \in Seq(Writes)
    BY <2>1, OneOf, DropTyped, Concatenated
  <2>3. Begin("revoke", <<a>> \o DropReceipt) /\ regained' \subseteq Roles
        /\ UNCHANGED <<challenge, session, serial>>
    BY <1>1 DEF RevokeDevice, TypeOK
  <2> QED
    BY <2>2, <2>3, BeginTyped
<1>2. ASSUME ReplaceDeviceKey(r) PROVE TypeOK'
  <2> DEFINE a == Put("devices", disk.devices)
  <2>1. a \in Writes
    BY PutTyped DEF TypeOK
  <2>2. <<a>> \o DropReceipt \in Seq(Writes)
    BY <2>1, OneOf, DropTyped, Concatenated
  <2>3. Begin("replace", <<a>> \o DropReceipt) /\ regained' \subseteq Roles
        /\ UNCHANGED <<challenge, session, serial>>
    BY <1>2 DEF ReplaceDeviceKey, TypeOK
  <2> QED
    BY <2>2, <2>3, BeginTyped
<1> QED
  BY <1>1, <1>2

LEMMA PairTyped ==
    ASSUME TypeOK, NEW r \in Roles, NEW k \in Keys, PairDevice(r, k)
    PROVE  TypeOK'
<1> DEFINE a == Put("devices", Enrolled(r, Device(k, 0)))
<1>1. a \in Writes
  BY EnrolledTyped, PutTyped DEF PairDevice, Ready
<1>2. Begin("pair", <<a>>) /\ regained' \subseteq Roles
      /\ UNCHANGED <<challenge, session, serial>>
  BY DEF PairDevice, Regain, TypeOK
<1> QED
  BY <1>1, <1>2, OneOf, BeginTyped

LEMMA AdapterTyped ==
    ASSUME TypeOK, NEW p \in Policies, NEW key \in KeyChoices(p), AdapterEnroll(p, key)
    PROVE  TypeOK'
<1> DEFINE v == [r \in Roles |-> IF r \in RolesOf[p] THEN Device(key[r], 0)
                                 ELSE disk.devices[r]]
           a == Put("devices", v)
<1>1. \A r \in RolesOf[p] : Device(key[r], 0) \in Devices
  BY DeviceTyped DEF AdapterEnroll, Ready, KeyChoices
<1>2. v \in [Roles -> Devices \cup {None}]
  BY <1>1 DEF TypeOK
<1>3. a \in Writes
  BY <1>2, PutTyped
<1>4. Begin("adapter", <<a>>) /\ regained' \subseteq Roles
      /\ UNCHANGED <<challenge, session, serial>>
  BY RolesTyped DEF AdapterEnroll, Regain, TypeOK
<1> QED
  BY <1>3, <1>4, OneOf, BeginTyped

LEMMA ChallengeTyped ==
    ASSUME TypeOK, NEW r \in Roles, IssueChallenge(r) \/ CancelChallenge(r)
    PROVE  TypeOK'
<1>1. ASSUME IssueChallenge(r) PROVE TypeOK'
  <2>1. generation \in Nat
    BY <1>1 DEF IssueChallenge, Ready, Loads, TypeOK, Metas, generation
  <2>2. challenge' \in [Roles -> Challenges \cup {None}] /\ serial' \in Nat
    BY <1>1, <2>1 DEF IssueChallenge, TypeOK, Challenges
  <2> QED
    BY <1>1, <2>2 DEF IssueChallenge, TypeOK
<1>2. ASSUME CancelChallenge(r) PROVE TypeOK'
  BY <1>2 DEF CancelChallenge, TypeOK
<1> QED
  BY <1>1, <1>2

\* What a submitted signature writes, stored or refused.
Bound(r, key, id) == [disk.boundary EXCEPT ![r] = [id |-> id, key |-> key, generation |-> generation]]
StoredFirst(r, key, id) ==
    <<Put("nonces", disk.nonces \cup {id})>>
    \o <<Put("devices", Enrolled(r, Device(key, id))), Put("boundary", Bound(r, key, id))>>
AwaitsSeal(key, id) ==
    <<Put("receipt", [nonce |-> id, generation |-> generation, key |-> key, sealed |-> FALSE])>>

LEMMA SubmitWrites ==
    ASSUME TypeOK, NEW r \in Roles, NEW key \in Keys, SubmitSignature(r, key)
    PROVE  /\ Ready /\ challenge[r] # None /\ challenge[r].nonce \in Nat
           /\ UNCHANGED <<session, serial>> /\ challenge' = [challenge EXCEPT ![r] = None]
           /\ \/ /\ Begin("submit", <<Put("nonces", disk.nonces \cup {challenge[r].nonce})>>)
                 /\ regained' = regained
              \/ /\ ~installed /\ regained' = regained \cup {r}
                 /\ \E receipt \in {DropReceipt, AwaitsSeal(key, challenge[r].nonce)} :
                       Begin("submit", StoredFirst(r, key, challenge[r].nonce) \o receipt)
<1> DEFINE id == challenge[r].nonce
           spend == <<Put("nonces", disk.nonces \cup {id})>>
           store == <<Put("devices", Enrolled(r, Device(key, id))),
                      Put("boundary", Bound(r, key, id))>>
           refused == \/ disk.devices[Other(r)] # None /\ disk.devices[Other(r)].key = key
                      \/ installed
           receipt == IF r = "mac" THEN DropReceipt ELSE AwaitsSeal(key, id)
<1>1. /\ Ready /\ challenge[r] # None /\ challenge' = [challenge EXCEPT ![r] = None]
      /\ UNCHANGED <<session, serial>>
      /\ Begin("submit", IF refused THEN spend ELSE spend \o store \o receipt)
      /\ Regain(IF refused THEN {} ELSE {r})
  BY DEF SubmitSignature, Bound, AwaitsSeal
<1>2. id \in Nat
  BY <1>1 DEF TypeOK, Challenges
<1>3. spend \o store = StoredFirst(r, key, id)
  BY DEF StoredFirst
<1>4. receipt \in {DropReceipt, AwaitsSeal(key, id)}
  OBVIOUS
<1>5. CASE refused
  <2>1. Begin("submit", spend) /\ regained' = regained
    BY <1>1, <1>5 DEF Regain
  <2> QED
    BY <1>1, <1>2, <2>1
<1>6. CASE ~refused
  <2>1. Begin("submit", StoredFirst(r, key, id) \o receipt) /\ regained' = regained \cup {r}
    BY <1>1, <1>3, <1>6 DEF Regain
  <2>2. ~installed
    BY <1>6
  <2> QED
    BY <1>1, <1>2, <1>4, <2>1, <2>2
<1> QED
  BY <1>5, <1>6

LEMMA SubmitTyped ==
    ASSUME TypeOK, NEW r \in Roles, NEW key \in Keys, SubmitSignature(r, key)
    PROVE  TypeOK'
<1> DEFINE id == challenge[r].nonce
           a == Put("nonces", disk.nonces \cup {id})
           b == Put("devices", Enrolled(r, Device(key, id)))
           c == Put("boundary", Bound(r, key, id))
<1>1. Ready /\ id \in Nat /\ disk.nonces \cup {id} \in SUBSET Nat
  <2>1. Ready /\ id \in Nat
    BY SubmitWrites
  <2>2. disk.nonces \in SUBSET Nat
    BY DEF TypeOK
  <2> QED
    BY <2>1, <2>2
<1>2. generation \in Nat
  BY <1>1 DEF Ready, Loads, TypeOK, Metas, generation
<1>3. Bound(r, key, id) \in [Roles -> Boundaries \cup {None}]
  BY <1>1, <1>2 DEF Bound, Boundaries, TypeOK
<1>4. a \in Writes /\ b \in Writes /\ c \in Writes
  BY <1>1, <1>3, EnrolledTyped, PutTyped DEF Ready
<1>5. <<a>> \in Seq(Writes) /\ StoredFirst(r, key, id) \in Seq(Writes)
  BY <1>4, OneOf, TwoOf, Concatenated DEF StoredFirst
<1>6. AwaitsSeal(key, id) \in Seq(Writes)
  BY <1>1, <1>2, PutTyped, OneOf DEF AwaitsSeal, PhoneReceipts
<1>7. \A receipt \in {DropReceipt, AwaitsSeal(key, id)} :
          StoredFirst(r, key, id) \o receipt \in Seq(Writes)
  BY <1>5, <1>6, DropTyped, Concatenated
<1>8. \E writes \in Seq(Writes) : Begin("submit", writes)
  BY <1>5, <1>7, SubmitWrites
<1>9. /\ challenge' \in [Roles -> Challenges \cup {None}] /\ UNCHANGED <<session, serial>>
      /\ regained' \subseteq Roles
  BY SubmitWrites DEF TypeOK
<1> QED
  BY <1>8, <1>9 DEF TypeOK, Begin

LEMMA SealTyped ==
    ASSUME TypeOK, SealReceipt
    PROVE  TypeOK'
<1> DEFINE v == [disk.receipt EXCEPT !.sealed = TRUE]
<1>1. disk.receipt \in PhoneReceipts
  BY DEF SealReceipt, ReceiptStands, TypeOK
<1>2. v \in PhoneReceipts
  BY <1>1 DEF PhoneReceipts
<1>3. Put("receipt", v) \in Writes
  BY <1>2, PutTyped
<1>4. Begin("seal", <<Put("receipt", v)>>) /\ regained' \subseteq Roles
      /\ UNCHANGED <<challenge, session, serial>>
  BY DEF SealReceipt, TypeOK
<1> QED
  BY <1>3, <1>4, OneOf, BeginTyped

LEMMA BeginSessionTyped ==
    ASSUME TypeOK, NEW p \in Policies, NEW key \in KeyChoices(p), BeginSession(p, key)
    PROVE  TypeOK'
<1>1. generation \in Nat
  BY DEF BeginSession, Ready, Loads, TypeOK, Metas, generation
<1>2. session' = [policy |-> p, key |-> key, id |-> serial + 1, started |-> generation]
      /\ serial' = serial + 1
  BY DEF BeginSession
<1>3. /\ session'.policy \in Policies
      /\ \A r \in RolesOf[session'.policy] : session'.key[r] \in Keys
      /\ session'.id \in Nat /\ session'.started \in Nat /\ serial' \in Nat
  BY <1>1, <1>2 DEF KeyChoices, TypeOK
<1> QED
  BY <1>3 DEF BeginSession, TypeOK

\* The writes of a session that is accepted.
SessionDevices ==
    [r \in Roles |-> IF r \in RolesOf[session.policy] THEN Device(session.key[r], session.id)
                     ELSE disk.devices[r]]
SessionBoundary ==
    [r \in Roles |-> IF r \in RolesOf[session.policy]
                     THEN [id |-> session.id, key |-> session.key[r], generation |-> generation]
                     ELSE None]
SessionWrites == <<Put("devices", SessionDevices), Put("boundary", SessionBoundary)>>

LEMMA AcceptWrites ==
    ASSUME AcceptSession
    PROVE  /\ Ready /\ session # None /\ session' = None /\ regained' = Roles
           /\ UNCHANGED <<challenge, serial>>
           /\ \/ Unchanged(session) /\ ~installed /\ Begin("session", SessionWrites)
              \/ UNCHANGED <<disk, todo, op, installed, whole, torn>>
  BY DEF AcceptSession, SessionWrites, SessionDevices, SessionBoundary

LEMMA AcceptTyped ==
    ASSUME TypeOK, AcceptSession
    PROVE  TypeOK'
<1>1. Ready /\ session # None /\ session' = None /\ regained' = Roles
      /\ UNCHANGED <<challenge, serial>>
  BY AcceptWrites
<1>2. /\ session.policy \in Policies /\ session.id \in Nat
      /\ \A r \in RolesOf[session.policy] : session.key[r] \in Keys
  BY <1>1 DEF TypeOK
<1>3. \A r \in RolesOf[session.policy] : Device(session.key[r], session.id) \in Devices
  BY <1>1, <1>2, DeviceTyped DEF Ready
<1>4. SessionDevices \in [Roles -> Devices \cup {None}]
  BY <1>3 DEF SessionDevices, TypeOK
<1>5. generation \in Nat
  BY <1>1 DEF Ready, Loads, TypeOK, Metas, generation
<1>6. SessionBoundary \in [Roles -> Boundaries \cup {None}]
  BY <1>2, <1>5 DEF SessionBoundary, Boundaries
<1>7. SessionWrites \in Seq(Writes)
  BY <1>4, <1>6, PutTyped, TwoOf DEF SessionWrites
<1>8. todo' \in Seq(Writes) /\ UNCHANGED <<disk, installed, whole, torn>>
  BY <1>7, AcceptWrites DEF Begin, TypeOK
<1> QED
  BY <1>1, <1>8 DEF TypeOK

LEMMA WriteKeepsTypes ==
    ASSUME TypeOK, Write
    PROVE  TypeOK'
<1> DEFINE w == Head(todo)
<1>1. /\ disk' = [f \in Files |-> disk'[f]]
      /\ \A f \in Files : disk'[f] = IF f = w.file THEN w.value ELSE disk[f]
  BY OneFile
<1>2. w \in Writes
  BY OneFile
<1>3. /\ disk'.meta \in Metas \cup {None}
      /\ disk'.callers \in {None} \cup SUBSET Callers
      /\ disk'.spent \in {{}, None}
      /\ disk'.enrollment \in Callers \cup {None}
  BY <1>1, <1>2, WriteTyped DEF TypeOK, Files
<1>4. /\ disk'.policy \in PolicyRecords \cup {None}
      /\ disk'.devices \in [Roles -> Devices \cup {None}]
      /\ disk'.boundary \in [Roles -> Boundaries \cup {None}]
  BY <1>1, <1>2, WriteTyped DEF TypeOK, Files
<1>5. disk'.nonces \in SUBSET Nat /\ disk'.receipt \in PhoneReceipts \cup {None}
  BY <1>1, <1>2, WriteTyped DEF TypeOK, Files
<1>6. todo' \in Seq(Writes)
  BY HeadTail DEF TypeOK, Write
<1>7. whole' \subseteq Nat
  <2>1. w.file = "boundary" => \A r \in Roles : w.value[r] \in Boundaries \cup {None}
    BY <1>2, WriteTyped
  <2> QED
    BY <2>1 DEF Write, TypeOK, Boundaries
<1> QED
  BY <1>1, <1>3, <1>4, <1>5, <1>6, <1>7 DEF TypeOK, Write

LEMMA RecordsTyped == TypeOK /\ [Next]_vars => TypeOK'
<1> SUFFICES ASSUME TypeOK, [Next]_vars PROVE TypeOK'
  OBVIOUS
<1>1. CASE Operation
  <2>1. ASSUME NEW r \in Roles, NEW k \in Keys, PairDevice(r, k) \/ SubmitSignature(r, k)
        PROVE  TypeOK'
    BY <2>1, PairTyped, SubmitTyped
  <2>2. ASSUME NEW p \in Policies, NEW key \in KeyChoices(p),
               AdapterEnroll(p, key) \/ BeginSession(p, key)
        PROVE  TypeOK'
    BY <2>2, AdapterTyped, BeginSessionTyped
  <2>3. ASSUME NEW p \in Policies, SetPolicy(p) PROVE TypeOK'
    BY <2>3, SetPolicyTyped
  <2>4. ASSUME NEW c \in Callers, Enroll(c) PROVE TypeOK'
    BY <2>4, EnrollTyped
  <2> QED
    BY <1>1, <2>1, <2>2, <2>3, <2>4, StartTyped, RotateTyped, SealTyped, AcceptTyped,
       DeviceOpTyped, ChallengeTyped DEF Operation
<1>2. CASE Write
  BY <1>2, WriteKeepsTypes
<1>3. CASE DaemonDies
  <2>1. /\ challenge' \in [Roles -> Challenges \cup {None}] /\ todo' \in Seq(Writes)
        /\ torn' \in BOOLEAN
    BY <1>3, NoneOf DEF DaemonDies, NoRoles, TypeOK
  <2> QED
    BY <1>3, <2>1 DEF DaemonDies, TypeOK
<1>4. CASE UNCHANGED vars
  BY <1>4 DEF vars, TypeOK
<1> QED
  BY <1>1, <1>2, <1>3, <1>4 DEF Next

LEMMA TypesInit == Init => TypeOK
<1> SUFFICES ASSUME Init PROVE TypeOK
  OBVIOUS
<1>1. disk = [f \in Files |-> disk[f]]
  BY DEF Init, Blank, Files
<1>2. challenge \in [Roles -> Challenges \cup {None}] /\ todo \in Seq(Writes)
  BY NoneOf DEF Init, NoRoles
<1> QED
  BY <1>1, <1>2 DEF Init, Blank, NoRoles, TypeOK

\* Types of the files, of the writes to come and of what the daemon keeps in memory,
\* for any callers, keys, generations and serials, whenever the daemon dies.
THEOREM RecordsTypes == Spec => []TypeOK
  BY TypesInit, RecordsTyped, PTL DEF Spec

-----------------------------------------------------------------------------
(* Operations that leave what _load compares as it is.                     *)

\* Writes that disturb nothing, while the roles R stay revoked.
Quiet(R) ==
    {w \in Writes : /\ w \in Benign(disk.meta) /\ w \in Revoking(R)
                    /\ installed => w \in Harmless}

LEMMA QuietPut ==
    ASSUME NEW R
    PROVE  /\ disk.meta \in Metas => Put("meta", disk.meta) \in Quiet(R)
           /\ \A v \in SUBSET Callers : Put("callers", v) \in Quiet(R)
           /\ \A v \in Callers : Put("enrollment", v) \in Quiet(R)
           /\ \A v \in SUBSET Nat : Put("nonces", v) \in Quiet(R)
           /\ Put("receipt", None) \in Quiet(R)
           /\ \A v \in PhoneReceipts : ~installed => Put("receipt", v) \in Quiet(R)
           /\ \A v \in [Roles -> Boundaries \cup {None}] :
                 ~installed => Put("boundary", v) \in Quiet(R)
           /\ \A v \in [Roles -> Devices \cup {None}] :
                 (\A r \in R : RevokedIn(v, r)) /\ (installed => Unbound(v))
                 => Put("devices", v) \in Quiet(R)
  BY PutTyped DEF Quiet, Benign, Revoking, Harmless, Put

LEMMA QuietDrop == ASSUME NEW R PROVE DropReceipt \in Seq(Quiet(R))
  BY QuietPut, OneOf, NoneOf DEF DropReceipt

LEMMA QuietBegins ==
    ASSUME RecordsInv, TypeOK', Ready,
           NEW name, NEW writes \in Seq(Quiet(Roles \ regained')), Begin(name, writes),
           UNCHANGED session, session = None => regained' = Roles,
           \A r \in Roles \ regained' :
              \/ RevokedIn(disk.devices, r)
              \/ \E i \in 1..Len(writes) : writes[i].file = "devices"
    PROVE  RecordsInv'
<1> DEFINE R == Roles \ regained'
<1>1. /\ UNCHANGED <<disk, installed, whole, torn, session>> /\ todo' = writes
      /\ disk.meta # None /\ todo = <<>>
  BY DEF Begin, Ready, Loads
<1>2. /\ writes \in Seq(Benign(disk.meta)) /\ writes \in Seq(Revoking(R))
      /\ installed => writes \in Seq(Harmless)
  <2>1. /\ Quiet(R) \subseteq Benign(disk.meta) /\ Quiet(R) \subseteq Revoking(R)
        /\ installed => Quiet(R) \subseteq Harmless
    BY DEF Quiet
  <2> QED
    BY <2>1, SeqWithin
<1>3. Installed'
  BY <1>1, <1>2 DEF RecordsInv, Installed
<1>4. BoundaryIds'
  BY <1>1 DEF RecordsInv, BoundaryIds
<1>5. Waits'
  BY <1>1, <1>2 DEF Waits, RevokedIn
<1>6. torn \/ Consistent
  BY <1>1 DEF RecordsInv, Stage, Settled, PolicyComes, PolicyCame, InitComes, Drops
<1>7. Stage'
  BY <1>1, <1>2, <1>6 DEF Stage, Settled, Consistent
<1> QED
  BY <1>3, <1>4, <1>5, <1>7 DEF RecordsInv

LEMMA QuietOn ==
    ASSUME RecordsInv, TypeOK', Ready,
           NEW name, NEW writes \in Seq(Quiet(Roles \ regained')), Begin(name, writes),
           UNCHANGED session, regained \subseteq regained'
    PROVE  RecordsInv'
<1>1. session = None => regained' = Roles
  BY DEF RecordsInv, Waits, TypeOK
<1>2. \A r \in Roles \ regained' : RevokedIn(disk.devices, r)
  BY DEF RecordsInv, Waits, Ready
<1> QED
  BY <1>1, <1>2, QuietBegins

\* What stays revoked when no writes are under way.
LEMMA StillRevoked ==
    ASSUME RecordsInv, Ready, NEW r \in Roles \ regained
    PROVE  RevokedIn(disk.devices, r)
  BY DEF RecordsInv, Waits, Ready

\* Under installed protection no signature is ever accepted.
LEMMA NoHuman ==
    ASSUME RecordsInv, installed
    PROVE  /\ ActivePolicy = None /\ ~HumanNow /\ Unbound(disk.devices) /\ disk.receipt = None
           /\ \A p \in Policies : ~Human(p) /\ MutationPolicy(p) = p
<1>1. disk.policy = None /\ Unbound(disk.devices) /\ disk.receipt = None
  BY DEF RecordsInv, Installed
<1>2. \A r : ~SignsFor(r)
  BY DEF SignsFor, NotHardware
<1>3. \A p \in Policies : ~Human(p)
  BY <1>2, RolesTyped DEF Human
<1> QED
  BY <1>1, <1>3 DEF ActivePolicy, HumanNow, MutationPolicy

LEMMA QuietEnroll ==
    ASSUME RecordsInv, TypeOK', NEW c \in Callers, Enroll(c)
    PROVE  RecordsInv'
<1> DEFINE R == Roles \ regained'
           a == Put("callers", disk.callers \cup {c})
           b == Put("enrollment", c)
<1>1. disk.callers \cup {c} \in SUBSET Callers
  BY DEF Enroll, RecordsInv, TypeOK
<1>2. a \in Quiet(R) /\ b \in Quiet(R)
  BY <1>1, QuietPut
<1>3. <<a, b>> \in Seq(Quiet(R))
  BY <1>2, TwoOf
<1>4. Ready /\ Begin("enroll", <<a, b>>) /\ UNCHANGED session /\ regained \subseteq regained'
  BY DEF Enroll
<1> QED
  BY <1>3, <1>4, QuietOn

LEMMA QuietRotate ==
    ASSUME RecordsInv, TypeOK', RotateCaller
    PROVE  RecordsInv'
<1> DEFINE R == Roles \ regained'
           a == Put("callers", disk.callers)
           b == Put("meta", disk.meta)
<1>1. disk.callers \in SUBSET Callers /\ disk.meta \in Metas
  BY DEF RotateCaller, Ready, Loads, RecordsInv, TypeOK
<1>2. a \in Quiet(R) /\ b \in Quiet(R)
  BY <1>1, QuietPut
<1>3. <<a, b>> \o DropReceipt \in Seq(Quiet(R))
  BY <1>2, TwoOf, QuietDrop, Concatenated
<1>4. /\ Ready /\ Begin("rotate", <<a, b>> \o DropReceipt) /\ UNCHANGED session
      /\ regained \subseteq regained'
  BY DEF RotateCaller
<1> QED
  BY <1>3, <1>4, QuietOn

LEMMA QuietPair ==
    ASSUME RecordsInv, TypeOK', NEW r \in Roles, NEW k \in Keys, PairDevice(r, k)
    PROVE  RecordsInv'
<1> DEFINE R == Roles \ regained'
           v == Enrolled(r, Device(k, 0))
<1>1. /\ Ready /\ Begin("pair", <<Put("devices", v)>>) /\ UNCHANGED session
      /\ regained' = regained \cup {r}
  BY DEF PairDevice, Regain
<1>2. v \in [Roles -> Devices \cup {None}]
  BY <1>1, EnrolledTyped DEF RecordsInv, Ready
<1>3. \A q \in R : RevokedIn(v, q)
  BY <1>1, StillRevoked DEF RecordsInv, TypeOK, Enrolled, RevokedIn
<1>4. installed => Unbound(v)
  BY NoHuman DEF RecordsInv, TypeOK, Unbound, Enrolled, Device
<1>5. <<Put("devices", v)>> \in Seq(Quiet(R))
  BY <1>2, <1>3, <1>4, QuietPut, OneOf
<1> QED
  BY <1>1, <1>5, QuietOn

LEMMA QuietReplace ==
    ASSUME RecordsInv, TypeOK', NEW r \in Roles, ReplaceDeviceKey(r)
    PROVE  RecordsInv'
<1> DEFINE R == Roles \ regained'
           a == Put("devices", disk.devices)
<1>1. /\ Ready /\ Begin("replace", <<a>> \o DropReceipt) /\ UNCHANGED session
      /\ regained' = regained
  BY DEF ReplaceDeviceKey
<1>2. a \in Quiet(R)
  BY <1>1, NoHuman, StillRevoked, QuietPut DEF RecordsInv, TypeOK
<1>3. <<a>> \o DropReceipt \in Seq(Quiet(R))
  BY <1>2, OneOf, QuietDrop, Concatenated
<1> QED
  BY <1>1, <1>3, QuietOn

\* A revocation during a session is one that the session must not undo.
LEMMA QuietRevoke ==
    ASSUME RecordsInv, TypeOK', NEW r \in Roles, RevokeDevice(r)
    PROVE  RecordsInv'
<1> DEFINE R == Roles \ regained'
           v == [disk.devices EXCEPT ![r].revoked = TRUE]
           a == Put("devices", v)
           writes == <<a>> \o DropReceipt
<1>1. /\ Ready /\ HumanNow /\ disk.devices[r] # None /\ Begin("revoke", writes)
      /\ UNCHANGED session
      /\ regained' = IF session = None THEN Roles ELSE regained \ {r}
  BY DEF RevokeDevice
<1>2. v \in [Roles -> Devices \cup {None}]
  BY <1>1, RevokedTyped DEF RecordsInv
<1>3. R = {} \/ R \subseteq (Roles \ regained) \cup {r}
  BY <1>1
<1>4. \A q \in Roles \ regained : RevokedIn(disk.devices, q)
  BY <1>1, StillRevoked
<1>5. \A q \in R : RevokedIn(v, q)
  <2>1. disk.devices \in [Roles -> Devices \cup {None}] /\ disk.devices[r] \in Devices
    BY <1>1 DEF RecordsInv, TypeOK
  <2>2. v[r] = [disk.devices[r] EXCEPT !.revoked = TRUE]
    BY <2>1
  <2>3. v[r] \in Devices /\ v[r].revoked
    BY <2>1, <2>2 DEF Devices
  <2>4. RevokedIn(v, r)
    BY <2>3, RecordsAssumption DEF RevokedIn
  <2>5. \A q \in Roles \ {r} : v[q] = disk.devices[q]
    BY <2>1
  <2> QED
    BY <1>3, <1>4, <2>4, <2>5 DEF RevokedIn
<1>6. a \in Quiet(R)
  BY <1>1, <1>2, <1>5, NoHuman, QuietPut
<1>7. writes \in Seq(Quiet(R))
  BY <1>6, OneOf, QuietDrop, Concatenated
<1>8. 1 \in 1..Len(writes) /\ writes[1].file = "devices"
  BY <1>7, QuietDrop DEF Put
<1> QED
  BY <1>1, <1>7, <1>8, QuietBegins

LEMMA QuietAdapter ==
    ASSUME RecordsInv, TypeOK', NEW p \in Policies, NEW key \in KeyChoices(p), AdapterEnroll(p, key)
    PROVE  RecordsInv'
<1> DEFINE R == Roles \ regained'
           v == [r \in Roles |-> IF r \in RolesOf[p] THEN Device(key[r], 0)
                                 ELSE disk.devices[r]]
<1>1. /\ Ready /\ ~installed /\ Begin("adapter", <<Put("devices", v)>>) /\ UNCHANGED session
      /\ regained' = regained \cup RolesOf[p]
  BY DEF AdapterEnroll, Regain
<1>2. \A r \in RolesOf[p] : Device(key[r], 0) \in Devices
  BY <1>1, DeviceTyped DEF RecordsInv, Ready, KeyChoices
<1>3. v \in [Roles -> Devices \cup {None}]
  BY <1>2 DEF RecordsInv, TypeOK
<1>4. \A q \in R : RevokedIn(v, q)
  BY <1>1, StillRevoked DEF RevokedIn
<1>5. <<Put("devices", v)>> \in Seq(Quiet(R))
  BY <1>1, <1>3, <1>4, QuietPut, OneOf
<1> QED
  BY <1>1, <1>5, QuietOn

LEMMA QuietSubmit ==
    ASSUME RecordsInv, TypeOK', NEW r \in Roles, NEW key \in Keys, SubmitSignature(r, key)
    PROVE  RecordsInv'
<1> DEFINE R == Roles \ regained'
           id == challenge[r].nonce
           a == Put("nonces", disk.nonces \cup {id})
           d == Enrolled(r, Device(key, id))
           b == Put("devices", d)
           c == Put("boundary", Bound(r, key, id))
<1>1. TypeOK
  BY DEF RecordsInv
<1>2. Ready /\ id \in Nat /\ UNCHANGED session
  BY <1>1, SubmitWrites
<1>3. a \in Quiet(R)
  BY <1>1, <1>2, QuietPut DEF TypeOK
<1>4. CASE Begin("submit", <<a>>) /\ regained' = regained
  BY <1>2, <1>3, <1>4, OneOf, QuietOn
<1>5. CASE /\ ~installed /\ regained' = regained \cup {r}
           /\ \E receipt \in {DropReceipt, AwaitsSeal(key, id)} :
                 Begin("submit", StoredFirst(r, key, id) \o receipt)
  <2>1. generation \in Nat
    BY <1>1, <1>2 DEF Ready, Loads, TypeOK, Metas, generation
  <2>2. Bound(r, key, id) \in [Roles -> Boundaries \cup {None}]
    BY <1>1, <1>2, <2>1 DEF Bound, Boundaries, TypeOK
  <2>3. c \in Quiet(R)
    BY <1>5, <2>2, QuietPut
  <2>4. d \in [Roles -> Devices \cup {None}]
    BY <1>1, <1>2, EnrolledTyped DEF Ready
  <2>5. \A q \in R : RevokedIn(d, q)
    BY <1>1, <1>2, <1>5, StillRevoked DEF TypeOK, Enrolled, RevokedIn
  <2>6. b \in Quiet(R)
    BY <1>5, <2>4, <2>5, QuietPut
  <2>7. StoredFirst(r, key, id) \in Seq(Quiet(R))
    BY <1>3, <2>3, <2>6, OneOf, TwoOf, Concatenated DEF StoredFirst
  <2>8. AwaitsSeal(key, id) \in Seq(Quiet(R))
    BY <1>2, <1>5, <2>1, QuietPut, OneOf DEF AwaitsSeal, PhoneReceipts
  <2>9. \A receipt \in {DropReceipt, AwaitsSeal(key, id)} :
            StoredFirst(r, key, id) \o receipt \in Seq(Quiet(R))
    BY <2>7, <2>8, QuietDrop, Concatenated
  <2>10. PICK writes \in Seq(Quiet(R)) : Begin("submit", writes)
    BY <1>5, <2>9
  <2> QED
    BY <1>2, <1>5, <2>10, QuietOn
<1> QED
  BY <1>1, <1>4, <1>5, SubmitWrites

LEMMA QuietSeal ==
    ASSUME RecordsInv, TypeOK', SealReceipt
    PROVE  RecordsInv'
<1> DEFINE v == [disk.receipt EXCEPT !.sealed = TRUE]
<1>1. disk.receipt \in PhoneReceipts /\ disk.receipt # None
  BY DEF SealReceipt, ReceiptStands, RecordsInv, TypeOK
<1>2. v \in PhoneReceipts
  BY <1>1 DEF PhoneReceipts
<1>3. ~installed
  BY <1>1, NoHuman
<1>4. <<Put("receipt", v)>> \in Seq(Quiet(Roles \ regained'))
  BY <1>2, <1>3, QuietPut, OneOf
<1>5. /\ Ready /\ Begin("seal", <<Put("receipt", v)>>) /\ UNCHANGED session
      /\ regained \subseteq regained'
  BY DEF SealReceipt
<1> QED
  BY <1>4, <1>5, QuietOn

\* Only an operation's beginning, a session's or a death touches what Waits relates.
LEMMA SameRecords ==
    ASSUME RecordsInv, TypeOK', UNCHANGED <<disk, todo, op, installed, whole, torn>>,
           \/ UNCHANGED <<session, regained>>
           \/ session' = None /\ regained' = Roles
           \/ session = None /\ regained' = regained /\ disk.meta # None
    PROVE  RecordsInv'
<1>1. Installed' /\ BoundaryIds'
  BY DEF RecordsInv, Installed, BoundaryIds
<1>2. Waits'
  <2>1. todo' \in Seq(Revoking(Roles \ regained'))
    <3>1. Revoking(Roles \ regained) \subseteq Revoking(Roles \ regained')
      BY DEF Revoking, RecordsInv, Waits
    <3> QED
      BY <3>1, SeqWithin DEF RecordsInv, Waits
  <2> QED
    BY <2>1 DEF RecordsInv, Waits, RevokedIn
<1>3. Stage'
  BY DEF RecordsInv, Stage, Settled, Consistent, PolicyComes, PolicyCame, InitComes
<1> QED
  BY <1>1, <1>2, <1>3 DEF RecordsInv

LEMMA QuietAccept ==
    ASSUME RecordsInv, TypeOK', AcceptSession
    PROVE  RecordsInv'
<1>1. TypeOK /\ Ready /\ session # None /\ session' = None /\ regained' = Roles
  BY AcceptWrites DEF RecordsInv
<1>2. CASE UNCHANGED <<disk, todo, op, installed, whole, torn>>
  BY <1>1, <1>2, SameRecords
<1>3. CASE ~installed /\ Begin("session", SessionWrites)
  <2> DEFINE R == Roles \ regained'
  <2>1. disk.meta # None /\ todo = <<>>
    BY <1>1 DEF Ready, Loads
  <2>2. /\ session.policy \in Policies /\ session.id \in Nat
        /\ \A r \in RolesOf[session.policy] : session.key[r] \in Keys
    BY <1>1 DEF TypeOK
  <2>3. \A r \in RolesOf[session.policy] : Device(session.key[r], session.id) \in Devices
    BY <1>1, <2>2, DeviceTyped DEF Ready
  <2>4. SessionDevices \in [Roles -> Devices \cup {None}]
    BY <1>1, <2>3 DEF SessionDevices, TypeOK
  <2>5. generation \in Nat
    BY <1>1 DEF Ready, Loads, TypeOK, Metas, generation
  <2>6. SessionBoundary \in [Roles -> Boundaries \cup {None}]
    BY <2>2, <2>5 DEF SessionBoundary, Boundaries
  <2>7. R = {}
    BY <1>1
  <2>8. Put("devices", SessionDevices) \in Quiet(R) /\ Put("boundary", SessionBoundary) \in Quiet(R)
    BY <1>3, <2>4, <2>6, <2>7, QuietPut
  <2>9. SessionWrites \in Seq(Quiet(R))
    BY <2>8, TwoOf DEF SessionWrites
  <2>10. SessionWrites \in Seq(Benign(disk.meta)) /\ SessionWrites \in Seq(Revoking(R))
    <3>1. Quiet(R) \subseteq Benign(disk.meta) /\ Quiet(R) \subseteq Revoking(R)
      BY DEF Quiet
    <3> QED
      BY <2>9, <3>1, SeqWithin
  <2>11. /\ UNCHANGED <<disk, installed, whole, torn>> /\ todo' = SessionWrites
    BY <1>3 DEF Begin
  <2>12. Installed' /\ BoundaryIds'
    BY <1>3, <2>11 DEF RecordsInv, Installed, BoundaryIds
  <2>13. Waits'
    BY <1>1, <2>7, <2>10, <2>11 DEF Waits
  <2>14. torn \/ Consistent
    BY <2>1 DEF RecordsInv, Stage, Settled, PolicyComes, PolicyCame, InitComes, Drops
  <2>15. Stage'
    BY <2>10, <2>11, <2>14 DEF Stage, Settled, Consistent
  <2> QED
    BY <2>12, <2>13, <2>15 DEF RecordsInv
<1> QED
  BY <1>2, <1>3, AcceptWrites

LEMMA QuietMemory ==
    ASSUME RecordsInv, TypeOK',
           \/ \E r \in Roles : IssueChallenge(r) \/ CancelChallenge(r)
           \/ \E p \in Policies : \E key \in KeyChoices(p) : BeginSession(p, key)
    PROVE  RecordsInv'
<1>1. CASE \E r \in Roles : IssueChallenge(r) \/ CancelChallenge(r)
  BY <1>1, SameRecords DEF IssueChallenge, CancelChallenge
<1>2. CASE \E p \in Policies : \E key \in KeyChoices(p) : BeginSession(p, key)
  BY <1>2, SameRecords DEF BeginSession, Ready, Loads
<1> QED
  BY <1>1, <1>2

-----------------------------------------------------------------------------
(* A new holder, and a new policy.                                         *)

LEMMA StartStage ==
    ASSUME RecordsInv, TypeOK', Start
    PROVE  RecordsInv'
<1> DEFINE a == Put("meta", [generation |-> 1])
           b == Put("callers", {})
           c == Put("devices", NoRoles)
           d == Put("spent", {})
<1>1. /\ disk.meta = None /\ disk.policy = None /\ op' = "init" /\ todo' = <<a, b, c, d>>
      /\ UNCHANGED <<disk, installed, whole, torn, session, regained>>
  BY DEF Start, Begin, HasHistory
<1>2. session = None /\ regained = Roles /\ Roles \ regained' = {}
  BY <1>1 DEF RecordsInv, Waits
<1>3. a \in Writes /\ b \in Writes /\ c \in Writes /\ d \in Writes
  BY PutTyped DEF Metas, NoRoles
<1>4. \A w \in {a, b, c, d} : w \in Harmless /\ w \in Revoking({})
  BY <1>3 DEF Harmless, Revoking, Unbound, NoRoles, Put
<1>5. todo' \in Seq(Harmless) /\ todo' \in Seq(Revoking({}))
  BY <1>1, <1>4, FourOf
<1>6. Installed' /\ BoundaryIds'
  BY <1>1, <1>5 DEF RecordsInv, Installed, BoundaryIds
<1>7. Waits'
  BY <1>1, <1>2, <1>5 DEF Waits
<1>8. Stage'
  BY <1>1 DEF Stage, InitComes
<1> QED
  BY <1>6, <1>7, <1>8 DEF RecordsInv

LEMMA PolicyStage ==
    ASSUME RecordsInv, TypeOK', NEW p \in Policies, SetPolicy(p)
    PROVE  RecordsInv'
<1> DEFINE g == generation + 1
           a == Put("policy", [name |-> p, generation |-> g])
           b == Put("meta", [generation |-> g])
<1>1. /\ Ready /\ todo = <<>> /\ disk.meta # None /\ op' = "policy"
      /\ todo' = <<a, b>> \o DropReceipt
      /\ UNCHANGED <<disk, installed, whole, torn, session, regained>>
  BY DEF SetPolicy, Begin, Ready, Loads
<1>2. ~installed
  BY NoHuman DEF SetPolicy
<1>3. generation \in Nat
  BY <1>1 DEF RecordsInv, TypeOK, Metas, generation
<1>4. a \in Writes /\ b \in Writes
  BY <1>3, PutTyped DEF PolicyRecords, Metas
<1> DEFINE R == Roles \ regained
<1>5. a \in Revoking(R) /\ b \in Revoking(R)
  BY <1>4 DEF Revoking, Put
<1>6. DropReceipt \in Seq(Revoking(R))
  <2>1. Quiet(R) \subseteq Revoking(R)
    BY DEF Quiet
  <2> QED
    BY <2>1, QuietDrop, SeqWithin
<1>7. todo' \in Seq(Revoking(R))
  BY <1>1, <1>5, <1>6, TwoOf, Concatenated
<1>8. Installed' /\ BoundaryIds'
  BY <1>1, <1>2 DEF RecordsInv, Installed, BoundaryIds
<1>9. Waits'
  BY <1>1, <1>7, StillRevoked DEF RecordsInv, Waits
<1>10. torn \/ Consistent
  BY <1>1 DEF RecordsInv, Stage, Settled, PolicyComes, PolicyCame, InitComes, Drops
<1>11. DropReceipt \in Drops
  BY DEF DropReceipt, Drops
<1>12. ASSUME ~torn PROVE Stage'
  <2>1. DropReceipt \in Seq(Writes) /\ <<a, b>> \o DropReceipt # <<>>
        /\ (<<a, b>> \o DropReceipt)[1] = a
    BY <1>4, DropTyped, TwoOf, Concatenated DEF RecordsInv
  <2>2. Consistent'
    BY <1>1, <1>10, <1>12 DEF Consistent
  <2>3. todo'[1] = a /\ todo'[1].file = "policy" /\ todo'[1].value.generation = g /\ todo' # <<>>
    BY <1>1, <2>1 DEF Put
  <2>4. b = MetaWith(todo'[1].value.generation)
    BY <2>3 DEF MetaWith
  <2>5. todo' = <<todo'[1], MetaWith(todo'[1].value.generation)>> \o DropReceipt
    BY <1>1, <2>3, <2>4
  <2>6. PolicyComes'
    BY <1>1, <1>11, <2>2, <2>3, <2>5 DEF PolicyComes
  <2> QED
    BY <2>6 DEF Stage
<1>13. Stage'
  BY <1>1, <1>12 DEF Stage
<1> QED
  BY <1>8, <1>9, <1>13 DEF RecordsInv

-----------------------------------------------------------------------------
(* A file is replaced; the daemon dies.                                    *)

LEMMA WriteInstalled ==
    ASSUME RecordsInv, Write
    PROVE  Installed' /\ BoundaryIds' /\ Waits'
<1> DEFINE w == Head(todo)
<1>1. /\ \A f \in Files : disk'[f] = IF f = w.file THEN w.value ELSE disk[f]
      /\ w \in Writes /\ w.file \in Files
  BY OneFile, WriteTyped DEF RecordsInv
<1>2. todo # <<>> /\ todo' = Tail(todo) /\ UNCHANGED <<installed, session, regained>>
  BY DEF Write
<1>3. Installed'
  <2> SUFFICES ASSUME installed PROVE Installed'
    BY <1>2 DEF Installed
  <2>1. w \in Harmless /\ todo' \in Seq(Harmless)
    BY <1>2, HeadTail DEF RecordsInv, Installed
  <2>2. /\ disk'.policy = None /\ disk'.boundary = NoRoles /\ disk'.receipt = None
        /\ Unbound(disk'.devices)
    BY <1>1, <2>1 DEF RecordsInv, Installed, Harmless, Files
  <2> QED
    BY <2>1, <2>2 DEF Installed
<1>4. BoundaryIds'
  <2>1. CASE w.file = "boundary"
    <3>1. disk'.boundary = w.value
      BY <1>1, <2>1 DEF Files
    <3>2. whole' = whole \cup {b.id : b \in {w.value[r] : r \in Roles} \ {None}}
      BY <2>1 DEF Write
    <3> QED
      BY <3>1, <3>2 DEF BoundaryIds
  <2>2. CASE w.file # "boundary"
    <3>1. disk'.boundary = disk.boundary /\ whole' = whole
      BY <1>1, <2>2 DEF Files, Write
    <3> QED
      BY <3>1 DEF RecordsInv, BoundaryIds
  <2> QED
    BY <2>1, <2>2
<1>5. Waits'
  <2> DEFINE R == Roles \ regained
  <2>1. /\ w \in Revoking(R) /\ todo' \in Seq(Revoking(R)) /\ w = todo[1]
        /\ Len(todo) \in Nat \ {0} /\ Len(todo') = Len(todo) - 1
        /\ \A i \in 1..Len(todo') : todo'[i] = todo[i + 1]
    BY <1>2, HeadTail DEF RecordsInv, Waits
  <2>2. session # None => disk'.meta # None
    BY <1>1, WriteTyped, RecordsAssumption DEF RecordsInv, Waits, Files
  <2>3. ASSUME NEW r \in R
        PROVE  RevokedIn(disk'.devices, r) \/ \E i \in 1..Len(todo') : todo'[i].file = "devices"
    <3>1. CASE w.file = "devices"
      <4>1. disk'.devices = w.value
        BY <1>1, <3>1 DEF Files
      <4> QED
        BY <2>1, <3>1, <4>1 DEF Revoking
    <3>2. CASE w.file # "devices"
      <4>1. disk'.devices = disk.devices
        BY <1>1, <3>2 DEF Files
      <4>2. CASE RevokedIn(disk.devices, r)
        BY <4>1, <4>2
      <4>3. CASE \E i \in 1..Len(todo) : todo[i].file = "devices"
        <5>1. PICK i \in 1..Len(todo) : todo[i].file = "devices"
          BY <4>3
        <5>2. i - 1 \in 1..Len(todo') /\ todo'[i - 1] = todo[i]
          BY <2>1, <3>2, <5>1
        <5> QED
          BY <5>1, <5>2
      <4> QED
        BY <4>2, <4>3 DEF RecordsInv, Waits
    <3> QED
      BY <3>1, <3>2
  <2> QED
    BY <1>2, <2>1, <2>2, <2>3 DEF RecordsInv, Waits
<1> QED
  BY <1>3, <1>4, <1>5

LEMMA WriteSettled ==
    ASSUME RecordsInv, Write, Settled
    PROVE  Settled'
<1> DEFINE w == Head(todo)
<1>1. /\ \A f \in Files : disk'[f] = IF f = w.file THEN w.value ELSE disk[f]
      /\ w \in Writes
  BY OneFile DEF RecordsInv
<1>2. w \in Benign(disk.meta) /\ todo' \in Seq(Benign(disk.meta))
  BY HeadTail DEF Settled, Write
<1>3. /\ disk'.meta = disk.meta /\ disk'.policy = disk.policy
      /\ disk'.callers = disk.callers \/ disk'.callers \in SUBSET Callers
      /\ disk'.spent = disk.spent \/ disk'.spent = {}
  BY <1>1, <1>2, WriteTyped DEF Benign, Files
<1>4. \A known \in SUBSET Callers : known # None
  BY RecordsAssumption
<1>5. {} # None
  BY <1>4
<1>6. Consistent'
  BY <1>3, <1>4, <1>5 DEF Settled, Consistent
<1> QED
  BY <1>2, <1>3, <1>6 DEF Settled

LEMMA DropsBenign ==
    ASSUME NEW rest \in Drops, NEW m
    PROVE  rest \in Seq(Benign(m)) /\ rest \in Seq(Writes)
<1>1. Put("receipt", None) \in Benign(m) /\ Put("receipt", None) \in Writes
  BY PutTyped DEF Benign, Put
<1> QED
  BY <1>1, OneOf, NoneOf DEF Drops

LEMMA WritePolicyComes ==
    ASSUME RecordsInv, Write, PolicyComes
    PROVE  PolicyCame'
<1>1. PICK rest \in Drops : todo = <<todo[1], MetaWith(todo[1].value.generation)>> \o rest
  BY DEF PolicyComes
<1> DEFINE w == todo[1]
           b == MetaWith(w.value.generation)
<1>2. rest \in Seq(Writes)
  BY DropsBenign
<1>3. Head(todo) = w /\ Tail(todo) = <<b>> \o rest /\ <<b>> \o rest # <<>>
  BY <1>1, <1>2, AfterTwo, AfterOne
<1>4. /\ \A f \in Files : disk'[f] = IF f = "policy" THEN w.value ELSE disk[f]
      /\ w \in Writes /\ w.file = "policy"
  BY <1>3, OneFile DEF RecordsInv, PolicyComes
<1>5. todo' = <<b>> \o rest /\ op' = "policy"
  BY <1>3 DEF Write, PolicyComes
<1>6. disk'.policy = w.value /\ disk'.callers = disk.callers /\ disk'.spent = disk.spent
  BY <1>4 DEF Files
<1>7. disk'.policy # None
  BY <1>4, <1>6, WriteTyped, RecordsAssumption
<1>8. disk'.callers # None /\ disk'.spent # None
  BY <1>6 DEF PolicyComes, Consistent
<1>9. b = MetaWith(disk'.policy.generation)
  BY <1>6
<1> QED
  BY <1>5, <1>7, <1>8, <1>9 DEF PolicyCame

LEMMA WritePolicyCame ==
    ASSUME RecordsInv, Write, PolicyCame
    PROVE  Settled'
<1>1. PICK rest \in Drops : todo = <<MetaWith(disk.policy.generation)>> \o rest
  BY DEF PolicyCame
<1> DEFINE w == MetaWith(disk.policy.generation)
<1>2. rest \in Seq(Writes)
  BY DropsBenign
<1>3. Head(todo) = w /\ Tail(todo) = rest
  BY <1>1, <1>2, AfterOne
<1>4. w.file = "meta" /\ w.value = [generation |-> disk.policy.generation]
  BY DEF MetaWith, Put
<1>5. \A f \in Files : disk'[f] = IF f = "meta" THEN w.value ELSE disk[f]
  BY <1>3, <1>4, OneFile DEF RecordsInv
<1>6. /\ disk'.meta = [generation |-> disk.policy.generation]
      /\ disk'.policy = disk.policy /\ disk'.callers = disk.callers /\ disk'.spent = disk.spent
  BY <1>4, <1>5 DEF Files
<1>7. Consistent'
  BY <1>6 DEF Consistent, PolicyCame
<1>8. todo' \in Seq(Benign(disk'.meta))
  BY <1>3, DropsBenign DEF Write
<1> QED
  BY <1>7, <1>8 DEF Settled

LEMMA WriteInit ==
    ASSUME RecordsInv, Write, InitComes
    PROVE  InitComes' \/ Settled'
<1> DEFINE a == Put("meta", [generation |-> 1])
           b == Put("callers", {})
           c == Put("devices", NoRoles)
           d == Put("spent", {})
<1>1. /\ a.file = "meta" /\ b.file = "callers" /\ c.file = "devices" /\ d.file = "spent"
      /\ b.value = {} /\ d.value = {}
  BY DEF Put
<1>2. \A f \in Files : disk'[f] = IF f = Head(todo).file THEN Head(todo).value ELSE disk[f]
  BY OneFile DEF RecordsInv
<1>3. {} # None
  BY RecordsAssumption
<1>4. todo' = Tail(todo) /\ (todo' # <<>> => op' = "init") /\ disk.policy = None
  BY DEF Write, InitComes
<1> HIDE DEF a, b, c, d
<1>5. CASE todo = <<a, b, c, d>>
  <2>1. Head(todo) = a /\ todo' = <<b, c, d>> /\ Len(todo') > 0
    BY <1>4, <1>5
  <2>2. disk'.policy = None
    BY <1>1, <1>2, <1>4, <2>1 DEF Files
  <2>3. op' = "init"
    <3>1. todo' # <<>>
      BY <2>1
    <3> QED
      BY <1>4, <3>1
  <2> QED
    BY <2>1, <2>2, <2>3 DEF InitComes, b, c, d
<1>6. CASE todo = <<b, c, d>>
  <2>1. Head(todo) = b /\ todo' = <<c, d>> /\ Len(todo') > 0
    BY <1>4, <1>6
  <2>2. disk'.policy = None /\ disk'.callers # None
    BY <1>1, <1>2, <1>3, <1>4, <2>1 DEF Files
  <2>3. op' = "init"
    <3>1. todo' # <<>>
      BY <2>1
    <3> QED
      BY <1>4, <3>1
  <2> QED
    BY <2>1, <2>2, <2>3 DEF InitComes, c, d
<1>7. CASE todo = <<c, d>> /\ disk.callers # None
  <2>1. Head(todo) = c /\ todo' = <<d>> /\ Len(todo') > 0
    BY <1>4, <1>7
  <2>2. disk'.policy = None /\ disk'.callers # None
    BY <1>1, <1>2, <1>4, <1>7, <2>1 DEF Files
  <2>3. op' = "init"
    <3>1. todo' # <<>>
      BY <2>1
    <3> QED
      BY <1>4, <3>1
  <2> QED
    BY <2>1, <2>2, <2>3 DEF InitComes, d
<1>8. CASE todo = <<d>> /\ disk.callers # None
  <2>1. Head(todo) = d /\ todo' = <<>>
    BY <1>4, <1>8
  <2>2. disk'.policy = None /\ disk'.callers # None /\ disk'.spent # None
    BY <1>1, <1>2, <1>3, <1>4, <1>8, <2>1 DEF Files
  <2> QED
    BY <2>1, <2>2, NoneOf DEF Settled, Consistent
<1> QED
  BY <1>5, <1>6, <1>7, <1>8 DEF InitComes, a, b, c, d

LEMMA WriteStage ==
    ASSUME RecordsInv, Write
    PROVE  Stage'
<1>1. torn' = torn
  BY DEF Write
<1> QED
  BY <1>1, WriteSettled, WritePolicyComes, WritePolicyCame, WriteInit DEF RecordsInv, Stage

LEMMA DeathLeaves ==
    ASSUME RecordsInv, TypeOK', DaemonDies
    PROVE  RecordsInv'
<1>1. /\ UNCHANGED <<disk, installed, whole>> /\ todo' = <<>> /\ session' = None
      /\ regained' = Roles /\ (op \in {"init", "policy"} => torn') /\ (torn => torn')
  BY DEF DaemonDies
<1>2. todo' \in Seq(Harmless) /\ todo' \in Seq(Revoking(Roles \ regained'))
      /\ todo' \in Seq(Benign(disk.meta))
  BY <1>1, NoneOf
<1>3. Installed' /\ BoundaryIds' /\ Waits'
  BY <1>1, <1>2 DEF RecordsInv, Installed, BoundaryIds, Waits
<1>4. Stage'
  BY <1>1, <1>2 DEF RecordsInv, Stage, Settled, Consistent, PolicyComes, PolicyCame, InitComes
<1> QED
  BY <1>3, <1>4 DEF RecordsInv

-----------------------------------------------------------------------------
(* The theorems.                                                           *)

LEMMA RecordsInit == Init => RecordsInv
<1> SUFFICES ASSUME Init PROVE RecordsInv
  OBVIOUS
<1>1. Installed
  BY NoneOf DEF Init, Blank, NoRoles, Installed, Unbound
<1>2. BoundaryIds
  BY DEF Init, Blank, NoRoles, BoundaryIds
<1>3. Waits
  BY NoneOf DEF Init, Waits
<1>4. Stage
  BY NoneOf DEF Init, Blank, Stage, Settled, Consistent
<1> QED
  BY <1>1, <1>2, <1>3, <1>4, TypesInit DEF RecordsInv

LEMMA RecordsNext == RecordsInv /\ [Next]_vars => RecordsInv'
<1> SUFFICES ASSUME RecordsInv, [Next]_vars PROVE RecordsInv'
  OBVIOUS
<1>1. TypeOK'
  BY RecordsTyped DEF RecordsInv
<1>2. CASE Operation
  <2>1. ASSUME NEW r \in Roles, NEW k \in Keys, PairDevice(r, k) \/ SubmitSignature(r, k)
        PROVE  RecordsInv'
    BY <1>1, <2>1, QuietPair, QuietSubmit
  <2>2. ASSUME NEW p \in Policies, NEW key \in KeyChoices(p),
               AdapterEnroll(p, key) \/ BeginSession(p, key)
        PROVE  RecordsInv'
    BY <1>1, <2>2, QuietAdapter, QuietMemory
  <2>3. ASSUME NEW p \in Policies, SetPolicy(p) PROVE RecordsInv'
    BY <1>1, <2>3, PolicyStage
  <2>4. ASSUME NEW c \in Callers, Enroll(c) PROVE RecordsInv'
    BY <1>1, <2>4, QuietEnroll
  <2>5. ASSUME NEW r \in Roles,
               RevokeDevice(r) \/ ReplaceDeviceKey(r) \/ IssueChallenge(r) \/ CancelChallenge(r)
        PROVE  RecordsInv'
    BY <1>1, <2>5, QuietRevoke, QuietReplace, QuietMemory
  <2> QED
    BY <1>1, <1>2, <2>1, <2>2, <2>3, <2>4, <2>5, StartStage, QuietRotate, QuietSeal, QuietAccept
       DEF Operation
<1>3. CASE Write
  BY <1>1, <1>3, WriteInstalled, WriteStage DEF RecordsInv
<1>4. CASE DaemonDies
  BY <1>1, <1>4, DeathLeaves
<1>5. CASE UNCHANGED vars
  BY <1>1, <1>5, SameRecords DEF vars
<1> QED
  BY <1>2, <1>3, <1>4, <1>5 DEF Next

\* Of every write that is still to come is known what it may do, and the stage of
\* the operation it belongs to.
THEOREM RecordsInvariant == Spec => []RecordsInv
  BY RecordsInit, RecordsNext, PTL DEF Spec

\* Whatever dies wherever: records that every later operation refuses are left only
\* by a death inside the creation of the holder, or between policy.json and meta.json.
THEOREM LockedOutTheorem == Spec => []LockedOutOnlyWhenTorn
<1>1. RecordsInv => LockedOutOnlyWhenTorn
  <2> SUFFICES ASSUME RecordsInv, LockedOut, ~torn PROVE FALSE
    BY DEF LockedOutOnlyWhenTorn
  <2>1. todo = <<>> /\ disk.meta # None
    BY DEF LockedOut
  <2>2. Consistent
    BY <2>1 DEF RecordsInv, Stage, Settled, PolicyComes, PolicyCame, InitComes, Drops
  <2> QED
    BY <2>1, <2>2 DEF LockedOut, Loads, Consistent, generation
<1> QED
  BY <1>1, RecordsInvariant, PTL

\* A half written enrollment never authorizes, and installed protection accepts no
\* policy, no boundary key and no receipt, for any sequence of operations.
THEOREM BoundaryTheorem == Spec => []BoundaryIsWhole
<1>1. RecordsInv => BoundaryIsWhole
  <2> SUFFICES ASSUME RecordsInv PROVE BoundaryIsWhole
    OBVIOUS
  <2>1. \A r \in Roles : BoundaryAuthorizes(r) => disk.devices[r].id \in whole
    BY DEF RecordsInv, BoundaryIds, BoundaryAuthorizes
  <2>2. installed =>
            /\ disk.policy = None /\ disk.boundary = NoRoles /\ disk.receipt = None
            /\ Unbound(disk.devices)
    BY DEF RecordsInv, Installed
  <2> QED
    BY <2>1, <2>2 DEF BoundaryIsWhole, Unbound
<1> QED
  BY <1>1, RecordsInvariant, PTL

\* A session stores its keys only under the generation it started in, and over no
\* device revoked since, unless that role was enrolled again.
THEOREM WaitTheorem == Spec => WaitFailsClosed
<1>1. RecordsInv /\ [Next]_vars =>
        [ session # None /\ session' = None /\ todo' # <<>> =>
            /\ session.started = disk.meta.generation
            /\ RolesOf[session.policy] \subseteq regained ]_vars
  <2> SUFFICES ASSUME RecordsInv, Next, session # None, session' = None, todo' # <<>>
               PROVE  /\ session.started = disk.meta.generation
                      /\ RolesOf[session.policy] \subseteq regained
    BY DEF vars
  <2>1. AcceptSession
    <3>1. ~Write /\ ~DaemonDies
      BY DEF Write, DaemonDies
    <3>2. ~Start /\ ~RotateCaller /\ ~SealReceipt
      BY DEF Start, RotateCaller, SealReceipt
    <3>3. /\ \A c \in Callers : ~Enroll(c)
          /\ \A p \in Policies : ~SetPolicy(p)
          /\ \A r \in Roles : ~RevokeDevice(r) /\ ~ReplaceDeviceKey(r)
      BY DEF Enroll, SetPolicy, RevokeDevice, ReplaceDeviceKey
    <3>4. \A r \in Roles : ~IssueChallenge(r) /\ ~CancelChallenge(r)
      BY DEF IssueChallenge, CancelChallenge
    <3>5. \A r \in Roles, k \in Keys : ~PairDevice(r, k)
      BY DEF PairDevice
    <3>6. \A r \in Roles, k \in Keys : ~SubmitSignature(r, k)
      BY SubmitWrites DEF RecordsInv
    <3>7. \A p \in Policies : \A key \in KeyChoices(p) :
              ~AdapterEnroll(p, key) /\ ~BeginSession(p, key)
      BY DEF AdapterEnroll, BeginSession
    <3> QED
      BY <3>1, <3>2, <3>3, <3>4, <3>5, <3>6, <3>7 DEF Next, Operation
  <2>2. todo = <<>> /\ Unchanged(session) /\ session.policy \in Policies
    BY <2>1, AcceptWrites DEF Ready, RecordsInv, TypeOK
  <2>3. \A r \in Roles \ regained : RevokedIn(disk.devices, r)
    BY <2>1, AcceptWrites, StillRevoked
  <2> QED
    BY <2>2, <2>3, RolesTyped DEF Unchanged, RevokedIn, generation
<1> QED
  BY <1>1, RecordsInvariant, PTL DEF Spec, WaitFailsClosed

-----------------------------------------------------------------------------
(* Execute.                                                                *)

\* Before the leader is waited for, unreleased or released; between its wait and
\* the judgement of the watch; and after that.
Unreleased == {"arm", "go", "abort", "reap"}
Supervised == {"table", "loop", "term", "kill", "wait"}
LeaderWaited == {"scan", "off", "judge"}
WatchJudged == {"track", "sweep", "check"}

\* The living processes of the payload.
Payloads == {p \in Alive : proc[p].kind = "payload"}

MemFields == {"forkSeen", "reparented", "blind", "timedOut", "observed", "baseline"}
ExecutionTyped ==
    /\ platform \in Platforms
    /\ proc \in [Pids -> Processes \cup {Free}]
    /\ lease \in [held : BOOLEAN, child : Children, pid : Pids \cup {NoPid}]
    /\ pc \in Places /\ leader \in Pids \cup {NoPid}
    /\ gate \in {"none", "open", "go", "closed"}
    /\ subreaper \in BOOLEAN /\ noteFork \in BOOLEAN /\ ran \in BOOLEAN /\ hidden \in BOOLEAN
    /\ mem = [f \in MemFields |-> mem[f]]

\* Nothing was spawned yet, and what lease.json says of it.
Unstarted ==
    /\ leader = NoPid => /\ pc \in {"idle", "spawn"} /\ ~ran /\ gate = "none"
                         /\ \A p \in Pids : proc[p] = Free
    /\ leader # NoPid => pc # "spawn" /\ lease.child # "uncertain"
LeaseSays ==
    /\ pc # "idle" => lease.child = "running"
    /\ pc \in {"spawn", "reaped", "table"} \cup Unreleased => lease.pid = NoPid
    /\ pc \in (Supervised \ {"table"}) \cup LeaderWaited \cup WatchJudged => lease.pid = leader
    /\ pc \in {"reaped"} \cup Unreleased \cup Supervised \cup LeaderWaited \cup WatchJudged =>
          leader # NoPid

\* Only the go byte lets the helper become the payload.
GateSays ==
    /\ pc \in {"arm", "go"} => gate = "open"
    /\ pc = "abort" => gate \in {"open", "closed"}
    /\ pc \in {"reap", "reaped"} => gate = "closed"
    /\ pc \in Supervised \cup LeaderWaited \cup WatchJudged => gate = "go"
    /\ ran => gate = "go"
HelperWaits ==
    /\ \A p \in Used : proc[p].kind = "helper" =>
          /\ p = leader /\ ~ran /\ pc \notin {"reaped"} \cup LeaderWaited \cup WatchJudged
          /\ proc[p].parent \in {Holder, InitProc}
          /\ gate = "go" => lease.child = "running"
    /\ \A p \in Used : proc[p].kind = "payload" => ran
LeaderThere ==
    pc \in Unreleased \cup Supervised =>
        leader \in Used /\ proc[leader].kind # "foreign" /\ proc[leader].parent = Holder

\* The parents of the payload's processes form a forest: each set of them has one
\* whose parent is outside.
Rooted ==
    /\ \A p \in Payloads : proc[p].parent \in Payloads \cup {Holder, InitProc}
    /\ \A S \in SUBSET Payloads : S # {} => \E p \in S : proc[p].parent \notin S
\* On linux the roots are the holder's.
Adopted ==
    platform = "linux" =>
        /\ pc \in {"go", "scan", "off"} \cup Supervised => subreaper
        /\ pc \in Supervised => \A p \in Payloads : proc[p].parent # InitProc

\* The baseline holds nobody of the payload but its leader, unless a descendant was
\* given a pid of it.
Seen ==
    /\ \A p \in Used : proc[p].kind = "foreign" => proc[p].parent = InitProc
    /\ ~hidden => \A p \in Used : proc[p].kind = "payload" /\ p \in mem.baseline => p = leader
\* Whoever is alive beside the leader, or after it, is known of.
KnownOf == IF platform = "linux" THEN ChildrenOf(Holder) \ {leader} # {}
                                 ELSE noteFork \/ mem.forkSeen
Watched ==
    /\ platform = "darwin" /\ pc \in Supervised /\ Payloads \ {leader} # {} => KnownOf
    /\ pc \in LeaderWaited /\ Payloads # {} => KnownOf
    /\ pc \in WatchJudged /\ ~hidden => Payloads = {}

ExecutionInv ==
    /\ ExecutionTyped /\ Unstarted /\ LeaseSays /\ GateSays /\ HelperWaits /\ LeaderThere
    /\ Rooted /\ Adopted /\ Seen /\ Watched


-----------------------------------------------------------------------------
(* Processes that end, and are waited for.                                 *)

\* Those of D have died, and what they left behind has another parent; zombies may
\* have gone.
Dwindles(D, heir) ==
    /\ proc' \in [Pids -> Processes \cup {Free}]
    /\ Used' \subseteq Used /\ Alive' = Alive \ D
    /\ \A p \in Used' :
          /\ proc'[p].kind = proc[p].kind
          /\ proc'[p].parent = IF proc[p].parent \in D THEN heir ELSE proc[p].parent

LEMMA AfterDeaths ==
    ASSUME ExecutionTyped, NEW died, NEW heir \in {Holder, InitProc},
           proc' = After(died, heir)
    PROVE  /\ Dwindles(died, heir)
           /\ \A p \in Used : proc[p].parent = Holder /\ Holder \notin died => p \in Used'
<1> DEFINE Parent(p) == IF proc[p].parent \in died THEN heir ELSE proc[p].parent
           Lives(p) == proc[p].live /\ p \notin died
           freed(p) == p \notin Used \/ (~Lives(p) /\ Parent(p) = InitProc)
<1>1. proc' = [p \in Pids |-> IF freed(p) THEN Free
                              ELSE [kind |-> proc[p].kind, parent |-> Parent(p),
                                    group |-> proc[p].group, live |-> Lives(p)]]
  BY DEF After
<1>2. \A p \in Used : p \in Pids /\ proc[p] \in Processes
  BY DEF Used, ExecutionTyped
<1>3. ASSUME NEW p \in Pids
      PROVE  /\ freed(p) => proc'[p] = Free
             /\ ~freed(p) => /\ proc'[p] \in Processes /\ proc'[p].kind = proc[p].kind
                             /\ proc'[p].parent = Parent(p) /\ (proc'[p].live <=> Lives(p))
  <2>1. CASE freed(p)
    BY <1>1, <2>1
  <2>2. CASE ~freed(p)
    <3>1. proc[p] \in Processes /\ Parent(p) \in Pids \cup {Holder, InitProc}
      BY <1>2, <2>2 DEF Processes
    <3>2. PICK live \in BOOLEAN : live = Lives(p)
      BY Zenon
    <3>3. proc'[p] = [kind |-> proc[p].kind, parent |-> Parent(p), group |-> proc[p].group,
                      live |-> live]
      BY <1>1, <2>2, <3>2, Zenon
    <3> HIDE DEF Parent
    <3>4. /\ proc'[p] \in Processes /\ proc'[p].kind = proc[p].kind
          /\ proc'[p].parent = Parent(p) /\ proc'[p].live = live
      BY <3>1, <3>3 DEF Processes
    <3> QED
      BY <2>2, <3>2, <3>4, Zenon
  <2> QED
    BY <2>1, <2>2
<1>4. proc' \in [Pids -> Processes \cup {Free}]
  BY <1>1, <1>3
<1>5. \A p \in Pids : p \in Used' <=> ~freed(p)
  BY <1>3, ExecutionAssumption DEF Used
<1> QED
  <2>1. Used' \subseteq Used /\ Alive' = Alive \ died
    BY <1>2, <1>3, <1>5, ExecutionAssumption DEF Used, Alive
  <2> HIDE DEF Parent
  <2>2. \A p \in Used' : proc'[p].kind = proc[p].kind /\ proc'[p].parent = Parent(p)
    BY <1>3, <1>5 DEF Used
  <2> USE DEF Parent
  <2>3. \A p \in Used : proc[p].parent = Holder /\ Holder \notin died => p \in Used'
    BY <1>2, <1>5, ExecutionAssumption
  <2> QED
    BY <1>4, <2>1, <2>2, <2>3 DEF Dwindles

LEMMA AfterWait ==
    ASSUME ExecutionTyped, NEW q \in Pids, q \notin Alive, NEW heir, proc' = WaitedFor(q)
    PROVE  Dwindles({}, heir) /\ Used' = Used \ {q}
<1>1. proc' = [proc EXCEPT ![q] = Free] /\ proc \in [Pids -> Processes \cup {Free}]
  BY DEF WaitedFor, ExecutionTyped
<1>2. proc' \in [Pids -> Processes \cup {Free}] /\ Used' = Used \ {q}
  BY <1>1 DEF Used
<1>3. \A p \in Used' : proc'[p] = proc[p]
  BY <1>1, <1>2 DEF Used
<1>4. Alive' = Alive
  BY <1>2, <1>3 DEF Alive
<1> QED
  BY <1>2, <1>3, <1>4 DEF Dwindles

LEMMA Born ==
    ASSUME ExecutionTyped, NEW q \in Pids, q \notin Used,
           NEW parent \in Pids \cup {Holder, InitProc}, NEW group \in Pids, NEW kind \in Kinds,
           proc' = [proc EXCEPT ![q] = Process(parent, group, kind)]
    PROVE  /\ proc' \in [Pids -> Processes \cup {Free}]
           /\ Used' = Used \cup {q} /\ Alive' = Alive \cup {q}
           /\ \A p \in Used : proc'[p] = proc[p]
           /\ proc'[q].kind = kind /\ proc'[q].parent = parent
<1>1. proc \in [Pids -> Processes \cup {Free}]
  BY DEF ExecutionTyped
<1>2. Process(parent, group, kind) \in Processes
  BY DEF Process, Processes
<1>3. /\ proc' \in [Pids -> Processes \cup {Free}] /\ proc'[q] = Process(parent, group, kind)
      /\ \A p \in Pids \ {q} : proc'[p] = proc[p]
  BY <1>1, <1>2
<1>4. proc'[q].kind = kind /\ proc'[q].parent = parent /\ proc'[q].live
  BY <1>3 DEF Process
<1>5. Used' = Used \cup {q}
  BY <1>1, <1>2, <1>3, ExecutionAssumption DEF Used
<1>6. Alive' = Alive \cup {q}
  BY <1>3, <1>4, <1>5 DEF Used, Alive
<1> QED
  BY <1>3, <1>4, <1>5, <1>6 DEF Used

\* A step that changes one field of p, no parent and nobody's life.
Alters(p) ==
    /\ proc' \in [Pids -> Processes \cup {Free}]
    /\ Used' = Used /\ Alive' = Alive
    /\ \A q \in Used : proc'[q].parent = proc[q].parent /\ (q # p => proc'[q] = proc[q])

LEMMA Altered ==
    ASSUME ExecutionTyped, NEW p \in Used
    PROVE  /\ \A k \in Kinds : proc' = [proc EXCEPT ![p].kind = k] =>
                  Alters(p) /\ proc'[p].kind = k
           /\ \A g \in Pids : proc' = [proc EXCEPT ![p].group = g] =>
                  Alters(p) /\ proc'[p].kind = proc[p].kind
<1>1. p \in Pids /\ proc \in [Pids -> Processes \cup {Free}] /\ proc[p] \in Processes
  BY DEF Used, ExecutionTyped
<1>2. ASSUME NEW r \in Processes, proc' = [proc EXCEPT ![p] = r], r.parent = proc[p].parent,
             r.live <=> proc[p].live
      PROVE  Alters(p) /\ proc'[p] = r
  <2>1. proc' \in [Pids -> Processes \cup {Free}] /\ proc'[p] = r
        /\ \A q \in Pids \ {p} : proc'[q] = proc[q]
    BY <1>1, <1>2
  <2>2. Used' = Used
    BY <1>1, <2>1, ExecutionAssumption DEF Used
  <2>3. Alive' = Alive
    BY <1>1, <1>2, <2>1, <2>2 DEF Used, Alive
  <2> QED
    BY <1>2, <2>1, <2>2, <2>3 DEF Alters, Used
<1>3. ASSUME NEW k \in Kinds, proc' = [proc EXCEPT ![p].kind = k]
      PROVE  Alters(p) /\ proc'[p].kind = k
  <2>1. PICK r : r = [proc[p] EXCEPT !.kind = k]
    OBVIOUS
  <2>2. /\ r \in Processes /\ r.kind = k /\ r.parent = proc[p].parent
        /\ r.live <=> proc[p].live
    BY <1>1, <2>1 DEF Processes
  <2>3. proc' = [proc EXCEPT ![p] = r]
    BY <1>3, <2>1
  <2> QED
    BY <1>2, <2>2, <2>3
<1>4. ASSUME NEW g \in Pids, proc' = [proc EXCEPT ![p].group = g]
      PROVE  Alters(p) /\ proc'[p].kind = proc[p].kind
  <2>1. PICK r : r = [proc[p] EXCEPT !.group = g]
    OBVIOUS
  <2>2. /\ r \in Processes /\ r.kind = proc[p].kind /\ r.parent = proc[p].parent
        /\ r.live <=> proc[p].live
    BY <1>1, <2>1 DEF Processes
  <2>3. proc' = [proc EXCEPT ![p] = r]
    BY <1>4, <2>1
  <2> QED
    BY <1>2, <2>2, <2>3
<1> QED
  BY <1>3, <1>4

-----------------------------------------------------------------------------
(* What execute noticed.                                                   *)

Shaped(m) == m = [f \in MemFields |-> m[f]]
Noted == noteFork \/ mem.forkSeen

LEMMA Remembered ==
    ASSUME NEW m, Shaped(m), NEW v
    PROVE  /\ Shaped([m EXCEPT !.observed = v]) /\ Shaped([m EXCEPT !.blind = v])
           /\ Shaped([m EXCEPT !.timedOut = v]) /\ Shaped([m EXCEPT !.reparented = v])
           /\ Shaped([m EXCEPT !.forkSeen = v]) /\ Shaped([m EXCEPT !.baseline = v])
           /\ [m EXCEPT !.baseline = v].forkSeen = m.forkSeen
           /\ [m EXCEPT !.observed = v].forkSeen = m.forkSeen
           /\ [m EXCEPT !.blind = v].forkSeen = m.forkSeen
           /\ [m EXCEPT !.timedOut = v].forkSeen = m.forkSeen
           /\ [m EXCEPT !.reparented = v].forkSeen = m.forkSeen
           /\ [m EXCEPT !.forkSeen = v].forkSeen = v
           /\ [m EXCEPT !.observed = v].baseline = m.baseline
           /\ [m EXCEPT !.blind = v].baseline = m.baseline
           /\ [m EXCEPT !.timedOut = v].baseline = m.baseline
           /\ [m EXCEPT !.reparented = v].baseline = m.baseline
           /\ [m EXCEPT !.forkSeen = v].baseline = m.baseline
BY DEF Shaped, MemFields

LEMMA Polling ==
    ASSUME Shaped(mem)
    PROVE  Shaped(Polled) /\ (Polled.forkSeen <=> Noted) /\ Polled.baseline = mem.baseline
<1>1. PICK v \in BOOLEAN : v = (mem.forkSeen \/ noteFork)
  BY Zenon
<1>2. Polled = [mem EXCEPT !.forkSeen = v]
  BY <1>1, Zenon DEF Polled
<1>3. Shaped(Polled) /\ Polled.forkSeen = v /\ Polled.baseline = mem.baseline
  BY <1>2, Remembered
<1> QED
  BY <1>1, <1>3, Zenon DEF Noted

LEMMA Looking ==
    ASSUME NEW m, Shaped(m), Look(m)
    PROVE  Shaped(mem') /\ mem'.forkSeen = m.forkSeen /\ mem'.baseline = m.baseline
<1>1. CASE mem' = [m EXCEPT !.observed = @ \cup Tree(leader)]
  <2>1. PICK v : v = m.observed \cup Tree(leader)
    OBVIOUS
  <2>2. mem' = [m EXCEPT !.observed = v]
    BY <1>1, <2>1
  <2> QED
    BY <2>2, Remembered
<1>2. CASE mem' = [m EXCEPT !.blind = TRUE]
  BY <1>2, Remembered, Zenon
<1> QED
  BY <1>1, <1>2 DEF Look, Local

\* A fork note that was seen is not forgotten before execute answers, and the
\* baseline is what it was when the watch was armed.
LEMMA MemoryNext ==
    ASSUME ExecutionTyped, [ExecutionNext]_executionVars
    PROVE  /\ Shaped(mem')
           /\ pc # "idle" /\ pc' # "idle" /\ Noted => Noted'
           /\ ArmPayloadWatch \/ mem'.baseline \in {mem.baseline, {}}
<1> DEFINE Kept == /\ Shaped(mem')
                   /\ pc # "idle" /\ pc' # "idle" /\ Noted => Noted'
                   /\ ArmPayloadWatch \/ mem'.baseline \in {mem.baseline, {}}
<1> SUFFICES Kept
  OBVIOUS
<1> USE DEF Shaped
<1>1. Shaped(mem) /\ Shaped(Polled) /\ (Polled.forkSeen <=> Noted)
      /\ Polled.baseline = mem.baseline
  BY Polling DEF ExecutionTyped
<1> HIDE DEF Shaped
<1>2. ASSUME UNCHANGED mem, noteFork => noteFork' \/ pc' = "idle"
      PROVE  Kept
  BY <1>1, <1>2 DEF Noted
<1>3. ASSUME mem' = NoMem, pc' = "idle" \/ pc = "idle"
      PROVE  Kept
  <2>1. Shaped(NoMem) /\ NoMem.baseline = {}
    BY DEF Shaped, NoMem, MemFields
  <2> QED
    BY <1>3, <2>1, Zenon
<1>4. Return => Kept
  BY <1>3 DEF Return, Goto, Local
<1>5. ASSUME NEW m, NEW v, m = mem \/ m = Polled, UNCHANGED noteFork,
             \/ mem' = m \/ mem' = [m EXCEPT !.observed = v]
             \/ mem' = [m EXCEPT !.timedOut = v] \/ mem' = [m EXCEPT !.reparented = v]
             \/ mem' = [m EXCEPT !.blind = v]
             \/ ArmPayloadWatch /\ mem' = [m EXCEPT !.baseline = v]
      PROVE  Kept
  <2>1. Shaped(m) /\ (Noted => m.forkSeen \/ noteFork) /\ m.baseline = mem.baseline
    BY <1>1, <1>5, Zenon DEF Noted
  <2>2. Shaped(mem') /\ mem'.forkSeen = m.forkSeen
        /\ (ArmPayloadWatch \/ mem'.baseline = m.baseline)
    <3>1. CASE mem' = m
      BY <2>1, <3>1
    <3>2. CASE mem' = [m EXCEPT !.observed = v]
      BY <2>1, <3>2, Remembered
    <3>3. CASE mem' = [m EXCEPT !.timedOut = v]
      BY <2>1, <3>3, Remembered
    <3>4. CASE mem' = [m EXCEPT !.reparented = v]
      BY <2>1, <3>4, Remembered
    <3>5. CASE mem' = [m EXCEPT !.blind = v]
      BY <2>1, <3>5, Remembered
    <3>6. CASE ArmPayloadWatch /\ mem' = [m EXCEPT !.baseline = v]
      BY <2>1, <3>6, Remembered
    <3> QED
      BY <1>5, <3>1, <3>2, <3>3, <3>4, <3>5, <3>6
  <2> QED
    BY <1>5, <2>1, <2>2, Zenon DEF Noted
<1> HIDE DEF Kept
<1>6. CASE SpawnDropped \/ ReleasePayload \/ AbortPayload
  BY <1>2, <1>6 DEF SpawnDropped, ReleasePayload, AbortPayload
<1>7. CASE SpawnRefused \/ ReapUnreleased \/ NeverStarted \/ CouldNotStop \/ JudgeAfterSweep
           \/ ExecutorDies
  BY <1>2, <1>4, <1>7 DEF SpawnRefused, ReapUnreleased, NeverStarted, CouldNotStop,
     JudgeAfterSweep, ExecutorDies, Retain, Release
<1>8. CASE LeaderEnded \/ Terminate \/ Stopped \/ Kill \/ DisableSubreaper \/ Sweep
  BY <1>2, <1>8 DEF LeaderEnded, Terminate, Stopped, Kill, DisableSubreaper, Sweep
<1>9. CASE ProcessStep
  <2>1. ForkChild => UNCHANGED mem /\ (noteFork => noteFork')
    BY Zenon DEF ForkChild
  <2>2. Exec \/ SetSid \/ Exit \/ WaitChild \/ Foreign => UNCHANGED <<mem, noteFork>>
    BY DEF Exec, SetSid, Exit, WaitChild, Foreign
  <2>3. UNCHANGED mem /\ (noteFork => noteFork')
    BY <1>9, <2>1, <2>2 DEF ProcessStep
  <2> QED
    BY <1>2, <2>3
<1>10. CASE BeginExecute
  BY <1>3, <1>10 DEF BeginExecute, At, Local
<1>11. CASE FirstTable
  BY <1>5, <1>11, Zenon DEF FirstTable, Look, Local
<1>12. CASE Watch
  BY <1>5, <1>12, Zenon DEF Watch, Look, Local
<1>13. CASE Deadline
  BY <1>5, <1>13, Zenon DEF Deadline, Local
<1>14. CASE Scan
  BY <1>5, <1>14, Zenon DEF Scan, Local
<1>15. CASE JudgeWatch
  <2>1. Return \/ (mem' = Polled /\ UNCHANGED noteFork)
    BY <1>15, Zenon DEF JudgeWatch, Local, Retain
  <2> QED
    BY <1>4, <1>5, <2>1
<1>16. CASE JudgeTracked
  <2>1. Return \/ (UNCHANGED noteFork /\ \E v : mem' = [mem EXCEPT !.observed = v])
    BY <1>16 DEF JudgeTracked, Local, Retain, Release
  <2> QED
    BY <1>4, <1>5, <2>1
<1>17. CASE ArmPayloadWatch
  BY <1>5, <1>17, Zenon DEF ArmPayloadWatch, Local
<1>18. CASE UNCHANGED executionVars
  BY <1>2, <1>18 DEF executionVars
<1> QED
  BY <1>6, <1>7, <1>8, <1>9, <1>10, <1>11, <1>12, <1>13, <1>14, <1>15, <1>16, <1>17, <1>18
     DEF ExecutionNext, HolderStep

-----------------------------------------------------------------------------
(* What a step may do to the processes.                                    *)

\* The holder or a payload signals, waits, or somebody ends.
Dying == \/ ReapUnreleased \/ LeaderEnded \/ Terminate \/ Stopped \/ Kill \/ Sweep
         \/ Exit \/ WaitChild \/ ExecutorDies
\* Those of D die.  A child of the holder disappears only when it is waited for.
Deaths(D, heir) ==
    /\ Dwindles(D, heir)
    /\ \/ D \subseteq Alive /\ heir = Heir /\ ~ExecutorDies
       \/ D = {Holder} /\ heir = InitProc /\ ExecutorDies
    /\ Holder \notin D =>
          \A p \in Used \ Used' : proc[p].parent = Holder =>
              p = leader /\ p \notin Alive /\ pc' \in {"reaped", "scan", "off"}
    /\ pc' \in {"reaped", "scan", "off"} => pc' = pc \/ leader \notin Alive \cup Used'

LEMMA DyingStep ==
    ASSUME ExecutionTyped, LeaseSays, Dying
    PROVE  \E D, heir : heir \in {Holder, InitProc} /\ Deaths(D, heir)
<1>1. Heir \in {Holder, InitProc} /\ Holder \notin Alive
  BY ExecutionAssumption DEF Heir, Alive, Used
<1>2. ASSUME NEW died \in SUBSET Alive, proc' = After(died, Heir), ~ExecutorDies,
             pc' = pc \/ pc' \notin {"reaped", "scan", "off"}
      PROVE  Deaths(died, Heir)
  <2>1. /\ Dwindles(died, Heir)
        /\ \A p \in Used : proc[p].parent = Holder => p \in Used'
    BY <1>1, <1>2, AfterDeaths
  <2> QED
    BY <1>2, <2>1 DEF Deaths
<1>3. ASSUME leader \in Pids, leader \notin Alive, proc' = WaitedFor(leader),
             pc' \in {"reaped", "scan", "off"}, ~ExecutorDies
      PROVE  Deaths({}, Heir)
  <2>1. Dwindles({}, Heir) /\ Used' = Used \ {leader}
    BY <1>3, AfterWait
  <2> QED
    BY <1>3, <2>1 DEF Deaths
<1>4. ASSUME pc # "idle", pc' # "idle" PROVE ~ExecutorDies
  BY <1>4 DEF ExecutorDies, Return, Goto
<1>5. ASSUME NEW targets, Signal(targets)
      PROVE  \E died \in SUBSET Alive : proc' = After(died, Heir)
  BY <1>5 DEF Signal
<1>6. CASE ReapUnreleased
  <2>1. leader \in Pids
    BY <1>6 DEF ReapUnreleased, At, LeaseSays, Unreleased, ExecutionTyped
  <2>2. CASE leader \in Alive
    <3>1. Signal(Members(leader)) /\ ~ExecutorDies /\ pc' \in {pc, "idle"}
      BY <1>6, <2>2 DEF ReapUnreleased, ExecutorDies, Retain, Release, Return, Record, At, Goto, LeaseSays,
         Unreleased
    <3> QED
      BY <1>1, <1>2, <1>5, <3>1
  <2>3. CASE leader \notin Alive
    <3>1. proc' = WaitedFor(leader) /\ pc = "reap" /\ pc' = "reaped"
      BY <1>6, <2>3 DEF ReapUnreleased, At, Goto
    <3> QED
      BY <1>1, <1>3, <1>4, <2>1, <2>3, <3>1
  <2> QED
    BY <2>2, <2>3
<1>7. CASE LeaderEnded \/ Stopped
  <2>1. leader \in Pids /\ leader \notin Alive /\ proc' = WaitedFor(leader)
        /\ pc # "idle" /\ pc' \in {"scan", "off"}
    BY <1>7 DEF LeaderEnded, Stopped, At, Goto, LeaseSays, Supervised, ExecutionTyped
  <2> QED
    BY <1>1, <1>3, <1>4, <2>1
<1>8. CASE Terminate \/ Kill \/ Sweep
  <2>1. /\ \E targets : Signal(targets)
        /\ pc # "idle" /\ pc' \in {"kill", "wait", "check"}
    BY <1>8 DEF Terminate, Kill, Sweep, At, Goto
  <2> QED
    BY <1>1, <1>2, <1>4, <1>5, <2>1
<1>9. ASSUME UNCHANGED pc PROVE ~ExecutorDies
  BY <1>9 DEF ExecutorDies, Return, Goto
<1>10. CASE Exit
  <2>1. PICK p \in Alive : proc' = After({p}, Heir)
    BY <1>10 DEF Exit
  <2>2. UNCHANGED pc
    BY <1>10 DEF Exit
  <2> QED
    BY <1>1, <1>2, <1>9, <2>1, <2>2
<1>11. CASE WaitChild
  <2>1. PICK p \in Used \ Alive : proc[p].parent \in Alive /\ proc' = WaitedFor(p)
    BY <1>11 DEF WaitChild
  <2>2. p \in Pids /\ p \notin Alive /\ proc[p].parent # Holder
    BY <1>1, <2>1 DEF Used
  <2>3. Dwindles({}, Heir) /\ Used' = Used \ {p}
    BY <2>1, <2>2, AfterWait
  <2>4. ~ExecutorDies /\ UNCHANGED pc
    BY <1>9, <1>11 DEF WaitChild
  <2> QED
    BY <1>1, <2>2, <2>3, <2>4 DEF Deaths
<1>12. CASE ExecutorDies
  <2>1. proc' = After({Holder}, InitProc)
    BY <1>12 DEF ExecutorDies
  <2>2. Dwindles({Holder}, InitProc)
    BY <2>1, AfterDeaths
  <2> QED
    BY <1>12, <2>2 DEF Deaths, ExecutorDies, Return, Goto
<1> QED
  BY <1>6, <1>7, <1>8, <1>10, <1>11, <1>12 DEF Dying

\* Somebody new, or another field of somebody: the payload's leader, or a group.
Birth == SpawnDropped \/ ForkChild \/ Foreign
Change == Exec \/ SetSid
\* Nobody's business but the holder's.
Still == \/ BeginExecute \/ SpawnRefused \/ ArmPayloadWatch \/ ReleasePayload \/ AbortPayload
         \/ NeverStarted \/ FirstTable \/ Watch \/ Scan \/ CouldNotStop \/ DisableSubreaper
         \/ JudgeWatch \/ JudgeTracked \/ JudgeAfterSweep \/ Deadline
         \/ UNCHANGED executionVars

LEMMA Kindly == [ExecutionNext]_executionVars => Still \/ Dying \/ Birth \/ Change
BY DEF ExecutionNext, HolderStep, ProcessStep, Still, Dying, Birth, Change

LEMMA StillStep == Still => UNCHANGED <<proc, leader, ran, hidden>> /\ Used' = Used /\ Alive' = Alive
BY DEF Still, BeginExecute, SpawnRefused, ArmPayloadWatch, ReleasePayload, AbortPayload,
   NeverStarted, FirstTable, Watch, Scan, CouldNotStop, DisableSubreaper, JudgeWatch,
   JudgeTracked, JudgeAfterSweep, Deadline, executionVars, Used, Alive

\* Who is born, of whom, and what execute holds of it.
Births(q, parent, kind) ==
    /\ q \in Pids \ Used /\ kind \in Kinds
    /\ proc' \in [Pids -> Processes \cup {Free}]
    /\ Used' = Used \cup {q} /\ Alive' = Alive \cup {q}
    /\ \A p \in Used : proc'[p] = proc[p]
    /\ proc'[q].kind = kind /\ proc'[q].parent = parent
    /\ \/ SpawnDropped /\ leader' = q /\ parent = Holder /\ kind = "helper"
       \/ /\ ForkChild /\ parent \in Alive /\ proc[parent].kind = "payload" /\ kind = "payload"
          /\ platform = "darwin" /\ parent = leader /\ pc # "idle" => noteFork'
          /\ hidden' = (hidden \/ q \in mem.baseline \ {leader})
       \/ Foreign /\ parent = InitProc /\ kind = "foreign"

LEMMA BirthStep ==
    ASSUME ExecutionTyped, Birth
    PROVE  \E q, parent, kind : Births(q, parent, kind)
<1>1. Available \subseteq Pids /\ Available \cap Used = {} /\ Alive \subseteq Pids
  BY DEF Available, Absent, Used, Alive
<1>2. CASE SpawnDropped
  <2>1. PICK q \in Available :
            leader' = q /\ proc' = [proc EXCEPT ![q] = Process(Holder, q, "helper")]
    BY <1>2 DEF SpawnDropped
  <2>2. Births(q, Holder, "helper")
    BY <1>1, <1>2, <2>1, Born DEF Births, Kinds
  <2> QED
    BY <2>2
<1>3. CASE ForkChild
  <2>1. PICK p \in Alive, q \in Available :
            /\ proc[p].kind = "payload"
            /\ proc' = [proc EXCEPT ![q] = Process(p, proc[p].group, "payload")]
            /\ platform = "darwin" /\ p = leader /\ pc # "idle" => noteFork'
            /\ hidden' = (hidden \/ q \in mem.baseline \ {leader})
    BY <1>3, Zenon DEF ForkChild
  <2>2. p \in Pids /\ proc[p].group \in Pids
    BY <1>1 DEF Alive, Used, ExecutionTyped, Processes
  <2>3. Births(q, p, "payload")
    BY <1>1, <1>3, <2>1, <2>2, Born DEF Births, Kinds
  <2> QED
    BY <2>3
<1>4. CASE Foreign
  <2>1. PICK q \in Available : proc' = [proc EXCEPT ![q] = Process(InitProc, q, "foreign")]
    BY <1>4 DEF Foreign
  <2>2. Births(q, InitProc, "foreign")
    BY <1>1, <1>4, <2>1, Born DEF Births, Kinds
  <2> QED
    BY <2>2
<1> QED
  BY <1>2, <1>3, <1>4 DEF Birth

\* Whose field changes.
Changes(p) ==
    /\ p \in Alive /\ Alters(p)
    /\ \/ Exec /\ p = leader /\ proc[p].kind = "helper" /\ proc'[p].kind = "payload"
       \/ SetSid /\ proc[p].kind = "payload" /\ proc'[p].kind = "payload"

LEMMA ChangeStep ==
    ASSUME ExecutionTyped, Change
    PROVE  \E p : Changes(p)
<1>1. CASE Exec
  <2>1. /\ leader \in Alive /\ proc[leader].kind = "helper"
        /\ proc' = [proc EXCEPT ![leader].kind = "payload"]
    BY <1>1 DEF Exec
  <2>2. leader \in Used /\ "payload" \in Kinds
    BY <2>1 DEF Alive, Kinds
  <2>3. Alters(leader) /\ proc'[leader].kind = "payload"
    BY <2>1, <2>2, Altered
  <2> QED
    BY <1>1, <2>1, <2>3 DEF Changes
<1>2. CASE SetSid
  <2>1. PICK p \in Alive : proc[p].kind = "payload" /\ proc' = [proc EXCEPT ![p].group = p]
    BY <1>2 DEF SetSid
  <2>2. p \in Used /\ p \in Pids
    BY <2>1 DEF Alive, Used
  <2>3. Alters(p) /\ proc'[p].kind = proc[p].kind
    BY <2>1, <2>2, Altered
  <2> QED
    BY <1>2, <2>1, <2>3 DEF Changes
<1> QED
  BY <1>1, <1>2 DEF Change

\* What execute does with those who died.
LEMMA DyingSays ==
    ASSUME Dying
    PROVE  /\ leader' = leader /\ ran' = ran /\ platform' = platform /\ hidden' = hidden
           /\ subreaper' = subreaper \/ pc' = "idle"
           /\ \/ UNCHANGED <<lease, pc, gate>>
              \/ /\ UNCHANGED <<lease, gate>>
                 /\ \/ pc = "reap" /\ pc' = "reaped"
                    \/ pc = "loop" /\ pc' = "scan"
                    \/ pc = "term" /\ pc' = "kill"
                    \/ pc = "kill" /\ pc' \in {"off", "wait"}
                    \/ pc = "wait" /\ pc' = "off"
                    \/ pc = "sweep" /\ pc' = "check"
              \/ /\ UNCHANGED gate /\ pc = "reap" /\ pc' = "idle"
                 /\ lease'.child = "supervision-uncertain"
              \/ /\ ExecutorDies /\ UNCHANGED lease /\ pc' = "idle"
                 /\ gate' = IF gate = "open" THEN "closed" ELSE gate
<1>1. CASE ReapUnreleased
  <2>1. Retain => pc' = "idle" /\ lease'.child = "supervision-uncertain"
    BY DEF Retain, Release, Return, Record, Goto
  <2> QED
    BY <1>1, <2>1 DEF ReapUnreleased, At, Goto
<1>2. CASE LeaderEnded \/ Terminate \/ Stopped \/ Kill \/ Sweep
  BY <1>2 DEF LeaderEnded, Terminate, Stopped, Kill, Sweep, At, Goto
<1>3. CASE Exit \/ WaitChild
  BY <1>3 DEF Exit, WaitChild
<1>4. CASE ExecutorDies
  BY <1>4 DEF ExecutorDies, Return, Goto
<1> QED
  BY <1>1, <1>2, <1>3, <1>4 DEF Dying

-----------------------------------------------------------------------------
(* Every part of the invariant is kept.                                    *)

LEMMA TypedNext ==
    ASSUME ExecutionInv, [ExecutionNext]_executionVars
    PROVE  ExecutionTyped'
<1> USE DEF ExecutionInv
<1>1. proc' \in [Pids -> Processes \cup {Free}]
  <2>1. CASE Still
    BY <2>1, StillStep DEF ExecutionTyped
  <2>2. CASE Dying
    BY <2>2, DyingStep DEF Deaths, Dwindles
  <2>3. CASE Birth
    BY <2>3, BirthStep DEF Births
  <2>4. CASE Change
    BY <2>4, ChangeStep DEF Changes, Alters
  <2> QED
    BY <2>1, <2>2, <2>3, <2>4, Kindly
<1>2. mem' = [f \in MemFields |-> mem'[f]]
  BY MemoryNext DEF Shaped
<1>3. noteFork' \in BOOLEAN
  <2>1. noteFork \in BOOLEAN
    BY DEF ExecutionTyped
  <2>2. CASE ForkChild
    <3>1. PICK p : noteFork' = (noteFork \/ (platform = "darwin" /\ p = leader /\ pc # "idle"))
      BY <2>2, Zenon DEF ForkChild
    <3> QED
      BY <3>1, Zenon
  <2>3. CASE Still
    BY <2>1, <2>3 DEF Still, BeginExecute, SpawnRefused, ArmPayloadWatch, ReleasePayload,
       AbortPayload, NeverStarted, FirstTable, Watch, Scan, CouldNotStop, DisableSubreaper,
       JudgeWatch, JudgeTracked, JudgeAfterSweep, Deadline, executionVars, Retain, Release, Return
  <2>4. CASE Dying
    BY <2>1, <2>4 DEF Dying, ReapUnreleased, LeaderEnded, Terminate, Stopped, Kill, Sweep, Exit,
       WaitChild, ExecutorDies, Retain, Return
  <2>5. CASE SpawnDropped \/ Foreign \/ Change
    BY <2>1, <2>5 DEF SpawnDropped, Foreign, Change, Exec, SetSid
  <2> QED
    BY <2>2, <2>3, <2>4, <2>5, Kindly DEF Birth
<1>4. subreaper' \in BOOLEAN
  <2>1. subreaper \in BOOLEAN
    BY DEF ExecutionTyped
  <2>2. CASE ArmPayloadWatch
    BY <2>2, Zenon DEF ArmPayloadWatch
  <2>3. subreaper' = subreaper \/ subreaper' = FALSE \/ ArmPayloadWatch
    BY DEF ExecutionNext, HolderStep, ProcessStep, BeginExecute, SpawnRefused, ReleasePayload,
       AbortPayload, NeverStarted, FirstTable, Watch, Scan, CouldNotStop, DisableSubreaper,
       JudgeWatch, JudgeTracked, JudgeAfterSweep, Deadline, executionVars, ReapUnreleased,
       LeaderEnded, Terminate, Stopped, Kill, Sweep, Exit, WaitChild, ExecutorDies, SpawnDropped,
       ForkChild, Foreign, Exec, SetSid
  <2> QED
    BY <2>1, <2>2, <2>3
<1>5. lease' \in [held : BOOLEAN, child : Children, pid : Pids \cup {NoPid}]
  <2>1. lease \in [held : BOOLEAN, child : Children, pid : Pids \cup {NoPid}]
        /\ leader \in Pids \cup {NoPid}
    BY DEF ExecutionTyped
  <2>2. ASSUME NEW held \in BOOLEAN, NEW outcome \in Children, NEW pid \in Pids \cup {NoPid},
               Record(held, outcome, pid)
        PROVE  lease' \in [held : BOOLEAN, child : Children, pid : Pids \cup {NoPid}]
    BY <2>2 DEF Record
  <2>3. \/ UNCHANGED lease
        \/ \E held \in BOOLEAN, outcome \in Children, pid \in Pids \cup {NoPid} :
              Record(held, outcome, pid)
    <3>1. CASE Still
      BY <2>1, <3>1 DEF Still, BeginExecute, SpawnRefused, ArmPayloadWatch,
         ReleasePayload, AbortPayload, NeverStarted, FirstTable, Watch, Scan, CouldNotStop,
         DisableSubreaper, JudgeWatch, JudgeTracked, JudgeAfterSweep, Deadline, executionVars,
         Retain, Release, Return, Outcome, Children
    <3>2. CASE Dying
      BY <2>1, <3>2 DEF Dying, ReapUnreleased, LeaderEnded, Terminate, Stopped, Kill,
         Sweep, Exit, WaitChild, ExecutorDies, Retain, Release, Return, Children
    <3>3. CASE Birth \/ Change
      BY <3>3 DEF Birth, Change, SpawnDropped, ForkChild, Foreign, Exec, SetSid
    <3> QED
      BY <3>1, <3>2, <3>3, Kindly
  <2> QED
    BY <2>1, <2>2, <2>3
<1>6. /\ platform' \in Platforms /\ ran' \in BOOLEAN
      /\ pc' \in Places /\ leader' \in Pids \cup {NoPid}
      /\ gate' \in {"none", "open", "go", "closed"}
  <2>1. /\ platform \in Platforms /\ ran \in BOOLEAN
        /\ pc \in Places /\ leader \in Pids \cup {NoPid}
        /\ gate \in {"none", "open", "go", "closed"}
    BY DEF ExecutionTyped
  <2>2. CASE Still
    BY <2>1, <2>2 DEF Still, BeginExecute, SpawnRefused, ArmPayloadWatch,
       ReleasePayload, AbortPayload, NeverStarted, FirstTable, Watch, Scan, CouldNotStop,
       DisableSubreaper, JudgeWatch, JudgeTracked, JudgeAfterSweep, Deadline, executionVars,
       Goto, Retain, Release, Return, Places
  <2>3. CASE Dying
    BY <2>1, <2>3 DEF Dying, ReapUnreleased, LeaderEnded, Terminate, Stopped, Kill,
       Sweep, Exit, WaitChild, ExecutorDies, Goto, Retain, Release, Return, Places
  <2>4. CASE Birth \/ Change
    BY <2>1, <2>4 DEF Birth, Change, SpawnDropped, ForkChild, Foreign, Exec, SetSid, Goto,
       Places, Available
  <2> QED
    BY <2>2, <2>3, <2>4, Kindly
<1>7. hidden' \in BOOLEAN
  <2>1. hidden \in BOOLEAN
    BY DEF ExecutionTyped
  <2>2. CASE ForkChild
    BY <2>2, Zenon DEF ForkChild
  <2>3. CASE Still \/ Dying
    BY <2>1, <2>3, StillStep, DyingSays
  <2>4. CASE SpawnDropped \/ Foreign \/ Change
    BY <2>1, <2>4 DEF SpawnDropped, Foreign, Change, Exec, SetSid
  <2> QED
    BY <2>2, <2>3, <2>4, Kindly DEF Birth
<1> QED
  BY <1>1, <1>2, <1>3, <1>4, <1>5, <1>6, <1>7 DEF ExecutionTyped

\* How execute answers, and how it goes on when it does not.
LEMMA ArmSays ==
    ASSUME ArmPayloadWatch
    PROVE  pc = "arm" /\ pc' \in {"go", "abort"} /\ UNCHANGED <<lease, gate>>
BY Zenon DEF ArmPayloadWatch, At, Goto

LEMMA JudgedSays ==
    ASSUME NeverStarted \/ CouldNotStop \/ JudgeWatch \/ JudgeTracked \/ JudgeAfterSweep
    PROVE  /\ UNCHANGED gate
           /\ \/ UNCHANGED lease /\ <<pc, pc'>> \in {<<"wait", "idle">>, <<"judge", "track">>,
                                                     <<"track", "sweep">>}
              \/ /\ pc \in {"reaped", "track", "check"} /\ pc' = "idle"
                 /\ \E outcome \in {"spawn-failed", "exited", "timeout"} :
                       lease' = [held |-> FALSE, child |-> outcome, pid |-> lease.pid]
              \/ /\ pc \in {"reaped", "judge", "track", "check"} /\ pc' = "idle"
                 /\ lease' = [held |-> TRUE, child |-> "supervision-uncertain", pid |-> leader]
<1>1. Retain => /\ pc' = "idle"
                /\ lease' = [held |-> TRUE, child |-> "supervision-uncertain", pid |-> leader]
  BY DEF Retain, Record, Return, Goto
<1>2. ASSUME Release(Outcome) \/ Release("spawn-failed")
      PROVE  /\ pc' = "idle"
             /\ \E outcome \in {"spawn-failed", "exited", "timeout"} :
                   lease' = [held |-> FALSE, child |-> outcome, pid |-> lease.pid]
  BY <1>2 DEF Release, Record, Return, Goto, Outcome
<1>3. CASE JudgeTracked
  <2>1. Retain \/ Release(Outcome) \/ (UNCHANGED lease /\ pc' = "sweep")
    BY <1>3, Zenon DEF JudgeTracked, Goto
  <2>2. pc = "track" /\ UNCHANGED gate
    BY <1>3, Zenon DEF JudgeTracked, At
  <2> QED
    BY <1>1, <1>2, <2>1, <2>2
<1>4. CASE JudgeAfterSweep
  <2>1. (Retain \/ Release(Outcome)) /\ pc = "check" /\ UNCHANGED gate
    BY <1>4, Zenon DEF JudgeAfterSweep, At
  <2> QED
    BY <1>1, <1>2, <2>1
<1>5. CASE JudgeWatch
  <2>1. (Retain \/ (UNCHANGED lease /\ pc' = "track")) /\ pc = "judge" /\ UNCHANGED gate
    BY <1>5, Zenon DEF JudgeWatch, At, Goto
  <2> QED
    BY <1>1, <2>1
<1>6. CASE NeverStarted
  <2>1. (Retain \/ Release("spawn-failed")) /\ pc = "reaped" /\ UNCHANGED gate
    BY <1>6, Zenon DEF NeverStarted, At
  <2> QED
    BY <1>1, <1>2, <2>1
<1>7. CASE CouldNotStop
  BY <1>7 DEF CouldNotStop, At, Return, Goto
<1> QED
  BY <1>3, <1>4, <1>5, <1>6, <1>7

LEMMA SaysNext ==
    ASSUME ExecutionInv, [ExecutionNext]_executionVars
    PROVE  LeaseSays' /\ GateSays'
<1>1. CASE Still
  <2>1. CASE BeginExecute \/ SpawnRefused \/ ReleasePayload \/ AbortPayload
             \/ FirstTable \/ Watch \/ Scan \/ DisableSubreaper \/ Deadline
             \/ UNCHANGED executionVars
    BY <2>1 DEF ExecutionInv, Unstarted, LeaseSays, GateSays, Unreleased,
       Supervised, LeaderWaited, WatchJudged, ExecutionTyped, BeginExecute, SpawnRefused,
       ReleasePayload, AbortPayload, FirstTable, Watch, Scan, DisableSubreaper, Deadline,
       executionVars, At, Goto, Record, Return
  <2>2. CASE ArmPayloadWatch
    BY <1>1, StillStep, <2>2, ArmSays DEF ExecutionInv, Unstarted, LeaseSays, GateSays, Unreleased,
       Supervised, LeaderWaited, WatchJudged, ExecutionTyped
  <2>3. CASE NeverStarted \/ CouldNotStop \/ JudgeWatch \/ JudgeTracked \/ JudgeAfterSweep
    BY <1>1, StillStep, <2>3, JudgedSays DEF ExecutionInv, Unstarted, LeaseSays, GateSays, Unreleased,
       Supervised, LeaderWaited, WatchJudged, ExecutionTyped
  <2> QED
    BY <1>1, <2>1, <2>2, <2>3 DEF Still
<1>2. CASE Dying
  BY <1>2, DyingSays DEF ExecutionInv, LeaseSays, GateSays, Unreleased, Supervised, LeaderWaited,
     WatchJudged
<1>3. CASE Birth
  BY <1>3, ExecutionAssumption DEF ExecutionInv, Unstarted, LeaseSays, GateSays, Unreleased,
     Supervised, LeaderWaited, WatchJudged, ExecutionTyped, Birth, SpawnDropped, ForkChild, Foreign,
     At, Goto, Available
<1>4. CASE Change
  BY <1>4 DEF ExecutionInv, LeaseSays, GateSays, Unreleased, Supervised, LeaderWaited,
     WatchJudged, ExecutionTyped, Change, Exec, SetSid
<1> QED
  BY <1>1, <1>2, <1>3, <1>4, Kindly

LEMMA UnstartedNext ==
    ASSUME ExecutionInv, [ExecutionNext]_executionVars
    PROVE  Unstarted'
<1>1. CASE Still
  <2>1. CASE BeginExecute \/ SpawnRefused \/ ReleasePayload \/ AbortPayload
             \/ FirstTable \/ Watch \/ Scan \/ DisableSubreaper \/ Deadline
             \/ UNCHANGED executionVars
    BY <1>1, StillStep, <2>1 DEF ExecutionInv, Unstarted, LeaseSays, Unreleased,
       Supervised, LeaderWaited, WatchJudged, BeginExecute, SpawnRefused,
       ReleasePayload, AbortPayload, FirstTable, Watch, Scan, DisableSubreaper, Deadline,
       executionVars, At, Goto, Record, Return
  <2>2. CASE ArmPayloadWatch
    BY <1>1, StillStep, <2>2, ArmSays DEF ExecutionInv, Unstarted, LeaseSays, Unreleased,
       Supervised, LeaderWaited, WatchJudged
  <2>3. CASE NeverStarted \/ CouldNotStop \/ JudgeWatch \/ JudgeTracked \/ JudgeAfterSweep
    BY <1>1, StillStep, <2>3, JudgedSays DEF ExecutionInv, Unstarted, LeaseSays, Unreleased,
       Supervised, LeaderWaited, WatchJudged
  <2> QED
    BY <1>1, <2>1, <2>2, <2>3 DEF Still
<1>2. CASE Dying
  <2>1. PICK D, heir : Deaths(D, heir)
    BY <1>2, DyingStep DEF ExecutionInv
  <2>2. Used = {} => \A p \in Pids : proc'[p] = Free
    BY <2>1 DEF Deaths, Dwindles, Used
  <2>3. /\ leader' = leader /\ (pc' # "spawn" \/ pc' = pc)
        /\ lease'.child = lease.child \/ lease'.child = "supervision-uncertain"
    BY <1>2, DyingSays
  <2>4. leader = NoPid => pc' \in {"idle", "spawn"} /\ UNCHANGED <<ran, gate>>
    BY <1>2, DyingSays DEF ExecutionInv, Unstarted
  <2> QED
    BY <2>2, <2>3, <2>4 DEF ExecutionInv, Unstarted, Used
<1>3. CASE Birth
  <2>1. leader' # NoPid
    BY <1>3, ExecutionAssumption DEF ExecutionInv, Unstarted, Birth, SpawnDropped, ForkChild, Foreign,
       Available, Alive, Used
  <2> QED
    BY <1>3, <2>1 DEF ExecutionInv, Unstarted, LeaseSays, Birth, SpawnDropped, ForkChild, Foreign, At,
       Goto
<1>4. CASE Change
  <2>1. Alive # {} /\ UNCHANGED <<leader, pc, lease>>
    BY <1>4 DEF Change, Exec, SetSid
  <2> QED
    BY <2>1 DEF ExecutionInv, Unstarted, Alive, Used
<1> QED
  BY <1>1, <1>2, <1>3, <1>4, Kindly

LEMMA PayloadsThere ==
    ASSUME ExecutionInv
    PROVE  /\ Payloads \subseteq Alive /\ Alive \subseteq Used /\ Used \subseteq Pids
           /\ Payloads # {} => ran /\ gate = "go" /\ leader # NoPid
           /\ Holder \notin Pids /\ InitProc \notin Pids
<1>1. Payloads \subseteq Alive /\ Alive \subseteq Used /\ Used \subseteq Pids
  BY DEF Payloads, Alive, Used
<1>2. Payloads # {} => ran
  BY <1>1 DEF Payloads, ExecutionInv, HelperWaits
<1> QED
  BY <1>1, <1>2, ExecutionAssumption DEF ExecutionInv, GateSays, Unstarted

\* Who of the payload is alive after a step.
LEMMA PayloadsNext ==
    ASSUME ExecutionInv
    PROVE  /\ Still => Payloads' = Payloads
           /\ \A D, heir : Deaths(D, heir) => Payloads' = Payloads \ D
           /\ \A q, parent, kind : Births(q, parent, kind) =>
                 Payloads' = IF kind = "payload" THEN Payloads \cup {q} ELSE Payloads
           /\ \A p : Changes(p) => Payloads' = Payloads \cup {p}
<1>1. ASSUME Still PROVE Payloads' = Payloads
  BY <1>1, StillStep DEF Payloads
<1>2. ASSUME NEW D, NEW heir, Deaths(D, heir) PROVE Payloads' = Payloads \ D
  <2>1. Alive' = Alive \ D /\ \A p \in Alive' : proc'[p].kind = proc[p].kind
    BY <1>2 DEF Deaths, Dwindles, Alive
  <2> QED
    BY <2>1 DEF Payloads
<1>3. ASSUME NEW q, NEW parent, NEW kind, Births(q, parent, kind)
      PROVE  Payloads' = IF kind = "payload" THEN Payloads \cup {q} ELSE Payloads
  BY <1>3 DEF Births, Payloads, Alive
<1>4. ASSUME NEW p, Changes(p) PROVE Payloads' = Payloads \cup {p}
  BY <1>4 DEF Changes, Alters, Payloads, Alive
<1> QED
  BY <1>1, <1>2, <1>3, <1>4

LEMMA HelperNext ==
    ASSUME ExecutionInv, [ExecutionNext]_executionVars
    PROVE  HelperWaits'
<1>1. CASE Still
  <2>1. UNCHANGED <<proc, leader, ran>> /\ Used' = Used
    BY <1>1, StillStep
  <2>2. ASSUME leader \in Used
        PROVE  /\ pc \notin {"reaped"} \cup LeaderWaited \cup WatchJudged =>
                     pc' \notin {"reaped"} \cup LeaderWaited \cup WatchJudged
               /\ gate' = "go" /\ (gate = "go" => lease.child = "running")
                     /\ pc \notin {"reaped"} \cup LeaderWaited \cup WatchJudged =>
                     lease'.child = "running"
    <3>1. CASE BeginExecute \/ SpawnRefused \/ ReleasePayload \/ AbortPayload
             \/ FirstTable \/ Watch \/ Scan \/ DisableSubreaper \/ Deadline
             \/ UNCHANGED executionVars
      BY <2>2, <3>1 DEF ExecutionInv, Unstarted, LeaseSays, GateSays,
       Unreleased, Supervised, LeaderWaited, WatchJudged, Used, ExecutionTyped, BeginExecute, SpawnRefused,
       ReleasePayload, AbortPayload, FirstTable, Watch, Scan, DisableSubreaper, Deadline,
       executionVars, At, Goto, Record, Return
    <3>2. CASE ArmPayloadWatch
      BY <2>2, <3>2, ArmSays DEF ExecutionInv, Unstarted, LeaseSays, GateSays,
       Unreleased, Supervised, LeaderWaited, WatchJudged, Used, ExecutionTyped
    <3>3. CASE NeverStarted \/ CouldNotStop \/ JudgeWatch \/ JudgeTracked \/ JudgeAfterSweep
      BY <2>2, <3>3, JudgedSays DEF ExecutionInv, Unstarted, LeaseSays, GateSays,
       Unreleased, Supervised, LeaderWaited, WatchJudged, Used, ExecutionTyped
    <3> QED
      BY <1>1, <3>1, <3>2, <3>3 DEF Still
  <2> QED
    BY <2>1, <2>2 DEF ExecutionInv, HelperWaits
<1>2. CASE Dying
  <2>1. PICK D, heir : heir \in {Holder, InitProc} /\ Deaths(D, heir)
    BY <1>2, DyingStep DEF ExecutionInv
  <2>2. /\ Used' \subseteq Used
        /\ \A p \in Used' : /\ proc'[p].kind = proc[p].kind
                            /\ proc[p].parent \in {Holder, InitProc} =>
                                  proc'[p].parent \in {Holder, InitProc}
    BY <2>1 DEF Deaths, Dwindles
  <2>3. ASSUME leader \in Used'
        PROVE  /\ pc \notin {"reaped"} \cup LeaderWaited \cup WatchJudged =>
                     pc' \notin {"reaped"} \cup LeaderWaited \cup WatchJudged
               /\ gate' = "go" => gate = "go" /\ lease'.child = lease.child
    BY <1>2, <2>1, <2>3, DyingSays DEF ExecutionInv, GateSays, LeaderWaited, WatchJudged, Deaths
  <2>4. UNCHANGED <<leader, ran>>
    BY <1>2, DyingSays
  <2> QED
    BY <2>2, <2>3, <2>4 DEF ExecutionInv, HelperWaits
<1>3. CASE Birth
  <2>1. PICK q, parent, kind : Births(q, parent, kind)
    BY <1>3, BirthStep DEF ExecutionInv
  <2>2. CASE kind = "helper"
    <3> SpawnDropped
      BY <2>1, <2>2 DEF Births
    <3>1. pc = "spawn" /\ leader = NoPid /\ Used = {} /\ ~ran
      BY DEF SpawnDropped, At, ExecutionInv, Unstarted, Used
    <3>2. /\ Used' = {q} /\ proc'[q].kind = "helper" /\ proc'[q].parent = Holder /\ leader' = q
          /\ ran' = ran /\ pc' = "arm" /\ gate' = "open"
      BY <2>1, <2>2, <3>1 DEF Births, SpawnDropped, Goto
    <3> QED
      BY <3>1, <3>2 DEF HelperWaits, LeaderWaited, WatchJudged
  <2>3. CASE kind = "payload"
    <3>1. /\ parent \in Used /\ proc[parent].kind = "payload"
          /\ UNCHANGED <<lease, pc, leader, gate, ran>>
      BY <2>1, <2>3 DEF Births, ForkChild, Alive
    <3>2. /\ Used' = Used \cup {q} /\ q \notin Used /\ proc'[q].kind = "payload"
          /\ \A p \in Used : proc'[p] = proc[p]
      BY <2>1, <2>3 DEF Births
    <3> QED
      BY <3>1, <3>2 DEF ExecutionInv, HelperWaits
  <2>4. CASE kind = "foreign"
    <3>1. UNCHANGED <<lease, pc, leader, gate, ran>>
      BY <2>1, <2>4 DEF Births, Foreign
    <3>2. /\ Used' = Used \cup {q} /\ q \notin Used /\ proc'[q].kind = "foreign"
          /\ \A p \in Used : proc'[p] = proc[p]
      BY <2>1, <2>4 DEF Births
    <3> QED
      BY <3>1, <3>2 DEF ExecutionInv, HelperWaits
  <2> QED
    BY <2>1, <2>2, <2>3, <2>4 DEF Births
<1>4. CASE Change
  <2>1. PICK p : Changes(p)
    BY <1>4, ChangeStep DEF ExecutionInv
  <2>2. UNCHANGED <<lease, pc, leader, gate>>
    BY <1>4 DEF Change, Exec, SetSid
  <2>3. /\ Used' = Used /\ p \in Used /\ proc'[p].kind = "payload"
        /\ \A q \in Used : proc'[q].parent = proc[q].parent /\ (q # p => proc'[q] = proc[q])
    BY <2>1 DEF Changes, Alters, Alive
  <2>4. CASE proc[p].kind = "helper"
    <3>1. p = leader /\ ran'
      BY <2>1, <2>4 DEF Changes, Exec
    <3>2. \A q \in Used : proc'[q].kind # "helper"
      BY <2>3, <3>1 DEF ExecutionInv, HelperWaits
    <3> QED
      BY <2>2, <2>3, <3>1, <3>2 DEF HelperWaits
  <2>5. CASE proc[p].kind = "payload"
    <3>1. ran' = ran
      BY <2>1, <2>5 DEF Changes, SetSid
    <3> QED
      BY <2>2, <2>3, <2>5, <3>1 DEF ExecutionInv, HelperWaits
  <2> QED
    BY <2>1, <2>4, <2>5 DEF Changes
<1> QED
  BY <1>1, <1>2, <1>3, <1>4, Kindly

LEMMA LeaderNext ==
    ASSUME ExecutionInv, [ExecutionNext]_executionVars
    PROVE  LeaderThere'
<1> DEFINE Held == Unreleased \cup Supervised
<1>1. CASE Still
  <2>1. UNCHANGED <<proc, leader>> /\ Used' = Used
    BY <1>1, StillStep
  <2>2. pc' \in Held => pc \in Held
    BY <1>1 DEF Unreleased, Supervised, Still, BeginExecute, SpawnRefused,
       ArmPayloadWatch, ReleasePayload, AbortPayload, NeverStarted, FirstTable, Watch, Scan,
       CouldNotStop, DisableSubreaper, JudgeWatch, JudgeTracked, JudgeAfterSweep, Deadline,
       executionVars, At, Goto, Retain, Release, Return
  <2> QED
    BY <2>1, <2>2 DEF ExecutionInv, LeaderThere
<1>2. CASE Dying
  <2>1. PICK D, heir : Deaths(D, heir)
    BY <1>2, DyingStep DEF ExecutionInv
  <2>2. ASSUME pc' \in Held
        PROVE  /\ pc \in Held /\ leader' = leader /\ Holder \notin D
               /\ pc' \notin {"reaped", "scan", "off"}
    <3>1. pc \in Held /\ leader' = leader /\ pc' # "idle" /\ pc' \notin {"reaped", "scan", "off"}
      BY <1>2, <2>2, DyingSays DEF Unreleased, Supervised
    <3> QED
      BY <2>1, <3>1, PayloadsThere DEF Deaths, ExecutorDies, Return, Goto
  <2>3. /\ Used' \subseteq Used
        /\ \A p \in Used' : /\ proc'[p].kind = proc[p].kind
                            /\ proc'[p].parent = proc[p].parent \/ proc[p].parent \in D
    BY <2>1 DEF Deaths, Dwindles
  <2>4. pc' \in Held => leader \in Used'
    BY <2>1, <2>2 DEF Deaths, ExecutionInv, LeaderThere
  <2> QED
    BY <2>2, <2>3, <2>4 DEF ExecutionInv, LeaderThere
<1>3. CASE Birth
  <2>1. PICK q, parent, kind : Births(q, parent, kind)
    BY <1>3, BirthStep DEF ExecutionInv
  <2>2. CASE kind = "helper"
    BY <2>1, <2>2 DEF Births, LeaderThere
  <2>3. CASE kind # "helper"
    <3>1. UNCHANGED <<leader, pc>>
      BY <2>1, <2>3 DEF Births, ForkChild, Foreign
    <3> QED
      BY <2>1, <3>1 DEF Births, ExecutionInv, LeaderThere
  <2> QED
    BY <2>2, <2>3
<1>4. CASE Change
  <2>1. PICK p : Changes(p)
    BY <1>4, ChangeStep DEF ExecutionInv
  <2>2. UNCHANGED <<leader, pc>>
    BY <1>4 DEF Change, Exec, SetSid
  <2> QED
    BY <2>1, <2>2 DEF Changes, Alters, ExecutionInv, LeaderThere
<1> QED
  BY <1>1, <1>2, <1>3, <1>4, Kindly

LEMMA RootedNext ==
    ASSUME ExecutionInv, [ExecutionNext]_executionVars
    PROVE  Rooted'
<1> USE PayloadsThere
<1>1. CASE Still
  <2>1. UNCHANGED proc /\ Payloads' = Payloads
    BY <1>1, StillStep, PayloadsNext
  <2> QED
    BY <2>1 DEF ExecutionInv, Rooted
<1>2. CASE Dying
  <2>1. PICK D, heir : heir \in {Holder, InitProc} /\ Deaths(D, heir)
    BY <1>2, DyingStep DEF ExecutionInv
  <2>2. Payloads' = Payloads \ D
    BY <2>1, PayloadsNext
  <2>3. \A p \in Payloads' : proc'[p].parent = IF proc[p].parent \in D THEN heir
                                               ELSE proc[p].parent
    BY <2>1, <2>2 DEF Deaths, Dwindles, Payloads, Alive
  <2>4. ASSUME NEW p \in Payloads'
        PROVE  proc'[p].parent \in Payloads' \cup {Holder, InitProc}
    BY <2>1, <2>2, <2>3 DEF ExecutionInv, Rooted
  <2>5. ASSUME NEW S \in SUBSET Payloads', S # {}
        PROVE  \E p \in S : proc'[p].parent \notin S
    <3>1. PICK p \in S : proc[p].parent \notin S
      BY <2>2, <2>5 DEF ExecutionInv, Rooted
    <3> QED
      BY <2>1, <2>2, <2>3, <3>1
  <2> QED
    BY <2>4, <2>5 DEF Rooted
<1>3. CASE Birth
  <2>1. PICK q, parent, kind : Births(q, parent, kind)
    BY <1>3, BirthStep DEF ExecutionInv
  <2>2. CASE kind # "payload"
    <3>1. Payloads' = Payloads /\ \A p \in Payloads : proc'[p] = proc[p]
      BY <2>1, <2>2, PayloadsNext DEF Births
    <3> QED
      BY <3>1 DEF ExecutionInv, Rooted
  <2>3. CASE kind = "payload"
    <3>1. Payloads' = Payloads \cup {q}
      BY <2>1, <2>3, PayloadsNext
    <3>2. /\ q \notin Payloads /\ q \in Pids /\ proc'[q].parent \in Payloads
          /\ \A p \in Payloads : proc'[p] = proc[p]
      BY <2>1, <2>3 DEF Births, Payloads
    <3>3. ASSUME NEW S \in SUBSET Payloads', S # {}
          PROVE  \E p \in S : proc'[p].parent \notin S
      <4>1. CASE S \ {q} = {}
        BY <3>2, <3>3, <4>1
      <4>2. CASE S \ {q} # {}
        <5>1. PICK p \in S \ {q} : proc[p].parent \notin S \ {q}
          BY <3>1, <4>2 DEF ExecutionInv, Rooted
        <5>2. p \in Payloads /\ proc[p].parent # q
          BY <3>1, <3>2, <5>1 DEF ExecutionInv, Rooted
        <5> QED
          BY <3>2, <5>1, <5>2
      <4> QED
        BY <4>1, <4>2
    <3> QED
      BY <3>1, <3>2, <3>3 DEF ExecutionInv, Rooted
  <2> QED
    BY <2>2, <2>3
<1>4. CASE Change
  <2>1. PICK p : Changes(p)
    BY <1>4, ChangeStep DEF ExecutionInv
  <2>2. /\ Payloads' = Payloads \cup {p} /\ \A q \in Payloads' : proc'[q].parent = proc[q].parent
    BY <2>1, PayloadsNext DEF Changes, Alters
  <2>3. CASE proc[p].kind = "payload"
    <3>1. Payloads' = Payloads
      BY <2>1, <2>2, <2>3 DEF Changes, Payloads
    <3> QED
      BY <2>2, <3>1 DEF ExecutionInv, Rooted
  <2>4. CASE proc[p].kind = "helper"
    <3>1. Payloads = {} /\ proc[p].parent \in {Holder, InitProc} /\ p \in Pids
      BY <2>1, <2>4 DEF Changes, ExecutionInv, HelperWaits, Payloads
    <3> QED
      BY <2>2, <3>1 DEF Rooted
  <2> QED
    BY <2>1, <2>3, <2>4 DEF Changes
<1> QED
  BY <1>1, <1>2, <1>3, <1>4, Kindly

LEMMA AdoptedNext ==
    ASSUME ExecutionInv, [ExecutionNext]_executionVars
    PROVE  Adopted'
<1> USE PayloadsThere
<1>1. CASE Still
  <2>1. UNCHANGED <<platform, proc>> /\ Payloads' = Payloads
    BY <1>1, StillStep, PayloadsNext DEF Still, BeginExecute, SpawnRefused,
       ArmPayloadWatch, ReleasePayload, AbortPayload, NeverStarted, FirstTable, Watch, Scan,
       CouldNotStop, DisableSubreaper, JudgeWatch, JudgeTracked, JudgeAfterSweep, Deadline,
       executionVars
  <2>2. ASSUME pc' \in {"go", "scan", "off"} \cup Supervised, platform = "linux", Adopted
        PROVE  subreaper'
    <3>1. CASE ArmPayloadWatch
      <4>1. PICK armed \in BOOLEAN :
                /\ Goto(IF armed THEN "go" ELSE "abort")
                /\ subreaper' = (armed /\ platform = "linux")
        BY <3>1, Zenon DEF ArmPayloadWatch
      <4>2. armed
        BY <2>2, <4>1 DEF Goto, Supervised
      <4> QED
        BY <2>2, <4>1, <4>2, Zenon
    <3>2. CASE ~ArmPayloadWatch
      <4>1. pc \in {"go", "scan", "off"} \cup Supervised /\ subreaper' = subreaper
        BY <1>1, <2>2, <3>2 DEF Supervised, Still, BeginExecute, SpawnRefused,
           ReleasePayload, AbortPayload, NeverStarted, FirstTable, Watch, Scan,
           CouldNotStop, DisableSubreaper, JudgeWatch, JudgeTracked, JudgeAfterSweep, Deadline,
           executionVars, At, Goto, Retain, Release, Return
      <4>2. subreaper
        BY <2>2, <4>1 DEF Adopted
      <4> QED
        BY <4>1, <4>2
    <3> QED
      BY <3>1, <3>2
  <2>3. pc' \in Supervised => pc \in Supervised \/ pc = "go"
    BY <1>1 DEF Supervised, Still, BeginExecute, SpawnRefused,
       ArmPayloadWatch, ReleasePayload, AbortPayload, NeverStarted, FirstTable, Watch, Scan,
       CouldNotStop, DisableSubreaper, JudgeWatch, JudgeTracked, JudgeAfterSweep, Deadline,
       executionVars, At, Goto, Retain, Release, Return
  <2>4. pc = "go" => Payloads = {}
    BY DEF ExecutionInv, GateSays
  <2> QED
    BY <2>1, <2>2, <2>3, <2>4 DEF ExecutionInv, Adopted
<1>2. CASE Dying
  <2>1. PICK D, heir : heir \in {Holder, InitProc} /\ Deaths(D, heir)
    BY <1>2, DyingStep DEF ExecutionInv
  <2>2. /\ Payloads' = Payloads \ D
        /\ \A p \in Payloads' : proc'[p].parent = IF proc[p].parent \in D THEN heir
                                                  ELSE proc[p].parent
    BY <2>1, PayloadsNext DEF Deaths, Dwindles, Payloads, Alive
  <2>3. /\ platform' = platform
        /\ pc' \in {"go", "scan", "off"} \cup Supervised =>
              pc \in {"go", "scan", "off"} \cup Supervised /\ subreaper' = subreaper
        /\ pc' \in Supervised => pc \in Supervised /\ ~ExecutorDies
    BY <1>2, DyingSays DEF Supervised, ExecutorDies, Return, Goto
  <2>4. subreaper /\ ~ExecutorDies => heir = Holder
    BY <2>1 DEF Deaths, Heir
  <2> QED
    BY <2>2, <2>3, <2>4, ExecutionAssumption DEF ExecutionInv, Adopted
<1>3. CASE Birth
  <2>1. PICK q, parent, kind : Births(q, parent, kind)
    BY <1>3, BirthStep DEF ExecutionInv
  <2>2. CASE kind = "helper"
    <3>1. pc' = "arm" /\ SpawnDropped
      BY <2>1, <2>2 DEF Births, SpawnDropped, Goto
    <3> QED
      BY <3>1 DEF Adopted, Supervised
  <2>3. CASE kind # "helper"
    <3>1. UNCHANGED <<pc, platform, subreaper>>
      BY <2>1, <2>3 DEF Births, ForkChild, Foreign
    <3>2. \A p \in Payloads' \ Payloads : proc'[p].parent \in Pids
      BY <2>1, PayloadsNext DEF Births
    <3>3. \A p \in Payloads : proc'[p] = proc[p]
      BY <2>1 DEF Births
    <3> QED
      BY <3>1, <3>2, <3>3 DEF ExecutionInv, Adopted
  <2> QED
    BY <2>2, <2>3
<1>4. CASE Change
  <2>1. PICK p : Changes(p)
    BY <1>4, ChangeStep DEF ExecutionInv
  <2>2. UNCHANGED <<pc, platform, subreaper>>
    BY <1>4 DEF Change, Exec, SetSid
  <2>3. Payloads' = Payloads \cup {p} /\ \A q \in Payloads' : proc'[q].parent = proc[q].parent
    BY <2>1, PayloadsNext DEF Changes, Alters
  <2>4. p \in Payloads \/ (pc \in Supervised => proc[p].parent = Holder)
    BY <2>1 DEF Changes, Payloads, ExecutionInv, HelperWaits, LeaderThere
  <2> QED
    BY <2>2, <2>3, <2>4, ExecutionAssumption DEF ExecutionInv, Adopted
<1> QED
  BY <1>1, <1>2, <1>3, <1>4, Kindly

LEMMA SeenNext ==
    ASSUME ExecutionInv, [ExecutionNext]_executionVars
    PROVE  Seen'
<1>1. ArmPayloadWatch \/ mem'.baseline \in {mem.baseline, {}}
  BY MemoryNext DEF ExecutionInv
<1>2. CASE Still
  <2>1. UNCHANGED <<proc, leader, hidden>> /\ Used' = Used
    BY <1>2, StillStep
  <2>2. ArmPayloadWatch => \A p \in Used : proc[p].kind # "payload"
    BY DEF ArmPayloadWatch, At, ExecutionInv, GateSays, HelperWaits
  <2> QED
    BY <1>1, <2>1, <2>2 DEF ExecutionInv, Seen
<1>3. CASE Dying
  <2>1. PICK D, heir : Deaths(D, heir)
    BY <1>3, DyingStep DEF ExecutionInv
  <2>2. UNCHANGED <<leader, hidden>> /\ ~ArmPayloadWatch
    <3>1. ~ArmPayloadWatch
      BY <1>3, DyingSays DEF ArmPayloadWatch, At, Goto
    <3> QED
      BY <1>3, <3>1, DyingSays
  <2>3. /\ Used' \subseteq Used /\ InitProc \notin D
        /\ \A p \in Used' : /\ proc'[p].kind = proc[p].kind
                            /\ proc'[p].parent = proc[p].parent \/ proc[p].parent \in D
    BY <2>1, PayloadsThere, ExecutionAssumption DEF Deaths, Dwindles
  <2> QED
    BY <1>1, <2>2, <2>3 DEF ExecutionInv, Seen
<1>4. CASE Birth
  <2>1. PICK q, parent, kind : Births(q, parent, kind)
    BY <1>4, BirthStep DEF ExecutionInv
  <2>2. UNCHANGED mem
    BY <1>4 DEF Birth, SpawnDropped, ForkChild, Foreign
  <2>3. CASE kind = "helper"
    <3>1. pc = "spawn" /\ leader = NoPid
      BY <2>1, <2>3 DEF Births, SpawnDropped, At, ExecutionInv, Unstarted
    <3>2. Used = {}
      BY <3>1 DEF ExecutionInv, Unstarted, Used
    <3> QED
      BY <2>1, <2>3, <3>2 DEF Births, Seen
  <2>4. CASE kind = "payload"
    <3>1. leader' = leader /\ hidden' = (hidden \/ q \in mem.baseline \ {leader})
      BY <2>1, <2>4, Zenon DEF Births, ForkChild
    <3> QED
      BY <2>1, <2>2, <2>4, <3>1 DEF Births, ExecutionInv, Seen
  <2>5. CASE kind = "foreign"
    <3>1. UNCHANGED <<leader, hidden>>
      BY <2>1, <2>5 DEF Births, Foreign
    <3> QED
      BY <2>1, <2>2, <2>5, <3>1 DEF Births, ExecutionInv, Seen
  <2> QED
    BY <2>1, <2>3, <2>4, <2>5 DEF Births
<1>5. CASE Change
  <2>1. PICK p : Changes(p)
    BY <1>5, ChangeStep DEF ExecutionInv
  <2>2. UNCHANGED <<leader, mem, hidden>>
    BY <1>5 DEF Change, Exec, SetSid
  <2> QED
    BY <2>1, <2>2 DEF Changes, Alters, ExecutionInv, Seen
<1> QED
  BY <1>2, <1>3, <1>4, <1>5, Kindly

\* A payload alive beside the leader has a root that is not the leader, and on linux
\* that one is the holder's.
LEMMA SomebodyAdopted ==
    ASSUME Rooted, Adopted, platform = "linux", pc \in Supervised, Payloads # {},
           leader \notin Alive
    PROVE  ChildrenOf(Holder) \ {leader} # {}
<1>1. PICK p \in Payloads : proc[p].parent \notin Payloads
  BY DEF Rooted
<1>2. proc[p].parent = Holder /\ p \in Used /\ p # leader
  BY <1>1 DEF Rooted, Adopted, Payloads, Alive
<1> QED
  BY <1>2 DEF ChildrenOf

\* Nobody known of: the watch may be judged clean.
LEMMA JudgedClean ==
    ASSUME ExecutionInv, "token" \notin Failing, JudgeWatch, pc' # "idle"
    PROVE  hidden \/ Payloads = {}
<1> SUFFICES ASSUME ~hidden PROVE Payloads = {}
  OBVIOUS
<1>1. PICK alive \in StillAlive :
          IF Polled.forkSeen \/ mem.reparented \/ alive THEN Retain
          ELSE Goto("track") /\ Local(Polled) /\ UNCHANGED <<lease, noteFork>>
  BY Zenon DEF JudgeWatch
<1>2. ~Retain
  BY DEF Retain, Release, Return, Goto
<1>3. ~Polled.forkSeen /\ ~alive
  BY <1>1, <1>2, Zenon
<1>4. alive \in {ChildrenOf(Holder) \ (mem.baseline \cup {leader}) # {}} \/ alive = TRUE
  BY <1>1, Zenon DEF StillAlive
<1>5. ~(ChildrenOf(Holder) \ {leader} # {})
  <2>1. ~(ChildrenOf(Holder) \ (mem.baseline \cup {leader}) # {})
    BY <1>3, <1>4, Zenon
  <2>2. \A q \in ChildrenOf(Holder) : q \in mem.baseline => q = leader
    BY ExecutionAssumption DEF ChildrenOf, ExecutionInv, Seen, HelperWaits, ExecutionTyped, Used,
       Processes, Kinds
  <2> QED
    BY <2>1, <2>2
<1>6. ~Noted
  BY <1>3, Polling, Zenon DEF ExecutionInv, ExecutionTyped, Shaped
<1>7. pc \in LeaderWaited
  BY DEF JudgeWatch, At, LeaderWaited
<1> QED
  BY <1>5, <1>6, <1>7 DEF ExecutionInv, Watched, KnownOf, Noted

LEMMA WatchedNext ==
    ASSUME "token" \notin Failing, ExecutionInv, [ExecutionNext]_executionVars
    PROVE  Watched'
<1> USE PayloadsThere
<1>1. pc # "idle" /\ pc' # "idle" /\ Noted => Noted'
  BY MemoryNext DEF ExecutionInv
<1>2. platform' = platform /\ platform \in {"linux", "darwin"}
  BY ExecutionAssumption DEF ExecutionInv, ExecutionTyped, ExecutionNext, HolderStep,
     ProcessStep, BeginExecute, SpawnRefused, SpawnDropped, ArmPayloadWatch, ReleasePayload,
     AbortPayload, ReapUnreleased, NeverStarted, FirstTable, Watch, LeaderEnded, Scan, Terminate,
     Stopped, Kill, CouldNotStop, DisableSubreaper, JudgeWatch, JudgeTracked, Sweep,
     JudgeAfterSweep, Deadline, Exec, ForkChild, SetSid, Exit, WaitChild, Foreign, ExecutorDies,
     executionVars
<1>3. CASE Still
  <2>1. UNCHANGED <<proc, leader>> /\ Payloads' = Payloads /\ Used' = Used
    BY <1>3, StillStep, PayloadsNext
  <2>2. ChildrenOf(Holder)' = ChildrenOf(Holder)
    BY <2>1 DEF ChildrenOf
  <2>3. (JudgeWatch /\ pc' # "idle" => hidden \/ Payloads = {}) /\ hidden' = hidden
    BY <1>3, JudgedClean, StillStep
  <2>4. pc = "go" => Payloads = {}
    BY DEF ExecutionInv, GateSays
  <2>5. /\ pc' \in Supervised => pc \in Supervised \/ pc = "go"
        /\ pc' \in LeaderWaited => pc \in LeaderWaited
        /\ pc' \in WatchJudged => pc \in WatchJudged \/ JudgeWatch
    BY <1>3 DEF Supervised, LeaderWaited, WatchJudged, Still, BeginExecute, SpawnRefused,
       ArmPayloadWatch, ReleasePayload, AbortPayload, NeverStarted, FirstTable, Watch, Scan,
       CouldNotStop, DisableSubreaper, JudgeWatch, JudgeTracked, JudgeAfterSweep, Deadline,
       executionVars, At, Goto, Retain, Release, Return
  <2>6. pc \in Supervised \cup LeaderWaited => pc # "idle"
    BY DEF Supervised, LeaderWaited
  <2>7. pc' \in Supervised \cup LeaderWaited \cup WatchJudged => pc' # "idle"
    BY DEF Supervised, LeaderWaited, WatchJudged
  <2> QED
    BY <1>1, <1>2, <2>1, <2>2, <2>3, <2>4, <2>5, <2>6, <2>7
       DEF ExecutionInv, Watched, KnownOf, Noted
<1>4. CASE Dying
  <2>1. PICK D, heir : heir \in {Holder, InitProc} /\ Deaths(D, heir)
    BY <1>4, DyingStep DEF ExecutionInv
  <2>2. Payloads' = Payloads \ D /\ leader' = leader /\ hidden' = hidden
    BY <1>4, <2>1, PayloadsNext, DyingSays
  <2>3. /\ pc' \in Supervised => pc \in Supervised /\ pc' # "idle" /\ pc # "idle"
        /\ pc' \in LeaderWaited => /\ pc' # "idle" /\ pc # "idle"
                                   /\ \/ pc \in LeaderWaited
                                      \/ pc \in Supervised /\ leader \notin Alive
        /\ pc' \in WatchJudged => pc \in WatchJudged
    <3>1. /\ pc' \in Supervised => pc \in Supervised /\ pc' # "idle" /\ pc # "idle"
          /\ pc' \in LeaderWaited => /\ pc' # "idle" /\ pc # "idle"
                                     /\ pc \in LeaderWaited \/ pc' # pc
                                     /\ pc \in LeaderWaited \cup Supervised
                                     /\ pc' \in {"scan", "off"} \/ pc' = pc
          /\ pc' \in WatchJudged => pc \in WatchJudged
      BY <1>4, DyingSays DEF Supervised, LeaderWaited, WatchJudged
    <3> QED
      BY <2>1, <3>1 DEF Deaths
  <2>4. ASSUME pc \in LeaderWaited \cup Supervised, pc' \in LeaderWaited,
               ChildrenOf(Holder) \ {leader} # {}
        PROVE  (ChildrenOf(Holder) \ {leader})' # {}
    <3>1. PICK p \in Used : proc[p].parent = Holder /\ p # leader
      BY <2>4 DEF ChildrenOf
    <3>2. Holder \notin D
      BY <2>1, <2>4 DEF Deaths, ExecutorDies, Return, Goto, LeaderWaited
    <3>3. p \in Used' /\ proc'[p].parent = Holder
      BY <2>1, <3>1, <3>2 DEF Deaths, Dwindles
    <3> QED
      BY <2>2, <3>1, <3>3 DEF ChildrenOf
  <2>5. pc' \in Supervised /\ platform' = "darwin" /\ Payloads' \ {leader'} # {} => KnownOf'
    BY <1>1, <1>2, <2>2, <2>3 DEF ExecutionInv, Watched, KnownOf, Noted
  <2>6. ASSUME pc' \in LeaderWaited, Payloads' # {} PROVE KnownOf'
    <3>1. CASE platform = "darwin"
      BY <1>1, <1>2, <2>2, <2>3, <2>6, <3>1 DEF ExecutionInv, Watched, KnownOf, Noted
    <3>2. CASE platform = "linux"
      <4>1. ChildrenOf(Holder) \ {leader} # {}
        BY <2>2, <2>3, <2>6, <3>2, SomebodyAdopted DEF ExecutionInv, Watched, KnownOf
      <4> QED
        BY <1>2, <2>3, <2>4, <2>6, <3>2, <4>1 DEF KnownOf
    <3> QED
      BY <1>2, <3>1, <3>2
  <2>7. pc' \in WatchJudged /\ ~hidden' => Payloads' = {}
    BY <2>2, <2>3 DEF ExecutionInv, Watched
  <2> QED
    BY <2>5, <2>6, <2>7 DEF Watched
<1>5. CASE Birth
  <2>1. PICK q, parent, kind : Births(q, parent, kind)
    BY <1>5, BirthStep DEF ExecutionInv
  <2>2. CASE kind = "helper"
    <3>1. pc' = "arm"
      BY <2>1, <2>2 DEF Births, SpawnDropped, Goto
    <3> QED
      BY <3>1 DEF Watched, Supervised, LeaderWaited, WatchJudged
  <2>3. CASE kind # "helper"
    <3>1. UNCHANGED <<pc, leader, mem>>
      BY <2>1, <2>3 DEF Births, ForkChild, Foreign
    <3>2. (Payloads = {} => Payloads' = {}) /\ (hidden => hidden')
      <4>1. Payloads = {} => Payloads' = {}
        BY <2>1, PayloadsNext DEF Births, Payloads
      <4>2. hidden => hidden'
        BY <2>1, <2>3, Zenon DEF Births, Foreign
      <4> QED
        BY <4>1, <4>2
    <3>3. (ChildrenOf(Holder) \ {leader}) \subseteq (ChildrenOf(Holder) \ {leader})'
      BY <2>1, <3>1 DEF Births, ChildrenOf
    <3>4. ASSUME pc \in Supervised, platform = "darwin", Payloads' \ {leader} # {}
          PROVE  Payloads \ {leader} # {} \/ noteFork'
      <4>1. CASE kind = "foreign"
        BY <2>1, <3>4, <4>1, PayloadsNext
      <4>2. CASE kind = "payload"
        <5>1. parent \in Payloads /\ (parent = leader => noteFork')
          BY <1>2, <2>1, <3>4, <4>2 DEF Births, Payloads, Supervised
        <5> QED
          BY <5>1
      <4> QED
        BY <2>1, <2>3, <4>1, <4>2 DEF Births, Kinds
    <3> QED
      BY <1>1, <1>2, <3>1, <3>2, <3>3, <3>4
         DEF ExecutionInv, Watched, KnownOf, Noted, Supervised, LeaderWaited
  <2> QED
    BY <2>2, <2>3
<1>6. CASE Change
  <2>1. PICK p : Changes(p)
    BY <1>6, ChangeStep DEF ExecutionInv
  <2>2. UNCHANGED <<pc, leader, mem, noteFork, hidden>>
    BY <1>6 DEF Change, Exec, SetSid
  <2>3. Payloads' = Payloads \cup {p} /\ ChildrenOf(Holder)' = ChildrenOf(Holder)
    BY <2>1, PayloadsNext DEF Changes, Alters, ChildrenOf
  <2>4. p \in Payloads \/ (p = leader /\ pc \notin LeaderWaited \cup WatchJudged)
    BY <2>1 DEF Changes, Payloads, ExecutionInv, HelperWaits
  <2> QED
    BY <1>2, <2>2, <2>3, <2>4 DEF ExecutionInv, Watched, KnownOf
<1> QED
  BY <1>3, <1>4, <1>5, <1>6, Kindly

\* Every step of execute, of the processes and of the daemon keeps the invariant.
THEOREM ExecutionInvariant ==
    ASSUME "token" \notin Failing
    PROVE  ExecutionSpec => []ExecutionInv
<1>1. ExecutionInit => ExecutionInv
  <2> SUFFICES ASSUME ExecutionInit PROVE ExecutionInv
    OBVIOUS
  <2>1. Used = {} /\ Alive = {} /\ Payloads = {}
    BY DEF ExecutionInit, Used, Alive, Payloads
  <2>2. Shaped(NoMem)
    BY DEF Shaped, NoMem, MemFields
  <2>3. ExecutionTyped
    BY <2>2 DEF ExecutionInit, ExecutionTyped, Shaped, Children, Places
  <2>4. Unstarted /\ LeaseSays /\ GateSays
    BY ExecutionAssumption DEF ExecutionInit, Unstarted, LeaseSays, GateSays, Unreleased,
       Supervised, LeaderWaited, WatchJudged
  <2> QED
    BY <2>1, <2>3, <2>4 DEF ExecutionInit, ExecutionInv, HelperWaits, LeaderThere, Rooted, Adopted,
       Seen, Watched, Unreleased, Supervised, LeaderWaited, WatchJudged
<1>2. ExecutionInv /\ [ExecutionNext]_executionVars => ExecutionInv'
  BY TypedNext, SaysNext, UnstartedNext, HelperNext, LeaderNext, RootedNext, AdoptedNext,
     SeenNext, WatchedNext DEF ExecutionInv
<1> QED
  BY <1>1, <1>2, PTL DEF ExecutionSpec

-----------------------------------------------------------------------------
(* The abstract launch.                                                    *)

\* Where the payload stands.
HelperLives == leader \in Alive /\ proc[leader].kind = "helper"

LEMMA PayloadIs ==
    ASSUME ExecutionInv
    PROVE  /\ PayloadLives <=> Payloads # {}
           /\ leader = NoPid => payload = "none" /\ ~ran /\ Payloads = {}
           /\ leader # NoPid =>
                 /\ Payloads # {} => payload = "running"
                 /\ Payloads = {} /\ ran => payload = "gone"
                 /\ Payloads = {} /\ ~ran /\ HelperLives => payload = "waiting"
                 /\ Payloads = {} /\ ~ran /\ ~HelperLives => payload = "unborn"
<1>1. PayloadLives <=> Payloads # {}
  BY DEF PayloadLives, Payloads
<1> QED
  BY <1>1, PayloadsThere DEF payload, HelperLives, ExecutionInv, Unstarted

\* What lease.json says is what the abstract launch knows.
LEMMA ChildIs ==
    ASSUME ExecutionInv
    PROVE  /\ lease.child # "running" => child = lease.child
           /\ lease.child = "running" => child \in {"starting", "running"}
           /\ pc \in {"spawn", "reaped", "table"} \cup Unreleased => child = "starting"
           /\ pc \in (Supervised \ {"table"}) \cup LeaderWaited \cup WatchJudged => child = "running"
<1>1. leader = NoPid => pc \in {"idle", "spawn"}
  BY DEF ExecutionInv, Unstarted
<1>2. pc # "idle" => lease.child = "running"
  BY DEF ExecutionInv, LeaseSays
<1> QED
  BY <1>1, <1>2 DEF ExecutionInv, LeaseSays, child, Supervised, LeaderWaited, WatchJudged,
     Unreleased

\* Once the leader was waited for and the watch judged, nothing of the payload lives.
LEMMA Judged ==
    ASSUME ExecutionInv, pc \in WatchJudged \cup {"reaped"}
    PROVE  /\ pc \in WatchJudged => hidden \/ payload \in {"unborn", "gone"}
           /\ pc = "reaped" => payload = "unborn"
<1>1. /\ leader # NoPid /\ (pc = "reaped" => ~ran /\ Payloads = {})
      /\ pc \in WatchJudged => hidden \/ Payloads = {}
  BY PayloadsThere DEF ExecutionInv, Watched, GateSays, WatchJudged, LeaseSays
<1>2. ~HelperLives
  BY PayloadsThere DEF HelperLives, ExecutionInv, HelperWaits
<1> QED
  BY <1>1, <1>2, PayloadIs

LEMMA StillLaunch ==
    ASSUME ExecutionInv, ExecutionInv', Still
    PROVE  Launch!Next \/ UNCHANGED Launch!launchVars
<1>1. payload' = payload /\ hidden' = hidden
  BY StillStep DEF payload, PayloadLives
<1>2. ASSUME lease' = lease PROVE child' = child
  BY <1>2 DEF child
<1>3. CASE UNCHANGED lease
  BY <1>1, <1>2, <1>3 DEF Launch!launchVars
<1>4. CASE BeginExecute
  <2>1. child = "uncertain" /\ pc' = "spawn"
    BY <1>4, ChildIs DEF BeginExecute, Goto
  <2>2. child' = "starting"
    BY <1>4 DEF BeginExecute, Record, child
  <2> QED
    BY <1>1, <2>1, <2>2 DEF Launch!Next, Launch!Start, Launch!Move
<1>5. CASE SpawnRefused
  <2>1. pc = "spawn" /\ leader = NoPid
    BY <1>5 DEF SpawnRefused, At, ExecutionInv, Unstarted
  <2>2. child = "starting" /\ payload = "none"
    BY <2>1, ChildIs, PayloadIs
  <2>3. child' = "uncertain"
    BY <1>5 DEF SpawnRefused, Record, child
  <2> QED
    BY <1>1, <2>2, <2>3 DEF Launch!Next, Launch!NoChild, Launch!Move
<1>6. Retain => child' = "supervision-uncertain"
  BY DEF Retain, Release, Return, Record, child
<1>7. CASE NeverStarted
  <2>1. child = "starting" /\ payload = "unborn"
    BY <1>7, ChildIs, Judged DEF NeverStarted, At
  <2>2. Release("spawn-failed") => child' = "spawn-failed"
    BY DEF Release, Record, child
  <2>3. child' = "spawn-failed" \/ child' = "supervision-uncertain"
    BY <1>6, <1>7, <2>2 DEF NeverStarted
  <2> QED
    BY <1>1, <2>1, <2>3 DEF Launch!Next, Launch!SpawnFailed, Launch!Retain, Launch!Move
<1>8. CASE FirstTable
  <2>1. child = "starting" /\ leader # NoPid
    BY <1>8, ChildIs DEF FirstTable, At, ExecutionInv, LeaseSays, Supervised
  <2>2. child' = "running"
    BY <1>8, <2>1 DEF FirstTable, Record, child
  <2> QED
    BY <1>1, <2>1, <2>2 DEF Launch!Next, Launch!Record, Launch!Move
<1>9. CASE JudgeWatch /\ lease' # lease
  <2>1. child = "running"
    BY <1>9, ChildIs DEF JudgeWatch, At, LeaderWaited
  <2>2. Retain
    BY <1>9 DEF JudgeWatch
  <2> QED
    BY <1>1, <1>6, <2>1, <2>2 DEF Launch!Next, Launch!Retain, Launch!Move
<1>10. CASE (JudgeTracked \/ JudgeAfterSweep) /\ lease' # lease
  <2>1. child = "running" /\ (hidden \/ payload \in {"unborn", "gone"})
    BY <1>10, ChildIs, Judged DEF JudgeTracked, JudgeAfterSweep, At, WatchJudged
  <2>2. Release(Outcome) => child' \in {"exited", "timeout"}
    BY DEF Release, Record, child, Outcome
  <2>3. Retain \/ Release(Outcome)
    BY <1>10 DEF JudgeTracked, JudgeAfterSweep
  <2> QED
    BY <1>1, <1>6, <2>1, <2>2, <2>3 DEF Launch!Next, Launch!Retain, Launch!Finish, Launch!Move
<1>11. Still => \/ UNCHANGED lease \/ BeginExecute \/ SpawnRefused \/ NeverStarted \/ FirstTable
               \/ JudgeWatch \/ JudgeTracked \/ JudgeAfterSweep
  BY DEF Still, ArmPayloadWatch, ReleasePayload, AbortPayload, Watch, Scan, CouldNotStop,
     DisableSubreaper, Deadline, executionVars
<1> QED
  BY <1>3, <1>4, <1>5, <1>7, <1>8, <1>9, <1>10, <1>11

LEMMA DyingLaunch ==
    ASSUME ExecutionInv, ExecutionInv', Dying
    PROVE  Launch!Next \/ UNCHANGED Launch!launchVars
<1>1. PICK D, heir : heir \in {Holder, InitProc} /\ Deaths(D, heir)
  BY DyingStep DEF ExecutionInv
<1>2. /\ Payloads' = Payloads \ D /\ leader' = leader /\ ran' = ran /\ hidden' = hidden
      /\ Alive' \subseteq Alive /\ \A p \in Alive' : proc'[p].kind = proc[p].kind
  BY <1>1, PayloadsNext, DyingSays DEF Deaths, Dwindles, Alive
<1>3. HelperLives' => HelperLives
  BY <1>2 DEF HelperLives
<1>4. CASE UNCHANGED lease
  <2>1. child' = child
    BY <1>4 DEF child
  <2>2. CASE leader = NoPid
    <3>1. payload = "none" /\ payload' = "none"
      BY <1>2, <2>2, PayloadIs DEF payload
    <3> QED
      BY <1>2, <2>1, <3>1 DEF Launch!launchVars
  <2>3. CASE leader # NoPid /\ Payloads # {}
    <3>1. payload = "running" /\ ran
      BY <2>3, PayloadIs, PayloadsThere
    <3>2. payload' \in {"running", "gone"}
      BY <1>2, <2>3, <3>1 DEF payload, PayloadLives, Payloads
    <3> QED
      BY <1>2, <2>1, <3>1, <3>2 DEF Launch!launchVars, Launch!Next, Launch!End, Launch!Payload
  <2>4. CASE leader # NoPid /\ Payloads = {}
    <3>1. ~PayloadLives /\ ~PayloadLives'
      BY <1>2, <2>4 DEF PayloadLives, Payloads
    <3>2. payload' = payload \/ (payload = "waiting" /\ payload' = "unborn")
      BY <1>2, <1>3, <2>4, <3>1 DEF payload, HelperLives
    <3> QED
      BY <1>2, <2>1, <3>2 DEF Launch!launchVars, Launch!Next, Launch!Quit, Launch!Payload
  <2> QED
    BY <2>2, <2>3, <2>4
<1>5. CASE ReapUnreleased /\ lease' # lease
  <2>1. pc = "reap" /\ leader \in Alive /\ Retain /\ proc'[leader].live
    BY <1>5 DEF ReapUnreleased, At
  <2>2. child = "starting" /\ ~ran /\ Payloads = {}
    BY <2>1, ChildIs, PayloadsThere DEF Unreleased, ExecutionInv, GateSays
  <2>3. pc' = "idle" /\ child' = "supervision-uncertain"
    BY <2>1 DEF Retain, Release, Return, Record, Goto, child
  <2>4. leader \in Used /\ proc[leader].parent = Holder
    BY <2>1 DEF ExecutionInv, LeaderThere, Unreleased
  <2>5. leader \in Used'
    <3>1. ~ExecutorDies
      BY <1>5 DEF ExecutorDies
    <3> QED
      BY <1>1, <2>3, <2>4, <3>1, PayloadsThere DEF Deaths
  <2>6. leader \in Alive'
    BY <1>2, <2>1, <2>5 DEF Alive
  <2>7. payload' = payload
    BY <1>2, <2>1, <2>2, <2>6 DEF payload, PayloadLives, Payloads
  <2> QED
    BY <1>2, <2>2, <2>3, <2>7 DEF Launch!Next, Launch!Retain, Launch!Move
<1>6. UNCHANGED lease \/ ReapUnreleased
  BY DEF Dying, LeaderEnded, Terminate, Stopped, Kill, Sweep, Exit, WaitChild, ExecutorDies
<1> QED
  BY <1>4, <1>5, <1>6

LEMMA BirthLaunch ==
    ASSUME ExecutionInv, ExecutionInv', Birth
    PROVE  Launch!Next \/ UNCHANGED Launch!launchVars
<1>1. PICK q, parent, kind : Births(q, parent, kind)
  BY BirthStep DEF ExecutionInv
<1>2. child' = child
  BY DEF Birth, SpawnDropped, ForkChild, Foreign, child
<1>3. CASE kind = "helper"
  <2>1. /\ leader' = q /\ pc = "spawn" /\ leader = NoPid /\ ran' = ran /\ hidden' = hidden
    BY <1>1, <1>3 DEF Births, SpawnDropped, At, ExecutionInv, Unstarted
  <2>2. Payloads' = {} /\ q \in Alive' /\ proc'[q].kind = "helper" /\ q # NoPid
    BY <1>1, <1>3, <2>1, PayloadsNext, PayloadIs, ExecutionAssumption DEF Births
  <2>3. payload = "none" /\ ~ran /\ child = "starting"
    BY <2>1, PayloadIs, ChildIs
  <2>4. payload' = "waiting"
    BY <2>1, <2>2, <2>3 DEF payload, PayloadLives, Payloads
  <2> QED
    BY <1>2, <2>1, <2>3, <2>4 DEF Launch!Next, Launch!Spawn, Launch!Payload
<1>4. CASE kind = "payload"
  <2>1. PayloadLives /\ leader' = leader
    BY <1>1, <1>4 DEF Births, ForkChild, PayloadLives
  <2>2. PayloadLives'
    BY <1>1, <1>4 DEF Births, PayloadLives
  <2>3. payload' = payload
    BY <2>1, <2>2 DEF payload
  <2>4. payload = "running" /\ hidden' \in {hidden, TRUE}
    <3>1. leader # NoPid
      BY <2>1, PayloadIs
    <3>2. hidden' = (hidden \/ q \in mem.baseline \ {leader})
      BY <1>1, <1>4, Zenon DEF Births
    <3>3. hidden \in BOOLEAN
      BY DEF ExecutionInv, ExecutionTyped
    <3>4. hidden' \in {hidden, TRUE}
      BY <3>2, <3>3, Zenon
    <3> QED
      BY <2>1, <3>1, <3>4 DEF payload
  <2> QED
    BY <1>2, <2>3, <2>4 DEF Launch!launchVars, Launch!Next, Launch!Hide
<1>5. CASE kind = "foreign"
  <2>1. leader' = leader /\ ran' = ran /\ hidden' = hidden
    BY <1>1, <1>5 DEF Births, Foreign
  <2>2. PayloadLives' <=> PayloadLives
    BY <1>1, <1>5 DEF Births, PayloadLives, Alive
  <2>3. (leader \in Alive /\ proc[leader].kind = "helper")' <=>
            leader \in Alive /\ proc[leader].kind = "helper"
    BY <1>1, <1>5, <2>1 DEF Births, Alive
  <2>4. payload' = payload
    BY <2>1, <2>2, <2>3 DEF payload
  <2> QED
    BY <1>2, <2>1, <2>4 DEF Launch!launchVars
<1> QED
  BY <1>1, <1>3, <1>4, <1>5 DEF Births

LEMMA ChangeLaunch ==
    ASSUME ExecutionInv, ExecutionInv', Change
    PROVE  Launch!Next \/ UNCHANGED Launch!launchVars
<1>1. PICK p : Changes(p)
  BY ChangeStep DEF ExecutionInv
<1>2. child' = child /\ leader' = leader /\ hidden' = hidden
  BY DEF Change, Exec, SetSid, child
<1>3. PayloadLives'
  BY <1>1 DEF Changes, Alters, PayloadLives
<1>4. CASE proc[p].kind = "helper"
  <2>1. p = leader /\ gate = "go" /\ HelperLives /\ p \in Used
    BY <1>1, <1>4 DEF Changes, Exec, HelperLives, Alive
  <2>2. /\ Payloads = {} /\ ~ran /\ lease.child = "running" /\ leader # NoPid
    BY <1>4, <2>1, PayloadsThere, ExecutionAssumption DEF ExecutionInv, HelperWaits
  <2>3. payload = "waiting" /\ payload' = "running"
    BY <1>2, <1>3, <2>1, <2>2, PayloadIs DEF payload
  <2> QED
    BY <1>2, <2>2, <2>3, ChildIs DEF Launch!Next, Launch!Go, Launch!Payload
<1>5. CASE proc[p].kind = "payload"
  <2>1. PayloadLives
    BY <1>1, <1>5 DEF Changes, PayloadLives
  <2>2. payload' = payload
    BY <1>2, <1>3, <2>1 DEF payload
  <2> QED
    BY <1>2, <2>2 DEF Launch!launchVars
<1> QED
  BY <1>1, <1>4, <1>5 DEF Changes

\* For any number of processes, on either platform, and whenever the table cannot be
\* listed: execute gives up the lease only when nothing of the payload is alive or a
\* descendant was given a pid of the watch's baseline (3514 to 3518, 3623), never takes
\* a payload that ran for one that was not launched, and what it was not sure of stays
\* held (execute, lines 2733 to 2990).  It presumes that the start stamp of a child
\* that was listed can be read: _reparented_still_alive (3628 to 3633) passes over one
\* whose stamp cannot.
THEOREM ExecuteTheorem ==
    ASSUME "token" \notin Failing
    PROVE  ExecutionSpec => ImplementsLaunch
<1>1. ExecutionInit => Launch!Init
  BY DEF ExecutionInit, Launch!Init, child, payload
<1>2. ExecutionInv /\ ExecutionInv' /\ [ExecutionNext]_executionVars
          => [Launch!Next]_(Launch!launchVars)
  BY StillLaunch, DyingLaunch, BirthLaunch, ChangeLaunch, Kindly
<1>3. ExecutionSpec => []ExecutionInv
  BY ExecutionInvariant
<1> QED
  BY <1>1, <1>2, <1>3, PTL DEF ExecutionSpec, ImplementsLaunch, Launch!Spec

=============================================================================
