---------------------------- MODULE HolderRecords ----------------------------
(***************************************************************************)
(* The records the execution holder keeps: meta, callers, enrollment,      *)
(* policy, devices, the keys its OS boundary returned, spent challenges    *)
(* and the phone receipt, each a file of its own.                          *)
(*                                                                         *)
(* An operation is one action under .holder.op.lock: it checks, and fixes  *)
(* the sequence of files it will replace (todo).  Each file is replaced    *)
(* atomically by a Write, and the daemon may die between two of them; a    *)
(* restart keeps the files and loses the challenges and the session.       *)
(* Cryptography is what it decides: a key signs for its role while the     *)
(* device record that names it is there and not revoked.                   *)
(***************************************************************************)
EXTENDS Naturals, Sequences

CONSTANTS
    Callers, Keys,
    MaxGen,      \* bound of the policy generation
    MaxSerial,   \* bound of the challenges and sessions
    None

Roles == {"mac", "phone"}
Policies == {"local", "companion", "dual"}

\* The records in meta, policy, devices and boundary.
Metas == [generation : Nat]
PolicyRecords == [name : Policies, generation : Nat]
Devices == [key : Keys, id : Nat, generation : Nat, revoked : BOOLEAN]
Boundaries == [id : Nat, key : Keys, generation : Nat]

ASSUME RecordsAssumption ==
    /\ MaxGen \in Nat \ {0}
    /\ MaxSerial \in Nat
    /\ None \notin Callers \cup Keys
    /\ None \notin Metas \cup PolicyRecords \cup Devices
    /\ \A known \in SUBSET Callers : known # None

VARIABLES
    disk,        \* the files
    todo,        \* writes of the running operation that are still to come
    op,          \* the operation they belong to
    installed,   \* installed_protection
    challenge,   \* _pending_device_challenges, in memory
    session,     \* an enrollment waiting for its user, in memory
    serial,      \* the last nonce or boundary id given out
    whole,       \* history: the boundary ids that reached both of their files
    torn,        \* history: the daemon died inside init or set_policy
    regained     \* history: the roles not revoked since the session began

vars == <<disk, todo, op, installed, challenge, session, serial, whole, torn, regained>>

RolesOf == [local |-> {"mac"}, companion |-> {"phone"}, dual |-> {"mac", "phone"}]
Other(r) == IF r = "mac" THEN "phone" ELSE "mac"

-----------------------------------------------------------------------------
(* Files.                                                                  *)

Files == {"meta", "callers", "spent", "enrollment", "policy", "devices", "boundary",
          "nonces", "receipt"}
NoRoles == [r \in Roles |-> None]
Blank == [meta |-> None, callers |-> None, spent |-> None, enrollment |-> None, policy |-> None,
          devices |-> NoRoles, boundary |-> NoRoles, nonces |-> {}, receipt |-> None]

Put(file, value) == [file |-> file, value |-> value]
DropReceipt == IF disk.receipt = None THEN <<>> ELSE <<Put("receipt", None)>>

generation == disk.meta.generation
\* id is os_boundary_id; 0 for a device that did not come through the boundary.
Device(key, id) == [key |-> key, id |-> id, generation |-> generation, revoked |-> FALSE]
Live(r) == disk.devices[r] # None /\ ~disk.devices[r].revoked
Enrolled(r, d) == [disk.devices EXCEPT ![r] = d]

\* _load: every operation but a challenge read starts with it.
Loads ==
    /\ disk.meta # None
    /\ disk.enrollment # None => disk.spent # None
    /\ disk.policy # None => disk.policy.generation = generation
Ready == todo = <<>> /\ Loads

\* An operation begins: what it will write, in order.
Begin(name, writes) ==
    /\ todo' = writes /\ op' = name
    /\ UNCHANGED <<disk, installed, whole, torn>>

Regain(roles) == regained' = regained \cup roles

-----------------------------------------------------------------------------
(* Authorizations.                                                         *)

\* mutant: the public key alone is compared
BoundaryKnowsKey(r) == Live(r) /\ disk.boundary[r] # None /\ disk.devices[r].key = disk.boundary[r].key
\* _os_boundary_authorizes: the two files tell of the same enrollment.
BoundaryAuthorizes(r) ==
    LET d == disk.devices[r]
        b == disk.boundary[r]
    IN  /\ Live(r) /\ b # None
        /\ d.id = b.id /\ d.key = b.key /\ d.generation = b.generation

\* _human with device signatures.  Under installed protection each signing key
\* must be an authorized one that is not marked not_hardware, and all are.
NotHardware(r) == TRUE
SignsFor(r) == Live(r) /\ (installed => BoundaryAuthorizes(r) /\ ~NotHardware(r))
Human(policy) == \A r \in RolesOf[policy] : SignsFor(r)
\* The policy a change of the devices must be authorized under.
ActivePolicy == IF disk.policy = None THEN None ELSE disk.policy.name
MutationPolicy(destination) ==
    IF ActivePolicy = None \/ RolesOf[ActivePolicy] \subseteq RolesOf[destination]
    THEN destination ELSE ActivePolicy
HumanNow == ActivePolicy # None /\ Human(ActivePolicy)
RequireEnrollment == disk.enrollment # None

-----------------------------------------------------------------------------
(* Callers, policy.                                                        *)

\* A directory without meta.json and without history is a new holder.
HasHistory == \/ disk.enrollment # None \/ disk.policy # None \/ disk.spent # None
              \/ disk.devices # NoRoles
Start ==
    /\ todo = <<>> /\ disk.meta = None /\ ~HasHistory
    /\ Begin("init", <<Put("meta", [generation |-> 1]), Put("callers", {}),
                       Put("devices", NoRoles), Put("spent", {})>>)
    /\ UNCHANGED <<challenge, session, serial, regained>>

\* By the bootstrap secret or by the devices.
Enroll(c) ==
    /\ Ready /\ disk.callers # None /\ c \notin disk.callers
    /\ Begin("enroll", <<Put("callers", disk.callers \cup {c}), Put("enrollment", c)>>)
    /\ UNCHANGED <<challenge, session, serial, regained>>

\* Dropping a factor needs the current policy, adding one the destination.
SetPolicy(policy) ==
    /\ Ready /\ RequireEnrollment /\ generation < MaxGen
    /\ Human(MutationPolicy(policy))
    /\ Begin("policy",
             <<Put("policy", [name |-> policy, generation |-> generation + 1]),
               Put("meta", [generation |-> generation + 1])>> \o DropReceipt)
    /\ UNCHANGED <<challenge, session, serial, regained>>

\* The secret and its key generation change (module HolderRuns); here, the receipt goes.
RotateCaller ==
    /\ Ready /\ RequireEnrollment /\ \E policy \in Policies : Human(policy)
    /\ disk.callers # None /\ disk.enrollment \in disk.callers
    /\ Begin("rotate", <<Put("callers", disk.callers), Put("meta", disk.meta)>> \o DropReceipt)
    /\ UNCHANGED <<challenge, session, serial, regained>>

-----------------------------------------------------------------------------
(* Devices.                                                                *)

\* By the bootstrap secret or by the devices; a revoked device may be paired again.
PairDevice(r, key) ==
    /\ Ready /\ RequireEnrollment /\ ~Live(r)
    /\ Begin("pair", <<Put("devices", Enrolled(r, Device(key, 0)))>>)
    /\ Regain({r})
    /\ UNCHANGED <<challenge, session, serial>>

\* The fingerprint is replaced, the key stays.
ReplaceDeviceKey(r) ==
    /\ Ready /\ RequireEnrollment /\ HumanNow /\ Live(r)
    /\ Begin("replace", <<Put("devices", disk.devices)>> \o DropReceipt)
    /\ UNCHANGED <<challenge, session, serial, regained>>

\* mutant: the generation rises in meta.json, and the policy record stays behind
RevokeRaises(r) ==
    /\ Ready /\ RequireEnrollment /\ HumanNow /\ disk.devices[r] # None
    /\ Begin("revoke", <<Put("devices", [disk.devices EXCEPT ![r].revoked = TRUE]),
                         Put("meta", [generation |-> generation + 1])>>)
    /\ UNCHANGED <<challenge, session, serial, regained>>
RevokeDevice(r) ==
    /\ Ready /\ RequireEnrollment /\ HumanNow /\ disk.devices[r] # None
    /\ Begin("revoke",
             <<Put("devices", [disk.devices EXCEPT ![r].revoked = TRUE])>> \o DropReceipt)
    /\ regained' = IF session = None THEN Roles ELSE regained \ {r}
    /\ UNCHANGED <<challenge, session, serial>>

\* begin_human_secure_enclave_enrollment and begin_human_operated_native_adapter.
AdapterEnroll(policy, key) ==
    /\ Ready /\ ~installed
    /\ Begin("adapter",
             <<Put("devices", [r \in Roles |-> IF r \in RolesOf[policy]
                                               THEN Device(key[r], 0)
                                               ELSE disk.devices[r]])>>)
    /\ Regain(RolesOf[policy])
    /\ UNCHANGED <<challenge, session, serial>>

\* One bound challenge per role; a second one takes the place of the first.
IssueChallenge(r) ==
    /\ Ready /\ serial < MaxSerial
    /\ serial' = serial + 1
    /\ challenge' = [challenge EXCEPT ![r] = [nonce |-> serial + 1, generation |-> generation]]
    /\ UNCHANGED <<disk, todo, op, installed, session, whole, torn, regained>>

\* Cancelled, or expired and never to be accepted.
CancelChallenge(r) ==
    /\ Ready /\ challenge[r] # None
    /\ challenge' = [challenge EXCEPT ![r] = None]
    /\ UNCHANGED <<disk, todo, op, installed, session, serial, whole, torn, regained>>

\* The challenge is spent before the key is looked at: a local key that calls
\* itself a phone, and installed protection, refuse after that.
SubmitSignature(r, key) ==
    LET c == challenge[r]
        id == c.nonce
        spend == <<Put("nonces", disk.nonces \cup {c.nonce})>>
        refused == \/ disk.devices[Other(r)] # None /\ disk.devices[Other(r)].key = key
                   \/ installed
        store == <<Put("devices", Enrolled(r, Device(key, id))),
                   Put("boundary", [disk.boundary EXCEPT ![r] =
                       [id |-> id, key |-> key, generation |-> generation]])>>
        receipt == IF r = "mac" THEN DropReceipt
                   ELSE <<Put("receipt", [nonce |-> c.nonce, generation |-> generation,
                                          key |-> key, sealed |-> FALSE])>>
    IN  /\ Ready /\ c # None /\ c.generation = generation /\ c.nonce \notin disk.nonces
        /\ challenge' = [challenge EXCEPT ![r] = None]
        /\ Begin("submit", IF refused THEN spend ELSE spend \o store \o receipt)
        /\ Regain(IF refused THEN {} ELSE {r})
        /\ UNCHANGED <<session, serial>>

\* The receipt is rebuilt from the records; any that has changed refuses it.
ReceiptStands ==
    /\ disk.receipt # None /\ disk.receipt.generation = generation
    /\ disk.receipt.nonce \in disk.nonces
    /\ Live("mac") /\ Live("phone")
    /\ disk.devices["phone"].key = disk.receipt.key
SealReceipt ==
    /\ Ready /\ ReceiptStands /\ ~disk.receipt.sealed
    /\ Begin("seal", <<Put("receipt", [disk.receipt EXCEPT !.sealed = TRUE])>>)
    /\ UNCHANGED <<challenge, session, serial, regained>>

\* enroll_user_invoked_secure_enclave: the generation is read, the keys are made,
\* and the user is waited for without the lock.
BeginSession(policy, key) ==
    /\ Ready /\ session = None /\ serial < MaxSerial
    /\ policy = "dual" => key["mac"] # key["phone"]
    /\ policy = "companion" => ~(disk.devices["mac"] # None /\ disk.devices["mac"].key = key["phone"])
    /\ serial' = serial + 1
    /\ session' = [policy |-> policy, key |-> key, id |-> serial + 1, started |-> generation]
    /\ UNCHANGED <<disk, todo, op, installed, challenge, whole, torn, regained>>

\* accept_native_ipc: the generation and the revocations are read again.
SameGeneration(s) == generation = s.started  \* mutant
Unchanged(s) ==
    /\ generation = s.started
    /\ \A r \in RolesOf[s.policy] : disk.devices[r] # None => ~disk.devices[r].revoked
AcceptSession ==
    LET roles == RolesOf[session.policy]
        entry(r) == [id |-> session.id, key |-> session.key[r], generation |-> generation]
    IN  /\ Ready /\ session # None
        /\ IF Unchanged(session) /\ ~installed
           THEN Begin("session",
                      <<Put("devices", [r \in Roles |->
                            IF r \in roles THEN Device(session.key[r], session.id)
                            ELSE disk.devices[r]]),
                        Put("boundary", [r \in Roles |-> IF r \in roles THEN entry(r) ELSE None])>>)
           ELSE UNCHANGED <<disk, todo, op, installed, whole, torn>>
        /\ session' = None /\ regained' = Roles
        /\ UNCHANGED <<challenge, serial>>

-----------------------------------------------------------------------------
(* Disk and daemon.                                                        *)

\* A boundary id is whole once both of its files have been written.
Write ==
    /\ todo # <<>>
    /\ disk' = [disk EXCEPT ![Head(todo).file] = Head(todo).value]
    /\ todo' = Tail(todo)
    /\ op' = IF todo' = <<>> THEN None ELSE op
    /\ whole' = IF Head(todo).file = "boundary"
                THEN whole \cup {b.id : b \in {Head(todo).value[r] : r \in Roles} \ {None}}
                ELSE whole
    /\ UNCHANGED <<installed, challenge, session, serial, torn, regained>>

DaemonDies ==
    /\ todo # <<>> \/ session # None \/ challenge # NoRoles
    /\ torn' = (torn \/ op \in {"init", "policy"})
    /\ todo' = <<>> /\ op' = None /\ session' = None /\ challenge' = NoRoles
    /\ regained' = Roles
    /\ UNCHANGED <<disk, installed, serial, whole>>

Init ==
    /\ disk = Blank /\ todo = <<>> /\ op = None /\ installed \in BOOLEAN
    /\ challenge = NoRoles /\ session = None /\ serial = 0
    /\ whole = {} /\ torn = FALSE /\ regained = Roles

KeyChoices(policy) == [RolesOf[policy] -> Keys]
Operation ==
    \/ Start \/ RotateCaller \/ SealReceipt \/ AcceptSession
    \/ \E c \in Callers : Enroll(c)
    \/ \E p \in Policies : SetPolicy(p)
    \/ \E r \in Roles : RevokeDevice(r) \/ ReplaceDeviceKey(r) \/ IssueChallenge(r) \/ CancelChallenge(r)
    \/ \E r \in Roles, k \in Keys : PairDevice(r, k) \/ SubmitSignature(r, k)
    \/ \E p \in Policies : \E key \in KeyChoices(p) : AdapterEnroll(p, key) \/ BeginSession(p, key)

Next == Operation \/ Write \/ DaemonDies

Spec == Init /\ [][Next]_vars

-----------------------------------------------------------------------------
(* What it promises.                                                       *)

\* Types of the files, of the writes to come and of what is kept in memory.
Challenges == [nonce : Nat, generation : Nat]
PhoneReceipts == [nonce : Nat, generation : Nat, key : Keys, sealed : BOOLEAN]
Writes ==
    [file : {"meta"}, value : Metas]
    \cup [file : {"callers"}, value : SUBSET Callers]
    \cup [file : {"spent"}, value : {{}}]
    \cup [file : {"enrollment"}, value : Callers]
    \cup [file : {"policy"}, value : PolicyRecords]
    \cup [file : {"devices"}, value : [Roles -> Devices \cup {None}]]
    \cup [file : {"boundary"}, value : [Roles -> Boundaries \cup {None}]]
    \cup [file : {"nonces"}, value : SUBSET Nat]
    \cup [file : {"receipt"}, value : PhoneReceipts \cup {None}]
TypeOK ==
    /\ disk = [f \in Files |-> disk[f]]
    /\ disk.meta \in Metas \cup {None}
    /\ disk.callers \in {None} \cup SUBSET Callers
    /\ disk.spent \in {{}, None}
    /\ disk.enrollment \in Callers \cup {None}
    /\ disk.policy \in PolicyRecords \cup {None}
    /\ disk.devices \in [Roles -> Devices \cup {None}]
    /\ disk.boundary \in [Roles -> Boundaries \cup {None}]
    /\ disk.nonces \in SUBSET Nat
    /\ disk.receipt \in PhoneReceipts \cup {None}
    /\ todo \in Seq(Writes)
    /\ installed \in BOOLEAN /\ torn \in BOOLEAN
    /\ challenge \in [Roles -> Challenges \cup {None}]
    /\ session # None =>
          /\ session.policy \in Policies
          /\ \A r \in RolesOf[session.policy] : session.key[r] \in Keys
          /\ session.id \in Nat /\ session.started \in Nat
    /\ serial \in Nat /\ whole \subseteq Nat /\ regained \subseteq Roles

\* Of all operations only a death inside the creation of the holder, or between
\* policy.json and meta.json, leaves records that every later operation refuses
\* (__init__ 214 to 230, _set_policy_locked 2080 to 2092, _load).
LockedOut ==
    /\ todo = <<>> /\ disk.meta # None
    /\ \/ ~Loads
       \/ disk.callers = None
       \/ disk.spent = None
LockedOutOnlyWhenTorn == LockedOut => torn

\* A key is authorized by the OS boundary only if the enrollment that brought it
\* reached both of its files (devices.json and os-boundary.json, 878 to 887 and
\* 1534 to 1538): a half written one never is.  Under installed protection nothing
\* that was paired authorizes: no policy, rotation or boundary key was ever accepted
\* (_require_installed_production_boundary, production_enrollment_refusal).
BoundaryIsWhole ==
    /\ \A r \in Roles : BoundaryAuthorizes(r) => disk.devices[r].id \in whole
    /\ installed => /\ disk.policy = None /\ disk.boundary = NoRoles /\ disk.receipt = None
                    /\ \A r \in Roles : disk.devices[r] # None =>
                           disk.devices[r].id = 0 /\ ~disk.devices[r].revoked

\* "A change during the wait fails closed and does not store the key": a session
\* stores keys only under the generation it started in, and never over a device
\* revoked since, unless that device was enrolled again meanwhile (439 to 441).
WaitFailsClosed ==
    [][ session # None /\ session' = None /\ todo' # <<>> =>
            /\ session.started = disk.meta.generation
            /\ RolesOf[session.policy] \subseteq regained ]_vars
=============================================================================
