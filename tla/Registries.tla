----------------------------- MODULE Registries -----------------------------
(***************************************************************************)
(* The registers a workspace keeps beside its runs: the usage ledger        *)
(* (usage.py), the decisions (decisions.py), the configuration bundle in    *)
(* force with its backups (configsync.py) and the snapshots (snapshot.py).  *)
(* Clerks are commands; two may run at once and each may be killed between  *)
(* two steps.  Only an import holds the workspace lease.  A file written    *)
(* with atomic_write_json appears in one step; an archive and a backup are  *)
(* opened, which truncates them, and written.  One decision id and one      *)
(* snapshot id stand for all, and a digest for the content it names.        *)
(***************************************************************************)
EXTENDS Naturals, FiniteSets

CONSTANTS
    Clerks,
    UsageKeys,      \* import keys of usage events
    MaxCommands,    \* commands begun in a behaviour
    MaxSeconds,     \* seconds that pass; a backup is named by its second
    MaxTreeEdits    \* edits of the source tree

VARIABLES
    work,       \* what each clerk is doing
    begun,      \* commands begun; a command's number names what it writes
    leaseOf,    \* the clerk that holds the workspace lease
    ledger,     \* usage/ledger.json: how often each key is counted, or Missing
    decision,   \* decisions/<id>.json
    active,     \* config/active_bundle.json
    backups,    \* config/backups/, by the second in the name
    exported,   \* the bundle exported last
    second, tree,
    archive, record, \* snapshots/<id>/
    imported,   \* history: keys of imports that answered
    captured,   \* history: decisions whose capture answered
    applied,    \* history: what each apply answered it had backed up, and where
    restored,   \* history: what each restore that answered extracted
    captureRaced, \* history: two captures overlapped
    contested   \* history: seconds whose backup another apply may have disturbed

usageVars == <<ledger, imported>>
decisionVars == <<decision, captured, captureRaced>>
configVars == <<active, backups, exported, applied, contested, second>>
snapVars == <<tree, archive, record, restored>>
regVars == <<work, begun, leaseOf, usageVars, decisionVars, configVars, snapVars>>

Missing == [of |-> 0]
CutShort == [of |-> MaxCommands + 1]
NoClerk == "none"
\* A clerk has a name, and backups a first second.
ASSUME RegistriesAssumption ==
    /\ NoClerk \notin Clerks
    /\ MaxCommands \in Nat /\ MaxSeconds \in Nat \ {0}

Resting == [at |-> "rest"]
Uncounted == [k \in UsageKeys |-> 0]

Does(p, step) == work[p].at = step
ClerkDoes(p, next) == work' = [work EXCEPT ![p] = next]
Rests(p) == ClerkDoes(p, Resting)
Begins(p, next) == Does(p, "rest") /\ begun < MaxCommands /\ begun' = begun + 1 /\ ClerkDoes(p, next)
Others(p, steps) == \E q \in Clerks \ {p} : work[q].at \in steps

-----------------------------------------------------------------------------
(* The usage ledger: one import under the lease.                           *)

\* Mutant: an import does not wait for the lease.
NoLeaseNeeded(p) == leaseOf' = leaseOf
LeaseTaken(p) == leaseOf = NoClerk /\ leaseOf' = p
LeaseFreed(p) == leaseOf' = IF leaseOf = p THEN NoClerk ELSE leaseOf

\* An export that parses is the keys of its events.
Exports == SUBSET UsageKeys
LoadedLedger == IF ledger = Missing THEN Uncounted ELSE ledger.count
\* Known keys grow as the export is read: a key counts once.
Counted(count, keys) == [k \in UsageKeys |-> IF k \in keys /\ count[k] = 0 THEN 1 ELSE count[k]]
LedgerOf(n, count) == [of |-> n, count |-> count]

ImportBegin(p, keys) ==
    /\ Begins(p, [at |-> "import", keys |-> keys, n |-> begun + 1]) /\ LeaseTaken(p)
    /\ UNCHANGED <<usageVars, decisionVars, configVars, snapVars>>

ImportLoad(p) ==
    /\ Does(p, "import")
    /\ ClerkDoes(p, [at |-> "import_check", keys |-> work[p].keys, n |-> work[p].n, prior |-> ledger,
                count |-> Counted(LoadedLedger, work[p].keys)])
    /\ UNCHANGED <<begun, leaseOf, usageVars, decisionVars, configVars, snapVars>>

\* The ledger is read again; the write is refused when its digest moved.
ImportCheck(p) ==
    /\ Does(p, "import_check")
    /\ IF ledger = work[p].prior
       THEN ClerkDoes(p, [work[p] EXCEPT !.at = "import_write"]) /\ UNCHANGED leaseOf
       ELSE Rests(p) /\ LeaseFreed(p)
    /\ UNCHANGED <<begun, usageVars, decisionVars, configVars, snapVars>>

ImportWrite(p) ==
    /\ Does(p, "import_write") /\ Rests(p) /\ LeaseFreed(p)
    /\ ledger' = LedgerOf(work[p].n, work[p].count)
    /\ imported' = imported \cup work[p].keys
    /\ UNCHANGED <<begun, decisionVars, configVars, snapVars>>

-----------------------------------------------------------------------------
(* Decisions: a capture checks that the file is not there, then writes it. *)

Capturable == decision = Missing

CaptureCheck(p) ==
    /\ Capturable
    /\ Begins(p, [at |-> "capture", decision |-> [of |-> begun + 1]])
    /\ captureRaced' = (captureRaced \/ Others(p, {"capture"}))
    /\ UNCHANGED <<leaseOf, decision, captured, usageVars, configVars, snapVars>>

CaptureWrite(p) ==
    /\ Does(p, "capture") /\ Rests(p)
    /\ decision' = work[p].decision /\ captured' = captured \cup {decision'}
    /\ UNCHANGED <<begun, leaseOf, captureRaced, usageVars, configVars, snapVars>>

-----------------------------------------------------------------------------
(* Configuration: the bundle in force is copied to a backup named by the   *)
(* second and replaced by the incoming one without its secret keys.        *)

Sanitized(bundle) == [bundle EXCEPT !.secret = FALSE]
WholeBackups == {s \in 1..MaxSeconds : "secret" \in DOMAIN backups[s]}
Overwritten(s) == backups[s] # Missing

ApplyBegin(p, secret) ==
    /\ Begins(p, [at |-> "apply", bundle |-> [of |-> begun + 1, secret |-> secret]])
    /\ UNCHANGED <<leaseOf, usageVars, decisionVars, configVars, snapVars>>

RollbackBegin(p) ==
    /\ \E s \in WholeBackups : Begins(p, [at |-> "apply", bundle |-> backups[s]])
    /\ UNCHANGED <<leaseOf, usageVars, decisionVars, configVars, snapVars>>

\* The stamp is taken and the backup opened, if there is a bundle to keep.
ApplyBackup(p) ==
    /\ Does(p, "apply")
    /\ IF active = Missing
       THEN /\ ClerkDoes(p, [at |-> "apply_write", bundle |-> work[p].bundle, stamp |-> 0])
            /\ UNCHANGED <<backups, contested>>
       ELSE /\ ClerkDoes(p, [at |-> "apply_copy", bundle |-> work[p].bundle, stamp |-> second,
                        kept |-> active])
            /\ backups' = [backups EXCEPT ![second] = CutShort]
            /\ contested' = IF Overwritten(second) THEN contested \cup {second} ELSE contested
    /\ UNCHANGED <<begun, leaseOf, active, exported, second, applied, usageVars, decisionVars,
                   snapVars>>

Kept(p) == work[p].kept

ApplyCopy(p) ==
    /\ Does(p, "apply_copy")
    /\ backups' = [backups EXCEPT ![work[p].stamp] = Kept(p)]
    /\ ClerkDoes(p, [at |-> "apply_write", bundle |-> work[p].bundle, stamp |-> work[p].stamp])
    /\ UNCHANGED <<begun, leaseOf, active, exported, second, applied, contested, usageVars,
                   decisionVars, snapVars>>

\* Another apply that has kept its bundle already keeps one it will not replace.
ApplyWrite(p) ==
    /\ Does(p, "apply_write") /\ Rests(p)
    /\ active' = Sanitized(work[p].bundle)
    /\ applied' = IF work[p].stamp = 0 THEN applied
                  ELSE applied \cup {[stamp |-> work[p].stamp, replaced |-> active]}
    /\ contested' = contested \cup {work[q].stamp : q \in {r \in Clerks \ {p} :
                                                   work[r].at \in {"apply_copy", "apply_write"}}}
    /\ UNCHANGED <<begun, leaseOf, backups, exported, second, usageVars, decisionVars, snapVars>>

ExportBundle ==
    /\ active # Missing /\ exported' = Sanitized(active) /\ exported' # exported
    /\ UNCHANGED <<work, begun, leaseOf, active, backups, second, applied, contested, usageVars,
                   decisionVars, snapVars>>

NextSecond ==
    /\ second < MaxSeconds /\ second' = second + 1
    /\ UNCHANGED <<work, begun, leaseOf, active, backups, exported, applied, contested, usageVars,
                   decisionVars, snapVars>>

-----------------------------------------------------------------------------
(* Snapshots: the tree is archived, hashed, the archive digested, and the  *)
(* record written; a restore loads the record, verifies and extracts.      *)

Creating == {"create", "create_hash", "create_digest", "create_record"}
\* A change under a clerk at work: its creates and restores are not alone.
Disturbed(w, steps) == IF w.at \in steps THEN [w EXCEPT !.alone = FALSE] ELSE w
DisturbsOthers(p, next) ==
    work' = [q \in Clerks |-> IF q = p THEN next
                              ELSE Disturbed(work[q], Creating \cup {"restore_extract"})]

CreateBegin(p) ==
    /\ Does(p, "rest") /\ begun < MaxCommands /\ begun' = begun + 1
    /\ DisturbsOthers(p, [at |-> "create", n |-> begun + 1, alone |-> ~Others(p, Creating)])
    /\ archive' = CutShort
    /\ UNCHANGED <<leaseOf, tree, record, restored, usageVars, decisionVars, configVars>>

\* Two creates write one file: what is left is neither archive.
CreateArchive(p) ==
    /\ Does(p, "create")
    /\ archive' = IF Others(p, {"create"}) THEN CutShort ELSE [of |-> work[p].n, tree |-> tree]
    /\ DisturbsOthers(p, [work[p] EXCEPT !.at = "create_hash"])
    /\ UNCHANGED <<begun, leaseOf, tree, record, restored, usageVars, decisionVars, configVars>>

CreateHash(p) ==
    /\ Does(p, "create_hash")
    /\ ClerkDoes(p, [at |-> "create_digest", alone |-> work[p].alone, source |-> tree])
    /\ UNCHANGED <<begun, leaseOf, usageVars, decisionVars, configVars, snapVars>>

CreateDigest(p) ==
    /\ Does(p, "create_digest")
    /\ ClerkDoes(p, [at |-> "create_record", alone |-> work[p].alone,
                record |-> [of |-> archive.of, archive |-> archive, source |-> work[p].source]])
    /\ UNCHANGED <<begun, leaseOf, usageVars, decisionVars, configVars, snapVars>>

CreateRecord(p) ==
    /\ Does(p, "create_record") /\ Rests(p)
    /\ record' = [r |-> work[p].record, alone |-> work[p].alone]
    /\ UNCHANGED <<begun, leaseOf, tree, archive, restored, usageVars, decisionVars, configVars>>

RestoreBegin(p) ==
    /\ record # Missing
    /\ Begins(p, [at |-> "restore", record |-> record])
    /\ UNCHANGED <<leaseOf, usageVars, decisionVars, configVars, snapVars>>

VerifiedArchive(r) == archive = r.archive

RestoreVerify(p) ==
    /\ Does(p, "restore")
    /\ IF VerifiedArchive(work[p].record.r)
       THEN ClerkDoes(p, [at |-> "restore_extract", record |-> work[p].record, alone |-> TRUE])
       ELSE Rests(p)
    /\ UNCHANGED <<begun, leaseOf, usageVars, decisionVars, configVars, snapVars>>

\* The archive is opened again; one that is cut short cannot be extracted.
RestoreExtract(p) ==
    /\ Does(p, "restore_extract") /\ Rests(p)
    /\ restored' = IF archive = CutShort THEN restored
                   ELSE restored \cup {[record |-> work[p].record, got |-> archive,
                                        alone |-> work[p].alone]}
    /\ UNCHANGED <<begun, leaseOf, tree, archive, record, usageVars, decisionVars, configVars>>

EditTree ==
    /\ tree < MaxTreeEdits /\ tree' = tree + 1
    /\ work' = [q \in Clerks |-> Disturbed(work[q], Creating)]
    /\ UNCHANGED <<begun, leaseOf, archive, record, restored, usageVars, decisionVars, configVars>>

-----------------------------------------------------------------------------

\* A clerk is killed: what it wrote stays, the kernel frees the lease.
KillClerk(p) ==
    /\ ~Does(p, "rest") /\ Rests(p) /\ LeaseFreed(p)
    /\ UNCHANGED <<begun, usageVars, decisionVars, configVars, snapVars>>

RegInit ==
    /\ work = [p \in Clerks |-> Resting] /\ begun = 0 /\ leaseOf = NoClerk
    /\ ledger = Missing /\ decision = Missing /\ active = Missing /\ exported = Missing
    /\ backups = [s \in 1..MaxSeconds |-> Missing] /\ second = 1 /\ tree = 0
    /\ archive = Missing /\ record = Missing
    /\ imported = {} /\ captured = {} /\ applied = {} /\ restored = {}
    /\ captureRaced = FALSE /\ contested = {}

RegNext ==
    \/ ExportBundle \/ NextSecond \/ EditTree
    \/ \E p \in Clerks :
        \/ \E keys \in Exports : ImportBegin(p, keys)
        \/ \E secret \in BOOLEAN : ApplyBegin(p, secret)
        \/ ImportLoad(p) \/ ImportCheck(p) \/ ImportWrite(p)
        \/ CaptureCheck(p) \/ CaptureWrite(p)
        \/ RollbackBegin(p) \/ ApplyBackup(p) \/ ApplyCopy(p) \/ ApplyWrite(p)
        \/ CreateBegin(p) \/ CreateArchive(p) \/ CreateHash(p) \/ CreateDigest(p) \/ CreateRecord(p)
        \/ RestoreBegin(p) \/ RestoreVerify(p) \/ RestoreExtract(p)
        \/ KillClerk(p)

RegSpec == RegInit /\ [][RegNext]_regVars

-----------------------------------------------------------------------------
(* What the registers promise.                                             *)

\* What an import answered is in the ledger, every key counted once.
LedgerStands ==
    /\ \A k \in imported : LoadedLedger[k] = 1
    /\ \A k \in UsageKeys : LoadedLedger[k] <= 1

\* A decision whose capture answered is never replaced, unless two captures of
\* its id overlapped: the check and the write take no lock.
DecisionStands == captured \subseteq {decision} \/ captureRaced

\* The backup an apply answered with holds the bundle that apply replaced,
\* unless another apply overlapped it or fell in the same second; and no
\* secret of an incoming bundle is in force, in a backup or exported.
BackupStands ==
    /\ \A a \in applied : a.stamp \in contested \/ backups[a.stamp] = a.replaced
    /\ \A b \in {active, exported} \cup {backups[s] : s \in 1..MaxSeconds} :
          "secret" \in DOMAIN b => ~b.secret

\* A restore that answers extracted the archive its record names, unless a
\* create of the same snapshot fell between its check and its reading; and
\* that archive holds the tree whose hash the record states, unless the tree
\* or the archive was written while the snapshot was made.
RestoreStands ==
    \A x \in restored :
        /\ x.alone => x.got = x.record.r.archive
        /\ x.alone /\ x.record.alone => x.got.tree = x.record.r.source

\* Every register keeps what it answered, though commands overlap and are
\* killed between two writes (usage.py import_usage, decisions.py
\* capture_decision, configsync.py apply_bundle, snapshot.py create, restore).
AnsweredStays == LedgerStands /\ DecisionStands /\ BackupStands /\ RestoreStands
=============================================================================
