---------------------------- MODULE KeyRotation ----------------------------
(***************************************************************************)
(* The signing keys of a workspace: the Ed25519 pair of one key id, kept   *)
(* in two files that keygen creates and rotates under a journal, with the  *)
(* recovery every use begins with (pubkey.py); the HMAC key, one file      *)
(* created once (signing.py); and the sign and verify-signature commands   *)
(* that read them (cli.py).                                                *)
(*                                                                         *)
(* A save, a rollback and a recovery are lists of file operations, done    *)
(* one by one by the process that holds keys.op.lock.  It may be killed    *)
(* between any two; an operation of a save may fail instead.  Journals are *)
(* those the program writes (forged and unreadable ones are discarded).    *)
(***************************************************************************)
EXTENDS Naturals, Sequences

CONSTANTS
    MaxPairs,      \* keys generated in a behaviour
    MaxKeyFaults   \* kills and failed operations in a behaviour

ASSUME KeysAssumption == MaxPairs \in Nat /\ MaxKeyFaults \in Nat

VARIABLES
    key,       \* generation in each file of the keys directory; 0 is absent
    journal,   \* the rotation journal, or NoJournal
    user,      \* the command that holds keys.op.lock, or Nobody
    outside,   \* what a command took out of the lock and has still to write
    shared,    \* the HMAC key file: absent, empty, or a generation
    writer,    \* a keygen between the creation and the write of that file
    docs,      \* signed documents written so far
    receipt,   \* the certificate that is signed still verifies
    generated, \* how many keys were generated
    overwritten, \* history: pairs some overwriting keygen found installed
    keyFaults

keysVars == <<key, journal, user, outside, shared, writer, docs, receipt,
              generated, overwritten, keyFaults>>

KeyFiles == {"priv", "pub", "priv_tmp", "pub_tmp", "priv_bak", "pub_bak"}
NoJournal == [phase |-> "none", baks |-> {}]
Nobody == [cmd |-> "none", doing |-> "none", todo |-> <<>>, pair |-> 0]
Nothing == [cmd |-> "none", pair |-> 0]
Torn == MaxPairs + 1
Doing(cmd, doing, todo, pair) == [cmd |-> cmd, doing |-> doing, todo |-> todo, pair |-> pair]

Final(f) == IF f \in {"priv_tmp", "priv_bak"} THEN "priv" ELSE "pub"

-----------------------------------------------------------------------------
(* File operations.                                                        *)

Write(f) == [op |-> "write", file |-> f, arg |-> ""]
Drop(f) == [op |-> "drop", file |-> f, arg |-> ""]
Move(f, to) == [op |-> "move", file |-> f, arg |-> to]
\* Remove a final whose backup is about to be moved back.
Yield(bak) == [op |-> "yield", file |-> bak, arg |-> Final(bak)]
\* A backup that no journal names: moved back if the final is missing.
Settle(bak) == [op |-> "settle", file |-> bak, arg |-> Final(bak)]
Commit(phase) == [op |-> "commit", file |-> "", arg |-> phase]
Unjournal == [op |-> "unjournal", file |-> "", arg |-> ""]
Restore(bak) == <<Yield(bak), Move(bak, Final(bak))>>

Moved(k, f, to) == IF k[f] = 0 THEN k ELSE [k EXCEPT ![to] = k[f], ![f] = 0]

\* The files after one operation of a command that saves generation g.
FilesAfter(k, s, g) ==
    CASE s.op = "write" -> [k EXCEPT ![s.file] = g]
      [] s.op = "drop" -> [k EXCEPT ![s.file] = 0]
      [] s.op = "move" -> Moved(k, s.file, s.arg)
      [] s.op = "yield" -> IF k[s.file] = 0 THEN k ELSE [k EXCEPT ![s.arg] = 0]
      [] s.op = "settle" -> IF k[s.arg] = 0 THEN Moved(k, s.file, s.arg)
                                           ELSE [k EXCEPT ![s.file] = 0]
      [] OTHER -> k

\* The journal after it.  A commit names the backups made so far.
JournalAfter(j, s) ==
    CASE s.op = "commit" ->
           [phase |-> s.arg,
            baks |-> j.baks \cup (CASE s.arg = "pub_backed" -> {"pub_bak"}
                                    [] s.arg = "priv_backed" -> {"priv_bak"}
                                    [] OTHER -> {})]
      [] s.op = "unjournal" -> NoJournal
      [] OTHER -> j

-----------------------------------------------------------------------------
(* Recovery: what the journal asks for, then the sidecars no journal names. *)

DropTemps == <<Drop("priv_tmp"), Drop("pub_tmp")>>
RestoreNamed(j, bak) == IF bak \in j.baks THEN Restore(bak) ELSE <<>>
DropIfNamed(j, bak) == IF bak \in j.baks THEN <<Drop(bak)>> ELSE <<>>
DropNamed(j) == DropIfNamed(j, "priv_bak") \o DropIfNamed(j, "pub_bak")

JournalRecovery(k, j) ==
    CASE j.phase \in {"intent", "staged"} -> DropTemps \o <<Unjournal>>
      [] j.phase = "fresh_priv_installed" ->
           (IF k["priv"] # 0 /\ k["pub"] # 0 THEN <<>> ELSE <<Drop("priv"), Drop("pub")>>)
              \o DropTemps \o <<Unjournal>>
      [] j.phase \in {"pub_backed", "pub_installed", "priv_backed"} ->
           DropTemps \o RestoreNamed(j, "priv_bak") \o RestoreNamed(j, "pub_bak")
                     \o DropNamed(j) \o <<Unjournal>>
      [] j.phase \in {"priv_installed", "complete"} ->
           DropTemps \o DropNamed(j) \o <<Unjournal>>
      [] OTHER -> <<>>

OrphanRecovery == <<Settle("priv_bak"), Settle("pub_bak")>> \o DropTemps
Recovery(k, j) == JournalRecovery(k, j) \o OrphanRecovery

\* The two keys that a recovery, when it has ended, leaves of these files.
RecoversTo(k, j, f, bak) ==
    IF bak \in j.baks /\ k[bak] # 0 /\ j.phase \in {"pub_backed", "pub_installed", "priv_backed"}
    THEN k[bak]
    ELSE IF k[f] = 0 /\ bak \notin j.baks THEN k[bak] ELSE k[f]

Recovered(k, j) ==
    IF j.phase = "fresh_priv_installed" /\ (k["priv"] = 0 \/ k["pub"] = 0)
    THEN <<0, 0>>
    ELSE <<RecoversTo(k, j, "priv", "priv_bak"), RecoversTo(k, j, "pub", "pub_bak")>>

-----------------------------------------------------------------------------
(* Saving a pair, and undoing it when an operation raises.                 *)

Stage == <<Commit("intent"), Write("priv_tmp"), Write("pub_tmp"), Commit("staged")>>

\* Mutant: the public half is installed first.
CreatePubFirst == <<Move("pub_tmp", "pub"), Commit("fresh_priv_installed"),
                    Move("priv_tmp", "priv"), Commit("complete"), Unjournal>>
Create == <<Move("priv_tmp", "priv"), Commit("fresh_priv_installed"),
            Move("pub_tmp", "pub"), Commit("complete"), Unjournal>>

Rotate(k) ==
    (IF k["pub"] # 0 THEN <<Move("pub", "pub_bak"), Commit("pub_backed")>> ELSE <<>>)
    \o <<Move("pub_tmp", "pub"), Commit("pub_installed")>>
    \o (IF k["priv"] # 0 THEN <<Move("priv", "priv_bak"), Commit("priv_backed")>> ELSE <<>>)
    \o <<Move("priv_tmp", "priv"), Commit("priv_installed"),
         Drop("priv_bak"), Drop("pub_bak"), Commit("complete"), Unjournal>>

Save(k) == Stage \o (IF k["priv"] = 0 /\ k["pub"] = 0 THEN Create ELSE Rotate(k))

MayFail(s) == s.op \in {"write", "move", "commit"}

\* What the failing operation's own handler does first.
Handler(s, j) ==
    CASE s = Move("pub_tmp", "pub") /\ j.phase = "fresh_priv_installed" -> <<Drop("priv")>>
      [] s = Move("priv_tmp", "priv") -> <<Drop("priv")>> \o Restore("priv_bak") \o <<Drop("pub")>>
      [] OTHER -> <<>>

Rollback(s, j) ==
    Handler(s, j) \o Restore("priv_bak") \o Restore("pub_bak") \o DropTemps \o <<Unjournal>>

-----------------------------------------------------------------------------
(* Commands under keys.op.lock.  Each begins with a recovery.              *)

HoldLock(cmd, pair) ==
    /\ user = Nobody
    /\ user' = Doing(cmd, "recover", Recovery(key, journal), pair)

Keygen(overwrite) ==
    /\ generated < MaxPairs /\ generated' = generated + 1
    /\ HoldLock(IF overwrite THEN "rotate" ELSE "keygen", generated + 1)
    /\ UNCHANGED <<key, journal, outside, shared, writer, docs, receipt, overwritten, keyFaults>>

\* sign looks at the receipt first; the rest of its arguments are the caller's.
Use(cmd) ==
    /\ cmd \in {"sign", "list", "export"}
    /\ cmd = "sign" => receipt
    /\ outside = Nothing
    /\ HoldLock(cmd, 0)
    /\ UNCHANGED <<key, journal, outside, shared, writer, docs, receipt,
                   generated, overwritten, keyFaults>>

FileStep ==
    /\ user.todo # <<>>
    /\ LET s == Head(user.todo)
       IN  /\ key' = FilesAfter(key, s, user.pair)
           /\ journal' = JournalAfter(journal, s)
           /\ user' = [user EXCEPT !.todo = Tail(@)]
    /\ UNCHANGED <<outside, shared, writer, docs, receipt, generated, overwritten, keyFaults>>

\* Recovery is over: refuse a pair that is there, or save.
KeygenSaves ==
    /\ user.cmd \in {"keygen", "rotate"} /\ user.doing = "recover" /\ user.todo = <<>>
    /\ LET there == {key["priv"], key["pub"]} \ {0}
       IN  IF there # {} /\ user.cmd = "keygen"
           THEN user' = Nobody /\ UNCHANGED overwritten
           ELSE /\ user' = Doing(user.cmd, "save", Save(key), user.pair)
                /\ overwritten' = overwritten \cup there
    /\ UNCHANGED <<key, journal, outside, shared, writer, docs, receipt, generated, keyFaults>>

KeygenFails ==
    /\ user.doing = "save" /\ user.todo # <<>> /\ MayFail(Head(user.todo))
    /\ keyFaults < MaxKeyFaults /\ keyFaults' = keyFaults + 1
    /\ user' = Doing(user.cmd, "rollback", Rollback(Head(user.todo), journal), user.pair)
    /\ UNCHANGED <<key, journal, outside, shared, writer, docs, receipt, generated, overwritten>>

\* A keygen answers ok, or raises after its rollback.
KeygenReturns ==
    /\ user.doing \in {"save", "rollback"} /\ user.todo = <<>>
    /\ user' = Nobody
    /\ UNCHANGED <<key, journal, outside, shared, writer, docs, receipt, generated, overwritten, keyFaults>>

\* A pair is loaded to sign with only if its halves match.
Loadable == key["priv"] # 0 /\ key["priv"] = key["pub"]

UseEnds(cmd) == user.cmd = cmd /\ user.todo = <<>> /\ user' = Nobody

SignEnds ==
    /\ UseEnds("sign")
    /\ outside' = IF Loadable THEN [cmd |-> "sign", pair |-> key["pub"]] ELSE outside
    /\ UNCHANGED <<key, journal, shared, writer, docs, receipt, generated, overwritten, keyFaults>>

ExportEnds ==
    /\ UseEnds("export")
    /\ outside' = IF key["pub"] # 0 THEN [cmd |-> "export", pair |-> key["pub"]] ELSE outside
    /\ UNCHANGED <<key, journal, shared, writer, docs, receipt, generated, overwritten, keyFaults>>

\* A key is listed if both files are there; nothing is kept.
ListEnds ==
    /\ UseEnds("list")
    /\ UNCHANGED <<key, journal, outside, shared, writer, docs, receipt, generated, overwritten, keyFaults>>

\* The signed document and the exported key are written without the lock.
Signed(pair) == [scheme |-> "ed25519", pair |-> pair]

WriteSigned ==
    /\ outside.cmd = "sign" /\ outside' = Nothing
    /\ docs' = docs \cup {Signed(outside.pair)}
    /\ UNCHANGED <<key, journal, user, shared, writer, receipt, generated, overwritten, keyFaults>>

WriteExport ==
    /\ outside.cmd = "export" /\ outside' = Nothing
    /\ UNCHANGED <<key, journal, user, shared, writer, docs, receipt, generated, overwritten, keyFaults>>

-----------------------------------------------------------------------------
(* The HMAC key: created exclusively, then written; no rotation, no lock.  *)

\* Mutant: the file is opened without O_EXCL.
HmacReplaces ==
    /\ generated < MaxPairs /\ generated' = generated + 1
    /\ writer = 0
    /\ shared' = Torn /\ writer' = generated + 1
    /\ UNCHANGED <<key, journal, user, outside, docs, receipt, overwritten, keyFaults>>

HmacCreates ==
    /\ generated < MaxPairs /\ generated' = generated + 1
    /\ shared = 0 /\ writer = 0
    /\ shared' = Torn /\ writer' = generated + 1
    /\ UNCHANGED <<key, journal, user, outside, docs, receipt, overwritten, keyFaults>>

HmacWrites ==
    /\ writer # 0 /\ shared' = writer /\ writer' = 0
    /\ UNCHANGED <<key, journal, user, outside, docs, receipt, generated, overwritten, keyFaults>>

HmacLoadable == shared \in 1..MaxPairs
MacOf(secret) == [scheme |-> "hmac", pair |-> secret]

HmacSigns ==
    /\ receipt /\ HmacLoadable
    /\ docs' = docs \cup {MacOf(shared)}
    /\ UNCHANGED <<key, journal, user, outside, shared, writer, receipt,
                   generated, overwritten, keyFaults>>

-----------------------------------------------------------------------------
(* Kills, and the end of a receipt.                                        *)

Kill(killed) ==
    /\ keyFaults < MaxKeyFaults /\ keyFaults' = keyFaults + 1
    /\ CASE killed = "user" -> user # Nobody /\ user' = Nobody /\ UNCHANGED <<outside, writer>>
         [] killed = "outside" -> outside # Nothing /\ outside' = Nothing /\ UNCHANGED <<user, writer>>
         [] killed = "writer" -> writer # 0 /\ writer' = 0 /\ UNCHANGED <<user, outside>>
    /\ UNCHANGED <<key, journal, shared, docs, receipt, generated, overwritten>>

\* An event appended to the run's log, or a changed source, voids it.
ReceiptVoid ==
    /\ receipt /\ receipt' = FALSE
    /\ UNCHANGED <<key, journal, user, outside, shared, writer, docs, generated,
                   overwritten, keyFaults>>

-----------------------------------------------------------------------------
KeysInit ==
    /\ key = [f \in KeyFiles |-> 0] /\ journal = NoJournal
    /\ user = Nobody /\ outside = Nothing
    /\ shared = 0 /\ writer = 0 /\ docs = {}
    /\ receipt = TRUE /\ generated = 0 /\ overwritten = {} /\ keyFaults = 0

KeysNext ==
    \/ \E overwrite \in BOOLEAN : Keygen(overwrite)
    \/ \E cmd \in {"sign", "list", "export"} : Use(cmd)
    \/ FileStep \/ KeygenSaves \/ KeygenFails \/ KeygenReturns
    \/ SignEnds \/ ExportEnds \/ ListEnds \/ WriteSigned \/ WriteExport
    \/ HmacCreates \/ HmacWrites \/ HmacSigns
    \/ \E killed \in {"user", "outside", "writer"} : Kill(killed)
    \/ ReceiptVoid

KeysSpec == KeysInit /\ [][KeysNext]_keysVars

-----------------------------------------------------------------------------
(* verify-signature.                                                       *)

\* The public file is read without keys.op.lock and without a recovery; it is
\* also the key the document embeds.
PubVerifies(doc) == key["pub"] = doc.pair
MacVerifies(doc) == HmacLoadable /\ shared = doc.pair

\* Without a contract an Ed25519 document stands alone; a MAC is accepted only
\* if the receipt verifies once more.
AcceptedPub(doc) == doc.scheme = "ed25519" /\ PubVerifies(doc)
AcceptedMac(doc) == doc.scheme = "hmac" /\ MacVerifies(doc) /\ receipt

-----------------------------------------------------------------------------
(* Properties.                                                             *)

\* Whatever dies or fails, what the next use finds after its recovery is
\* what AtomicPair allows: a complete pair gives way only to another
\* complete pair (pubkey.py 497-627, 864-999).
Pair == INSTANCE AtomicPair WITH
    Generations <- 1..MaxPairs, pair <- Recovered(key, journal)
ImplementsAtomicPair == Pair!Spec

\* A signed document goes on being accepted, at any moment and with no
\* recovery before, unless somebody has begun to overwrite the pair that
\* signed it, or its receipt is void (cli.py 1029-1056, 1133-1149, 1255-1296;
\* pubkey.py 573-578, 883-886).
SignedVerifiesUntilOverwritten ==
    \A doc \in docs : doc.pair \notin overwritten =>
        AcceptedPub(doc) \/ AcceptedMac(doc) \/ (doc.scheme = "hmac" /\ ~receipt)
=============================================================================
