-------------------------- MODULE KeyRotationProofs --------------------------
(***************************************************************************)
(* Theorems about KeyRotation, for any number of keys and of faults: a     *)
(* signed document verifies until its pair is overwritten, and the pair    *)
(* seen through the recovery implements AtomicPair.                        *)
(*                                                                         *)
(* What a command is about to do is a list of file operations.  Both       *)
(* invariants therefore speak of that list: the first says which kinds of  *)
(* operation it may still hold (KeysInv), the second, for each list that   *)
(* may be left, what is in the files when its turn comes (PairInv).        *)
(***************************************************************************)
EXTENDS KeyRotation, SequenceTheorems, TLAPS

-----------------------------------------------------------------------------
(***************************************************************************)
(* A signed document verifies as long as nobody begins to overwrite its    *)
(* pair: from the moment of its signature the pair is installed, there is  *)
(* no journal, and whoever holds the lock has only operations to do that   *)
(* leave an installed pair alone (PairStands).                             *)
(***************************************************************************)

Phases == {"intent", "staged", "fresh_priv_installed", "pub_backed", "pub_installed",
           "priv_backed", "priv_installed", "complete"}
FileOps ==
    {s \in [op : {"write", "drop", "move", "yield", "settle", "commit", "unjournal"},
            file : KeyFiles \cup {""}, arg : KeyFiles \cup Phases \cup {""}] :
        /\ s.op = "commit" => s.arg \in Phases
        /\ s.op \notin {"commit", "unjournal"} => s.file \in KeyFiles
        /\ s.op \in {"move", "yield", "settle"} => s.arg \in KeyFiles}
RecoveryOps == {s \in FileOps : s.op \notin {"commit", "write"}}
\* What leaves an installed pair alone.
Harmless ==
    {s \in RecoveryOps :
        \/ s.op = "settle" /\ s.arg \in {"priv", "pub"} /\ s.file \notin {"priv", "pub"}
        \/ s.op = "drop" /\ s.file \notin {"priv", "pub"}}

UserShape ==
    /\ key = [f \in KeyFiles |-> key[f]]
    /\ user = Doing(user.cmd, user.doing, user.todo, user.pair)
    /\ user.todo \in Seq(FileOps)
    /\ user.doing \in {"none", "recover", "save", "rollback"}
    /\ user.doing = "none" => user.cmd = "none" /\ user.todo = <<>>
    /\ user.cmd \in {"sign", "list", "export"} => user.doing = "recover"
    /\ journal = NoJournal \/ journal.phase \in Phases

\* A recovery leaves no journal.
RecoveryEnds ==
    user.doing = "recover" =>
        /\ user.todo \in Seq(RecoveryOps)
        /\ journal = NoJournal \/ \E i \in 1..Len(user.todo) : user.todo[i] = Unjournal

\* The pairs that documents were signed with, or are about to be.
SignedPairs ==
    {doc.pair : doc \in {d \in docs : d.scheme = "ed25519"}}
        \cup (IF outside.cmd = "sign" THEN {outside.pair} ELSE {})
PairStands ==
    \A p \in SignedPairs \ overwritten :
        /\ p # 0 /\ key["priv"] = p /\ key["pub"] = p
        /\ journal = NoJournal
        /\ user.doing \in {"none", "recover"} /\ user.todo \in Seq(Harmless)

\* The HMAC key is created once.
MacStands ==
    /\ generated \in Nat
    /\ writer # 0 => shared = Torn /\ writer \in 1..MaxPairs
    /\ \A doc \in docs :
          /\ doc.scheme \in {"ed25519", "hmac"}
          /\ doc.scheme = "hmac" => doc.pair \in 1..MaxPairs /\ shared = doc.pair

KeysInv == UserShape /\ RecoveryEnds /\ PairStands /\ MacStands

LEMMA NoStep == ASSUME NEW W PROVE <<>> \in Seq(W)
OBVIOUS

LEMMA OneStep == ASSUME NEW W, NEW a \in W PROVE <<a>> \in Seq(W)
OBVIOUS

LEMMA TwoSteps == ASSUME NEW W, NEW a \in W, NEW b \in W PROVE <<a, b>> \in Seq(W)
OBVIOUS

LEMMA ThenSteps == ASSUME NEW W, NEW s \in Seq(W), NEW t \in Seq(W) PROVE s \o t \in Seq(W)
OBVIOUS

LEMMA StepsWithin == ASSUME NEW V, NEW W, V \subseteq W, NEW s \in Seq(V) PROVE s \in Seq(W)
OBVIOUS

LEMMA StepTaken ==
    ASSUME NEW W, NEW s \in Seq(W), s # <<>>
    PROVE  /\ Head(s) \in W /\ Tail(s) \in Seq(W) /\ Head(s) = s[1]
           /\ Len(s) \in Nat \ {0} /\ Len(Tail(s)) = Len(s) - 1
           /\ \A i \in 1..Len(Tail(s)) : Tail(s)[i] = s[i + 1]
           /\ \A i \in 2..Len(s) : i - 1 \in 1..Len(Tail(s)) /\ Tail(s)[i - 1] = s[i]
OBVIOUS

LEMMA OpsTyped ==
    /\ \A f \in KeyFiles : Drop(f) \in RecoveryOps /\ Write(f) \in FileOps
    /\ \A f \in KeyFiles, g \in KeyFiles : Move(f, g) \in RecoveryOps
    /\ Unjournal \in RecoveryOps
    /\ \A p \in Phases : Commit(p) \in FileOps
    /\ \A bak \in {"priv_bak", "pub_bak"} :
          Yield(bak) \in RecoveryOps /\ Settle(bak) \in Harmless /\ Drop(bak) \in Harmless
    /\ Drop("priv_tmp") \in Harmless /\ Drop("pub_tmp") \in Harmless
    /\ Harmless \subseteq RecoveryOps /\ RecoveryOps \subseteq FileOps
BY DEF RecoveryOps, FileOps, KeyFiles, Phases, Drop, Write, Move, Unjournal, Commit, Yield, Settle,
   Final, Harmless

LEMMA RecoveryParts ==
    /\ DropTemps \in Seq(RecoveryOps)
    /\ \A bak \in {"priv_bak", "pub_bak"} : Restore(bak) \in Seq(RecoveryOps)
    /\ \A j : /\ DropNamed(j) \in Seq(RecoveryOps)
              /\ \A bak \in {"priv_bak", "pub_bak"} : RestoreNamed(j, bak) \in Seq(RecoveryOps)
    /\ OrphanRecovery \in Seq(Harmless) /\ OrphanRecovery \in Seq(RecoveryOps)
<1>1. DropTemps \in Seq(Harmless)
  BY OpsTyped, TwoSteps DEF DropTemps
<1>2. DropTemps \in Seq(RecoveryOps)
  BY <1>1, OpsTyped, StepsWithin
<1>3. ASSUME NEW bak \in {"priv_bak", "pub_bak"} PROVE Restore(bak) \in Seq(RecoveryOps)
  <2>1. bak \in KeyFiles /\ Final(bak) \in KeyFiles
    BY DEF KeyFiles, Final
  <2> QED
    BY <2>1, OpsTyped, TwoSteps DEF Restore
<1>4. ASSUME NEW j
      PROVE  /\ DropNamed(j) \in Seq(RecoveryOps)
             /\ \A bak \in {"priv_bak", "pub_bak"} : RestoreNamed(j, bak) \in Seq(RecoveryOps)
  <2>1. \A bak \in {"priv_bak", "pub_bak"} : DropIfNamed(j, bak) \in Seq(RecoveryOps)
    BY OpsTyped, OneStep, NoStep DEF DropIfNamed, KeyFiles
  <2>2. DropNamed(j) \in Seq(RecoveryOps)
    BY <2>1, ThenSteps DEF DropNamed
  <2> QED
    BY <1>3, <2>2, NoStep DEF RestoreNamed
<1>5. <<Settle("priv_bak"), Settle("pub_bak")>> \in Seq(Harmless)
  BY OpsTyped, TwoSteps
<1>6. OrphanRecovery \in Seq(Harmless)
  BY <1>1, <1>5, ThenSteps DEF OrphanRecovery
<1>7. OrphanRecovery \in Seq(RecoveryOps)
  BY <1>6, OpsTyped, StepsWithin
<1> QED
  BY <1>2, <1>3, <1>4, <1>6, <1>7

LEMMA UnjournalAmid ==
    ASSUME NEW first \in Seq(RecoveryOps)
    PROVE  /\ (first \o <<Unjournal>>) \o OrphanRecovery \in Seq(RecoveryOps)
           /\ \E i \in 1..Len((first \o <<Unjournal>>) \o OrphanRecovery) :
                 ((first \o <<Unjournal>>) \o OrphanRecovery)[i] = Unjournal
<1> DEFINE all == (first \o <<Unjournal>>) \o OrphanRecovery
<1>1. Unjournal \in RecoveryOps /\ OrphanRecovery \in Seq(RecoveryOps)
  BY OpsTyped, RecoveryParts
<1>2. all \in Seq(RecoveryOps) /\ Len(all) = Len(first) + 1 + Len(OrphanRecovery)
  BY <1>1
<1>3. all[Len(first) + 1] = Unjournal
  BY <1>1
<1>4. Len(first) + 1 \in 1..Len(all)
  BY <1>1, <1>2
<1> QED
  BY <1>2, <1>3, <1>4

LEMMA RecoveryTyped ==
    ASSUME NEW k, NEW j, j = NoJournal \/ j.phase \in Phases
    PROVE  /\ Recovery(k, j) \in Seq(RecoveryOps)
           /\ j = NoJournal => Recovery(k, j) \in Seq(Harmless)
           /\ j = NoJournal \/ \E i \in 1..Len(Recovery(k, j)) : Recovery(k, j)[i] = Unjournal
<1>1. CASE j = NoJournal
  <2>1. JournalRecovery(k, j) = <<>>
    BY <1>1 DEF JournalRecovery, NoJournal
  <2>2. Recovery(k, j) \in Seq(Harmless)
    BY <2>1, RecoveryParts, NoStep, ThenSteps DEF Recovery
  <2>3. Recovery(k, j) \in Seq(RecoveryOps)
    BY <2>2, OpsTyped, StepsWithin
  <2> QED
    BY <1>1, <2>2, <2>3
<1>2. CASE j # NoJournal
  <2>1. ASSUME NEW first \in Seq(RecoveryOps), JournalRecovery(k, j) = first \o <<Unjournal>>
        PROVE  /\ Recovery(k, j) \in Seq(RecoveryOps)
               /\ \E i \in 1..Len(Recovery(k, j)) : Recovery(k, j)[i] = Unjournal
    BY <2>1, UnjournalAmid DEF Recovery
  <2>2. CASE j.phase \in {"intent", "staged"}
    <3>1. JournalRecovery(k, j) = DropTemps \o <<Unjournal>>
      BY <2>2 DEF JournalRecovery
    <3> QED
      BY <1>2, <2>1, <3>1, RecoveryParts
  <2>3. CASE j.phase = "fresh_priv_installed"
    <3> DEFINE halves == IF k["priv"] # 0 /\ k["pub"] # 0 THEN <<>>
                         ELSE <<Drop("priv"), Drop("pub")>>
    <3>1. JournalRecovery(k, j) = (halves \o DropTemps) \o <<Unjournal>>
      BY <2>3 DEF JournalRecovery
    <3>2. halves \in Seq(RecoveryOps)
      BY OpsTyped, NoStep, TwoSteps DEF KeyFiles
    <3>3. halves \o DropTemps \in Seq(RecoveryOps)
      BY <3>2, RecoveryParts, ThenSteps
    <3> QED
      BY <1>2, <2>1, <3>1, <3>3
  <2>4. CASE j.phase \in {"pub_backed", "pub_installed", "priv_backed"}
    <3> DEFINE first == DropTemps \o RestoreNamed(j, "priv_bak") \o RestoreNamed(j, "pub_bak")
                                  \o DropNamed(j)
    <3>1. JournalRecovery(k, j) = first \o <<Unjournal>>
      BY <2>4 DEF JournalRecovery
    <3>2. first \in Seq(RecoveryOps)
      BY RecoveryParts, ThenSteps
    <3> HIDE DEF first
    <3> QED
      BY <1>2, <2>1, <3>1, <3>2
  <2>5. CASE j.phase \in {"priv_installed", "complete"}
    <3>1. JournalRecovery(k, j) = (DropTemps \o DropNamed(j)) \o <<Unjournal>>
      BY <2>5 DEF JournalRecovery
    <3>2. DropTemps \o DropNamed(j) \in Seq(RecoveryOps)
      BY RecoveryParts, ThenSteps
    <3> QED
      BY <1>2, <2>1, <3>1, <3>2
  <2> QED
    BY <1>2, <2>2, <2>3, <2>4, <2>5 DEF Phases
<1> QED
  BY <1>1, <1>2

LEMMA SaveTyped ==
    ASSUME NEW k
    PROVE  Save(k) \in Seq(FileOps)
<1> USE OpsTyped DEF KeyFiles, Phases
<1>1. Stage \in Seq(FileOps)
  BY DEF Stage
<1>2. Create \in Seq(FileOps)
  BY DEF Create
<1>3. Rotate(k) \in Seq(FileOps)
  BY DEF Rotate
<1> QED
  BY <1>1, <1>2, <1>3 DEF Save

LEMMA RollbackTyped ==
    ASSUME NEW s, NEW j
    PROVE  Rollback(s, j) \in Seq(FileOps)
<1>1. Drop("priv") \in RecoveryOps /\ Drop("pub") \in RecoveryOps /\ Unjournal \in RecoveryOps
  BY OpsTyped DEF KeyFiles
<1>2. /\ <<Drop("priv")>> \in Seq(RecoveryOps) /\ <<Drop("pub")>> \in Seq(RecoveryOps)
      /\ <<Unjournal>> \in Seq(RecoveryOps)
  BY <1>1, OneStep
<1>3. <<Drop("priv")>> \o Restore("priv_bak") \o <<Drop("pub")>> \in Seq(RecoveryOps)
  BY <1>2, RecoveryParts, ThenSteps
<1>4. Handler(s, j) \in Seq(RecoveryOps)
  BY <1>2, <1>3, NoStep DEF Handler
<1>5. Rollback(s, j) \in Seq(RecoveryOps)
  BY <1>2, <1>4, RecoveryParts, ThenSteps DEF Rollback
<1> QED
  BY <1>5, OpsTyped, StepsWithin

LEMMA KeysInitInv == ASSUME KeysAssumption, KeysInit PROVE KeysInv
<1>1. UserShape
  BY NoStep DEF KeysInit, UserShape, Nobody, Doing
<1>2. RecoveryEnds
  BY DEF KeysInit, RecoveryEnds, Nobody
<1>3. SignedPairs = {}
  BY DEF KeysInit, SignedPairs, Nothing
<1>4. PairStands /\ MacStands
  BY <1>3 DEF KeysInit, PairStands, MacStands
<1> QED
  BY <1>1, <1>2, <1>4 DEF KeysInv

LEMMA NobodyShape ==
    /\ Nobody = Doing(Nobody.cmd, Nobody.doing, Nobody.todo, Nobody.pair)
    /\ Nobody.cmd = "none" /\ Nobody.doing = "none" /\ Nobody.todo = <<>>
BY DEF Nobody, Doing

LEMMA DoingFields ==
    ASSUME NEW c, NEW d, NEW t, NEW p
    PROVE  /\ Doing(c, d, t, p).cmd = c /\ Doing(c, d, t, p).doing = d
           /\ Doing(c, d, t, p).todo = t /\ Doing(c, d, t, p).pair = p
BY DEF Doing

\* Nothing is about to be done to the files by a command that is over.
LEMMA LeavesLock ==
    ASSUME KeysInv, user' = Nobody, key' = key, journal' = journal,
           \A p \in SignedPairs' \ overwritten' :
               p \in SignedPairs \ overwritten \/ (p # 0 /\ key["priv"] = p /\ key["pub"] = p
                                                     /\ journal = NoJournal)
    PROVE  UserShape' /\ RecoveryEnds' /\ PairStands'
<1>1. user'.cmd = "none" /\ user'.doing = "none" /\ user'.todo = <<>>
  BY NobodyShape
<1>2. user'.todo \in Seq(FileOps) /\ user'.todo \in Seq(Harmless)
  BY <1>1, NoStep
<1>3. UserShape'
  BY <1>1, <1>2, NobodyShape DEF KeysInv, UserShape
<1>4. RecoveryEnds'
  BY <1>1 DEF RecoveryEnds
<1>5. PairStands'
  BY <1>1, <1>2 DEF KeysInv, PairStands
<1> QED
  BY <1>3, <1>4, <1>5

LEMMA TakesLock ==
    ASSUME KeysInv, NEW cmd, NEW p, HoldLock(cmd, p), UNCHANGED <<key, journal, outside, docs, overwritten>>
    PROVE  UserShape' /\ RecoveryEnds' /\ PairStands'
<1>1. /\ Recovery(key, journal) \in Seq(RecoveryOps)
      /\ journal = NoJournal => Recovery(key, journal) \in Seq(Harmless)
      /\ journal = NoJournal \/ \E i \in 1..Len(Recovery(key, journal)) : Recovery(key, journal)[i] = Unjournal
  BY RecoveryTyped DEF KeysInv, UserShape
<1>2. /\ user' = Doing(cmd, "recover", Recovery(key, journal), p)
      /\ user'.cmd = cmd /\ user'.doing = "recover" /\ user'.todo = Recovery(key, journal) /\ user'.pair = p
  BY DoingFields DEF HoldLock
<1>3. user'.todo \in Seq(FileOps)
  BY <1>1, <1>2, OpsTyped, StepsWithin
<1>4. UserShape'
  BY <1>2, <1>3 DEF KeysInv, UserShape
<1>5. RecoveryEnds'
  BY <1>1, <1>2 DEF RecoveryEnds
<1>6. SignedPairs' = SignedPairs
  BY DEF SignedPairs
<1>7. PairStands'
  BY <1>1, <1>2, <1>6 DEF KeysInv, PairStands
<1> QED
  BY <1>4, <1>5, <1>7

LEMMA KeepsLock ==
    ASSUME KeysInv, UNCHANGED <<key, journal, user, overwritten>>, SignedPairs' \subseteq SignedPairs
    PROVE  UserShape' /\ RecoveryEnds' /\ PairStands'
BY DEF KeysInv, UserShape, RecoveryEnds, PairStands

LEMMA KeepsMac ==
    ASSUME MacStands, UNCHANGED <<shared, writer, docs>>, generated' \in Nat
    PROVE  MacStands'
BY DEF MacStands

LEMMA FileStepKeeps == ASSUME KeysInv, FileStep PROVE UserShape' /\ RecoveryEnds' /\ PairStands'
<1> DEFINE s == Head(user.todo)
<1>1. /\ user.todo # <<>>
      /\ key' = FilesAfter(key, s, user.pair) /\ journal' = JournalAfter(journal, s)
      /\ UNCHANGED <<outside, docs, overwritten>>
  BY DEF FileStep
<1>2. /\ user'.cmd = user.cmd /\ user'.doing = user.doing /\ user'.todo = Tail(user.todo)
      /\ user'.pair = user.pair /\ user' = Doing(user'.cmd, user'.doing, user'.todo, user'.pair)
  <2>1. user = [cmd |-> user.cmd, doing |-> user.doing, todo |-> user.todo, pair |-> user.pair]
    BY DEF KeysInv, UserShape, Doing
  <2>2. user' = [user EXCEPT !.todo = Tail(user.todo)]
    BY DEF FileStep
  <2> QED
    BY <2>1, <2>2 DEF Doing
<1>3. user.todo \in Seq(FileOps)
  BY DEF KeysInv, UserShape
<1>4. s \in FileOps /\ Tail(user.todo) \in Seq(FileOps)
  BY <1>1, <1>3, StepTaken
<1>5. key' = [f \in KeyFiles |-> key'[f]]
  BY <1>1, <1>4 DEF KeysInv, UserShape, FilesAfter, Moved, FileOps
<1>6. journal' = NoJournal \/ journal'.phase \in Phases
  <2>1. CASE s.op = "commit"
    BY <1>1, <1>4, <2>1 DEF JournalAfter, FileOps
  <2>2. CASE s.op # "commit"
    BY <1>1, <2>2 DEF JournalAfter, KeysInv, UserShape
  <2> QED
    BY <2>1, <2>2
<1>7. UserShape'
  BY <1>1, <1>2, <1>4, <1>5, <1>6 DEF KeysInv, UserShape
<1>8. RecoveryEnds'
  <2> SUFFICES ASSUME user'.doing = "recover"
               PROVE  /\ user'.todo \in Seq(RecoveryOps)
                      /\ journal' = NoJournal \/ \E i \in 1..Len(user'.todo) : user'.todo[i] = Unjournal
    BY DEF RecoveryEnds
  <2>1. /\ user.todo \in Seq(RecoveryOps)
        /\ journal = NoJournal \/ \E i \in 1..Len(user.todo) : user.todo[i] = Unjournal
    BY <1>2 DEF KeysInv, RecoveryEnds
  <2>2. /\ s \in RecoveryOps /\ Tail(user.todo) \in Seq(RecoveryOps) /\ s = user.todo[1]
        /\ Len(user.todo) \in Nat
        /\ \A i \in 2..Len(user.todo) : /\ i - 1 \in 1..Len(Tail(user.todo))
                                        /\ Tail(user.todo)[i - 1] = user.todo[i]
    BY <1>1, <2>1, StepTaken
  <2>3. s.op # "commit"
    BY <2>2 DEF RecoveryOps
  <2>4. CASE journal = NoJournal
    BY <1>1, <1>2, <2>2, <2>3, <2>4 DEF JournalAfter
  <2>5. ASSUME NEW i \in 1..Len(user.todo), user.todo[i] = Unjournal
        PROVE  journal' = NoJournal \/ \E n \in 1..Len(user'.todo) : user'.todo[n] = Unjournal
    <3>1. CASE i = 1
      <4>1. s = Unjournal
        BY <2>2, <2>5, <3>1
      <4>2. Unjournal.op = "unjournal"
        BY DEF Unjournal
      <4> QED
        BY <1>1, <4>1, <4>2 DEF JournalAfter
    <3>2. CASE i # 1
      <4>1. i \in 2..Len(user.todo)
        BY <2>2, <3>2
      <4> QED
        BY <1>2, <2>2, <2>5, <4>1
    <3> QED
      BY <3>1, <3>2
  <2> QED
    BY <1>2, <2>1, <2>2, <2>4, <2>5
<1>9. SignedPairs' = SignedPairs
  BY <1>1 DEF SignedPairs
<1>10. PairStands'
  <2> SUFFICES ASSUME NEW p \in SignedPairs \ overwritten
               PROVE  /\ p # 0 /\ key'["priv"] = p /\ key'["pub"] = p /\ journal' = NoJournal
                      /\ user'.doing \in {"none", "recover"} /\ user'.todo \in Seq(Harmless)
    BY <1>1, <1>9 DEF PairStands
  <2>1. /\ p # 0 /\ key["priv"] = p /\ key["pub"] = p /\ journal = NoJournal
        /\ user.doing \in {"none", "recover"} /\ user.todo \in Seq(Harmless)
    BY DEF KeysInv, PairStands
  <2>2. s \in Harmless /\ Tail(user.todo) \in Seq(Harmless)
    BY <1>1, <2>1, StepTaken
  <2>3. /\ s.op \in {"settle", "drop"} /\ s.file \notin {"priv", "pub"}
        /\ s.op = "settle" => s.arg \in {"priv", "pub"}
    BY <2>2 DEF Harmless
  <2>4. key' = [key EXCEPT ![s.file] = 0]
    BY <1>1, <2>1, <2>3 DEF FilesAfter
  <2>5. key'["priv"] = key["priv"] /\ key'["pub"] = key["pub"]
    BY <1>5, <2>3, <2>4 DEF KeysInv, UserShape, KeyFiles
  <2>6. journal' = journal
    BY <1>1, <2>3 DEF JournalAfter
  <2> QED
    BY <1>2, <2>1, <2>2, <2>5, <2>6
<1> QED
  BY <1>7, <1>8, <1>10

LEMMA SavingKeeps == ASSUME KeysInv, KeygenSaves PROVE UserShape' /\ RecoveryEnds' /\ PairStands'
<1> DEFINE there == {key["priv"], key["pub"]} \ {0}
<1>1. UNCHANGED <<key, journal, outside, docs>>
  BY DEF KeygenSaves
<1>2. SignedPairs' = SignedPairs
  BY <1>1 DEF SignedPairs
<1>3. CASE user' = Nobody /\ overwritten' = overwritten
  BY <1>1, <1>2, <1>3, LeavesLock
<1>4. CASE /\ user' = Doing(user.cmd, "save", Save(key), user.pair)
           /\ overwritten' = overwritten \cup there
  <2>1. user'.cmd = user.cmd /\ user'.doing = "save" /\ user'.todo = Save(key) /\ user'.pair = user.pair
    BY <1>4, DoingFields
  <2>2. user.cmd \in {"keygen", "rotate"}
    BY DEF KeygenSaves
  <2>3. UserShape'
    BY <1>1, <1>4, <2>1, <2>2, SaveTyped DEF KeysInv, UserShape
  <2>4. RecoveryEnds'
    BY <2>1 DEF RecoveryEnds
  <2>5. SignedPairs \ overwritten' = {}
    BY <1>4 DEF KeysInv, PairStands
  <2> QED
    BY <1>2, <2>3, <2>4, <2>5 DEF PairStands
<1> QED
  BY <1>3, <1>4 DEF KeygenSaves

LEMMA FailingKeeps == ASSUME KeysInv, KeygenFails PROVE UserShape' /\ RecoveryEnds' /\ PairStands'
<1>1. UNCHANGED <<key, journal, outside, docs, overwritten>> /\ user.doing = "save"
  BY DEF KeygenFails
<1>2. user' = Doing(user.cmd, "rollback", Rollback(Head(user.todo), journal), user.pair)
  BY DEF KeygenFails
<1>3. /\ user'.cmd = user.cmd /\ user'.doing = "rollback" /\ user'.pair = user.pair
      /\ user'.todo = Rollback(Head(user.todo), journal)
  BY <1>2, DoingFields
<1>4. UserShape'
  BY <1>1, <1>2, <1>3, RollbackTyped DEF KeysInv, UserShape
<1>5. RecoveryEnds'
  BY <1>3 DEF RecoveryEnds
<1>6. SignedPairs' = SignedPairs
  BY <1>1 DEF SignedPairs
<1>7. SignedPairs \ overwritten = {}
  BY <1>1 DEF KeysInv, PairStands
<1> QED
  BY <1>1, <1>4, <1>5, <1>6, <1>7 DEF PairStands

LEMMA SigningKeeps == ASSUME KeysInv, SignEnds PROVE UserShape' /\ RecoveryEnds' /\ PairStands'
<1>1. UNCHANGED <<key, journal, docs, overwritten>> /\ user' = Nobody
  BY DEF SignEnds, UseEnds
<1>2. journal = NoJournal
  <2>1. user.doing = "recover" /\ user.todo = <<>>
    BY DEF SignEnds, UseEnds, KeysInv, UserShape
  <2> QED
    BY <2>1 DEF KeysInv, RecoveryEnds
<1>3. CASE Loadable
  <2>1. outside' = [cmd |-> "sign", pair |-> key["pub"]]
    BY <1>3 DEF SignEnds
  <2>2. SignedPairs' \subseteq SignedPairs \cup {key["pub"]}
    BY <1>1, <2>1 DEF SignedPairs
  <2>3. key["pub"] # 0 /\ key["priv"] = key["pub"]
    BY <1>3 DEF Loadable
  <2> QED
    BY <1>1, <1>2, <2>2, <2>3, LeavesLock
<1>4. CASE ~Loadable
  <2>1. outside' = outside
    BY <1>4 DEF SignEnds
  <2>2. SignedPairs' = SignedPairs
    BY <1>1, <2>1 DEF SignedPairs
  <2> QED
    BY <1>1, <2>2, LeavesLock
<1> QED
  BY <1>3, <1>4

LEMMA KeysLock == ASSUME KeysInv, KeysNext PROVE UserShape' /\ RecoveryEnds' /\ PairStands'
<1>1. ASSUME NEW overwrite \in BOOLEAN, Keygen(overwrite) PROVE UserShape' /\ RecoveryEnds' /\ PairStands'
  BY <1>1, TakesLock DEF Keygen
<1>2. ASSUME NEW cmd \in {"sign", "list", "export"}, Use(cmd)
      PROVE  UserShape' /\ RecoveryEnds' /\ PairStands'
  BY <1>2, TakesLock DEF Use
<1>3. CASE KeygenReturns
  <2>1. SignedPairs' = SignedPairs
    BY <1>3 DEF KeygenReturns, SignedPairs
  <2> QED
    BY <1>3, <2>1, LeavesLock DEF KeygenReturns
<1>4. CASE ExportEnds
  <2>1. SignedPairs' \subseteq SignedPairs
    BY <1>4 DEF ExportEnds, SignedPairs
  <2> QED
    BY <1>4, <2>1, LeavesLock DEF ExportEnds, UseEnds
<1>5. CASE ListEnds
  <2>1. SignedPairs' = SignedPairs
    BY <1>5 DEF ListEnds, SignedPairs
  <2> QED
    BY <1>5, <2>1, LeavesLock DEF ListEnds, UseEnds
<1>6. CASE WriteSigned
  <2>1. SignedPairs' \subseteq SignedPairs
    BY <1>6 DEF WriteSigned, SignedPairs, Signed, Nothing
  <2> QED
    BY <1>6, <2>1, KeepsLock DEF WriteSigned
<1>7. CASE WriteExport
  <2>1. SignedPairs' \subseteq SignedPairs
    BY <1>7 DEF WriteExport, SignedPairs, Nothing
  <2> QED
    BY <1>7, <2>1, KeepsLock DEF WriteExport
<1>8. CASE HmacSigns
  <2>1. SignedPairs' \subseteq SignedPairs
    BY <1>8 DEF HmacSigns, SignedPairs, MacOf
  <2> QED
    BY <1>8, <2>1, KeepsLock DEF HmacSigns
<1>9. CASE HmacCreates \/ HmacWrites \/ ReceiptVoid
  <2>1. UNCHANGED <<key, journal, user, outside, docs, overwritten>>
    BY <1>9 DEF HmacCreates, HmacWrites, ReceiptVoid
  <2>2. SignedPairs' = SignedPairs
    BY <2>1 DEF SignedPairs
  <2> QED
    BY <2>1, <2>2, KeepsLock
<1>10. ASSUME NEW killed \in {"user", "outside", "writer"}, Kill(killed)
       PROVE  UserShape' /\ RecoveryEnds' /\ PairStands'
  <2>1. UNCHANGED <<key, journal, docs, overwritten>> /\ (user' = Nobody \/ user' = user)
        /\ (outside' = outside \/ outside' = Nothing)
    BY <1>10 DEF Kill
  <2>2. SignedPairs' \subseteq SignedPairs
    BY <2>1 DEF SignedPairs, Nothing
  <2> QED
    BY <2>1, <2>2, LeavesLock, KeepsLock
<1> QED
  BY <1>1, <1>2, <1>3, <1>4, <1>5, <1>6, <1>7, <1>8, <1>9, <1>10,
     FileStepKeeps, SavingKeeps, FailingKeeps, SigningKeeps DEF KeysNext

LEMMA KeysMac == ASSUME KeysAssumption, KeysInv, KeysNext PROVE MacStands'
<1>1. MacStands /\ MaxPairs \in Nat
  BY DEF KeysInv, KeysAssumption
<1>2. CASE HmacCreates
  <2>1. /\ generated' = generated + 1 /\ generated < MaxPairs /\ shared = 0
        /\ shared' = Torn /\ writer' = generated + 1 /\ docs' = docs
    BY <1>2 DEF HmacCreates
  <2>2. \A doc \in docs : doc.scheme \in {"ed25519", "hmac"} /\ doc.scheme # "hmac"
    BY <1>1, <2>1 DEF MacStands
  <2> QED
    BY <1>1, <2>1, <2>2 DEF MacStands
<1>3. CASE HmacWrites
  <2>1. writer # 0 /\ shared' = writer /\ writer' = 0 /\ UNCHANGED <<docs, generated>>
    BY <1>3 DEF HmacWrites
  <2>2. \A doc \in docs : doc.scheme \in {"ed25519", "hmac"} /\ doc.scheme # "hmac"
    BY <1>1, <2>1 DEF MacStands, Torn
  <2> QED
    BY <1>1, <2>1, <2>2 DEF MacStands
<1>4. CASE HmacSigns
  <2>1. /\ shared \in 1..MaxPairs /\ docs' = docs \cup {MacOf(shared)}
        /\ UNCHANGED <<shared, writer, generated>>
    BY <1>4 DEF HmacSigns, HmacLoadable
  <2>2. MacOf(shared).scheme = "hmac" /\ MacOf(shared).pair = shared
    BY DEF MacOf
  <2> QED
    BY <1>1, <2>1, <2>2 DEF MacStands
<1>5. CASE WriteSigned
  <2>1. docs' = docs \cup {Signed(outside.pair)} /\ UNCHANGED <<shared, writer, generated>>
    BY <1>5 DEF WriteSigned
  <2>2. Signed(outside.pair).scheme = "ed25519"
    BY DEF Signed
  <2> QED
    BY <1>1, <2>1, <2>2 DEF MacStands
<1>6. ASSUME NEW killed \in {"user", "outside", "writer"}, Kill(killed) PROVE MacStands'
  <2>1. UNCHANGED <<shared, docs, generated>> /\ (writer' = 0 \/ writer' = writer)
    BY <1>6 DEF Kill
  <2> QED
    BY <1>1, <2>1 DEF MacStands
<1>7. ASSUME NEW overwrite \in BOOLEAN, Keygen(overwrite) PROVE MacStands'
  BY <1>1, <1>7, KeepsMac DEF Keygen, MacStands
<1>8. ASSUME NEW cmd \in {"sign", "list", "export"}, Use(cmd) PROVE MacStands'
  BY <1>1, <1>8, KeepsMac DEF Use, MacStands
<1>9. CASE \/ FileStep \/ KeygenSaves \/ KeygenFails \/ KeygenReturns
           \/ SignEnds \/ ExportEnds \/ ListEnds \/ WriteExport \/ ReceiptVoid
  <2>1. UNCHANGED <<shared, writer, docs, generated>>
    BY <1>9 DEF FileStep, KeygenSaves, KeygenFails, KeygenReturns, SignEnds, ExportEnds, ListEnds,
       WriteExport, ReceiptVoid
  <2> QED
    BY <1>1, <2>1 DEF MacStands
<1> QED
  BY <1>2, <1>3, <1>4, <1>5, <1>6, <1>7, <1>8, <1>9 DEF KeysNext

\* The pair that signed is installed from the signature on, until a keygen
\* that overwrites it begins; a MAC's key is never replaced.
LEMMA KeysVerify == ASSUME KeysInv PROVE SignedVerifiesUntilOverwritten
<1> SUFFICES ASSUME NEW doc \in docs, doc.pair \notin overwritten
             PROVE  AcceptedPub(doc) \/ AcceptedMac(doc) \/ (doc.scheme = "hmac" /\ ~receipt)
  BY DEF SignedVerifiesUntilOverwritten
<1>1. CASE doc.scheme = "ed25519"
  <2>1. doc.pair \in SignedPairs \ overwritten
    BY <1>1 DEF SignedPairs
  <2> QED
    BY <1>1, <2>1 DEF KeysInv, PairStands, AcceptedPub, PubVerifies
<1>2. CASE doc.scheme = "hmac"
  BY <1>2 DEF KeysInv, MacStands, AcceptedMac, MacVerifies, HmacLoadable
<1> QED
  BY <1>1, <1>2 DEF KeysInv, MacStands

\* From the moment of a signature until somebody begins to overwrite its
\* pair, that pair is installed with no journal, and whoever holds the lock
\* has nothing to do to it; the HMAC key is created once (pubkey.py 497-627,
\* 864-999; signing.py 242-311).
THEOREM KeysInvariant == ASSUME KeysAssumption PROVE KeysSpec => []KeysInv
<1>1. KeysInit => KeysInv
  BY KeysInitInv
<1>2. KeysInv /\ [KeysNext]_keysVars => KeysInv'
  <2>1. ASSUME KeysInv, KeysNext PROVE KeysInv'
    BY <2>1, KeysLock, KeysMac DEF KeysInv
  <2>2. ASSUME KeysInv, UNCHANGED keysVars PROVE KeysInv'
    BY <2>2 DEF KeysInv, keysVars, UserShape, RecoveryEnds, PairStands, SignedPairs, MacStands
  <2> QED
    BY <2>1, <2>2
<1> QED
  BY <1>1, <1>2, PTL DEF KeysSpec

\* A signed document goes on being accepted, at any moment and with no
\* recovery before, until somebody begins to overwrite the pair that signed
\* it or its receipt is void (cli.py 1029-1056, 1133-1149, 1255-1296).
THEOREM SignedVerifiesTheorem ==
    ASSUME KeysAssumption PROVE KeysSpec => []SignedVerifiesUntilOverwritten
<1> QED
  BY KeysInvariant, KeysVerify, PTL

-----------------------------------------------------------------------------
(***************************************************************************)
(* The pair a recovery finds.  Every operation of a recovery, a save or a  *)
(* rollback leaves Recovered as it was, or moves it as AtomicPair allows;  *)
(* that rests on what is in the files when the operation's turn comes.     *)
(* The plans say it: for each list of operations that may be left to do,   *)
(* what the files and the journal are then.                                *)
(***************************************************************************)

Baks == {"priv_bak", "pub_bak"}
Journals == {NoJournal} \cup [phase : Phases, baks : SUBSET Baks]
Named(j, bak) == bak \in j.baks
Restoring == {"pub_backed", "pub_installed", "priv_backed"}
Keeping == {"priv_installed", "complete"}
Then(s, t) == <<s>> \o t

KeyTypes ==
    /\ key \in [KeyFiles -> Nat] /\ journal \in Journals
    /\ generated \in Nat /\ \A f \in KeyFiles : key[f] <= generated
    /\ user.doing \in {"save", "rollback"} => user.cmd \in {"keygen", "rotate"}
    /\ user.cmd \in {"keygen", "rotate"} =>
          /\ user.pair \in 1..MaxPairs /\ user.pair <= generated
          /\ user.doing = "recover" => \A f \in KeyFiles : key[f] < user.pair

\* What no kill disturbs.
AtRest(k, j) ==
    /\ j.phase \in {"none", "intent", "staged", "fresh_priv_installed"} => j.baks = {}
    /\ j.phase = "fresh_priv_installed" => k["priv_bak"] = 0 /\ k["pub_bak"] = 0

BothOrNone(k) == (k["priv"] = 0) = (k["pub"] = 0)
Unbacked(k) == k["priv_bak"] = 0 /\ k["pub_bak"] = 0
Freed(k, j, bak) == Named(j, bak) => k[bak] = 0

\* What is left of a recovery.
Temps(t) == Then(Drop("priv_tmp"), Then(Drop("pub_tmp"), t))
Orphans == Then(Settle("priv_bak"), Then(Settle("pub_bak"), Temps(<<>>)))
Ends == Then(Unjournal, Orphans)
DropsPub(j) == DropIfNamed(j, "pub_bak") \o Ends
Drops(j) == DropIfNamed(j, "priv_bak") \o DropsPub(j)
RestoresPub(j) == RestoreNamed(j, "pub_bak") \o Drops(j)
Restores(j) == RestoreNamed(j, "priv_bak") \o RestoresPub(j)

OrphansPlan(t, k, j) ==
    /\ j = NoJournal
    /\ \/ t = Orphans
       \/ t = Then(Settle("pub_bak"), Temps(<<>>)) /\ k["priv_bak"] = 0
       \/ t = Temps(<<>>) /\ Unbacked(k)
       \/ t = Then(Drop("pub_tmp"), <<>>) /\ Unbacked(k) /\ k["priv_tmp"] = 0
       \/ t = <<>> /\ Unbacked(k) /\ k["priv_tmp"] = 0 /\ k["pub_tmp"] = 0

\* With the journal still there: at last nothing is left of what it names.
EndsPlan(t, k, j) ==
    \/ /\ t = Then(Drop("priv_bak"), DropsPub(j)) /\ Named(j, "priv_bak")
       /\ j.phase \in Restoring \cup Keeping
       /\ j.phase \in Restoring => Freed(k, j, "priv_bak") /\ Freed(k, j, "pub_bak")
    \/ /\ t = Then(Drop("pub_bak"), Ends) /\ Named(j, "pub_bak")
       /\ j.phase \in Restoring \cup Keeping
       /\ Freed(k, j, "priv_bak")
       /\ j.phase \in Restoring => Freed(k, j, "pub_bak")
    \/ /\ t = Ends
       /\ Freed(k, j, "priv_bak") /\ Freed(k, j, "pub_bak")
       /\ j.phase = "fresh_priv_installed" => BothOrNone(k)

RestorePlan(t, k, j) ==
    /\ j.phase \in Restoring
    /\ \/ /\ t = Then(Yield("priv_bak"), Then(Move("priv_bak", "priv"), RestoresPub(j)))
          /\ Named(j, "priv_bak")
       \/ t = Then(Move("priv_bak", "priv"), RestoresPub(j)) /\ Named(j, "priv_bak")
       \/ /\ t = Then(Yield("pub_bak"), Then(Move("pub_bak", "pub"), Drops(j)))
          /\ Named(j, "pub_bak") /\ Freed(k, j, "priv_bak")
       \/ /\ t = Then(Move("pub_bak", "pub"), Drops(j))
          /\ Named(j, "pub_bak") /\ Freed(k, j, "priv_bak")

\* What follows the temporaries of a journal.
Follows(j) ==
    CASE j.phase \in Restoring -> Restores(j)
      [] j.phase \in Keeping -> Drops(j)
      [] OTHER -> Ends

TempsPlan(t, k, j) ==
    /\ j.phase = "fresh_priv_installed" => BothOrNone(k)
    /\ t = Temps(Follows(j)) \/ t = Then(Drop("pub_tmp"), Follows(j))

FreshPlan(t, k, j) ==
    /\ j.phase = "fresh_priv_installed" /\ (k["priv"] = 0 \/ k["pub"] = 0)
    /\ \/ t = Then(Drop("priv"), Then(Drop("pub"), Temps(Ends)))
       \/ t = Then(Drop("pub"), Temps(Ends)) /\ k["priv"] = 0

RecoverPlan(t, k, j) ==
    \/ OrphansPlan(t, k, j) \/ EndsPlan(t, k, j) \/ RestorePlan(t, k, j)
    \/ TempsPlan(t, k, j) \/ FreshPlan(t, k, j)

\* What is left of a rollback.
Closing == Temps(Then(Unjournal, <<>>))
PutBackPub == Then(Yield("pub_bak"), Then(Move("pub_bak", "pub"), Closing))
PutBack == Then(Yield("priv_bak"), Then(Move("priv_bak", "priv"), PutBackPub))
DropsNew == Then(Drop("pub"), PutBack)

\* A backup that the journal does not name is of a file that is not there.
Unnamed(k, j, bak) == Named(j, bak) \/ k[bak] = 0 \/ k[Final(bak)] = 0

PutBackPlan(t, k, j) ==
    /\ j.phase = "fresh_priv_installed" => BothOrNone(k)
    /\ j.phase \in Keeping => Unbacked(k)
    /\ \/ /\ t \in {PutBack, Then(Move("priv_bak", "priv"), PutBackPub)}
          /\ Unnamed(k, j, "priv_bak") /\ Unnamed(k, j, "pub_bak")
       \/ /\ t \in {PutBackPub, Then(Move("pub_bak", "pub"), Closing)}
          /\ k["priv_bak"] = 0 /\ Unnamed(k, j, "pub_bak")
       \/ /\ t \in {Closing, Then(Drop("pub_tmp"), Then(Unjournal, <<>>)), Then(Unjournal, <<>>)}
          /\ Unbacked(k)
       \/ t = <<>>

\* A public file may be dropped: it has its backup, or it is half of no pair.
Droppable(k, j) ==
    \/ Named(j, "pub_bak") /\ k["pub_bak"] # 0
    \/ /\ k["pub_bak"] = 0
       /\ k["pub"] = 0 \/ Recovered(k, j)[1] \notin {0, k["pub"]}

HandlerPlan(t, k, j) ==
    \/ /\ t = Then(Drop("priv"), PutBack) /\ j.phase = "fresh_priv_installed" /\ k["pub"] = 0
    \/ /\ j.phase \in {"staged", "pub_installed", "priv_backed"} /\ Droppable(k, j)
       /\ Unnamed(k, j, "priv_bak")
       /\ \/ /\ k["priv"] = 0
             /\ t = Then(Drop("priv"),
                         Then(Yield("priv_bak"), Then(Move("priv_bak", "priv"), DropsNew)))
          \/ t = Then(Yield("priv_bak"), Then(Move("priv_bak", "priv"), DropsNew))
          \/ t = Then(Move("priv_bak", "priv"), DropsNew)
          \/ t = DropsNew /\ k["priv_bak"] = 0

RollbackPlan(t, k, j) == PutBackPlan(t, k, j) \/ HandlerPlan(t, k, j)

\* What is left of a save of generation g.
Settled == Then(Commit("complete"), Then(Unjournal, <<>>))
InstallsPub == Then(Move("pub_tmp", "pub"), Settled)
Creates == Then(Move("priv_tmp", "priv"), Then(Commit("fresh_priv_installed"), InstallsPub))
Discards == Then(Drop("priv_bak"), Then(Drop("pub_bak"), Settled))
Finishes == Then(Move("priv_tmp", "priv"), Then(Commit("priv_installed"), Discards))
Swaps(k) ==
    IF k["priv"] # 0 THEN Then(Move("priv", "priv_bak"), Then(Commit("priv_backed"), Finishes))
    ELSE Finishes
Installs(k) == Then(Move("pub_tmp", "pub"), Then(Commit("pub_installed"), Swaps(k)))
Rotates(k) ==
    IF k["pub"] # 0 THEN Then(Move("pub", "pub_bak"), Then(Commit("pub_backed"), Installs(k)))
    ELSE Installs(k)
Body(k) == IF k["priv"] = 0 /\ k["pub"] = 0 THEN Creates ELSE Rotates(k)
StagesPub(k) == Then(Write("pub_tmp"), Then(Commit("staged"), Body(k)))

At(phase, baks) == [phase |-> phase, baks |-> baks]

StagePlan(t, k, j, g) ==
    /\ Unbacked(k) /\ k["priv"] # g
    /\ \/ j = NoJournal /\ t = Then(Commit("intent"), Then(Write("priv_tmp"), StagesPub(k)))
       \/ j = At("intent", {}) /\ t = Then(Write("priv_tmp"), StagesPub(k))
       \/ j = At("intent", {}) /\ t = StagesPub(k) /\ k["priv_tmp"] = g
       \/ j = At("intent", {}) /\ t = Then(Commit("staged"), Body(k)) /\ k["priv_tmp"] = g /\ k["pub_tmp"] = g

CreatePlan(t, k, j, g) ==
    /\ Unbacked(k)
    /\ \/ /\ j = At("staged", {}) /\ t = Creates
          /\ k["priv"] = 0 /\ k["pub"] = 0 /\ k["priv_tmp"] = g /\ k["pub_tmp"] = g
       \/ /\ j = At("staged", {}) /\ t = Then(Commit("fresh_priv_installed"), InstallsPub)
          /\ k["priv"] = g /\ k["pub"] = 0 /\ k["pub_tmp"] = g
       \/ /\ j = At("fresh_priv_installed", {}) /\ t = InstallsPub
          /\ k["priv"] = g /\ k["pub"] = 0 /\ k["pub_tmp"] = g
       \/ /\ j = At("fresh_priv_installed", {}) /\ t = Settled
          /\ k["priv"] = g /\ k["pub"] = g

\* The public half had a file, which is its backup; or it had none, and the
\* private half that recovery keeps is another generation's.
PubKept(k, j, g) ==
    \/ Named(j, "pub_bak") /\ k["pub_bak"] # 0
    \/ ~Named(j, "pub_bak") /\ k["pub_bak"] = 0 /\ Recovered(k, j)[1] \notin {0, g}

\* So had the private half.
PrivKept(k, j) ==
    \/ j.phase = "priv_backed" /\ Named(j, "priv_bak") /\ k["priv_bak"] # 0
    \/ j.phase = "pub_installed" /\ ~Named(j, "priv_bak") /\ k["priv_bak"] = 0 /\ Named(j, "pub_bak")

RotatePlan(t, k, j, g) ==
    \/ /\ t = Then(Move("pub", "pub_bak"), Then(Commit("pub_backed"), Installs(k)))
       /\ j = At("staged", {}) /\ Unbacked(k) /\ k["pub"] # 0
       /\ k["priv_tmp"] = g /\ k["pub_tmp"] = g
    \/ /\ t = Then(Commit("pub_backed"), Installs(k))
       /\ j = At("staged", {}) /\ k["pub_bak"] # 0 /\ k["priv_bak"] = 0 /\ k["pub"] = 0
       /\ k["priv_tmp"] = g /\ k["pub_tmp"] = g
    \/ /\ t = Installs(k)
       /\ j \in {At("staged", {}), At("pub_backed", {"pub_bak"})}
       /\ PubKept(k, j, g) /\ k["priv_bak"] = 0 /\ k["pub"] = 0
       /\ k["priv_tmp"] = g /\ k["pub_tmp"] = g
    \/ /\ t = Then(Commit("pub_installed"), Swaps(k))
       /\ j \in {At("staged", {}), At("pub_backed", {"pub_bak"})}
       /\ PubKept(k, j, g) /\ k["priv_bak"] = 0 /\ k["pub"] = g /\ k["priv_tmp"] = g
    \/ /\ t = Then(Move("priv", "priv_bak"), Then(Commit("priv_backed"), Finishes))
       /\ j \in {At("pub_installed", {}), At("pub_installed", {"pub_bak"})}
       /\ PubKept(k, j, g) /\ k["priv_bak"] = 0 /\ k["priv"] # 0 /\ k["pub"] = g
       /\ k["priv_tmp"] = g
    \/ /\ t = Then(Commit("priv_backed"), Finishes)
       /\ j \in {At("pub_installed", {}), At("pub_installed", {"pub_bak"})}
       /\ PubKept(k, j, g) /\ k["priv_bak"] # 0 /\ k["priv"] = 0 /\ k["pub"] = g
       /\ k["priv_tmp"] = g
    \/ /\ t = Finishes
       /\ PubKept(k, j, g) /\ PrivKept(k, j) /\ k["priv"] = 0 /\ k["pub"] = g /\ k["priv_tmp"] = g
    \/ /\ t = Then(Commit("priv_installed"), Discards)
       /\ PubKept(k, j, g) /\ PrivKept(k, j) /\ k["priv"] = g /\ k["pub"] = g

SettlePlan(t, k, j, g) ==
    \/ t = Discards /\ j.phase = "priv_installed" /\ k["priv"] = g /\ k["pub"] = g
    \/ /\ t = Then(Drop("pub_bak"), Settled) /\ j.phase = "priv_installed"
       /\ k["priv_bak"] = 0 /\ k["priv"] = g /\ k["pub"] = g
    \/ t = Settled /\ j.phase = "priv_installed" /\ Unbacked(k) /\ k["priv"] = g /\ k["pub"] = g
    \/ t = Then(Unjournal, <<>>) /\ j.phase = "complete" /\ Unbacked(k)
    \/ t = <<>>

SavePlan(t, k, j, g) ==
    \/ StagePlan(t, k, j, g) \/ CreatePlan(t, k, j, g)
    \/ RotatePlan(t, k, j, g) \/ SettlePlan(t, k, j, g)

PairInv ==
    /\ KeyTypes /\ AtRest(key, journal)
    /\ user.doing = "recover" => RecoverPlan(user.todo, key, journal)
    /\ user.doing = "save" => SavePlan(user.todo, key, journal, user.pair)
    /\ user.doing = "rollback" => RollbackPlan(user.todo, key, journal)

LEMMA ThenStep ==
    ASSUME NEW s \in FileOps, NEW t \in Seq(FileOps)
    PROVE  /\ Then(s, t) \in Seq(FileOps) /\ Then(s, t) # <<>>
           /\ Head(Then(s, t)) = s /\ Tail(Then(s, t)) = t
BY DEF Then

\* One step of a list: the files and the journal after its first operation.
Stepped(t, k, j, g, k2, j2) ==
    t # <<>> /\ k2 = FilesAfter(k, Head(t), g) /\ j2 = JournalAfter(j, Head(t))

LEMMA WriteDone ==
    ASSUME NEW t, NEW k, NEW j, NEW g, NEW k2, NEW j2, Stepped(t, k, j, g, k2, j2),
           NEW f, Head(t) = Write(f)
    PROVE  k2 = [k EXCEPT ![f] = g] /\ j2 = j
<1>1. Write(f).op = "write" /\ Write(f).file = f
  BY DEF Write
<1>2. Head(t).op = "write" /\ Head(t).file = f
  BY <1>1
<1> QED
  BY <1>2 DEF Stepped, FilesAfter, JournalAfter

LEMMA DropDone ==
    ASSUME NEW t, NEW k, NEW j, NEW g, NEW k2, NEW j2, Stepped(t, k, j, g, k2, j2),
           NEW f, Head(t) = Drop(f)
    PROVE  k2 = [k EXCEPT ![f] = 0] /\ j2 = j
<1>1. Drop(f).op = "drop" /\ Drop(f).file = f
  BY DEF Drop
<1>2. Head(t).op = "drop" /\ Head(t).file = f
  BY <1>1
<1> QED
  BY <1>2 DEF Stepped, FilesAfter, JournalAfter

LEMMA MoveDone ==
    ASSUME NEW t, NEW k, NEW j, NEW g, NEW k2, NEW j2, Stepped(t, k, j, g, k2, j2),
           NEW f, NEW to, Head(t) = Move(f, to)
    PROVE  /\ k2 = IF k[f] = 0 THEN k ELSE [k EXCEPT ![to] = k[f], ![f] = 0]
           /\ j2 = j
<1>1. Head(t).op = "move" /\ Head(t).file = f /\ Head(t).arg = to
  BY DEF Move
<1> QED
  BY <1>1 DEF Stepped, FilesAfter, JournalAfter, Moved

LEMMA YieldDone ==
    ASSUME NEW t, NEW k, NEW j, NEW g, NEW k2, NEW j2, Stepped(t, k, j, g, k2, j2),
           NEW bak, Head(t) = Yield(bak)
    PROVE  k2 = (IF k[bak] = 0 THEN k ELSE [k EXCEPT ![Final(bak)] = 0]) /\ j2 = j
<1>1. Head(t).op = "yield" /\ Head(t).file = bak /\ Head(t).arg = Final(bak)
  BY DEF Yield
<1> QED
  BY <1>1 DEF Stepped, FilesAfter, JournalAfter

LEMMA SettleDone ==
    ASSUME NEW t, NEW k, NEW j, NEW g, NEW k2, NEW j2, Stepped(t, k, j, g, k2, j2),
           NEW bak, Head(t) = Settle(bak)
    PROVE  /\ k2 = IF k[Final(bak)] = 0
                   THEN IF k[bak] = 0 THEN k ELSE [k EXCEPT ![Final(bak)] = k[bak], ![bak] = 0]
                   ELSE [k EXCEPT ![bak] = 0]
           /\ j2 = j
<1>1. Head(t).op = "settle" /\ Head(t).file = bak /\ Head(t).arg = Final(bak)
  BY DEF Settle
<1>2. k2 = (IF k[Final(bak)] = 0 THEN Moved(k, bak, Final(bak)) ELSE [k EXCEPT ![bak] = 0]) /\ j2 = j
  BY <1>1 DEF Stepped, FilesAfter, JournalAfter
<1> QED
  BY <1>2 DEF Moved

LEMMA CommitDone ==
    ASSUME NEW t, NEW k, NEW j, NEW g, NEW k2, NEW j2, Stepped(t, k, j, g, k2, j2),
           NEW phase, Head(t) = Commit(phase)
    PROVE  /\ k2 = k
           /\ j2 = At(phase, j.baks \cup (IF phase = "pub_backed" THEN {"pub_bak"}
                                          ELSE IF phase = "priv_backed" THEN {"priv_bak"} ELSE {}))
<1>1. Commit(phase).op = "commit" /\ Commit(phase).arg = phase
  BY DEF Commit
<1>2. Head(t).op = "commit" /\ Head(t).arg = phase
  BY <1>1
<1> QED
  BY <1>2 DEF Stepped, FilesAfter, JournalAfter, At

LEMMA UnjournalDone ==
    ASSUME NEW t, NEW k, NEW j, NEW g, NEW k2, NEW j2, Stepped(t, k, j, g, k2, j2),
           Head(t) = Unjournal
    PROVE  k2 = k /\ j2 = NoJournal
<1>1. Unjournal.op = "unjournal"
  BY DEF Unjournal
<1>2. Head(t).op = "unjournal"
  BY <1>1
<1> QED
  BY <1>2 DEF Stepped, FilesAfter, JournalAfter

LEMMA Regroup ==
    ASSUME NEW s \in Seq(FileOps), NEW t \in Seq(FileOps), NEW u \in Seq(FileOps)
    PROVE  (s \o t) \o u = s \o (t \o u)
OBVIOUS

LEMMA PairOfSteps == ASSUME NEW a, NEW b PROVE <<a, b>> = <<a>> \o <<b>>
<1> DEFINE joined == <<a>> \o <<b>>
           both == <<a, b>>
<1>1. joined \in Seq({a, b}) /\ both \in Seq({a, b})
  OBVIOUS
<1>2. Len(joined) = 2 /\ Len(both) = 2
  OBVIOUS
<1>3. joined[1] = a /\ joined[2] = b /\ both[1] = a /\ both[2] = b
  OBVIOUS
<1> HIDE DEF joined, both
<1>4. Len(joined) = Len(both) /\ \A i \in 1..Len(joined) : joined[i] = both[i]
  BY <1>2, <1>3
<1>5. joined = both
  BY <1>1, <1>4, SeqEqual
<1> QED
  BY <1>5 DEF joined, both

LEMMA ThenOne == ASSUME NEW a PROVE <<a>> = Then(a, <<>>)
BY DEF Then

LEMMA ThenTwo ==
    ASSUME NEW a \in FileOps, NEW b \in FileOps, NEW t \in Seq(FileOps)
    PROVE  <<a, b>> \o t = Then(a, Then(b, t)) /\ <<a>> \o t = Then(a, t) /\ <<>> \o t = t
<1>1. <<a, b>> \o t = (<<a>> \o <<b>>) \o t
  BY PairOfSteps
<1>2. (<<a>> \o <<b>>) \o t = <<a>> \o (<<b>> \o t)
  OBVIOUS
<1>3. <<>> \o t = t
  OBVIOUS
<1> QED
  BY <1>1, <1>2, <1>3 DEF Then

LEMMA SaveOps ==
    /\ \A f \in KeyFiles : Write(f) \in FileOps /\ Drop(f) \in FileOps
    /\ \A f \in KeyFiles, g \in KeyFiles : Move(f, g) \in FileOps
    /\ Unjournal \in FileOps /\ \A p \in Phases : Commit(p) \in FileOps
    /\ \A bak \in Baks : Yield(bak) \in FileOps /\ Settle(bak) \in FileOps /\ bak \in KeyFiles
    /\ {"priv", "pub", "priv_tmp", "pub_tmp", "priv_bak", "pub_bak"} \subseteq KeyFiles
BY OpsTyped DEF Baks, KeyFiles

LEMMA RecoverLists ==
    /\ \A t \in Seq(FileOps) : Temps(t) \in Seq(FileOps)
    /\ Orphans \in Seq(FileOps) /\ Ends \in Seq(FileOps)
    /\ \A j : /\ DropsPub(j) \in Seq(FileOps) /\ Drops(j) \in Seq(FileOps)
              /\ RestoresPub(j) \in Seq(FileOps) /\ Restores(j) \in Seq(FileOps)
              /\ Follows(j) \in Seq(FileOps)
<1> USE SaveOps
<1>1. ASSUME NEW t \in Seq(FileOps) PROVE Temps(t) \in Seq(FileOps)
  BY ThenStep DEF Temps, KeyFiles
<1>2. Orphans \in Seq(FileOps)
  BY <1>1, ThenStep, NoStep DEF Orphans, Baks
<1>3. Ends \in Seq(FileOps)
  BY <1>2, ThenStep DEF Ends
<1>4. ASSUME NEW j, NEW bak \in Baks
      PROVE  DropIfNamed(j, bak) \in Seq(FileOps) /\ RestoreNamed(j, bak) \in Seq(FileOps)
  <2>1. RestoreNamed(j, bak) \in Seq(FileOps)
    BY RecoveryParts, OpsTyped, StepsWithin DEF Baks
  <2>2. DropIfNamed(j, bak) \in Seq(FileOps)
    BY OneStep, NoStep DEF DropIfNamed
  <2> QED
    BY <2>1, <2>2
<1>5. ASSUME NEW j
      PROVE  /\ DropsPub(j) \in Seq(FileOps) /\ Drops(j) \in Seq(FileOps)
             /\ RestoresPub(j) \in Seq(FileOps) /\ Restores(j) \in Seq(FileOps)
  <2>1. DropsPub(j) \in Seq(FileOps)
    BY <1>3, <1>4, ThenSteps DEF DropsPub, Baks
  <2>2. Drops(j) \in Seq(FileOps)
    BY <2>1, <1>4, ThenSteps DEF Drops, Baks
  <2>3. RestoresPub(j) \in Seq(FileOps)
    BY <2>2, <1>4, ThenSteps DEF RestoresPub, Baks
  <2>4. Restores(j) \in Seq(FileOps)
    BY <2>3, <1>4, ThenSteps DEF Restores, Baks
  <2> QED
    BY <2>1, <2>2, <2>3, <2>4
<1>6. \A j : Follows(j) \in Seq(FileOps)
  BY <1>3, <1>5 DEF Follows
<1> QED
  BY <1>1, <1>2, <1>3, <1>5, <1>6

LEMMA RollbackLists ==
    /\ Closing \in Seq(FileOps) /\ PutBackPub \in Seq(FileOps)
    /\ PutBack \in Seq(FileOps) /\ DropsNew \in Seq(FileOps)
<1> USE SaveOps
<1>1. Closing \in Seq(FileOps)
  BY ThenStep, NoStep, RecoverLists DEF Closing
<1>2. PutBackPub \in Seq(FileOps)
  BY <1>1, ThenStep DEF PutBackPub, Baks
<1>3. PutBack \in Seq(FileOps)
  BY <1>2, ThenStep DEF PutBack, Baks
<1>4. DropsNew \in Seq(FileOps)
  BY <1>3, ThenStep DEF DropsNew
<1> QED
  BY <1>1, <1>2, <1>3, <1>4

LEMMA SaveLists ==
    /\ Settled \in Seq(FileOps) /\ InstallsPub \in Seq(FileOps) /\ Creates \in Seq(FileOps)
    /\ Discards \in Seq(FileOps) /\ Finishes \in Seq(FileOps)
    /\ \A k : /\ Swaps(k) \in Seq(FileOps) /\ Installs(k) \in Seq(FileOps)
              /\ Body(k) \in Seq(FileOps) /\ StagesPub(k) \in Seq(FileOps)
<1> USE SaveOps DEF Phases
<1>1. Settled \in Seq(FileOps)
  BY ThenStep, NoStep DEF Settled
<1>2. InstallsPub \in Seq(FileOps)
  BY <1>1, ThenStep DEF InstallsPub
<1>3. Creates \in Seq(FileOps)
  BY <1>2, ThenStep DEF Creates
<1>4. Discards \in Seq(FileOps)
  BY <1>1, ThenStep DEF Discards
<1>5. Finishes \in Seq(FileOps)
  BY <1>4, ThenStep DEF Finishes
<1>6. \A k : Swaps(k) \in Seq(FileOps)
  BY <1>5, ThenStep DEF Swaps
<1>7. \A k : Installs(k) \in Seq(FileOps)
  BY <1>6, ThenStep DEF Installs
<1>8. \A k : Rotates(k) \in Seq(FileOps)
  BY <1>7, ThenStep DEF Rotates
<1>9. \A k : Body(k) \in Seq(FileOps)
  BY <1>3, <1>8 DEF Body
<1>10. \A k : StagesPub(k) \in Seq(FileOps)
  BY <1>9, ThenStep DEF StagesPub
<1> QED
  BY <1>1, <1>2, <1>3, <1>4, <1>5, <1>6, <1>7, <1>9, <1>10

\* k2 and j2 are the files and the journal after an operation that a kill, or
\* the next use, cannot tell from none.
Kept(k, j, k2, j2) == AtRest(k2, j2) /\ Recovered(k2, j2) = Recovered(k, j)
\* The temporaries are no part of the pair.
LEMMA TempsKept ==
    ASSUME NEW k \in [KeyFiles -> Nat], NEW j, NEW k2, NEW f \in {"priv_tmp", "pub_tmp"}, NEW v,
           k2 = [k EXCEPT ![f] = v], AtRest(k, j)
    PROVE  /\ Kept(k, j, k2, j)
           /\ k2["priv"] = k["priv"] /\ k2["pub"] = k["pub"]
           /\ k2["priv_bak"] = k["priv_bak"] /\ k2["pub_bak"] = k["pub_bak"]
<1>1. /\ k2["priv"] = k["priv"] /\ k2["pub"] = k["pub"]
      /\ k2["priv_bak"] = k["priv_bak"] /\ k2["pub_bak"] = k["pub_bak"]
  BY DEF KeyFiles
<1>2. Recovered(k2, j) = Recovered(k, j)
  BY <1>1 DEF Recovered, RecoversTo
<1> QED
  BY <1>1, <1>2 DEF Kept, AtRest

LEMMA OrphansStep ==
    ASSUME NEW k \in [KeyFiles -> Nat], NEW j, NEW t, NEW g, NEW k2, NEW j2,
           AtRest(k, j), OrphansPlan(t, k, j), Stepped(t, k, j, g, k2, j2)
    PROVE  Kept(k, j, k2, j2) /\ OrphansPlan(Tail(t), k2, j2)
<1> USE DEF Baks
<1>1. j = NoJournal
  BY DEF OrphansPlan
<1> DEFINE last == Then(Drop("pub_tmp"), <<>>)
           rest == Then(Settle("pub_bak"), Temps(<<>>))
<1>0. last \in Seq(FileOps) /\ Temps(<<>>) \in Seq(FileOps) /\ rest \in Seq(FileOps)
  BY SaveOps, RecoverLists, ThenStep, NoStep
<1>2. CASE t = Orphans
  <2>1. Head(t) = Settle("priv_bak") /\ Tail(t) = rest
    BY <1>0, <1>2, ThenStep, SaveOps DEF Orphans
  <2>3. /\ j2 = j
        /\ k2["priv_bak"] = 0 /\ k2["pub"] = k["pub"] /\ k2["pub_bak"] = k["pub_bak"]
        /\ k2["priv"] = IF k["priv"] = 0 THEN k["priv_bak"] ELSE k["priv"]
    BY <2>1, SettleDone DEF Final, KeyFiles
  <2>4. Kept(k, j, k2, j2)
    BY <1>1, <2>3 DEF Kept, AtRest, Recovered, RecoversTo, NoJournal
  <2> QED
    BY <1>1, <2>1, <2>3, <2>4 DEF OrphansPlan
<1>3. CASE t = rest /\ k["priv_bak"] = 0
  <2>1. Head(t) = Settle("pub_bak") /\ Tail(t) = Temps(<<>>)
    BY <1>0, <1>3, ThenStep, SaveOps
  <2>3. /\ j2 = j
        /\ k2["pub_bak"] = 0 /\ k2["priv"] = k["priv"] /\ k2["priv_bak"] = k["priv_bak"]
        /\ k2["pub"] = IF k["pub"] = 0 THEN k["pub_bak"] ELSE k["pub"]
    BY <2>1, SettleDone DEF Final, KeyFiles
  <2>4. Kept(k, j, k2, j2)
    BY <1>1, <2>3 DEF Kept, AtRest, Recovered, RecoversTo, NoJournal
  <2> QED
    BY <1>1, <1>3, <2>1, <2>3, <2>4 DEF OrphansPlan, Unbacked
<1>4. CASE t = Temps(<<>>) /\ Unbacked(k)
  <2>1. Head(t) = Drop("priv_tmp") /\ Tail(t) = last
    BY <1>0, <1>4, ThenStep, SaveOps DEF Temps
  <2>2. k2 = [k EXCEPT !["priv_tmp"] = 0] /\ j2 = j
    BY <2>1, DropDone
  <2>3. k2["priv_tmp"] = 0
    BY <2>2 DEF KeyFiles
  <2> QED
    BY <1>1, <1>4, <2>1, <2>2, <2>3, TempsKept DEF OrphansPlan, Unbacked
<1>5. CASE t = last /\ Unbacked(k) /\ k["priv_tmp"] = 0
  <2>1. Head(t) = Drop("pub_tmp") /\ Tail(t) = <<>>
    BY <1>5, ThenStep, NoStep, SaveOps
  <2>2. k2 = [k EXCEPT !["pub_tmp"] = 0] /\ j2 = j
    BY <2>1, DropDone
  <2>3. k2["pub_tmp"] = 0 /\ k2["priv_tmp"] = 0
    BY <1>5, <2>2 DEF KeyFiles
  <2> QED
    BY <1>1, <1>5, <2>1, <2>2, <2>3, TempsKept DEF OrphansPlan, Unbacked
<1> QED
  BY <1>2, <1>3, <1>4, <1>5 DEF OrphansPlan, Stepped

LEMMA DropsNext ==
    ASSUME NEW k, NEW j, NEW t, j.phase \in Restoring \cup Keeping, Freed(k, j, "priv_bak") \/ t = Drops(j),
           j.phase \in Restoring => Freed(k, j, "priv_bak") /\ Freed(k, j, "pub_bak"),
           t = Drops(j) \/ t = DropsPub(j)
    PROVE  EndsPlan(t, k, j)
<1> USE SaveOps, RecoverLists DEF Baks
<1>0. j.phase # "fresh_priv_installed"
  BY DEF Restoring, Keeping
<1>1. ASSUME t = DropsPub(j), Freed(k, j, "priv_bak") PROVE EndsPlan(t, k, j)
  <2>1. CASE Named(j, "pub_bak")
    <3>1. DropIfNamed(j, "pub_bak") = <<Drop("pub_bak")>>
      BY <2>1 DEF DropIfNamed, Named
    <3>2. t = Then(Drop("pub_bak"), Ends)
      BY <1>1, <3>1 DEF DropsPub, Then
    <3> QED
      BY <1>1, <2>1, <3>2 DEF EndsPlan
  <2>2. CASE ~Named(j, "pub_bak")
    <3>1. DropIfNamed(j, "pub_bak") = <<>>
      BY <2>2 DEF DropIfNamed, Named
    <3>2. t = Ends
      BY <1>1, <3>1, ThenTwo DEF DropsPub
    <3> QED
      BY <1>0, <1>1, <2>2, <3>2 DEF EndsPlan, Freed
  <2> QED
    BY <2>1, <2>2
<1>2. ASSUME t = Drops(j) PROVE EndsPlan(t, k, j)
  <2>1. CASE Named(j, "priv_bak")
    <3>1. DropIfNamed(j, "priv_bak") = <<Drop("priv_bak")>>
      BY <2>1 DEF DropIfNamed, Named
    <3>2. t = Then(Drop("priv_bak"), DropsPub(j))
      BY <1>2, <3>1 DEF Drops, Then
    <3> QED
      BY <2>1, <3>2 DEF EndsPlan
  <2>2. CASE ~Named(j, "priv_bak")
    <3>1. DropIfNamed(j, "priv_bak") = <<>>
      BY <2>2 DEF DropIfNamed, Named
    <3>2. t = DropsPub(j)
      BY <1>2, <3>1, ThenTwo DEF Drops
    <3> QED
      BY <1>1, <2>2, <3>2 DEF Freed
  <2> QED
    BY <2>1, <2>2
<1> QED
  BY <1>1, <1>2

LEMMA EndsStep ==
    ASSUME NEW k \in [KeyFiles -> Nat], NEW j \in Journals, NEW t, NEW g, NEW k2, NEW j2,
           AtRest(k, j), EndsPlan(t, k, j), Stepped(t, k, j, g, k2, j2)
    PROVE  Kept(k, j, k2, j2) /\ RecoverPlan(Tail(t), k2, j2)
<1> USE DEF Baks
<1>0. /\ Drop("priv_bak") \in FileOps /\ Drop("pub_bak") \in FileOps /\ Unjournal \in FileOps
      /\ DropsPub(j) \in Seq(FileOps) /\ Ends \in Seq(FileOps) /\ Orphans \in Seq(FileOps)
  BY SaveOps, RecoverLists
<1>1. CASE /\ t = Then(Drop("priv_bak"), DropsPub(j)) /\ Named(j, "priv_bak")
           /\ j.phase \in Restoring \cup Keeping
           /\ j.phase \in Restoring => Freed(k, j, "priv_bak") /\ Freed(k, j, "pub_bak")
  <2>1. Head(t) = Drop("priv_bak") /\ Tail(t) = DropsPub(j)
    BY <1>0, <1>1, ThenStep
  <2>2. /\ j2 = j /\ k2["priv_bak"] = 0 /\ k2["pub_bak"] = k["pub_bak"]
        /\ k2["priv"] = k["priv"] /\ k2["pub"] = k["pub"]
    BY <2>1, DropDone DEF KeyFiles
  <2>3. Kept(k, j, k2, j2)
    BY <1>1, <2>2 DEF Kept, AtRest, Recovered, RecoversTo, Named, Freed, Restoring, Keeping
  <2>4. EndsPlan(Tail(t), k2, j2)
    BY <1>1, <2>1, <2>2, DropsNext DEF Freed
  <2> QED
    BY <2>3, <2>4 DEF RecoverPlan
<1>2. CASE /\ t = Then(Drop("pub_bak"), Ends) /\ Named(j, "pub_bak")
           /\ j.phase \in Restoring \cup Keeping
           /\ Freed(k, j, "priv_bak")
           /\ j.phase \in Restoring => Freed(k, j, "pub_bak")
  <2>1. Head(t) = Drop("pub_bak") /\ Tail(t) = Ends
    BY <1>0, <1>2, ThenStep
  <2>2. /\ j2 = j /\ k2["pub_bak"] = 0 /\ k2["priv_bak"] = k["priv_bak"]
        /\ k2["priv"] = k["priv"] /\ k2["pub"] = k["pub"]
    BY <2>1, DropDone DEF KeyFiles
  <2>3. Kept(k, j, k2, j2)
    BY <1>2, <2>2 DEF Kept, AtRest, Recovered, RecoversTo, Named, Freed, Restoring, Keeping
  <2>4. EndsPlan(Tail(t), k2, j2)
    BY <1>2, <2>1, <2>2 DEF EndsPlan, Freed, Restoring, Keeping
  <2> QED
    BY <2>3, <2>4 DEF RecoverPlan
<1>3. CASE /\ t = Ends
           /\ Freed(k, j, "priv_bak") /\ Freed(k, j, "pub_bak")
           /\ j.phase = "fresh_priv_installed" => BothOrNone(k)
  <2>1. Head(t) = Unjournal /\ Tail(t) = Orphans
    BY <1>0, <1>3, ThenStep DEF Ends
  <2>2. j2 = NoJournal /\ k2 = k
    BY <2>1, UnjournalDone
  <2>3. Recovered(k, NoJournal) = Recovered(k, j)
    BY <1>3 DEF Recovered, RecoversTo, NoJournal, Named, Freed, AtRest, BothOrNone, Restoring
  <2>4. Kept(k, j, k2, j2)
    BY <2>2, <2>3 DEF Kept, AtRest, NoJournal
  <2> QED
    BY <2>1, <2>2, <2>4 DEF RecoverPlan, OrphansPlan
<1> QED
  BY <1>1, <1>2, <1>3 DEF EndsPlan

LEMMA RestoreThen ==
    ASSUME NEW bak \in Baks, NEW t \in Seq(FileOps)
    PROVE  Restore(bak) \o t = Then(Yield(bak), Then(Move(bak, Final(bak)), t))
<1>1. Yield(bak) \in FileOps /\ Move(bak, Final(bak)) \in FileOps
  BY SaveOps DEF Baks, Final
<1>2. <<Yield(bak), Move(bak, Final(bak))>> \o t = Then(Yield(bak), Then(Move(bak, Final(bak)), t))
  BY <1>1, ThenTwo
<1> QED
  BY <1>2 DEF Restore

LEMMA RestoresNext ==
    ASSUME NEW k, NEW j, NEW t, j.phase \in Restoring,
           t = Restores(j) \/ (t = RestoresPub(j) /\ Freed(k, j, "priv_bak"))
    PROVE  RestorePlan(t, k, j) \/ EndsPlan(t, k, j)
<1> USE DEF Baks
<1>0. /\ Drops(j) \in Seq(FileOps) /\ RestoresPub(j) \in Seq(FileOps)
      /\ \A bak \in Baks : Yield(bak) \in FileOps /\ Move(bak, Final(bak)) \in FileOps
  BY SaveOps, RecoverLists DEF Final
<1>1. ASSUME NEW bak \in Baks, NEW rest \in Seq(FileOps), NEW list, list = RestoreNamed(j, bak) \o rest
      PROVE  /\ Named(j, bak) => list = Then(Yield(bak), Then(Move(bak, Final(bak)), rest))
             /\ ~Named(j, bak) => list = rest
  <2>1. CASE Named(j, bak)
    <3>1. list = Restore(bak) \o rest
      BY <1>1, <2>1 DEF RestoreNamed, Named
    <3> QED
      BY <1>1, <2>1, <3>1, RestoreThen
  <2>2. CASE ~Named(j, bak)
    <3>1. list = <<>> \o rest
      BY <1>1, <2>2 DEF RestoreNamed, Named
    <3> QED
      BY <2>2, <3>1, ThenTwo
  <2> QED
    BY <2>1, <2>2
<1>2. ASSUME t = RestoresPub(j), Freed(k, j, "priv_bak") PROVE RestorePlan(t, k, j) \/ EndsPlan(t, k, j)
  <2>1. CASE Named(j, "pub_bak")
    <3>1. t = Then(Yield("pub_bak"), Then(Move("pub_bak", "pub"), Drops(j)))
      BY <1>0, <1>1, <1>2, <2>1 DEF RestoresPub, Final
    <3> QED
      BY <1>2, <2>1, <3>1 DEF RestorePlan
  <2>2. CASE ~Named(j, "pub_bak")
    <3>1. t = Drops(j)
      BY <1>0, <1>1, <1>2, <2>2 DEF RestoresPub
    <3>2. Freed(k, j, "pub_bak")
      BY <2>2 DEF Freed
    <3> QED
      BY <1>2, <3>1, <3>2, DropsNext
  <2> QED
    BY <2>1, <2>2
<1>3. ASSUME t = Restores(j) PROVE RestorePlan(t, k, j) \/ EndsPlan(t, k, j)
  <2>1. CASE Named(j, "priv_bak")
    <3>1. t = Then(Yield("priv_bak"), Then(Move("priv_bak", "priv"), RestoresPub(j)))
      BY <1>0, <1>1, <1>3, <2>1 DEF Restores, Final
    <3> QED
      BY <2>1, <3>1 DEF RestorePlan
  <2>2. CASE ~Named(j, "priv_bak")
    <3>1. t = RestoresPub(j)
      BY <1>0, <1>1, <1>3, <2>2 DEF Restores
    <3>2. Freed(k, j, "priv_bak")
      BY <2>2 DEF Freed
    <3> QED
      BY <1>2, <3>1, <3>2
  <2> QED
    BY <2>1, <2>2
<1> QED
  BY <1>2, <1>3

LEMMA RestoreStep ==
    ASSUME NEW k \in [KeyFiles -> Nat], NEW j \in Journals, NEW t, NEW g, NEW k2, NEW j2,
           AtRest(k, j), RestorePlan(t, k, j), Stepped(t, k, j, g, k2, j2)
    PROVE  Kept(k, j, k2, j2) /\ RecoverPlan(Tail(t), k2, j2)
<1> USE DEF Baks
<1> DEFINE movePriv == Then(Move("priv_bak", "priv"), RestoresPub(j))
           movePub == Then(Move("pub_bak", "pub"), Drops(j))
<1>0. /\ Yield("priv_bak") \in FileOps /\ Yield("pub_bak") \in FileOps
      /\ Move("priv_bak", "priv") \in FileOps /\ Move("pub_bak", "pub") \in FileOps
      /\ Drops(j) \in Seq(FileOps) /\ RestoresPub(j) \in Seq(FileOps)
      /\ movePriv \in Seq(FileOps) /\ movePub \in Seq(FileOps)
  BY SaveOps, RecoverLists, ThenStep
<1>1. j.phase \in Restoring
  BY DEF RestorePlan
<1>2. CASE t = Then(Yield("priv_bak"), movePriv) /\ Named(j, "priv_bak")
  <2>1. Head(t) = Yield("priv_bak") /\ Tail(t) = movePriv
    BY <1>0, <1>2, ThenStep
  <2>2. /\ j2 = j /\ k2["pub_bak"] = k["pub_bak"] /\ k2["priv_bak"] = k["priv_bak"]
        /\ k2["priv"] = (IF k["priv_bak"] = 0 THEN k["priv"] ELSE 0) /\ k2["pub"] = k["pub"]
    BY <2>1, YieldDone DEF KeyFiles, Final
  <2>3. Kept(k, j, k2, j2)
    BY <1>1, <1>2, <2>2 DEF Kept, AtRest, Recovered, RecoversTo, Named, Restoring
  <2> QED
    BY <1>1, <1>2, <2>1, <2>2, <2>3 DEF RecoverPlan, RestorePlan
<1>3. CASE t = movePriv /\ Named(j, "priv_bak")
  <2>1. Head(t) = Move("priv_bak", "priv") /\ Tail(t) = RestoresPub(j)
    BY <1>0, <1>3, ThenStep
  <2>2. /\ j2 = j /\ k2["pub_bak"] = k["pub_bak"] /\ k2["priv_bak"] = 0
        /\ k2["priv"] = (IF k["priv_bak"] = 0 THEN k["priv"] ELSE k["priv_bak"]) /\ k2["pub"] = k["pub"]
    BY <2>1, MoveDone DEF KeyFiles
  <2>3. Kept(k, j, k2, j2)
    BY <1>1, <1>3, <2>2 DEF Kept, AtRest, Recovered, RecoversTo, Named, Restoring
  <2>4. RestorePlan(Tail(t), k2, j2) \/ EndsPlan(Tail(t), k2, j2)
    BY <1>1, <2>1, <2>2, RestoresNext DEF Freed
  <2> QED
    BY <2>3, <2>4 DEF RecoverPlan
<1>4. CASE t = Then(Yield("pub_bak"), movePub) /\ Named(j, "pub_bak") /\ Freed(k, j, "priv_bak")
  <2>1. Head(t) = Yield("pub_bak") /\ Tail(t) = movePub
    BY <1>0, <1>4, ThenStep
  <2>2. /\ j2 = j /\ k2["pub_bak"] = k["pub_bak"] /\ k2["priv_bak"] = k["priv_bak"]
        /\ k2["pub"] = (IF k["pub_bak"] = 0 THEN k["pub"] ELSE 0) /\ k2["priv"] = k["priv"]
    BY <2>1, YieldDone DEF KeyFiles, Final
  <2>3. Kept(k, j, k2, j2)
    BY <1>1, <1>4, <2>2 DEF Kept, AtRest, Recovered, RecoversTo, Named, Restoring
  <2> QED
    BY <1>1, <1>4, <2>1, <2>2, <2>3 DEF RecoverPlan, RestorePlan, Freed
<1>5. CASE t = movePub /\ Named(j, "pub_bak") /\ Freed(k, j, "priv_bak")
  <2>1. Head(t) = Move("pub_bak", "pub") /\ Tail(t) = Drops(j)
    BY <1>0, <1>5, ThenStep
  <2>2. /\ j2 = j /\ k2["priv_bak"] = k["priv_bak"] /\ k2["pub_bak"] = 0
        /\ k2["pub"] = (IF k["pub_bak"] = 0 THEN k["pub"] ELSE k["pub_bak"]) /\ k2["priv"] = k["priv"]
    BY <2>1, MoveDone DEF KeyFiles
  <2>3. Kept(k, j, k2, j2)
    BY <1>1, <1>5, <2>2 DEF Kept, AtRest, Recovered, RecoversTo, Named, Restoring
  <2>4. EndsPlan(Tail(t), k2, j2)
    BY <1>1, <1>5, <2>1, <2>2, DropsNext DEF Freed
  <2> QED
    BY <2>3, <2>4 DEF RecoverPlan
<1> QED
  BY <1>2, <1>3, <1>4, <1>5 DEF RestorePlan

\* After the temporaries of a journal comes what its phase asks for.
LEMMA FollowsNext ==
    ASSUME NEW k, NEW j \in Journals, AtRest(k, j), j.phase = "fresh_priv_installed" => BothOrNone(k),
           j.phase \in Restoring \cup Keeping \/ j.baks = {}
    PROVE  RestorePlan(Follows(j), k, j) \/ EndsPlan(Follows(j), k, j)
<1>1. CASE j.phase \in Restoring
  <2>1. Follows(j) = Restores(j)
    BY <1>1 DEF Follows, Restoring, Keeping
  <2> QED
    BY <1>1, <2>1, RestoresNext
<1>2. CASE j.phase \in Keeping
  <2>1. Follows(j) = Drops(j) /\ j.phase \notin Restoring
    BY <1>2 DEF Follows, Keeping, Restoring
  <2> QED
    BY <1>2, <2>1, DropsNext
<1>3. CASE j.phase \notin Restoring \cup Keeping
  <2>1. Follows(j) = Ends
    BY <1>3 DEF Follows
  <2>2. j.baks = {}
    BY <1>3
  <2> QED
    BY <2>1, <2>2 DEF EndsPlan, Freed, Named
<1> QED
  BY <1>1, <1>2, <1>3

LEMMA TempsStep ==
    ASSUME NEW k \in [KeyFiles -> Nat], NEW j \in Journals, NEW t, NEW g, NEW k2, NEW j2,
           AtRest(k, j), TempsPlan(t, k, j), Stepped(t, k, j, g, k2, j2)
    PROVE  Kept(k, j, k2, j2) /\ RecoverPlan(Tail(t), k2, j2)
<1> DEFINE last == Then(Drop("pub_tmp"), Follows(j))
<1>0. /\ Drop("priv_tmp") \in FileOps /\ Drop("pub_tmp") \in FileOps
      /\ Follows(j) \in Seq(FileOps) /\ last \in Seq(FileOps)
  BY SaveOps, RecoverLists, ThenStep
<1>1. CASE t = Temps(Follows(j))
  <2>1. Head(t) = Drop("priv_tmp") /\ Tail(t) = last
    BY <1>0, <1>1, ThenStep DEF Temps
  <2>2. j2 = j /\ k2 = [k EXCEPT !["priv_tmp"] = 0]
    BY <2>1, DropDone
  <2>3. Kept(k, j, k2, j2) /\ k2["priv"] = k["priv"] /\ k2["pub"] = k["pub"]
    BY <2>2, TempsKept
  <2> QED
    BY <2>1, <2>2, <2>3 DEF RecoverPlan, TempsPlan, BothOrNone
<1>2. CASE t = last
  <2>1. Head(t) = Drop("pub_tmp") /\ Tail(t) = Follows(j)
    BY <1>0, <1>2, ThenStep
  <2>2. j2 = j /\ k2 = [k EXCEPT !["pub_tmp"] = 0]
    BY <2>1, DropDone
  <2>3. Kept(k, j, k2, j2) /\ k2["priv"] = k["priv"] /\ k2["pub"] = k["pub"]
    BY <2>2, TempsKept
  <2>4. j.phase \in Restoring \cup Keeping \/ j.baks = {}
    BY DEF AtRest, Journals, Phases, Restoring, Keeping, NoJournal
  <2>5. AtRest(k2, j) /\ (j.phase = "fresh_priv_installed" => BothOrNone(k2))
    BY <2>2, <2>3 DEF Kept, TempsPlan, BothOrNone
  <2>6. RestorePlan(Follows(j), k2, j) \/ EndsPlan(Follows(j), k2, j)
    BY <2>4, <2>5, FollowsNext
  <2> QED
    BY <2>1, <2>2, <2>3, <2>6 DEF RecoverPlan
<1> QED
  BY <1>1, <1>2 DEF TempsPlan

LEMMA FreshStep ==
    ASSUME NEW k \in [KeyFiles -> Nat], NEW j \in Journals, NEW t, NEW g, NEW k2, NEW j2,
           AtRest(k, j), FreshPlan(t, k, j), Stepped(t, k, j, g, k2, j2)
    PROVE  Kept(k, j, k2, j2) /\ RecoverPlan(Tail(t), k2, j2)
<1> DEFINE rest == Then(Drop("pub"), Temps(Ends))
<1>0. /\ Drop("priv") \in FileOps /\ Drop("pub") \in FileOps
      /\ Temps(Ends) \in Seq(FileOps) /\ rest \in Seq(FileOps)
  BY SaveOps, RecoverLists, ThenStep
<1>1. j.phase = "fresh_priv_installed" /\ (k["priv"] = 0 \/ k["pub"] = 0)
  BY DEF FreshPlan
<1>2. CASE t = Then(Drop("priv"), rest)
  <2>1. Head(t) = Drop("priv") /\ Tail(t) = rest
    BY <1>0, <1>2, ThenStep
  <2>2. j2 = j /\ k2 = [k EXCEPT !["priv"] = 0]
    BY <2>1, DropDone
  <2>3. /\ k2["priv"] = 0 /\ k2["pub"] = k["pub"]
        /\ k2["priv_bak"] = k["priv_bak"] /\ k2["pub_bak"] = k["pub_bak"]
    BY <2>2 DEF KeyFiles
  <2>4. Kept(k, j, k2, j2)
    BY <1>1, <2>2, <2>3 DEF Kept, AtRest, Recovered
  <2> QED
    BY <1>1, <2>1, <2>2, <2>3, <2>4 DEF RecoverPlan, FreshPlan
<1>3. CASE t = rest /\ k["priv"] = 0
  <2>1. Head(t) = Drop("pub") /\ Tail(t) = Temps(Ends)
    BY <1>0, <1>3, ThenStep
  <2>2. j2 = j /\ k2 = [k EXCEPT !["pub"] = 0]
    BY <2>1, DropDone
  <2>3. /\ k2["pub"] = 0 /\ k2["priv"] = 0
        /\ k2["priv_bak"] = k["priv_bak"] /\ k2["pub_bak"] = k["pub_bak"]
    BY <1>3, <2>2 DEF KeyFiles
  <2>4. Kept(k, j, k2, j2)
    BY <1>1, <2>2, <2>3 DEF Kept, AtRest, Recovered
  <2>5. Follows(j) = Ends
    BY <1>1 DEF Follows, Restoring, Keeping
  <2> QED
    BY <2>1, <2>2, <2>3, <2>4, <2>5 DEF RecoverPlan, TempsPlan, BothOrNone
<1> QED
  BY <1>2, <1>3 DEF FreshPlan

\* No operation of a recovery moves the pair the next recovery finds.
LEMMA RecoverStep ==
    ASSUME NEW k \in [KeyFiles -> Nat], NEW j \in Journals, NEW t, NEW g, NEW k2, NEW j2,
           AtRest(k, j), RecoverPlan(t, k, j), Stepped(t, k, j, g, k2, j2)
    PROVE  Kept(k, j, k2, j2) /\ RecoverPlan(Tail(t), k2, j2)
BY OrphansStep, EndsStep, RestoreStep, TempsStep, FreshStep DEF RecoverPlan

LEMMA RecoveryListed ==
    ASSUME NEW k, NEW j
    PROVE  /\ OrphanRecovery = Orphans
           /\ j.phase \in Restoring => Recovery(k, j) = Temps(Restores(j))
           /\ j.phase \in Keeping => Recovery(k, j) = Temps(Drops(j))
           /\ j.phase \in {"intent", "staged"} => Recovery(k, j) = Temps(Ends)
           /\ j.phase = "fresh_priv_installed" =>
                 Recovery(k, j) = IF k["priv"] # 0 /\ k["pub"] # 0 THEN Temps(Ends)
                                  ELSE Then(Drop("priv"), Then(Drop("pub"), Temps(Ends)))
           /\ j = NoJournal => Recovery(k, j) = Orphans
<1> DEFINE first == DropIfNamed(j, "priv_bak")
           second == DropIfNamed(j, "pub_bak")
           back == RestoreNamed(j, "priv_bak")
           backPub == RestoreNamed(j, "pub_bak")
           end == <<Unjournal>>
<1>1. /\ first \in Seq(FileOps) /\ second \in Seq(FileOps)
      /\ back \in Seq(FileOps) /\ backPub \in Seq(FileOps)
      /\ end \in Seq(FileOps) /\ DropTemps \in Seq(FileOps) /\ DropNamed(j) \in Seq(FileOps)
      /\ OrphanRecovery \in Seq(FileOps)
  <2>1. back \in Seq(FileOps) /\ backPub \in Seq(FileOps)
    BY RecoveryParts, OpsTyped, StepsWithin
  <2>2. DropTemps \in Seq(FileOps) /\ DropNamed(j) \in Seq(FileOps) /\ OrphanRecovery \in Seq(FileOps)
    BY RecoveryParts, OpsTyped, StepsWithin
  <2>3. first \in Seq(FileOps) /\ second \in Seq(FileOps) /\ end \in Seq(FileOps)
    BY SaveOps, OneStep, NoStep DEF DropIfNamed
  <2> QED
    BY <2>1, <2>2, <2>3
<1>2. /\ Orphans \in Seq(FileOps) /\ Ends \in Seq(FileOps) /\ Drops(j) \in Seq(FileOps)
      /\ DropsPub(j) \in Seq(FileOps) /\ RestoresPub(j) \in Seq(FileOps) /\ Restores(j) \in Seq(FileOps)
      /\ Temps(Ends) \in Seq(FileOps)
  BY RecoverLists
<1> HIDE DEF first, second, back, backPub, end
<1>3. ASSUME NEW t \in Seq(FileOps) PROVE DropTemps \o t = Temps(t)
  <2>1. Drop("priv_tmp") \in FileOps /\ Drop("pub_tmp") \in FileOps
    BY SaveOps
  <2> QED
    BY <1>3, <2>1, ThenTwo DEF DropTemps, Temps
<1>4. OrphanRecovery = Orphans
  <2>1. /\ Settle("priv_bak") \in FileOps /\ Settle("pub_bak") \in FileOps
        /\ Drop("priv_tmp") \in FileOps /\ Drop("pub_tmp") \in FileOps
    BY SaveOps DEF Baks
  <2>2. DropTemps = Temps(<<>>)
    <3>1. DropTemps = DropTemps \o <<>>
      BY <1>1
    <3> QED
      BY <1>3, <3>1, NoStep
  <2> QED
    BY <1>1, <2>1, <2>2, ThenTwo DEF OrphanRecovery, Orphans
<1>5. end \o OrphanRecovery = Ends
  BY <1>4 DEF Ends, Then, end
<1>6. ASSUME NEW t \in Seq(FileOps) PROVE (t \o end) \o OrphanRecovery = t \o Ends
  BY <1>1, <1>5, <1>6, Regroup
<1>7. DropNamed(j) \o Ends = Drops(j)
  <2>1. first \in Seq(FileOps) /\ second \in Seq(FileOps) /\ Ends \in Seq(FileOps)
    BY <1>1, <1>2
  <2>2. (first \o second) \o Ends = first \o (second \o Ends)
    BY <2>1, Regroup
  <2> QED
    BY <2>2, Zenon DEF DropNamed, Drops, DropsPub, first, second
<1>8. CASE j.phase \in Restoring
  <2> DEFINE upTo == ((DropTemps \o back) \o backPub) \o DropNamed(j)
  <2>1. Recovery(k, j) = (upTo \o end) \o OrphanRecovery
    BY <1>8 DEF Recovery, JournalRecovery, Restoring, back, backPub, end
  <2>2. /\ upTo \in Seq(FileOps) /\ DropTemps \o back \in Seq(FileOps)
        /\ (DropTemps \o back) \o backPub \in Seq(FileOps)
    BY <1>1, ThenSteps
  <2>3. Recovery(k, j) = upTo \o Ends
    BY <1>6, <2>1, <2>2
  <2>4. upTo \o Ends = ((DropTemps \o back) \o backPub) \o Drops(j)
    <3> DEFINE restores == (DropTemps \o back) \o backPub
    <3>0. restores \in Seq(FileOps) /\ DropNamed(j) \in Seq(FileOps) /\ Ends \in Seq(FileOps)
      BY <1>1, <1>2, <2>2
    <3> HIDE DEF restores
    <3>1. (restores \o DropNamed(j)) \o Ends = restores \o (DropNamed(j) \o Ends)
      BY <3>0, Regroup
    <3> USE DEF restores
    <3> QED
      BY <1>7, <3>1
  <2>5. ((DropTemps \o back) \o backPub) \o Drops(j) = (DropTemps \o back) \o RestoresPub(j)
    <3> DEFINE restores == DropTemps \o back
    <3>0. restores \in Seq(FileOps) /\ backPub \in Seq(FileOps) /\ Drops(j) \in Seq(FileOps)
      BY <1>1, <1>2, <2>2
    <3> HIDE DEF restores
    <3>1. (restores \o backPub) \o Drops(j) = restores \o (backPub \o Drops(j))
      BY <3>0, Regroup
    <3> QED
      BY <3>1, Zenon DEF RestoresPub, backPub, restores
  <2>6. (DropTemps \o back) \o RestoresPub(j) = DropTemps \o Restores(j)
    <3>0. DropTemps \in Seq(FileOps) /\ back \in Seq(FileOps) /\ RestoresPub(j) \in Seq(FileOps)
      BY <1>1, <1>2
    <3>1. (DropTemps \o back) \o RestoresPub(j) = DropTemps \o (back \o RestoresPub(j))
      BY <3>0, Regroup
    <3> QED
      BY <3>1, Zenon DEF Restores, back
  <2>7. Recovery(k, j) = Temps(Restores(j))
    BY <1>2, <1>3, <2>3, <2>4, <2>5, <2>6
  <2> QED
    BY <1>4, <1>8, <2>7 DEF Restoring, Keeping, NoJournal
<1>9. CASE j.phase \in Keeping
  <2>1. Recovery(k, j) = ((DropTemps \o DropNamed(j)) \o end) \o OrphanRecovery
    BY <1>9 DEF Recovery, JournalRecovery, Keeping, end
  <2>2. DropTemps \o DropNamed(j) \in Seq(FileOps)
    BY <1>1, ThenSteps
  <2>3. Recovery(k, j) = (DropTemps \o DropNamed(j)) \o Ends
    BY <1>6, <2>1, <2>2
  <2>4. (DropTemps \o DropNamed(j)) \o Ends = DropTemps \o Drops(j)
    <3>0. DropTemps \in Seq(FileOps) /\ DropNamed(j) \in Seq(FileOps) /\ Ends \in Seq(FileOps)
      BY <1>1, <1>2
    <3>1. (DropTemps \o DropNamed(j)) \o Ends = DropTemps \o (DropNamed(j) \o Ends)
      BY <3>0, Regroup
    <3> QED
      BY <1>7, <3>1
  <2>5. Recovery(k, j) = Temps(Drops(j))
    BY <1>2, <1>3, <2>3, <2>4
  <2> QED
    BY <1>4, <1>9, <2>5 DEF Restoring, Keeping, NoJournal
<1>10. CASE j.phase \in {"intent", "staged"}
  <2>1. Recovery(k, j) = (DropTemps \o end) \o OrphanRecovery
    BY <1>10 DEF Recovery, JournalRecovery, end
  <2>2. Recovery(k, j) = Temps(Ends)
    BY <1>1, <1>2, <1>3, <1>6, <2>1
  <2> QED
    BY <1>4, <1>10, <2>2 DEF Restoring, Keeping, NoJournal
<1>11. CASE j.phase = "fresh_priv_installed"
  <2> DEFINE halves == IF k["priv"] # 0 /\ k["pub"] # 0 THEN <<>> ELSE <<Drop("priv"), Drop("pub")>>
  <2>1. Recovery(k, j) = ((halves \o DropTemps) \o end) \o OrphanRecovery
    BY <1>11 DEF Recovery, JournalRecovery, end
  <2>2. Drop("priv") \in FileOps /\ Drop("pub") \in FileOps
    BY SaveOps
  <2>3. halves \in Seq(FileOps)
    BY <2>2, TwoSteps, NoStep
  <2>4. halves \o DropTemps \in Seq(FileOps)
    BY <1>1, <2>3, ThenSteps
  <2>5. Recovery(k, j) = (halves \o DropTemps) \o Ends
    BY <1>6, <2>1, <2>4
  <2>6. (halves \o DropTemps) \o Ends = halves \o Temps(Ends)
    <3> HIDE DEF halves
    <3>0. halves \in Seq(FileOps) /\ DropTemps \in Seq(FileOps) /\ Ends \in Seq(FileOps)
      BY <1>1, <1>2, <2>3
    <3>1. (halves \o DropTemps) \o Ends = halves \o (DropTemps \o Ends)
      BY <3>0, Regroup
    <3> QED
      BY <1>2, <1>3, <3>1
  <2>7. /\ <<>> \o Temps(Ends) = Temps(Ends)
        /\ <<Drop("priv"), Drop("pub")>> \o Temps(Ends) = Then(Drop("priv"), Then(Drop("pub"), Temps(Ends)))
    BY <1>2, <2>2, ThenTwo
  <2>8. Recovery(k, j) = IF k["priv"] # 0 /\ k["pub"] # 0 THEN Temps(Ends)
                         ELSE Then(Drop("priv"), Then(Drop("pub"), Temps(Ends)))
    BY <2>5, <2>6, <2>7
  <2> QED
    BY <1>4, <1>11, <2>8 DEF Restoring, Keeping, NoJournal
<1>12. CASE j.phase \notin Restoring \cup Keeping \cup {"intent", "staged", "fresh_priv_installed"}
  <2>1. JournalRecovery(k, j) = <<>>
    BY <1>12 DEF JournalRecovery, Restoring, Keeping
  <2>2. Recovery(k, j) = Orphans
    BY <1>1, <1>4, <2>1 DEF Recovery
  <2> QED
    BY <1>4, <1>12, <2>2
<1> QED
  BY <1>8, <1>9, <1>10, <1>11, <1>12

LEMMA RecoverBegins ==
    ASSUME NEW k \in [KeyFiles -> Nat], NEW j \in Journals, AtRest(k, j)
    PROVE  RecoverPlan(Recovery(k, j), k, j)
<1>1. CASE j = NoJournal
  BY <1>1, RecoveryListed DEF RecoverPlan, OrphansPlan
<1>2. CASE j.phase = "fresh_priv_installed"
  <2>1. Follows(j) = Ends
    BY <1>2 DEF Follows, Restoring, Keeping
  <2>2. CASE k["priv"] # 0 /\ k["pub"] # 0
    <3>1. Recovery(k, j) = Temps(Ends)
      BY <1>2, <2>2, RecoveryListed
    <3> QED
      BY <2>1, <2>2, <3>1 DEF RecoverPlan, TempsPlan, BothOrNone
  <2>3. CASE k["priv"] = 0 \/ k["pub"] = 0
    <3>1. Recovery(k, j) = Then(Drop("priv"), Then(Drop("pub"), Temps(Ends)))
      BY <1>2, <2>3, RecoveryListed
    <3> QED
      BY <1>2, <2>3, <3>1 DEF RecoverPlan, FreshPlan
  <2> QED
    BY <2>2, <2>3
<1>3. CASE j.phase \in Restoring \cup Keeping \cup {"intent", "staged"}
  <2>1. Recovery(k, j) = Temps(Follows(j)) /\ j.phase # "fresh_priv_installed"
    BY <1>3, RecoveryListed DEF Follows, Restoring, Keeping
  <2> QED
    BY <2>1 DEF RecoverPlan, TempsPlan
<1> QED
  BY <1>1, <1>2, <1>3 DEF Journals, Phases, Restoring, Keeping

\* What an operation may do to the pair, as AtomicPair has it.
Moves(k, j, k2, j2) ==
    /\ AtRest(k2, j2)
    /\ \/ Recovered(k2, j2) = Recovered(k, j)
       \/ \E g \in 1..MaxPairs : Recovered(k2, j2) \in Pair!After(Recovered(k, j), g)

\* Putting a backup back, whether or not the journal names it.
LEMMA PutBackKept ==
    ASSUME NEW k \in [KeyFiles -> Nat], NEW j \in Journals, NEW k2, AtRest(k, j),
           NEW bak \in Baks, Unnamed(k, j, bak), j.phase \in Keeping => k[bak] = 0,
           k2 = k \/ (k[bak] # 0 /\ (\/ k2 = [k EXCEPT ![Final(bak)] = 0]
                                     \/ k2 = [k EXCEPT ![Final(bak)] = k[bak], ![bak] = 0]))
    PROVE  /\ Kept(k, j, k2, j) /\ Unnamed(k2, j, bak)
           /\ j.phase = "fresh_priv_installed" => k2 = k
           /\ j.phase \in Keeping => k2 = k
<1>1. CASE k2 = k
  BY <1>1 DEF Kept
<1>2. CASE k[bak] # 0
  <2>1. j.phase \notin Keeping /\ j.phase # "fresh_priv_installed"
    BY <1>2 DEF AtRest, Baks
  <2>2. Named(j, bak) => j.phase \in Restoring
    BY <2>1 DEF Named, AtRest, Journals, Phases, Restoring, Keeping, NoJournal
  <2>3. ~Named(j, bak) => k[Final(bak)] = 0
    BY <1>2 DEF Unnamed
  <2>4. CASE bak = "priv_bak"
    <3>1. /\ k2["pub"] = k["pub"] /\ k2["pub_bak"] = k["pub_bak"]
          /\ \/ k2["priv"] = k["priv"] /\ k2["priv_bak"] = k["priv_bak"]
             \/ k2["priv"] = 0 /\ k2["priv_bak"] = k["priv_bak"]
             \/ k2["priv"] = k["priv_bak"] /\ k2["priv_bak"] = 0
      BY <2>4 DEF KeyFiles, Final
    <3>2. Recovered(k2, j) = Recovered(k, j)
      BY <1>2, <2>1, <2>2, <2>3, <2>4, <3>1 DEF Recovered, RecoversTo, Named, Restoring, Final
    <3>3. Unnamed(k2, j, bak)
      BY <1>2, <2>3, <2>4, <3>1 DEF Unnamed, Final
    <3> QED
      BY <2>1, <3>2, <3>3 DEF Kept, AtRest
  <2>5. CASE bak = "pub_bak"
    <3>1. /\ k2["priv"] = k["priv"] /\ k2["priv_bak"] = k["priv_bak"]
          /\ \/ k2["pub"] = k["pub"] /\ k2["pub_bak"] = k["pub_bak"]
             \/ k2["pub"] = 0 /\ k2["pub_bak"] = k["pub_bak"]
             \/ k2["pub"] = k["pub_bak"] /\ k2["pub_bak"] = 0
      BY <2>5 DEF KeyFiles, Final
    <3>2. Recovered(k2, j) = Recovered(k, j)
      BY <1>2, <2>1, <2>2, <2>3, <2>5, <3>1 DEF Recovered, RecoversTo, Named, Restoring, Final
    <3>3. Unnamed(k2, j, bak)
      BY <1>2, <2>3, <2>5, <3>1 DEF Unnamed, Final
    <3> QED
      BY <2>1, <3>2, <3>3 DEF Kept, AtRest
  <2> QED
    BY <2>4, <2>5 DEF Baks
<1> QED
  BY <1>1, <1>2

\* A yield, then a move, put a backup back.
LEMMA RestoreDone ==
    ASSUME NEW k \in [KeyFiles -> Nat], NEW j \in Journals, NEW t, NEW g, NEW k2, NEW j2,
           AtRest(k, j), Stepped(t, k, j, g, k2, j2), NEW bak \in Baks,
           Head(t) = Yield(bak) \/ Head(t) = Move(bak, Final(bak)),
           Unnamed(k, j, bak), j.phase \in Keeping => k[bak] = 0
    PROVE  /\ j2 = j /\ Kept(k, j, k2, j) /\ Unnamed(k2, j, bak)
           /\ j.phase = "fresh_priv_installed" => k2 = k
           /\ j.phase \in Keeping => k2 = k
           /\ Head(t) = Move(bak, Final(bak)) => k2[bak] = 0
           /\ bak = "priv_bak" => k2["pub"] = k["pub"] /\ k2["pub_bak"] = k["pub_bak"]
           /\ bak = "pub_bak" => k2["priv"] = k["priv"] /\ k2["priv_bak"] = k["priv_bak"]
<1>1. CASE Head(t) = Yield(bak)
  <2>1. j2 = j /\ k2 = (IF k[bak] = 0 THEN k ELSE [k EXCEPT ![Final(bak)] = 0])
    BY <1>1, YieldDone
  <2>2. Head(t) # Move(bak, Final(bak))
    <3>1. Yield(bak).op = "yield" /\ Move(bak, Final(bak)).op = "move"
      BY DEF Yield, Move
    <3> QED
      BY <1>1, <3>1
  <2>3. /\ Kept(k, j, k2, j) /\ Unnamed(k2, j, bak)
        /\ j.phase = "fresh_priv_installed" => k2 = k
        /\ j.phase \in Keeping => k2 = k
    BY <2>1, PutBackKept
  <2>4. /\ bak = "priv_bak" => k2["pub"] = k["pub"] /\ k2["pub_bak"] = k["pub_bak"]
        /\ bak = "pub_bak" => k2["priv"] = k["priv"] /\ k2["priv_bak"] = k["priv_bak"]
    BY <2>1 DEF KeyFiles, Final
  <2> QED
    BY <2>1, <2>2, <2>3, <2>4
<1>2. CASE Head(t) = Move(bak, Final(bak))
  <2>1. j2 = j /\ k2 = (IF k[bak] = 0 THEN k ELSE [k EXCEPT ![Final(bak)] = k[bak], ![bak] = 0])
    BY <1>2, MoveDone
  <2>2. /\ Kept(k, j, k2, j) /\ Unnamed(k2, j, bak)
        /\ j.phase = "fresh_priv_installed" => k2 = k
        /\ j.phase \in Keeping => k2 = k
    <3>1. CASE k2 = k
      BY <3>1, PutBackKept
    <3>2. CASE k[bak] # 0 /\ k2 = [k EXCEPT ![Final(bak)] = k[bak], ![bak] = 0]
      BY <3>2, PutBackKept
    <3> QED
      BY <2>1, <3>1, <3>2
  <2>3. /\ bak = "priv_bak" => k2["pub"] = k["pub"] /\ k2["pub_bak"] = k["pub_bak"]
        /\ bak = "pub_bak" => k2["priv"] = k["priv"] /\ k2["priv_bak"] = k["priv_bak"]
    BY <2>1 DEF KeyFiles, Final
  <2>4. k2[bak] = 0
    BY <2>1 DEF KeyFiles, Baks
  <2> QED
    BY <2>1, <2>2, <2>3, <2>4
<1> QED
  BY <1>1, <1>2

LEMMA PutBackStep ==
    ASSUME NEW k \in [KeyFiles -> Nat], NEW j \in Journals, NEW t, NEW g, NEW k2, NEW j2,
           AtRest(k, j), PutBackPlan(t, k, j), Stepped(t, k, j, g, k2, j2)
    PROVE  Kept(k, j, k2, j2) /\ PutBackPlan(Tail(t), k2, j2)
<1> DEFINE movePriv == Then(Move("priv_bak", "priv"), PutBackPub)
           movePub == Then(Move("pub_bak", "pub"), Closing)
           close == Then(Unjournal, <<>>)
           dropPub == Then(Drop("pub_tmp"), close)
<1>0. /\ Yield("priv_bak") \in FileOps /\ Yield("pub_bak") \in FileOps /\ Unjournal \in FileOps
      /\ Move("priv_bak", "priv") \in FileOps /\ Move("pub_bak", "pub") \in FileOps
      /\ Drop("priv_tmp") \in FileOps /\ Drop("pub_tmp") \in FileOps
      /\ PutBackPub \in Seq(FileOps) /\ Closing \in Seq(FileOps) /\ <<>> \in Seq(FileOps)
      /\ movePriv \in Seq(FileOps) /\ movePub \in Seq(FileOps)
      /\ close \in Seq(FileOps) /\ dropPub \in Seq(FileOps)
  <2>1. /\ Yield("priv_bak") \in FileOps /\ Yield("pub_bak") \in FileOps /\ Unjournal \in FileOps
        /\ Move("priv_bak", "priv") \in FileOps /\ Move("pub_bak", "pub") \in FileOps
        /\ Drop("priv_tmp") \in FileOps /\ Drop("pub_tmp") \in FileOps
    BY SaveOps DEF Baks
  <2>2. close \in Seq(FileOps) /\ dropPub \in Seq(FileOps)
    BY <2>1, ThenStep, NoStep
  <2> QED
    BY <2>1, <2>2, RollbackLists, ThenStep, NoStep
<1>1. /\ j.phase = "fresh_priv_installed" => BothOrNone(k)
      /\ j.phase \in Keeping => Unbacked(k)
  BY DEF PutBackPlan
<1>2. CASE t = PutBack /\ Unnamed(k, j, "priv_bak") /\ Unnamed(k, j, "pub_bak")
  <2>1. Head(t) = Yield("priv_bak") /\ Tail(t) = movePriv
    BY <1>0, <1>2, ThenStep DEF PutBack
  <2>2. /\ j2 = j /\ Kept(k, j, k2, j) /\ Unnamed(k2, j, "priv_bak")
        /\ (j.phase = "fresh_priv_installed" => k2 = k) /\ (j.phase \in Keeping => k2 = k)
        /\ k2["pub"] = k["pub"] /\ k2["pub_bak"] = k["pub_bak"]
    BY <1>1, <1>2, <2>1, RestoreDone DEF Baks, Unbacked
  <2>3. Unnamed(k2, j, "pub_bak")
    BY <1>2, <2>2 DEF Unnamed, Final
  <2> QED
    BY <1>1, <2>1, <2>2, <2>3 DEF PutBackPlan
<1>3. CASE t = movePriv /\ Unnamed(k, j, "priv_bak") /\ Unnamed(k, j, "pub_bak")
  <2>1. Head(t) = Move("priv_bak", Final("priv_bak")) /\ Tail(t) = PutBackPub
    BY <1>0, <1>3, ThenStep DEF Final
  <2>2. /\ j2 = j /\ Kept(k, j, k2, j) /\ k2["priv_bak"] = 0
        /\ (j.phase = "fresh_priv_installed" => k2 = k) /\ (j.phase \in Keeping => k2 = k)
        /\ k2["pub"] = k["pub"] /\ k2["pub_bak"] = k["pub_bak"]
    BY <1>1, <1>3, <2>1, RestoreDone DEF Baks, Unbacked
  <2>3. Unnamed(k2, j, "pub_bak")
    BY <1>3, <2>2 DEF Unnamed, Final
  <2> QED
    BY <1>1, <2>1, <2>2, <2>3 DEF PutBackPlan
<1>4. CASE t = PutBackPub /\ k["priv_bak"] = 0 /\ Unnamed(k, j, "pub_bak")
  <2>1. Head(t) = Yield("pub_bak") /\ Tail(t) = movePub
    BY <1>0, <1>4, ThenStep DEF PutBackPub
  <2>2. /\ j2 = j /\ Kept(k, j, k2, j) /\ Unnamed(k2, j, "pub_bak")
        /\ (j.phase = "fresh_priv_installed" => k2 = k) /\ (j.phase \in Keeping => k2 = k)
        /\ k2["priv_bak"] = 0
    BY <1>1, <1>4, <2>1, RestoreDone DEF Baks, Unbacked
  <2> QED
    BY <1>1, <2>1, <2>2 DEF PutBackPlan
<1>5. CASE t = movePub /\ k["priv_bak"] = 0 /\ Unnamed(k, j, "pub_bak")
  <2>1. Head(t) = Move("pub_bak", Final("pub_bak")) /\ Tail(t) = Closing
    BY <1>0, <1>5, ThenStep DEF Final
  <2>2. /\ j2 = j /\ Kept(k, j, k2, j) /\ k2["pub_bak"] = 0
        /\ (j.phase = "fresh_priv_installed" => k2 = k) /\ (j.phase \in Keeping => k2 = k)
        /\ k2["priv_bak"] = 0
    BY <1>1, <1>5, <2>1, RestoreDone DEF Baks, Unbacked
  <2>3. Unbacked(k2)
    BY <2>2 DEF Unbacked
  <2> QED
    BY <1>1, <2>1, <2>2, <2>3 DEF PutBackPlan
<1>6. CASE t = Closing /\ Unbacked(k)
  <2>1. Head(t) = Drop("priv_tmp") /\ Tail(t) = dropPub
    BY <1>0, <1>6, ThenStep DEF Closing, Temps
  <2>2. j2 = j /\ k2 = [k EXCEPT !["priv_tmp"] = 0]
    BY <2>1, DropDone
  <2>3. /\ Kept(k, j, k2, j) /\ k2["priv"] = k["priv"] /\ k2["pub"] = k["pub"]
        /\ k2["priv_bak"] = k["priv_bak"] /\ k2["pub_bak"] = k["pub_bak"]
    BY <2>2, TempsKept
  <2> QED
    BY <1>1, <1>6, <2>1, <2>2, <2>3 DEF PutBackPlan, Unbacked, BothOrNone
<1>7. CASE t = dropPub /\ Unbacked(k)
  <2>1. Head(t) = Drop("pub_tmp") /\ Tail(t) = close
    BY <1>0, <1>7, ThenStep
  <2>2. j2 = j /\ k2 = [k EXCEPT !["pub_tmp"] = 0]
    BY <2>1, DropDone
  <2>3. /\ Kept(k, j, k2, j) /\ k2["priv"] = k["priv"] /\ k2["pub"] = k["pub"]
        /\ k2["priv_bak"] = k["priv_bak"] /\ k2["pub_bak"] = k["pub_bak"]
    BY <2>2, TempsKept
  <2> QED
    BY <1>1, <1>7, <2>1, <2>2, <2>3 DEF PutBackPlan, Unbacked, BothOrNone
<1>8. CASE t = close /\ Unbacked(k)
  <2>1. Head(t) = Unjournal /\ Tail(t) = <<>>
    BY <1>0, <1>8, ThenStep
  <2>2. j2 = NoJournal /\ k2 = k
    BY <2>1, UnjournalDone
  <2>3. Recovered(k, NoJournal) = Recovered(k, j)
    BY <1>1, <1>8 DEF Recovered, RecoversTo, NoJournal, Unbacked, BothOrNone
  <2>4. Kept(k, j, k2, j2)
    BY <2>2, <2>3 DEF Kept, AtRest, NoJournal
  <2> QED
    BY <2>1, <2>2, <2>4 DEF PutBackPlan, NoJournal, Keeping
<1> QED
  BY <1>2, <1>3, <1>4, <1>5, <1>6, <1>7, <1>8 DEF PutBackPlan, Stepped

LEMMA HandlerStep ==
    ASSUME NEW k \in [KeyFiles -> Nat], NEW j \in Journals, NEW t, NEW g, NEW k2, NEW j2,
           AtRest(k, j), HandlerPlan(t, k, j), Stepped(t, k, j, g, k2, j2), NEW some \in 1..MaxPairs
    PROVE  Moves(k, j, k2, j2) /\ RollbackPlan(Tail(t), k2, j2)
<1> DEFINE move == Then(Move("priv_bak", "priv"), DropsNew)
           back == Then(Yield("priv_bak"), move)
<1>0. /\ Yield("priv_bak") \in FileOps /\ Move("priv_bak", "priv") \in FileOps
      /\ Drop("priv") \in FileOps /\ Drop("pub") \in FileOps
      /\ DropsNew \in Seq(FileOps) /\ PutBack \in Seq(FileOps)
      /\ move \in Seq(FileOps) /\ back \in Seq(FileOps)
  BY SaveOps, RollbackLists, ThenStep DEF Baks
<1>1. CASE t = Then(Drop("priv"), PutBack) /\ j.phase = "fresh_priv_installed" /\ k["pub"] = 0
  <2>1. Head(t) = Drop("priv") /\ Tail(t) = PutBack
    BY <1>0, <1>1, ThenStep
  <2>2. /\ j2 = j /\ k2["priv"] = 0 /\ k2["pub"] = 0
        /\ k2["priv_bak"] = k["priv_bak"] /\ k2["pub_bak"] = k["pub_bak"]
    BY <1>1, <2>1, DropDone DEF KeyFiles
  <2>3. Kept(k, j, k2, j2)
    BY <1>1, <2>2 DEF Kept, AtRest, Recovered
  <2>4. PutBackPlan(Tail(t), k2, j2)
    BY <1>1, <2>1, <2>2 DEF PutBackPlan, BothOrNone, Unnamed, Final, Keeping
  <2> QED
    BY <2>3, <2>4 DEF Moves, Kept, RollbackPlan
<1>2. ASSUME j.phase \in {"staged", "pub_installed", "priv_backed"}, Droppable(k, j),
             Unnamed(k, j, "priv_bak"),
             \/ k["priv"] = 0 /\ t = Then(Drop("priv"), back)
             \/ t = back \/ t = move \/ (t = DropsNew /\ k["priv_bak"] = 0)
      PROVE  Moves(k, j, k2, j2) /\ RollbackPlan(Tail(t), k2, j2)
  <2>0. j.phase \notin Keeping /\ j.phase # "fresh_priv_installed"
    BY <1>2 DEF Keeping
  <2>1. CASE k["priv"] = 0 /\ t = Then(Drop("priv"), back)
    <3>1. Head(t) = Drop("priv") /\ Tail(t) = back
      BY <1>0, <2>1, ThenStep
    <3>2. j2 = j /\ k2 = k
      BY <2>1, <3>1, DropDone DEF KeyFiles
    <3> QED
      BY <1>2, <3>1, <3>2 DEF Moves, RollbackPlan, HandlerPlan
  <2>2. CASE t = back
    <3>1. Head(t) = Yield("priv_bak") /\ Tail(t) = move
      BY <1>0, <2>2, ThenStep
    <3>2. /\ j2 = j /\ Kept(k, j, k2, j) /\ Unnamed(k2, j, "priv_bak")
          /\ k2["pub"] = k["pub"] /\ k2["pub_bak"] = k["pub_bak"]
      BY <1>2, <2>0, <3>1, RestoreDone DEF Baks
    <3>3. Droppable(k2, j)
      BY <1>2, <3>2 DEF Droppable, Kept
    <3> QED
      BY <1>2, <3>1, <3>2, <3>3 DEF Moves, Kept, RollbackPlan, HandlerPlan
  <2>3. CASE t = move
    <3>1. Head(t) = Move("priv_bak", Final("priv_bak")) /\ Tail(t) = DropsNew
      BY <1>0, <2>3, ThenStep DEF Final
    <3>2. /\ j2 = j /\ Kept(k, j, k2, j) /\ Unnamed(k2, j, "priv_bak") /\ k2["priv_bak"] = 0
          /\ k2["pub"] = k["pub"] /\ k2["pub_bak"] = k["pub_bak"]
      BY <1>2, <2>0, <3>1, RestoreDone DEF Baks
    <3>3. Droppable(k2, j)
      BY <1>2, <3>2 DEF Droppable, Kept
    <3> QED
      BY <1>2, <3>1, <3>2, <3>3 DEF Moves, Kept, RollbackPlan, HandlerPlan
  <2>4. CASE t = DropsNew /\ k["priv_bak"] = 0
    <3>1. Head(t) = Drop("pub") /\ Tail(t) = PutBack
      BY <1>0, <2>4, ThenStep DEF DropsNew
    <3>2. /\ j2 = j /\ k2["pub"] = 0 /\ k2["priv"] = k["priv"]
          /\ k2["priv_bak"] = 0 /\ k2["pub_bak"] = k["pub_bak"]
      BY <2>4, <3>1, DropDone DEF KeyFiles
    <3>3. AtRest(k2, j2)
      BY <2>0, <3>2 DEF AtRest
    <3>4. RollbackPlan(Tail(t), k2, j2)
      BY <2>0, <3>1, <3>2 DEF RollbackPlan, PutBackPlan, Unnamed, Final
    <3>5. CASE \/ Named(j, "pub_bak") /\ k["pub_bak"] # 0
               \/ k["pub"] = 0
      <4>1. Named(j, "pub_bak") => j.phase \in Restoring
        BY <1>2 DEF Named, AtRest, Restoring
      <4>2. Recovered(k2, j2) = Recovered(k, j)
        BY <2>0, <2>4, <3>2, <3>5, <4>1 DEF Recovered, RecoversTo, Named, Restoring
      <4> QED
        BY <3>3, <3>4, <4>2 DEF Moves
    <3>6. CASE k["pub_bak"] = 0 /\ k["pub"] # 0 /\ Recovered(k, j)[1] \notin {0, k["pub"]}
      <4> DEFINE priv == RecoversTo(k, j, "priv", "priv_bak")
      <4>1. Recovered(k, j) = <<priv, k["pub"]>>
        BY <2>0, <3>6 DEF Recovered, RecoversTo
      <4>2. priv \notin {0, k["pub"]}
        BY <3>6, <4>1
      <4>3. Recovered(k2, j2) = <<priv, 0>>
        BY <2>0, <2>4, <3>2, <3>6 DEF Recovered, RecoversTo
      <4> HIDE DEF priv
      <4>4. ~Pair!Whole(Recovered(k, j)) /\ Recovered(k, j) # Pair!Absent
        BY <3>6, <4>1, <4>2 DEF Pair!Whole, Pair!Absent
      <4>5. Recovered(k2, j2) \in Pair!After(Recovered(k, j), some)
        BY <4>1, <4>3, <4>4 DEF Pair!After, Pair!Mixtures
      <4> QED
        BY <3>3, <3>4, <4>5 DEF Moves
    <3> QED
      BY <1>2, <3>5, <3>6 DEF Droppable
  <2> QED
    BY <1>2, <2>1, <2>2, <2>3, <2>4
<1> QED
  BY <1>1, <1>2 DEF HandlerPlan

LEMMA RollbackListed ==
    ASSUME NEW s, NEW j
    PROVE  /\ Handler(s, j) = <<>> => Rollback(s, j) = PutBack
           /\ Handler(s, j) = <<Drop("priv")>> => Rollback(s, j) = Then(Drop("priv"), PutBack)
           /\ Handler(s, j) = <<Drop("priv")>> \o Restore("priv_bak") \o <<Drop("pub")>> =>
                 Rollback(s, j) = Then(Drop("priv"), Then(Yield("priv_bak"),
                                       Then(Move("priv_bak", "priv"), DropsNew)))
<1> DEFINE first == Handler(s, j)
           back == Restore("priv_bak")
           backPub == Restore("pub_bak")
           end == <<Unjournal>>
           close == Then(Unjournal, <<>>)
           ends == DropTemps \o end
           pubEnds == backPub \o ends
<1>0. /\ Yield("priv_bak") \in FileOps /\ Yield("pub_bak") \in FileOps /\ Unjournal \in FileOps
      /\ Move("priv_bak", "priv") \in FileOps /\ Move("pub_bak", "pub") \in FileOps
      /\ Drop("priv_tmp") \in FileOps /\ Drop("pub_tmp") \in FileOps
      /\ Drop("priv") \in FileOps /\ Drop("pub") \in FileOps
  BY SaveOps DEF Baks
<1>1. back \in Seq(FileOps) /\ backPub \in Seq(FileOps) /\ DropTemps \in Seq(FileOps)
  BY RecoveryParts, OpsTyped, StepsWithin
<1>2. end \in Seq(FileOps) /\ close \in Seq(FileOps)
  BY <1>0, ThenStep, NoStep, OneStep
<1>3. ends = Closing
  <2>1. end = close
    BY ThenOne
  <2>2. <<Drop("priv_tmp"), Drop("pub_tmp")>> \o close = Temps(close)
    BY <1>0, <1>2, ThenTwo DEF Temps
  <2> QED
    BY <2>1, <2>2 DEF DropTemps, Closing
<1>4. pubEnds = PutBackPub
  <2>1. "pub_bak" \in Baks /\ Final("pub_bak") = "pub" /\ Closing \in Seq(FileOps)
    BY RollbackLists DEF Baks, Final
  <2>2. backPub \o Closing = PutBackPub
    BY <2>1, RestoreThen DEF PutBackPub
  <2> QED
    BY <1>3, <2>2
<1>5. ASSUME NEW t \in Seq(FileOps)
      PROVE  back \o t = Then(Yield("priv_bak"), Then(Move("priv_bak", "priv"), t))
  <2>1. "priv_bak" \in Baks /\ Final("priv_bak") = "priv"
    BY DEF Baks, Final
  <2> QED
    BY <1>5, <2>1, RestoreThen
<1>6. ends \in Seq(FileOps) /\ pubEnds \in Seq(FileOps)
  BY <1>3, <1>4, RollbackLists
<1>7. ASSUME first \in Seq(FileOps) PROVE Rollback(s, j) = first \o PutBack
  <2>1. Rollback(s, j) = (((first \o back) \o backPub) \o DropTemps) \o end
    BY DEF Rollback
  <2> HIDE DEF first, back, backPub, end
  <2>2. first \o back \in Seq(FileOps) /\ (first \o back) \o backPub \in Seq(FileOps)
    BY <1>1, <1>7, ThenSteps
  <2>3. (((first \o back) \o backPub) \o DropTemps) \o end = ((first \o back) \o backPub) \o ends
    <3> DEFINE upTo == (first \o back) \o backPub
    <3>1. upTo \in Seq(FileOps) /\ DropTemps \in Seq(FileOps) /\ end \in Seq(FileOps)
      BY <1>1, <1>2, <2>2
    <3> HIDE DEF upTo
    <3>2. (upTo \o DropTemps) \o end = upTo \o (DropTemps \o end)
      BY <3>1, Regroup
    <3> QED
      BY <3>2, Zenon DEF upTo
  <2>4. ((first \o back) \o backPub) \o ends = (first \o back) \o pubEnds
    <3> DEFINE upTo == first \o back
    <3>1. upTo \in Seq(FileOps) /\ backPub \in Seq(FileOps) /\ ends \in Seq(FileOps)
      BY <1>1, <1>6, <2>2
    <3> HIDE DEF upTo, ends
    <3>2. (upTo \o backPub) \o ends = upTo \o (backPub \o ends)
      BY <3>1, Regroup
    <3> QED
      BY <3>2, Zenon DEF upTo, pubEnds
  <2>5. (first \o back) \o pubEnds = first \o (back \o pubEnds)
    <3>1. first \in Seq(FileOps) /\ back \in Seq(FileOps) /\ pubEnds \in Seq(FileOps)
      BY <1>1, <1>6, <1>7
    <3> HIDE DEF pubEnds
    <3> QED
      BY <3>1, Regroup
  <2> HIDE DEF ends, pubEnds
  <2>6. back \o pubEnds = PutBack
    <3>1. back \o PutBackPub = PutBack
      BY <1>5, RollbackLists DEF PutBack
    <3> QED
      BY <1>4, <3>1, Zenon
  <2> QED
    BY <2>1, <2>3, <2>4, <2>5, <2>6, Zenon
<1>8. first = <<>> => Rollback(s, j) = PutBack
  BY <1>7, NoStep, RollbackLists, ThenTwo
<1>9. first = <<Drop("priv")>> => Rollback(s, j) = Then(Drop("priv"), PutBack)
  <2>1. Drop("priv") \in FileOps /\ PutBack \in Seq(FileOps)
    BY <1>0, RollbackLists
  <2>2. <<Drop("priv")>> \in Seq(FileOps) /\ <<Drop("priv")>> \o PutBack = Then(Drop("priv"), PutBack)
    BY <2>1, OneStep, ThenTwo
  <2> QED
    BY <1>7, <2>2
<1>10. ASSUME first = <<Drop("priv")>> \o back \o <<Drop("pub")>>
       PROVE  Rollback(s, j) = Then(Drop("priv"), Then(Yield("priv_bak"),
                                    Then(Move("priv_bak", "priv"), DropsNew)))
  <2> DEFINE one == <<Drop("priv")>>
             last == <<Drop("pub")>>
  <2>1. one \in Seq(FileOps) /\ last \in Seq(FileOps) /\ one \o back \in Seq(FileOps)
    BY <1>0, <1>1, OneStep, ThenSteps
  <2>2. first \in Seq(FileOps)
    BY <1>10, <2>1, ThenSteps
  <2>3. Rollback(s, j) = ((one \o back) \o last) \o PutBack
    BY <1>7, <1>10, <2>2
  <2>4. last \o PutBack = DropsNew
    BY <1>0, RollbackLists, ThenTwo DEF DropsNew
  <2>5. back \o DropsNew = Then(Yield("priv_bak"), Then(Move("priv_bak", "priv"), DropsNew))
    BY <1>5, RollbackLists
  <2>6. one \o (back \o DropsNew) = Then(Drop("priv"), back \o DropsNew)
    BY <1>0, <1>1, RollbackLists, ThenSteps, ThenTwo
  <2>7. ((one \o back) \o last) \o PutBack = one \o (back \o DropsNew)
    <3>1. /\ one \in Seq(FileOps) /\ back \in Seq(FileOps) /\ last \in Seq(FileOps)
          /\ PutBack \in Seq(FileOps) /\ DropsNew \in Seq(FileOps)
      BY <1>1, <2>1, RollbackLists
    <3> DEFINE upTo == one \o back
    <3>2. upTo \in Seq(FileOps)
      BY <2>1
    <3> HIDE DEF one, back, last, upTo
    <3>3. (upTo \o last) \o PutBack = upTo \o (last \o PutBack)
      BY <3>1, <3>2, Regroup
    <3>4. (one \o back) \o DropsNew = one \o (back \o DropsNew)
      BY <3>1, Regroup
    <3> QED
      BY <2>4, <3>3, <3>4, Zenon DEF upTo
  <2> QED
    BY <2>3, <2>5, <2>6, <2>7
<1> QED
  BY <1>8, <1>9, <1>10

\* An operation of a save fails.
LEMMA RollbackBegins ==
    ASSUME NEW k, NEW j, NEW s,
           \/ s = Move("priv_tmp", "priv") /\ HandlerPlan(
                 Then(Drop("priv"), Then(Yield("priv_bak"), Then(Move("priv_bak", "priv"), DropsNew))), k, j)
           \/ s = Move("pub_tmp", "pub") /\ j.phase = "fresh_priv_installed" /\ k["pub"] = 0
           \/ /\ s # Move("priv_tmp", "priv")
              /\ s # Move("pub_tmp", "pub") \/ j.phase # "fresh_priv_installed"
              /\ PutBackPlan(PutBack, k, j)
    PROVE  RollbackPlan(Rollback(s, j), k, j)
<1>0. Move("priv_tmp", "priv") # Move("pub_tmp", "pub")
  BY DEF Move
<1>1. CASE s = Move("priv_tmp", "priv") /\ HandlerPlan(
               Then(Drop("priv"), Then(Yield("priv_bak"), Then(Move("priv_bak", "priv"), DropsNew))), k, j)
  <2>1. Handler(s, j) = <<Drop("priv")>> \o Restore("priv_bak") \o <<Drop("pub")>>
    BY <1>0, <1>1 DEF Handler
  <2>2. Rollback(s, j) = Then(Drop("priv"), Then(Yield("priv_bak"),
                              Then(Move("priv_bak", "priv"), DropsNew)))
    BY <2>1, RollbackListed
  <2> QED
    BY <1>1, <2>2 DEF RollbackPlan
<1>2. CASE s = Move("pub_tmp", "pub") /\ j.phase = "fresh_priv_installed" /\ k["pub"] = 0
  <2>1. Handler(s, j) = <<Drop("priv")>>
    BY <1>0, <1>2 DEF Handler
  <2>2. Rollback(s, j) = Then(Drop("priv"), PutBack)
    BY <2>1, RollbackListed
  <2> QED
    BY <1>2, <2>2 DEF RollbackPlan, HandlerPlan
<1>3. CASE /\ s # Move("priv_tmp", "priv")
           /\ s # Move("pub_tmp", "pub") \/ j.phase # "fresh_priv_installed"
           /\ PutBackPlan(PutBack, k, j)
  <2>1. Handler(s, j) = <<>>
    BY <1>3 DEF Handler
  <2>2. Rollback(s, j) = PutBack
    BY <2>1, RollbackListed
  <2> QED
    BY <1>3, <2>2 DEF RollbackPlan
<1> QED
  BY <1>1, <1>2, <1>3

LEMMA FourSteps == ASSUME NEW a, NEW b, NEW c, NEW d PROVE <<a, b, c, d>> = <<a, b>> \o <<c, d>>
<1> DEFINE all == {a, b, c, d}
           whole == <<a, b, c, d>>
           joined == <<a, b>> \o <<c, d>>
<1>1. whole \in Seq(all) /\ joined \in Seq(all) /\ Len(whole) = 4 /\ Len(joined) = 4
  OBVIOUS
<1>2. /\ whole[1] = a /\ whole[2] = b /\ whole[3] = c /\ whole[4] = d
      /\ joined[1] = a /\ joined[2] = b /\ joined[3] = c /\ joined[4] = d
  OBVIOUS
<1> HIDE DEF whole, joined, all
<1>3. Len(whole) = Len(joined) /\ \A i \in 1..Len(whole) : whole[i] = joined[i]
  BY <1>1, <1>2
<1>4. whole = joined
  BY <1>1, <1>3, SeqEqual
<1> QED
  BY <1>4 DEF whole, joined

LEMMA FiveSteps == ASSUME NEW a, NEW b, NEW c, NEW d, NEW e PROVE <<a, b, c, d, e>> = <<a, b, c, d>> \o <<e>>
<1> DEFINE all == {a, b, c, d, e}
           whole == <<a, b, c, d, e>>
           joined == <<a, b, c, d>> \o <<e>>
<1>1. whole \in Seq(all) /\ joined \in Seq(all) /\ Len(whole) = 5 /\ Len(joined) = 5
  OBVIOUS
<1>2. /\ whole[1] = a /\ whole[2] = b /\ whole[3] = c /\ whole[4] = d /\ whole[5] = e
      /\ joined[1] = a /\ joined[2] = b /\ joined[3] = c /\ joined[4] = d /\ joined[5] = e
  OBVIOUS
<1> HIDE DEF whole, joined, all
<1>3. Len(whole) = Len(joined) /\ \A i \in 1..Len(whole) : whole[i] = joined[i]
  BY <1>1, <1>2
<1>4. whole = joined
  BY <1>1, <1>3, SeqEqual
<1> QED
  BY <1>4 DEF whole, joined

LEMMA SixSteps == ASSUME NEW a, NEW b, NEW c, NEW d, NEW e, NEW f PROVE <<a, b, c, d, e, f>> = <<a, b, c, d>> \o <<e, f>>
<1> DEFINE all == {a, b, c, d, e, f}
           whole == <<a, b, c, d, e, f>>
           joined == <<a, b, c, d>> \o <<e, f>>
<1>1. whole \in Seq(all) /\ joined \in Seq(all) /\ Len(whole) = 6 /\ Len(joined) = 6
  OBVIOUS
<1>2. /\ whole[1] = a /\ whole[2] = b /\ whole[3] = c /\ whole[4] = d /\ whole[5] = e /\ whole[6] = f
      /\ joined[1] = a /\ joined[2] = b /\ joined[3] = c /\ joined[4] = d /\ joined[5] = e /\ joined[6] = f
  OBVIOUS
<1> HIDE DEF whole, joined, all
<1>3. Len(whole) = Len(joined) /\ \A i \in 1..Len(whole) : whole[i] = joined[i]
  BY <1>1, <1>2
<1>4. whole = joined
  BY <1>1, <1>3, SeqEqual
<1> QED
  BY <1>4 DEF whole, joined

\* Four operations, then the rest.
LEMMA ThenFour ==
    ASSUME NEW a \in FileOps, NEW b \in FileOps, NEW c \in FileOps, NEW d \in FileOps,
           NEW t \in Seq(FileOps)
    PROVE  <<a, b, c, d>> \o t = Then(a, Then(b, Then(c, Then(d, t))))
<1> DEFINE first == <<a, b>>
           second == <<c, d>>
           rest == Then(c, Then(d, t))
<1>1. <<a, b, c, d>> = first \o second
  BY FourSteps
<1>2. first \in Seq(FileOps) /\ second \in Seq(FileOps) /\ rest \in Seq(FileOps)
  BY TwoSteps, ThenStep
<1>3. second \o t = rest
  BY ThenTwo
<1>4. first \o rest = Then(a, Then(b, rest))
  BY <1>2, ThenTwo
<1> HIDE DEF first, second
<1>5. (first \o second) \o t = first \o (second \o t)
  BY <1>2, Regroup
<1>6. <<a, b, c, d>> \o t = first \o rest
  BY <1>1, <1>3, <1>5, Zenon
<1> QED
  BY <1>4, <1>6, Zenon

LEMMA SaveListed ==
    ASSUME NEW k
    PROVE  Save(k) = Then(Commit("intent"), Then(Write("priv_tmp"), StagesPub(k)))
<1>0. /\ Move("priv_tmp", "priv") \in FileOps /\ Move("pub_tmp", "pub") \in FileOps
      /\ Move("pub", "pub_bak") \in FileOps /\ Move("priv", "priv_bak") \in FileOps
      /\ \A p \in Phases : Commit(p) \in FileOps
      /\ Unjournal \in FileOps /\ Drop("priv_bak") \in FileOps /\ Drop("pub_bak") \in FileOps
      /\ Write("priv_tmp") \in FileOps /\ Write("pub_tmp") \in FileOps
  BY SaveOps
<1>1. <<Unjournal>> = Then(Unjournal, <<>>) /\ <<Commit("complete"), Unjournal>> = Settled
  BY PairOfSteps DEF Settled, Then
<1>2. Create = Creates
  <2>1. /\ Move("priv_tmp", "priv") \in FileOps /\ Commit("fresh_priv_installed") \in FileOps
        /\ Move("pub_tmp", "pub") \in FileOps /\ Commit("complete") \in FileOps
        /\ Then(Unjournal, <<>>) \in Seq(FileOps)
    BY <1>0, ThenStep, NoStep DEF Phases
  <2>2. Create = <<Move("priv_tmp", "priv"), Commit("fresh_priv_installed"),
                   Move("pub_tmp", "pub"), Commit("complete")>> \o <<Unjournal>>
    BY FiveSteps DEF Create
  <2>3. <<Move("priv_tmp", "priv"), Commit("fresh_priv_installed"),
          Move("pub_tmp", "pub"), Commit("complete")>> \o Then(Unjournal, <<>>)
          = Then(Move("priv_tmp", "priv"), Then(Commit("fresh_priv_installed"),
                 Then(Move("pub_tmp", "pub"), Then(Commit("complete"), Then(Unjournal, <<>>)))))
    BY <2>1, ThenFour
  <2> QED
    BY <1>1, <2>2, <2>3 DEF Creates, InstallsPub, Settled
<1>3. <<Move("priv_tmp", "priv"), Commit("priv_installed"), Drop("priv_bak"), Drop("pub_bak"),
        Commit("complete"), Unjournal>> = Finishes
  <2>1. /\ Move("priv_tmp", "priv") \in FileOps /\ Commit("priv_installed") \in FileOps
        /\ Drop("priv_bak") \in FileOps /\ Drop("pub_bak") \in FileOps
        /\ Settled \in Seq(FileOps)
    BY <1>0, SaveLists DEF Phases
  <2>2. <<Move("priv_tmp", "priv"), Commit("priv_installed"), Drop("priv_bak"), Drop("pub_bak")>> \o Settled
          = Then(Move("priv_tmp", "priv"), Then(Commit("priv_installed"),
                 Then(Drop("priv_bak"), Then(Drop("pub_bak"), Settled))))
    BY <2>1, ThenFour
  <2>3. <<Move("priv_tmp", "priv"), Commit("priv_installed"), Drop("priv_bak"), Drop("pub_bak"),
          Commit("complete"), Unjournal>>
          = <<Move("priv_tmp", "priv"), Commit("priv_installed"), Drop("priv_bak"), Drop("pub_bak")>>
            \o <<Commit("complete"), Unjournal>>
    BY SixSteps
  <2> QED
    BY <1>1, <2>2, <2>3 DEF Finishes, Discards
<1> DEFINE backPub == IF k["pub"] # 0 THEN <<Move("pub", "pub_bak"), Commit("pub_backed")>> ELSE <<>>
           install == <<Move("pub_tmp", "pub"), Commit("pub_installed")>>
           backPriv == IF k["priv"] # 0 THEN <<Move("priv", "priv_bak"), Commit("priv_backed")>> ELSE <<>>
<1>4. backPriv \in Seq(FileOps) /\ backPriv \o Finishes = Swaps(k)
  <2>1. /\ Move("priv", "priv_bak") \in FileOps /\ Commit("priv_backed") \in FileOps
        /\ Finishes \in Seq(FileOps)
    BY <1>0, SaveLists DEF Phases
  <2>2. <<Move("priv", "priv_bak"), Commit("priv_backed")>> \in Seq(FileOps) /\ <<>> \in Seq(FileOps)
    BY <2>1, TwoSteps, NoStep
  <2>3. /\ <<Move("priv", "priv_bak"), Commit("priv_backed")>> \o Finishes
              = Then(Move("priv", "priv_bak"), Then(Commit("priv_backed"), Finishes))
        /\ <<>> \o Finishes = Finishes
    BY <2>1, ThenTwo
  <2> QED
    BY <2>2, <2>3 DEF Swaps
<1>5. install \in Seq(FileOps) /\ install \o Swaps(k) = Installs(k)
  <2>1. /\ Move("pub_tmp", "pub") \in FileOps /\ Commit("pub_installed") \in FileOps
        /\ Swaps(k) \in Seq(FileOps)
    BY <1>0, SaveLists DEF Phases
  <2> QED
    BY <2>1, TwoSteps, ThenTwo DEF Installs
<1>6. backPub \in Seq(FileOps) /\ backPub \o Installs(k) = Rotates(k)
  <2>1. /\ Move("pub", "pub_bak") \in FileOps /\ Commit("pub_backed") \in FileOps
        /\ Installs(k) \in Seq(FileOps)
    BY <1>0, SaveLists DEF Phases
  <2>2. <<Move("pub", "pub_bak"), Commit("pub_backed")>> \in Seq(FileOps) /\ <<>> \in Seq(FileOps)
    BY <2>1, TwoSteps, NoStep
  <2>3. /\ <<Move("pub", "pub_bak"), Commit("pub_backed")>> \o Installs(k)
              = Then(Move("pub", "pub_bak"), Then(Commit("pub_backed"), Installs(k)))
        /\ <<>> \o Installs(k) = Installs(k)
    BY <2>1, ThenTwo
  <2> QED
    BY <2>2, <2>3 DEF Rotates
<1>7. Rotate(k) = Rotates(k)
  <2>1. Rotate(k) = ((backPub \o install) \o backPriv) \o Finishes
    BY <1>3 DEF Rotate
  <2> HIDE DEF backPub, install, backPriv
  <2>2. Finishes \in Seq(FileOps) /\ Swaps(k) \in Seq(FileOps)
    BY SaveLists
  <2>3. backPub \o install \in Seq(FileOps)
    BY <1>5, <1>6, ThenSteps
  <2>4. ((backPub \o install) \o backPriv) \o Finishes = (backPub \o install) \o Swaps(k)
    <3> DEFINE upTo == backPub \o install
    <3>1. upTo \in Seq(FileOps) /\ backPriv \in Seq(FileOps) /\ Finishes \in Seq(FileOps)
      BY <1>4, <2>2, <2>3
    <3> HIDE DEF upTo
    <3>2. (upTo \o backPriv) \o Finishes = upTo \o (backPriv \o Finishes)
      BY <3>1, Regroup
    <3> QED
      BY <1>4, <3>2, Zenon DEF upTo
  <2>5. (backPub \o install) \o Swaps(k) = backPub \o Installs(k)
    <3>1. (backPub \o install) \o Swaps(k) = backPub \o (install \o Swaps(k))
      BY <1>5, <1>6, <2>2, Regroup
    <3> QED
      BY <1>5, <3>1, Zenon
  <2> QED
    BY <1>6, <2>1, <2>4, <2>5, Zenon
<1>8. Save(k) = Stage \o Body(k)
  BY <1>2, <1>7 DEF Save, Body
<1>9. Stage \o Body(k) = Then(Commit("intent"), Then(Write("priv_tmp"), StagesPub(k)))
  <2>1. /\ Commit("intent") \in FileOps /\ Write("priv_tmp") \in FileOps
        /\ Write("pub_tmp") \in FileOps /\ Commit("staged") \in FileOps /\ Body(k) \in Seq(FileOps)
    BY <1>0, SaveLists DEF Phases
  <2> QED
    BY <2>1, ThenFour DEF Stage, StagesPub
<1> QED
  BY <1>8, <1>9

LEMMA OpsDiffer ==
    /\ \A f, p : Write(f) # Move("priv_tmp", "priv") /\ Write(f) # Move("pub_tmp", "pub")
    /\ \A p : Commit(p) # Move("priv_tmp", "priv") /\ Commit(p) # Move("pub_tmp", "pub")
    /\ Move("pub", "pub_bak") # Move("priv_tmp", "priv") /\ Move("pub", "pub_bak") # Move("pub_tmp", "pub")
    /\ Move("priv", "priv_bak") # Move("priv_tmp", "priv") /\ Move("priv", "priv_bak") # Move("pub_tmp", "pub")
    /\ Move("pub_tmp", "pub") # Move("priv_tmp", "priv")
    /\ \A f : ~MayFail(Drop(f))
    /\ ~MayFail(Unjournal)
<1>1. \A f : Write(f).op = "write" /\ Commit(f).op = "commit" /\ Drop(f).op = "drop"
  BY DEF Write, Commit, Drop
<1>2. \A f, to : Move(f, to).op = "move" /\ Move(f, to).file = f
  BY DEF Move
<1>3. Unjournal.op = "unjournal"
  BY DEF Unjournal
<1>4. \A f : Write(f) # Move("priv_tmp", "priv") /\ Write(f) # Move("pub_tmp", "pub")
  BY <1>1, <1>2
<1>5. \A p : Commit(p) # Move("priv_tmp", "priv") /\ Commit(p) # Move("pub_tmp", "pub")
  BY <1>1, <1>2
<1>6. /\ Move("pub", "pub_bak") # Move("priv_tmp", "priv") /\ Move("pub", "pub_bak") # Move("pub_tmp", "pub")
      /\ Move("priv", "priv_bak") # Move("priv_tmp", "priv") /\ Move("priv", "priv_bak") # Move("pub_tmp", "pub")
      /\ Move("pub_tmp", "pub") # Move("priv_tmp", "priv")
  BY <1>2
<1>7. \A f : ~MayFail(Drop(f))
  BY <1>1 DEF MayFail
<1>8. ~MayFail(Unjournal)
  BY <1>3 DEF MayFail
<1> QED
  BY <1>4, <1>5, <1>6, <1>7, <1>8

LEMMA AtFields == ASSUME NEW p, NEW b PROVE At(p, b).phase = p /\ At(p, b).baks = b
BY DEF At

\* The commit of a phase: two of them name the backup that was just made.
LEMMA CommitPlain ==
    ASSUME NEW t, NEW k, NEW j, NEW g, NEW k2, NEW j2, Stepped(t, k, j, g, k2, j2),
           NEW p, Head(t) = Commit(p), p # "pub_backed", p # "priv_backed"
    PROVE  k2 = k /\ j2 = At(p, j.baks)
<1>1. k2 = k /\ j2 = At(p, j.baks \cup {})
  BY CommitDone
<1>2. j.baks \cup {} = j.baks
  OBVIOUS
<1> QED
  BY <1>1, <1>2

LEMMA CommitPub ==
    ASSUME NEW t, NEW k, NEW j, NEW g, NEW k2, NEW j2, Stepped(t, k, j, g, k2, j2),
           Head(t) = Commit("pub_backed")
    PROVE  k2 = k /\ j2 = At("pub_backed", j.baks \cup {"pub_bak"})
BY CommitDone

LEMMA CommitPriv ==
    ASSUME NEW t, NEW k, NEW j, NEW g, NEW k2, NEW j2, Stepped(t, k, j, g, k2, j2),
           Head(t) = Commit("priv_backed")
    PROVE  k2 = k /\ j2 = At("priv_backed", j.baks \cup {"priv_bak"})
BY CommitDone

\* An operation that has no handler of its own fails.
LEMMA PlainFailure ==
    ASSUME NEW k, NEW j, NEW s,
           s # Move("priv_tmp", "priv"),
           s # Move("pub_tmp", "pub") \/ j.phase # "fresh_priv_installed",
           j.phase = "fresh_priv_installed" => BothOrNone(k),
           j.phase \in Keeping => Unbacked(k),
           Unnamed(k, j, "priv_bak"), Unnamed(k, j, "pub_bak")
    PROVE  RollbackPlan(Rollback(s, j), k, j)
<1>1. PutBackPlan(PutBack, k, j)
  BY DEF PutBackPlan
<1> QED
  BY <1>1, RollbackBegins

LEMMA StagesSame ==
    ASSUME NEW k, NEW k2, k2["priv"] = k["priv"], k2["pub"] = k["pub"]
    PROVE  Body(k2) = Body(k) /\ StagesPub(k2) = StagesPub(k)
<1>1. Swaps(k2) = Swaps(k)
  BY DEF Swaps
<1>2. Installs(k2) = Installs(k)
  BY <1>1 DEF Installs
<1>3. Rotates(k2) = Rotates(k)
  BY <1>2 DEF Rotates
<1>4. Body(k2) = Body(k)
  BY <1>3 DEF Body
<1> QED
  BY <1>4 DEF StagesPub

LEMMA BodyNext ==
    ASSUME NEW k, NEW j, NEW g, j = At("staged", {}), Unbacked(k), k["priv"] # g,
           k["priv_tmp"] = g, k["pub_tmp"] = g
    PROVE  CreatePlan(Body(k), k, j, g) \/ RotatePlan(Body(k), k, j, g)
<1>1. CASE k["priv"] = 0 /\ k["pub"] = 0
  <2>1. Body(k) = Creates
    BY <1>1 DEF Body
  <2> QED
    BY <1>1, <2>1 DEF CreatePlan
<1>2. CASE k["pub"] # 0
  <2>1. Body(k) = Then(Move("pub", "pub_bak"), Then(Commit("pub_backed"), Installs(k)))
    BY <1>2 DEF Body, Rotates
  <2> QED
    BY <1>2, <2>1 DEF RotatePlan
<1>3. CASE k["priv"] # 0 /\ k["pub"] = 0
  <2>1. Body(k) = Installs(k)
    BY <1>3 DEF Body, Rotates
  <2>2. Recovered(k, j)[1] = k["priv"]
    BY <1>3, AtFields DEF Recovered, RecoversTo
  <2>3. PubKept(k, j, g)
    BY <1>3, <2>2, AtFields DEF PubKept, Named, Unbacked
  <2> QED
    BY <1>3, <2>1, <2>3 DEF RotatePlan, Unbacked
<1> QED
  BY <1>1, <1>2, <1>3

LEMMA StageStep ==
    ASSUME NEW k \in [KeyFiles -> Nat], NEW j \in Journals, NEW t, NEW g \in 1..MaxPairs, NEW k2, NEW j2,
           AtRest(k, j), StagePlan(t, k, j, g), Stepped(t, k, j, g, k2, j2)
    PROVE  /\ Moves(k, j, k2, j2) /\ SavePlan(Tail(t), k2, j2, g)
           /\ MayFail(Head(t)) => RollbackPlan(Rollback(Head(t), j), k, j)
<1> DEFINE commit == Then(Commit("staged"), Body(k))
           writes == Then(Write("priv_tmp"), StagesPub(k))
<1>0. /\ Commit("intent") \in FileOps /\ Commit("staged") \in FileOps
      /\ Write("priv_tmp") \in FileOps /\ Write("pub_tmp") \in FileOps
      /\ Body(k) \in Seq(FileOps) /\ StagesPub(k) \in Seq(FileOps)
      /\ commit \in Seq(FileOps) /\ writes \in Seq(FileOps)
  <2>1. /\ Commit("intent") \in FileOps /\ Commit("staged") \in FileOps
        /\ Write("priv_tmp") \in FileOps /\ Write("pub_tmp") \in FileOps
    BY SaveOps DEF Phases
  <2> QED
    BY <2>1, SaveLists, ThenStep
<1>1. Unbacked(k) /\ k["priv"] # g
  BY DEF StagePlan
<1>2. Unnamed(k, j, "priv_bak") /\ Unnamed(k, j, "pub_bak")
  BY <1>1 DEF Unnamed, Unbacked
<1>3. CASE j = NoJournal /\ t = Then(Commit("intent"), writes)
  <2>1. Head(t) = Commit("intent") /\ Tail(t) = writes
    BY <1>0, <1>3, ThenStep
  <2>2. k2 = k /\ j2 = At("intent", {})
    BY <1>3, <2>1, CommitDone DEF NoJournal
  <2>3. Moves(k, j, k2, j2)
    BY <1>3, <2>2, AtFields DEF Moves, AtRest, Recovered, RecoversTo, NoJournal
  <2>4. SavePlan(Tail(t), k2, j2, g)
    BY <1>1, <2>1, <2>2 DEF SavePlan, StagePlan
  <2>5. j.phase = "none"
    BY <1>3 DEF NoJournal
  <2>6. RollbackPlan(Rollback(Head(t), j), k, j)
    BY <1>2, <2>1, <2>5, OpsDiffer, PlainFailure DEF Keeping
  <2> QED
    BY <2>3, <2>4, <2>6
<1>4. CASE j = At("intent", {}) /\ t = writes
  <2>1. Head(t) = Write("priv_tmp") /\ Tail(t) = StagesPub(k)
    BY <1>0, <1>4, ThenStep
  <2>2. k2 = [k EXCEPT !["priv_tmp"] = g] /\ j2 = j
    BY <2>1, WriteDone
  <2>3. /\ Kept(k, j, k2, j) /\ k2["priv"] = k["priv"] /\ k2["pub"] = k["pub"]
        /\ k2["priv_bak"] = k["priv_bak"] /\ k2["pub_bak"] = k["pub_bak"]
    BY <2>2, TempsKept
  <2>4. k2["priv_tmp"] = g /\ StagesPub(k2) = StagesPub(k)
    BY <2>2, <2>3, StagesSame DEF KeyFiles
  <2>5. SavePlan(Tail(t), k2, j2, g)
    BY <1>1, <1>4, <2>1, <2>2, <2>3, <2>4 DEF SavePlan, StagePlan, Unbacked
  <2>6. RollbackPlan(Rollback(Head(t), j), k, j)
    BY <1>2, <1>4, <2>1, AtFields, OpsDiffer, PlainFailure DEF Keeping
  <2> QED
    BY <2>2, <2>3, <2>5, <2>6 DEF Moves, Kept
<1>5. CASE j = At("intent", {}) /\ t = StagesPub(k) /\ k["priv_tmp"] = g
  <2>1. Head(t) = Write("pub_tmp") /\ Tail(t) = commit
    BY <1>0, <1>5, ThenStep DEF StagesPub
  <2>2. k2 = [k EXCEPT !["pub_tmp"] = g] /\ j2 = j
    BY <2>1, WriteDone
  <2>3. /\ Kept(k, j, k2, j) /\ k2["priv"] = k["priv"] /\ k2["pub"] = k["pub"]
        /\ k2["priv_bak"] = k["priv_bak"] /\ k2["pub_bak"] = k["pub_bak"]
    BY <2>2, TempsKept
  <2>4. k2["pub_tmp"] = g /\ k2["priv_tmp"] = g /\ Body(k2) = Body(k)
    BY <1>5, <2>2, <2>3, StagesSame DEF KeyFiles
  <2>5. SavePlan(Tail(t), k2, j2, g)
    BY <1>1, <1>5, <2>1, <2>2, <2>3, <2>4 DEF SavePlan, StagePlan, Unbacked
  <2>6. RollbackPlan(Rollback(Head(t), j), k, j)
    BY <1>2, <1>5, <2>1, AtFields, OpsDiffer, PlainFailure DEF Keeping
  <2> QED
    BY <2>2, <2>3, <2>5, <2>6 DEF Moves, Kept
<1>6. CASE j = At("intent", {}) /\ t = commit /\ k["priv_tmp"] = g /\ k["pub_tmp"] = g
  <2>1. Head(t) = Commit("staged") /\ Tail(t) = Body(k)
    BY <1>0, <1>6, ThenStep
  <2>2. k2 = k /\ j2 = At("staged", {})
    <3>1. j.baks = {}
      BY <1>6, AtFields
    <3>2. k2 = k /\ j2 = At("staged", j.baks)
      BY <2>1, CommitPlain
    <3> QED
      BY <3>1, <3>2
  <2>3. Moves(k, j, k2, j2)
    BY <1>6, <2>2, AtFields DEF Moves, AtRest, Recovered, RecoversTo
  <2>4. SavePlan(Tail(t), k2, j2, g)
    BY <1>1, <1>6, <2>1, <2>2, BodyNext DEF SavePlan
  <2>5. RollbackPlan(Rollback(Head(t), j), k, j)
    BY <1>2, <1>6, <2>1, AtFields, OpsDiffer, PlainFailure DEF Keeping
  <2> QED
    BY <2>3, <2>4, <2>5
<1> QED
  BY <1>3, <1>4, <1>5, <1>6 DEF StagePlan

LEMMA CreateStep ==
    ASSUME NEW k \in [KeyFiles -> Nat], NEW j \in Journals, NEW t, NEW g \in 1..MaxPairs, NEW k2, NEW j2,
           AtRest(k, j), CreatePlan(t, k, j, g), Stepped(t, k, j, g, k2, j2)
    PROVE  /\ Moves(k, j, k2, j2) /\ SavePlan(Tail(t), k2, j2, g)
           /\ MayFail(Head(t)) => RollbackPlan(Rollback(Head(t), j), k, j)
<1> DEFINE commit == Then(Commit("fresh_priv_installed"), InstallsPub)
           close == Then(Unjournal, <<>>)
<1>0. /\ Move("priv_tmp", "priv") \in FileOps /\ Move("pub_tmp", "pub") \in FileOps
      /\ Commit("fresh_priv_installed") \in FileOps /\ Commit("complete") \in FileOps
      /\ InstallsPub \in Seq(FileOps) /\ Settled \in Seq(FileOps)
      /\ commit \in Seq(FileOps) /\ close \in Seq(FileOps)
  <2>1. /\ Move("priv_tmp", "priv") \in FileOps /\ Move("pub_tmp", "pub") \in FileOps
        /\ Commit("fresh_priv_installed") \in FileOps /\ Commit("complete") \in FileOps
        /\ Unjournal \in FileOps
    BY SaveOps DEF Phases
  <2> QED
    BY <2>1, SaveLists, ThenStep, NoStep
<1>1. Unbacked(k) /\ k["priv_bak"] = 0 /\ k["pub_bak"] = 0 /\ g # 0
  BY DEF CreatePlan, Unbacked
<1>2. Unnamed(k, j, "priv_bak") /\ Unnamed(k, j, "pub_bak")
  BY <1>1 DEF Unnamed
<1>3. CASE /\ j = At("staged", {}) /\ t = Creates
           /\ k["priv"] = 0 /\ k["pub"] = 0 /\ k["priv_tmp"] = g /\ k["pub_tmp"] = g
  <2>1. Head(t) = Move("priv_tmp", "priv") /\ Tail(t) = commit
    BY <1>0, <1>3, ThenStep DEF Creates
  <2>2. j.phase = "staged" /\ j.baks = {}
    BY <1>3, AtFields
  <2>3. /\ j2 = j /\ k2["priv"] = g /\ k2["pub"] = 0 /\ k2["pub_tmp"] = g
        /\ k2["priv_bak"] = 0 /\ k2["pub_bak"] = 0
    BY <1>1, <1>3, <2>1, MoveDone DEF KeyFiles
  <2>4. Recovered(k, j) = Pair!Absent /\ Recovered(k2, j2) = Pair!PrivateAlone(g)
    BY <1>1, <1>3, <2>2, <2>3 DEF Recovered, RecoversTo, Pair!Absent, Pair!PrivateAlone
  <2>5. ~Pair!Whole(Pair!Absent)
    BY DEF Pair!Whole, Pair!Absent
  <2>6. Moves(k, j, k2, j2)
    BY <2>2, <2>3, <2>4, <2>5 DEF Moves, AtRest, Pair!After
  <2>7. SavePlan(Tail(t), k2, j2, g)
    BY <1>3, <2>1, <2>3 DEF SavePlan, CreatePlan, Unbacked
  <2>8. Droppable(k, j)
    BY <1>1, <1>3 DEF Droppable
  <2>9. RollbackPlan(Rollback(Head(t), j), k, j)
    BY <1>2, <1>3, <2>1, <2>2, <2>8, RollbackBegins DEF HandlerPlan
  <2> QED
    BY <2>6, <2>7, <2>9
<1>4. CASE /\ j = At("staged", {}) /\ t = commit
           /\ k["priv"] = g /\ k["pub"] = 0 /\ k["pub_tmp"] = g
  <2>1. Head(t) = Commit("fresh_priv_installed") /\ Tail(t) = InstallsPub
    BY <1>0, <1>4, ThenStep
  <2>2. j.phase = "staged" /\ j.baks = {}
    BY <1>4, AtFields
  <2>3. k2 = k /\ j2 = At("fresh_priv_installed", {})
    <3>1. k2 = k /\ j2 = At("fresh_priv_installed", j.baks)
      BY <2>1, CommitPlain
    <3> QED
      BY <2>2, <3>1
  <2>4. j2.phase = "fresh_priv_installed" /\ j2.baks = {}
    BY <2>3, AtFields
  <2>5. Recovered(k, j) = <<g, 0>> /\ Recovered(k2, j2) = <<0, 0>>
    BY <1>1, <1>4, <2>2, <2>3, <2>4 DEF Recovered, RecoversTo
  <2>6. <<0, 0>> \in Pair!After(<<g, 0>>, g)
    BY <1>1 DEF Pair!After, Pair!Whole, Pair!Absent, Pair!Mixtures
  <2>7. Moves(k, j, k2, j2)
    BY <1>1, <2>3, <2>4, <2>5, <2>6 DEF Moves, AtRest
  <2>8. SavePlan(Tail(t), k2, j2, g)
    BY <1>1, <1>4, <2>1, <2>3 DEF SavePlan, CreatePlan
  <2>9. RollbackPlan(Rollback(Head(t), j), k, j)
    BY <1>2, <2>1, <2>2, OpsDiffer, PlainFailure DEF Keeping
  <2> QED
    BY <2>7, <2>8, <2>9
<1>5. CASE /\ j = At("fresh_priv_installed", {}) /\ t = InstallsPub
           /\ k["priv"] = g /\ k["pub"] = 0 /\ k["pub_tmp"] = g
  <2>1. Head(t) = Move("pub_tmp", "pub") /\ Tail(t) = Settled
    BY <1>0, <1>5, ThenStep DEF InstallsPub
  <2>2. j.phase = "fresh_priv_installed" /\ j.baks = {}
    BY <1>5, AtFields
  <2>3. /\ j2 = j /\ k2["priv"] = g /\ k2["pub"] = g
        /\ k2["priv_bak"] = 0 /\ k2["pub_bak"] = 0
    BY <1>1, <1>5, <2>1, MoveDone DEF KeyFiles
  <2>4. Recovered(k, j) = Pair!Absent /\ Recovered(k2, j2) = Pair!Installed(g)
    BY <1>1, <1>5, <2>2, <2>3 DEF Recovered, RecoversTo, Pair!Absent, Pair!Installed
  <2>5. ~Pair!Whole(Pair!Absent)
    BY DEF Pair!Whole, Pair!Absent
  <2>6. Moves(k, j, k2, j2)
    BY <2>2, <2>3, <2>4, <2>5 DEF Moves, AtRest, Pair!After
  <2>7. SavePlan(Tail(t), k2, j2, g)
    BY <1>5, <2>1, <2>3 DEF SavePlan, CreatePlan, Unbacked
  <2>8. RollbackPlan(Rollback(Head(t), j), k, j)
    BY <1>5, <2>1, <2>2, RollbackBegins
  <2> QED
    BY <2>6, <2>7, <2>8
<1>6. CASE /\ j = At("fresh_priv_installed", {}) /\ t = Settled
           /\ k["priv"] = g /\ k["pub"] = g
  <2>1. Head(t) = Commit("complete") /\ Tail(t) = close
    BY <1>0, <1>6, ThenStep DEF Settled
  <2>2. j.phase = "fresh_priv_installed" /\ j.baks = {}
    BY <1>6, AtFields
  <2>3. k2 = k /\ j2 = At("complete", j.baks)
    BY <2>1, CommitPlain
  <2>4. j2.phase = "complete" /\ j2.baks = {}
    BY <2>2, <2>3, AtFields
  <2>5. Recovered(k, j) = Recovered(k2, j2)
    BY <1>1, <1>6, <2>2, <2>3, <2>4 DEF Recovered, RecoversTo
  <2>6. Moves(k, j, k2, j2)
    BY <2>4, <2>5 DEF Moves, AtRest
  <2>7. SavePlan(Tail(t), k2, j2, g)
    BY <1>1, <2>1, <2>3, <2>4 DEF SavePlan, SettlePlan
  <2>8. RollbackPlan(Rollback(Head(t), j), k, j)
    BY <1>1, <1>2, <1>6, <2>1, <2>2, OpsDiffer, PlainFailure DEF Keeping, BothOrNone
  <2> QED
    BY <2>6, <2>7, <2>8
<1> QED
  BY <1>3, <1>4, <1>5, <1>6 DEF CreatePlan

LEMMA SwapsSame ==
    ASSUME NEW k, NEW k2, k2["priv"] = k["priv"]
    PROVE  Swaps(k2) = Swaps(k) /\ Installs(k2) = Installs(k)
<1>1. Swaps(k2) = Swaps(k)
  BY DEF Swaps
<1> QED
  BY <1>1 DEF Installs

\* What a recovery finds of one half of a pair that is being rotated.
LEMMA HalfFound ==
    ASSUME NEW k, NEW j, j.phase # "fresh_priv_installed"
    PROVE  /\ Recovered(k, j)[1] = RecoversTo(k, j, "priv", "priv_bak")
           /\ Recovered(k, j)[2] = RecoversTo(k, j, "pub", "pub_bak")
           /\ Recovered(k, j) = <<Recovered(k, j)[1], Recovered(k, j)[2]>>
BY DEF Recovered

LEMMA SwapsNext ==
    ASSUME NEW k, NEW j, NEW g, j = At("pub_installed", j.baks), j.baks = {} \/ j.baks = {"pub_bak"},
           PubKept(k, j, g), k["priv_bak"] = 0, k["pub"] = g, k["priv_tmp"] = g
    PROVE  RotatePlan(Swaps(k), k, j, g)
<1>1. CASE k["priv"] # 0
  <2>1. Swaps(k) = Then(Move("priv", "priv_bak"), Then(Commit("priv_backed"), Finishes))
    BY <1>1 DEF Swaps
  <2>2. j \in {At("pub_installed", {}), At("pub_installed", {"pub_bak"})}
    OBVIOUS
  <2> QED
    BY <1>1, <2>1, <2>2 DEF RotatePlan
<1>2. CASE k["priv"] = 0
  <2>1. Swaps(k) = Finishes
    BY <1>2 DEF Swaps
  <2>2. j.phase = "pub_installed" 
    BY AtFields
  <2>3. Recovered(k, j)[1] = 0
    BY <1>2, <2>2 DEF Recovered, RecoversTo
  <2>4. Named(j, "pub_bak") /\ ~Named(j, "priv_bak")
    BY <2>2, <2>3 DEF PubKept, Named
  <2>5. PrivKept(k, j)
    BY <2>2, <2>4 DEF PrivKept
  <2> QED
    BY <1>2, <2>1, <2>5 DEF RotatePlan
<1> QED
  BY <1>1, <1>2

LEMMA RotateStep ==
    ASSUME NEW k \in [KeyFiles -> Nat], NEW j \in Journals, NEW t, NEW g \in 1..MaxPairs, NEW k2, NEW j2,
           AtRest(k, j), RotatePlan(t, k, j, g), Stepped(t, k, j, g, k2, j2)
    PROVE  /\ Moves(k, j, k2, j2) /\ SavePlan(Tail(t), k2, j2, g)
           /\ MayFail(Head(t)) => RollbackPlan(Rollback(Head(t), j), k, j)
<1> DEFINE commitPub == Then(Commit("pub_backed"), Installs(k))
           commitInstalled == Then(Commit("pub_installed"), Swaps(k))
           commitPriv == Then(Commit("priv_backed"), Finishes)
           commitBoth == Then(Commit("priv_installed"), Discards)
<1>0. /\ Move("pub", "pub_bak") \in FileOps /\ Move("pub_tmp", "pub") \in FileOps
      /\ Move("priv", "priv_bak") \in FileOps /\ Move("priv_tmp", "priv") \in FileOps
      /\ Commit("pub_backed") \in FileOps /\ Commit("pub_installed") \in FileOps
      /\ Commit("priv_backed") \in FileOps /\ Commit("priv_installed") \in FileOps
      /\ Installs(k) \in Seq(FileOps) /\ Swaps(k) \in Seq(FileOps)
      /\ Finishes \in Seq(FileOps) /\ Discards \in Seq(FileOps)
      /\ commitPub \in Seq(FileOps) /\ commitInstalled \in Seq(FileOps)
      /\ commitPriv \in Seq(FileOps) /\ commitBoth \in Seq(FileOps)
  <2>1. /\ Move("pub", "pub_bak") \in FileOps /\ Move("pub_tmp", "pub") \in FileOps
        /\ Move("priv", "priv_bak") \in FileOps /\ Move("priv_tmp", "priv") \in FileOps
        /\ Commit("pub_backed") \in FileOps /\ Commit("pub_installed") \in FileOps
        /\ Commit("priv_backed") \in FileOps /\ Commit("priv_installed") \in FileOps
    BY SaveOps DEF Phases
  <2> QED
    BY <2>1, SaveLists, ThenStep
<1>1. g # 0
  OBVIOUS
<1>2. CASE /\ t = Then(Move("pub", "pub_bak"), commitPub)
           /\ j = At("staged", {}) /\ Unbacked(k) /\ k["pub"] # 0
           /\ k["priv_tmp"] = g /\ k["pub_tmp"] = g
  <2>1. Head(t) = Move("pub", "pub_bak") /\ Tail(t) = commitPub
    BY <1>0, <1>2, ThenStep
  <2>2. j.phase = "staged" /\ j.baks = {}
    BY <1>2, AtFields
  <2>3. /\ j2 = j /\ k2["pub_bak"] = k["pub"] /\ k2["pub"] = 0 /\ k2["priv"] = k["priv"]
        /\ k2["priv_bak"] = 0 /\ k2["priv_tmp"] = g /\ k2["pub_tmp"] = g
    BY <1>2, <2>1, MoveDone DEF KeyFiles, Unbacked
  <2>4. Recovered(k2, j2) = Recovered(k, j)
    BY <1>2, <2>2, <2>3 DEF Recovered, RecoversTo, Unbacked
  <2>5. Moves(k, j, k2, j2)
    BY <2>2, <2>3, <2>4 DEF Moves, AtRest
  <2>6. Tail(t) = Then(Commit("pub_backed"), Installs(k2))
    BY <2>1, <2>3, SwapsSame
  <2>7. RotatePlan(Tail(t), k2, j2, g)
    BY <1>2, <2>3, <2>6 DEF RotatePlan
  <2>8. RollbackPlan(Rollback(Head(t), j), k, j)
    BY <1>2, <2>1, <2>2, OpsDiffer, PlainFailure DEF Keeping, Unnamed, Unbacked
  <2> QED
    BY <2>5, <2>7, <2>8 DEF SavePlan
<1>3. CASE /\ t = commitPub
           /\ j = At("staged", {}) /\ k["pub_bak"] # 0 /\ k["priv_bak"] = 0 /\ k["pub"] = 0
           /\ k["priv_tmp"] = g /\ k["pub_tmp"] = g
  <2>1. Head(t) = Commit("pub_backed") /\ Tail(t) = Installs(k)
    BY <1>0, <1>3, ThenStep
  <2>2. j.phase = "staged" /\ j.baks = {}
    BY <1>3, AtFields
  <2>3. k2 = k /\ j2 = At("pub_backed", {"pub_bak"})
    <3>1. k2 = k /\ j2 = At("pub_backed", j.baks \cup {"pub_bak"})
      BY <2>1, CommitPub
    <3>2. j.baks \cup {"pub_bak"} = {"pub_bak"}
      BY <2>2
    <3> QED
      BY <3>1, <3>2
  <2>4. j2.phase = "pub_backed" /\ j2.baks = {"pub_bak"}
    BY <2>3, AtFields
  <2>5. Recovered(k2, j2) = Recovered(k, j)
    BY <1>3, <2>2, <2>3, <2>4 DEF Recovered, RecoversTo
  <2>6. Moves(k, j, k2, j2)
    BY <2>4, <2>5 DEF Moves, AtRest
  <2>7. PubKept(k2, j2, g)
    BY <1>3, <2>3, <2>4 DEF PubKept, Named
  <2>8. RotatePlan(Tail(t), k2, j2, g)
    BY <1>3, <2>1, <2>3, <2>7 DEF RotatePlan
  <2>9. RollbackPlan(Rollback(Head(t), j), k, j)
    BY <1>3, <2>1, <2>2, OpsDiffer, PlainFailure DEF Keeping, Unnamed, Final
  <2> QED
    BY <2>6, <2>8, <2>9 DEF SavePlan
<1>4. CASE /\ t = Installs(k)
           /\ j \in {At("staged", {}), At("pub_backed", {"pub_bak"})}
           /\ PubKept(k, j, g) /\ k["priv_bak"] = 0 /\ k["pub"] = 0
           /\ k["priv_tmp"] = g /\ k["pub_tmp"] = g
  <2>1. Head(t) = Move("pub_tmp", "pub") /\ Tail(t) = commitInstalled
    BY <1>0, <1>4, ThenStep DEF Installs
  <2>2. (j.phase = "staged" /\ j.baks = {}) \/ (j.phase = "pub_backed" /\ j.baks = {"pub_bak"})
    BY <1>4, AtFields
  <2>3. /\ j2 = j /\ k2["pub"] = g /\ k2["priv"] = k["priv"] /\ k2["priv_tmp"] = g
        /\ k2["priv_bak"] = 0 /\ k2["pub_bak"] = k["pub_bak"]
    BY <1>1, <1>4, <2>1, MoveDone DEF KeyFiles
  <2>4. Recovered(k2, j)[1] = Recovered(k, j)[1]
    BY <1>4, <2>2, <2>3 DEF Recovered, RecoversTo
  <2>5. PubKept(k2, j2, g)
    BY <1>4, <2>3, <2>4 DEF PubKept
  <2>6. Tail(t) = Then(Commit("pub_installed"), Swaps(k2))
    BY <2>1, <2>3, SwapsSame
  <2>7. RotatePlan(Tail(t), k2, j2, g)
    BY <1>4, <2>3, <2>5, <2>6 DEF RotatePlan
  <2>8. Moves(k, j, k2, j2)
    <3>1. AtRest(k2, j2)
      BY <2>2, <2>3 DEF AtRest
    <3>2. CASE Named(j, "pub_bak") /\ k["pub_bak"] # 0
      <4>1. Recovered(k2, j2) = Recovered(k, j)
        BY <1>4, <2>2, <2>3, <3>2 DEF Recovered, RecoversTo, Named
      <4> QED
        BY <3>1, <4>1 DEF Moves
    <3>3. CASE ~Named(j, "pub_bak") /\ k["pub_bak"] = 0 /\ Recovered(k, j)[1] \notin {0, g}
      <4> DEFINE priv == Recovered(k, j)[1]
      <4>1. j.phase = "staged" /\ j.baks = {}
        BY <2>2, <3>3 DEF Named
      <4>2. priv = RecoversTo(k, j, "priv", "priv_bak")
        BY <4>1, HalfFound
      <4>3. Recovered(k, j) = <<priv, 0>>
        BY <1>4, <3>3, <4>1, <4>2 DEF Recovered, RecoversTo
      <4>4. Recovered(k2, j2)[1] = priv /\ Recovered(k2, j2)[2] = g
        BY <1>1, <2>3, <2>4, <4>1 DEF Recovered, RecoversTo
      <4>5. Recovered(k2, j2) = <<priv, g>>
        BY <2>3, <4>1, <4>4, HalfFound
      <4>6. priv # 0
        BY <3>3
      <4> HIDE DEF priv
      <4>7. <<priv, g>> \in Pair!After(<<priv, 0>>, g)
        BY <4>6 DEF Pair!After, Pair!Whole, Pair!Absent, Pair!Mixtures
      <4> QED
        BY <3>1, <4>3, <4>5, <4>7 DEF Moves
    <3> QED
      BY <1>4, <3>2, <3>3 DEF PubKept
  <2>9. RollbackPlan(Rollback(Head(t), j), k, j)
    BY <1>4, <2>1, <2>2, OpsDiffer, PlainFailure DEF Keeping, Unnamed, Final
  <2> QED
    BY <2>7, <2>8, <2>9 DEF SavePlan
<1>5. CASE /\ t = commitInstalled
           /\ j \in {At("staged", {}), At("pub_backed", {"pub_bak"})}
           /\ PubKept(k, j, g) /\ k["priv_bak"] = 0 /\ k["pub"] = g /\ k["priv_tmp"] = g
  <2>1. Head(t) = Commit("pub_installed") /\ Tail(t) = Swaps(k)
    BY <1>0, <1>5, ThenStep
  <2>2. (j.phase = "staged" /\ j.baks = {}) \/ (j.phase = "pub_backed" /\ j.baks = {"pub_bak"})
    BY <1>5, AtFields
  <2>3. k2 = k /\ j2 = At("pub_installed", j.baks)
    BY <2>1, CommitPlain
  <2>4. j2.phase = "pub_installed" /\ j2.baks = j.baks
    BY <2>3, AtFields
  <2>5. Recovered(k2, j2) = Recovered(k, j)
    BY <1>1, <1>5, <2>2, <2>3, <2>4 DEF Recovered, RecoversTo
  <2>6. Moves(k, j, k2, j2)
    BY <2>4, <2>5 DEF Moves, AtRest
  <2>7. PubKept(k2, j2, g)
    BY <1>5, <2>3, <2>4, <2>5 DEF PubKept, Named
  <2>8. j2 = At("pub_installed", j2.baks) /\ (j2.baks = {} \/ j2.baks = {"pub_bak"})
    BY <2>2, <2>3, <2>4
  <2>9. RotatePlan(Tail(t), k2, j2, g)
    <3>1. /\ k2["priv_bak"] = 0 /\ k2["pub"] = g /\ k2["priv_tmp"] = g
          /\ Tail(t) = Swaps(k2)
      BY <1>5, <2>1, <2>3
    <3>2. RotatePlan(Swaps(k2), k2, j2, g)
      BY <2>7, <2>8, <3>1, SwapsNext
    <3> QED
      BY <3>1, <3>2
  <2>10. Unnamed(k, j, "priv_bak") /\ Unnamed(k, j, "pub_bak")
    BY <1>5 DEF Unnamed, PubKept
  <2>11. RollbackPlan(Rollback(Head(t), j), k, j)
    BY <2>1, <2>2, <2>10, OpsDiffer, PlainFailure DEF Keeping
  <2> QED
    BY <2>6, <2>9, <2>11 DEF SavePlan
<1>6. CASE /\ t = Then(Move("priv", "priv_bak"), commitPriv)
           /\ j \in {At("pub_installed", {}), At("pub_installed", {"pub_bak"})}
           /\ PubKept(k, j, g) /\ k["priv_bak"] = 0 /\ k["priv"] # 0 /\ k["pub"] = g
           /\ k["priv_tmp"] = g
  <2>1. Head(t) = Move("priv", "priv_bak") /\ Tail(t) = commitPriv
    BY <1>0, <1>6, ThenStep
  <2>2. j.phase = "pub_installed" /\ (j.baks = {} \/ j.baks = {"pub_bak"})
    BY <1>6, AtFields
  <2>3. /\ j2 = j /\ k2["priv_bak"] = k["priv"] /\ k2["priv"] = 0 /\ k2["pub"] = k["pub"]
        /\ k2["pub_bak"] = k["pub_bak"] /\ k2["priv_tmp"] = g
    BY <1>6, <2>1, MoveDone DEF KeyFiles
  <2>4. Recovered(k2, j2) = Recovered(k, j)
    BY <1>6, <2>2, <2>3 DEF Recovered, RecoversTo
  <2>5. Moves(k, j, k2, j2)
    BY <2>2, <2>3, <2>4 DEF Moves, AtRest
  <2>6. PubKept(k2, j2, g)
    BY <1>6, <2>3, <2>4 DEF PubKept
  <2>7. RotatePlan(Tail(t), k2, j2, g)
    BY <1>6, <2>1, <2>3, <2>6 DEF RotatePlan
  <2>8. Unnamed(k, j, "priv_bak") /\ Unnamed(k, j, "pub_bak")
    BY <1>6 DEF Unnamed, PubKept
  <2>9. RollbackPlan(Rollback(Head(t), j), k, j)
    BY <2>1, <2>2, <2>8, OpsDiffer, PlainFailure DEF Keeping
  <2> QED
    BY <2>5, <2>7, <2>9 DEF SavePlan
<1>7. CASE /\ t = commitPriv
           /\ j \in {At("pub_installed", {}), At("pub_installed", {"pub_bak"})}
           /\ PubKept(k, j, g) /\ k["priv_bak"] # 0 /\ k["priv"] = 0 /\ k["pub"] = g
           /\ k["priv_tmp"] = g
  <2>1. Head(t) = Commit("priv_backed") /\ Tail(t) = Finishes
    BY <1>0, <1>7, ThenStep
  <2>2. j.phase = "pub_installed" /\ (j.baks = {} \/ j.baks = {"pub_bak"})
    BY <1>7, AtFields
  <2>3. k2 = k /\ j2 = At("priv_backed", j.baks \cup {"priv_bak"})
    BY <2>1, CommitPriv
  <2>4. j2.phase = "priv_backed" /\ j2.baks = j.baks \cup {"priv_bak"}
    BY <2>3, AtFields
  <2>5. Recovered(k2, j2) = Recovered(k, j)
    BY <1>7, <2>2, <2>3, <2>4 DEF Recovered, RecoversTo
  <2>6. Moves(k, j, k2, j2)
    BY <2>4, <2>5 DEF Moves, AtRest
  <2>7. PubKept(k2, j2, g) /\ PrivKept(k2, j2)
    BY <1>7, <2>3, <2>4, <2>5 DEF PubKept, PrivKept, Named
  <2>8. RotatePlan(Tail(t), k2, j2, g)
    BY <1>7, <2>1, <2>3, <2>7 DEF RotatePlan
  <2>9. Unnamed(k, j, "priv_bak") /\ Unnamed(k, j, "pub_bak")
    BY <1>7 DEF Unnamed, PubKept, Final
  <2>10. RollbackPlan(Rollback(Head(t), j), k, j)
    BY <2>1, <2>2, <2>9, OpsDiffer, PlainFailure DEF Keeping
  <2> QED
    BY <2>6, <2>8, <2>10 DEF SavePlan
<1>8. CASE /\ t = Finishes
           /\ PubKept(k, j, g) /\ PrivKept(k, j) /\ k["priv"] = 0 /\ k["pub"] = g /\ k["priv_tmp"] = g
  <2>1. Head(t) = Move("priv_tmp", "priv") /\ Tail(t) = commitBoth
    BY <1>0, <1>8, ThenStep DEF Finishes
  <2>2. j.phase \in {"priv_backed", "pub_installed"}
    BY <1>8 DEF PrivKept
  <2>3. /\ j2 = j /\ k2["priv"] = g /\ k2["pub"] = k["pub"]
        /\ k2["priv_bak"] = k["priv_bak"] /\ k2["pub_bak"] = k["pub_bak"]
    BY <1>1, <1>8, <2>1, MoveDone DEF KeyFiles
  <2>4. AtRest(k2, j2)
    BY <2>2, <2>3 DEF AtRest
  <2>5. Droppable(k, j)
    BY <1>8 DEF Droppable, PubKept
  <2>6. Unnamed(k, j, "priv_bak")
    BY <1>8 DEF Unnamed, Final
  <2>7. RollbackPlan(Rollback(Head(t), j), k, j)
    BY <1>8, <2>1, <2>2, <2>5, <2>6, RollbackBegins DEF HandlerPlan
  <2>8. CASE Named(j, "priv_bak") /\ k["priv_bak"] # 0 /\ j.phase = "priv_backed"
    <3>1. Recovered(k2, j2) = Recovered(k, j)
      BY <1>8, <2>3, <2>8 DEF Recovered, RecoversTo, Named
    <3>2. PubKept(k2, j2, g) /\ PrivKept(k2, j2)
      BY <1>8, <2>3, <3>1 DEF PubKept, PrivKept
    <3>3. RotatePlan(Tail(t), k2, j2, g)
      BY <1>8, <2>1, <2>3, <3>2 DEF RotatePlan
    <3> QED
      BY <2>4, <2>7, <3>1, <3>3 DEF Moves, SavePlan
  <2>9. CASE /\ j.phase = "pub_installed" /\ ~Named(j, "priv_bak") /\ k["priv_bak"] = 0
             /\ Named(j, "pub_bak")
    <3>1. k["pub_bak"] # 0
      BY <1>8, <2>9 DEF PubKept
    <3>2. Recovered(k, j) = <<0, k["pub_bak"]>> /\ Recovered(k2, j2) = <<g, k["pub_bak"]>>
      BY <1>1, <1>8, <2>3, <2>9, <3>1 DEF Recovered, RecoversTo, Named
    <3>3. <<g, k["pub_bak"]>> \in Pair!After(<<0, k["pub_bak"]>>, g)
      BY <3>1 DEF Pair!After, Pair!Whole, Pair!Absent, Pair!Mixtures
    <3>4. PubKept(k2, j2, g) /\ PrivKept(k2, j2)
      BY <2>3, <2>9, <3>1 DEF PubKept, PrivKept
    <3>5. RotatePlan(Tail(t), k2, j2, g)
      BY <1>8, <2>1, <2>3, <3>4 DEF RotatePlan
    <3> QED
      BY <2>4, <2>7, <3>2, <3>3, <3>5 DEF Moves, SavePlan
  <2> QED
    BY <1>8, <2>8, <2>9, <2>9 DEF PrivKept
<1>9. CASE /\ t = commitBoth
           /\ PubKept(k, j, g) /\ PrivKept(k, j) /\ k["priv"] = g /\ k["pub"] = g
  <2>1. Head(t) = Commit("priv_installed") /\ Tail(t) = Discards
    BY <1>0, <1>9, ThenStep
  <2>2. j.phase \in {"priv_backed", "pub_installed"}
    BY <1>9 DEF PrivKept
  <2>3. k2 = k /\ j2 = At("priv_installed", j.baks)
    BY <2>1, CommitPlain
  <2>4. j2.phase = "priv_installed"
    BY <2>3, AtFields
  <2>5. Recovered(k2, j2) = <<g, g>>
    BY <1>1, <1>9, <2>3, <2>4 DEF Recovered, RecoversTo
  <2>6. <<g, g>> \in Pair!After(Recovered(k, j), g)
    BY DEF Pair!After, Pair!Mixtures, Pair!Installed
  <2>7. Moves(k, j, k2, j2)
    BY <2>4, <2>5, <2>6 DEF Moves, AtRest
  <2>8. SavePlan(Tail(t), k2, j2, g)
    BY <1>9, <2>1, <2>3, <2>4 DEF SavePlan, SettlePlan
  <2>9. Unnamed(k, j, "priv_bak") /\ Unnamed(k, j, "pub_bak")
    BY <1>9 DEF Unnamed, PubKept, PrivKept
  <2>10. RollbackPlan(Rollback(Head(t), j), k, j)
    BY <2>1, <2>2, <2>9, OpsDiffer, PlainFailure DEF Keeping
  <2> QED
    BY <2>7, <2>8, <2>10
<1> QED
  BY <1>2, <1>3, <1>4, <1>5, <1>6, <1>7, <1>8, <1>9 DEF RotatePlan

LEMMA SettleSaveStep ==
    ASSUME NEW k \in [KeyFiles -> Nat], NEW j \in Journals, NEW t, NEW g \in 1..MaxPairs, NEW k2, NEW j2,
           AtRest(k, j), SettlePlan(t, k, j, g), Stepped(t, k, j, g, k2, j2)
    PROVE  /\ Moves(k, j, k2, j2) /\ SavePlan(Tail(t), k2, j2, g)
           /\ MayFail(Head(t)) => RollbackPlan(Rollback(Head(t), j), k, j)
<1> DEFINE dropPub == Then(Drop("pub_bak"), Settled)
           close == Then(Unjournal, <<>>)
<1>0. /\ Drop("priv_bak") \in FileOps /\ Drop("pub_bak") \in FileOps
      /\ Commit("complete") \in FileOps /\ Unjournal \in FileOps
      /\ Settled \in Seq(FileOps) /\ dropPub \in Seq(FileOps) /\ close \in Seq(FileOps)
      /\ <<>> \in Seq(FileOps)
  <2>1. /\ Drop("priv_bak") \in FileOps /\ Drop("pub_bak") \in FileOps
        /\ Commit("complete") \in FileOps /\ Unjournal \in FileOps
    BY SaveOps DEF Phases, Baks
  <2> QED
    BY <2>1, SaveLists, ThenStep, NoStep
<1>1. g # 0
  OBVIOUS
<1>2. CASE t = Discards /\ j.phase = "priv_installed" /\ k["priv"] = g /\ k["pub"] = g
  <2>1. Head(t) = Drop("priv_bak") /\ Tail(t) = dropPub
    BY <1>0, <1>2, ThenStep DEF Discards
  <2>2. j2 = j /\ k2["priv_bak"] = 0 /\ k2["priv"] = g /\ k2["pub"] = g
    BY <1>2, <2>1, DropDone DEF KeyFiles
  <2>3. Recovered(k2, j2) = Recovered(k, j)
    BY <1>1, <1>2, <2>2 DEF Recovered, RecoversTo
  <2>4. Moves(k, j, k2, j2) /\ SavePlan(Tail(t), k2, j2, g)
    BY <1>2, <2>1, <2>2, <2>3 DEF Moves, AtRest, SavePlan, SettlePlan
  <2>5. ~MayFail(Head(t))
    BY <2>1, OpsDiffer
  <2> QED
    BY <2>4, <2>5
<1>3. CASE /\ t = dropPub /\ j.phase = "priv_installed"
           /\ k["priv_bak"] = 0 /\ k["priv"] = g /\ k["pub"] = g
  <2>1. Head(t) = Drop("pub_bak") /\ Tail(t) = Settled
    BY <1>0, <1>3, ThenStep
  <2>2. j2 = j /\ Unbacked(k2) /\ k2["priv"] = g /\ k2["pub"] = g
    BY <1>3, <2>1, DropDone DEF KeyFiles, Unbacked
  <2>3. Recovered(k2, j2) = Recovered(k, j)
    BY <1>1, <1>3, <2>2 DEF Recovered, RecoversTo
  <2>4. Moves(k, j, k2, j2) /\ SavePlan(Tail(t), k2, j2, g)
    BY <1>3, <2>1, <2>2, <2>3 DEF Moves, AtRest, SavePlan, SettlePlan
  <2>5. ~MayFail(Head(t))
    BY <2>1, OpsDiffer
  <2> QED
    BY <2>4, <2>5
<1>4. CASE t = Settled /\ j.phase = "priv_installed" /\ Unbacked(k) /\ k["priv"] = g /\ k["pub"] = g
  <2>1. Head(t) = Commit("complete") /\ Tail(t) = close
    BY <1>0, <1>4, ThenStep DEF Settled
  <2>2. k2 = k /\ j2 = At("complete", j.baks)
    BY <2>1, CommitPlain
  <2>3. j2.phase = "complete"
    BY <2>2, AtFields
  <2>4. Recovered(k2, j2) = Recovered(k, j)
    BY <1>1, <1>4, <2>2, <2>3 DEF Recovered, RecoversTo
  <2>5. Moves(k, j, k2, j2) /\ SavePlan(Tail(t), k2, j2, g)
    BY <1>4, <2>1, <2>2, <2>3, <2>4 DEF Moves, AtRest, SavePlan, SettlePlan
  <2>6. Unnamed(k, j, "priv_bak") /\ Unnamed(k, j, "pub_bak")
    BY <1>4 DEF Unnamed, Unbacked
  <2>7. RollbackPlan(Rollback(Head(t), j), k, j)
    BY <1>4, <2>1, <2>6, OpsDiffer, PlainFailure
  <2> QED
    BY <2>5, <2>7
<1>5. CASE t = close /\ j.phase = "complete" /\ Unbacked(k)
  <2>1. Head(t) = Unjournal /\ Tail(t) = <<>>
    BY <1>0, <1>5, ThenStep
  <2>2. k2 = k /\ j2 = NoJournal
    BY <2>1, UnjournalDone
  <2>3. j2.phase = "none" /\ j2.baks = {}
    BY <2>2 DEF NoJournal
  <2>4. Recovered(k2, j2) = Recovered(k, j)
    BY <1>5, <2>2, <2>3 DEF Recovered, RecoversTo, Unbacked
  <2>5. Moves(k, j, k2, j2) /\ SavePlan(Tail(t), k2, j2, g)
    BY <2>1, <2>3, <2>4 DEF Moves, AtRest, SavePlan, SettlePlan
  <2>6. ~MayFail(Head(t))
    BY <2>1, OpsDiffer
  <2> QED
    BY <2>5, <2>6
<1>6. t # <<>>
  BY DEF Stepped
<1> QED
  BY <1>2, <1>3, <1>4, <1>5, <1>6 DEF SettlePlan

\* One operation of a save: it moves the pair as AtomicPair allows, and if it
\* fails instead, what is to be rolled back is there.
LEMMA SaveStep ==
    ASSUME NEW k \in [KeyFiles -> Nat], NEW j \in Journals, NEW t, NEW g \in 1..MaxPairs, NEW k2, NEW j2,
           AtRest(k, j), SavePlan(t, k, j, g), Stepped(t, k, j, g, k2, j2)
    PROVE  /\ Moves(k, j, k2, j2) /\ SavePlan(Tail(t), k2, j2, g)
           /\ MayFail(Head(t)) => RollbackPlan(Rollback(Head(t), j), k, j)
BY StageStep, CreateStep, RotateStep, SettleSaveStep DEF SavePlan

-----------------------------------------------------------------------------
(* The plans hold of every list that a command is doing.                   *)

LEMMA FilesTyped ==
    ASSUME NEW k \in [KeyFiles -> Nat], NEW s \in FileOps, NEW g, NEW b \in Nat,
           \A f \in KeyFiles : k[f] <= b, s.op = "write" => g \in Nat /\ g <= b
    PROVE  /\ FilesAfter(k, s, g) \in [KeyFiles -> Nat]
           /\ \A f \in KeyFiles : FilesAfter(k, s, g)[f] <= b
<1> DEFINE k2 == FilesAfter(k, s, g)
<1>1. ASSUME NEW f \in KeyFiles, NEW n \in Nat, n <= b
      PROVE  [k EXCEPT ![f] = n] \in [KeyFiles -> Nat] /\ \A h \in KeyFiles : [k EXCEPT ![f] = n][h] <= b
  BY <1>1
<1>2. CASE s.op = "write"
  <2>1. k2 = [k EXCEPT ![s.file] = g] /\ s.file \in KeyFiles
    BY <1>2 DEF FilesAfter, FileOps
  <2> QED
    BY <1>1, <1>2, <2>1
<1>3. CASE s.op = "drop"
  <2>1. k2 = [k EXCEPT ![s.file] = 0] /\ s.file \in KeyFiles
    BY <1>3 DEF FilesAfter, FileOps
  <2> QED
    BY <1>1, <2>1
<1>4. ASSUME NEW f \in KeyFiles, NEW to \in KeyFiles
      PROVE  Moved(k, f, to) \in [KeyFiles -> Nat] /\ \A h \in KeyFiles : Moved(k, f, to)[h] <= b
  BY <1>4 DEF Moved
<1>5. CASE s.op = "move"
  <2>1. k2 = Moved(k, s.file, s.arg) /\ s.file \in KeyFiles /\ s.arg \in KeyFiles
    BY <1>5 DEF FilesAfter, FileOps
  <2> QED
    BY <1>4, <2>1
<1>6. CASE s.op = "yield"
  <2>1. k2 = (IF k[s.file] = 0 THEN k ELSE [k EXCEPT ![s.arg] = 0]) /\ s.arg \in KeyFiles
    BY <1>6 DEF FilesAfter, FileOps
  <2> QED
    BY <1>1, <2>1
<1>7. CASE s.op = "settle"
  <2>1. /\ k2 = IF k[s.arg] = 0 THEN Moved(k, s.file, s.arg) ELSE [k EXCEPT ![s.file] = 0]
        /\ s.file \in KeyFiles /\ s.arg \in KeyFiles
    BY <1>7 DEF FilesAfter, FileOps
  <2> QED
    BY <1>1, <1>4, <2>1
<1>8. CASE s.op \in {"commit", "unjournal"}
  BY <1>8 DEF FilesAfter
<1> QED
  BY <1>2, <1>3, <1>5, <1>6, <1>7, <1>8 DEF FileOps

LEMMA JournalTyped ==
    ASSUME NEW j \in Journals, NEW s \in FileOps
    PROVE  JournalAfter(j, s) \in Journals
<1>1. j.baks \in SUBSET Baks
  BY DEF Journals, NoJournal
<1>2. CASE s.op = "commit"
  <2> DEFINE more == CASE s.arg = "pub_backed" -> {"pub_bak"}
                       [] s.arg = "priv_backed" -> {"priv_bak"}
                       [] OTHER -> {}
  <2>1. more \in SUBSET Baks
    BY DEF Baks
  <2>2. JournalAfter(j, s) = [phase |-> s.arg, baks |-> j.baks \cup more] /\ s.arg \in Phases
    BY <1>2 DEF JournalAfter, FileOps
  <2> HIDE DEF more
  <2> QED
    BY <1>1, <2>1, <2>2 DEF Journals
<1>3. CASE s.op # "commit"
  BY <1>3 DEF JournalAfter, Journals
<1> QED
  BY <1>2, <1>3

\* Nothing left of a recovery: no journal, and no backup.
LEMMA NothingLeft ==
    ASSUME NEW k, NEW j, RecoverPlan(<<>>, k, j)
    PROVE  j = NoJournal /\ Unbacked(k)
<1> DEFINE none == <<>>
<1>1. ASSUME NEW s \in FileOps, NEW t \in Seq(FileOps) PROVE none # Then(s, t)
  BY <1>1, ThenStep
<1>2. /\ \A f \in KeyFiles : Drop(f) \in FileOps
      /\ \A bak \in Baks : Yield(bak) \in FileOps /\ Settle(bak) \in FileOps
      /\ Move("priv_bak", "priv") \in FileOps /\ Move("pub_bak", "pub") \in FileOps
      /\ Unjournal \in FileOps
      /\ Drop("priv_tmp") \in FileOps /\ Drop("pub_tmp") \in FileOps
      /\ Drop("priv") \in FileOps /\ Drop("pub") \in FileOps
      /\ Drop("priv_bak") \in FileOps /\ Drop("pub_bak") \in FileOps
      /\ Yield("priv_bak") \in FileOps /\ Yield("pub_bak") \in FileOps
      /\ Settle("priv_bak") \in FileOps /\ Settle("pub_bak") \in FileOps
  BY SaveOps DEF Baks
<1>3. /\ \A t \in Seq(FileOps) : Temps(t) \in Seq(FileOps)
      /\ Orphans \in Seq(FileOps) /\ Ends \in Seq(FileOps)
      /\ DropsPub(j) \in Seq(FileOps) /\ Drops(j) \in Seq(FileOps)
      /\ RestoresPub(j) \in Seq(FileOps) /\ Follows(j) \in Seq(FileOps)
      /\ none \in Seq(FileOps)
  BY RecoverLists, NoStep
<1>4. \A t \in Seq(FileOps) : Then(Drop("pub_tmp"), t) \in Seq(FileOps) /\ none # Temps(t)
  BY <1>1, <1>2, ThenStep DEF Temps
<1>5. none # Orphans
  BY <1>1, <1>2, <1>3, ThenStep DEF Orphans
<1>6. none # Ends
  BY <1>1, <1>2, <1>3 DEF Ends
<1>7. Temps(none) \in Seq(FileOps) /\ none # Temps(none)
  BY <1>3, <1>4
<1> HIDE DEF none
<1>8. OrphansPlan(none, k, j) => j = NoJournal /\ Unbacked(k)
  BY <1>1, <1>2, <1>3, <1>5, <1>7 DEF OrphansPlan, none
<1>9. ~EndsPlan(none, k, j)
  BY <1>1, <1>2, <1>3, <1>6 DEF EndsPlan
<1>10. ~RestorePlan(none, k, j)
  <2>1. /\ Then(Move("priv_bak", "priv"), RestoresPub(j)) \in Seq(FileOps)
        /\ Then(Move("pub_bak", "pub"), Drops(j)) \in Seq(FileOps)
    BY <1>2, <1>3, ThenStep
  <2> QED
    BY <1>1, <1>2, <1>3, <2>1 DEF RestorePlan
<1>11. ~TempsPlan(none, k, j)
  BY <1>1, <1>2, <1>3, <1>4 DEF TempsPlan
<1>12. ~FreshPlan(none, k, j)
  <2>1. Temps(Ends) \in Seq(FileOps) /\ Then(Drop("pub"), Temps(Ends)) \in Seq(FileOps)
    BY <1>2, <1>3, ThenStep
  <2> QED
    BY <1>1, <1>2, <2>1 DEF FreshPlan
<1>13. RecoverPlan(none, k, j)
  BY DEF none
<1> QED
  BY <1>8, <1>9, <1>10, <1>11, <1>12, <1>13 DEF RecoverPlan

\* An action that leaves the files, the journal and the command's work alone.
LEMMA PairAside ==
    ASSUME PairInv, key' = key, journal' = journal, user' = user \/ user' = Nobody,
           generated' \in Nat, generated <= generated'
    PROVE  PairInv'
<1>1. KeyTypes'
  BY DEF PairInv, KeyTypes, Nobody
<1> QED
  BY <1>1 DEF PairInv, Nobody

LEMMA PairHeld ==
    ASSUME PairInv, NEW cmd \in {"keygen", "rotate", "sign", "list", "export"}, NEW pair,
           HoldLock(cmd, pair), key' = key, journal' = journal,
           \/ cmd \in {"keygen", "rotate"} /\ generated < MaxPairs /\ generated' = generated + 1 /\ pair = generated + 1
           \/ cmd \notin {"keygen", "rotate"} /\ generated' = generated
    PROVE  PairInv'
<1>1. user'.cmd = cmd /\ user'.doing = "recover" /\ user'.todo = Recovery(key, journal) /\ user'.pair = pair
  BY DEF HoldLock, Doing
<1>2. key \in [KeyFiles -> Nat] /\ journal \in Journals /\ AtRest(key, journal)
  BY DEF PairInv, KeyTypes
<1>3. RecoverPlan(Recovery(key, journal), key, journal)
  BY <1>2, RecoverBegins
<1>4. KeyTypes'
  <2>1. generated \in Nat /\ \A f \in KeyFiles : key[f] \in Nat /\ key[f] <= generated
    BY DEF PairInv, KeyTypes
  <2>2. generated' \in Nat /\ \A f \in KeyFiles : key[f] <= generated'
    BY <2>1
  <2>3. CASE cmd \in {"keygen", "rotate"}
    <3>1. pair \in 1..MaxPairs /\ pair <= generated' /\ \A f \in KeyFiles : key[f] < pair
      BY <2>1, <2>3, KeysAssumption
    <3> QED
      BY <1>1, <1>2, <2>2, <3>1 DEF KeyTypes
  <2>4. CASE cmd \notin {"keygen", "rotate"}
    BY <1>1, <1>2, <2>2, <2>4 DEF KeyTypes
  <2> QED
    BY <2>3, <2>4
<1> QED
  BY <1>1, <1>2, <1>3, <1>4 DEF PairInv

LEMMA PairFileStep ==
    ASSUME KeysInv, PairInv, FileStep
    PROVE  PairInv' /\ Moves(key, journal, key', journal')
<1> DEFINE s == Head(user.todo)
<1>1. /\ user.todo \in Seq(FileOps) /\ user.todo # <<>>
      /\ user.doing \in {"recover", "save", "rollback"}
      /\ user = Doing(user.cmd, user.doing, user.todo, user.pair)
  BY DEF KeysInv, UserShape, FileStep
<1>2. /\ key \in [KeyFiles -> Nat] /\ journal \in Journals /\ AtRest(key, journal)
      /\ generated \in Nat /\ \A f \in KeyFiles : key[f] <= generated
  BY DEF PairInv, KeyTypes
<1>3. /\ user'.cmd = user.cmd /\ user'.doing = user.doing /\ user'.pair = user.pair
      /\ user'.todo = Tail(user.todo) /\ generated' = generated
      /\ key' = FilesAfter(key, s, user.pair) /\ journal' = JournalAfter(journal, s)
  BY <1>1 DEF FileStep, Doing
<1>4. Stepped(user.todo, key, journal, user.pair, key', journal')
  BY <1>1, <1>3 DEF Stepped
<1>5. s \in FileOps /\ (user.doing = "recover" => s.op # "write")
  <2>1. user.doing = "recover" => s \in RecoveryOps
    BY <1>1, StepTaken DEF KeysInv, RecoveryEnds
  <2> QED
    BY <1>1, <2>1, StepTaken DEF RecoveryOps
<1>6. user.doing \in {"save", "rollback"} =>
         /\ user.cmd \in {"keygen", "rotate"}
         /\ user.pair \in 1..MaxPairs /\ user.pair \in Nat /\ user.pair <= generated
  BY KeysAssumption DEF PairInv, KeyTypes
<1>7. s.op = "write" => user.pair \in Nat /\ user.pair <= generated
  BY <1>1, <1>5, <1>6
<1>8. key' \in [KeyFiles -> Nat] /\ \A f \in KeyFiles : key'[f] <= generated
  BY <1>2, <1>3, <1>5, <1>7, FilesTyped
<1>9. journal' \in Journals
  BY <1>2, <1>3, <1>5, JournalTyped
<1>10. ASSUME user.cmd \in {"keygen", "rotate"}, user.doing = "recover"
       PROVE  \A f \in KeyFiles : key'[f] < user.pair
  <2> DEFINE b == user.pair - 1
  <2>1. user.pair \in 1..MaxPairs /\ \A f \in KeyFiles : key[f] < user.pair
    BY <1>10 DEF PairInv, KeyTypes
  <2>2. b \in Nat /\ \A f \in KeyFiles : key[f] <= b
    BY <1>2, <2>1
  <2>3. s.op # "write"
    BY <1>5, <1>10
  <2> HIDE DEF b
  <2>4. \A f \in KeyFiles : key'[f] <= b
    BY <1>2, <1>3, <1>5, <2>2, <2>3, FilesTyped
  <2>5. \A f \in KeyFiles : key'[f] \in Nat
    BY <1>8
  <2> QED
    BY <2>1, <2>4, <2>5 DEF b
<1>11. KeyTypes'
  BY <1>1, <1>2, <1>3, <1>6, <1>8, <1>9, <1>10 DEF PairInv, KeyTypes
<1>12. CASE user.doing = "recover"
  <2>1. RecoverPlan(user.todo, key, journal)
    BY <1>12 DEF PairInv
  <2>2. Kept(key, journal, key', journal') /\ RecoverPlan(Tail(user.todo), key', journal')
    BY <1>2, <1>4, <2>1, RecoverStep
  <2> QED
    BY <1>3, <1>11, <1>12, <2>2 DEF PairInv, Kept, Moves
<1>13. CASE user.doing = "save"
  <2>1. SavePlan(user.todo, key, journal, user.pair) /\ user.pair \in 1..MaxPairs
    BY <1>6, <1>13 DEF PairInv
  <2>2. Moves(key, journal, key', journal') /\ SavePlan(Tail(user.todo), key', journal', user.pair)
    BY <1>2, <1>4, <2>1, SaveStep
  <2> QED
    BY <1>3, <1>11, <1>13, <2>2 DEF PairInv, Moves
<1>14. CASE user.doing = "rollback"
  <2>1. RollbackPlan(user.todo, key, journal) /\ user.pair \in 1..MaxPairs
    BY <1>6, <1>14 DEF PairInv
  <2>2. CASE PutBackPlan(user.todo, key, journal)
    <3>1. Kept(key, journal, key', journal') /\ PutBackPlan(Tail(user.todo), key', journal')
      BY <1>2, <1>4, <2>2, PutBackStep
    <3> QED
      BY <1>3, <1>11, <1>14, <3>1 DEF PairInv, Kept, Moves, RollbackPlan
  <2>3. CASE HandlerPlan(user.todo, key, journal)
    <3>1. Moves(key, journal, key', journal') /\ RollbackPlan(Tail(user.todo), key', journal')
      BY <1>2, <1>4, <2>1, <2>3, HandlerStep
    <3> QED
      BY <1>3, <1>11, <1>14, <3>1 DEF PairInv, Moves
  <2> QED
    BY <2>1, <2>2, <2>3 DEF RollbackPlan
<1> QED
  BY <1>1, <1>12, <1>13, <1>14

LEMMA PairSaves ==
    ASSUME KeysInv, PairInv, KeygenSaves
    PROVE  PairInv'
<1>1. user.cmd \in {"keygen", "rotate"} /\ user.doing = "recover" /\ user.todo = <<>>
  BY DEF KeygenSaves
<1>2. key' = key /\ journal' = journal /\ generated' = generated /\ generated \in Nat
  BY DEF KeygenSaves, PairInv, KeyTypes
<1>3. CASE user' = Nobody
  BY <1>2, <1>3, PairAside
<1>4. CASE user' = Doing(user.cmd, "save", Save(key), user.pair)
  <2>1. user'.cmd = user.cmd /\ user'.doing = "save" /\ user'.todo = Save(key) /\ user'.pair = user.pair
    BY <1>4 DEF Doing
  <2>2. journal = NoJournal /\ Unbacked(key)
    BY <1>1, NothingLeft DEF PairInv
  <2>3. key["priv"] # user.pair
    BY <1>1 DEF PairInv, KeyTypes, KeyFiles
  <2>4. SavePlan(Save(key), key, journal, user.pair)
    BY <2>2, <2>3, SaveListed DEF SavePlan, StagePlan
  <2>5. KeyTypes'
    BY <1>1, <1>2, <2>1 DEF PairInv, KeyTypes
  <2> QED
    BY <1>2, <2>1, <2>4, <2>5 DEF PairInv
<1> QED
  BY <1>3, <1>4 DEF KeygenSaves

LEMMA PairFails ==
    ASSUME KeysInv, PairInv, KeygenFails
    PROVE  PairInv'
<1> DEFINE s == Head(user.todo)
           k2 == FilesAfter(key, s, user.pair)
           j2 == JournalAfter(journal, s)
<1>1. /\ user.doing = "save" /\ user.todo # <<>> /\ MayFail(s)
      /\ user' = Doing(user.cmd, "rollback", Rollback(s, journal), user.pair)
      /\ key' = key /\ journal' = journal /\ generated' = generated
  BY DEF KeygenFails
<1>2. Stepped(user.todo, key, journal, user.pair, k2, j2)
  BY <1>1 DEF Stepped
<1>3. /\ key \in [KeyFiles -> Nat] /\ journal \in Journals /\ AtRest(key, journal)
      /\ user.pair \in 1..MaxPairs /\ SavePlan(user.todo, key, journal, user.pair)
  BY <1>1 DEF PairInv, KeyTypes
<1> HIDE DEF k2, j2
<1>4. RollbackPlan(Rollback(s, journal), key, journal)
  BY <1>1, <1>2, <1>3, SaveStep
<1>5. /\ user'.cmd = user.cmd /\ user'.doing = "rollback"
      /\ user'.todo = Rollback(s, journal) /\ user'.pair = user.pair
  BY <1>1 DEF Doing
<1>6. KeyTypes'
  BY <1>1, <1>5 DEF PairInv, KeyTypes
<1> QED
  BY <1>1, <1>3, <1>4, <1>5, <1>6 DEF PairInv

\* Every step keeps the plans, and moves the pair as AtomicPair allows.
LEMMA PairStep ==
    ASSUME KeysInv, PairInv, [KeysNext]_keysVars
    PROVE  PairInv' /\ Moves(key, journal, key', journal')
<1>1. generated \in Nat /\ AtRest(key, journal)
  BY DEF PairInv, KeyTypes
<1>2. ASSUME key' = key, journal' = journal PROVE Moves(key, journal, key', journal')
  BY <1>1, <1>2 DEF Moves
<1>3. CASE UNCHANGED keysVars
  BY <1>1, <1>2, <1>3, PairAside DEF keysVars
<1>4. ASSUME NEW overwrite \in BOOLEAN, Keygen(overwrite)
      PROVE  PairInv' /\ Moves(key, journal, key', journal')
  <2> DEFINE cmd == IF overwrite THEN "rotate" ELSE "keygen"
  <2>1. /\ HoldLock(cmd, generated + 1) /\ key' = key /\ journal' = journal
        /\ generated < MaxPairs /\ generated' = generated + 1
    BY <1>4 DEF Keygen
  <2>2. cmd \in {"keygen", "rotate"}
    OBVIOUS
  <2> HIDE DEF cmd
  <2>3. PairInv'
    BY <2>1, <2>2, PairHeld
  <2> QED
    BY <1>2, <2>1, <2>3
<1>5. ASSUME NEW cmd \in {"sign", "list", "export"}, Use(cmd)
      PROVE  PairInv' /\ Moves(key, journal, key', journal')
  <2>1. HoldLock(cmd, 0) /\ key' = key /\ journal' = journal /\ generated' = generated
    BY <1>5 DEF Use
  <2>2. cmd \notin {"keygen", "rotate"}
    BY <1>5
  <2>3. PairInv'
    BY <2>1, <2>2, PairHeld
  <2> QED
    BY <1>2, <2>1, <2>3
<1>6. CASE FileStep
  BY <1>6, PairFileStep
<1>7. CASE KeygenSaves
  <2>1. key' = key /\ journal' = journal
    BY <1>7 DEF KeygenSaves
  <2> QED
    BY <1>2, <1>7, <2>1, PairSaves
<1>8. CASE KeygenFails
  <2>1. key' = key /\ journal' = journal
    BY <1>8 DEF KeygenFails
  <2> QED
    BY <1>2, <1>8, <2>1, PairFails
<1>9. CASE KeygenReturns \/ SignEnds \/ ExportEnds \/ ListEnds
  <2>1. key' = key /\ journal' = journal /\ user' = Nobody /\ generated' = generated
    BY <1>9 DEF KeygenReturns, SignEnds, ExportEnds, ListEnds, UseEnds
  <2> QED
    BY <1>1, <1>2, <2>1, PairAside
<1>10. CASE WriteSigned \/ WriteExport \/ HmacWrites \/ HmacSigns \/ ReceiptVoid
  <2>1. key' = key /\ journal' = journal /\ user' = user /\ generated' = generated
    BY <1>10 DEF WriteSigned, WriteExport, HmacWrites, HmacSigns, ReceiptVoid
  <2> QED
    BY <1>1, <1>2, <2>1, PairAside
<1>11. CASE HmacCreates
  <2>1. key' = key /\ journal' = journal /\ user' = user /\ generated' = generated + 1
    BY <1>11 DEF HmacCreates
  <2> QED
    BY <1>1, <1>2, <2>1, PairAside
<1>12. ASSUME NEW killed \in {"user", "outside", "writer"}, Kill(killed)
       PROVE  PairInv' /\ Moves(key, journal, key', journal')
  <2>1. /\ key' = key /\ journal' = journal /\ generated' = generated
        /\ user' = user \/ user' = Nobody
    BY <1>12 DEF Kill
  <2> QED
    BY <1>1, <1>2, <2>1, PairAside
<1> QED
  BY <1>3, <1>4, <1>5, <1>6, <1>7, <1>8, <1>9, <1>10, <1>11, <1>12 DEF KeysNext

LEMMA PairInit == ASSUME KeysAssumption, KeysInit PROVE PairInv /\ Pair!Init
<1>1. key \in [KeyFiles -> Nat] /\ \A f \in KeyFiles : key[f] = 0
  BY DEF KeysInit
<1>2. KeyTypes
  BY <1>1 DEF KeysInit, KeyTypes, Nobody, Journals
<1>3. AtRest(key, journal) /\ user.doing = "none"
  BY DEF KeysInit, AtRest, NoJournal, Nobody
<1>4. Recovered(key, journal) = <<0, 0>>
  BY <1>1 DEF KeysInit, Recovered, RecoversTo, NoJournal, KeyFiles
<1> QED
  BY <1>2, <1>3, <1>4 DEF PairInv, Pair!Init, Pair!Absent

\* Whatever dies or fails, what the next use of the keys finds after its
\* recovery moves as AtomicPair allows (pubkey.py 497-627, 864-999).
THEOREM AtomicPairTheorem == ASSUME KeysAssumption PROVE KeysSpec => ImplementsAtomicPair
<1>1. KeysInit => PairInv /\ Pair!Init
  BY PairInit
<1>2. KeysInv /\ PairInv /\ [KeysNext]_keysVars => PairInv'
  BY PairStep
<1>3. KeysInv /\ PairInv /\ [KeysNext]_keysVars => [Pair!Next]_(Recovered(key, journal))
  <2> SUFFICES ASSUME KeysInv, PairInv, [KeysNext]_keysVars
               PROVE  [Pair!Next]_(Recovered(key, journal))
    OBVIOUS
  <2>1. Moves(key, journal, key', journal')
    BY PairStep
  <2> QED
    BY <2>1 DEF Moves, Pair!Next
<1>4. KeysSpec => []KeysInv
  BY KeysInvariant
<1> QED
  BY <1>1, <1>2, <1>3, <1>4, PTL DEF KeysSpec, ImplementsAtomicPair, Pair!Spec

=============================================================================
