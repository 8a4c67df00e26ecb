------------------------------ MODULE EventLog ------------------------------
(***************************************************************************)
(* events.jsonl and the two flocks that guard it: processes append under   *)
(* the exclusive lock and read snapshots under the shared one.  An append  *)
(* reads the whole file, computes seq and prev_hash, and writes one line;  *)
(* the text reaches the file in pieces, and the writer may fail (OSError,  *)
(* SIGKILL, power cut) between any two of them.                            *)
(*                                                                         *)
(* An event is named by the append that makes it (a member of Entries); an *)
(* event_hash commits to the event, so prev_hash is the previous entry.    *)
(***************************************************************************)
EXTENDS Naturals, Sequences

CONSTANTS
    Procs,     \* processes that use the log
    Entries,   \* the appends they may make
    Genesis,   \* GENESIS_HASH
    TornLine,  \* a line that does not parse
    Nil        \* nobody holds the exclusive lock; no entry in hand

Records == [seq : Nat \ {0}, prev : Entries \cup {Genesis}, id : Entries]

ASSUME DistinctAssumption ==
    /\ Genesis \notin Entries /\ Nil \notin Procs /\ Nil \notin Entries
    /\ TornLine \notin Records

VARIABLES
    lines,     \* the lines of events.jsonl: records, or TornLine
    open,      \* the last line has no newline yet
    ex, sh,    \* holders of events.append.lock, exclusive and shared
    pc,        \* where each process is
    item,      \* the entry a process appends
    draft,     \* the record it has computed
    returned,  \* history: entries whose append returned
    read       \* history: the longest snapshot any reader was given

vars == <<lines, open, ex, sh, pc, item, draft, returned, read>>

Moves(p, from, to) == pc[p] = from /\ pc' = [pc EXCEPT ![p] = to]

Parses == \A i \in DOMAIN lines : lines[i] # TornLine

-----------------------------------------------------------------------------
(* append.                                                                 *)

Unused(e) ==
    /\ \A p \in Procs : item[p] # e
    /\ \A i \in DOMAIN lines : lines[i] # TornLine => lines[i].id # e
    /\ e \notin returned

AppendBegin(p, e) ==
    /\ Unused(e)
    /\ Moves(p, "idle", "wait")
    /\ item' = [item EXCEPT ![p] = e]
    /\ UNCHANGED <<lines, open, ex, sh, draft, returned, read>>

\* Mutant: a shared lock is taken for an append.
ShareWhenWriting(p) ==
    /\ ex = Nil
    /\ Moves(p, "wait", "read")
    /\ UNCHANGED <<lines, open, ex, sh, item, draft, returned, read>>

LockExclusive(p) ==
    /\ ex = Nil /\ sh = {}
    /\ Moves(p, "wait", "read")
    /\ ex' = p
    /\ UNCHANGED <<lines, open, sh, item, draft, returned, read>>

NextRecord(e) ==
    IF lines = <<>>
    THEN [seq |-> 1, prev |-> Genesis, id |-> e]
    ELSE [seq |-> lines[Len(lines)].seq + 1, prev |-> lines[Len(lines)].id, id |-> e]

\* A file that does not parse raises ValueError out of append.
ReadForAppend(p) ==
    /\ Parses
    /\ Moves(p, "read", "write")
    /\ draft' = [draft EXCEPT ![p] = NextRecord(item[p])]
    /\ UNCHANGED <<lines, open, ex, sh, item, returned, read>>

\* Mutant: the file is opened "w", not "a".
Truncate(p) ==
    /\ Moves(p, "write", "some")
    /\ lines' = <<TornLine>>
    /\ open' = TRUE
    /\ UNCHANGED <<ex, sh, item, draft, returned, read>>

\* The first bytes of the line are in the file.  O_APPEND puts them right
\* behind whatever is there: an unterminated last line absorbs them, and the
\* two together never parse.
WriteSome(p) ==
    /\ Moves(p, "write", "some")
    /\ lines' = IF open THEN [lines EXCEPT ![Len(lines)] = TornLine]
                        ELSE Append(lines, TornLine)
    /\ draft' = IF open THEN [draft EXCEPT ![p] = TornLine] ELSE draft
    /\ open' = TRUE
    /\ UNCHANGED <<ex, sh, item, returned, read>>

\* All of it but the newline is.
WriteText(p) ==
    /\ Moves(p, "some", "text")
    /\ lines' = [lines EXCEPT ![Len(lines)] = draft[p]]
    /\ UNCHANGED <<open, ex, sh, item, draft, returned, read>>

WriteNewline(p) ==
    /\ Moves(p, "text", "written")
    /\ open' = FALSE
    /\ UNCHANGED <<lines, ex, sh, item, draft, returned, read>>

Unlock(p) ==
    /\ ex' = IF ex = p THEN Nil ELSE ex
    /\ sh' = sh \ {p}

\* fsync has returned; the lock is released and append returns the record.
AppendReturn(p) ==
    /\ Moves(p, "written", "idle")
    /\ Unlock(p)
    /\ returned' = returned \cup {item[p]}
    /\ item' = [item EXCEPT ![p] = Nil]
    /\ draft' = [draft EXCEPT ![p] = TornLine]
    /\ UNCHANGED <<lines, open, read>>

-----------------------------------------------------------------------------
(* read_all, and every failure.                                            *)

LockShared(p) ==
    /\ ex = Nil
    /\ Moves(p, "idle", "snapshot")
    /\ sh' = sh \cup {p}
    /\ UNCHANGED <<lines, open, ex, item, draft, returned, read>>

Snapshot(p) ==
    /\ Parses
    /\ Moves(p, "snapshot", "idle")
    /\ read' = lines
    /\ Unlock(p)
    /\ UNCHANGED <<lines, open, item, draft, returned>>

\* A process ends or its call raises: ValueError on a torn file, OSError, a
\* signal, SIGKILL.  Its locks go, what it wrote stays.
Fail(p) ==
    /\ pc[p] # "idle"
    /\ pc' = [pc EXCEPT ![p] = "idle"]
    /\ Unlock(p)
    /\ item' = [item EXCEPT ![p] = Nil]
    /\ draft' = [draft EXCEPT ![p] = TornLine]
    /\ UNCHANGED <<lines, open, returned, read>>

-----------------------------------------------------------------------------
Init ==
    /\ lines = <<>> /\ open = FALSE
    /\ ex = Nil /\ sh = {}
    /\ pc = [p \in Procs |-> "idle"]
    /\ item = [p \in Procs |-> Nil]
    /\ draft = [p \in Procs |-> TornLine]
    /\ returned = {} /\ read = <<>>

Next ==
    \E p \in Procs :
        \/ \E e \in Entries : AppendBegin(p, e)
        \/ LockExclusive(p) \/ ReadForAppend(p) \/ WriteSome(p) \/ WriteText(p)
        \/ WriteNewline(p) \/ AppendReturn(p)
        \/ LockShared(p) \/ Snapshot(p) \/ Fail(p)

Spec == Init /\ [][Next]_vars

-----------------------------------------------------------------------------
(* Properties.                                                             *)

\* Types: a line is a record or torn, a process holds an entry or none.
TypeOK ==
    /\ lines \in Seq(Records \cup {TornLine})
    /\ open \in BOOLEAN
    /\ ex \in Procs \cup {Nil} /\ sh \subseteq Procs
    /\ pc \in [Procs -> {"idle", "wait", "read", "write", "some", "text",
                         "written", "snapshot"}]
    /\ item \in [Procs -> Entries \cup {Nil}]
    /\ draft \in [Procs -> Records \cup {TornLine}]
    /\ returned \subseteq Entries
    /\ read \in Seq(Records)

\* verify_chain holds of every file that parses, whoever wrote it and whatever
\* failed: consecutive seq, and each prev_hash the event before.
ChainVerifies ==
    Parses => \A i \in DOMAIN lines :
        /\ lines[i].seq = i
        /\ lines[i].prev = IF i = 1 THEN Genesis ELSE lines[i - 1].id

\* A log that parses is never silently short: every append that returned is in
\* it, once, and it extends whatever a reader was given before (append,
\* read_all: "a stable snapshot").
Extends(new, old) == Len(old) <= Len(new) /\ SubSeq(new, 1, Len(old)) = old
ReturnedIsThere ==
    Parses =>
        /\ \A e \in returned : \E i \in DOMAIN lines :
              /\ lines[i].id = e
              /\ \A j \in DOMAIN lines : lines[j].id = e => j = i
        /\ Extends(lines, read)

\* What a reader would find once the append in progress is over: an entry
\* counts from the moment its text is complete.
InProgress == \E p \in Procs : pc[p] = "some" /\ draft[p] # TornLine
Settled == IF InProgress THEN SubSeq(lines, 1, Len(lines) - 1) ELSE lines
Unreadable == \E i \in DOMAIN Settled : Settled[i] = TornLine
Abstract == INSTANCE AppendOnlyLog WITH
    entries <- IF Unreadable THEN <<>> ELSE [i \in DOMAIN Settled |-> Settled[i].id],
    broken <- Unreadable
ImplementsAppendOnlyLog == Abstract!Spec
=============================================================================
