--------------------------- MODULE EventLogProofs ---------------------------
(***************************************************************************)
(* For any number of processes and appends, and failures between any two   *)
(* pieces of a write: a log that parses verifies, and is never short.      *)
(*                                                                         *)
(* Neither property is inductive: a line is computed two steps before its  *)
(* first bytes are written and three before it parses.  What is inductive  *)
(* says that only the holder of the exclusive lock is inside an append     *)
(* (Locks), that what it has computed still continues the file (Drafts),   *)
(* that a torn line is the last one (Chained), and that entries are told   *)
(* apart by the append that made them (Distinct).                          *)
(***************************************************************************)
EXTENDS EventLog, SequenceTheorems, TLAPS

Inside == {"read", "write", "some", "text", "written"}

Locks ==
    /\ \A p \in Procs : (pc[p] \in Inside <=> ex = p) /\ (pc[p] = "snapshot" <=> p \in sh)
    /\ ex # Nil => sh = {}

\* The event before line i, as prev_hash names it.
Before(i) == IF i = 1 THEN Genesis ELSE lines[i - 1].id

Continues(record, i) == record.seq = i /\ record.prev = Before(i)

Chained ==
    \A i \in 1..Len(lines) :
        /\ lines[i] = TornLine => i = Len(lines)
        /\ lines[i] # TornLine => Continues(lines[i], i)

\* An unterminated line is a line.
Opened == open => lines # <<>>

LastIs(v) == lines # <<>> /\ lines[Len(lines)] = v

Drafts ==
    \A p \in Procs :
        /\ pc[p] \in Inside \cup {"wait"} <=> item[p] # Nil
        /\ pc[p] = "write" => Parses /\ draft[p] = NextRecord(item[p])
        /\ pc[p] = "some" =>
              /\ LastIs(TornLine)
              /\ draft[p] # TornLine => draft[p].id = item[p] /\ Continues(draft[p], Len(lines))
        /\ pc[p] \in {"text", "written"} =>
              lines # <<>> /\ (lines[Len(lines)] # TornLine => lines[Len(lines)].id = item[p])

\* Line i holds entry e.
Holds(i, e) == lines[i] # TornLine /\ lines[i].id = e

Distinct ==
    /\ \A i, j \in 1..Len(lines) : \A e \in Entries : Holds(i, e) /\ Holds(j, e) => i = j
    /\ \A p, q \in Procs : item[p] = item[q] /\ item[p] # Nil => p = q
    /\ \A p \in Procs :
          /\ item[p] \notin returned
          /\ pc[p] \in {"wait", "read", "write", "some"} =>
                \A i \in 1..Len(lines) : ~Holds(i, item[p])

\* The last line will never parse: nobody is about to complete it.
Doomed == LastIs(TornLine) /\ \A p \in Procs : pc[p] = "some" => draft[p] = TornLine

Kept ==
    Doomed \/ /\ \A e \in returned : \E i \in 1..Len(lines) : Holds(i, e)
              /\ Len(read) <= Len(lines)
              /\ \A i \in 1..Len(read) : lines[i] = read[i]

LogInv == TypeOK /\ Locks /\ Opened /\ Chained /\ Drafts /\ Distinct /\ Kept

-----------------------------------------------------------------------------
(* What the invariant says.                                                *)

LEMMA LinesAre ==
  ASSUME TypeOK
  PROVE  /\ Len(lines) \in Nat /\ DOMAIN lines = 1..Len(lines)
         /\ \A i \in 1..Len(lines) : lines[i] \in Records \cup {TornLine}
         /\ Len(read) \in Nat /\ DOMAIN read = 1..Len(read)
         /\ \A i \in 1..Len(read) : read[i] \in Records
         /\ lines = <<>> <=> Len(lines) = 0
<1>1. lines \in Seq(Records \cup {TornLine}) /\ read \in Seq(Records)
  BY DEF TypeOK
<1> QED BY <1>1, LenProperties, ElementOfSeq, EmptySeq

LEMMA ParsesIs ==
  ASSUME TypeOK
  PROVE  Parses <=> \A i \in 1..Len(lines) : lines[i] \in Records
  BY LinesAre, DistinctAssumption DEF Parses

LEMMA InvChain == LogInv => ChainVerifies
<1> SUFFICES ASSUME LogInv, Parses, NEW i \in DOMAIN lines
             PROVE  /\ lines[i].seq = i
                    /\ lines[i].prev = IF i = 1 THEN Genesis ELSE lines[i - 1].id
  BY DEF ChainVerifies
<1> QED BY LinesAre DEF LogInv, Chained, Continues, Before, Parses

LEMMA InvReturned == LogInv => ReturnedIsThere
<1> SUFFICES ASSUME LogInv, Parses PROVE
        /\ \A e \in returned : \E i \in DOMAIN lines :
              /\ lines[i].id = e
              /\ \A j \in DOMAIN lines : lines[j].id = e => j = i
        /\ Extends(lines, read)
  BY DEF ReturnedIsThere
<1>1. TypeOK /\ Kept /\ Distinct
  BY DEF LogInv
<1>2. ~Doomed
  BY <1>1, LinesAre DEF Doomed, LastIs, Parses
<1>3. ASSUME NEW e \in returned
      PROVE  \E i \in DOMAIN lines : /\ lines[i].id = e
                                     /\ \A j \in DOMAIN lines : lines[j].id = e => j = i
  <2>1. PICK i \in 1..Len(lines) : Holds(i, e)
    BY <1>1, <1>2 DEF Kept
  <2>2. \A j \in 1..Len(lines) : lines[j].id = e => Holds(j, e)
    BY <1>1, LinesAre DEF Holds, Parses
  <2>3. e \in Entries
    BY <1>1 DEF TypeOK
  <2> QED BY <1>1, <2>1, <2>2, <2>3, LinesAre DEF Holds, Distinct
<1>4. Extends(lines, read)
  <2>1. Len(read) <= Len(lines) /\ \A i \in 1..Len(read) : lines[i] = read[i]
    BY <1>1, <1>2 DEF Kept
  <2>2. \A i \in 1..Len(read) : lines[i] \in Records
    BY <1>1, <2>1, LinesAre
  <2> DEFINE front == SubSeq(lines, 1, Len(read))
  <2>3. /\ front \in Seq(Records) /\ Len(front) = Len(read)
        /\ \A i \in 1..Len(read) : front[i] = lines[i]
    BY <1>1, <2>2, LinesAre, SubSeqProperties
  <2>4. read \in Seq(Records)
    BY <1>1 DEF TypeOK
  <2>5. front = read
    BY <2>1, <2>3, <2>4, SeqEqual
  <2> QED BY <2>1, <2>5 DEF Extends
<1> QED BY <1>3, <1>4

LEMMA InitLog == Init => LogInv
<1> SUFFICES ASSUME Init PROVE LogInv
  OBVIOUS
<1> USE DEF Init
<1>1. Len(lines) = 0 /\ Len(read) = 0 /\ DOMAIN lines = {}
  OBVIOUS
<1>2. TypeOK
  BY EmptySeq DEF TypeOK
<1>3. Locks /\ Chained
  BY <1>1, DistinctAssumption DEF Locks, Inside, Chained
<1>4. Drafts /\ Distinct /\ Kept
  BY <1>1 DEF Drafts, Inside, Distinct, Kept
<1>5. Opened
  BY DEF Opened
<1> QED BY <1>2, <1>3, <1>4, <1>5 DEF LogInv

-----------------------------------------------------------------------------
(* Steps that leave the file alone.                                        *)

LEMMA Frame ==
  ASSUME UNCHANGED lines
  PROVE  /\ Parses' <=> Parses
         /\ Chained => Chained'
         /\ \A r, n : Continues(r, n)' <=> Continues(r, n)
         /\ \A e : NextRecord(e)' = NextRecord(e)
         /\ \A v : LastIs(v)' <=> LastIs(v)
         /\ \A n, e : Holds(n, e)' <=> Holds(n, e)
  BY DEF Parses, Chained, Continues, Before, NextRecord, LastIs, Holds

LEMMA AppendBeginInv ==
  ASSUME LogInv, NEW p \in Procs, NEW e \in Entries, AppendBegin(p, e)
  PROVE  LogInv'
<1> USE DEF LogInv, AppendBegin, Moves
<1>1. TypeOK'
  BY DEF TypeOK
<1>2. Locks'
  BY DEF TypeOK, Locks, Inside
<1>3. Drafts'
  BY Frame, DistinctAssumption DEF TypeOK, Drafts, Inside
<1>4. Distinct'
  <2>1. \A i \in 1..Len(lines) : ~Holds(i, e)
    BY LinesAre DEF Unused, Holds
  <2>2. e \notin returned /\ \A q \in Procs : item[q] # e
    BY DEF Unused
  <2> QED BY <2>1, <2>2, Frame DEF TypeOK, Distinct
<1>5. Kept'
  BY Frame DEF TypeOK, Kept, Doomed
<1> QED BY <1>1, <1>2, <1>3, <1>4, <1>5, Frame DEF Opened

LEMMA LockInv ==
  ASSUME LogInv, NEW p \in Procs, LockExclusive(p) \/ LockShared(p)
  PROVE  LogInv'
<1> USE DEF LogInv, LockExclusive, LockShared, Moves
<1>1. TypeOK'
  BY DEF TypeOK
<1>2. Locks'
  BY DistinctAssumption DEF TypeOK, Locks, Inside
<1>3. Drafts'
  BY Frame DEF TypeOK, Drafts, Inside
<1>4. Distinct'
  BY Frame DEF TypeOK, Distinct
<1>5. Kept'
  BY Frame DEF TypeOK, Kept, Doomed
<1> QED BY <1>1, <1>2, <1>3, <1>4, <1>5, Frame DEF Opened

\* The record it computes: the file parses, so its last line is an event.
LEMMA ReadForAppendInv ==
  ASSUME LogInv, NEW p \in Procs, ReadForAppend(p)
  PROVE  LogInv'
<1> USE DEF LogInv, ReadForAppend, Moves
<1>1. NextRecord(item[p]) \in Records
  <2>1. item[p] \in Entries
    BY DEF TypeOK, Drafts, Inside
  <2>2. CASE lines = <<>>
    BY <2>1, <2>2 DEF NextRecord, Records
  <2>3. CASE lines # <<>>
    <3>1. Len(lines) \in 1..Len(lines)
      BY <2>3, LinesAre
    <3>2. lines[Len(lines)] \in Records
      BY <3>1, ParsesIs
    <3>3. lines[Len(lines)].seq \in Nat /\ lines[Len(lines)].id \in Entries
      BY <3>2 DEF Records
    <3> QED BY <2>1, <2>3, <3>3 DEF NextRecord, Records
  <2> QED BY <2>2, <2>3
<1>2. TypeOK'
  BY <1>1 DEF TypeOK
<1>3. Locks'
  BY DEF TypeOK, Locks, Inside
<1>4. Drafts'
  BY Frame DEF TypeOK, Drafts, Inside
<1>5. Distinct'
  BY Frame DEF TypeOK, Distinct
<1>6. Kept'
  BY Frame DEF TypeOK, Kept, Doomed
<1> QED BY <1>2, <1>3, <1>4, <1>5, <1>6, Frame DEF Opened

LEMMA WriteNewlineInv ==
  ASSUME LogInv, NEW p \in Procs, WriteNewline(p)
  PROVE  LogInv'
<1> USE DEF LogInv, WriteNewline, Moves
<1>1. TypeOK'
  BY DEF TypeOK
<1>2. Locks'
  BY DEF TypeOK, Locks, Inside
<1>3. Drafts'
  BY Frame DEF TypeOK, Drafts, Inside
<1>4. Distinct'
  BY Frame DEF TypeOK, Distinct
<1>5. Kept'
  BY Frame DEF TypeOK, Kept, Doomed
<1> QED BY <1>1, <1>2, <1>3, <1>4, <1>5, Frame DEF Opened

\* The entry that is returned is the last line, or the file is doomed: no other
\* process is inside.
LEMMA AppendReturnInv ==
  ASSUME LogInv, NEW p \in Procs, AppendReturn(p)
  PROVE  LogInv'
<1> USE DEF LogInv, AppendReturn, Moves, Unlock
<1>0. ex = p /\ sh = {} /\ item[p] \in Entries
  BY DistinctAssumption DEF TypeOK, Locks, Drafts, Inside
<1>1. TypeOK'
  BY <1>0 DEF TypeOK
<1>2. Locks'
  BY <1>0, DistinctAssumption DEF TypeOK, Locks, Inside
<1>3. Drafts'
  BY Frame DEF TypeOK, Drafts, Inside
<1>4. Distinct'
  BY <1>0, Frame, DistinctAssumption DEF TypeOK, Distinct
<1>5. Kept'
  <2>1. \A q \in Procs : pc[q] # "some" /\ pc'[q] # "some"
    BY <1>0 DEF TypeOK, Locks, Inside
  <2>2. lines # <<>> /\ Len(lines) \in 1..Len(lines)
    BY LinesAre DEF Drafts
  <2>3. CASE Doomed
    BY <2>1, <2>3, Frame DEF Kept, Doomed
  <2>4. CASE ~Doomed
    <3>1. Holds(Len(lines), item[p])
      BY <2>1, <2>2, <2>4 DEF Doomed, LastIs, Drafts, Holds
    <3> QED BY <2>2, <2>4, <3>1, Frame DEF Kept
  <2> QED BY <2>3, <2>4
<1> QED BY <1>1, <1>2, <1>3, <1>4, <1>5, Frame DEF Opened

LEMMA SnapshotInv ==
  ASSUME LogInv, NEW p \in Procs, Snapshot(p)
  PROVE  LogInv'
<1> USE DEF LogInv, Snapshot, Moves, Unlock
<1>0. ex = Nil
  BY DEF TypeOK, Locks
<1>1. read' \in Seq(Records)
  <2>1. \A i \in 1..Len(lines) : lines[i] \in Records
    BY ParsesIs
  <2>2. Len(lines) \in Nat /\ lines \in Seq(Records \cup {TornLine})
    BY LinesAre DEF TypeOK
  <2>3. SubSeq(lines, 1, Len(lines)) = lines
    BY <2>2, SubSeqFull
  <2>4. SubSeq(lines, 1, Len(lines)) \in Seq(Records)
    BY <2>1, <2>2, SubSeqProperties
  <2> QED BY <2>3, <2>4
<1>2. TypeOK'
  BY <1>0, <1>1 DEF TypeOK
<1>3. Locks'
  BY <1>0, DistinctAssumption DEF TypeOK, Locks, Inside
<1>4. Drafts'
  BY Frame DEF TypeOK, Drafts, Inside
<1>5. Distinct'
  BY Frame DEF TypeOK, Distinct
<1>6. Kept'
  <2>1. ~Doomed
    BY LinesAre DEF Doomed, LastIs, Parses
  <2> QED BY <2>1, LinesAre, Frame DEF Kept
<1> QED BY <1>2, <1>3, <1>4, <1>5, <1>6, Frame DEF Opened

\* What a process that fails has written stays; if it was about to complete a line,
\* nobody does.
LEMMA FailInv ==
  ASSUME LogInv, NEW p \in Procs, Fail(p)
  PROVE  LogInv'
<1> USE DEF LogInv, Fail, Unlock
<1>1. TypeOK'
  BY DEF TypeOK
<1>2. Locks'
  BY DistinctAssumption DEF TypeOK, Locks, Inside
<1>3. Drafts'
  BY Frame DEF TypeOK, Drafts, Inside
<1>4. Distinct'
  BY Frame, DistinctAssumption DEF TypeOK, Distinct
<1>5. Kept'
  BY Frame DEF TypeOK, Kept, Doomed
<1> QED BY <1>1, <1>2, <1>3, <1>4, <1>5, Frame DEF Opened

-----------------------------------------------------------------------------
(* Steps that write.                                                       *)

\* A write touches the last line only.
LEMMA Appends ==
  ASSUME TypeOK, NEW v \in Records \cup {TornLine}, lines' = Append(lines, v)
  PROVE  /\ lines' \in Seq(Records \cup {TornLine}) /\ lines' # <<>>
         /\ Len(lines') \in Nat /\ Len(lines') = Len(lines) + 1
         /\ lines'[Len(lines')] = v
         /\ \A i \in 1..Len(lines) : lines'[i] = lines[i]
<1>1. lines \in Seq(Records \cup {TornLine}) /\ Len(lines) \in Nat
  BY LinesAre DEF TypeOK
<1>2. /\ lines' \in Seq(Records \cup {TornLine}) /\ Len(lines') = Len(lines) + 1
      /\ \A i \in 1..Len(lines') : lines'[i] = IF i = Len(lines) + 1 THEN v ELSE lines[i]
  BY <1>1
<1>3. lines' # <<>>
  BY <1>1, <1>2, EmptySeq
<1>4. \A i \in 1..Len(lines) : i \in 1..Len(lines') /\ i # Len(lines) + 1
  BY <1>1, <1>2
<1>5. Len(lines') \in 1..Len(lines') /\ lines'[Len(lines')] = v
  BY <1>1, <1>2
<1>6. \A i \in 1..Len(lines) : lines'[i] = lines[i]
  BY <1>2, <1>4
<1> QED BY <1>1, <1>2, <1>3, <1>5, <1>6

LEMMA Replaces ==
  ASSUME TypeOK, NEW v \in Records \cup {TornLine}, lines # <<>>,
         lines' = [lines EXCEPT ![Len(lines)] = v]
  PROVE  /\ lines' \in Seq(Records \cup {TornLine}) /\ lines' # <<>>
         /\ Len(lines') \in Nat /\ Len(lines') = Len(lines) /\ Len(lines) \in 1..Len(lines)
         /\ lines'[Len(lines')] = v
         /\ \A i \in 1..Len(lines) : i < Len(lines) => lines'[i] = lines[i]
<1>1. lines \in Seq(Records \cup {TornLine}) /\ Len(lines) \in Nat /\ Len(lines) \in 1..Len(lines)
  BY LinesAre DEF TypeOK
<1>2. /\ lines' \in Seq(Records \cup {TornLine}) /\ Len(lines') = Len(lines)
      /\ \A i \in 1..Len(lines) : lines'[i] = IF i = Len(lines) THEN v ELSE lines[i]
  BY <1>1, ExceptSeq
<1>3. lines' # <<>>
  BY <1>1, <1>2, EmptySeq
<1>4. lines'[Len(lines')] = v /\ \A i \in 1..Len(lines) : i < Len(lines) => lines'[i] = lines[i]
  <2>1. lines'[Len(lines)] = v
    BY <1>1, <1>2
  <2>2. \A i \in 1..Len(lines) : i < Len(lines) => lines'[i] = lines[i]
    <3> SUFFICES ASSUME NEW i \in 1..Len(lines), i < Len(lines) PROVE lines'[i] = lines[i]
      OBVIOUS
    <3>1. i # Len(lines)
      BY <1>1
    <3> QED BY <1>2, <3>1
  <2> QED BY <1>2, <2>1, <2>2
<1> QED BY <1>1, <1>2, <1>3, <1>4

\* The first bytes: the last line is torn, and for ever when it absorbed another one.
LEMMA WriteSomeInv ==
  ASSUME LogInv, NEW p \in Procs, WriteSome(p)
  PROVE  LogInv'
<1> USE DEF LogInv
<1>1. /\ pc[p] = "write" /\ pc' = [pc EXCEPT ![p] = "some"] /\ ex = p
      /\ Parses /\ draft[p] = NextRecord(item[p])
      /\ draft' = IF open THEN [draft EXCEPT ![p] = TornLine] ELSE draft
      /\ open' = TRUE /\ UNCHANGED <<ex, sh, item, returned, read>>
  BY DEF WriteSome, Moves, Locks, Inside, Drafts
<1>2. \/ open /\ lines # <<>> /\ lines' = [lines EXCEPT ![Len(lines)] = TornLine]
      \/ ~open /\ lines' = Append(lines, TornLine)
  BY DEF WriteSome, Opened
<1>3. /\ lines' \in Seq(Records \cup {TornLine})
      /\ Len(lines') \in Nat /\ lines' # <<>> /\ lines'[Len(lines')] = TornLine
      /\ Len(lines') = Len(lines) \/ Len(lines') = Len(lines) + 1
      /\ ~open => Len(lines') = Len(lines) + 1
      /\ \A i \in 1..Len(lines') :
            i < Len(lines') => i \in 1..Len(lines) /\ lines'[i] = lines[i]
  <2>1. CASE open
    BY <1>2, <2>1, Replaces
  <2>2. CASE ~open
    BY <1>2, <2>2, Appends, LinesAre
  <2> QED BY <2>1, <2>2
<1>4. \A q \in Procs : pc'[q] \in Inside => q = p
  BY <1>1 DEF TypeOK, Locks, Inside
<1>5. Len(lines) \in Nat /\ \A i \in 1..Len(lines) : lines[i] \in Records
  BY <1>1, LinesAre, ParsesIs
<1>6. TypeOK'
  BY <1>1, <1>3 DEF TypeOK
<1>7. Locks' /\ Opened'
  BY <1>1, <1>3 DEF TypeOK, Locks, Inside, Opened
<1>8. Chained'
  <2> SUFFICES ASSUME NEW i \in 1..Len(lines') PROVE
        /\ lines'[i] = TornLine => i = Len(lines')
        /\ lines'[i] # TornLine => /\ lines'[i].seq = i
                               /\ lines'[i].prev = IF i = 1 THEN Genesis ELSE lines'[i - 1].id
    BY DEF Chained, Continues, Before
  <2>1. CASE i = Len(lines')
    BY <1>3, <2>1
  <2>2. CASE i < Len(lines')
    <3>1. i \in 1..Len(lines) /\ lines'[i] = lines[i] /\ lines[i] # TornLine
      BY <1>3, <1>5, <2>2, DistinctAssumption
    <3>2. i = 1 \/ lines'[i - 1] = lines[i - 1]
      BY <1>3, <2>2
    <3>3. lines[i].seq = i /\ lines[i].prev = IF i = 1 THEN Genesis ELSE lines[i - 1].id
      BY <3>1 DEF Chained, Continues, Before
    <3> QED BY <3>1, <3>2, <3>3, <2>2
  <2> QED BY <1>3, <2>1, <2>2
<1>9. Drafts'
  <2>1. ASSUME NEW q \in Procs
        PROVE  (pc[q] \in Inside \cup {"wait"} <=> item[q] # Nil)'
    BY <1>1 DEF TypeOK, Drafts, Inside
  <2>2. LastIs(TornLine)'
    BY <1>3 DEF LastIs
  <2>3. draft'[p] # TornLine => (draft[p].id = item[p] /\ Continues(draft[p], Len(lines)))'
    <3> SUFFICES ASSUME draft'[p] # TornLine
                 PROVE  /\ draft'[p].id = item'[p] /\ draft'[p].seq = Len(lines')
                        /\ draft'[p].prev = IF Len(lines') = 1 THEN Genesis
                                            ELSE lines'[Len(lines') - 1].id
      BY DEF Continues, Before
    <3>1. ~open /\ draft'[p] = NextRecord(item[p]) /\ Len(lines') = Len(lines) + 1
      BY <1>1, <1>3 DEF TypeOK
    <3>2. CASE lines = <<>>
      BY <1>1, <3>1, <3>2 DEF NextRecord
    <3>3. CASE lines # <<>>
      <4>1. Len(lines) \in 1..Len(lines) /\ lines'[Len(lines)] = lines[Len(lines)]
        BY <1>3, <3>1, <3>3, LinesAre
      <4>2. lines[Len(lines)].seq = Len(lines)
        BY <1>5, <4>1, DistinctAssumption DEF Chained, Continues
      <4> QED BY <1>1, <3>1, <3>3, <4>1, <4>2 DEF NextRecord
    <3> QED BY <3>2, <3>3
  <2>4. pc'[p] = "some"
    BY <1>1 DEF TypeOK
  <2> QED BY <1>4, <2>1, <2>2, <2>3, <2>4 DEF Drafts, Inside
<1>10. ASSUME NEW i \in 1..Len(lines'), NEW e, Holds(i, e)'
       PROVE  i \in 1..Len(lines) /\ Holds(i, e)
  BY <1>3, <1>10 DEF Holds
<1>11. Distinct'
  BY <1>1, <1>10 DEF TypeOK, Distinct
<1>12. Kept'
  <2>1. CASE open
    <3>1. draft'[p] = TornLine
      BY <1>1, <2>1 DEF TypeOK
    <3> QED BY <1>3, <1>4, <3>1 DEF Kept, Doomed, LastIs, Inside
  <2>2. CASE ~open
    <3>1. ~Doomed
      BY <1>1, LinesAre DEF Doomed, LastIs, Parses
    <3>2. \A i \in 1..Len(lines) : i \in 1..Len(lines') /\ lines'[i] = lines[i]
      BY <1>3, <1>5, <2>2
    <3>3. \A e : \A i \in 1..Len(lines) : Holds(i, e) => Holds(i, e)'
      BY <3>2 DEF Holds
    <3>4. \A e \in returned : \E i \in 1..Len(lines') : Holds(i, e)'
      BY <3>1, <3>2, <3>3 DEF Kept
    <3>5. Len(read) <= Len(lines') /\ \A i \in 1..Len(read) : lines'[i] = read[i]
      <4>1. Len(read) <= Len(lines) /\ \A i \in 1..Len(read) : lines[i] = read[i]
        BY <3>1 DEF Kept
      <4>2. Len(read) \in Nat /\ Len(lines') = Len(lines) + 1
        BY <1>3, <2>2, LinesAre
      <4>3. \A i \in 1..Len(read) : i \in 1..Len(lines)
        BY <1>5, <4>1, <4>2
      <4> QED BY <1>5, <3>2, <4>1, <4>2, <4>3
    <3> QED BY <1>1, <3>4, <3>5 DEF Kept
  <2> QED BY <2>1, <2>2
<1> QED BY <1>6, <1>7, <1>8, <1>9, <1>11, <1>12

\* All of the text: the line parses, unless it absorbed another one.
LEMMA WriteTextInv ==
  ASSUME LogInv, NEW p \in Procs, WriteText(p)
  PROVE  LogInv'
<1> USE DEF LogInv
<1>1. /\ pc[p] = "some" /\ pc' = [pc EXCEPT ![p] = "text"] /\ ex = p
      /\ LastIs(TornLine) /\ item[p] \in Entries /\ draft[p] \in Records \cup {TornLine}
      /\ draft[p] # TornLine => draft[p].id = item[p] /\ Continues(draft[p], Len(lines))
      /\ lines' = [lines EXCEPT ![Len(lines)] = draft[p]]
      /\ UNCHANGED <<open, ex, sh, item, draft, returned, read>>
  BY DEF WriteText, Moves, TypeOK, Locks, Inside, Drafts
<1>2. /\ lines' \in Seq(Records \cup {TornLine}) /\ Len(lines) \in Nat
      /\ Len(lines') = Len(lines) /\ lines' # <<>> /\ lines'[Len(lines)] = draft[p]
      /\ \A i \in 1..Len(lines) : i < Len(lines) => lines'[i] = lines[i]
      /\ Len(lines) \in 1..Len(lines) /\ lines[Len(lines)] = TornLine
  BY <1>1, Replaces, LinesAre DEF LastIs
<1>3. \A q \in Procs : pc'[q] \in Inside => q = p
  BY <1>1 DEF TypeOK, Locks, Inside
<1>4. TypeOK'
  BY <1>1, <1>2 DEF TypeOK
<1>5. Locks' /\ Opened'
  BY <1>1, <1>2 DEF TypeOK, Locks, Inside, Opened
<1>6. Chained'
  <2> SUFFICES ASSUME NEW i \in 1..Len(lines) PROVE
        /\ lines'[i] = TornLine => i = Len(lines)
        /\ lines'[i] # TornLine => /\ lines'[i].seq = i
                               /\ lines'[i].prev = IF i = 1 THEN Genesis ELSE lines'[i - 1].id
    BY <1>2 DEF Chained, Continues, Before
  <2>1. i = 1 \/ lines'[i - 1] = lines[i - 1]
    BY <1>2
  <2>2. CASE i = Len(lines)
    BY <1>1, <1>2, <2>1, <2>2 DEF Continues, Before
  <2>3. CASE i < Len(lines)
    <3>1. lines'[i] = lines[i]
      BY <1>2, <2>3
    <3>2. lines[i] # TornLine => lines[i].seq = i
              /\ lines[i].prev = IF i = 1 THEN Genesis ELSE lines[i - 1].id
      BY DEF Chained, Continues, Before
    <3>3. lines[i] = TornLine => i = Len(lines)
      BY DEF Chained
    <3> QED BY <2>1, <3>1, <3>2, <3>3
  <2> QED BY <1>2, <2>2, <2>3
<1>7. Drafts'
  <2>1. ASSUME NEW q \in Procs
        PROVE  (pc[q] \in Inside \cup {"wait"} <=> item[q] # Nil)'
    BY <1>1 DEF TypeOK, Drafts, Inside
  <2>2. pc'[p] = "text"
    BY <1>1 DEF TypeOK
  <2> QED BY <1>1, <1>2, <1>3, <2>1, <2>2 DEF Drafts, Inside
\* What a line holds it held before, except for the entry just completed.
<1>8. ASSUME NEW i \in 1..Len(lines), NEW e, Holds(i, e)'
      PROVE  \/ i # Len(lines) /\ Holds(i, e)
             \/ i = Len(lines) /\ e = item[p]
  <2>1. CASE i = Len(lines)
    BY <1>1, <1>2, <1>8, <2>1 DEF Holds
  <2>2. CASE i < Len(lines)
    <3>1. lines'[i] = lines[i]
      BY <1>2, <2>2
    <3> QED BY <1>2, <1>8, <2>2, <3>1 DEF Holds
  <2> QED BY <1>2, <2>1, <2>2
<1>9. Distinct'
  <2>1. \A i \in 1..Len(lines) : ~Holds(i, item[p])
    BY <1>1 DEF Distinct
  <2>2. ASSUME NEW i \in 1..Len(lines'), NEW j \in 1..Len(lines'), NEW e \in Entries,
               Holds(i, e)', Holds(j, e)'
        PROVE  i = j
    BY <1>2, <1>8, <2>1, <2>2 DEF Distinct
  <2>3. ASSUME NEW q \in Procs, pc'[q] \in {"wait", "read", "write", "some"},
               NEW i \in 1..Len(lines'), Holds(i, item[q])'
        PROVE  FALSE
    <3>1. q # p /\ pc[q] = pc'[q]
      BY <1>1, <2>3 DEF TypeOK
    <3>2. item[q] # item[p]
      BY <1>1, <3>1, DistinctAssumption DEF Distinct
    <3>3. i \in 1..Len(lines) /\ Holds(i, item[q])'
      BY <1>1, <1>2, <2>3
    <3>4. Holds(i, item[q])
      BY <1>1, <1>8, <3>2, <3>3 DEF Holds
    <3> QED BY <2>3, <3>1, <3>3, <3>4 DEF Distinct
  <2>4. /\ \A a, b \in Procs : item'[a] = item'[b] /\ item'[a] # Nil => a = b
        /\ \A a \in Procs : item'[a] \notin returned'
    BY <1>1 DEF Distinct
  <2> QED BY <2>2, <2>3, <2>4 DEF Distinct
<1>10. Kept'
  <2>1. CASE draft[p] = TornLine
    <3>1. \A q \in Procs : pc'[q] # "some"
      BY <1>1, <1>3 DEF TypeOK, Inside
    <3> QED BY <1>2, <2>1, <3>1 DEF Kept, Doomed, LastIs
  <2>2. CASE draft[p] # TornLine
    <3>1. ~Doomed
      BY <1>1, <2>2 DEF Doomed
    <3>2. \A e \in returned : \E i \in 1..Len(lines') : Holds(i, e)'
      BY <1>2, <3>1 DEF Kept, Holds
    <3>3. Len(read) <= Len(lines') /\ \A i \in 1..Len(read) : lines'[i] = read[i]
      BY <1>2, <3>1, LinesAre, DistinctAssumption DEF Kept
    <3> QED BY <1>1, <3>2, <3>3 DEF Kept
  <2> QED BY <2>1, <2>2
<1> QED BY <1>4, <1>5, <1>6, <1>7, <1>9, <1>10

-----------------------------------------------------------------------------
(* The theorems.                                                           *)

LEMMA NextLog == LogInv /\ [Next]_vars => LogInv'
<1> SUFFICES ASSUME LogInv, [Next]_vars PROVE LogInv'
  OBVIOUS
<1>1. CASE UNCHANGED vars
  BY <1>1, Frame
  DEF vars, LogInv, TypeOK, Locks, Opened, Drafts, Distinct, Kept, Doomed
<1>2. CASE Next
  <2>1. PICK p \in Procs :
          \/ \E e \in Entries : AppendBegin(p, e)
          \/ LockExclusive(p) \/ ReadForAppend(p) \/ WriteSome(p) \/ WriteText(p)
          \/ WriteNewline(p) \/ AppendReturn(p)
          \/ LockShared(p) \/ Snapshot(p) \/ Fail(p)
    BY <1>2 DEF Next
  <2> QED BY <2>1, AppendBeginInv, LockInv, ReadForAppendInv, WriteSomeInv, WriteTextInv,
             WriteNewlineInv, AppendReturnInv, SnapshotInv, FailInv
<1> QED BY <1>1, <1>2

\* The inductive invariant holds in every reachable state (events.py append, read_all).
THEOREM LogInvariant == Spec => []LogInv
  BY InitLog, NextLog, PTL DEF Spec

\* Types of the file, the locks and the writers.
THEOREM LogTypes == Spec => []TypeOK
<1>1. LogInv => TypeOK
  BY DEF LogInv
<1> QED BY LogInvariant, <1>1, PTL

\* ChainVerifies: a file that parses passes verify_chain, whoever wrote it and
\* whatever failed.
THEOREM ChainTheorem == Spec => []ChainVerifies
  BY LogInvariant, InvChain, PTL

\* ReturnedIsThere: a file that parses holds every append that returned, once, and
\* extends what any reader was given.
THEOREM ReturnedTheorem == Spec => []ReturnedIsThere
  BY LogInvariant, InvReturned, PTL

-----------------------------------------------------------------------------
(* The file refines AppendOnlyLog.                                         *)

\* Whatever leaves the file unreadable breaks the abstract log.
LEMMA BreakRefines ==
  ASSUME Unreadable' PROVE Abstract!Next
  BY DEF Abstract!Next, Abstract!Break

LEMMA StutterRefines ==
  ASSUME Settled' = Settled
  PROVE  UNCHANGED <<IF Unreadable THEN <<>> ELSE [i \in DOMAIN Settled |-> Settled[i].id],
                     Unreadable>>
  BY DEF Unreadable

\* Only the holder of the exclusive lock can be completing a line, and only WriteSome
\* and Fail change whether somebody is.
LEMMA SteadySettled ==
  ASSUME LogInv, LogInv', NEW p \in Procs,
         \/ \E e \in Entries : AppendBegin(p, e)
         \/ LockExclusive(p) \/ ReadForAppend(p) \/ WriteNewline(p) \/ AppendReturn(p)
         \/ LockShared(p) \/ Snapshot(p)
  PROVE  Settled' = Settled
<1>1. InProgress' <=> InProgress
  BY DEF LogInv, TypeOK, InProgress, AppendBegin, LockExclusive, ReadForAppend, WriteNewline,
         AppendReturn, LockShared, Snapshot, Moves
<1>2. lines' = lines
  BY DEF AppendBegin, LockExclusive, ReadForAppend, WriteNewline, AppendReturn, LockShared,
         Snapshot
<1> QED BY <1>1, <1>2 DEF Settled

\* A line nobody will complete stays torn.
LEMMA TornIsUnreadable ==
  ASSUME TypeOK, LastIs(TornLine), ~InProgress
  PROVE  Unreadable
<1>1. Len(lines) \in DOMAIN lines
  BY LinesAre DEF LastIs
<1> QED BY <1>1 DEF Unreadable, Settled, LastIs

LEMMA FailRefines ==
  ASSUME LogInv, LogInv', NEW p \in Procs, Fail(p)
  PROVE  Unreadable' \/ Settled' = Settled
<1>1. CASE InProgress' <=> InProgress
  BY <1>1 DEF Fail, Settled
<1>2. CASE InProgress /\ ~InProgress'
  <2>1. LastIs(TornLine)
    BY <1>2 DEF LogInv, Drafts, InProgress
  <2>2. LastIs(TornLine)'
    BY <2>1 DEF LastIs, Fail
  <2> QED BY <1>2, <2>2, TornIsUnreadable, PTL DEF LogInv
<1>3. InProgress' => InProgress
  BY DEF LogInv, TypeOK, InProgress, Fail
<1> QED BY <1>1, <1>2, <1>3

\* The first bytes of a line that starts one are not settled; those that absorb an
\* unterminated line leave it torn.
LEMMA WriteSomeRefines ==
  ASSUME LogInv, LogInv', NEW p \in Procs, WriteSome(p)
  PROVE  Unreadable' \/ Settled' = Settled
<1>1. /\ ~InProgress /\ lines \in Seq(Records \cup {TornLine}) /\ Len(lines) \in Nat
      /\ pc'[p] = "some" /\ NextRecord(item[p]) # TornLine /\ draft[p] = NextRecord(item[p])
  <2>1. pc[p] = "write" /\ ex = p /\ draft[p] = NextRecord(item[p]) /\ Parses
        /\ pc'[p] = "some"
    BY DEF LogInv, TypeOK, Locks, Inside, Drafts, WriteSome, Moves
  <2>2. ~InProgress
    BY <2>1 DEF LogInv, Locks, Inside, InProgress
  <2>3. item[p] \in Entries
    BY <2>1 DEF LogInv, TypeOK, Drafts, Inside
  <2>4. lines = <<>> \/ lines[Len(lines)] \in Records
    BY <2>1, LinesAre, ParsesIs DEF LogInv
  <2>5. NextRecord(item[p]) \in Records
    BY <2>3, <2>4 DEF NextRecord, Records
  <2> QED BY <2>1, <2>2, <2>5, LinesAre, DistinctAssumption DEF LogInv, TypeOK
<1>2. CASE open
  <2>1. \A q \in Procs : pc'[q] = "some" => q = p
    BY <1>1 DEF LogInv, Locks, Inside
  <2>2. draft'[p] = TornLine
    BY <1>2 DEF LogInv, TypeOK, WriteSome
  <2>3. ~InProgress'
    BY <2>1, <2>2 DEF InProgress
  <2>4. LastIs(TornLine)'
    BY <1>1 DEF LogInv, Drafts
  <2> QED BY <2>3, <2>4, TornIsUnreadable, PTL DEF LogInv
<1>3. CASE ~open
  <2>1. lines' = Append(lines, TornLine) /\ draft' = draft
    BY <1>3 DEF WriteSome
  <2>2. InProgress'
    BY <1>1, <2>1 DEF InProgress
  <2>3. Len(lines') = Len(lines) + 1 /\ \A i \in 1..Len(lines) : lines'[i] = lines[i]
    BY <2>1, Appends DEF LogInv
  <2> DEFINE front == SubSeq(lines', 1, Len(lines') - 1)
  <2>4. /\ front \in Seq(Records \cup {TornLine}) /\ Len(front) = Len(lines)
        /\ \A i \in 1..Len(lines) : front[i] = lines[i]
    <3>1. \A i \in 1..Len(lines) : lines'[i] \in Records \cup {TornLine}
      BY <2>3, LinesAre DEF LogInv
    <3>2. Len(lines') - 1 = Len(lines)
      BY <1>1, <2>3
    <3> QED BY <1>1, <2>3, <3>1, <3>2, SubSeqProperties
  <2>5. front = lines
    BY <1>1, <2>4, SeqEqual
  <2> QED BY <1>1, <2>2, <2>5 DEF Settled
<1> QED BY <1>2, <1>3

LEMMA Below ==
  ASSUME NEW n \in Nat
  PROVE  /\ \A i \in 1..(n - 1) : i \in 1..n /\ i < n /\ i # n
         /\ \A i \in 1..n : i # n => i \in 1..(n - 1)
  OBVIOUS

LEMMA FrontParses ==
  ASSUME TypeOK, Chained
  PROVE  \A i \in 1..(Len(lines) - 1) :
            i \in 1..Len(lines) /\ i < Len(lines) /\ lines[i] \in Records
<1> SUFFICES ASSUME NEW i \in 1..(Len(lines) - 1)
             PROVE  i \in 1..Len(lines) /\ i < Len(lines) /\ lines[i] \in Records
  OBVIOUS
<1>1. i \in 1..Len(lines) /\ i < Len(lines) /\ i # Len(lines)
  BY LinesAre, Below
<1>2. lines[i] # TornLine
  BY <1>1 DEF Chained
<1> QED BY <1>1, <1>2, LinesAre

\* A function that continues a sequence by one element.
LEMMA AppendIs ==
  ASSUME NEW S, NEW n \in Nat, NEW old \in Seq(S), NEW e \in S, Len(old) = n - 1,
         NEW new \in [1..n -> S], \A i \in 1..n : new[i] = IF i = n THEN e ELSE old[i]
  PROVE  new = Append(old, e)
<1>1. /\ Append(old, e) \in Seq(S) /\ Len(Append(old, e)) = n
      /\ \A i \in 1..n : Append(old, e)[i] = IF i = n THEN e ELSE old[i]
  OBVIOUS
<1>2. new \in Seq(S) /\ Len(new) = n
  OBVIOUS
<1> QED BY <1>1, <1>2, SeqEqual

\* The rest of the line settles it: one entry more, and a new one.
LEMMA WriteTextRefines ==
  ASSUME LogInv, LogInv', NEW p \in Procs, WriteText(p)
  PROVE  Abstract!Next
<1>1. /\ pc[p] = "some" /\ LastIs(TornLine) /\ item[p] \in Entries
      /\ draft[p] # TornLine => draft[p].id = item[p]
      /\ lines' = [lines EXCEPT ![Len(lines)] = draft[p]] /\ draft' = draft
      /\ draft[p] \in Records \cup {TornLine}
  BY DEF LogInv, TypeOK, Drafts, Inside, WriteText, Moves
<1>2. ~InProgress'
  BY DEF LogInv, TypeOK, Locks, Inside, InProgress, WriteText, Moves
<1>3. CASE draft[p] = TornLine
  <2>1. LastIs(TornLine)'
    BY <1>1, <1>3, Replaces DEF LogInv, LastIs
  <2> QED BY <1>2, <2>1, TornIsUnreadable, BreakRefines, PTL DEF LogInv
<1>4. CASE draft[p] # TornLine
  <2> DEFINE n == Len(lines)
             front == SubSeq(lines, 1, n - 1)
  <2>0. PICK e \in Entries : e = item[p] /\ e = draft[p].id
    BY <1>1, <1>4
  <2>1. /\ n \in Nat /\ n \in 1..n /\ lines[n] = TornLine /\ lines'[n] = draft[p] /\ Len(lines') = n
        /\ DOMAIN lines' = 1..n
        /\ \A i \in 1..n : i < n => lines'[i] = lines[i]
    BY <1>1, Replaces, LinesAre DEF LogInv, LastIs
  <2>2. \A i \in 1..(n - 1) : i \in 1..n /\ i < n /\ lines[i] \in Records /\ lines[i].id # e
    <3>1. \A i \in 1..Len(lines) : ~Holds(i, e)
      BY <1>1, <2>0 DEF LogInv, Distinct
    <3> QED BY <2>1, <3>1, FrontParses, DistinctAssumption DEF LogInv, Holds
  <2>3. /\ front \in Seq(Records) /\ Len(front) = n - 1
        /\ \A i \in 1..(n - 1) : front[i] = lines[i]
    BY <2>1, <2>2, SubSeqProperties
  <2>4. Settled = front /\ Settled' = lines'
    BY <1>1, <1>2, <1>4 DEF Settled, InProgress
  <2>5. ~Unreadable
    BY <2>1, <2>2, <2>3, <2>4, DistinctAssumption DEF Unreadable
  <2>6. ~Unreadable'
    <3>1. \A i \in 1..n : lines'[i] # TornLine
      BY <1>4, <2>1, <2>2, DistinctAssumption
    <3> QED BY <2>1, <2>4, <3>1 DEF Unreadable
  <2> DEFINE old == [i \in 1..(n - 1) |-> lines[i].id]
             new == [i \in 1..n |-> lines'[i].id]
  <2>7. /\ old \in Seq(Entries) /\ Len(old) = n - 1 /\ DOMAIN old = 1..(n - 1)
        /\ \A i \in DOMAIN old : old[i] # e
    BY <2>1, <2>2 DEF Records
  <2>8. new = Append(old, e)
    <3>1. \A i \in 1..n : new[i] = IF i = n THEN e ELSE old[i]
      <4> SUFFICES ASSUME NEW i \in 1..n PROVE lines'[i].id = IF i = n THEN e ELSE old[i]
        OBVIOUS
      <4>1. CASE i = n
        BY <2>0, <2>1, <4>1
      <4>2. CASE i # n
        <5>1. i \in 1..(n - 1)
          BY <2>1, <4>2, Below
        <5> QED BY <2>1, <2>2, <4>2, <5>1
      <4> QED BY <4>1, <4>2
    <3>2. new \in [1..n -> Entries]
      <4>1. \A i \in 1..n : new[i] \in Entries
        <5> SUFFICES ASSUME NEW i \in 1..n, i # n PROVE old[i] \in Entries
          BY <3>1
        <5>1. i \in 1..(n - 1)
          BY <2>1, Below
        <5> QED BY <2>2, <5>1 DEF Records
      <4> QED BY <4>1
    <3> HIDE DEF n, old, new
    <3> QED BY <2>1, <2>7, <3>1, <3>2, AppendIs
  <2>9. (IF Unreadable THEN <<>> ELSE [i \in DOMAIN Settled |-> Settled[i].id]) = old
    BY <2>1, <2>3, <2>4, <2>5
  <2>10. (IF Unreadable THEN <<>> ELSE [i \in DOMAIN Settled |-> Settled[i].id])' = new
    BY <2>1, <2>4, <2>6
  <2>11. Abstract!Add(e)
    <3> DEFINE found == IF Unreadable THEN <<>> ELSE [i \in DOMAIN Settled |-> Settled[i].id]
    <3>1. found = old /\ found' = new
      BY <2>9, <2>10
    <3>2. Unreadable' = FALSE
      BY <2>6
    <3> HIDE DEF n, old, new, found
    <3>3. \A i \in DOMAIN found : found[i] # e
      BY <2>7, <3>1
    <3>4. found' = Append(found, e)
      BY <2>8, <3>1
    <3> USE DEF found
    <3> QED BY ONLY <2>5, <3>2, <3>3, <3>4 DEF Abstract!Add, found
  <2> QED BY <2>11 DEF Abstract!Next
<1> QED BY <1>3, <1>4

LEMMA StepRefines ==
  LogInv /\ LogInv' /\ [Next]_vars
    => [Abstract!Next]_<<IF Unreadable THEN <<>> ELSE [i \in DOMAIN Settled |-> Settled[i].id],
                         Unreadable>>
<1> SUFFICES ASSUME LogInv, LogInv', [Next]_vars
             PROVE  Abstract!Next \/ Unreadable' \/ Settled' = Settled
  BY BreakRefines, StutterRefines
<1>1. CASE UNCHANGED vars
  BY <1>1 DEF vars, Settled, InProgress
<1>2. ASSUME NEW p \in Procs,
             \/ \E e \in Entries : AppendBegin(p, e)
             \/ LockExclusive(p) \/ ReadForAppend(p) \/ WriteSome(p) \/ WriteText(p)
             \/ WriteNewline(p) \/ AppendReturn(p)
             \/ LockShared(p) \/ Snapshot(p) \/ Fail(p)
      PROVE  Abstract!Next \/ Unreadable' \/ Settled' = Settled
  BY <1>2, SteadySettled, FailRefines, WriteSomeRefines, WriteTextRefines
<1> QED BY <1>1, <1>2 DEF Next

\* ImplementsAppendOnlyLog: entries are only ever added at the end, and a log that
\* breaks has none any more and takes none.
THEOREM RefinementTheorem == Spec => ImplementsAppendOnlyLog
<1>1. Init => Abstract!Init
  BY DEF Init, Abstract!Init, Unreadable, Settled, InProgress
<1> QED
  BY <1>1, StepRefines, LogInvariant, PTL DEF Spec, ImplementsAppendOnlyLog, Abstract!Spec
=============================================================================
