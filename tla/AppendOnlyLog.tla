--------------------------- MODULE AppendOnlyLog ----------------------------
(***************************************************************************)
(* What events.jsonl promises its users: entries are only ever added, one  *)
(* at a time and at the end.  A log may break (a torn line); then nothing  *)
(* can be read from it or added to it any more.                            *)
(***************************************************************************)
EXTENDS Sequences

CONSTANTS Entries

VARIABLES
    entries,  \* the entries a reader finds, oldest first
    broken    \* the file no longer parses

Init == entries = <<>> /\ broken = FALSE

Add(e) ==
    /\ ~broken
    /\ \A i \in DOMAIN entries : entries[i] # e
    /\ entries' = Append(entries, e)
    /\ broken' = FALSE

Break == broken' = TRUE /\ entries' = <<>>

Next == (\E e \in Entries : Add(e)) \/ Break

Spec == Init /\ [][Next]_<<entries, broken>>
=============================================================================
