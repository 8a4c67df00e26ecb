----------------------------- MODULE LeaseMutex -----------------------------
(* What the workspace lease promises the lifecycle commands: one at a time. *)
CONSTANT Procs
VARIABLE inside

Init == inside = {}
Enter(p) == inside = {} /\ inside' = {p}
Exit(p) == inside = {p} /\ inside' = {}
Next == \E p \in Procs : Enter(p) \/ Exit(p)
Spec == Init /\ [][Next]_inside
=============================================================================
