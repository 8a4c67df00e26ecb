------------------------------ MODULE RunFate -------------------------------
(***************************************************************************)
(* What the lifecycle promises about the fate of a run, without its files: *)
(*   open       it may still be launched                                   *)
(*   spent      it has been launched and nobody has judged it              *)
(*   judgeable  it completed; postflight may certify it                    *)
(*   burnt      it failed, timed out, was interrupted or abandoned         *)
(*   certified  it holds a receipt                                         *)
(* burnt and certified are final, a launch waits for a certified           *)
(* predecessor, and only a completed run is ever certified.                *)
(***************************************************************************)
CONSTANTS Runs, Contracts, Pred, NoRun

VARIABLES fate

Fates == {"open", "spent", "judgeable", "burnt", "certified"}

Move(r, from, to) ==
    /\ fate[r] \in from
    /\ fate' = [fate EXCEPT ![r] = to]

Launch(r, c) ==
    /\ Pred[r][c] # NoRun => fate[Pred[r][c]] = "certified"
    /\ Move(r, {"open"}, "spent")
Complete(r) == Move(r, {"spent"}, "judgeable")
\* Its cleanup could not be confirmed: the code lets such a run start again.
Unresolve(r) == Move(r, {"spent"}, "open")
Burn(r) == Move(r, {"open", "spent"}, "burnt")
Certify(r) == Move(r, {"judgeable"}, "certified")

Init == fate = [r \in Runs |-> "open"]

Next ==
    \E r \in Runs :
        \/ \E c \in Contracts : Launch(r, c)
        \/ Complete(r) \/ Unresolve(r) \/ Burn(r) \/ Certify(r)

Spec == Init /\ [][Next]_fate
=============================================================================
