----------------------------- MODULE NonceFates -----------------------------
(***************************************************************************)
(* What the holder promises of every nonce, whatever dies in between: it   *)
(* is spent once, holds the one lease at most once, is launched at most    *)
(* once and only with the lease, and never holds it again when it is over. *)
(***************************************************************************)
EXTENDS Naturals

CONSTANT Nonces

VARIABLES
    fate,      \* of each nonce
    launches   \* payloads started for it

fateVars == <<fate, launches>>

Fates == {"fresh", "spent", "held", "starting", "over"}
Holding == {n \in Nonces : fate[n] \in {"held", "starting"}}

Move(n, from, to) == fate[n] \in from /\ fate' = [fate EXCEPT ![n] = to]

\* Spent while nothing holds the lease; the lease follows, or never.
Spend(n) == Holding = {} /\ Move(n, {"fresh"}, "spent") /\ UNCHANGED launches
Hold(n) == Holding = {} /\ Move(n, {"spent"}, "held") /\ UNCHANGED launches
Start(n) == Move(n, {"held"}, "starting") /\ UNCHANGED launches
Launch(n) ==
    /\ fate[n] = "starting" /\ launches[n] = 0
    /\ launches' = [launches EXCEPT ![n] = 1]
    /\ UNCHANGED fate
\* Nothing was spawned: it may be started again.
GiveBack(n) == launches[n] = 0 /\ Move(n, {"starting"}, "held") /\ UNCHANGED launches
End(n) == Move(n, {"spent", "held", "starting"}, "over") /\ UNCHANGED launches

Init == fate = [n \in Nonces |-> "fresh"] /\ launches = [n \in Nonces |-> 0]
Next == \E n \in Nonces :
            Spend(n) \/ Hold(n) \/ Start(n) \/ Launch(n) \/ GiveBack(n) \/ End(n)
Spec == Init /\ [][Next]_fateVars
=============================================================================
