----------------------------- MODULE AtomicPair -----------------------------
(***************************************************************************)
(* What a workspace may keep of one Ed25519 key pair, seen through the     *)
(* recovery every use begins with: a complete pair is only ever replaced   *)
(* by another complete pair.  A first keygen that dies may leave the       *)
(* private key alone, and an overwrite of such a half may leave a mixture. *)
(***************************************************************************)
EXTENDS Naturals

CONSTANT Generations   \* the pairs that are ever generated

VARIABLE pair   \* generations of the private and the public file; 0 is absent

Absent == <<0, 0>>
Whole(p) == p[1] # 0 /\ p[1] = p[2]

Installed(g) == <<g, g>>
PrivateAlone(g) == <<g, 0>>
Mixtures(p, g) == {p[1], 0, g} \X {p[2], 0, g}

\* What may take the place of p when generation g is saved.
After(p, g) ==
    CASE Whole(p) -> {Installed(g)}
      [] p = Absent -> {Installed(g), PrivateAlone(g)}
      [] OTHER -> Mixtures(p, g)

Init == pair = Absent
Next == pair' # pair /\ \E g \in Generations : pair' \in After(pair, g)
Spec == Init /\ [][Next]_pair
=============================================================================
