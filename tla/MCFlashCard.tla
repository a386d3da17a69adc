---------------------------- MODULE MCFlashCard ----------------------------
(* Three cards: a source, one in use or another source, one to be flashed. *)
EXTENDS FlashCard, TLC

CONSTANTS c1, c2, c3, k1, k2, k3

(* A card set up on a device after it was flashed; with dd, it has no        *)
(* manifest.                                                                *)
Used(ks, manifest, ch) ==
    [Blank EXCEPT !.image = Old, !.layout = Old, !.keys = ks, !.chain = ch,
                  !.setup = TRUE, !.manifest = manifest, !.mark = 1]
Pair(a, b) == [consensus |-> a, companion |-> b]
Nomadic(es) == [Blank EXCEPT !.image = Octez, !.keys = es]

(* Keys on a card whose image went wrong, or that never got its manifest. *)
Spoilt == [Blank EXCEPT !.image = Torn, !.layout = Release, !.keys = Pair(k1, k2),
                        !.chain = "main", !.setup = TRUE, !.mark = 1]

MCStarts ==
    {(c1 :> a @@ c2 :> b @@ c3 :> Blank) :
       a \in {Used(Pair(k1, k2), Old, "main"), Used(Pair(k1, k2), Nothing, "test"), Spoilt},
       b \in {Nomadic(<<k1, k2>>), Used(Pair(k3, k2), Nothing, "main")}}
=============================================================================
