---------------------------- MODULE SignerPromise ----------------------------
(***************************************************************************)
(* What the signer promises its baker, with no threads, files, ceilings or *)
(* power losses: at each key and operation type, signatures are made at    *)
(* strictly rising positions, until a floor is installed under one of them *)
(* or one of them was not on record for certain.                           *)
(***************************************************************************)
EXTENDS Marks

CONSTANT Slots

VARIABLES signed,       \* positions signed, per slot
          repeated,     \* a position was signed twice
          excused       \* a floor was installed under a signed position, or
                        \* one was signed that a crash may forget

Init ==
    /\ signed = [s \in Slots |-> {}]
    /\ repeated = [s \in Slots |-> FALSE]
    /\ excused = [s \in Slots |-> FALSE]

Sign(s, p) ==
    /\ excused[s] \/ \A q \in signed[s] : Below(q, p)
    /\ signed' = [signed EXCEPT ![s] = @ \cup {p}]
    /\ repeated' = [repeated EXCEPT ![s] = @ \/ p \in signed[s]]
    /\ excused' \in {excused, [excused EXCEPT ![s] = TRUE]}

LowerFloors ==
    /\ excused' \in [Slots -> BOOLEAN]
    /\ \A s \in Slots : excused[s] => excused'[s]
    /\ UNCHANGED <<signed, repeated>>

Next == LowerFloors \/ \E s \in Slots, p \in Mark : Sign(s, p)

Spec == Init /\ [][Next]_<<signed, repeated, excused>>
=============================================================================
