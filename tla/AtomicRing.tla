----------------------------- MODULE AtomicRing -----------------------------
(***************************************************************************)
(* What the ring of prepared blocks promises its two users: the producer   *)
(* places and retires whole blocks, and a drain hands out the block it was *)
(* asked for, whole, as it stands in the ring, or silence.                 *)
(***************************************************************************)
CONSTANTS Slots, Blocks, Mixes, NoBlock, Silence

VARIABLES
    held,      \* the block each slot holds, with the mix it came from
    heard      \* what the last drain handed out

Init == /\ held = [s \in Slots |-> NoBlock]
        /\ heard = Silence

Place(s, i, m) == held' = [held EXCEPT ![s] = <<i, m>>] /\ UNCHANGED heard
Retire(s)      == held' = [held EXCEPT ![s] = NoBlock] /\ UNCHANGED heard
Hand(s)        == /\ held[s] # NoBlock
                  /\ heard' = held[s]
                  /\ UNCHANGED held
Underrun       == heard' = Silence /\ UNCHANGED held

Next == \/ \E s \in Slots : \/ \E i \in Blocks, m \in Mixes : Place(s, i, m)
                            \/ Retire(s)
                            \/ Hand(s)
        \/ Underrun

Spec == Init /\ [][Next]_<<held, heard>>
=============================================================================
