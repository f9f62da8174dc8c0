----------------------------- MODULE MCStsCache -----------------------------
(* Instances of StsCache for TLC: three calls for one account, so that a    *)
(* third may come in between the two that share a token.                    *)
EXTENDS StsCache

CONSTANTS g1, g2, g3, a1

MCAccountOf == [g \in Gets |-> a1]
=============================================================================
