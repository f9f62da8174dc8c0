------------------------------ MODULE MCWsHub ------------------------------
(* Instances of WsHub for TLC. *)
EXTENDS WsHub

CONSTANTS c1, c2, p1, p2

\* p1 overtakes a dashboard that is slow, p2 races with it.
MCMaxEvents == [p \in Publishers |-> IF p = p1 THEN 2 ELSE 1]
=============================================================================
