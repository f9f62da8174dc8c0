------------------------------ MODULE MCWorker ------------------------------
(* The instance of WorkerLifecycle for TLC.                                *)
EXTENDS WorkerLifecycle

CONSTANTS e1, e2, u1, u2, c1, c2, l1, l2

\* e1 carries its created_at, e2 does not.
MCStamp == [e \in Stamped |-> 1]
=============================================================================
