-------------------------- MODULE MCAlertPipeline --------------------------
(* The instance of AlertPipeline for TLC.                                  *)
EXTENDS AlertPipeline

CONSTANTS e1, e2, u1, u2

\* e1 carries its created_at, e2 does not.
MCStamp == [e \in Stamped |-> 1]
=============================================================================
