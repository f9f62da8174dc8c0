----------------------------- MODULE MCExecView -----------------------------
(* The instance of ExecView for TLC, over those of ExecPlan.               *)
EXTENDS MCExecPlan, ExecView
=============================================================================
