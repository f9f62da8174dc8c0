----------------------------- MODULE MCDiagnosis -----------------------------
(* The instance of EvalGate, and with it of Diagnosis, for TLC.            *)
EXTENDS EvalGate

CONSTANTS describe, list, restart, invented

MCDims == {"RootCause", "Recommendation", "Evidence", "Hallucination", "Latency"}
=============================================================================
