----------------------------- MODULE MCExecPlan -----------------------------
(* Instances of ExecPlan for TLC, the claims of its documents, and the     *)
(* mutated forms its properties have to catch.                             *)
EXTENDS ExecPlan

CONSTANTS p1, p2, p3, r1, r2, r3, r4, acct

\* p1 has all the actions and two requests, p2 two actions less and one
\* request, p3 no action and one request; one account has them all.
MCTarget ==
  [r \in Requests |-> CASE r \in {r1, r2} -> p1 [] r = r3 -> p2 [] r = r4 -> p3]
MCAccountOf == [p \in Plans |-> acct]
MCNumActions ==
  [p \in Plans |-> CASE p = p1 -> MaxActions [] p = p2 -> MaxActions - 2 [] p = p3 -> 0]

-----------------------------------------------------------------------------
(* What the documents and comments say and the code does not do.           *)

\* internal/agent/tools.go: only an approved plan may run write actions; a
\* request refused with 409 because the plan is not approved runs nothing.
RefusedRunsNothing ==
  \A r \in Requests : resp[r] = 409 => \A s \in Seqs : calls[r][s] = 0
=============================================================================
