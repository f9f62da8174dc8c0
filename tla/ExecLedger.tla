----------------------------- MODULE ExecLedger -----------------------------
(***************************************************************************)
(* What the execution pipeline promises for one plan at a time: a plan is  *)
(* approved before it runs, its actions are resolved in order up to the    *)
(* first failure, compensated only after one, and the final status is      *)
(* the one the ledger of its actions supports.                             *)
(***************************************************************************)
EXTENDS Naturals

CONSTANTS
  Plans,
  NumActions,   \* the number of actions of each plan
  MaxActions    \* bound on that number

VARIABLES
  status,   \* the plan's status
  ledger    \* the state of each of its actions, "none" before the start

vars == <<status, ledger>>

Seqs    == 1..MaxActions
Rows(p) == 1..NumActions[p]

Init ==
  /\ status = [p \in Plans |-> "absent"]
  /\ ledger = [p \in Plans |-> [s \in Seqs |-> "none"]]

Move(p, from, to) == status[p] = from /\ status' = [status EXCEPT ![p] = to]

Create(p)  == Move(p, "absent", "planned") /\ UNCHANGED ledger
Approve(p) == Move(p, "planned", "approved") /\ UNCHANGED ledger

Start(p) ==
  /\ Move(p, "approved", "running")
  /\ ledger' = [ledger EXCEPT ![p] =
                  [s \in Seqs |-> IF s \in Rows(p) THEN "pending" ELSE @[s]]]

\* The first pending action succeeds or fails; after a failure none is taken.
Resolve(p, s) ==
  /\ status[p] = "running"
  /\ ledger[p][s] = "pending"
  /\ \A t \in 1..(s - 1) : ledger[p][t] = "success"
  /\ \E outcome \in {"success", "failed"} :
       ledger' = [ledger EXCEPT ![p][s] = outcome]
  /\ UNCHANGED status

HasFailed(p) == \E s \in Rows(p) : ledger[p][s] = "failed"

\* After a failure, some of the actions that succeeded are undone.
Compensate(p) ==
  /\ status[p] = "running"
  /\ HasFailed(p)
  /\ \E S \in SUBSET {s \in Rows(p) : ledger[p][s] = "success"} :
       ledger' = [ledger EXCEPT ![p] =
                    [s \in Seqs |-> IF s \in S THEN "rolled_back" ELSE @[s]]]
  /\ UNCHANGED status

Finish(p) ==
  /\ \/ /\ Move(p, "running", "completed")
        /\ \A s \in Rows(p) : ledger[p][s] = "success"
     \/ /\ Move(p, "running", "failed")
        /\ HasFailed(p)
     \/ /\ Move(p, "running", "rolled_back")
        /\ HasFailed(p)
        /\ \A s \in Rows(p) : ledger[p][s] # "success"
        /\ \E s \in Rows(p) : ledger[p][s] = "rolled_back"
  /\ UNCHANGED ledger

Next == \E p \in Plans :
  \/ Create(p) \/ Approve(p) \/ Start(p) \/ Compensate(p) \/ Finish(p)
  \/ \E s \in Rows(p) : Resolve(p, s)

Spec == Init /\ [][Next]_vars
=============================================================================
