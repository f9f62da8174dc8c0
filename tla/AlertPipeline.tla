--------------------------- MODULE AlertPipeline ---------------------------
(***************************************************************************)
(* The alerts table with one worker as the other parties see it: it polls, *)
(* marks what it found and polls again, and may stop anywhere and start    *)
(* anew.  WorkerLifecycle has the goroutines this worker is made of.       *)
(***************************************************************************)
EXTENDS AlertTable

VARIABLES
  wpc,        \* the worker: "stopped", waiting to "poll", or in the "mark" loop
  batch       \* the rows it selected and has not come to yet

worker == <<wpc, batch>>
vars   == <<alerts, worker>>

Init == TableInit /\ wpc = "stopped" /\ batch = {}

-----------------------------------------------------------------------------
Start ==
  /\ wpc = "stopped"
  /\ wpc' = "poll"
  /\ UNCHANGED <<alerts, batch>>

SelectUnanalyzed ==
  /\ wpc = "poll"
  /\ batch' = Unanalyzed
  /\ wpc' = "mark"
  /\ UNCHANGED alerts

\* An error is collected and the loop goes on.
MarkAnalyzed ==
  /\ wpc = "mark"
  /\ \E i \in Rows : IsNext(i, batch) /\ MarkRow(i) /\ batch' = batch \ {i}
  /\ UNCHANGED wpc

\* The heartbeat, failed or not, ends the cycle.
EndCycle ==
  /\ wpc = "mark" /\ batch = {}
  /\ wpc' = "poll"
  /\ UNCHANGED <<alerts, batch>>

\* The context is cancelled: in the wait, in a query, or in the marks.
Stop ==
  /\ wpc # "stopped"
  /\ LeaveRows(batch)
  /\ wpc' = "stopped" /\ batch' = {}

Work == Start \/ SelectUnanalyzed \/ MarkAnalyzed \/ EndCycle \/ Stop

Next == Work \/ (Others /\ UNCHANGED worker)

Spec == Init /\ [][Next]_vars

-----------------------------------------------------------------------------
\* Every variable has its type, and the worker is about rows that exist.
TypeOK ==
  /\ TableTypeOK
  /\ wpc \in {"stopped", "poll", "mark"} /\ batch \subseteq Present

=============================================================================
