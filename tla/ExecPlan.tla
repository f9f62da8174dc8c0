------------------------------ MODULE ExecPlan ------------------------------
(***************************************************************************)
(* The human-in-the-loop execution pipeline: the rows of exec_plans and    *)
(* exec_audit, the plan and approve handlers, and the execute handler as   *)
(* a process per HTTP request.                                             *)
(*                                                                         *)
(* One step of an execute request is one round trip to the database or one *)
(* call of the cloud executor: between two of them the handler holds no    *)
(* lock and no transaction, so any step of another request may come in     *)
(* between.                                                                *)
(*                                                                         *)
(* An operator named Mutant... is no part of the specification: it is the  *)
(* definition after it with a plausible bug, which some property has to    *)
(* tell from the code.                                                     *)
(***************************************************************************)
EXTENDS Naturals, FiniteSets

CONSTANTS
  Plans,           \* primary keys of exec_plans
  Requests,        \* POST /exec/{exec_id}/execute requests, each served once
  Accounts,        \* values of account_alias
  Target,          \* the exec_id of each request
  AccountOf,       \* the account_alias of each plan
  NumActions,      \* length of would_execute of each plan
  MaxActions,      \* bound on that length
  RateLimit,       \* execRateLimit()
  MaxInFlight,     \* bound on the requests served at the same time
  HasExecutor,     \* deps.ExecAction # nil
  RollbackEnabled, \* deps.RollbackAction # nil and AICO_ROLLBACK_ENABLED
  HasMarker,       \* deps.ExecStore implements ExecRollbackMarker
  DBFaults,        \* a database round trip of a request may fail
  Crashes          \* a handler may die between two steps

Seqs == 1..MaxActions

ASSUME ConfigAssumption ==
  /\ MaxActions \in Nat
  /\ RateLimit \in Nat \ {0}
  /\ MaxInFlight \in Nat \ {0}
  /\ {HasExecutor, RollbackEnabled, HasMarker, DBFaults, Crashes}
       \subseteq BOOLEAN

ASSUME RequestAssumption ==
  /\ Target \in [Requests -> Plans]
  /\ AccountOf \in [Plans -> Accounts]
  /\ NumActions \in [Plans -> 0..MaxActions]

VARIABLES
  \* exec_plans
  status,     \* status column, "absent" while the row does not exist
  approved,   \* approved_at IS NOT NULL
  started,    \* started_at: NULL, within the last hour, or older
  done,       \* actions_completed
  \* exec_audit
  audit,      \* status of row (exec_id, seq), "none" while it does not exist
  \* locals of each execute request
  pc,         \* the next step of the handler
  seq,        \* 1 + the loop index i, of the run loop and then of the rollback
  ok,         \* third result of the executor
  failed, completed, rolled, rollbackFailed,
  resp,       \* status code of the first writeJSON, 0 before it
  \* history
  begun,      \* the request's BeginExecution committed
  calls       \* calls of deps.ExecAction by the request, per action

store   == <<status, approved, started, done, audit>>
locals  == <<seq, ok, failed, completed, rolled, rollbackFailed>>
history == <<begun, calls>>
vars    == <<store, pc, locals, resp, history>>

-----------------------------------------------------------------------------
Terminal    == {"completed", "failed", "rolled_back"}
Status      == {"absent", "planned", "approved", "running", "rejected"}
                 \cup Terminal
AuditStatus == {"none", "pending", "success", "failed", "rolled_back"}
Codes       == {0, 200, 404, 409, 429, 500}
Steps       == {"load", "count", "begin", "capture", "act", "record",
                "rollback", "mark", "finish"}

validExecTransitions ==
  {<<"planned", "approved">>, <<"planned", "rejected">>,
   <<"approved", "running">>,
   <<"running", "completed">>, <<"running", "failed">>,
   <<"failed", "rolled_back">>, <<"failed", "completed">>}

canExecTransition(from, to) == <<from, to>> \in validExecTransitions

\* The statuses CountExecutionsSince counts, within the rate-limit window.
Counted(p) == started[p] = "recent" /\ status[p] \in {"running"} \cup Terminal
CountExecutionsSince(a) ==
  Cardinality({p \in Plans : AccountOf[p] = a /\ Counted(p)})

InFlight == {r \in Requests : pc[r] \in Steps}

\* The step that serves action k of n: the run loop is left after the last.
LoopStep(k, n) ==
  IF k > n THEN "finish" ELSE IF HasExecutor THEN "capture" ELSE "act"

\* http.ResponseWriter keeps the first status code written to it.
Reply(r, code) == resp' = [resp EXCEPT ![r] = IF @ = 0 THEN code ELSE @]
Goto(r, step)  == pc' = [pc EXCEPT ![r] = step]
Return(r, code) == Reply(r, code) /\ Goto(r, "done")

Init ==
  /\ status = [p \in Plans |-> "absent"]
  /\ approved = [p \in Plans |-> FALSE]
  /\ started = [p \in Plans |-> "null"]
  /\ done = [p \in Plans |-> 0]
  /\ audit = [p \in Plans |-> [s \in Seqs |-> "none"]]
  /\ pc = [r \in Requests |-> "idle"]
  /\ seq = [r \in Requests |-> 1]
  /\ ok = [r \in Requests |-> TRUE]
  /\ failed = [r \in Requests |-> FALSE]
  /\ completed = [r \in Requests |-> 0]
  /\ rolled = [r \in Requests |-> {}]
  /\ rollbackFailed = [r \in Requests |-> FALSE]
  /\ resp = [r \in Requests |-> 0]
  /\ begun = [r \in Requests |-> FALSE]
  /\ calls = [r \in Requests |-> [s \in Seqs |-> 0]]

-----------------------------------------------------------------------------
(* The writes of the store, each one statement or one transaction.         *)
InsertPlan(p) ==
  /\ status[p] = "absent"
  /\ status' = [status EXCEPT ![p] = "planned"]
  /\ UNCHANGED <<approved, started, done, audit>>

ApproveRow(p) ==
  /\ status[p] = "planned"
  /\ status' = [status EXCEPT ![p] = "approved"]
  /\ approved' = [approved EXCEPT ![p] = TRUE]
  /\ UNCHANGED <<started, done, audit>>

\* The UPDATE loses its "AND status='approved'".
MutantStartRunning(p) ==
  /\ status' = [status EXCEPT ![p] = "running"]
  /\ started' = [started EXCEPT ![p] = "recent"]
  /\ audit' = [audit EXCEPT ![p] =
                 [s \in Seqs |-> IF s <= NumActions[p] THEN "pending" ELSE @[s]]]
  /\ UNCHANGED <<approved, done>>

\* The audit rows are left to a later statement.
MutantStartUnaudited(p) ==
  /\ status[p] = "approved"
  /\ status' = [status EXCEPT ![p] = "running"]
  /\ started' = [started EXCEPT ![p] = "recent"]
  /\ UNCHANGED <<approved, done, audit>>

\* The transaction: the compare-and-set on the status and all the audit rows.
StartRunning(p) ==
  /\ status[p] = "approved"
  /\ status' = [status EXCEPT ![p] = "running"]
  /\ started' = [started EXCEPT ![p] = "recent"]
  /\ audit' = [audit EXCEPT ![p] =
                 [s \in Seqs |-> IF s <= NumActions[p] THEN "pending" ELSE @[s]]]
  /\ UNCHANGED <<approved, done>>

WriteResult(p, s, outcome) ==
  /\ audit[p][s] # "none"
  /\ audit' = [audit EXCEPT ![p][s] = outcome]
  /\ UNCHANGED <<status, approved, started, done>>

\* Every success row is flipped, not only those of the undone actions.
MutantMarkRows(p, S) ==
  /\ audit' = [audit EXCEPT ![p] =
                 [s \in Seqs |-> IF @[s] = "success" THEN "rolled_back" ELSE @[s]]]
  /\ UNCHANGED <<status, approved, started, done>>

MarkRows(p, S) ==
  /\ audit' = [audit EXCEPT ![p] =
                 [s \in Seqs |-> IF s \in S /\ @[s] = "success"
                                 THEN "rolled_back" ELSE @[s]]]
  /\ UNCHANGED <<status, approved, started, done>>

\* This UPDATE names the row by its id alone, whatever its status.
WriteFinal(p, final, count) ==
  /\ status' = [status EXCEPT ![p] = final]
  /\ done' = [done EXCEPT ![p] = count]
  /\ UNCHANGED <<approved, started, audit>>

-----------------------------------------------------------------------------
(* POST /exec/plan: the row is inserted last, after every way to fail.     *)
CreatePlan(p) ==
  InsertPlan(p) /\ UNCHANGED <<pc, locals, resp, history>>

(* POST /exec/approve: a request that misses the guarded UPDATE only reads *)
(* the row again for its 404 or 409.                                       *)
ApprovePlan(p) ==
  ApproveRow(p) /\ UNCHANGED <<pc, locals, resp, history>>

(* One hour passes: the execution leaves the rate-limit window.            *)
LeaveWindow(p) ==
  /\ started[p] = "recent"
  /\ started' = [started EXCEPT ![p] = "old"]
  /\ UNCHANGED <<status, approved, done, audit, pc, locals, resp, history>>

-----------------------------------------------------------------------------
(* POST /exec/{exec_id}/execute, one step per round trip.                  *)
Arrive(r) ==
  /\ pc[r] = "idle"
  /\ Cardinality(InFlight) < MaxInFlight
  /\ Goto(r, "load")
  /\ UNCHANGED <<store, locals, resp, history>>

\* The status check is forgotten: any plan that exists is let through.
MutantGetPlan(r) ==
  /\ pc[r] = "load"
  /\ IF status[Target[r]] = "absent" THEN Return(r, 404)
                                     ELSE Goto(r, "count") /\ UNCHANGED resp
  /\ UNCHANGED <<store, locals, history>>

GetPlan(r) ==
  /\ pc[r] = "load"
  /\ \/ status[Target[r]] = "absent" /\ Return(r, 404)
     \/ /\ status[Target[r]] # "absent"
        /\ ~canExecTransition(status[Target[r]], "running")
        /\ Return(r, 409)
     \/ /\ canExecTransition(status[Target[r]], "running")
        /\ Goto(r, "count")
        /\ UNCHANGED resp
     \/ DBFaults /\ Return(r, 500)
  /\ UNCHANGED <<store, locals, history>>

\* Off by one: the limit itself is let through.
MutantCheckRateLimit(r) ==
  /\ pc[r] = "count"
  /\ IF CountExecutionsSince(AccountOf[Target[r]]) > RateLimit
       THEN Return(r, 429)
       ELSE Goto(r, "begin") /\ UNCHANGED resp
  /\ UNCHANGED <<store, locals, history>>

CheckRateLimit(r) ==
  /\ pc[r] = "count"
  /\ LET started_within_hour == CountExecutionsSince(AccountOf[Target[r]])
     IN \/ started_within_hour >= RateLimit /\ Return(r, 429)
        \/ started_within_hour < RateLimit /\ Goto(r, "begin") /\ UNCHANGED resp
        \/ DBFaults /\ Return(r, 500)
  /\ UNCHANGED <<store, locals, history>>

\* After an error the handler writes a response and does not return: it goes
\* on to the run loop.  Here and below, a write can be applied and its answer
\* still lost.  The decoding of would_execute before it, which would end the
\* request with 500, does not fail: the column holds what the plan handler
\* encoded.
BeginExecution(r) ==
  /\ pc[r] = "begin"
  /\ \/ /\ StartRunning(Target[r])
        /\ begun' = [begun EXCEPT ![r] = TRUE]
        /\ UNCHANGED resp \/ (DBFaults /\ Reply(r, 500))
     \/ /\ status[Target[r]] # "approved"
        /\ Reply(r, 409)
        /\ UNCHANGED <<store, begun>>
     \/ /\ DBFaults
        /\ Reply(r, 500)
        /\ UNCHANGED <<store, begun>>
  /\ Goto(r, LoopStep(1, NumActions[Target[r]]))
  /\ UNCHANGED <<locals, calls>>

\* The executor runs once for the pre-state, its outcome is dropped ...
CapturePreState(r) ==
  /\ pc[r] = "capture"
  /\ calls' = [calls EXCEPT ![r][seq[r]] = @ + 1]
  /\ Goto(r, "act")
  /\ UNCHANGED <<store, locals, resp, begun>>

\* ... and once for the action.  The stub executor always succeeds.
Execute(r) ==
  /\ pc[r] = "act"
  /\ IF HasExecutor
       THEN /\ \E outcome \in BOOLEAN : ok' = [ok EXCEPT ![r] = outcome]
            /\ calls' = [calls EXCEPT ![r][seq[r]] = @ + 1]
       ELSE ok' = [ok EXCEPT ![r] = TRUE] /\ UNCHANGED calls
  /\ Goto(r, "record")
  /\ UNCHANGED <<store, seq, failed, completed, rolled, rollbackFailed, resp, begun>>

\* What the loop does after RecordActionResult.
NextAction(r) ==
  /\ ok[r]
  /\ completed' = [completed EXCEPT ![r] = @ + 1]
  /\ seq' = [seq EXCEPT ![r] = @ + 1]
  /\ Goto(r, LoopStep(seq[r] + 1, NumActions[Target[r]]))
  /\ UNCHANGED failed

\* The loop goes on after a failed action.
MutantStopAtFailure(r) ==
  /\ ~ok[r]
  /\ failed' = [failed EXCEPT ![r] = TRUE]
  /\ seq' = [seq EXCEPT ![r] = @ + 1]
  /\ Goto(r, LoopStep(seq[r] + 1, NumActions[Target[r]]))
  /\ UNCHANGED completed

StopAtFailure(r) ==
  /\ ~ok[r]
  /\ failed' = [failed EXCEPT ![r] = TRUE]
  /\ IF completed[r] > 0 /\ RollbackEnabled
       THEN seq' = [seq EXCEPT ![r] = completed[r]] /\ Goto(r, "rollback")
       ELSE UNCHANGED seq /\ Goto(r, "finish")
  /\ UNCHANGED completed

\* A missing row leaves the loop before the outcome is looked at; any other
\* error of the store is ignored.
RecordActionResult(r) ==
  LET p == Target[r] IN
  /\ pc[r] = "record"
  /\ \/ /\ WriteResult(p, seq[r], IF ok[r] THEN "success" ELSE "failed")
        /\ NextAction(r) \/ StopAtFailure(r)
     \/ /\ audit[p][seq[r]] = "none"
        /\ Goto(r, "finish")
        /\ UNCHANGED <<store, seq, failed, completed>>
     \/ /\ DBFaults
        /\ NextAction(r) \/ StopAtFailure(r)
        /\ UNCHANGED store
  /\ UNCHANGED <<ok, rolled, rollbackFailed, resp, history>>

\* RollbackAction for one completed action, the last one first.
Rollback(r) ==
  /\ pc[r] = "rollback"
  /\ \/ /\ rolled' = [rolled EXCEPT ![r] = @ \cup {seq[r]}]
        /\ UNCHANGED rollbackFailed
     \/ /\ rollbackFailed' = [rollbackFailed EXCEPT ![r] = TRUE]
        /\ UNCHANGED rolled
  /\ IF seq[r] > 1
       THEN seq' = [seq EXCEPT ![r] = @ - 1] /\ UNCHANGED pc
       ELSE /\ Goto(r, IF rolled'[r] # {} /\ HasMarker THEN "mark" ELSE "finish")
            /\ UNCHANGED seq
  /\ UNCHANGED <<store, ok, failed, completed, resp, history>>

\* When the rows cannot be marked the rollback starts over.
MutantMarkRetry(r) ==
  /\ pc[r] = "mark"
  /\ \/ MarkRows(Target[r], rolled[r]) /\ Goto(r, "finish")
     \/ DBFaults /\ Goto(r, "rollback") /\ UNCHANGED store
  /\ UNCHANGED <<locals, resp, history>>

MarkAuditRolledBack(r) ==
  /\ pc[r] = "mark"
  /\ \/ MarkRows(Target[r], rolled[r]) /\ UNCHANGED rollbackFailed
     \/ /\ DBFaults
        /\ MarkRows(Target[r], rolled[r]) \/ UNCHANGED store
        /\ rollbackFailed' = [rollbackFailed EXCEPT ![r] = TRUE]
  /\ Goto(r, "finish")
  /\ UNCHANGED <<seq, ok, failed, completed, rolled, resp, history>>

\* A partly failed rollback still counts as one.
MutantFinalStatus(r) ==
  IF ~failed[r] THEN "completed"
  ELSE IF completed[r] > 0 /\ RollbackEnabled THEN "rolled_back" ELSE "failed"

FinalStatus(r) ==
  IF ~failed[r] THEN "completed"
  ELSE IF completed[r] > 0 /\ RollbackEnabled /\ ~rollbackFailed[r]
       THEN "rolled_back" ELSE "failed"

\* An early return on the failure path skips the final UPDATE.
MutantFinishExecution(r) ==
  /\ pc[r] = "finish"
  /\ IF failed[r] THEN UNCHANGED status
     ELSE status' = [status EXCEPT ![Target[r]] = "completed"]
  /\ Return(r, 200)
  /\ UNCHANGED <<approved, started, done, audit, locals, history>>

FinishExecution(r) ==
  /\ pc[r] = "finish"
  /\ \/ /\ WriteFinal(Target[r], FinalStatus(r), completed[r])
        /\ Return(r, 200) \/ (DBFaults /\ Return(r, 500))
     \/ DBFaults /\ Return(r, 500) /\ UNCHANGED store
  /\ UNCHANGED <<locals, history>>

(* The handler is cut off: panic, killed process, or deadline.             *)
Crash(r) ==
  /\ Crashes
  /\ pc[r] \in Steps
  /\ Goto(r, "done")
  /\ UNCHANGED <<store, locals, resp, history>>

Serve(r) ==
  \/ GetPlan(r) \/ CheckRateLimit(r) \/ BeginExecution(r)
  \/ CapturePreState(r) \/ Execute(r) \/ RecordActionResult(r)
  \/ Rollback(r) \/ MarkAuditRolledBack(r) \/ FinishExecution(r)

Next ==
  \/ \E p \in Plans : CreatePlan(p) \/ ApprovePlan(p) \/ LeaveWindow(p)
  \/ \E r \in Requests : Arrive(r) \/ Serve(r) \/ Crash(r)

Spec == Init /\ [][Next]_vars

\* A goroutine that is not blocked is scheduled; nobody has to send a request.
FairSpec == Spec /\ \A r \in Requests : WF_vars(Serve(r))

-----------------------------------------------------------------------------
(* Properties.                                                             *)

\* Every variable has its type; a request's counters stay within its plan.
TypeOK ==
  /\ status \in [Plans -> Status]
  /\ approved \in [Plans -> BOOLEAN]
  /\ started \in [Plans -> {"null", "recent", "old"}]
  /\ done \in [Plans -> 0..MaxActions]
  /\ audit \in [Plans -> [Seqs -> AuditStatus]]
  /\ pc \in [Requests -> Steps \cup {"idle", "done"}]
  /\ seq \in [Requests -> 1..(MaxActions + 1)]
  /\ ok \in [Requests -> BOOLEAN]
  /\ failed \in [Requests -> BOOLEAN]
  /\ completed \in [Requests -> 0..MaxActions]
  /\ rolled \in [Requests -> SUBSET Seqs]
  /\ rollbackFailed \in [Requests -> BOOLEAN]
  /\ resp \in [Requests -> Codes]
  /\ begun \in [Requests -> BOOLEAN]
  /\ calls \in [Requests -> [Seqs -> 0..2]]

\* No cloud call is made for a plan nobody approved, although the handler
\* checks the status in a row it read several round trips before the call.
NoCallBeforeApproval ==
  \A r \in Requests, s \in Seqs : calls[r][s] > 0 => approved[Target[r]]

\* Of the requests racing on one approved plan, one at most starts it.
SingleBegin ==
  \A r1, r2 \in Requests :
    begun[r1] /\ begun[r2] /\ Target[r1] = Target[r2] => r1 = r2

\* The trail never claims more than happened: a success row stands for an
\* action some request ran to the end, a rolled_back row for one it undid.
AuditTruthful ==
  \A p \in Plans, s \in Seqs :
    /\ audit[p][s] \in {"success", "failed"} /\ HasExecutor =>
         \E r \in Requests : Target[r] = p /\ calls[r][s] = 2
    /\ audit[p][s] = "rolled_back" =>
         \E r \in Requests : Target[r] = p /\ s \in rolled[r] /\ failed[r]

\* Finished work is never offered again: a terminal plan stays terminal,
\* whichever late request writes to it, and a resolved row stays resolved.
NoResurrection ==
  [][\A p \in Plans :
       /\ status[p] \in Terminal => status'[p] \in Terminal
       /\ \A s \in Seqs : audit[p][s] \notin {"none", "pending"} =>
                            audit'[p][s] \notin {"none", "pending"}]_vars

\* Nobody takes up a plan whose execution was cut off, and nobody runs an
\* action of it twice: once no request is past the check of a running plan,
\* those that come later leave it, its rows and its cloud alone for good.
Abandoned(p) ==
  /\ status[p] = "running"
  /\ \A r \in Requests : Target[r] = p => pc[r] \notin Steps \ {"load"}
AbandonedIsLeft ==
  [][\A p \in Plans : Abandoned(p) =>
       /\ Abandoned(p)' /\ audit'[p] = audit[p]
       /\ \A r \in Requests : Target[r] = p => calls'[r] = calls[r]]_vars

\* The check-then-act window of the rate limit: an account exceeds it by no
\* more than the other requests that can be past the check at the same time.
RateLimitOvershoot ==
  \A a \in Accounts : CountExecutionsSince(a) <= RateLimit + MaxInFlight - 1

\* Without faults of the store, every action that reaches the cloud has its
\* audit row, also when the request running it lost the race to start.
EveryCallAudited ==
  \A r \in Requests, s \in Seqs :
    calls[r][s] > 0 => audit[Target[r]][s] # "none"

\* When executions of a plan do not overlap, its final status and its
\* actions_completed say what the audit rows say.
StatusMatchesAudit ==
  \A p \in Plans :
    LET Rows == 1..NumActions[p]
        In(S) == {s \in Rows : audit[p][s] \in S}
    IN /\ status[p] = "completed" => In({"success"}) = Rows /\ done[p] = NumActions[p]
       /\ status[p] = "failed" =>
            In({"failed"}) = {done[p] + 1} /\ In({"pending"}) = {s \in Rows : s > done[p] + 1}
       /\ status[p] = "rolled_back" =>
            In({"rolled_back"}) = 1..done[p] /\ In({"failed"}) = {done[p] + 1}

\* When executions of a plan do not overlap, what each plan goes through is
\* a behaviour of the ledger, the audit rows being the entries of it.
Ledger == INSTANCE ExecLedger WITH ledger <- audit
LedgerSpec == Ledger!Spec

\* A started execution comes to an end: no plan stays in "running".
RunningEnds ==
  \A p \in Plans : (status[p] = "running") ~> (status[p] \in Terminal)

\* Every request that was let in is answered, whatever the store answers.
RequestEnds == \A r \in Requests : (pc[r] \in Steps) ~> (pc[r] = "done")

=============================================================================
