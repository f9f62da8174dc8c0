-------------------------- MODULE ExecLedgerProofs --------------------------
(***************************************************************************)
(* ExecPlan implements ExecLedger while the executions of a plan do not    *)
(* overlap and the store does not fail, for any number of plans, requests  *)
(* and actions and with handlers cut off anywhere; and what the reader of  *)
(* ExecView is shown then is consistent.                                   *)
(***************************************************************************)
EXTENDS ExecView, ExecPlanProofs

\* No two handlers serve one plan at the same time.
NoOverlap ==
  \A q, r \in Requests :
    pc[q] \in Steps /\ pc[r] \in Steps /\ Target[q] = Target[r] => q = r

\* The deployment: no round trip fails, and where compensations are run
\* their audit rows can be marked.
Reliable == ~DBFaults /\ (RollbackEnabled => HasMarker)

-----------------------------------------------------------------------------
(* What a request knows of the audit rows of its plan.                     *)

\* The actions before the k-th have succeeded, the others are to come.
RowsInRun(p, k) ==
  \A s \in Seqs : s <= NumActions[p] =>
    audit[p][s] = IF s < k THEN "success" ELSE "pending"

\* The action after the c-th has failed, and those up to c are in S.
RowsFailed(p, c, S) ==
  /\ c < NumActions[p]
  /\ \A s \in Seqs : s <= NumActions[p] =>
       /\ s <= c => audit[p][s] \in S
       /\ s = c + 1 => audit[p][s] = "failed"
       /\ s > c + 1 => audit[p][s] = "pending"

\* The compensations went down to action k; all worked, or one is known to
\* have failed.
UndoneFrom(r, k) ==
  /\ \A s \in rolled[r] : k <= s /\ s <= completed[r]
  /\ ~rollbackFailed[r] =>
       \A s \in Seqs : k <= s /\ s <= completed[r] => s \in rolled[r]

Fresh(r) == ~failed[r] /\ rolled[r] = {} /\ ~rollbackFailed[r]

SerialOK(r) ==
  LET p == Target[r] IN
  /\ pc[r] \in {"idle", "load", "count", "begin", "capture", "act", "record"} =>
       Fresh(r)
  /\ pc[r] \in {"count", "begin"} => status[p] = "approved"
  /\ pc[r] \in Looping => status[p] = "running"
  /\ pc[r] \in {"capture", "act", "record"} => RowsInRun(p, seq[r])
  /\ pc[r] \in {"rollback", "mark"} =>
       /\ failed[r] /\ RollbackEnabled /\ completed[r] > 0
       /\ RowsFailed(p, completed[r], {"success"})
  /\ pc[r] = "rollback" => seq[r] <= completed[r] /\ UndoneFrom(r, seq[r] + 1)
  /\ pc[r] = "mark" => UndoneFrom(r, 1)
  /\ pc[r] = "finish" /\ ~failed[r] =>
       completed[r] = NumActions[p] /\ RowsInRun(p, completed[r] + 1)
  /\ pc[r] = "finish" /\ failed[r] =>
       /\ RowsFailed(p, completed[r], {"success", "rolled_back"})
       /\ completed[r] > 0 /\ RollbackEnabled /\ ~rollbackFailed[r] =>
            RowsFailed(p, completed[r], {"rolled_back"})

\* What a plan's row says of its audit rows once it is final.
FinalOK(p) ==
  /\ status[p] \notin Terminal => done[p] = 0
  /\ status[p] = "completed" =>
       done[p] = NumActions[p] /\ RowsInRun(p, done[p] + 1)
  /\ status[p] = "failed" =>
       RowsFailed(p, done[p], {"success", "rolled_back"})
  /\ status[p] = "rolled_back" =>
       RowsFailed(p, done[p], {"rolled_back"})

SerialInv == (\A r \in Requests : SerialOK(r)) /\ (\A p \in Plans : FinalOK(p))

-----------------------------------------------------------------------------
(* What a step leaves alone.                                               *)

LEMMA QuietStore ==
  ASSUME NEW r \in Requests,
         \/ Arrive(r) \/ GetPlan(r) \/ CheckRateLimit(r) \/ CapturePreState(r)
         \/ Execute(r) \/ Rollback(r) \/ Crash(r)
  PROVE  UNCHANGED store
  BY DEF Arrive, GetPlan, CheckRateLimit, CapturePreState, Execute, Rollback, Crash

\* A request writes to the rows of its own plan only.
LEMMA OtherPlans ==
  ASSUME TypeInv, NEW r \in Requests, Arrive(r) \/ Serve(r) \/ Crash(r),
         NEW p \in Plans, p # Target[r]
  PROVE  UNCHANGED <<status[p], done[p], audit[p]>>
  <1>1. /\ status \in [Plans -> Status] /\ done \in [Plans -> 0..MaxActions]
        /\ audit \in [Plans -> [Seqs -> AuditStatus]] /\ Target[r] \in Plans
    BY ConstTypes DEF TypeInv, TypeOK
  <1>2. CASE UNCHANGED store
    BY <1>2 DEF store
  <1>3. CASE BeginExecution(r)
    BY <1>1, <1>2, <1>3 DEF BeginExecution, StartRunning
  <1>4. CASE RecordActionResult(r)
    BY <1>1, <1>2, <1>4 DEF RecordActionResult, WriteResult, store
  <1>5. CASE MarkAuditRolledBack(r)
    BY <1>1, <1>2, <1>5 DEF MarkAuditRolledBack, MarkRows
  <1>6. CASE FinishExecution(r)
    BY <1>1, <1>2, <1>6 DEF FinishExecution, WriteFinal
  <1> QED
    BY <1>2, <1>3, <1>4, <1>5, <1>6, QuietStore DEF Serve

\* What a request and a plan know stands as long as nobody writes to them.
LEMMA SerialKept ==
  ASSUME NEW r \in Requests, SerialOK(r),
         UNCHANGED <<pc[r], seq[r], failed[r], completed[r], rolled[r], rollbackFailed[r]>>,
         pc[r] \in Steps => UNCHANGED <<status[Target[r]], audit[Target[r]]>>
  PROVE  SerialOK(r)'
  <1>1. CASE pc[r] \in Steps
    BY <1>1 DEF SerialOK, Fresh, RowsInRun, RowsFailed, UndoneFrom
  <1>2. CASE pc[r] \notin Steps
    BY <1>2 DEF SerialOK, Fresh, Looping, Steps
  <1> QED
    BY <1>1, <1>2

LEMMA FinalKept ==
  ASSUME NEW p \in Plans, FinalOK(p), UNCHANGED <<status[p], done[p], audit[p]>>
  PROVE  FinalOK(p)'
  BY DEF FinalOK, RowsInRun, RowsFailed

\* So the request that takes a step, and its plan, are all there is to see.
LEMMA SerialFrame ==
  ASSUME TypeInv, NoOverlap, SerialInv, NEW r \in Requests,
         Arrive(r) \/ Serve(r) \/ Crash(r), SerialOK(r)', FinalOK(Target[r])'
  PROVE  SerialInv'
  <1>1. ASSUME NEW p \in Plans, p # Target[r] PROVE FinalOK(p)'
    BY <1>1, OtherPlans, FinalKept DEF SerialInv
  <1>2. ASSUME NEW q \in Requests, q # r PROVE SerialOK(q)'
    <2>1. /\ UNCHANGED <<pc[q], seq[q], failed[q], completed[q], rolled[q], rollbackFailed[q]>>
          /\ SerialOK(q) /\ Target[q] \in Plans
      BY <1>2, Frame, ConstTypes DEF TypeInv, SerialInv
    <2>2. ASSUME pc[q] \in Steps PROVE UNCHANGED <<status[Target[q]], audit[Target[q]]>>
      <3>1. CASE pc[r] \in Steps
        <4>1. Target[q] # Target[r]
          BY <1>2, <2>2, <3>1 DEF NoOverlap
        <4> QED
          BY <2>1, <4>1, OtherPlans
      <3>2. CASE pc[r] \notin Steps
        <4>1. Arrive(r)
          BY <3>2 DEF Crash, Serve, GetPlan, CheckRateLimit, BeginExecution,
                      CapturePreState, Execute, RecordActionResult, Rollback,
                      MarkAuditRolledBack, FinishExecution, Steps
        <4> QED
          BY <4>1, QuietStore DEF store
      <3> QED
        BY <3>1, <3>2
    <2> QED
      BY <2>1, <2>2, SerialKept
  <1> QED
    BY <1>1, <1>2 DEF SerialInv

-----------------------------------------------------------------------------
(* One step of one request at a time.                                      *)

\* Types of what the steps compare.
LEMMA Numbers ==
  ASSUME TypeInv, NEW r \in Requests
  PROVE  /\ Target[r] \in Plans /\ NumActions[Target[r]] \in Nat
         /\ NumActions[Target[r]] <= MaxActions /\ MaxActions \in Nat
         /\ seq[r] \in Nat /\ seq[r] >= 1 /\ completed[r] \in Nat
         /\ completed[r] <= MaxActions /\ LoopOK(r)
         /\ \A s \in Seqs : s \in Nat /\ s >= 1
  BY LocalTypes, ConstTypes DEF Seqs

LEMMA GateSerial ==
  ASSUME TypeInv, SerialInv, Reliable, NEW r \in Requests,
         Arrive(r) \/ GetPlan(r) \/ CheckRateLimit(r) \/ Crash(r)
  PROVE  SerialOK(r)' /\ FinalOK(Target[r])'
  <1>1. /\ UNCHANGED store /\ Target[r] \in Plans /\ status[Target[r]] \in Status
        /\ UNCHANGED <<failed, rolled, rollbackFailed>>
    BY QuietStore, ConstTypes
    DEF Arrive, GetPlan, CheckRateLimit, Crash, locals, TypeInv, TypeOK
  <1>2. FinalOK(Target[r])'
    BY <1>1, FinalKept DEF SerialInv, store
  <1>3. \/ pc[r] = "idle" /\ pc'[r] = "load"
        \/ pc[r] = "load" /\ pc'[r] = "count" /\ status[Target[r]] = "approved"
        \/ pc[r] = "count" /\ pc'[r] = "begin"
        \/ pc'[r] = "done"
    BY <1>1, RunningFromApproved
    DEF Arrive, GetPlan, CheckRateLimit, Crash, Goto, Return, TypeInv, TypeOK
  <1>4. SerialOK(r)'
    BY <1>1, <1>3 DEF SerialInv, SerialOK, Fresh, Looping, store
  <1> QED
    BY <1>2, <1>4

LEMMA BeginSerial ==
  ASSUME TypeInv, SerialInv, Reliable, NEW r \in Requests, BeginExecution(r)
  PROVE  SerialOK(r)' /\ FinalOK(Target[r])'
  <1> DEFINE p == Target[r]
             n == NumActions[p]
  <1>1. /\ pc[r] = "begin" /\ SerialOK(r) /\ FinalOK(p)
        /\ p \in Plans /\ n \in Nat /\ seq[r] = 1 /\ completed[r] = 0
        /\ status[p] = "approved"
    BY Numbers DEF BeginExecution, SerialInv, SerialOK, LoopOK
  <1>2. StartRunning(p) /\ UNCHANGED locals /\ pc'[r] = LoopStep(1, n)
    BY <1>1 DEF BeginExecution, Reliable, Goto, TypeInv, TypeOK
  <1>3. /\ status'[p] = "running" /\ UNCHANGED done
        /\ \A s \in Seqs : s <= n => audit'[p][s] = "pending"
    BY <1>1, <1>2 DEF StartRunning, TypeInv, TypeOK
  <1>4. FinalOK(p)'
    BY <1>1, <1>3 DEF FinalOK, Terminal
  <1>5. RowsInRun(p, 1)'
    BY <1>3, Numbers DEF RowsInRun
  <1>6. UNCHANGED <<seq[r], completed[r], failed[r], rolled[r], rollbackFailed[r]>>
        /\ Fresh(r)
    BY <1>1, <1>2 DEF locals, SerialOK
  <1>7. \/ pc'[r] \in {"capture", "act"}
        \/ pc'[r] = "finish" /\ n = 0
    BY <1>1, <1>2 DEF LoopStep
  <1>8. SerialOK(r)'
    <2>1. CASE pc'[r] \in {"capture", "act"}
      BY <1>1, <1>3, <1>5, <1>6, <2>1 DEF SerialOK, Fresh, Looping
    <2>2. CASE pc'[r] = "finish" /\ n = 0
      BY <1>1, <1>3, <1>5, <1>6, <2>2 DEF SerialOK, Fresh, Looping
    <2> QED
      BY <1>7, <2>1, <2>2
  <1> QED
    BY <1>4, <1>8

LEMMA CallSerial ==
  ASSUME TypeInv, SerialInv, NEW r \in Requests, CapturePreState(r) \/ Execute(r)
  PROVE  SerialOK(r)' /\ FinalOK(Target[r])'
  <1>1. /\ UNCHANGED store /\ Target[r] \in Plans
        /\ UNCHANGED <<seq, failed, completed, rolled, rollbackFailed>>
        /\ pc[r] \in {"capture", "act"} /\ pc'[r] \in {"act", "record"}
    BY QuietStore, ConstTypes
    DEF CapturePreState, Execute, Goto, locals, TypeInv, TypeOK
  <1>2. FinalOK(Target[r])'
    BY <1>1, FinalKept DEF SerialInv, store
  <1>3. SerialOK(r)'
    BY <1>1 DEF SerialInv, SerialOK, Fresh, Looping, RowsInRun, store
  <1> QED
    BY <1>2, <1>3

LEMMA RecordSerial ==
  ASSUME TypeInv, SerialInv, Reliable, NEW r \in Requests, RecordActionResult(r)
  PROVE  SerialOK(r)' /\ FinalOK(Target[r])'
  <1> DEFINE p == Target[r]
             n == NumActions[p]
             k == seq[r]
             outcome == IF ok[r] THEN "success" ELSE "failed"
  <1>1. /\ pc[r] = "record" /\ SerialOK(r) /\ FinalOK(p)
        /\ p \in Plans /\ n \in Nat /\ k \in Nat /\ k >= 1 /\ k <= n
        /\ completed[r] \in Nat /\ completed[r] + 1 = k /\ k \in Seqs
    BY Numbers, LocalTypes DEF RecordActionResult, SerialInv, LoopOK
  <1>2. Fresh(r) /\ status[p] = "running" /\ RowsInRun(p, k)
    BY <1>1 DEF SerialOK, Looping
  <1>3. audit[p][k] = "pending"
    BY <1>1, <1>2 DEF RowsInRun
  <1>4. /\ audit' = [audit EXCEPT ![p][k] = outcome]
        /\ UNCHANGED <<status, done, rolled, rollbackFailed>>
        /\ NextAction(r) \/ StopAtFailure(r)
    BY <1>3 DEF RecordActionResult, WriteResult, Reliable
  <1>5. \A s \in Seqs : audit'[p][s] = IF s = k THEN outcome ELSE audit[p][s]
    BY <1>1, <1>4 DEF TypeInv, TypeOK
  <1>6. FinalOK(p)'
    BY <1>1, <1>2, <1>4 DEF FinalOK, Terminal
  <1>7. CASE NextAction(r)
    <2>1. /\ ok[r] /\ completed'[r] = completed[r] + 1 /\ seq'[r] = k + 1
          /\ pc'[r] = LoopStep(k + 1, n) /\ UNCHANGED failed
      BY <1>7 DEF NextAction, Goto, TypeInv, TypeOK
    <2>2. RowsInRun(p, seq[r])'
      <3> SUFFICES ASSUME NEW s \in Seqs, s <= n
                   PROVE  audit'[p][s] = IF s < k + 1 THEN "success" ELSE "pending"
        BY <2>1 DEF RowsInRun
      <3>1. s \in Nat /\ audit[p][s] = IF s < k THEN "success" ELSE "pending"
        BY <1>2, Numbers DEF RowsInRun
      <3> QED
        BY <1>1, <1>5, <2>1, <3>1
    <2>3. \/ pc'[r] \in {"capture", "act"}
          \/ pc'[r] = "finish" /\ k = n
      BY <1>1, <2>1 DEF LoopStep
    <2>4. Fresh(r)'
      BY <1>2, <1>4, <2>1 DEF Fresh
    <2>5. CASE pc'[r] \in {"capture", "act"}
      BY <1>2, <1>4, <1>6, <2>2, <2>4, <2>5 DEF SerialOK, Looping
    <2>6. CASE pc'[r] = "finish" /\ k = n
      <3>1. completed'[r] = n /\ RowsInRun(p, completed[r] + 1)'
        BY <1>1, <2>1, <2>2, <2>6 DEF RowsInRun
      <3> QED
        BY <1>2, <1>4, <1>6, <2>4, <2>6, <3>1 DEF SerialOK, Fresh, Looping
    <2> QED
      BY <1>6, <2>3, <2>5, <2>6
  <1>8. CASE StopAtFailure(r)
    <2>1. /\ ~ok[r] /\ failed'[r] /\ UNCHANGED completed
          /\ \/ /\ completed[r] > 0 /\ RollbackEnabled
                /\ seq'[r] = completed[r] /\ pc'[r] = "rollback"
             \/ /\ ~(completed[r] > 0 /\ RollbackEnabled)
                /\ pc'[r] = "finish"
      BY <1>8 DEF StopAtFailure, Goto, TypeInv, TypeOK
    <2>2. RowsFailed(p, completed[r], {"success"})'
      <3> SUFFICES ASSUME NEW s \in Seqs, s <= n
                   PROVE  /\ s <= completed[r] => audit'[p][s] = "success"
                          /\ s = completed[r] + 1 => audit'[p][s] = "failed"
                          /\ s > completed[r] + 1 => audit'[p][s] = "pending"
        BY <1>1, <2>1 DEF RowsFailed
      <3>1. s \in Nat /\ audit[p][s] = IF s < k THEN "success" ELSE "pending"
        BY <1>2, Numbers DEF RowsInRun
      <3> QED
        BY <1>1, <1>5, <2>1, <3>1
    <2>3. RowsFailed(p, completed[r], {"success", "rolled_back"})'
      BY <2>2 DEF RowsFailed
    <2>4. rolled'[r] = {} /\ ~rollbackFailed'[r]
      BY <1>2, <1>4 DEF Fresh
    <2>5. CASE pc'[r] = "rollback"
      <3>1. UndoneFrom(r, completed[r] + 1)'
        BY <1>1, <2>1, <2>4, Numbers DEF UndoneFrom
      <3> QED
        BY <1>1, <1>2, <1>4, <1>6, <2>1, <2>2, <2>5, <3>1 DEF SerialOK, Looping
    <2>6. CASE pc'[r] = "finish"
      BY <1>2, <1>4, <1>6, <2>1, <2>3, <2>6 DEF SerialOK, Looping
    <2> QED
      BY <2>1, <2>5, <2>6
  <1> QED
    BY <1>4, <1>7, <1>8

LEMMA RollbackSerial ==
  ASSUME TypeInv, SerialInv, Reliable, NEW r \in Requests, Rollback(r)
  PROVE  SerialOK(r)' /\ FinalOK(Target[r])'
  <1> DEFINE p == Target[r]
             c == completed[r]
             k == seq[r]
  <1>1. /\ pc[r] = "rollback" /\ SerialOK(r) /\ FinalOK(p)
        /\ p \in Plans /\ k \in Nat /\ k >= 1 /\ c \in Nat /\ c <= MaxActions
        /\ MaxActions \in Nat
    BY Numbers DEF Rollback, SerialInv
  <1>2. /\ status[p] = "running" /\ failed[r] /\ RollbackEnabled /\ HasMarker
        /\ c > 0 /\ RowsFailed(p, c, {"success"})
        /\ k <= c /\ UndoneFrom(r, k + 1)
    BY <1>1 DEF SerialOK, Looping, Reliable
  <1>3. /\ UNCHANGED <<status, done, audit, failed, completed>>
        /\ \/ rolled'[r] = rolled[r] \cup {k} /\ rollbackFailed'[r] = rollbackFailed[r]
           \/ rolled'[r] = rolled[r] /\ rollbackFailed'[r]
        /\ \/ k > 1 /\ seq'[r] = k - 1 /\ pc'[r] = "rollback"
           \/ /\ k <= 1 /\ seq'[r] = k
              /\ pc'[r] = IF rolled'[r] # {} /\ HasMarker THEN "mark" ELSE "finish"
    BY <1>1 DEF Rollback, Goto, store, TypeInv, TypeOK
  <1>4. FinalOK(p)'
    BY <1>1, <1>3, FinalKept
  <1>5. /\ \A s \in rolled'[r] : k <= s /\ s <= c
        /\ ~rollbackFailed'[r] => \A s \in Seqs : k <= s /\ s <= c => s \in rolled'[r]
    <2>1. \A s \in rolled[r] : s \in Seqs /\ s \in Nat
      BY Numbers DEF TypeInv, TypeOK
    <2>2. \A s \in rolled'[r] : k <= s /\ s <= c
      BY <1>1, <1>2, <1>3, <2>1 DEF UndoneFrom
    <2>3. ASSUME ~rollbackFailed'[r], NEW s \in Seqs, k <= s, s <= c
          PROVE  s \in rolled'[r]
      <3>1. s \in Nat /\ ~rollbackFailed[r] /\ rolled'[r] = rolled[r] \cup {k}
        BY <1>3, <2>3, Numbers
      <3>2. s # k => s \in rolled[r]
        BY <1>1, <1>2, <2>3, <3>1 DEF UndoneFrom
      <3> QED
        BY <3>1, <3>2
    <2> QED
      BY <2>2, <2>3
  <1>6. RowsFailed(p, c, {"success"})'
    BY <1>2, <1>3 DEF RowsFailed
  <1>7. CASE k > 1
    <2>1. seq'[r] + 1 = k /\ seq'[r] <= c /\ pc'[r] = "rollback"
      BY <1>1, <1>2, <1>3, <1>7
    <2>2. UndoneFrom(r, seq[r] + 1)'
      BY <1>3, <1>5, <2>1 DEF UndoneFrom
    <2> QED
      BY <1>2, <1>3, <1>4, <1>6, <2>1, <2>2 DEF SerialOK, Looping
  <1>8. CASE k = 1
    <2>1. UndoneFrom(r, 1)'
      BY <1>3, <1>5, <1>8 DEF UndoneFrom
    <2>2. CASE rolled'[r] # {}
      <3>1. pc'[r] = "mark"
        BY <1>1, <1>2, <1>3, <1>8, <2>2
      <3> QED
        BY <1>2, <1>3, <1>4, <1>6, <2>1, <3>1 DEF SerialOK, Looping
    <2>3. CASE rolled'[r] = {}
      <3>1. pc'[r] = "finish"
        BY <1>1, <1>2, <1>3, <1>8, <2>3
      <3>2. rollbackFailed'[r]
        <4>1. 1 \in Seqs
          BY <1>1, <1>2 DEF Seqs
        <4> QED
          BY <1>1, <1>2, <1>5, <1>8, <2>3, <4>1
      <3>3. RowsFailed(p, c, {"success", "rolled_back"})'
        BY <1>6 DEF RowsFailed
      <3> QED
        BY <1>2, <1>3, <1>4, <3>1, <3>2, <3>3 DEF SerialOK, Looping
    <2> QED
      BY <2>2, <2>3
  <1> QED
    BY <1>1, <1>7, <1>8

LEMMA MarkSerial ==
  ASSUME TypeInv, SerialInv, Reliable, NEW r \in Requests, MarkAuditRolledBack(r)
  PROVE  SerialOK(r)' /\ FinalOK(Target[r])'
  <1> DEFINE p == Target[r]
             n == NumActions[p]
             c == completed[r]
  <1>1. /\ pc[r] = "mark" /\ SerialOK(r) /\ FinalOK(p)
        /\ p \in Plans /\ n \in Nat /\ c \in Nat
    BY Numbers DEF MarkAuditRolledBack, SerialInv
  <1>2. /\ status[p] = "running" /\ failed[r] /\ c > 0
        /\ RowsFailed(p, c, {"success"}) /\ UndoneFrom(r, 1)
    BY <1>1 DEF SerialOK, Looping
  <1>3. /\ MarkRows(p, rolled[r]) /\ pc'[r] = "finish"
        /\ UNCHANGED <<failed, completed, rolled, rollbackFailed>>
    BY DEF MarkAuditRolledBack, Goto, Reliable, TypeInv, TypeOK
  <1>4. /\ UNCHANGED <<status, done>>
        /\ \A s \in Seqs :
             audit'[p][s] = IF s \in rolled[r] /\ audit[p][s] = "success"
                            THEN "rolled_back" ELSE audit[p][s]
    BY <1>1, <1>3 DEF MarkRows, TypeInv, TypeOK
  <1>5. FinalOK(p)'
    BY <1>1, <1>2, <1>4 DEF FinalOK, Terminal
  <1>6. RowsFailed(p, c, {"success", "rolled_back"})'
    BY <1>2, <1>3, <1>4 DEF RowsFailed
  <1>7. ASSUME ~rollbackFailed[r] PROVE RowsFailed(p, c, {"rolled_back"})'
    <2> SUFFICES ASSUME NEW s \in Seqs, s <= n
                 PROVE  /\ s <= c => audit'[p][s] = "rolled_back"
                        /\ s = c + 1 => audit'[p][s] = "failed"
                        /\ s > c + 1 => audit'[p][s] = "pending"
      BY <1>2, <1>3 DEF RowsFailed
    <2>1. s \in Nat /\ s >= 1
      BY Numbers
    <2>2. s <= c => s \in rolled[r] /\ audit[p][s] = "success"
      BY <1>2, <1>7, <2>1 DEF UndoneFrom, RowsFailed
    <2> QED
      BY <1>2, <1>4, <2>2 DEF RowsFailed
  <1>8. SerialOK(r)'
    <2>1. ~rollbackFailed'[r] => RowsFailed(p, completed[r], {"rolled_back"})'
      BY <1>3, <1>7
    <2> QED
      BY <1>2, <1>3, <1>4, <1>6, <2>1 DEF SerialOK, Looping
  <1> QED
    BY <1>5, <1>8

LEMMA FinishSerial ==
  ASSUME TypeInv, SerialInv, Reliable, NEW r \in Requests, FinishExecution(r)
  PROVE  SerialOK(r)' /\ FinalOK(Target[r])'
  <1> DEFINE p == Target[r]
  <1>1. /\ pc[r] = "finish" /\ SerialOK(r) /\ p \in Plans
    BY Numbers DEF FinishExecution, SerialInv
  <1>2. /\ status'[p] = FinalStatus(r) /\ done'[p] = completed[r]
        /\ pc'[r] = "done" /\ UNCHANGED audit
    BY <1>1 DEF FinishExecution, WriteFinal, Return, Goto, Reliable, TypeInv, TypeOK
  <1>3. SerialOK(r)'
    BY <1>2 DEF SerialOK, Looping
  <1>4. FinalOK(p)'
    <2>1. CASE ~failed[r]
      <3>1. status'[p] = "completed" /\ completed[r] = NumActions[p]
            /\ RowsInRun(p, completed[r] + 1)
        BY <1>1, <1>2, <2>1 DEF FinalStatus, SerialOK
      <3> QED
        BY <1>2, <3>1 DEF FinalOK, Terminal, RowsInRun
    <2>2. CASE failed[r]
      <3>1. /\ RowsFailed(p, completed[r], {"success", "rolled_back"})
            /\ \/ status'[p] = "failed"
               \/ status'[p] = "rolled_back" /\ RowsFailed(p, completed[r], {"rolled_back"})
        BY <1>1, <1>2, <2>2 DEF FinalStatus, SerialOK
      <3> QED
        BY <1>2, <3>1 DEF FinalOK, Terminal, RowsFailed
    <2> QED
      BY <2>1, <2>2
  <1> QED
    BY <1>3, <1>4

LEMMA StepSerialInv ==
  ASSUME Reliable
  PROVE  TypeInv /\ NoOverlap /\ SerialInv /\ [Next]_vars => SerialInv'
  <1> SUFFICES ASSUME TypeInv, NoOverlap, SerialInv, [Next]_vars PROVE SerialInv'
    OBVIOUS
  <1>1. CASE UNCHANGED vars
    <2>1. UNCHANGED <<status, done, audit, pc, seq, failed, completed, rolled, rollbackFailed>>
      BY <1>1 DEF vars, store, locals
    <2>2. \A r \in Requests : SerialOK(r)'
      BY <2>1, SerialKept DEF SerialInv
    <2>3. \A p \in Plans : FinalOK(p)'
      BY <2>1, FinalKept DEF SerialInv
    <2> QED
      BY <2>2, <2>3 DEF SerialInv
  <1>2. ASSUME NEW p \in Plans, CreatePlan(p) \/ ApprovePlan(p) \/ LeaveWindow(p)
        PROVE  SerialInv'
    <2>1. /\ UNCHANGED <<done, audit, pc, seq, failed, completed, rolled, rollbackFailed>>
          /\ \A q \in Plans :
               \/ status'[q] = status[q]
               \/ status[q] \in {"absent", "planned"} /\ status'[q] \in {"planned", "approved"}
      BY <1>2 DEF CreatePlan, InsertPlan, ApprovePlan, ApproveRow, LeaveWindow, locals,
                  TypeInv, TypeOK
    <2>2. ASSUME NEW q \in Plans PROVE FinalOK(q)'
      <3>1. CASE status'[q] = status[q]
        BY <2>1, <3>1, FinalKept DEF SerialInv
      <3>2. CASE status'[q] # status[q]
        BY <2>1, <3>2 DEF SerialInv, FinalOK, Terminal
      <3> QED
        BY <3>1, <3>2
    <2>3. ASSUME NEW r \in Requests PROVE SerialOK(r)'
      <3>1. CASE status'[Target[r]] = status[Target[r]]
        BY <2>1, <3>1, SerialKept DEF SerialInv
      <3>2. CASE status'[Target[r]] # status[Target[r]]
        <4>1. status[Target[r]] \in {"absent", "planned"}
          BY <2>1, <3>2, ConstTypes
        <4>2. SerialOK(r)
          BY DEF SerialInv
        <4>3. pc[r] \notin {"count", "begin"} \cup Looping
          BY <4>1, <4>2 DEF SerialOK
        <4> QED
          BY <2>1, <4>2, <4>3 DEF SerialOK, Looping, Fresh
      <3> QED
        BY <3>1, <3>2
    <2> QED
      BY <2>2, <2>3 DEF SerialInv
  <1>3. ASSUME NEW r \in Requests, Arrive(r) \/ Serve(r) \/ Crash(r)
        PROVE  SerialInv'
    <2>1. SerialOK(r)' /\ FinalOK(Target[r])'
      BY <1>3, GateSerial, BeginSerial, CallSerial, RecordSerial, RollbackSerial,
         MarkSerial, FinishSerial DEF Serve
    <2> QED
      BY <1>3, <2>1, SerialFrame
  <1> QED
    BY <1>1, <1>2, <1>3 DEF Next

LEMMA SerialInvariant ==
  ASSUME Reliable
  PROVE  Spec /\ []NoOverlap => []SerialInv
  <1>1. Init => SerialInv
    BY ConstTypes DEF Init, SerialInv, SerialOK, FinalOK, Fresh, Looping, Terminal
  <1> QED
    BY <1>1, StepSerialInv, TypeInvariant, PTL DEF Spec

-----------------------------------------------------------------------------
(* The theorems.                                                           *)

\* A final status and its actions_completed say what the audit rows say,
\* whatever failed on the way and wherever a handler was cut off.
THEOREM StatusSupported ==
  ASSUME Reliable
  PROVE  Spec /\ []NoOverlap => []StatusMatchesAudit
  <1>1. TypeInv /\ SerialInv => StatusMatchesAudit
    <2> SUFFICES ASSUME TypeInv, SerialInv, NEW p \in Plans
                 PROVE
          LET Rows == 1..NumActions[p]
              In(S) == {s \in Rows : audit[p][s] \in S}
          IN /\ status[p] = "completed" => In({"success"}) = Rows /\ done[p] = NumActions[p]
             /\ status[p] = "failed" =>
                  In({"failed"}) = {done[p] + 1} /\ In({"pending"}) = {s \in Rows : s > done[p] + 1}
             /\ status[p] = "rolled_back" =>
                  In({"rolled_back"}) = 1..done[p] /\ In({"failed"}) = {done[p] + 1}
      BY DEF StatusMatchesAudit
    <2> DEFINE n == NumActions[p]
               d == done[p]
    <2>1. n \in Nat /\ n <= MaxActions /\ MaxActions \in Nat /\ d \in Nat /\ FinalOK(p)
      BY RequestAssumption, ConfigAssumption DEF TypeInv, TypeOK, SerialInv
    <2>2. \A s \in 1..n : s \in Seqs /\ s \in Nat /\ s >= 1 /\ s <= n
      BY <2>1 DEF Seqs
    <2>3. status[p] = "completed" =>
            d = n /\ \A s \in 1..n : audit[p][s] = "success"
      BY <2>1, <2>2 DEF FinalOK, RowsInRun
    <2>4. ASSUME NEW S, RowsFailed(p, d, S)
          PROVE  /\ d + 1 \in 1..n
                 /\ \A s \in 1..n : /\ s <= d => audit[p][s] \in S
                                    /\ s = d + 1 => audit[p][s] = "failed"
                                    /\ s > d + 1 => audit[p][s] = "pending"
      BY <2>1, <2>2, <2>4 DEF RowsFailed
    <2>5. ASSUME NEW S \in SUBSET {"success", "rolled_back"}, RowsFailed(p, d, S)
          PROVE  /\ {s \in 1..n : audit[p][s] \in {"failed"}} = {d + 1}
                 /\ {s \in 1..n : audit[p][s] \in {"pending"}} = {s \in 1..n : s > d + 1}
      BY <2>1, <2>2, <2>4, <2>5
    <2>6. RowsFailed(p, d, {"rolled_back"}) =>
            {s \in 1..n : audit[p][s] \in {"rolled_back"}} = 1..d
      BY <2>1, <2>2, <2>4
    <2>7. status[p] = "failed" => RowsFailed(p, d, {"success", "rolled_back"})
      BY <2>1 DEF FinalOK
    <2>8. status[p] = "rolled_back" => RowsFailed(p, d, {"rolled_back"})
      BY <2>1 DEF FinalOK
    <2> QED
      BY <2>3, <2>5, <2>6, <2>7, <2>8
  <1> QED
    BY <1>1, SerialInvariant, TypeInvariant, PTL

\* A server that takes one execution at a time never overlaps two: what
\* holds without overlap holds of it.
THEOREM OneAtATime ==
  ASSUME MaxInFlight = 1
  PROVE  Spec => []NoOverlap
  <1>1. RateInv => NoOverlap
    <2> SUFFICES ASSUME InFlightBounded, NEW q \in InFlight, NEW r \in InFlight
                 PROVE  q = r
      BY DEF RateInv, NoOverlap, InFlight
    <2>1. IsFiniteSet(InFlight) /\ Cardinality(InFlight) \in Nat /\ Cardinality(InFlight) <= 1
      BY FS_CardinalityType DEF InFlightBounded
    <2>2. /\ IsFiniteSet(InFlight \ {r})
          /\ Cardinality(InFlight \ {r}) = Cardinality(InFlight) - 1
      BY <2>1, FS_RemoveElement
    <2>3. Cardinality(InFlight \ {r}) \in Nat
      BY <2>2, FS_CardinalityType
    <2>4. Cardinality(InFlight \ {r}) = 0
      BY <2>1, <2>2, <2>3
    <2>5. InFlight \ {r} = {}
      BY <2>2, <2>4, FS_EmptySet
    <2> QED
      BY <2>5
  <1> QED
    BY <1>1, InitRateInv, StepRateInv, TypeInvariant, PTL DEF Spec

\* One step of ExecPlan is one of the ledger or leaves its state alone.
LEMMA RecordLedger ==
  ASSUME TypeInv, SerialInv, Reliable, NEW r \in Requests, RecordActionResult(r)
  PROVE  Ledger!Next
  <1> DEFINE p == Target[r]
             n == NumActions[p]
             k == seq[r]
  <1>1. /\ pc[r] = "record" /\ p \in Plans /\ n \in Nat /\ k \in Nat /\ k >= 1 /\ k <= n
        /\ k \in Seqs /\ SerialOK(r)
    BY Numbers, LocalTypes DEF RecordActionResult, SerialInv, LoopOK
  <1>2. status[p] = "running" /\ RowsInRun(p, k)
    BY <1>1 DEF SerialOK, Looping
  <1>3. audit[p][k] = "pending" /\ \A t \in 1..(k - 1) : audit[p][t] = "success"
    <2>1. \A t \in 1..(k - 1) : t \in Seqs /\ t < k /\ t <= n
      BY <1>1, Numbers DEF Seqs
    <2> QED
      BY <1>1, <1>2, <2>1 DEF RowsInRun
  <1>4. /\ UNCHANGED status
        /\ \E outcome \in {"success", "failed"} :
             audit' = [audit EXCEPT ![p][k] = outcome]
    BY <1>3 DEF RecordActionResult, WriteResult, Reliable
  <1>5. k \in Ledger!Rows(p)
    BY <1>1 DEF Ledger!Rows
  <1>6. Ledger!Resolve(p, k)
    BY <1>2, <1>3, <1>4, Zenon DEF Ledger!Resolve
  <1> QED
    BY <1>1, <1>5, <1>6 DEF Ledger!Next

\* After a failure the row of the failed action says so.
LEMMA FailedRow ==
  ASSUME TypeInv, NEW r \in Requests, NEW S,
         RowsFailed(Target[r], completed[r], S)
  PROVE  Ledger!HasFailed(Target[r])
  <1> DEFINE n == NumActions[Target[r]]
             s == completed[r] + 1
  <1>1. s \in 1..n /\ s \in Seqs /\ s <= n
    BY Numbers DEF RowsFailed, Seqs
  <1>2. audit[Target[r]][s] = "failed"
    BY <1>1 DEF RowsFailed
  <1> QED
    BY <1>1, <1>2 DEF Ledger!HasFailed, Ledger!Rows

LEMMA MarkLedger ==
  ASSUME TypeInv, SerialInv, Reliable, NEW r \in Requests, MarkAuditRolledBack(r)
  PROVE  Ledger!Next
  <1> DEFINE p == Target[r]
             S == {s \in Ledger!Rows(p) : s \in rolled[r] /\ audit[p][s] = "success"}
  <1>1. /\ pc[r] = "mark" /\ p \in Plans /\ SerialOK(r)
        /\ completed[r] \in Nat /\ NumActions[p] \in Nat
    BY Numbers DEF MarkAuditRolledBack, SerialInv
  <1>2. /\ status[p] = "running" /\ RowsFailed(p, completed[r], {"success"})
        /\ UndoneFrom(r, 1)
    BY <1>1 DEF SerialOK, Looping
  <1>3. MarkRows(p, rolled[r])
    BY DEF MarkAuditRolledBack, Reliable
  <1>4. \A s \in Seqs : s \in rolled[r] /\ audit[p][s] = "success" <=> s \in S
    <2>1. ASSUME NEW s \in rolled[r], s \in Seqs PROVE s \in Ledger!Rows(p)
      <3>1. s \in Nat /\ s >= 1 /\ s <= completed[r] /\ completed[r] < NumActions[p]
        BY <1>2, <2>1, Numbers DEF UndoneFrom, RowsFailed
      <3> QED
        BY <1>1, <3>1 DEF Ledger!Rows
    <2> QED
      BY <2>1
  <1>5. /\ UNCHANGED status
        /\ audit' = [audit EXCEPT ![p] =
             [s \in Seqs |-> IF s \in S THEN "rolled_back" ELSE audit[p][s]]]
    BY <1>1, <1>3, <1>4 DEF MarkRows, TypeInv, TypeOK
  <1>6. S \in SUBSET {s \in Ledger!Rows(p) : audit[p][s] = "success"}
    OBVIOUS
  <1>7. Ledger!HasFailed(p)
    BY <1>2, FailedRow
  <1> HIDE DEF S
  <1>8. Ledger!Compensate(p)
    BY <1>1, <1>2, <1>5, <1>6, <1>7 DEF Ledger!Compensate, Ledger!Seqs, Seqs, TypeInv, TypeOK
  <1> QED
    BY <1>1, <1>8 DEF Ledger!Next

LEMMA FinishLedger ==
  ASSUME TypeInv, SerialInv, Reliable, NEW r \in Requests, FinishExecution(r)
  PROVE  Ledger!Next
  <1> DEFINE p == Target[r]
             n == NumActions[p]
             c == completed[r]
  <1>1. /\ pc[r] = "finish" /\ p \in Plans /\ SerialOK(r) /\ status[p] = "running"
        /\ n \in Nat /\ c \in Nat
        /\ \A s \in 1..n : s \in Seqs /\ s \in Nat /\ s >= 1 /\ s <= n
    BY Numbers DEF FinishExecution, SerialInv, SerialOK, Looping, Seqs
  <1>2. status' = [status EXCEPT ![p] = FinalStatus(r)] /\ UNCHANGED audit
    BY DEF FinishExecution, WriteFinal, Reliable
  <1>3. Ledger!Finish(p)
    <2>1. CASE ~failed[r]
      <3>1. FinalStatus(r) = "completed" /\ c = n /\ RowsInRun(p, c + 1)
        BY <1>1, <2>1 DEF FinalStatus, SerialOK
      <3>2. \A s \in Ledger!Rows(p) : audit[p][s] = "success"
        BY <1>1, <3>1 DEF RowsInRun, Ledger!Rows
      <3> QED
        BY <1>1, <1>2, <3>1, <3>2 DEF Ledger!Finish, Ledger!Move
    <2>2. CASE failed[r]
      <3>1. RowsFailed(p, c, {"success", "rolled_back"})
        BY <1>1, <2>2 DEF SerialOK
      <3>2. Ledger!HasFailed(p)
        BY <3>1, FailedRow
      <3>3. CASE FinalStatus(r) = "failed"
        BY <1>1, <1>2, <3>2, <3>3 DEF Ledger!Finish, Ledger!Move
      <3>4. CASE FinalStatus(r) = "rolled_back"
        <4>1. c > 0 /\ RowsFailed(p, c, {"rolled_back"})
          BY <1>1, <2>2, <3>4 DEF FinalStatus, SerialOK
        <4>2. \A s \in Ledger!Rows(p) : audit[p][s] # "success"
          BY <1>1, <4>1 DEF RowsFailed, Ledger!Rows
        <4>3. 1 \in Ledger!Rows(p) /\ audit[p][1] = "rolled_back"
          BY <1>1, <4>1 DEF RowsFailed, Ledger!Rows
        <4> QED
          BY <1>1, <1>2, <3>2, <3>4, <4>2, <4>3 DEF Ledger!Finish, Ledger!Move
      <3> QED
        BY <2>2, <3>3, <3>4 DEF FinalStatus
    <2> QED
      BY <2>1, <2>2
  <1> QED
    BY <1>1, <1>3 DEF Ledger!Next

LEMMA StepLedger ==
  ASSUME Reliable
  PROVE  TypeInv /\ SerialInv /\ [Next]_vars => [Ledger!Next]_(Ledger!vars)
  <1> SUFFICES ASSUME TypeInv, SerialInv, [Next]_vars
               PROVE  Ledger!Next \/ UNCHANGED <<status, audit>>
    BY DEF Ledger!vars
  <1>1. CASE UNCHANGED vars
    BY <1>1 DEF vars, store
  <1>2. ASSUME NEW p \in Plans, CreatePlan(p) \/ ApprovePlan(p) \/ LeaveWindow(p)
        PROVE  Ledger!Next \/ UNCHANGED <<status, audit>>
    <2>1. Ledger!Create(p) \/ Ledger!Approve(p) \/ UNCHANGED <<status, audit>>
      BY <1>2 DEF CreatePlan, InsertPlan, ApprovePlan, ApproveRow, LeaveWindow,
                  Ledger!Create, Ledger!Approve, Ledger!Move
    <2> QED
      BY <2>1 DEF Ledger!Next
  <1>3. ASSUME NEW r \in Requests, BeginExecution(r)
        PROVE  Ledger!Next \/ UNCHANGED <<status, audit>>
    <2> DEFINE p == Target[r]
    <2>1. CASE UNCHANGED store
      BY <2>1 DEF store
    <2>2. CASE StartRunning(p)
      <3>1. \A s \in Seqs : s <= NumActions[p] <=> s \in Ledger!Rows(p)
        BY Numbers DEF Ledger!Rows
      <3>2. /\ p \in Plans /\ status[p] = "approved"
            /\ status' = [status EXCEPT ![p] = "running"]
            /\ audit' = [audit EXCEPT ![p] =
                 [s \in Seqs |-> IF s \in Ledger!Rows(p) THEN "pending" ELSE audit[p][s]]]
        BY <2>2, <3>1, Numbers DEF StartRunning, TypeInv, TypeOK
      <3>3. Ledger!Start(p)
        BY <3>2 DEF Ledger!Start, Ledger!Move, Ledger!Seqs, Seqs, TypeInv, TypeOK
      <3> QED
        BY <3>2, <3>3 DEF Ledger!Next
    <2> QED
      BY <1>3, <2>1, <2>2 DEF BeginExecution
  <1>4. ASSUME NEW r \in Requests, Arrive(r) \/ Serve(r) \/ Crash(r)
        PROVE  Ledger!Next \/ UNCHANGED <<status, audit>>
    BY <1>3, <1>4, QuietStore, RecordLedger, MarkLedger, FinishLedger DEF Serve, store
  <1> QED
    BY <1>1, <1>2, <1>4 DEF Next

\* Without overlap and faults, ExecPlan implements ExecLedger: whatever
\* handlers are cut off, actions are resolved in order, compensated only
\* after a failure, and the final status is one the audit rows support.
THEOREM PlanImplementsLedger ==
  ASSUME Reliable
  PROVE  Spec /\ []NoOverlap => LedgerSpec
  <1>1. Init => Ledger!Init
    BY DEF Init, Ledger!Init, Ledger!Seqs, Seqs
  <1> QED
    BY <1>1, StepLedger, SerialInvariant, TypeInvariant, PTL
    DEF Spec, LedgerSpec, Ledger!Spec

\* A server that takes one execution at a time keeps the ledger's promise.
THEOREM SerialServer ==
  ASSUME Reliable, MaxInFlight = 1
  PROVE  Spec => LedgerSpec /\ []StatusMatchesAudit
  <1>1. Reliable /\ MaxInFlight = 1
    OBVIOUS
  <1> QED
    BY <1>1, OneAtATime, PlanImplementsLedger, StatusSupported, PTL

-----------------------------------------------------------------------------
(* The reader of a plan.                                                   *)

\* What the reader has seen of the plan's row bounds where the plan can be.
ViewInv ==
  /\ viewed \in Plans
  /\ shownPlan = Unread => shownTrail = Unread
  /\ shownPlan # Unread =>
       /\ shownPlan.status \in Terminal => PlanRow(viewed) = shownPlan
       /\ shownPlan.status = "running" => status[viewed] \in Past
       /\ shownPlan.status \notin Past => shownPlan.done = 0
  /\ TrailNotBehindStatus

\* A final plan is not written any more, and a started one stays started.
LEMMA StepPast ==
  ASSUME Reliable, TypeInv, NoOverlap, SerialInv, [Next]_vars, NEW p \in Plans
  PROVE  /\ status[p] \in Terminal => UNCHANGED <<status[p], done[p], audit[p]>>
         /\ status[p] \in Past => status'[p] \in Past
  <1>1. CASE UNCHANGED vars
    BY <1>1 DEF vars, store
  <1>2. ASSUME NEW q \in Plans, CreatePlan(q) \/ ApprovePlan(q) \/ LeaveWindow(q)
        PROVE  /\ status[p] \in Past => UNCHANGED status[p]
               /\ UNCHANGED <<done, audit>>
    BY <1>2 DEF CreatePlan, InsertPlan, ApprovePlan, ApproveRow, LeaveWindow,
                Past, Terminal, TypeInv, TypeOK
  <1>3. ASSUME NEW r \in Requests, Arrive(r) \/ Serve(r) \/ Crash(r)
        PROVE  /\ status[p] \in Terminal => UNCHANGED <<status[p], done[p], audit[p]>>
               /\ status[p] \in Past => status'[p] \in Past
    <2>1. CASE p # Target[r]
      BY <1>3, <2>1, OtherPlans
    <2>2. CASE p = Target[r]
      <3>1. CASE UNCHANGED store
        BY <3>1 DEF store
      <3>2. CASE ~UNCHANGED store
        <4>1. BeginExecution(r) \/ RecordActionResult(r) \/ MarkAuditRolledBack(r)
              \/ FinishExecution(r)
          BY <1>3, <3>2, QuietStore DEF Serve
        <4>2. status[p] \in {"approved", "running"}
          BY <2>2, <4>1 DEF SerialInv, SerialOK, Looping, BeginExecution,
                      RecordActionResult, MarkAuditRolledBack, FinishExecution
        <4>3. status[p] = "running" => status'[p] \in Past
          <5>1. StoreEffect(r) /\ Target[r] \in Plans /\ status \in [Plans -> Status]
            BY <1>3, StepEffect, ConstTypes DEF TypeInv, TypeOK
          <5> QED
            BY <2>2, <5>1 DEF StoreEffect, StartRunning, Past
        <4> QED
          BY <4>2, <4>3 DEF Past, Terminal
      <3> QED
        BY <3>1, <3>2
    <2> QED
      BY <2>1, <2>2
  <1>4. Terminal \subseteq Past
    BY DEF Past
  <1> QED
    BY <1>1, <1>2, <1>3, <1>4 DEF Next

LEMMA StepViewInv ==
  ASSUME Reliable
  PROVE  /\ TypeInv /\ NoOverlap /\ SerialInv /\ AuditedInv /\ StatusMatchesAudit /\ ViewInv
         /\ [ViewSpecNext]_<<vars, view>>
         => ViewInv'
  <1> SUFFICES ASSUME TypeInv, NoOverlap, SerialInv, AuditedInv, StatusMatchesAudit, ViewInv,
                      [ViewSpecNext]_<<vars, view>>
               PROVE  ViewInv'
    OBVIOUS
  <1>1. CASE [Next]_vars /\ UNCHANGED view
    <2>1. UNCHANGED <<viewed, shownPlan, shownTrail>> /\ viewed \in Plans
      BY <1>1 DEF view, ViewInv
    <2>2. /\ status[viewed] \in Terminal =>
               UNCHANGED <<status[viewed], done[viewed], audit[viewed]>>
          /\ status[viewed] \in Past => status'[viewed] \in Past
      BY <1>1, <2>1, StepPast
    <2>3. shownPlan # Unread /\ shownPlan.status \in Terminal =>
            PlanRow(viewed)' = shownPlan
      <3> SUFFICES ASSUME shownPlan # Unread, shownPlan.status \in Terminal
                   PROVE  PlanRow(viewed)' = shownPlan
        OBVIOUS
      <3>1. PlanRow(viewed) = shownPlan
        BY DEF ViewInv
      <3>2. status[viewed] \in Terminal
        BY <3>1 DEF PlanRow
      <3> QED
        BY <2>1, <2>2, <3>1, <3>2 DEF PlanRow
    <2>4. TrailNotBehindStatus'
      BY <2>1 DEF ViewInv, TrailNotBehindStatus
    <2> QED
      BY <2>1, <2>2, <2>3, <2>4 DEF ViewInv
  <1>2. CASE ViewPlan
    <2>1. /\ shownPlan = Unread /\ shownTrail = Unread /\ shownPlan' = PlanRow(viewed)
          /\ UNCHANGED <<vars, viewed, shownTrail>> /\ viewed \in Plans
      BY <1>2 DEF ViewPlan, ViewInv
    <2>2. shownTrail' = Unread /\ UNCHANGED <<status, done>>
      BY <2>1 DEF vars, store
    <2>3. TrailNotBehindStatus'
      BY <2>2 DEF TrailNotBehindStatus
    <2>4. /\ shownPlan'.status = status[viewed] /\ shownPlan'.done = done[viewed]
          /\ PlanRow(viewed)' = shownPlan'
      BY <2>1, <2>2 DEF PlanRow
    <2>5. status[viewed] \notin Past => done[viewed] = 0
      BY <2>1 DEF SerialInv, FinalOK, Past
    <2> QED
      BY <2>1, <2>2, <2>3, <2>4, <2>5 DEF ViewInv, Past
  <1>3. CASE ViewTrail
    <2>1. /\ shownPlan # Unread /\ shownTrail' = audit[viewed] /\ viewed \in Plans
          /\ UNCHANGED <<vars, viewed, shownPlan>>
      BY <1>3 DEF ViewTrail, ViewInv
    <2>2. UNCHANGED <<status, done, audit>>
      BY <2>1 DEF vars, store
    <2> DEFINE n     == NumActions[viewed]
               In(S) == {s \in 1..n : audit[viewed][s] \in S}
    <2>3. \A s \in 1..n : s \in Seqs /\ s <= n
      BY <2>1, RequestAssumption, ConfigAssumption DEF Seqs
    <2>4. status[viewed] \in Past => In({"none"}) = {}
      BY <2>1, <2>3 DEF AuditedInv
    <2>5. shownPlan.status \in Terminal =>
            shownPlan.status = status[viewed] /\ shownPlan.done = done[viewed]
      BY <2>1 DEF ViewInv, PlanRow
    <2>6. shownPlan.status = "running" => In({"none"}) = {}
      BY <2>1, <2>4 DEF ViewInv
    <2>7. shownPlan.status = "completed" =>
            In({"success"}) = 1..n /\ shownPlan.done = n
      BY <2>1, <2>5 DEF StatusMatchesAudit, Terminal
    <2>8. shownPlan.status = "failed" =>
            In({"failed"}) = {shownPlan.done + 1} /\ In({"none"}) = {}
      BY <2>1, <2>4, <2>5 DEF StatusMatchesAudit, Terminal, Past
    <2>9. shownPlan.status = "rolled_back" =>
            In({"rolled_back"}) = 1..shownPlan.done /\ In({"failed"}) = {shownPlan.done + 1}
      BY <2>1, <2>5 DEF StatusMatchesAudit, Terminal
    <2>10. shownPlan.status \notin Past => shownPlan.done = 0
      BY <2>1 DEF ViewInv
    <2>11. TrailNotBehindStatus'
      BY <2>1, <2>6, <2>7, <2>8, <2>9, <2>10 DEF TrailNotBehindStatus, Past, Terminal
    <2> QED
      BY <2>1, <2>2, <2>11 DEF ViewInv, PlanRow
  <1>4. CASE NextView
    BY <1>4 DEF NextView, ViewInv, TrailNotBehindStatus
  <1> QED
    BY <1>1, <1>2, <1>3, <1>4 DEF ViewSpecNext, view, vars, store, locals, history

\* The reader takes the plan's row first and its audit rows after it, in no
\* transaction; still what it shows of a plan is never ahead of its trail.
THEOREM ReadersSeeTheTrail ==
  ASSUME Reliable
  PROVE  ViewSpec /\ []NoOverlap => []TrailNotBehindStatus
  <1>1. ViewSpec => Spec
    <2>1. ViewInit => Init
      BY DEF ViewInit
    <2>2. [ViewSpecNext]_<<vars, view>> => [Next]_vars
      BY DEF ViewSpecNext, ViewPlan, ViewTrail, NextView
    <2> QED
      BY <2>1, <2>2, PTL DEF ViewSpec, Spec
  <1>2. ViewInit => ViewInv
    BY DEF ViewInit, ViewInv, TrailNotBehindStatus
  <1>3. ViewInv => TrailNotBehindStatus
    BY DEF ViewInv
  <1>4. Spec => []AuditedInv
    BY AuditedInvariant DEF Reliable
  <1>5. Reliable
    OBVIOUS
  <1>6. Spec /\ []NoOverlap => []SerialInv /\ []StatusMatchesAudit
    BY <1>5, SerialInvariant, StatusSupported, PTL
  <1>7. /\ TypeInv /\ NoOverlap /\ SerialInv /\ AuditedInv /\ StatusMatchesAudit /\ ViewInv
        /\ [ViewSpecNext]_<<vars, view>>
        => ViewInv'
    BY <1>5, StepViewInv
  <1> QED
    BY <1>1, <1>2, <1>3, <1>4, <1>6, <1>7, TypeInvariant, PTL DEF ViewSpec
=============================================================================
