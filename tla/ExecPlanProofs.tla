--------------------------- MODULE ExecPlanProofs ---------------------------
(* Proofs about ExecPlan for any set of plans and requests, any number of  *)
(* actions, any limits, and with or without faults and crashes.            *)
EXTENDS ExecPlan, FiniteSetTheorems, TLAPS

\* Where a request is in its loop bounds its counters and its cloud calls.
LoopOK(r) ==
  /\ pc[r] \in {"idle", "load", "count", "begin"} =>
       /\ seq[r] = 1
       /\ completed[r] = 0
       /\ \A s \in Seqs : calls[r][s] = 0
  /\ pc[r] \in {"capture", "act", "record"} =>
       seq[r] <= NumActions[Target[r]] /\ completed[r] + 1 = seq[r]
  /\ pc[r] = "capture" => \A s \in Seqs : s >= seq[r] => calls[r][s] = 0
  /\ pc[r] = "act" => \A s \in Seqs : s >= seq[r] => calls[r][s] <= 1
  /\ pc[r] \in {"act", "record"} => \A s \in Seqs : s > seq[r] => calls[r][s] = 0
  /\ pc[r] = "rollback" => seq[r] <= NumActions[Target[r]]

LoopInv == \A r \in Requests : LoopOK(r)

TypeInv == TypeOK /\ LoopInv

LEMMA ConstTypes ==
  ASSUME NEW r \in Requests
  PROVE  Target[r] \in Plans /\ NumActions[Target[r]] \in 0..MaxActions
                             /\ MaxActions \in Nat
  BY RequestAssumption, ConfigAssumption

\* Only an approved plan can move to running.
LEMMA RunningFromApproved ==
  ASSUME NEW s \in Status, canExecTransition(s, "running")
  PROVE  s = "approved"
  BY DEF Status, Terminal, canExecTransition, validExecTransitions

\* A step of one request leaves the locals of the others alone.
LEMMA Frame ==
  ASSUME TypeOK, NEW r \in Requests, NEW q \in Requests, q # r,
         Arrive(r) \/ Serve(r) \/ Crash(r)
  PROVE  UNCHANGED <<pc[q], seq[q], ok[q], failed[q], completed[q], rolled[q],
                     rollbackFailed[q], resp[q], begun[q], calls[q]>>
  <1> USE DEF TypeOK, store, locals, history, Goto, Reply, Return
  <1>1. CASE Arrive(r) \/ Crash(r)
    BY <1>1 DEF Arrive, Crash
  <1>2. CASE GetPlan(r)
    BY <1>2 DEF GetPlan
  <1>3. CASE CheckRateLimit(r)
    BY <1>3 DEF CheckRateLimit
  <1>4. CASE BeginExecution(r)
    BY <1>4 DEF BeginExecution
  <1>5. CASE CapturePreState(r)
    BY <1>5 DEF CapturePreState
  <1>6. CASE Execute(r)
    BY <1>6 DEF Execute
  <1>7. CASE RecordActionResult(r)
    BY <1>7 DEF RecordActionResult, WriteResult, store, NextAction, StopAtFailure
  <1>8. CASE Rollback(r)
    BY <1>8 DEF Rollback
  <1>9. CASE MarkAuditRolledBack(r)
    BY <1>9 DEF MarkAuditRolledBack, MarkRows, store
  <1>10. CASE FinishExecution(r)
    BY <1>10 DEF FinishExecution, WriteFinal, store
  <1> QED
    BY <1>1, <1>2, <1>3, <1>4, <1>5, <1>6, <1>7, <1>8, <1>9, <1>10 DEF Serve

\* So its loop invariant is the only one to look at.
LEMMA LoopFrame ==
  ASSUME TypeInv, NEW r \in Requests, Arrive(r) \/ Serve(r) \/ Crash(r),
         LoopOK(r)'
  PROVE  LoopInv'
  <1> SUFFICES ASSUME NEW q \in Requests, q # r
               PROVE  LoopOK(q)'
    BY DEF LoopInv
  <1>1. UNCHANGED <<pc[q], seq[q], completed[q], calls[q]>>
    BY Frame DEF TypeInv
  <1>2. LoopOK(q)
    BY DEF TypeInv, LoopInv
  <1> QED
    BY <1>1, <1>2 DEF LoopOK

LEMMA InitTypeInv == Init => TypeInv
  <1> SUFFICES ASSUME Init PROVE TypeInv
    OBVIOUS
  <1>1. TypeOK
    BY ConfigAssumption DEF Init, TypeOK, Seqs, Status, AuditStatus, Codes
  <1>2. LoopInv
    BY DEF Init, LoopInv, LoopOK
  <1> QED
    BY <1>1, <1>2 DEF TypeInv

-----------------------------------------------------------------------------
LEMMA StoreTypeInv ==
  ASSUME TypeInv, NEW p \in Plans,
         CreatePlan(p) \/ ApprovePlan(p) \/ LeaveWindow(p)
  PROVE  TypeInv'
  <1> USE DEF TypeInv, TypeOK, store, locals, history, LoopInv, LoopOK
  <1>1. CASE CreatePlan(p)
    BY <1>1 DEF CreatePlan, InsertPlan, Status
  <1>2. CASE ApprovePlan(p)
    BY <1>2 DEF ApprovePlan, ApproveRow, Status
  <1>3. CASE LeaveWindow(p)
    BY <1>3 DEF LeaveWindow
  <1> QED
    BY <1>1, <1>2, <1>3

\* The steps before the execution starts, and a crash, move pc and resp only.
LEMMA GateTypeInv ==
  ASSUME TypeInv, NEW r \in Requests,
         Arrive(r) \/ GetPlan(r) \/ CheckRateLimit(r) \/ Crash(r)
  PROVE  TypeInv'
  <1>1. /\ UNCHANGED <<store, locals, history>>
        /\ \/ pc[r] = "idle" /\ pc' = [pc EXCEPT ![r] = "load"]
           \/ pc[r] = "load" /\ pc' = [pc EXCEPT ![r] = "count"]
           \/ pc[r] = "count" /\ pc' = [pc EXCEPT ![r] = "begin"]
           \/ pc' = [pc EXCEPT ![r] = "done"]
        /\ UNCHANGED resp \/ \E code \in Codes : Reply(r, code)
    BY DEF Arrive, GetPlan, CheckRateLimit, Crash, Goto, Return, Codes
  <1>2. pc' \in [Requests -> Steps \cup {"idle", "done"}]
    BY <1>1 DEF TypeInv, TypeOK, Steps
  <1>3. resp' \in [Requests -> Codes]
    BY <1>1 DEF TypeInv, TypeOK, Reply
  <1>4. TypeOK'
    BY <1>1, <1>2, <1>3 DEF TypeInv, TypeOK, store, locals, history
  <1>5. LoopOK(r)'
    BY <1>1 DEF TypeInv, TypeOK, LoopInv, LoopOK, locals, history
  <1> QED
    BY <1>4, <1>5, LoopFrame DEF TypeInv, Serve

\* What is known of a request before its step.
LEMMA LocalTypes ==
  ASSUME TypeInv, NEW r \in Requests
  PROVE  /\ LoopOK(r)
         /\ seq[r] \in 1..(MaxActions + 1)
         /\ completed[r] \in 0..MaxActions
         /\ pc[r] \in {"capture", "act", "record"} => seq[r] \in Seqs
  <1>1. LoopOK(r) /\ seq[r] \in 1..(MaxActions + 1) /\ completed[r] \in 0..MaxActions
    BY DEF TypeInv, TypeOK, LoopInv
  <1>2. NumActions[Target[r]] \in 0..MaxActions /\ MaxActions \in Nat
    BY ConstTypes
  <1> QED
    BY <1>1, <1>2 DEF LoopOK, Seqs

\* One call of the executor.
LEMMA Call ==
  ASSUME TypeInv, NEW r \in Requests, seq[r] \in Seqs,
         calls' = [calls EXCEPT ![r][seq[r]] = @ + 1]
  PROVE  /\ \A s \in Seqs : calls'[r][s] = IF s = seq[r] THEN calls[r][s] + 1
                                                       ELSE calls[r][s]
         /\ calls[r][seq[r]] <= 1 => calls' \in [Requests -> [Seqs -> 0..2]]
  <1>1. calls \in [Requests -> [Seqs -> 0..2]] /\ calls[r] \in [Seqs -> 0..2]
    BY DEF TypeInv, TypeOK
  <1>2. calls'[r] = [calls[r] EXCEPT ![seq[r]] = calls[r][seq[r]] + 1]
    BY <1>1
  <1>3. \A s \in Seqs : calls'[r][s] = IF s = seq[r] THEN calls[r][s] + 1
                                                    ELSE calls[r][s]
    BY <1>1, <1>2
  <1>4. ASSUME calls[r][seq[r]] <= 1
        PROVE  calls' \in [Requests -> [Seqs -> 0..2]]
    <2>1. calls[r][seq[r]] + 1 \in 0..2
      BY <1>1, <1>4
    <2>2. calls'[r] \in [Seqs -> 0..2]
      BY <1>1, <1>2, <2>1
    <2> QED
      BY <1>1, <2>2
  <1> QED
    BY <1>3, <1>4

LEMMA BeginTypeInv ==
  ASSUME TypeInv, NEW r \in Requests, BeginExecution(r)
  PROVE  TypeInv'
  <1>1. /\ pc[r] = "begin"
        /\ pc' = [pc EXCEPT ![r] = LoopStep(1, NumActions[Target[r]])]
        /\ UNCHANGED <<locals, calls>>
        /\ UNCHANGED resp \/ \E code \in Codes : Reply(r, code)
        /\ store' = store \/ StartRunning(Target[r])
    BY DEF BeginExecution, Goto, Codes
  <1>2. begun' \in [Requests -> BOOLEAN]
    BY DEF BeginExecution, TypeInv, TypeOK
  <1>3. /\ status' \in [Plans -> Status]
        /\ approved' \in [Plans -> BOOLEAN]
        /\ started' \in [Plans -> {"null", "recent", "old"}]
        /\ done' \in [Plans -> 0..MaxActions]
        /\ audit' \in [Plans -> [Seqs -> AuditStatus]]
    <2>1. CASE store' = store
      BY <2>1 DEF TypeInv, TypeOK, store
    <2>2. CASE StartRunning(Target[r])
      <3> DEFINE p == Target[r]
      <3>1. p \in Plans /\ audit[p] \in [Seqs -> AuditStatus]
        BY ConstTypes DEF TypeInv, TypeOK
      <3>2. [s \in Seqs |-> IF s <= NumActions[p] THEN "pending" ELSE audit[p][s]]
              \in [Seqs -> AuditStatus]
        BY <3>1 DEF AuditStatus
      <3>3. audit' = [audit EXCEPT ![p] =
                        [s \in Seqs |-> IF s <= NumActions[p] THEN "pending" ELSE audit[p][s]]]
        BY <2>2 DEF StartRunning
      <3>4. audit' \in [Plans -> [Seqs -> AuditStatus]]
        <4> DEFINE rows == [s \in Seqs |-> IF s <= NumActions[p] THEN "pending"
                                                              ELSE audit[p][s]]
        <4>1. rows \in [Seqs -> AuditStatus] /\ audit' = [audit EXCEPT ![p] = rows]
          BY <3>2, <3>3
        <4>2. audit \in [Plans -> [Seqs -> AuditStatus]]
          BY DEF TypeInv, TypeOK
        <4> HIDE DEF rows
        <4> QED
          BY <4>1, <4>2
      <3>5. /\ status' = [status EXCEPT ![p] = "running"]
            /\ started' = [started EXCEPT ![p] = "recent"]
            /\ UNCHANGED <<approved, done>>
        BY <2>2 DEF StartRunning
      <3>6. /\ status \in [Plans -> Status] /\ approved \in [Plans -> BOOLEAN]
            /\ started \in [Plans -> {"null", "recent", "old"}]
            /\ done \in [Plans -> 0..MaxActions]
        BY DEF TypeInv, TypeOK
      <3>7. status' \in [Plans -> Status]
        BY <3>5, <3>6 DEF Status
      <3> QED
        BY <3>4, <3>5, <3>6, <3>7
    <2> QED
      BY <1>1, <2>1, <2>2
  <1>4. pc' \in [Requests -> Steps \cup {"idle", "done"}] /\ resp' \in [Requests -> Codes]
    <2>1. pc \in [Requests -> Steps \cup {"idle", "done"}] /\ resp \in [Requests -> Codes]
      BY DEF TypeInv, TypeOK
    <2>2. LoopStep(1, NumActions[Target[r]]) \in Steps
      BY DEF LoopStep, Steps
    <2>3. resp' \in [Requests -> Codes]
      BY <1>1, <2>1 DEF Reply
    <2> QED
      BY <1>1, <2>1, <2>2, <2>3
  <1>5. TypeOK'
    BY <1>1, <1>2, <1>3, <1>4 DEF TypeInv, TypeOK, locals
  <1>6. LoopOK(r)'
    <2>1. UNCHANGED <<seq[r], completed[r], calls[r]>> /\ LoopOK(r)
      BY <1>1, LocalTypes DEF locals
    <2>2. pc'[r] = LoopStep(1, NumActions[Target[r]])
      BY <1>1 DEF TypeInv, TypeOK
    <2> QED
      BY <1>1, <2>1, <2>2, ConstTypes DEF LoopOK, LoopStep
  <1> QED
    BY <1>5, <1>6, LoopFrame DEF TypeInv, Serve

LEMMA CaptureTypeInv ==
  ASSUME TypeInv, NEW r \in Requests, CapturePreState(r)
  PROVE  TypeInv'
  <1>1. /\ pc[r] = "capture" /\ pc' = [pc EXCEPT ![r] = "act"]
        /\ calls' = [calls EXCEPT ![r][seq[r]] = @ + 1]
        /\ UNCHANGED <<store, locals, resp, begun>>
    BY DEF CapturePreState, Goto
  <1>2. LoopOK(r) /\ seq[r] \in Seqs /\ calls[r][seq[r]] = 0
    BY <1>1, LocalTypes DEF LoopOK
  <1>6. calls[r][seq[r]] <= 1 /\ seq[r] \in Nat
    BY <1>2, ConstTypes DEF Seqs
  <1>3. /\ calls' \in [Requests -> [Seqs -> 0..2]]
        /\ \A s \in Seqs : calls'[r][s] = IF s = seq[r] THEN calls[r][s] + 1
                                                      ELSE calls[r][s]
    BY <1>1, <1>2, <1>6, Call
  <1>4. TypeOK'
    BY <1>1, <1>3 DEF TypeInv, TypeOK, store, locals, Steps
  <1>5. LoopOK(r)'
    <2>1. UNCHANGED <<seq[r], completed[r]>> /\ pc'[r] = "act"
      BY <1>1 DEF TypeInv, TypeOK, locals
    <2> QED
      BY <1>1, <1>2, <1>6, <1>3, <2>1 DEF LoopOK, Seqs
  <1> QED
    BY <1>4, <1>5, LoopFrame DEF TypeInv, Serve

LEMMA ExecuteTypeInv ==
  ASSUME TypeInv, NEW r \in Requests, Execute(r)
  PROVE  TypeInv'
  <1>1. /\ pc[r] = "act" /\ pc' = [pc EXCEPT ![r] = "record"]
        /\ calls' = [calls EXCEPT ![r][seq[r]] = @ + 1] \/ UNCHANGED calls
        /\ UNCHANGED <<store, seq, failed, completed, rolled, rollbackFailed,
                       resp, begun>>
    BY DEF Execute, Goto
  <1>2. ok' \in [Requests -> BOOLEAN]
    BY DEF Execute, TypeInv, TypeOK
  <1>3. LoopOK(r) /\ seq[r] \in Seqs /\ seq[r] \in Nat /\ calls[r][seq[r]] <= 1
    BY <1>1, LocalTypes DEF LoopOK
  <1>4. /\ calls' \in [Requests -> [Seqs -> 0..2]]
        /\ \A s \in Seqs : s > seq[r] => calls'[r][s] = calls[r][s]
    BY <1>1, <1>3, Call DEF TypeInv, TypeOK
  <1>5. TypeOK'
    BY <1>1, <1>2, <1>4 DEF TypeInv, TypeOK, store, Steps
  <1>6. LoopOK(r)'
    <2>1. UNCHANGED <<seq[r], completed[r]>> /\ pc'[r] = "record"
      BY <1>1 DEF TypeInv, TypeOK
    <2> QED
      BY <1>1, <1>3, <1>4, <2>1 DEF LoopOK, Seqs
  <1> QED
    BY <1>5, <1>6, LoopFrame DEF TypeInv, Serve

LEMMA RecordTypeInv ==
  ASSUME TypeInv, NEW r \in Requests, RecordActionResult(r)
  PROVE  TypeInv'
  <1> DEFINE p == Target[r]
  <1>1. /\ pc[r] = "record"
        /\ UNCHANGED <<status, approved, started, done, ok, rolled,
                       rollbackFailed, resp, history>>
        /\ \/ audit' = audit
           \/ audit' = [audit EXCEPT ![p][seq[r]] =
                          IF ok[r] THEN "success" ELSE "failed"]
        /\ \/ NextAction(r)
           \/ StopAtFailure(r)
           \/ Goto(r, "finish") /\ UNCHANGED <<seq, failed, completed>>
    BY DEF RecordActionResult, WriteResult, store
  <1>2. LoopOK(r) /\ seq[r] \in Seqs /\ completed[r] \in 0..MaxActions
    BY <1>1, LocalTypes
  <1>3. p \in Plans /\ NumActions[p] \in 0..MaxActions /\ MaxActions \in Nat
    BY ConstTypes
  <1>4. completed[r] + 1 = seq[r] /\ seq[r] <= NumActions[p]
    BY <1>1, <1>2 DEF LoopOK
  <1>5. audit' \in [Plans -> [Seqs -> AuditStatus]]
    <2>1. audit \in [Plans -> [Seqs -> AuditStatus]] /\ audit[p] \in [Seqs -> AuditStatus]
      BY <1>3 DEF TypeInv, TypeOK
    <2>2. \A st \in {"success", "failed"} :
            [audit EXCEPT ![p][seq[r]] = st] \in [Plans -> [Seqs -> AuditStatus]]
      BY <1>2, <2>1 DEF AuditStatus
    <2> QED
      BY <1>1, <2>1, <2>2
  <1>6. /\ pc' \in [Requests -> Steps \cup {"idle", "done"}]
        /\ seq' \in [Requests -> 1..(MaxActions + 1)]
        /\ failed' \in [Requests -> BOOLEAN]
        /\ completed' \in [Requests -> 0..MaxActions]
        /\ LoopOK(r)'
    <2>1. /\ pc \in [Requests -> Steps \cup {"idle", "done"}]
          /\ seq \in [Requests -> 1..(MaxActions + 1)] /\ seq[r] \in Nat
          /\ failed \in [Requests -> BOOLEAN]
          /\ completed \in [Requests -> 0..MaxActions]
          /\ UNCHANGED calls
          /\ \A s \in Seqs : s \in Nat /\ (s > seq[r] => calls[r][s] = 0)
      <3>1. /\ seq[r] \in Nat /\ \A s \in Seqs : s \in Nat
        BY <1>2, <1>3 DEF Seqs
      <3>2. \A s \in Seqs : s > seq[r] => calls[r][s] = 0
        BY <1>1, <1>2 DEF LoopOK
      <3> QED
        BY <1>1, <3>1, <3>2 DEF TypeInv, TypeOK, history
    <2>2. CASE NextAction(r)
      <3> DEFINE step == LoopStep(seq[r] + 1, NumActions[p])
      <3>1. /\ completed' = [completed EXCEPT ![r] = @ + 1]
            /\ seq' = [seq EXCEPT ![r] = @ + 1]
            /\ UNCHANGED failed
            /\ pc' = [pc EXCEPT ![r] = step]
        BY <2>2 DEF NextAction, Goto
      <3>2. /\ step \in {"finish", "capture", "act"}
            /\ step # "finish" => seq[r] + 1 <= NumActions[p]
        BY <1>3, <2>1 DEF LoopStep
      <3> HIDE DEF step
      <3>3. completed[r] + 1 \in 0..MaxActions /\ seq[r] + 1 \in 1..(MaxActions + 1)
        BY <1>2, <1>3, <1>4, <2>1
      <3>4. pc' \in [Requests -> Steps \cup {"idle", "done"}]
        BY <2>1, <3>1, <3>2 DEF Steps
      <3>5. seq' \in [Requests -> 1..(MaxActions + 1)] /\ completed' \in [Requests -> 0..MaxActions]
        BY <2>1, <3>1, <3>3
      <3>6. /\ seq'[r] = seq[r] + 1 /\ completed'[r] = completed[r] + 1
            /\ pc'[r] = step
        BY <2>1, <3>1
      <3>7. LoopOK(r)'
        <4>1. \A s \in Seqs : s >= seq[r] + 1 => calls'[r][s] = 0
          BY <2>1
        <4> QED
          BY <1>4, <2>1, <3>2, <3>6, <4>1 DEF LoopOK
      <3> QED
        BY <2>1, <3>1, <3>4, <3>5, <3>7
    <2>3. CASE StopAtFailure(r)
      <3>1. /\ failed' = [failed EXCEPT ![r] = TRUE]
            /\ UNCHANGED completed
            /\ \/ /\ completed[r] > 0 /\ seq' = [seq EXCEPT ![r] = completed[r]]
                  /\ pc' = [pc EXCEPT ![r] = "rollback"]
               \/ UNCHANGED seq /\ pc' = [pc EXCEPT ![r] = "finish"]
        BY <2>3 DEF StopAtFailure, Goto
      <3>2. completed[r] > 0 => completed[r] \in 1..MaxActions /\ completed[r] \in 1..(MaxActions + 1)
        BY <1>2, <1>3
      <3>3. /\ seq' \in [Requests -> 1..(MaxActions + 1)]
            /\ pc' \in [Requests -> Steps \cup {"idle", "done"}]
        BY <2>1, <3>1, <3>2 DEF Steps
      <3>4. pc'[r] = "finish" \/ (pc'[r] = "rollback" /\ seq'[r] = completed[r])
        BY <2>1, <3>1, <3>2
      <3>5. completed[r] <= NumActions[p]
        BY <1>2, <1>3, <1>4, <2>1
      <3>6. LoopOK(r)'
        BY <3>4, <3>5 DEF LoopOK
      <3> QED
        BY <2>1, <3>1, <3>3, <3>6
    <2>4. CASE Goto(r, "finish") /\ UNCHANGED <<seq, failed, completed>>
      BY <2>1, <2>4 DEF Goto, Steps, LoopOK
    <2> QED
      BY <1>1, <2>2, <2>3, <2>4
  <1>7. TypeOK'
    BY <1>1, <1>5, <1>6 DEF TypeInv, TypeOK, history
  <1> QED
    BY <1>6, <1>7, LoopFrame DEF TypeInv, Serve

LEMMA RollbackTypeInv ==
  ASSUME TypeInv, NEW r \in Requests, Rollback(r)
  PROVE  TypeInv'
  <1>1. /\ pc[r] = "rollback"
        /\ UNCHANGED <<store, ok, failed, completed, resp, history>>
        /\ \/ rolled' = [rolled EXCEPT ![r] = @ \cup {seq[r]}] /\ UNCHANGED rollbackFailed
           \/ rollbackFailed' = [rollbackFailed EXCEPT ![r] = TRUE] /\ UNCHANGED rolled
        /\ \/ seq[r] > 1 /\ seq' = [seq EXCEPT ![r] = @ - 1] /\ UNCHANGED pc
           \/ /\ \E step \in {"mark", "finish"} : pc' = [pc EXCEPT ![r] = step]
              /\ UNCHANGED seq
    BY DEF Rollback, Goto
  <1>2. /\ LoopOK(r) /\ seq[r] \in 1..(MaxActions + 1) /\ seq[r] <= MaxActions
        /\ MaxActions \in Nat
    BY <1>1, LocalTypes, ConstTypes DEF LoopOK
  <1>3. seq[r] \in Seqs
    BY <1>2 DEF Seqs
  <1>4. rolled' \in [Requests -> SUBSET Seqs] /\ rollbackFailed' \in [Requests -> BOOLEAN]
    <2>1. rolled' \in [Requests -> SUBSET Seqs]
      <3>1. rolled \in [Requests -> SUBSET Seqs] /\ rolled[r] \cup {seq[r]} \in SUBSET Seqs
        BY <1>3 DEF TypeInv, TypeOK
      <3> QED
        BY <1>1, <3>1
    <2>2. rollbackFailed' \in [Requests -> BOOLEAN]
      BY <1>1 DEF TypeInv, TypeOK
    <2> QED
      BY <2>1, <2>2
  <1>5. /\ pc' \in [Requests -> Steps \cup {"idle", "done"}]
        /\ seq' \in [Requests -> 1..(MaxActions + 1)]
    <2>1. pc \in [Requests -> Steps \cup {"idle", "done"}]
          /\ seq \in [Requests -> 1..(MaxActions + 1)]
      BY DEF TypeInv, TypeOK
    <2>2. pc' \in [Requests -> Steps \cup {"idle", "done"}]
      BY <1>1, <2>1 DEF Steps
    <2>3. seq[r] > 1 => seq[r] - 1 \in 1..(MaxActions + 1)
      BY <1>2
    <2>4. seq' \in [Requests -> 1..(MaxActions + 1)]
      BY <1>1, <2>1, <2>3
    <2> QED
      BY <2>2, <2>4
  <1>6. LoopOK(r)'
    <2>1. pc'[r] \in {"mark", "finish"} \/ (pc'[r] = "rollback" /\ seq'[r] = seq[r] - 1)
      BY <1>1 DEF TypeInv, TypeOK
    <2>2. seq[r] - 1 <= NumActions[Target[r]]
      BY <1>1, <1>2, ConstTypes DEF LoopOK
    <2> QED
      BY <2>1, <2>2 DEF LoopOK
  <1>7. TypeOK'
    BY <1>1, <1>4, <1>5 DEF TypeInv, TypeOK, store, history
  <1> QED
    BY <1>6, <1>7, LoopFrame DEF TypeInv, Serve

LEMMA MarkTypeInv ==
  ASSUME TypeInv, NEW r \in Requests, MarkAuditRolledBack(r)
  PROVE  TypeInv'
  <1> DEFINE p == Target[r]
  <1>1. /\ pc' = [pc EXCEPT ![r] = "finish"]
        /\ UNCHANGED <<status, approved, started, done, seq, ok, failed,
                       completed, rolled, resp, history>>
        /\ rollbackFailed' = [rollbackFailed EXCEPT ![r] = TRUE] \/ UNCHANGED rollbackFailed
    BY DEF MarkAuditRolledBack, MarkRows, store, Goto
  <1>2. audit' \in [Plans -> [Seqs -> AuditStatus]]
    <2>1. p \in Plans /\ audit[p] \in [Seqs -> AuditStatus]
      BY ConstTypes DEF TypeInv, TypeOK
    <2>2. [s \in Seqs |-> IF s \in rolled[r] /\ audit[p][s] = "success"
                          THEN "rolled_back" ELSE audit[p][s]]
            \in [Seqs -> AuditStatus]
      BY <2>1 DEF AuditStatus
    <2> QED
      BY <2>1, <2>2 DEF MarkAuditRolledBack, MarkRows, store, TypeInv, TypeOK
  <1>3. TypeOK'
    BY <1>1, <1>2 DEF TypeInv, TypeOK, history, Steps
  <1>4. LoopOK(r)'
    BY <1>1 DEF TypeInv, TypeOK, LoopOK
  <1> QED
    BY <1>3, <1>4, LoopFrame DEF TypeInv, Serve

LEMMA FinishTypeInv ==
  ASSUME TypeInv, NEW r \in Requests, FinishExecution(r)
  PROVE  TypeInv'
  <1>1. /\ pc' = [pc EXCEPT ![r] = "done"]
        /\ UNCHANGED <<approved, started, audit, locals, history>>
        /\ \E code \in Codes : Reply(r, code)
        /\ \/ UNCHANGED <<status, done>>
           \/ /\ status' = [status EXCEPT ![Target[r]] = FinalStatus(r)]
              /\ done' = [done EXCEPT ![Target[r]] = completed[r]]
    BY DEF FinishExecution, WriteFinal, store, Goto, Return, Codes
  <1>2. FinalStatus(r) \in Status /\ completed[r] \in 0..MaxActions
    BY LocalTypes DEF FinalStatus, Status, Terminal
  <1>3. /\ status' \in [Plans -> Status]
        /\ done' \in [Plans -> 0..MaxActions]
        /\ resp' \in [Requests -> Codes]
    <2>1. status' \in [Plans -> Status]
      BY <1>1, <1>2 DEF TypeInv, TypeOK
    <2>2. done' \in [Plans -> 0..MaxActions]
      BY <1>1, <1>2 DEF TypeInv, TypeOK
    <2>3. resp' \in [Requests -> Codes]
      BY <1>1 DEF TypeInv, TypeOK, Reply
    <2> QED
      BY <2>1, <2>2, <2>3
  <1>4. TypeOK'
    BY <1>1, <1>3 DEF TypeInv, TypeOK, locals, history, Steps
  <1>5. LoopOK(r)'
    BY <1>1 DEF TypeInv, TypeOK, LoopOK
  <1> QED
    BY <1>4, <1>5, LoopFrame DEF TypeInv, Serve

LEMMA StepTypeInv == TypeInv /\ [Next]_vars => TypeInv'
  <1> SUFFICES ASSUME TypeInv, [Next]_vars PROVE TypeInv'
    OBVIOUS
  <1>1. CASE UNCHANGED vars
    BY <1>1 DEF vars, store, locals, history, TypeInv, TypeOK, LoopInv, LoopOK
  <1>2. ASSUME NEW p \in Plans, CreatePlan(p) \/ ApprovePlan(p) \/ LeaveWindow(p)
        PROVE  TypeInv'
    BY <1>2, StoreTypeInv
  <1>3. ASSUME NEW r \in Requests, Arrive(r) \/ Serve(r) \/ Crash(r)
        PROVE  TypeInv'
    BY <1>3, GateTypeInv, BeginTypeInv, CaptureTypeInv, ExecuteTypeInv,
       RecordTypeInv, RollbackTypeInv, MarkTypeInv, FinishTypeInv DEF Serve
  <1> QED
    BY <1>1, <1>2, <1>3 DEF Next

LEMMA TypeInvariant == Spec => []TypeInv
  BY InitTypeInv, StepTypeInv, PTL DEF Spec

\* Every variable keeps its type; the executor is called at most twice per
\* action and request, and no counter passes the number of planned actions.
THEOREM TypeCorrect == Spec => []TypeOK
  BY TypeInvariant, PTL DEF TypeInv

-----------------------------------------------------------------------------
(* Approval, start and finish of a plan.                                   *)

\* Past the status check a plan has been approved; nothing is recorded about
\* a plan before its start, and a plan that was started never looks startable.
ApprovalInv ==
  /\ \A p \in Plans : status[p] \notin {"absent", "planned"} => approved[p]
  /\ \A p \in Plans : status[p] \in {"absent", "planned", "approved"} =>
                      \A s \in Seqs : audit[p][s] = "none"
  /\ \A r \in Requests :
       /\ pc[r] \in Steps \ {"load"} => approved[Target[r]]
       /\ begun[r] => status[Target[r]] \in {"running"} \cup Terminal
  /\ NoCallBeforeApproval
  /\ SingleBegin

\* A row that does not exist is not created, a resolved row stays resolved.
RowsKept ==
  \A p \in Plans, s \in Seqs :
    /\ audit[p][s] = "none" => audit'[p][s] = "none"
    /\ audit[p][s] \notin {"none", "pending"} => audit'[p][s] \notin {"none", "pending"}

\* The effect of a request's step on the store, in four kinds.
StoreEffect(r) ==
  \/ UNCHANGED <<status, begun>> /\ RowsKept
  \/ /\ pc[r] = "begin" /\ StartRunning(Target[r])
     /\ begun' = [begun EXCEPT ![r] = TRUE]
  \/ /\ pc[r] = "finish" /\ RowsKept /\ UNCHANGED begun
     /\ \E t \in Terminal : status' = [status EXCEPT ![Target[r]] = t]

LEMMA RowsKeptUnchanged ==
  ASSUME UNCHANGED audit
  PROVE  RowsKept
  BY DEF RowsKept

LEMMA StepEffect ==
  ASSUME TypeInv, NEW r \in Requests, Arrive(r) \/ Serve(r) \/ Crash(r)
  PROVE  StoreEffect(r) /\ UNCHANGED approved
  <1> USE RowsKeptUnchanged DEF StoreEffect, store, history
  <1>1. CASE Arrive(r) \/ GetPlan(r) \/ CheckRateLimit(r) \/ Crash(r)
    BY <1>1 DEF Arrive, GetPlan, CheckRateLimit, Crash
  <1>2. CASE BeginExecution(r)
    BY <1>2 DEF BeginExecution, StartRunning
  <1>3. CASE CapturePreState(r) \/ Execute(r) \/ Rollback(r)
    BY <1>3 DEF CapturePreState, Execute, Rollback
  <1>4. CASE RecordActionResult(r)
    <2>1. UNCHANGED <<status, approved, begun>>
      BY <1>4 DEF RecordActionResult, WriteResult, store
    <2>2. RowsKept
      <3>1. CASE UNCHANGED audit
        BY <3>1
      <3>2. CASE \E st \in {"success", "failed"} :
                   /\ audit[Target[r]][seq[r]] # "none"
                   /\ audit' = [audit EXCEPT ![Target[r]][seq[r]] = st]
        BY <3>2, ConstTypes DEF RowsKept, TypeInv, TypeOK
      <3> QED
        BY <1>4, <3>1, <3>2 DEF RecordActionResult, WriteResult, store
    <2> QED
      BY <2>1, <2>2
  <1>5. CASE MarkAuditRolledBack(r)
    <2>1. UNCHANGED <<status, approved, begun>>
      BY <1>5 DEF MarkAuditRolledBack, MarkRows, store
    <2>2. RowsKept
      <3> SUFFICES ASSUME NEW p \in Plans, NEW s \in Seqs
                   PROVE  audit'[p][s] = audit[p][s] \/
                          (audit[p][s] = "success" /\ audit'[p][s] = "rolled_back")
        BY DEF RowsKept
      <3>1. audit \in [Plans -> [Seqs -> AuditStatus]]
        BY DEF TypeInv, TypeOK
      <3>2. CASE UNCHANGED audit
        BY <3>2
      <3>3. CASE audit' = [audit EXCEPT ![Target[r]] =
                   [t \in Seqs |-> IF t \in rolled[r] /\ @[t] = "success"
                                   THEN "rolled_back" ELSE @[t]]]
        BY <3>1, <3>3
      <3> QED
        BY <1>5, <3>2, <3>3 DEF MarkAuditRolledBack, MarkRows, store
    <2> QED
      BY <2>1, <2>2
  <1>6. CASE FinishExecution(r)
    <2>1. FinalStatus(r) \in Terminal
      BY DEF FinalStatus, Terminal
    <2> QED
      BY <1>6, <2>1 DEF FinishExecution, WriteFinal, store, locals
  <1> QED
    BY <1>1, <1>2, <1>3, <1>4, <1>5, <1>6 DEF Serve

\* The step a request takes is taken from a step it was let in to.
LEMMA StepGate ==
  ASSUME TypeInv, NEW r \in Requests, Arrive(r) \/ Serve(r) \/ Crash(r)
  PROVE  /\ pc'[r] \in Steps \ {"load"} =>
              pc[r] \in Steps \ {"load"} \/ status[Target[r]] = "approved"
         /\ \A s \in Seqs : calls'[r][s] # calls[r][s] => pc[r] \in Steps \ {"load"}
  <1> USE DEF Goto, Return, Steps, history
  <1>1. CASE GetPlan(r)
    <2>1. status[Target[r]] \in Status
      BY ConstTypes DEF TypeInv, TypeOK
    <2> QED
      BY <1>1, <2>1, RunningFromApproved DEF GetPlan, TypeInv, TypeOK
  <1>2. CASE Arrive(r) \/ Crash(r)
    BY <1>2 DEF Arrive, Crash, TypeInv, TypeOK
  <1>3. CASE Serve(r) /\ pc[r] # "load"
    BY <1>3 DEF Serve, GetPlan, CheckRateLimit, BeginExecution, CapturePreState,
                Execute, RecordActionResult, WriteResult, Rollback,
                MarkAuditRolledBack, MarkRows,
                FinishExecution, WriteFinal
  <1>4. CASE Serve(r) /\ pc[r] = "load"
    BY <1>1, <1>4 DEF Serve, CheckRateLimit, BeginExecution, CapturePreState,
                Execute, RecordActionResult, WriteResult, Rollback,
                MarkAuditRolledBack, MarkRows,
                FinishExecution, WriteFinal
  <1> QED
    BY <1>2, <1>3, <1>4

LEMMA InitApprovalInv == Init => ApprovalInv
  BY ConstTypes DEF Init, ApprovalInv, NoCallBeforeApproval, SingleBegin, Steps

LEMMA StoreApprovalInv ==
  ASSUME TypeInv, ApprovalInv, NEW p \in Plans,
         CreatePlan(p) \/ ApprovePlan(p) \/ LeaveWindow(p)
  PROVE  ApprovalInv'
  <1>1. UNCHANGED <<audit, pc, begun, calls>>
    BY DEF CreatePlan, InsertPlan, ApprovePlan, ApproveRow, LeaveWindow, history
  <1>2. \/ UNCHANGED <<status, approved>>
        \/ /\ status[p] = "absent" /\ status' = [status EXCEPT ![p] = "planned"]
           /\ UNCHANGED approved
        \/ /\ status[p] = "planned" /\ status' = [status EXCEPT ![p] = "approved"]
           /\ approved' = [approved EXCEPT ![p] = TRUE]
    BY DEF CreatePlan, InsertPlan, ApprovePlan, ApproveRow, LeaveWindow
  <1>3. status \in [Plans -> Status] /\ approved \in [Plans -> BOOLEAN]
    BY DEF TypeInv, TypeOK
  <1>4. \A q \in Plans : approved[q] => approved'[q]
    BY <1>2, <1>3
  <1>5. \A q \in Plans : status'[q] \notin {"absent", "planned"} => approved'[q]
    BY <1>2, <1>3, <1>4 DEF ApprovalInv
  <1>6. \A q \in Plans : status[q] \in {"running"} \cup Terminal => status'[q] = status[q]
    BY <1>2, <1>3 DEF Terminal
  <1>7. \A q \in Plans : status'[q] \in {"absent", "planned", "approved"} =>
                        status[q] \in {"absent", "planned", "approved"}
    BY <1>2, <1>3
  <1> QED
    BY <1>1, <1>4, <1>5, <1>6, <1>7, ConstTypes
    DEF ApprovalInv, NoCallBeforeApproval, SingleBegin

LEMMA ServeApprovalInv ==
  ASSUME TypeInv, ApprovalInv, NEW r \in Requests,
         Arrive(r) \/ Serve(r) \/ Crash(r)
  PROVE  ApprovalInv'
  <1> DEFINE p == Target[r]
  <1>1. StoreEffect(r) /\ UNCHANGED approved
    BY StepEffect
  <1>2. /\ status \in [Plans -> Status] /\ audit \in [Plans -> [Seqs -> AuditStatus]]
        /\ begun \in [Requests -> BOOLEAN] /\ calls \in [Requests -> [Seqs -> 0..2]]
        /\ calls' \in [Requests -> [Seqs -> 0..2]]
        /\ p \in Plans
    BY ConstTypes, StepTypeInv DEF TypeInv, TypeOK, Next
  <1>3. pc[r] \in Steps \ {"load"} => approved[p]
    BY DEF ApprovalInv
  <1>4. \A q \in Plans : status'[q] \notin {"absent", "planned"} => approved'[q]
    BY <1>1, <1>2, <1>3 DEF ApprovalInv, StoreEffect, StartRunning, Steps
  <1>5. \A q \in Plans : status'[q] \in {"absent", "planned", "approved"} =>
                      \A s \in Seqs : audit'[q][s] = "none"
    BY <1>1, <1>2 DEF ApprovalInv, StoreEffect, StartRunning, RowsKept, Terminal
  <1>6. \A q \in Requests : pc'[q] \in Steps \ {"load"} => approved'[Target[q]]
    BY <1>1, <1>3, Frame, StepGate, ConstTypes DEF ApprovalInv, TypeInv
  <1>7. \A q \in Requests : begun'[q] => status'[Target[q]] \in {"running"} \cup Terminal
    BY <1>1, <1>2, ConstTypes DEF ApprovalInv, StoreEffect, StartRunning
  <1>8. NoCallBeforeApproval'
    <2> SUFFICES ASSUME NEW q \in Requests, NEW s \in Seqs, calls'[q][s] > 0
                 PROVE  approved[Target[q]]
      BY <1>1 DEF NoCallBeforeApproval
    <2>1. CASE calls'[q][s] = calls[q][s]
      BY <2>1 DEF ApprovalInv, NoCallBeforeApproval
    <2>2. CASE calls'[q][s] # calls[q][s]
      BY <1>3, <2>2, Frame, StepGate DEF TypeInv
    <2> QED
      BY <2>1, <2>2
  <1>9. SingleBegin'
    <2>1. CASE UNCHANGED begun
      BY <2>1 DEF ApprovalInv, SingleBegin
    <2>2. CASE status[p] = "approved" /\ begun' = [begun EXCEPT ![r] = TRUE]
      <3>1. \A q \in Requests : begun'[q] => q = r \/ (begun[q] /\ Target[q] # p)
        BY <1>2, <2>2 DEF ApprovalInv, Terminal
      <3> QED
        BY <3>1 DEF ApprovalInv, SingleBegin
    <2> QED
      BY <1>1, <2>1, <2>2 DEF StoreEffect, StartRunning
  <1> QED
    BY <1>4, <1>5, <1>6, <1>7, <1>8, <1>9 DEF ApprovalInv

LEMMA ApprovalInvariant == Spec => [](TypeInv /\ ApprovalInv)
  <1>1. TypeInv /\ ApprovalInv /\ [Next]_vars => ApprovalInv'
    <2> SUFFICES ASSUME TypeInv, ApprovalInv, [Next]_vars PROVE ApprovalInv'
      OBVIOUS
    <2>1. CASE UNCHANGED vars
      BY <2>1 DEF vars, store, history, ApprovalInv, NoCallBeforeApproval, SingleBegin
    <2> QED
      BY <2>1, StoreApprovalInv, ServeApprovalInv DEF Next
  <1> QED
    BY <1>1, InitApprovalInv, InitTypeInv, StepTypeInv, PTL DEF Spec

\* No cloud call before the approval, for any number of requests and faults:
\* the status never returns to planned, so the stale check cannot mislead.
THEOREM ApprovalFirst == Spec => []NoCallBeforeApproval
  BY ApprovalInvariant, PTL DEF ApprovalInv

\* At most one request starts a plan: the compare-and-set of BeginExecution
\* is won once, and nothing a late request writes makes it winnable again.
THEOREM StartedOnce == Spec => []SingleBegin
  BY ApprovalInvariant, PTL DEF ApprovalInv

\* A terminal plan stays terminal and a resolved audit row stays resolved,
\* although FinishExecution and RecordActionResult have no status guard.
THEOREM NoPlanResurrected == Spec => NoResurrection
  <1>1. TypeInv /\ ApprovalInv /\ [Next]_vars =>
          [\A p \in Plans :
             /\ status[p] \in Terminal => status'[p] \in Terminal
             /\ \A s \in Seqs : audit[p][s] \notin {"none", "pending"} =>
                                  audit'[p][s] \notin {"none", "pending"}]_vars
    <2> SUFFICES ASSUME TypeInv, ApprovalInv, Next, NEW p \in Plans
                 PROVE  /\ status[p] \in Terminal => status'[p] \in Terminal
                        /\ \A s \in Seqs : audit[p][s] \notin {"none", "pending"} =>
                                             audit'[p][s] \notin {"none", "pending"}
      OBVIOUS
    <2>1. status \in [Plans -> Status] /\ audit \in [Plans -> [Seqs -> AuditStatus]]
      BY DEF TypeInv, TypeOK
    <2>2. ASSUME NEW q \in Plans, CreatePlan(q) \/ ApprovePlan(q) \/ LeaveWindow(q)
          PROVE  UNCHANGED audit /\ (status[p] \in Terminal => status'[p] \in Terminal)
      BY <2>1, <2>2
      DEF CreatePlan, InsertPlan, ApprovePlan, ApproveRow, LeaveWindow, Terminal
    <2>3. ASSUME NEW r \in Requests, Arrive(r) \/ Serve(r) \/ Crash(r)
          PROVE  /\ status[p] \in Terminal => status'[p] \in Terminal
                 /\ \A s \in Seqs : audit[p][s] \notin {"none", "pending"} =>
                                      audit'[p][s] \notin {"none", "pending"}
      <3>1. StoreEffect(r) /\ Target[r] \in Plans
        BY <2>3, StepEffect, ConstTypes
      <3>2. status[Target[r]] = "approved" => \A s \in Seqs : audit[Target[r]][s] = "none"
        BY <3>1 DEF ApprovalInv
      <3> QED
        BY <2>1, <3>1, <3>2 DEF StoreEffect, StartRunning, RowsKept, Terminal
    <2> QED
      BY <2>2, <2>3 DEF Next
  <1> QED
    BY <1>1, ApprovalInvariant, PTL DEF Spec, NoResurrection

-----------------------------------------------------------------------------
(* Executions that are cut off, and those that are not.                    *)

\* A request writes to the rows of its own plan only.
LEMMA OwnPlan ==
  ASSUME TypeInv, NEW r \in Requests, Arrive(r) \/ Serve(r) \/ Crash(r),
         NEW p \in Plans, p # Target[r]
  PROVE  status'[p] = status[p] /\ audit'[p] = audit[p]
  <1> USE DEF TypeInv, TypeOK, store
  <1>1. CASE Arrive(r) \/ GetPlan(r) \/ CheckRateLimit(r) \/ Crash(r)
    BY <1>1 DEF Arrive, GetPlan, CheckRateLimit, Crash
  <1>2. CASE BeginExecution(r)
    BY <1>2 DEF BeginExecution, StartRunning
  <1>3. CASE CapturePreState(r) \/ Execute(r) \/ Rollback(r)
    BY <1>3 DEF CapturePreState, Execute, Rollback
  <1>4. CASE RecordActionResult(r)
    BY <1>4 DEF RecordActionResult, WriteResult
  <1>5. CASE MarkAuditRolledBack(r)
    BY <1>5 DEF MarkAuditRolledBack, MarkRows
  <1>6. CASE FinishExecution(r)
    BY <1>6 DEF FinishExecution, WriteFinal
  <1> QED
    BY <1>1, <1>2, <1>3, <1>4, <1>5, <1>6 DEF Serve

\* A request that is not past the check changes neither rows nor cloud.
LEMMA BeforeTheCheck ==
  ASSUME TypeInv, NEW r \in Requests, Arrive(r) \/ Serve(r) \/ Crash(r),
         pc[r] \notin Steps \ {"load"}
  PROVE  UNCHANGED <<store, calls>>
  BY DEF Arrive, Crash, Serve, GetPlan, CheckRateLimit, BeginExecution, CapturePreState,
         Execute, RecordActionResult, Rollback, MarkAuditRolledBack, FinishExecution,
         Steps, store, history

LEMMA StepAbandoned ==
  ASSUME TypeInv, Next, NEW p \in Plans, Abandoned(p)
  PROVE  /\ Abandoned(p)' /\ audit'[p] = audit[p]
         /\ \A r \in Requests : Target[r] = p => calls'[r] = calls[r]
  <1>1. CASE \E q \in Plans : CreatePlan(q) \/ ApprovePlan(q) \/ LeaveWindow(q)
    <2>1. /\ UNCHANGED <<audit, pc, calls>>
          /\ status[p] = "running" => status'[p] = "running"
      BY <1>1 DEF CreatePlan, InsertPlan, ApprovePlan, ApproveRow, LeaveWindow, history,
                  TypeInv, TypeOK
    <2> QED
      BY <2>1 DEF Abandoned
  <1>2. ASSUME NEW r \in Requests, Arrive(r) \/ Serve(r) \/ Crash(r), Target[r] # p
        PROVE  /\ Abandoned(p)' /\ audit'[p] = audit[p]
               /\ \A q \in Requests : Target[q] = p => calls'[q] = calls[q]
    <2>1. status'[p] = status[p] /\ audit'[p] = audit[p]
      BY <1>2, OwnPlan
    <2>2. \A q \in Requests : Target[q] = p => pc'[q] = pc[q] /\ calls'[q] = calls[q]
      BY <1>2, Frame DEF TypeInv
    <2> QED
      BY <2>1, <2>2 DEF Abandoned
  <1>3. ASSUME NEW r \in Requests, Arrive(r) \/ Serve(r) \/ Crash(r), Target[r] = p
        PROVE  /\ Abandoned(p)' /\ audit'[p] = audit[p]
               /\ \A q \in Requests : Target[q] = p => calls'[q] = calls[q]
    <2>1. pc[r] \notin Steps \ {"load"} /\ status[p] = "running"
      BY <1>3 DEF Abandoned
    <2>2. UNCHANGED <<store, calls>>
      BY <1>3, <2>1, BeforeTheCheck
    <2>3. pc'[r] \notin Steps \ {"load"}
      BY <1>3, <2>1, StepGate
    <2>4. \A q \in Requests : q # r => pc'[q] = pc[q]
      BY <1>3, Frame DEF TypeInv
    <2> QED
      BY <2>2, <2>3, <2>4 DEF Abandoned, store
  <1> QED
    BY <1>1, <1>2, <1>3 DEF Next

\* A plan whose handler was cut off stays in running, its rows and its cloud
\* as they are, whatever requests come for it: the status check turns them
\* away, and nothing in the code finishes or repeats such an execution.
THEOREM AbandonedForGood == Spec => AbandonedIsLeft
  <1>1. TypeInv /\ [Next]_vars =>
          [\A p \in Plans : Abandoned(p) =>
             /\ Abandoned(p)' /\ audit'[p] = audit[p]
             /\ \A r \in Requests : Target[r] = p => calls'[r] = calls[r]]_vars
    BY StepAbandoned
  <1> QED
    BY <1>1, TypeInvariant, PTL DEF Spec, AbandonedIsLeft

\* How many round trips and calls a request has left at most when it is at a
\* step, its seq being k, and its plan has n actions.  The run loop takes three
\* for each action; after a failure the rollback takes one for each of those
\* completed, and two writes are still to come.
Left(step, k, n) ==
  CASE step = "idle"     -> 4 * n + 6
    [] step = "load"     -> 4 * n + 5
    [] step = "count"    -> 4 * n + 4
    [] step = "begin"    -> 4 * n + 3
    [] step = "capture"  -> 3 * (n + 1 - k) + n + 2
    [] step = "act"      -> 3 * (n + 1 - k) + n + 1
    [] step = "record"   -> 3 * (n + 1 - k) + n
    [] step = "rollback" -> k + 2
    [] step = "mark"     -> 2
    [] step = "finish"   -> 1
    [] OTHER             -> 0

RoundTripsLeft(r) == Left(pc[r], seq[r], NumActions[Target[r]])

NumbersLeft ==
  \A r \in Requests : RoundTripsLeft(r) \in 0..(4 * NumActions[Target[r]] + 6)

\* Every step of the handler takes one of them at least, and nothing that
\* others do, the store or a crash gives one back.
RoundTripsRunOut ==
  [][\A r \in Requests :
       /\ RoundTripsLeft(r)' <= RoundTripsLeft(r)
       /\ Serve(r) => RoundTripsLeft(r)' < RoundTripsLeft(r)]_vars

LEMMA LeftValues ==
  ASSUME NEW k \in Nat, NEW n \in Nat
  PROVE  /\ Left("idle", k, n) = 4 * n + 6
         /\ Left("load", k, n) = 4 * n + 5
         /\ Left("count", k, n) = 4 * n + 4
         /\ Left("begin", k, n) = 4 * n + 3
         /\ Left("capture", k, n) = 3 * (n + 1 - k) + n + 2
         /\ Left("act", k, n) = 3 * (n + 1 - k) + n + 1
         /\ Left("record", k, n) = 3 * (n + 1 - k) + n
         /\ Left("rollback", k, n) = k + 2
         /\ Left("mark", k, n) = 2
         /\ Left("finish", k, n) = 1
         /\ Left("done", k, n) = 0
  <1>1. Left("idle", k, n) = 4 * n + 6
    BY DEF Left
  <1>2. Left("load", k, n) = 4 * n + 5
    BY DEF Left
  <1>3. Left("count", k, n) = 4 * n + 4
    BY DEF Left
  <1>4. Left("begin", k, n) = 4 * n + 3
    BY DEF Left
  <1>5. Left("capture", k, n) = 3 * (n + 1 - k) + n + 2
    BY DEF Left
  <1>6. Left("act", k, n) = 3 * (n + 1 - k) + n + 1
    BY DEF Left
  <1>7. Left("record", k, n) = 3 * (n + 1 - k) + n
    BY DEF Left
  <1>8. Left("rollback", k, n) = k + 2
    BY DEF Left
  <1>9. Left("mark", k, n) = 2
    BY DEF Left
  <1>10. Left("finish", k, n) = 1
    BY DEF Left
  <1>11. Left("done", k, n) = 0
    BY DEF Left
  <1> QED
    BY <1>1, <1>2, <1>3, <1>4, <1>5, <1>6, <1>7, <1>8, <1>9, <1>10, <1>11

\* What the measure of a request depends on, in numbers.
LEMMA MeasureTypes ==
  ASSUME TypeInv, NEW r \in Requests
  PROVE  /\ NumActions[Target[r]] \in Nat /\ seq[r] \in Nat /\ seq[r] >= 1
         /\ pc[r] \in Steps \cup {"idle", "done"}
         /\ pc[r] \in {"capture", "act", "record"} =>
              seq[r] <= NumActions[Target[r]] /\ completed[r] + 1 = seq[r]
         /\ pc[r] \in {"idle", "load", "count", "begin"} => seq[r] = 1
         /\ pc[r] = "rollback" => seq[r] <= NumActions[Target[r]]
         /\ completed[r] \in Nat
  <1>1. /\ LoopOK(r) /\ seq[r] \in 1..(MaxActions + 1) /\ completed[r] \in 0..MaxActions
        /\ pc[r] \in Steps \cup {"idle", "done"}
    BY LocalTypes DEF TypeInv, TypeOK
  <1> QED
    BY <1>1, ConstTypes DEF LoopOK

LEMMA MeasureRange ==
  ASSUME TypeInv, NEW r \in Requests
  PROVE  RoundTripsLeft(r) \in 0..(4 * NumActions[Target[r]] + 6)
  <1>1. PICK n, k : n = NumActions[Target[r]] /\ k = seq[r]
    OBVIOUS
  <1>2. /\ n \in Nat /\ k \in Nat /\ k >= 1
        /\ pc[r] \in {"capture", "act", "record", "rollback"} => k <= n
        /\ pc[r] \in Steps \cup {"idle", "done"}
    BY <1>1, MeasureTypes
  <1> DEFINE range == 0..(4 * n + 6)
  <1>3. /\ \A step \in {"idle", "load", "count", "begin", "mark", "finish", "done"} :
             Left(step, k, n) \in range
        /\ k <= n => \A step \in {"capture", "act", "record", "rollback"} :
                       Left(step, k, n) \in range
    <2>1. /\ 4 * n + 6 \in range /\ 4 * n + 5 \in range /\ 4 * n + 4 \in range
          /\ 4 * n + 3 \in range /\ 2 \in range /\ 1 \in range /\ 0 \in range
      BY <1>2
    <2>2. ASSUME k <= n
          PROVE  /\ 3 * (n + 1 - k) + n + 2 \in range /\ 3 * (n + 1 - k) + n + 1 \in range
                 /\ 3 * (n + 1 - k) + n \in range /\ k + 2 \in range
      BY <1>2, <2>2
    <2> HIDE DEF range
    <2>3. ASSUME NEW step \in {"idle", "load", "count", "begin", "mark", "finish", "done"}
          PROVE  Left(step, k, n) \in range
      <3>1. /\ Left("idle", k, n) = 4 * n + 6 /\ Left("load", k, n) = 4 * n + 5
            /\ Left("count", k, n) = 4 * n + 4 /\ Left("begin", k, n) = 4 * n + 3
            /\ Left("mark", k, n) = 2 /\ Left("finish", k, n) = 1
            /\ Left("done", k, n) = 0
        BY <1>2, LeftValues
      <3> QED
        BY <2>1, <2>3, <3>1
    <2>4. ASSUME k <= n, NEW step \in {"capture", "act", "record", "rollback"}
          PROVE  Left(step, k, n) \in range
      <3>1. /\ Left("capture", k, n) = 3 * (n + 1 - k) + n + 2
            /\ Left("act", k, n) = 3 * (n + 1 - k) + n + 1
            /\ Left("record", k, n) = 3 * (n + 1 - k) + n
            /\ Left("rollback", k, n) = k + 2
        BY <1>2, LeftValues
      <3> QED
        BY <2>2, <2>4, <3>1
    <2> QED
      BY <2>3, <2>4
  <1> QED
    BY <1>1, <1>2, <1>3 DEF RoundTripsLeft, Steps

LEMMA GateMeasure ==
  ASSUME TypeInv, NEW r \in Requests, GetPlan(r) \/ CheckRateLimit(r)
  PROVE  RoundTripsLeft(r)' < RoundTripsLeft(r)
  <1>1. /\ seq'[r] = seq[r]
        /\ \/ pc[r] = "load" /\ pc'[r] \in {"count", "done"}
           \/ pc[r] = "count" /\ pc'[r] \in {"begin", "done"}
    BY DEF GetPlan, CheckRateLimit, Goto, Return, locals, TypeInv, TypeOK
  <1>2. PICK n, k : n = NumActions[Target[r]] /\ k = seq[r]
    OBVIOUS
  <1>3. n \in Nat /\ k \in Nat
    BY <1>2, MeasureTypes
  <1>4. /\ Left("load", k, n) = 4 * n + 5 /\ Left("count", k, n) = 4 * n + 4
        /\ Left("begin", k, n) = 4 * n + 3 /\ Left("done", k, n) = 0
    BY <1>3, LeftValues
  <1> QED
    BY <1>1, <1>2, <1>3, <1>4 DEF RoundTripsLeft

LEMMA BeginMeasure ==
  ASSUME TypeInv, NEW r \in Requests, BeginExecution(r)
  PROVE  RoundTripsLeft(r)' < RoundTripsLeft(r)
  <1>1. /\ seq'[r] = seq[r] /\ pc[r] = "begin" /\ seq[r] = 1
        /\ pc'[r] \in {"finish", "capture", "act"}
    BY MeasureTypes DEF BeginExecution, LoopStep, Goto, locals, TypeInv, TypeOK
  <1>2. PICK n : n = NumActions[Target[r]]
    OBVIOUS
  <1>3. n \in Nat
    BY <1>2, MeasureTypes
  <1>4. /\ Left("begin", 1, n) = 4 * n + 3 /\ Left("finish", 1, n) = 1
        /\ Left("capture", 1, n) = 3 * n + n + 2 /\ Left("act", 1, n) = 3 * n + n + 1
    BY <1>3, LeftValues
  <1> QED
    BY <1>1, <1>2, <1>3, <1>4 DEF RoundTripsLeft

LEMMA CallMeasure ==
  ASSUME TypeInv, NEW r \in Requests, CapturePreState(r) \/ Execute(r)
  PROVE  RoundTripsLeft(r)' < RoundTripsLeft(r)
  <1>1. /\ seq'[r] = seq[r]
        /\ \/ pc[r] = "capture" /\ pc'[r] = "act"
           \/ pc[r] = "act" /\ pc'[r] = "record"
    BY DEF CapturePreState, Execute, Goto, locals, TypeInv, TypeOK
  <1>2. PICK n, k : n = NumActions[Target[r]] /\ k = seq[r]
    OBVIOUS
  <1>3. n \in Nat /\ k \in Nat
    BY <1>2, MeasureTypes
  <1>4. /\ Left("capture", k, n) = 3 * (n + 1 - k) + n + 2
        /\ Left("act", k, n) = 3 * (n + 1 - k) + n + 1
        /\ Left("record", k, n) = 3 * (n + 1 - k) + n
    BY <1>3, LeftValues
  <1> QED
    BY <1>1, <1>2, <1>3, <1>4 DEF RoundTripsLeft

\* The loop goes on with the next action, turns to those completed, or ends.
LEMMA RecordMeasure ==
  ASSUME TypeInv, NEW r \in Requests, RecordActionResult(r)
  PROVE  RoundTripsLeft(r)' < RoundTripsLeft(r)
  <1>1. PICK n, k : n = NumActions[Target[r]] /\ k = seq[r]
    OBVIOUS
  <1>2. /\ n \in Nat /\ k \in Nat /\ k >= 1 /\ k <= n /\ completed[r] + 1 = k
        /\ completed[r] \in Nat /\ pc[r] = "record"
    BY <1>1, MeasureTypes DEF RecordActionResult
  <1>3. \/ seq'[r] = k + 1 /\ pc'[r] \in {"finish", "capture", "act"}
        \/ seq'[r] = completed[r] /\ pc'[r] = "rollback"
        \/ seq'[r] = k /\ pc'[r] = "finish"
    <2>1. \/ NextAction(r) \/ StopAtFailure(r)
          \/ Goto(r, "finish") /\ UNCHANGED seq
      BY DEF RecordActionResult
    <2> QED
      BY <1>1, <2>1 DEF NextAction, StopAtFailure, Goto, LoopStep, TypeInv, TypeOK
  <1>4. /\ Left("record", k, n) = 3 * (n + 1 - k) + n
        /\ Left("capture", k + 1, n) = 3 * (n - k) + n + 2
        /\ Left("act", k + 1, n) = 3 * (n - k) + n + 1
        /\ Left("rollback", completed[r], n) = k + 1
        /\ Left("finish", k, n) = 1 /\ Left("finish", k + 1, n) = 1
    <2>1. k + 1 \in Nat /\ n + 1 - (k + 1) = n - k
      BY <1>2
    <2>2. /\ Left("capture", k + 1, n) = 3 * (n + 1 - (k + 1)) + n + 2
          /\ Left("act", k + 1, n) = 3 * (n + 1 - (k + 1)) + n + 1
          /\ Left("finish", k + 1, n) = 1
      BY <1>2, <2>1, LeftValues
    <2>3. Left("rollback", completed[r], n) = completed[r] + 2
      BY <1>2, LeftValues
    <2>4. Left("record", k, n) = 3 * (n + 1 - k) + n /\ Left("finish", k, n) = 1
      BY <1>2, LeftValues
    <2> QED
      BY <1>2, <2>1, <2>2, <2>3, <2>4
  <1> QED
    BY <1>1, <1>2, <1>3, <1>4 DEF RoundTripsLeft

LEMMA EndMeasure ==
  ASSUME TypeInv, NEW r \in Requests,
         Rollback(r) \/ MarkAuditRolledBack(r) \/ FinishExecution(r)
  PROVE  RoundTripsLeft(r)' < RoundTripsLeft(r)
  <1>1. \/ pc[r] = "rollback" /\ pc'[r] = "rollback" /\ seq'[r] = seq[r] - 1 /\ seq[r] > 1
        \/ pc[r] = "rollback" /\ pc'[r] \in {"mark", "finish"} /\ seq'[r] = seq[r]
        \/ pc[r] = "mark" /\ pc'[r] = "finish" /\ seq'[r] = seq[r]
        \/ pc[r] = "finish" /\ pc'[r] = "done" /\ seq'[r] = seq[r]
    BY DEF Rollback, MarkAuditRolledBack, FinishExecution, Goto, Return, locals,
           TypeInv, TypeOK
  <1>2. PICK n, k : n = NumActions[Target[r]] /\ k = seq[r]
    OBVIOUS
  <1>3. n \in Nat /\ k \in Nat /\ k >= 1 /\ (k > 1 => k - 1 \in Nat)
    BY <1>2, MeasureTypes
  <1>4. /\ Left("rollback", k, n) = k + 2 /\ Left("mark", k, n) = 2
        /\ Left("finish", k, n) = 1 /\ Left("done", k, n) = 0
        /\ k > 1 => Left("rollback", k - 1, n) = k - 1 + 2
    BY <1>3, LeftValues
  <1> QED
    BY <1>1, <1>2, <1>3, <1>4 DEF RoundTripsLeft

\* A request that arrives has one step less before it, one that is cut off none.
LEMMA EdgeMeasure ==
  ASSUME TypeInv, NEW r \in Requests, Arrive(r) \/ Crash(r)
  PROVE  RoundTripsLeft(r)' <= RoundTripsLeft(r)
  <1>1. /\ seq'[r] = seq[r]
        /\ (pc[r] = "idle" /\ pc'[r] = "load") \/ pc'[r] = "done"
    BY DEF Arrive, Crash, Goto, locals, TypeInv, TypeOK
  <1>2. PICK n, k : n = NumActions[Target[r]] /\ k = seq[r]
    OBVIOUS
  <1>3. n \in Nat /\ k \in Nat
    BY <1>2, MeasureTypes
  <1>4. /\ Left("idle", k, n) = 4 * n + 6 /\ Left("load", k, n) = 4 * n + 5
        /\ Left("done", k, n) = 0
    BY <1>3, LeftValues
  <1>5. RoundTripsLeft(r) \in Nat
    BY MeasureRange
  <1> QED
    BY <1>1, <1>2, <1>3, <1>4, <1>5 DEF RoundTripsLeft

LEMMA MeasureNext == TypeInv /\ [Next]_vars => NumbersLeft /\ NumbersLeft'
  <1>1. TypeInv => NumbersLeft
    BY MeasureRange DEF NumbersLeft
  <1> QED
    BY <1>1, StepTypeInv, PTL

\* A request makes 4 * n + 5 steps at most, n being the number of the planned
\* actions: it never goes round in circles, however the store, the executor
\* and the other requests behave.  With the handler's goroutine scheduled,
\* this is why every request is answered.
THEOREM RequestsAreBounded ==
  Spec => RoundTripsRunOut /\ []NumbersLeft
  <1>1. TypeInv /\ [Next]_vars =>
          [\A r \in Requests :
             /\ RoundTripsLeft(r)' <= RoundTripsLeft(r)
             /\ Serve(r) => RoundTripsLeft(r)' < RoundTripsLeft(r)]_vars
    <2> SUFFICES ASSUME TypeInv, Next, NEW r \in Requests
                 PROVE  /\ RoundTripsLeft(r)' <= RoundTripsLeft(r)
                        /\ Serve(r) => RoundTripsLeft(r)' < RoundTripsLeft(r)
      OBVIOUS
    <2>1. RoundTripsLeft(r) \in Nat /\ RoundTripsLeft(r)' \in Nat
      BY MeasureNext, MeasureTypes DEF NumbersLeft
    <2>2. Serve(r) => RoundTripsLeft(r)' < RoundTripsLeft(r)
      BY GateMeasure, BeginMeasure, CallMeasure, RecordMeasure, EndMeasure DEF Serve
    <2>3. Arrive(r) \/ Crash(r) => RoundTripsLeft(r)' <= RoundTripsLeft(r)
      BY EdgeMeasure
    <2>4. UNCHANGED <<pc[r], seq[r]>> => RoundTripsLeft(r)' = RoundTripsLeft(r)
      BY DEF RoundTripsLeft
    <2>5. \/ Serve(r) \/ Arrive(r) \/ Crash(r) \/ UNCHANGED <<pc[r], seq[r]>>
      BY Frame DEF Next, CreatePlan, ApprovePlan, LeaveWindow, locals, TypeInv
    <2> QED
      BY <2>1, <2>2, <2>3, <2>4, <2>5
  <1>2. TypeInv => NumbersLeft
    BY MeasureRange DEF NumbersLeft
  <1> QED
    BY <1>1, <1>2, TypeInvariant, PTL DEF Spec, RoundTripsRunOut

-----------------------------------------------------------------------------
(* The audit trail tells the truth.                                        *)

\* By the time an outcome is recorded the executor was called twice, and a
\* rollback only follows a failure.
TruthInv ==
  /\ AuditTruthful
  /\ \A r \in Requests :
       /\ HasExecutor /\ pc[r] = "act" => calls[r][seq[r]] = 1
       /\ HasExecutor /\ pc[r] = "record" => calls[r][seq[r]] = 2
       /\ pc[r] \in {"rollback", "mark"} => failed[r]
       /\ rolled[r] # {} => failed[r]

\* What a request has done is never undone in its history.
HistoryKept ==
  \A r \in Requests :
    /\ failed[r] => failed'[r]
    /\ rolled[r] \subseteq rolled'[r]
    /\ \A s \in Seqs : calls[r][s] = 2 => calls'[r][s] = 2

\* The rows a step of request r writes are covered by what r has done.
RowsCovered(r) ==
  \A p \in Plans, s \in Seqs :
    \/ audit'[p][s] = audit[p][s]
    \/ audit'[p][s] = "pending"
    \/ /\ p = Target[r] /\ audit'[p][s] \in {"success", "failed"}
       /\ pc[r] = "record" /\ s = seq[r]
    \/ /\ p = Target[r] /\ audit'[p][s] = "rolled_back"
       /\ pc[r] = "mark" /\ s \in rolled[r]

LEMMA TruthfulKept ==
  ASSUME TypeInv, TruthInv, HistoryKept, NEW r \in Requests, RowsCovered(r)
  PROVE  AuditTruthful'
  <1> SUFFICES ASSUME NEW p \in Plans, NEW s \in Seqs
               PROVE
         /\ audit'[p][s] \in {"success", "failed"} /\ HasExecutor =>
              \E q \in Requests : Target[q] = p /\ calls'[q][s] = 2
         /\ audit'[p][s] = "rolled_back" =>
              \E q \in Requests : Target[q] = p /\ s \in rolled'[q] /\ failed'[q]
    BY DEF AuditTruthful
  <1>1. CASE audit'[p][s] = audit[p][s]
    BY <1>1 DEF TruthInv, AuditTruthful, HistoryKept
  <1>2. CASE audit'[p][s] = "pending"
    BY <1>2
  <1>3. CASE /\ p = Target[r] /\ audit'[p][s] \in {"success", "failed"}
             /\ pc[r] = "record" /\ s = seq[r]
    BY <1>3 DEF TruthInv, HistoryKept
  <1>4. CASE /\ p = Target[r] /\ audit'[p][s] = "rolled_back"
             /\ pc[r] = "mark" /\ s \in rolled[r]
    BY <1>4 DEF TruthInv, HistoryKept
  <1> QED
    BY <1>1, <1>2, <1>3, <1>4 DEF RowsCovered

LEMMA ServeRowsCovered ==
  ASSUME TypeInv, NEW r \in Requests, Arrive(r) \/ Serve(r) \/ Crash(r)
  PROVE  RowsCovered(r)
  <1>1. audit \in [Plans -> [Seqs -> AuditStatus]] /\ Target[r] \in Plans
    BY ConstTypes DEF TypeInv, TypeOK
  <1>2. CASE UNCHANGED audit
    BY <1>2 DEF RowsCovered
  <1>3. CASE BeginExecution(r)
    BY <1>1, <1>3 DEF BeginExecution, StartRunning, RowsCovered, store
  <1>4. CASE RecordActionResult(r)
    <2>1. CASE /\ pc[r] = "record"
               /\ audit' = [audit EXCEPT ![Target[r]][seq[r]] =
                              IF ok[r] THEN "success" ELSE "failed"]
      BY <1>1, <2>1 DEF RowsCovered
    <2> QED
      BY <1>2, <1>4, <2>1 DEF RecordActionResult, WriteResult, store
  <1>5. CASE MarkAuditRolledBack(r)
    <2>1. CASE /\ pc[r] = "mark"
               /\ audit' = [audit EXCEPT ![Target[r]] =
                   [t \in Seqs |-> IF t \in rolled[r] /\ @[t] = "success"
                                   THEN "rolled_back" ELSE @[t]]]
      <3>1. ASSUME NEW p \in Plans, NEW s \in Seqs
            PROVE  \/ audit'[p][s] = audit[p][s]
                   \/ /\ p = Target[r] /\ audit'[p][s] = "rolled_back"
                      /\ s \in rolled[r]
        BY <1>1, <2>1
      <3> QED
        BY <2>1, <3>1 DEF RowsCovered
    <2> QED
      BY <1>2, <1>5, <2>1 DEF MarkAuditRolledBack, MarkRows, store
  <1> QED
    BY <1>2, <1>3, <1>4, <1>5
    DEF Arrive, Crash, Serve, GetPlan, CheckRateLimit, CapturePreState, Execute,
        Rollback, FinishExecution, WriteFinal, store

\* The history of request r itself, and its part of TruthInv.
TruthOK(r) ==
  /\ HasExecutor /\ pc[r] = "act" => calls[r][seq[r]] = 1
  /\ HasExecutor /\ pc[r] = "record" => calls[r][seq[r]] = 2
  /\ pc[r] \in {"rollback", "mark"} => failed[r]
  /\ rolled[r] # {} => failed[r]

KeptBy(r) ==
  /\ failed[r] => failed'[r]
  /\ rolled[r] \subseteq rolled'[r]
  /\ \A s \in Seqs : calls[r][s] = 2 => calls'[r][s] = 2

LEMMA ServeTruthOK ==
  ASSUME TypeInv, TruthInv, NEW r \in Requests, Arrive(r) \/ Serve(r) \/ Crash(r)
  PROVE  KeptBy(r) /\ TruthOK(r)'
  <1>1. /\ pc \in [Requests -> Steps \cup {"idle", "done"}]
        /\ failed \in [Requests -> BOOLEAN]
        /\ rolled \in [Requests -> SUBSET Seqs]
        /\ seq \in [Requests -> 1..(MaxActions + 1)]
        /\ TruthOK(r)
    BY DEF TypeInv, TypeOK, TruthInv, TruthOK
  <1> USE DEF Goto, Return, store, locals, history, KeptBy, TruthOK
  <1>2. CASE Arrive(r) \/ Crash(r)
    BY <1>1, <1>2 DEF Arrive, Crash
  <1>3. CASE GetPlan(r) \/ CheckRateLimit(r)
    BY <1>1, <1>3 DEF GetPlan, CheckRateLimit
  <1>4. CASE BeginExecution(r)
    <2>1. LoopStep(1, NumActions[Target[r]]) \in {"finish", "capture", "act"}
          /\ (HasExecutor => LoopStep(1, NumActions[Target[r]]) # "act")
      BY DEF LoopStep
    <2> QED
      BY <1>1, <1>4, <2>1 DEF BeginExecution
  <1>5. CASE CapturePreState(r)
    <2>1. /\ pc[r] = "capture" /\ pc' = [pc EXCEPT ![r] = "act"]
          /\ calls' = [calls EXCEPT ![r][seq[r]] = @ + 1]
          /\ UNCHANGED <<seq, failed, rolled>>
      BY <1>5 DEF CapturePreState
    <2>2. LoopOK(r) /\ seq[r] \in Seqs
      BY <2>1, LocalTypes
    <2>3. calls[r][seq[r]] = 0
      BY <2>1, <2>2, ConstTypes DEF LoopOK, Seqs
    <2>4. \A s \in Seqs : calls'[r][s] = IF s = seq[r] THEN calls[r][s] + 1
                                                     ELSE calls[r][s]
      BY <2>1, <2>2, Call
    <2> QED
      BY <1>1, <2>1, <2>2, <2>3, <2>4
  <1>6. CASE Execute(r)
    <2>1. /\ pc[r] = "act" /\ pc' = [pc EXCEPT ![r] = "record"]
          /\ UNCHANGED <<seq, failed, rolled>>
          /\ IF HasExecutor THEN calls' = [calls EXCEPT ![r][seq[r]] = @ + 1]
                            ELSE UNCHANGED calls
      BY <1>6 DEF Execute
    <2>2. seq[r] \in Seqs
      BY <2>1, LocalTypes
    <2>3. CASE HasExecutor
      <3>1. \A s \in Seqs : calls'[r][s] = IF s = seq[r] THEN calls[r][s] + 1
                                                       ELSE calls[r][s]
        BY <2>1, <2>2, <2>3, Call
      <3> QED
        BY <1>1, <2>1, <2>2, <2>3, <3>1
    <2>4. CASE ~HasExecutor
      BY <1>1, <2>1, <2>4
    <2> QED
      BY <2>3, <2>4
  <1>7. CASE RecordActionResult(r)
    <2>1. /\ pc[r] = "record"
          /\ UNCHANGED <<rolled, calls>>
          /\ \/ NextAction(r)
             \/ StopAtFailure(r)
             \/ Goto(r, "finish") /\ UNCHANGED <<seq, failed, completed>>
      BY <1>7 DEF RecordActionResult, WriteResult, store
    <2>2. CASE NextAction(r)
      <3>1. LoopStep(seq[r] + 1, NumActions[Target[r]]) \in {"finish", "capture", "act"}
            /\ (HasExecutor => LoopStep(seq[r] + 1, NumActions[Target[r]]) # "act")
        BY DEF LoopStep
      <3> QED
        BY <1>1, <2>1, <2>2, <3>1 DEF NextAction
    <2>3. CASE StopAtFailure(r)
      BY <1>1, <2>1, <2>3 DEF StopAtFailure
    <2> QED
      BY <1>1, <2>1, <2>2, <2>3
  <1>8. CASE Rollback(r)
    <2>1. /\ pc[r] = "rollback" /\ failed[r]
          /\ UNCHANGED <<failed, calls>>
          /\ rolled' = [rolled EXCEPT ![r] = @ \cup {seq[r]}] \/ UNCHANGED rolled
          /\ pc'[r] \in {"rollback", "mark", "finish"}
      BY <1>1, <1>8 DEF Rollback
    <2> QED
      BY <1>1, <2>1
  <1>9. CASE MarkAuditRolledBack(r) \/ FinishExecution(r)
    BY <1>1, <1>9
    DEF MarkAuditRolledBack, MarkRows, store, FinishExecution, WriteFinal, store
  <1> QED
    BY <1>2, <1>3, <1>4, <1>5, <1>6, <1>7, <1>8, <1>9 DEF Serve

LEMMA ServeTruthInv ==
  ASSUME TypeInv, TruthInv, NEW r \in Requests, Arrive(r) \/ Serve(r) \/ Crash(r)
  PROVE  TruthInv'
  <1>1. KeptBy(r) /\ TruthOK(r)'
    BY ServeTruthOK
  <1>2. ASSUME NEW q \in Requests, q # r
        PROVE  UNCHANGED <<pc[q], seq[q], failed[q], rolled[q], calls[q]>>
    BY <1>2, Frame DEF TypeInv
  <1>3. HistoryKept
    BY <1>1, <1>2 DEF HistoryKept, KeptBy
  <1>4. AuditTruthful'
    BY <1>3, ServeRowsCovered, TruthfulKept
  <1>5. \A q \in Requests : TruthOK(q)'
    BY <1>1, <1>2 DEF TruthInv, TruthOK
  <1> QED
    BY <1>4, <1>5 DEF TruthInv, TruthOK

\* A success or failed row stands for an action that went through the
\* executor, a rolled_back row for one undone after a failure, whatever
\* races, faults and crashes there were.
THEOREM TrailTruthful == Spec => []AuditTruthful
  <1>1. Init => TruthInv
    BY DEF Init, TruthInv, AuditTruthful
  <1>2. TypeInv /\ TruthInv /\ [Next]_vars => TruthInv'
    <2> SUFFICES ASSUME TypeInv, TruthInv, [Next]_vars PROVE TruthInv'
      OBVIOUS
    <2>1. CASE UNCHANGED vars
      BY <2>1 DEF vars, store, locals, history, TruthInv, AuditTruthful
    <2>2. ASSUME NEW p \in Plans, CreatePlan(p) \/ ApprovePlan(p) \/ LeaveWindow(p)
          PROVE  TruthInv'
      BY <2>2
      DEF CreatePlan, InsertPlan, ApprovePlan, ApproveRow, LeaveWindow, locals, history, TruthInv,
                  AuditTruthful
    <2> QED
      BY <2>1, <2>2, ServeTruthInv DEF Next
  <1>3. TruthInv => AuditTruthful
    BY DEF TruthInv
  <1> QED
    BY <1>1, <1>2, <1>3, TypeInvariant, PTL DEF Spec

-----------------------------------------------------------------------------
(* The rate limit.                                                         *)

Past         == {"running"} \cup Terminal
CountedOf(a) == {p \in Plans : AccountOf[p] = a /\ Counted(p)}

\* The requests of an account that are past the check and have not started
\* anything yet: the window of the check-then-act.
AtBegin(a) == {r \in Requests : pc[r] = "begin" /\ AccountOf[Target[r]] = a}

\* Each of them may still take the account one further.
Room ==
  \A a \in Accounts :
    /\ IsFiniteSet(CountedOf(a)) /\ IsFiniteSet(AtBegin(a))
    /\ Cardinality(CountedOf(a)) + Cardinality(AtBegin(a)) <= RateLimit + MaxInFlight - 1

InFlightBounded == IsFiniteSet(InFlight) /\ Cardinality(InFlight) <= MaxInFlight
StartedIsPast   == \A p \in Plans : started[p] # "null" => status[p] \in Past

RateInv == InFlightBounded /\ StartedIsPast /\ Room

LEMMA LimitTypes == RateLimit \in Nat \ {0} /\ MaxInFlight \in Nat \ {0}
  BY ConfigAssumption

LEMMA InitRateInv == Init => RateInv
  <1> SUFFICES ASSUME Init PROVE RateInv
    OBVIOUS
  <1>1. InFlight = {} /\ \A a \in Accounts : CountedOf(a) = {} /\ AtBegin(a) = {}
    BY RequestAssumption DEF Init, InFlight, Steps, CountedOf, Counted, AtBegin
  <1>2. InFlightBounded /\ Room
    BY <1>1, FS_EmptySet, LimitTypes DEF InFlightBounded, Room
  <1>3. StartedIsPast
    BY DEF Init, StartedIsPast
  <1> QED
    BY <1>2, <1>3 DEF RateInv

\* A step that lets nobody through the check and starts nothing.
LEMMA QuietRoom ==
  ASSUME Room, \A a \in Accounts : CountedOf(a)' \subseteq CountedOf(a),
         \A a \in Accounts : AtBegin(a)' \subseteq AtBegin(a)
  PROVE  Room'
  <1> SUFFICES ASSUME NEW a \in Accounts
               PROVE  /\ IsFiniteSet(CountedOf(a)') /\ IsFiniteSet(AtBegin(a)')
                      /\ Cardinality(CountedOf(a)') + Cardinality(AtBegin(a)')
                           <= RateLimit + MaxInFlight - 1
    BY DEF Room
  <1> DEFINE C == CountedOf(a)
             D == CountedOf(a)'
             B == AtBegin(a)
             E == AtBegin(a)'
  <1>1. /\ IsFiniteSet(C) /\ IsFiniteSet(B) /\ D \subseteq C /\ E \subseteq B
        /\ Cardinality(C) + Cardinality(B) <= RateLimit + MaxInFlight - 1
    BY DEF Room
  <1> HIDE DEF C, D, B, E
  <1>2. /\ IsFiniteSet(D) /\ Cardinality(D) <= Cardinality(C)
        /\ IsFiniteSet(E) /\ Cardinality(E) <= Cardinality(B)
    BY <1>1, FS_Subset
  <1>3. /\ Cardinality(C) \in Nat /\ Cardinality(D) \in Nat
        /\ Cardinality(B) \in Nat /\ Cardinality(E) \in Nat
    BY <1>1, <1>2, FS_CardinalityType
  <1>4. Cardinality(D) + Cardinality(E) <= RateLimit + MaxInFlight - 1
    BY <1>1, <1>2, <1>3, LimitTypes
  <1> QED
    BY <1>2, <1>4 DEF D, E

\* The number of requests in flight only grows where a request is let in.
LEMMA ServeInFlight ==
  ASSUME TypeInv, InFlightBounded, NEW r \in Requests, Arrive(r) \/ Serve(r) \/ Crash(r)
  PROVE  InFlightBounded'
  <1>1. ASSUME NEW q \in Requests, q # r PROVE pc'[q] = pc[q]
    BY <1>1, Frame DEF TypeInv
  <1>2. CASE pc[r] \in Steps
    <2>1. InFlight' \subseteq InFlight
      BY <1>1, <1>2 DEF InFlight
    <2> QED
      BY <2>1, FS_Subset, FS_CardinalityType, LimitTypes DEF InFlightBounded
  <1>3. CASE pc[r] \notin Steps
    <2>1. Cardinality(InFlight) < MaxInFlight
      BY <1>3 DEF Arrive, Crash, Serve, GetPlan, CheckRateLimit, BeginExecution,
                  CapturePreState, Execute, RecordActionResult, Rollback,
                  MarkAuditRolledBack, FinishExecution, Steps
    <2>2. InFlight' \subseteq InFlight \cup {r}
      BY <1>1 DEF InFlight
    <2>3. /\ IsFiniteSet(InFlight \cup {r})
          /\ Cardinality(InFlight \cup {r}) <= Cardinality(InFlight) + 1
          /\ Cardinality(InFlight) \in Nat /\ Cardinality(InFlight \cup {r}) \in Nat
      BY FS_AddElement, FS_CardinalityType DEF InFlightBounded
    <2>4. IsFiniteSet(InFlight') /\ Cardinality(InFlight') <= Cardinality(InFlight \cup {r})
      BY <2>2, <2>3, FS_Subset
    <2>5. Cardinality(InFlight') \in Nat
      BY <2>4, FS_CardinalityType
    <2> QED
      BY <2>1, <2>3, <2>4, <2>5, LimitTypes DEF InFlightBounded
  <1> QED
    BY <1>2, <1>3

\* A request passes the check while its account is below the limit, and at
\* most MaxInFlight - 1 others can be past it.
LEMMA CheckRoom ==
  ASSUME TypeInv, Room, NEW r \in Requests, CheckRateLimit(r), InFlightBounded'
  PROVE  Room'
  <1>1. UNCHANGED <<status, started>> /\ pc[r] = "count"
    BY DEF CheckRateLimit, store
  <1>2. \A a \in Accounts : CountedOf(a)' = CountedOf(a)
    BY <1>1 DEF CountedOf, Counted
  <1>3. CASE pc' = [pc EXCEPT ![r] = "done"]
    <2>1. \A a \in Accounts : AtBegin(a)' \subseteq AtBegin(a)
      BY <1>3 DEF AtBegin, TypeInv, TypeOK
    <2> QED
      BY <1>2, <2>1, QuietRoom
  <1>4. CASE /\ CountExecutionsSince(AccountOf[Target[r]]) < RateLimit
             /\ pc' = [pc EXCEPT ![r] = "begin"]
    <2> DEFINE acc == AccountOf[Target[r]]
    <2>1. ASSUME NEW a \in Accounts, a # acc PROVE AtBegin(a)' = AtBegin(a)
      BY <1>1, <1>4, <2>1 DEF AtBegin, TypeInv, TypeOK
    <2>2. Cardinality(CountedOf(acc)) < RateLimit
      BY <1>4 DEF CountExecutionsSince, CountedOf
    <2>3. AtBegin(acc)' \subseteq InFlight'
      BY DEF AtBegin, InFlight, Steps
    <2>4. IsFiniteSet(AtBegin(acc)') /\ Cardinality(AtBegin(acc)') <= MaxInFlight
          /\ Cardinality(AtBegin(acc)') \in Nat
      <3>1. IsFiniteSet(InFlight') /\ Cardinality(InFlight') <= MaxInFlight
        BY DEF InFlightBounded
      <3>2. /\ IsFiniteSet(AtBegin(acc)')
            /\ Cardinality(AtBegin(acc)') <= Cardinality(InFlight')
        BY <2>3, <3>1, FS_Subset
      <3>3. Cardinality(AtBegin(acc)') \in Nat /\ Cardinality(InFlight') \in Nat
        BY <3>1, <3>2, FS_CardinalityType
      <3> QED
        BY <3>1, <3>2, <3>3, LimitTypes
    <2>5. ASSUME NEW a \in Accounts
          PROVE  /\ IsFiniteSet(CountedOf(a)') /\ IsFiniteSet(AtBegin(a)')
                 /\ Cardinality(CountedOf(a)') + Cardinality(AtBegin(a)')
                      <= RateLimit + MaxInFlight - 1
      <3>1. CASE a # acc
        BY <1>2, <2>1, <3>1 DEF Room
      <3>2. CASE a = acc
        <4>1. IsFiniteSet(CountedOf(a)') /\ Cardinality(CountedOf(a)') < RateLimit
          BY <1>2, <2>2, <3>2 DEF Room
        <4>2. Cardinality(CountedOf(a)') \in Nat
          BY <4>1, FS_CardinalityType
        <4>3. Cardinality(CountedOf(a)') + Cardinality(AtBegin(a)')
                <= RateLimit + MaxInFlight - 1
          BY <2>4, <3>2, <4>1, <4>2, LimitTypes
        <4> QED
          BY <2>4, <3>2, <4>1, <4>3
      <3> QED
        BY <3>1, <3>2
    <2> QED
      BY <2>5 DEF Room
  <1> QED
    BY <1>3, <1>4 DEF CheckRateLimit, Return, Goto

\* Whoever starts a plan leaves the window it has made use of.
LEMMA BeginRoom ==
  ASSUME TypeInv, StartedIsPast, Room, NEW r \in Requests, BeginExecution(r)
  PROVE  Room'
  <1> DEFINE p   == Target[r]
             acc == AccountOf[p]
  <1>1. /\ pc[r] = "begin" /\ pc' = [pc EXCEPT ![r] = LoopStep(1, NumActions[p])]
        /\ UNCHANGED <<status, started>> \/ StartRunning(p)
    BY DEF BeginExecution, Goto, store
  <1>2. /\ pc \in [Requests -> Steps \cup {"idle", "done"}] /\ p \in Plans
        /\ status \in [Plans -> Status] /\ started \in [Plans -> {"null", "recent", "old"}]
        /\ acc \in Accounts /\ LoopStep(1, NumActions[p]) # "begin"
    BY ConstTypes, RequestAssumption DEF TypeInv, TypeOK, LoopStep
  <1> HIDE DEF acc
  <1>3. \A a \in Accounts : AtBegin(a)' = AtBegin(a) \ {r}
    BY <1>1, <1>2 DEF AtBegin
  <1>4. CASE UNCHANGED <<status, started>>
    <2>1. \A a \in Accounts : CountedOf(a)' \subseteq CountedOf(a)
      BY <1>4 DEF CountedOf, Counted
    <2> QED
      BY <1>3, <2>1, QuietRoom
  <1>5. CASE StartRunning(p)
    <2>1. /\ status' = [status EXCEPT ![p] = "running"]
          /\ started' = [started EXCEPT ![p] = "recent"]
      BY <1>5 DEF StartRunning
    <2>2. \A a \in Accounts :
            CountedOf(a)' = IF a = acc THEN CountedOf(a) \cup {p} ELSE CountedOf(a)
      BY <1>2, <2>1 DEF CountedOf, Counted, acc
    <2>3. ASSUME NEW a \in Accounts
          PROVE  /\ IsFiniteSet(CountedOf(a)') /\ IsFiniteSet(AtBegin(a)')
                 /\ Cardinality(CountedOf(a)') + Cardinality(AtBegin(a)')
                      <= RateLimit + MaxInFlight - 1
      <3> DEFINE C == CountedOf(a)
                 B == AtBegin(a)
      <3>1. /\ IsFiniteSet(C) /\ IsFiniteSet(B)
            /\ Cardinality(C) + Cardinality(B) <= RateLimit + MaxInFlight - 1
        BY DEF Room
      <3>2. AtBegin(a)' = B \ {r}
        BY <1>3
      <3>3. a = acc => r \in B
        BY <1>1 DEF AtBegin, acc
      <3>4. CountedOf(a)' = IF a = acc THEN C \cup {p} ELSE C
        BY <2>2
      <3> HIDE DEF C, B
      <3>5. /\ IsFiniteSet(C \cup {p}) /\ IsFiniteSet(B \ {r})
            /\ Cardinality(C \cup {p}) <= Cardinality(C) + 1
            /\ Cardinality(B \ {r}) = IF r \in B THEN Cardinality(B) - 1 ELSE Cardinality(B)
            /\ Cardinality(C) \in Nat /\ Cardinality(B) \in Nat
            /\ Cardinality(C \cup {p}) \in Nat
        <4>1. /\ IsFiniteSet(C \cup {p})
              /\ Cardinality(C \cup {p}) = IF p \in C THEN Cardinality(C)
                                                      ELSE Cardinality(C) + 1
          BY <3>1, FS_AddElement, Zenon
        <4>2. /\ IsFiniteSet(B \ {r})
              /\ Cardinality(B \ {r}) = IF r \in B THEN Cardinality(B) - 1
                                                   ELSE Cardinality(B)
          BY <3>1, FS_RemoveElement, Zenon
        <4>3. /\ Cardinality(C) \in Nat /\ Cardinality(B) \in Nat
              /\ Cardinality(C \cup {p}) \in Nat
          BY <3>1, <4>1, FS_CardinalityType, Zenon
        <4>4. Cardinality(C \cup {p}) <= Cardinality(C) + 1
          BY <4>1, <4>3
        <4> QED
          BY <4>1, <4>2, <4>3, <4>4
      <3>6. CASE a = acc
        <4>1. Cardinality(C \cup {p}) + Cardinality(B \ {r}) <= RateLimit + MaxInFlight - 1
          BY <3>1, <3>3, <3>5, <3>6, LimitTypes
        <4> QED
          BY <3>2, <3>4, <3>5, <3>6, <4>1
      <3>7. CASE a # acc
        <4>1. Cardinality(C) + Cardinality(B \ {r}) <= RateLimit + MaxInFlight - 1
          BY <3>1, <3>5, LimitTypes
        <4> QED
          BY <3>1, <3>2, <3>4, <3>5, <3>7, <4>1
      <3> QED
        BY <3>6, <3>7
    <2> QED
      BY <2>3 DEF Room
  <1> QED
    BY <1>1, <1>4, <1>5

\* No other step of a request reaches "begin" or writes started_at.
LEMMA OtherSteps ==
  ASSUME TypeInv, NEW r \in Requests, Arrive(r) \/ Serve(r) \/ Crash(r),
         pc[r] \notin {"count", "begin"}
  PROVE  pc'[r] # "begin" /\ UNCHANGED started
  <1> USE DEF TypeInv, TypeOK, Goto, Return, store, locals, history
  <1>1. CASE Arrive(r) \/ GetPlan(r) \/ Crash(r)
    BY <1>1 DEF Arrive, GetPlan, Crash
  <1>2. CASE CapturePreState(r) \/ Execute(r) \/ Rollback(r)
    BY <1>2 DEF CapturePreState, Execute, Rollback
  <1>3. CASE RecordActionResult(r)
    BY <1>3 DEF RecordActionResult, WriteResult, NextAction, StopAtFailure, LoopStep
  <1>4. CASE MarkAuditRolledBack(r) \/ FinishExecution(r)
    BY <1>4 DEF MarkAuditRolledBack, MarkRows, FinishExecution, WriteFinal
  <1> QED
    BY <1>1, <1>2, <1>3, <1>4 DEF Serve, CheckRateLimit, BeginExecution

\* A plan a late request finishes was counted before.
LEMMA QuietStep ==
  ASSUME TypeInv, StartedIsPast, Room, NEW r \in Requests,
         Arrive(r) \/ Serve(r) \/ Crash(r), ~CheckRateLimit(r), ~BeginExecution(r)
  PROVE  Room'
  <1>1. CASE Crash(r)
    <2>1. UNCHANGED <<status, started>> /\ pc' = [pc EXCEPT ![r] = "done"]
      BY <1>1 DEF Crash, store, Goto
    <2>2. \A a \in Accounts : CountedOf(a)' \subseteq CountedOf(a)
      BY <2>1 DEF CountedOf, Counted
    <2>3. \A a \in Accounts : AtBegin(a)' \subseteq AtBegin(a)
      BY <2>1 DEF AtBegin, TypeInv, TypeOK
    <2> QED
      BY <2>2, <2>3, QuietRoom
  <1>2. CASE ~Crash(r)
    <2>1. pc[r] \notin {"count", "begin"}
      BY <1>2 DEF Arrive, Serve, GetPlan, CapturePreState, Execute, RecordActionResult,
                  Rollback, MarkAuditRolledBack, FinishExecution
    <2>2. /\ pc'[r] # "begin" /\ UNCHANGED started
          /\ \A q \in Requests : q # r => pc'[q] = pc[q]
      <3>1. pc'[r] # "begin" /\ UNCHANGED started
        BY <2>1, OtherSteps
      <3>2. ASSUME NEW q \in Requests, q # r PROVE pc'[q] = pc[q]
        BY <3>2, Frame DEF TypeInv
      <3> QED
        BY <3>1, <3>2
    <2>3. \A p \in Plans : status'[p] = status[p] \/ status'[p] \in Terminal
      <3>1. StoreEffect(r)
        BY StepEffect
      <3>2. UNCHANGED status \/ \E t \in Terminal : status' = [status EXCEPT ![Target[r]] = t]
        BY <2>1, <3>1 DEF StoreEffect
      <3> QED
        BY <3>2 DEF TypeInv, TypeOK
    <2>4. \A a \in Accounts : CountedOf(a)' \subseteq CountedOf(a)
      BY <2>2, <2>3 DEF CountedOf, Counted, StartedIsPast, Past
    <2>5. \A a \in Accounts : AtBegin(a)' \subseteq AtBegin(a)
      BY <2>2 DEF AtBegin
    <2> QED
      BY <2>4, <2>5, QuietRoom
  <1> QED
    BY <1>1, <1>2

LEMMA ServeStarted ==
  ASSUME TypeInv, StartedIsPast, NEW r \in Requests, Arrive(r) \/ Serve(r) \/ Crash(r)
  PROVE  StartedIsPast'
  <1>1. Target[r] \in Plans /\ status \in [Plans -> Status]
        /\ started \in [Plans -> {"null", "recent", "old"}]
    BY ConstTypes DEF TypeInv, TypeOK
  <1>2. CASE StartRunning(Target[r])
    BY <1>1, <1>2 DEF StartRunning, StartedIsPast, Past
  <1>3. CASE UNCHANGED <<status, started>>
    BY <1>3 DEF StartedIsPast
  <1>4. CASE pc[r] \notin {"count", "begin"}
    <2>1. /\ UNCHANGED started
          /\ \A p \in Plans : status'[p] = status[p] \/ status'[p] \in Terminal
      BY <1>1, <1>4, OtherSteps, StepEffect DEF StoreEffect
    <2> QED
      BY <2>1 DEF StartedIsPast, Past
  <1>5. CASE pc[r] \in {"count", "begin"}
    <2>1. CheckRateLimit(r) \/ BeginExecution(r) \/ Crash(r)
      BY <1>5 DEF Arrive, Serve, GetPlan, CapturePreState, Execute, RecordActionResult,
                  Rollback, MarkAuditRolledBack, FinishExecution
    <2> QED
      BY <1>2, <1>3, <2>1 DEF CheckRateLimit, BeginExecution, Crash, store
  <1> QED
    BY <1>4, <1>5

LEMMA StepRateInv == TypeInv /\ RateInv /\ [Next]_vars => RateInv'
  <1> SUFFICES ASSUME TypeInv, RateInv, [Next]_vars PROVE RateInv'
    OBVIOUS
  <1>1. InFlightBounded /\ StartedIsPast /\ Room
    BY DEF RateInv
  <1>2. CASE UNCHANGED vars
    BY <1>1, <1>2 DEF vars, store, InFlightBounded, InFlight, StartedIsPast, Room, CountedOf,
                      Counted, AtBegin, RateInv
  <1>3. ASSUME NEW p \in Plans, CreatePlan(p) \/ ApprovePlan(p) \/ LeaveWindow(p)
        PROVE  RateInv'
    <2>1. UNCHANGED pc
      BY <1>3 DEF CreatePlan, ApprovePlan, LeaveWindow
    <2>2. status \in [Plans -> Status] /\ started \in [Plans -> {"null", "recent", "old"}]
      BY DEF TypeInv, TypeOK
    <2>3. /\ \A q \in Plans : started'[q] = started[q]
                              \/ (started[q] = "recent" /\ started'[q] = "old")
          /\ \A q \in Plans : status'[q] = status[q] \/ status[q] \in {"absent", "planned"}
          /\ \A q \in Plans : status'[q] = status[q] \/ started'[q] = started[q]
      BY <1>3, <2>2 DEF CreatePlan, InsertPlan, ApprovePlan, ApproveRow, LeaveWindow
    <2>4. StartedIsPast'
      BY <1>1, <2>3 DEF StartedIsPast, Past, Terminal
    <2>5. \A a \in Accounts : CountedOf(a)' \subseteq CountedOf(a)
      BY <1>1, <2>3 DEF CountedOf, Counted, StartedIsPast, Past, Terminal
    <2>6. \A a \in Accounts : AtBegin(a)' \subseteq AtBegin(a)
      BY <2>1 DEF AtBegin
    <2>7. InFlightBounded'
      BY <1>1, <2>1 DEF InFlightBounded, InFlight
    <2> QED
      BY <1>1, <2>4, <2>5, <2>6, <2>7, QuietRoom DEF RateInv
  <1>4. ASSUME NEW r \in Requests, Arrive(r) \/ Serve(r) \/ Crash(r)
        PROVE  RateInv'
    <2>1. InFlightBounded'
      BY <1>1, <1>4, ServeInFlight
    <2>2. StartedIsPast'
      BY <1>1, <1>4, ServeStarted
    <2>3. Room'
      BY <1>1, <1>4, <2>1, CheckRoom, BeginRoom, QuietStep
    <2> QED
      BY <2>1, <2>2, <2>3 DEF RateInv
  <1> QED
    BY <1>2, <1>3, <1>4 DEF Next

\* The check-then-act window lets an account past its limit by less than the
\* number of requests served at a time, for any number of plans and requests
\* and with faults and crashes: every plan counted above the limit had its
\* own request between the check and the compare-and-set.
THEOREM OvershootBounded == Spec => []RateLimitOvershoot
  <1>1. RateInv => RateLimitOvershoot
    <2> SUFFICES ASSUME Room, NEW a \in Accounts
                 PROVE  CountExecutionsSince(a) <= RateLimit + MaxInFlight - 1
      BY DEF RateInv, RateLimitOvershoot
    <2>1. /\ IsFiniteSet(CountedOf(a)) /\ IsFiniteSet(AtBegin(a))
          /\ Cardinality(CountedOf(a)) + Cardinality(AtBegin(a)) <= RateLimit + MaxInFlight - 1
      BY DEF Room
    <2>2. Cardinality(CountedOf(a)) \in Nat /\ Cardinality(AtBegin(a)) \in Nat
      BY <2>1, FS_CardinalityType
    <2>3. CountExecutionsSince(a) = Cardinality(CountedOf(a))
      BY DEF CountExecutionsSince, CountedOf
    <2> QED
      BY <2>1, <2>2, <2>3, LimitTypes
  <1> QED
    BY <1>1, InitRateInv, StepRateInv, TypeInvariant, PTL DEF Spec

-----------------------------------------------------------------------------
(* The audit rows of the actions that reach the cloud.                     *)

Looping == {"capture", "act", "record", "rollback", "mark", "finish"}

\* Without faults of the store, a request only reaches its loop when it, or
\* whoever was faster, has started the plan and written its audit rows.
AuditedInv ==
  /\ \A p \in Plans : status[p] \in Past =>
       \A s \in Seqs : s <= NumActions[p] => audit[p][s] # "none"
  /\ \A r \in Requests :
       /\ pc[r] \in Looping => status[Target[r]] \in Past
       /\ pc[r] \in {"count", "begin"} => status[Target[r]] \in {"approved"} \cup Past
  /\ EveryCallAudited

\* Where a request's step leads, and what it knows of the plan's status.
LEMMA LoopGate ==
  ASSUME ~DBFaults, TypeInv, NEW r \in Requests, Arrive(r) \/ Serve(r) \/ Crash(r)
  PROVE  /\ pc'[r] \in Looping => pc[r] \in Looping \/ pc[r] = "begin"
         /\ pc[r] = "begin" /\ pc'[r] \in Looping =>
              StartRunning(Target[r])
              \/ (status[Target[r]] # "approved" /\ UNCHANGED status)
         /\ pc'[r] \in {"count", "begin"} =>
              UNCHANGED status
              /\ (pc[r] = "count" \/ status[Target[r]] = "approved")
  <1> USE DEF TypeInv, TypeOK, Goto, Return, store, locals, history, Looping
  <1>1. CASE Arrive(r) \/ Crash(r) \/ CheckRateLimit(r)
    BY <1>1 DEF Arrive, Crash, CheckRateLimit
  <1>2. CASE GetPlan(r)
    <2>1. status[Target[r]] \in Status
      BY ConstTypes
    <2> QED
      BY <1>2, <2>1, RunningFromApproved DEF GetPlan
  <1>3. CASE BeginExecution(r)
    BY <1>3 DEF BeginExecution, LoopStep
  <1>4. CASE CapturePreState(r) \/ Execute(r) \/ Rollback(r)
    BY <1>4 DEF CapturePreState, Execute, Rollback
  <1>5. CASE RecordActionResult(r)
    BY <1>5 DEF RecordActionResult, WriteResult, NextAction, StopAtFailure, LoopStep
  <1>6. CASE MarkAuditRolledBack(r) \/ FinishExecution(r)
    BY <1>6 DEF MarkAuditRolledBack, MarkRows, FinishExecution, WriteFinal
  <1> QED
    BY <1>1, <1>2, <1>3, <1>4, <1>5, <1>6 DEF Serve

\* The executor is called for the action the loop is at.
LEMMA CallGate ==
  ASSUME TypeInv, NEW r \in Requests, Arrive(r) \/ Serve(r) \/ Crash(r),
         NEW q \in Requests, NEW s \in Seqs, calls'[q][s] # calls[q][s]
  PROVE  q = r /\ pc[r] \in {"capture", "act"} /\ s <= NumActions[Target[r]]
  <1>1. q = r
    BY Frame DEF TypeInv
  <1>2. CASE CapturePreState(r) \/ Execute(r)
    <2>1. /\ pc[r] \in {"capture", "act"}
          /\ calls' = [calls EXCEPT ![r][seq[r]] = @ + 1] \/ UNCHANGED calls
      BY <1>2 DEF CapturePreState, Execute
    <2>2. LoopOK(r) /\ seq[r] \in Seqs
      BY <2>1, LocalTypes
    <2>3. calls' = [calls EXCEPT ![r][seq[r]] = @ + 1]
      BY <2>1
    <2>4. s = seq[r]
      BY <1>1, <2>2, <2>3, Call
    <2> QED
      BY <1>1, <2>1, <2>2, <2>4 DEF LoopOK
  <1>3. CASE ~(CapturePreState(r) \/ Execute(r))
    <2>1. UNCHANGED calls
      BY <1>3 DEF Arrive, Crash, Serve, GetPlan, CheckRateLimit, BeginExecution,
                  RecordActionResult, Rollback, MarkAuditRolledBack, FinishExecution,
                  history
    <2> QED
      BY <2>1
  <1> QED
    BY <1>2, <1>3

LEMMA ServeAuditedInv ==
  ASSUME ~DBFaults, TypeInv, AuditedInv, NEW r \in Requests,
         Arrive(r) \/ Serve(r) \/ Crash(r)
  PROVE  AuditedInv'
  <1> DEFINE p == Target[r]
  <1>1. StoreEffect(r) /\ p \in Plans /\ NumActions[p] \in 0..MaxActions /\ MaxActions \in Nat
    BY StepEffect, ConstTypes
  <1>2. status \in [Plans -> Status] /\ audit \in [Plans -> [Seqs -> AuditStatus]]
    BY DEF TypeInv, TypeOK
  <1>3. \A q \in Plans, s \in Seqs : audit[q][s] # "none" => audit'[q][s] # "none"
    BY ServeRowsCovered DEF RowsCovered
  <1>4. \A q \in Plans : status[q] \in Past => status'[q] \in Past
    BY <1>1, <1>2 DEF StoreEffect, StartRunning, Past
  <1>5. CASE StartRunning(p)
    <2>1. /\ status'[p] = "running" /\ \A q \in Plans : q # p => status'[q] = status[q]
          /\ \A s \in Seqs : s <= NumActions[p] => audit'[p][s] # "none"
      BY <1>1, <1>2, <1>5 DEF StartRunning
    <2> QED
      <3>1. \A q \in Plans : status'[q] \in Past =>
              \A s \in Seqs : s <= NumActions[q] => audit'[q][s] # "none"
        BY <1>3, <2>1 DEF AuditedInv
      <3>2. \A q \in Plans : status[q] \in {"approved"} \cup Past => status'[q] \in {"approved"} \cup Past
        BY <2>1 DEF Past
      <3>3. pc'[r] \in {"count", "begin"} => status'[p] \in {"approved"} \cup Past
        BY <2>1 DEF Past
      <3>4. \A q \in Requests :
              /\ pc'[q] \in Looping => status'[Target[q]] \in Past
              /\ pc'[q] \in {"count", "begin"} => status'[Target[q]] \in {"approved"} \cup Past
        <4> SUFFICES ASSUME NEW q \in Requests
                     PROVE  /\ pc'[q] \in Looping => status'[Target[q]] \in Past
                            /\ pc'[q] \in {"count", "begin"} =>
                                 status'[Target[q]] \in {"approved"} \cup Past
          OBVIOUS
        <4>1. CASE q = r
          BY <2>1, <4>1 DEF Past
        <4>2. CASE q # r
          BY <1>4, <3>2, <4>2, Frame, ConstTypes DEF AuditedInv, TypeInv
        <4> QED
          BY <4>1, <4>2
      <3>5. \A q \in Requests : calls'[q] = calls[q]
        <4>1. pc[r] \notin {"capture", "act"}
          <5>1. status[p] = "approved"
            BY <1>5 DEF StartRunning
          <5> QED
            BY <5>1 DEF AuditedInv, Past, Terminal, Looping
        <4>2. \A q \in Requests, s \in Seqs : calls'[q][s] = calls[q][s]
          BY <4>1, CallGate
        <4>3. \A q \in Requests : calls[q] \in [Seqs -> 0..2] /\ calls'[q] \in [Seqs -> 0..2]
          BY StepTypeInv DEF TypeInv, TypeOK, Next
        <4> QED
          BY <4>2, <4>3
      <3>6. EveryCallAudited'
        BY <1>3, <3>5, ConstTypes DEF AuditedInv, EveryCallAudited
      <3> QED
        BY <3>1, <3>4, <3>6 DEF AuditedInv
  <1>6. CASE ~StartRunning(p)
    <2>1. \/ UNCHANGED status
          \/ pc[r] = "finish" /\ \E t \in Terminal : status' = [status EXCEPT ![p] = t]
      BY <1>1, <1>6 DEF StoreEffect
    <2>2. \A q \in Plans : status'[q] \in Past <=> status[q] \in Past
      BY <1>1, <1>2, <1>4, <2>1 DEF AuditedInv, Looping
    <2>3. \A q \in Plans : status[q] \in {"approved"} \cup Past => status'[q] \in {"approved"} \cup Past
      BY <1>2, <1>4, <2>1, <2>2 DEF Past, Terminal
    <2>4. \A q \in Plans : status'[q] \in Past =>
            \A s \in Seqs : s <= NumActions[q] => audit'[q][s] # "none"
      BY <1>3, <2>2 DEF AuditedInv
    <2>5. \A q \in Requests :
            /\ pc'[q] \in Looping => status'[Target[q]] \in Past
            /\ pc'[q] \in {"count", "begin"} => status'[Target[q]] \in {"approved"} \cup Past
      <3> SUFFICES ASSUME NEW q \in Requests
                   PROVE  /\ pc'[q] \in Looping => status'[Target[q]] \in Past
                          /\ pc'[q] \in {"count", "begin"} =>
                               status'[Target[q]] \in {"approved"} \cup Past
        OBVIOUS
      <3>1. CASE q # r
        BY <2>2, <2>3, <3>1, Frame, ConstTypes DEF AuditedInv, TypeInv
      <3>2. CASE q = r
        <4>1. pc'[r] \in Looping => status'[p] \in Past
          <5>1. ASSUME pc'[r] \in Looping PROVE status[p] \in Past
            <6>1. CASE pc[r] \in Looping
              BY <6>1 DEF AuditedInv
            <6>2. CASE pc[r] = "begin"
              BY <1>6, <5>1, <6>2, LoopGate DEF AuditedInv
            <6> QED
              BY <5>1, <6>1, <6>2, LoopGate
          <5> QED
            BY <1>1, <1>4, <5>1
        <4>2. pc'[r] \in {"count", "begin"} => status'[p] \in {"approved"} \cup Past
          BY LoopGate DEF AuditedInv
        <4> QED
          BY <3>2, <4>1, <4>2
      <3> QED
        BY <3>1, <3>2
    <2>6. EveryCallAudited'
      <3> SUFFICES ASSUME NEW q \in Requests, NEW s \in Seqs, calls'[q][s] > 0
                   PROVE  audit'[Target[q]][s] # "none"
        BY DEF EveryCallAudited
      <3>1. CASE calls'[q][s] = calls[q][s]
        BY <1>3, <3>1, ConstTypes DEF AuditedInv, EveryCallAudited
      <3>2. CASE calls'[q][s] # calls[q][s]
        <4>1. q = r /\ status[p] \in Past /\ s <= NumActions[p]
          BY <3>2, CallGate DEF AuditedInv, Looping
        <4> QED
          BY <1>1, <1>3, <4>1 DEF AuditedInv
      <3> QED
        BY <3>1, <3>2
    <2> QED
      BY <2>4, <2>5, <2>6 DEF AuditedInv
  <1> QED
    BY <1>5, <1>6

LEMMA StepAuditedInv ==
  ASSUME ~DBFaults
  PROVE  TypeInv /\ AuditedInv /\ [Next]_vars => AuditedInv'
  <1> SUFFICES ASSUME TypeInv, AuditedInv, [Next]_vars PROVE AuditedInv'
    OBVIOUS
  <1>1. CASE UNCHANGED vars
    BY <1>1 DEF vars, store, locals, history, AuditedInv, EveryCallAudited
  <1>2. ASSUME NEW p \in Plans, CreatePlan(p) \/ ApprovePlan(p) \/ LeaveWindow(p)
        PROVE  AuditedInv'
    <2>1. UNCHANGED <<audit, pc, calls>>
      BY <1>2 DEF CreatePlan, InsertPlan, ApprovePlan, ApproveRow, LeaveWindow, history
    <2>2. \A q \in Plans : status'[q] = status[q]
                           \/ (status[q] \in {"absent", "planned"}
                               /\ status'[q] \in {"planned", "approved"})
      BY <1>2 DEF CreatePlan, InsertPlan, ApprovePlan, ApproveRow, LeaveWindow, TypeInv, TypeOK
    <2> QED
      BY <2>1, <2>2, ConstTypes DEF AuditedInv, EveryCallAudited, Past, Terminal
  <1> QED
    BY <1>1, <1>2, ServeAuditedInv DEF Next

LEMMA AuditedInvariant ==
  ASSUME ~DBFaults
  PROVE  Spec => []AuditedInv
  <1>1. Init => AuditedInv
    BY DEF Init, AuditedInv, EveryCallAudited, Past, Terminal, Looping, Seqs
  <1> QED
    BY <1>1, StepAuditedInv, TypeInvariant, PTL DEF Spec

\* A store without faults has the audit row of every action that reached the
\* cloud: the handler goes on after a refused BeginExecution, but a refusal
\* means that another request has written the rows.
THEOREM CallsAudited ==
  ASSUME ~DBFaults
  PROVE  Spec => []EveryCallAudited
  <1>1. AuditedInv => EveryCallAudited
    BY DEF AuditedInv
  <1> QED
    BY <1>1, AuditedInvariant, PTL
=============================================================================
