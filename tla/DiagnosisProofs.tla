-------------------------- MODULE DiagnosisProofs --------------------------
(***************************************************************************)
(* Proofs about Diagnosis, for any tools, any number of rounds and of      *)
(* calls in a reply, and about its caller EvalGate, for any baseline.      *)
(***************************************************************************)
EXTENDS EvalGate, FiniteSetTheorems, WellFoundedInduction, TLAPS

\* What the step the run is at says of the round, the outcome and the row.
Progress ==
  /\ pc = "idle" => messages = <<>>
  /\ pc = "tools" => toolUses \in ToolCalls
  /\ pc # "tools" => running = {}
  /\ pc # "done" => row = NoPlan
  /\ pc = "store" => dryRun /\ outcome \in {"stub", "answered", "truncated"}

IInv == TypeOK /\ Progress /\ PlanOfCleanRun

\* The calls of a reply are numbered from 1 to MaxUses at most.
LEMMA ToolCallsAreSequences ==
  ASSUME NEW uses \in ToolCalls
  PROVE  /\ uses \in Seq(Tools) /\ DOMAIN uses \subseteq 1..MaxUses
         /\ \A i \in DOMAIN uses : uses[i] \in Tools
         /\ \E n \in Nat : DOMAIN uses = 1..n
<1>1. PICK n \in 1..MaxUses : uses \in [1..n -> Tools]
  BY DEF ToolCalls
<1> QED
  BY <1>1, BoundAssumption

LEMMA EmptyRound == <<>> \in [DOMAIN <<>> -> Results]
OBVIOUS

LEMMA InitIInv == Init => IInv
<1> SUFFICES ASSUME Init PROVE IInv
  OBVIOUS
<1>1. TypeOK
  <2>1. /\ toolUses \in ToolCalls \cup {<<>>} /\ toolResults \in [DOMAIN toolUses -> Results]
        /\ running \subseteq DOMAIN toolUses
    BY EmptyRound DEF Init
  <2>2. messages \in Seq([calls : ToolCalls, results : Seq(Results)]) /\ Len(messages) = 0
    BY DEF Init
  <2>3. planned \in Seq(Actions) /\ blocked \in Seq(Tools) /\ observedReads \in Seq(Places)
    BY DEF Init
  <2>4. stub \in BOOLEAN /\ dryRun \in BOOLEAN /\ cancelled \in BOOLEAN /\ groupErr \in BOOLEAN
    BY DEF Init
  <2>5. /\ pc = "idle" /\ outcome = "none" /\ row = NoPlan
    BY DEF Init
  <2>6. Len(messages) \in 0..maxToolIterations
    BY <2>2, BoundAssumption
  <2> QED
    BY <2>1, <2>2, <2>3, <2>4, <2>5, <2>6 DEF TypeOK
<1>2. Progress /\ PlanOfCleanRun
  BY DEF Init, Progress, PlanOfCleanRun
<1> QED
  BY <1>1, <1>2 DEF IInv

LEMMA BeginIInv ==
  ASSUME IInv, NEW s \in BOOLEAN, NEW d \in BOOLEAN, Begin(s, d)
  PROVE  IInv'
<1>1. Len(messages) = 0
  BY DEF IInv, Progress, Begin
<1>2. TypeOK'
  BY <1>1, BoundAssumption DEF IInv, TypeOK, Begin, round, books
<1>3. Progress' /\ PlanOfCleanRun'
  BY DEF IInv, Progress, PlanOfCleanRun, Begin, round, books
<1> QED
  BY <1>2, <1>3 DEF IInv

\* The run returns, with an outcome that fits where it goes on.
LEMMA ReturnIInv ==
  ASSUME IInv, pc \in {"ask", "tools"},
         NEW o \in {"stub", "answered", "truncated", "failed"}, Return(o),
         UNCHANGED <<client, cancelled, books, row>>, running' = {},
         toolUses' \in ToolCalls \cup {<<>>}, toolResults' \in [DOMAIN toolUses' -> Results],
         groupErr' \in BOOLEAN,
         messages' \in Seq([calls : ToolCalls, results : Seq(Results)]),
         Len(messages') \in 0..maxToolIterations
  PROVE  IInv'
<1>1. /\ outcome' = o /\ pc' \in {"store", "done"}
      /\ pc' = "store" => dryRun /\ o # "failed"
  BY DEF Return
<1>2. row = NoPlan /\ row' = NoPlan
  BY DEF IInv, Progress
<1>3. TypeOK'
  BY <1>1, <1>2 DEF IInv, TypeOK, client, books
<1>4. Progress' /\ PlanOfCleanRun'
  BY <1>1, <1>2 DEF Progress, PlanOfCleanRun, client
<1> QED
  BY <1>3, <1>4 DEF IInv

LEMMA AnswersIInv ==
  ASSUME IInv, StubDiagnosis \/ AskForText \/ InferenceFails
  PROVE  IInv'
<1>1. /\ UNCHANGED <<client, cancelled, messages, round, books, row>> /\ pc = "ask"
      /\ \E o \in {"stub", "answered", "truncated", "failed"} : Return(o)
  BY DEF StubDiagnosis, AskForText, InferenceFails
<1>2. /\ running' = {} /\ groupErr' \in BOOLEAN /\ toolUses' \in ToolCalls \cup {<<>>}
      /\ toolResults' \in [DOMAIN toolUses' -> Results]
  BY <1>1 DEF IInv, TypeOK, Progress, round
<1>3. /\ messages' \in Seq([calls : ToolCalls, results : Seq(Results)])
      /\ Len(messages') \in 0..maxToolIterations
  BY <1>1 DEF IInv, TypeOK
<1> QED
  BY <1>1, <1>2, <1>3, ReturnIInv

LEMMA AskForToolsIInv == ASSUME IInv, AskForTools PROVE IInv'
<1>1. /\ toolUses' \in ToolCalls /\ toolResults' \in [DOMAIN toolUses' -> Results]
      /\ running' = DOMAIN toolUses' /\ pc = "ask" /\ pc' = "tools"
      /\ UNCHANGED <<client, cancelled, messages, groupErr, books, outcome, row>>
  BY DEF AskForTools, Results
<1>2. TypeOK'
  BY <1>1 DEF IInv, TypeOK, client, books
<1>3. Progress' /\ PlanOfCleanRun'
  BY <1>1 DEF IInv, Progress, PlanOfCleanRun
<1> QED
  BY <1>2, <1>3 DEF IInv

\* A goroutine fills its own slot, and enters well-formed items into the books.
LEMMA ExecuteToolIInv ==
  ASSUME IInv, NEW i \in running, ExecuteTool(i)
  PROVE  IInv'
<1>1. /\ pc = "tools" /\ running' = running \ {i}
      /\ UNCHANGED <<client, pc, cancelled, messages, toolUses, outcome, row>>
      /\ \/ ReadTool(i) \/ CaptureWrite(i) \/ Block(i)
         \/ groupErr' = TRUE /\ UNCHANGED <<toolResults, books>>
  BY DEF ExecuteTool
<1>2. /\ toolUses \in ToolCalls /\ i \in DOMAIN toolUses /\ row = NoPlan
      /\ toolResults \in [DOMAIN toolUses -> Results] /\ groupErr \in BOOLEAN
      /\ planned \in Seq(Actions) /\ blocked \in Seq(Tools)
      /\ observedReads \in Seq(Places) /\ Len(messages) \in 0..maxToolIterations
      /\ Len(messages) < maxToolIterations
  BY <1>1 DEF IInv, TypeOK, Progress
<1>3. i \in 1..MaxUses /\ toolUses[i] \in Tools
  BY <1>2, ToolCallsAreSequences
<1>4. /\ toolResults' \in [DOMAIN toolUses -> Results] /\ groupErr' \in BOOLEAN
      /\ planned' \in Seq(Actions) /\ blocked' \in Seq(Tools)
      /\ observedReads' \in Seq(Places)
  <2>1. CASE ReadTool(i)
    <3>1. Place(i) \in Places
      BY <1>2, <1>3, BoundAssumption DEF Place, Places
    <3> QED
      BY <1>2, <2>1, <3>1 DEF ReadTool, Answer, IsAllowed, Results
  <2>2. CASE CaptureWrite(i)
    <3>1. buildPlannedAction(i) \in Actions
      <4>1. Place(i) \in Places
        BY <1>2, <1>3, BoundAssumption DEF Place, Places
      <4> QED
        BY <1>2, <2>2, <4>1 DEF CaptureWrite, GetWriteTool, buildPlannedAction, Actions
    <3> QED
      BY <1>2, <2>2, <3>1 DEF CaptureWrite, Answer, Results
  <2>3. CASE Block(i)
    BY <1>2, <1>3, <2>3 DEF Block, Answer, Results
  <2>4. CASE groupErr' = TRUE /\ UNCHANGED <<toolResults, books>>
    BY <1>2, <2>4 DEF books
  <2> QED
    BY <1>1, <2>1, <2>2, <2>3, <2>4
<1>5. TypeOK'
  BY <1>1, <1>2, <1>4 DEF IInv, TypeOK, client
<1>6. Progress' /\ PlanOfCleanRun'
  BY <1>1, <1>2 DEF IInv, Progress, PlanOfCleanRun, client
<1> QED
  BY <1>5, <1>6 DEF IInv

LEMMA WaitForToolsIInv == ASSUME IInv, WaitForTools PROVE IInv'
<1> DEFINE done == [calls |-> toolUses, results |-> toolResults]
<1>1. /\ pc = "tools" /\ running = {} /\ running' = {} /\ groupErr' = FALSE
      /\ toolUses' \in ToolCalls \cup {<<>>}
      /\ toolResults' \in [DOMAIN toolUses' -> Results]
      /\ UNCHANGED <<client, cancelled, books, row>>
      /\ \/ Return("failed") /\ messages' = messages
         \/ /\ messages' = Append(messages, done)
            /\ \/ Len(messages') = maxToolIterations /\ Return("truncated")
               \/ /\ Len(messages') # maxToolIterations
                  /\ pc' = "ask" /\ UNCHANGED outcome
  BY EmptyRound DEF WaitForTools
<1>2. /\ toolUses \in ToolCalls /\ toolResults \in Seq(Results)
      /\ messages \in Seq([calls : ToolCalls, results : Seq(Results)])
      /\ Len(messages) \in 0..maxToolIterations /\ Len(messages) < maxToolIterations
  <2>1. toolUses \in ToolCalls /\ toolResults \in [DOMAIN toolUses -> Results]
    BY <1>1 DEF IInv, TypeOK, Progress
  <2>2. \E n \in Nat : DOMAIN toolUses = 1..n
    BY <2>1, ToolCallsAreSequences
  <2>3. toolResults \in Seq(Results)
    BY <2>1, <2>2
  <2> QED
    BY <1>1, <2>1, <2>3 DEF IInv, TypeOK
<1>3. /\ Append(messages, done) \in Seq([calls : ToolCalls, results : Seq(Results)])
      /\ Len(Append(messages, done)) = Len(messages) + 1
  BY <1>2
<1>4. CASE Return("failed") /\ messages' = messages
  BY <1>1, <1>2, <1>4, ReturnIInv
<1>5. CASE messages' = Append(messages, done) /\ Return("truncated")
  <2>1. Len(messages') \in 0..maxToolIterations
    BY <1>2, <1>3, <1>5, BoundAssumption
  <2> QED
    BY <1>1, <1>3, <1>5, <2>1, ReturnIInv
<1>6. CASE /\ messages' = Append(messages, done) /\ Len(messages') # maxToolIterations
           /\ pc' = "ask" /\ UNCHANGED outcome
  <2>1. Len(messages') \in 0..maxToolIterations /\ Len(messages') < maxToolIterations
    BY <1>2, <1>3, <1>6, BoundAssumption
  <2>2. TypeOK'
    BY <1>1, <1>3, <1>6, <2>1 DEF IInv, TypeOK, client, books
  <2>3. Progress' /\ PlanOfCleanRun'
    BY <1>1, <1>6 DEF IInv, Progress, PlanOfCleanRun
  <2> QED
    BY <2>2, <2>3 DEF IInv
<1> QED
  BY <1>1, <1>4, <1>5, <1>6

\* The row is made of the books as they are, and nothing changes them later.
LEMMA StorePlanIInv == ASSUME IInv, StorePlan PROVE IInv'
<1>1. /\ pc = "store" /\ pc' = "done"
      /\ UNCHANGED <<client, cancelled, messages, round, books, outcome>>
      /\ \/ row' = [would_execute |-> planned, blocked_by_policy |-> blocked]
         \/ UNCHANGED row
  BY DEF StorePlan
<1>2. TypeOK'
  <2>1. row' = NoPlan \/ row' \in [would_execute : Seq(Actions), blocked_by_policy : Seq(Tools)]
    BY <1>1 DEF IInv, TypeOK
  <2> QED
    BY <1>1, <2>1 DEF IInv, TypeOK, client, round, books
<1>3. Progress' /\ PlanOfCleanRun'
  BY <1>1 DEF IInv, Progress, PlanOfCleanRun, round, books
<1> QED
  BY <1>2, <1>3 DEF IInv

LEMMA CancelIInv == ASSUME IInv, Cancel PROVE IInv'
<1>1. cancelled' = TRUE /\ UNCHANGED <<client, pc, messages, round, books, outcome, row>>
  BY DEF Cancel
<1>2. TypeOK'
  BY <1>1 DEF IInv, TypeOK, client, round, books
<1>3. Progress' /\ PlanOfCleanRun'
  BY <1>1 DEF IInv, Progress, PlanOfCleanRun, client, round, books
<1> QED
  BY <1>2, <1>3 DEF IInv

LEMMA NextIInv == IInv /\ [Next]_vars => IInv'
<1> SUFFICES ASSUME IInv, [Next]_vars PROVE IInv'
  OBVIOUS
<1>1. CASE \E s, d \in BOOLEAN : Begin(s, d)
  BY <1>1, BeginIInv
<1>2. CASE Run
  BY <1>2, AnswersIInv, AskForToolsIInv, ExecuteToolIInv, WaitForToolsIInv, StorePlanIInv
  DEF Run
<1>3. CASE Cancel
  BY <1>3, CancelIInv
<1>4. CASE UNCHANGED vars
  BY <1>4
  DEF vars, client, round, books, IInv, TypeOK, Progress, PlanOfCleanRun
<1> QED
  BY <1>1, <1>2, <1>3, <1>4 DEF Next

LEMMA Invariance == Spec => []IInv
BY InitIInv, NextIInv, PTL DEF Spec

\* The types: there is a result slot for every call, and no round is begun
\* beyond the last.
THEOREM TypeCorrect == Spec => []TypeOK
<1>1. IInv => TypeOK
  BY DEF IInv
<1> QED
  BY <1>1, Invariance, PTL

\* A plan row holds all of what a run that ended without an error collected.
THEOREM CleanPlans == Spec => []PlanOfCleanRun
<1>1. IInv => PlanOfCleanRun
  BY DEF IInv
<1> QED
  BY <1>1, Invariance, PTL

-----------------------------------------------------------------------------
(* The loop runs out of steps.                                             *)

\* How many steps a run has left at most when k rounds are still allowed and w
\* goroutines have not returned: a round is the question to the model, its
\* calls, and the wait for them; the plan's row comes last.
PerRound == MaxUses + 2
Left(step, k, w) ==
  CASE step = "idle"  -> maxToolIterations * PerRound + 3
    [] step = "ask"   -> k * PerRound + 2
    [] step = "tools" -> (k - 1) * PerRound + 3 + w
    [] step = "store" -> 1
    [] OTHER          -> 0

StepsLeft == Left(pc, maxToolIterations - Len(messages), Cardinality(running))

\* Every step of the run takes one of them at least, and a cancellation gives
\* none back.
StepsRunOut == [][StepsLeft' <= StepsLeft /\ (Run => StepsLeft' < StepsLeft)]_vars

LEMMA RoundProduct ==
  ASSUME NEW k \in Nat
  PROVE  /\ PerRound \in Nat /\ PerRound = MaxUses + 2 /\ MaxUses \in Nat
         /\ k * PerRound \in Nat /\ (k + 1) * PerRound = k * PerRound + PerRound
<1>1. PerRound \in Nat /\ PerRound = MaxUses + 2 /\ MaxUses \in Nat
  BY BoundAssumption DEF PerRound
<1>2. k * PerRound \in Nat /\ (k + 1) * PerRound = k * PerRound + PerRound
  BY <1>1
<1> QED
  BY <1>1, <1>2

\* The goroutines of a round are as many as its calls at most.
LEMMA RunningBounded ==
  ASSUME NEW uses \in ToolCalls \cup {<<>>}, NEW W, W \subseteq DOMAIN uses
  PROVE  IsFiniteSet(W) /\ Cardinality(W) \in 0..MaxUses
<1>1. W \subseteq 1..MaxUses
  BY ToolCallsAreSequences
<1>2. IsFiniteSet(1..MaxUses) /\ Cardinality(1..MaxUses) = MaxUses
  BY FS_Interval, BoundAssumption
<1>3. IsFiniteSet(W) /\ Cardinality(W) <= MaxUses
  BY <1>1, <1>2, FS_Subset
<1> QED
  BY <1>3, FS_CardinalityType, BoundAssumption

\* In a run k + 1 rounds are left while the loop goes on.
LEMMA StepsValues ==
  ASSUME TypeOK, pc \in {"ask", "tools"}
  PROVE  \E k \in Nat :
           /\ maxToolIterations - Len(messages) = k + 1
           /\ pc = "ask" => StepsLeft = k * PerRound + PerRound + 2
           /\ pc = "tools" => StepsLeft = k * PerRound + 3 + Cardinality(running)
<1>1. PICK k \in Nat : maxToolIterations - Len(messages) = k + 1
  <2>1. /\ Len(messages) \in Nat /\ Len(messages) < maxToolIterations
        /\ maxToolIterations \in Nat
    BY BoundAssumption DEF TypeOK
  <2>2. maxToolIterations - Len(messages) - 1 \in Nat
    BY <2>1
  <2> QED
    BY <2>1, <2>2
<1>2. k + 1 - 1 = k /\ (k + 1) * PerRound = k * PerRound + PerRound
  BY RoundProduct
<1>3. CASE pc = "ask"
  BY <1>1, <1>2, <1>3 DEF StepsLeft, Left
<1>4. CASE pc = "tools"
  BY <1>1, <1>2, <1>4 DEF StepsLeft, Left
<1> QED
  BY <1>1, <1>3, <1>4

LEMMA AskSteps ==
  ASSUME IInv, StubDiagnosis \/ AskForText \/ InferenceFails \/ AskForTools
  PROVE  StepsLeft' < StepsLeft
<1>1. pc = "ask" /\ UNCHANGED messages
  BY DEF StubDiagnosis, AskForText, InferenceFails, AskForTools
<1>2. PICK k \in Nat : /\ maxToolIterations - Len(messages) = k + 1
                        /\ StepsLeft = k * PerRound + PerRound + 2
  BY <1>1, StepsValues DEF IInv
<1>3. /\ k * PerRound \in Nat /\ PerRound = MaxUses + 2 /\ MaxUses \in Nat
      /\ k + 1 - 1 = k
  BY RoundProduct
<1>4. CASE AskForTools
  <2>1. pc' = "tools" /\ toolUses' \in ToolCalls /\ running' = DOMAIN toolUses'
    BY <1>4 DEF AskForTools
  <2>2. Cardinality(running') \in 0..MaxUses
    BY <2>1, RunningBounded
  <2>3. StepsLeft' = k * PerRound + 3 + Cardinality(running')
    BY <1>1, <1>2, <1>3, <2>1 DEF StepsLeft, Left
  <2> QED
    BY <1>2, <1>3, <2>2, <2>3
<1>5. CASE StubDiagnosis \/ AskForText \/ InferenceFails
  <2>1. pc' \in {"store", "done"}
    BY <1>5 DEF StubDiagnosis, AskForText, InferenceFails, Return
  <2>2. StepsLeft' \in {0, 1}
    BY <2>1 DEF StepsLeft, Left
  <2> QED
    BY <1>2, <1>3, <2>2
<1> QED
  BY <1>4, <1>5

LEMMA ToolSteps ==
  ASSUME IInv, NEW i \in running, ExecuteTool(i)
  PROVE  StepsLeft' < StepsLeft
<1>1. pc = "tools" /\ UNCHANGED <<pc, messages>> /\ running' = running \ {i}
  BY DEF ExecuteTool
<1>2. IsFiniteSet(running) /\ Cardinality(running) \in Nat
  BY RunningBounded, BoundAssumption DEF IInv, TypeOK
<1>3. Cardinality(running') = Cardinality(running) - 1
  BY <1>1, <1>2, FS_RemoveElement
<1>4. PICK k \in Nat : /\ maxToolIterations - Len(messages) = k + 1
                        /\ StepsLeft = k * PerRound + 3 + Cardinality(running)
  BY <1>1, StepsValues DEF IInv
<1>5. k * PerRound \in Nat /\ k + 1 - 1 = k
  BY RoundProduct
<1>6. StepsLeft' = k * PerRound + 3 + Cardinality(running')
  BY <1>1, <1>4, <1>5 DEF StepsLeft, Left
<1> QED
  BY <1>2, <1>3, <1>4, <1>5, <1>6

LEMMA WaitSteps == ASSUME IInv, WaitForTools PROVE StepsLeft' < StepsLeft
<1>1. /\ pc = "tools" /\ pc' \in {"ask", "store", "done"}
      /\ pc' = "ask" => Len(messages') = Len(messages) + 1
  BY DEF WaitForTools, Return, IInv, TypeOK
<1>2. Cardinality(running) \in Nat
  BY RunningBounded, BoundAssumption DEF IInv, TypeOK
<1>3. PICK k \in Nat : /\ maxToolIterations - Len(messages) = k + 1
                        /\ StepsLeft = k * PerRound + 3 + Cardinality(running)
  BY <1>1, StepsValues DEF IInv
<1>4. k * PerRound \in Nat
  BY RoundProduct
<1>5. CASE pc' = "ask"
  <2>1. maxToolIterations - Len(messages') = k
    <3>1. /\ Len(messages) \in 0..maxToolIterations /\ maxToolIterations \in Nat
          /\ Len(messages') = Len(messages) + 1
      BY <1>1, <1>5, BoundAssumption DEF IInv, TypeOK
    <3> QED
      BY <1>3, <3>1
  <2>2. StepsLeft' = k * PerRound + 2
    BY <1>5, <2>1 DEF StepsLeft, Left
  <2> QED
    BY <1>2, <1>3, <1>4, <2>2
<1>6. CASE pc' \in {"store", "done"}
  <2>1. StepsLeft' \in {0, 1}
    BY <1>6 DEF StepsLeft, Left
  <2> QED
    BY <1>2, <1>3, <1>4, <2>1
<1> QED
  BY <1>1, <1>5, <1>6

\* A run makes maxToolIterations * (MaxUses + 2) + 3 steps at most: neither a
\* model that never stops calling tools nor a cancellation at any point keeps
\* the loop going.
THEOREM RunsAreBounded == Spec => StepsRunOut
<1>1. ASSUME IInv, Run PROVE StepsLeft' < StepsLeft
  <2>1. CASE StorePlan
    <3>1. StepsLeft = 1 /\ StepsLeft' = 0
      BY <2>1 DEF StorePlan, StepsLeft, Left
    <3> QED
      BY <3>1
  <2> QED
    BY <1>1, <2>1, AskSteps, ToolSteps, WaitSteps DEF Run
<1>2. IInv => StepsLeft \in Nat
  <2>1. ASSUME IInv PROVE StepsLeft \in Nat
    <3>1. CASE pc \in {"ask", "tools"}
      <4>1. Cardinality(running) \in Nat
        BY <2>1, RunningBounded, BoundAssumption DEF IInv, TypeOK
      <4>2. PICK k \in Nat :
              /\ pc = "ask" => StepsLeft = k * PerRound + PerRound + 2
              /\ pc = "tools" => StepsLeft = k * PerRound + 3 + Cardinality(running)
        BY <2>1, <3>1, StepsValues DEF IInv
      <4>3. k * PerRound \in Nat /\ PerRound \in Nat
        BY RoundProduct
      <4> QED
        BY <3>1, <4>1, <4>2, <4>3
    <3>2. CASE pc = "idle"
      BY <3>2, RoundProduct, BoundAssumption DEF StepsLeft, Left
    <3>3. CASE pc \in {"store", "done"}
      BY <3>3 DEF StepsLeft, Left
    <3> QED
      BY <2>1, <3>1, <3>2, <3>3 DEF IInv, TypeOK
  <2> QED
    BY <2>1
<1>3. IInv /\ [Next]_vars => StepsLeft \in Nat /\ (StepsLeft \in Nat)'
  BY <1>2, NextIInv, PTL
<1>4. ASSUME IInv, NEW s \in BOOLEAN, NEW d \in BOOLEAN, Begin(s, d)
      PROVE  StepsLeft' <= StepsLeft
  <2>1. /\ pc = "idle" /\ pc' = "ask" /\ messages' = <<>>
    BY <1>4 DEF Begin, IInv, Progress
  <2>2. Len(messages') = 0
    BY <2>1
  <2>3. /\ StepsLeft = maxToolIterations * PerRound + 3
        /\ StepsLeft' = maxToolIterations * PerRound + 2
    BY <2>1, <2>2, BoundAssumption DEF StepsLeft, Left
  <2> QED
    BY <2>3, RoundProduct, BoundAssumption
<1>5. ASSUME IInv, Cancel PROVE StepsLeft' = StepsLeft
  BY <1>5 DEF Cancel, round, StepsLeft
<1>6. IInv /\ [Next]_vars =>
        [StepsLeft' <= StepsLeft /\ (Run => StepsLeft' < StepsLeft)]_vars
  BY <1>1, <1>3, <1>4, <1>5 DEF Next
<1> QED
  BY <1>6, Invariance, PTL DEF Spec, StepsRunOut

-----------------------------------------------------------------------------
(* The books against the conversation.                                     *)

\* A call of tool t at place i of round k has its result and its entry.
Entered(t, result, k, i) ==
  /\ t \in READ_ONLY_TOOLS => result = "not_implemented"
  /\ t \in WRITE_TOOLS /\ dryRun =>
       /\ result = "captured"
       /\ \E n \in DOMAIN planned : planned[n].command = <<k, i>> /\ planned[n].tool_name = t
  /\ t \in UnlistedTools /\ dryRun =>
       result = "not_allowed" /\ \E n \in DOMAIN blocked : blocked[n] = t
  /\ t \in WRITE_TOOLS /\ ~dryRun => result = "not_allowed"

RoundsEntered ==
  \A k \in DOMAIN messages : \A i \in DOMAIN messages[k].calls :
    Entered(messages[k].calls[i], messages[k].results[i], k, i)

\* In the round under way, of the goroutines that have returned; it counts
\* only as long as none has failed.
RoundEntered ==
  pc = "tools" /\ ~groupErr =>
    \A i \in DOMAIN toolUses \ running :
      Entered(toolUses[i], toolResults[i], Len(messages) + 1, i)

\* No entry is there twice, and none for a call that is still to be served.
Distinct ==
  /\ \A m, n \in DOMAIN planned : planned[m].command = planned[n].command => m = n
  /\ \A m, n \in DOMAIN blocked : blocked[m] = blocked[n] => m = n
InOrder ==
  /\ \A m, n \in DOMAIN planned : m < n => planned[m].command[1] <= planned[n].command[1]
  /\ \A n \in DOMAIN planned :
       /\ planned[n].command[1] <= Len(messages) + 1
       /\ pc \notin {"tools", "done"} => planned[n].command[1] <= Len(messages)
       /\ pc = "tools" /\ planned[n].command[1] = Len(messages) + 1 =>
            planned[n].command[2] \notin running

BInv == RoundsEntered /\ RoundEntered /\ Distinct /\ InOrder

LEMMA PlannedPlaces ==
  ASSUME TypeOK, NEW n \in DOMAIN planned
  PROVE  /\ planned[n] \in Actions /\ planned[n].command \in Places
         /\ planned[n].command = <<planned[n].command[1], planned[n].command[2]>>
         /\ planned[n].command[1] \in Nat \ {0} /\ n \in Nat
<1>1. planned[n] \in Actions /\ n \in Nat
  BY DEF TypeOK
<1>2. planned[n].command \in Places
  BY <1>1 DEF Actions
<1> QED
  BY <1>1, <1>2, BoundAssumption DEF Places

LEMMA InitBInv == Init => BInv
BY DEF Init, BInv, RoundsEntered, RoundEntered, Distinct, InOrder

\* Before the first round there is nothing the mode of the call could change.
LEMMA BeginBInv ==
  ASSUME IInv, BInv, NEW s \in BOOLEAN, NEW d \in BOOLEAN, Begin(s, d)
  PROVE  BInv'
<1>1. /\ messages = <<>> /\ messages' = <<>> /\ pc = "idle" /\ pc' = "ask"
      /\ planned' = planned /\ blocked' = blocked
  BY DEF IInv, Progress, Begin, books
<1>2. RoundsEntered' /\ RoundEntered' /\ Distinct'
  BY <1>1 DEF RoundsEntered, RoundEntered, Distinct, BInv
<1>3. InOrder'
  BY <1>1 DEF BInv, InOrder
<1> QED
  BY <1>2, <1>3 DEF BInv

\* A step that leaves the books and the conversation alone.
LEMMA QuietBInv ==
  ASSUME BInv, UNCHANGED <<client, messages, books>>,
         \/ pc' = "done"
         \/ pc \notin {"tools", "done"} /\ pc' # "tools"
         \/ UNCHANGED <<pc, round>>
  PROVE  BInv'
<1>1. RoundsEntered' /\ Distinct'
  BY DEF BInv, RoundsEntered, Entered, Distinct, client, books
<1>2. RoundEntered'
  <2>1. CASE pc' # "tools"
    BY <2>1 DEF RoundEntered
  <2>2. CASE UNCHANGED <<pc, round>>
    BY <2>2 DEF BInv, RoundEntered, Entered, client, books, round
  <2> QED
    BY <2>1, <2>2
<1>3. InOrder'
  BY DEF BInv, InOrder, books, round
<1> QED
  BY <1>1, <1>2, <1>3 DEF BInv

LEMMA AskForToolsBInv == ASSUME IInv, BInv, AskForTools PROVE BInv'
<1>1. /\ UNCHANGED <<client, messages, books>> /\ pc = "ask" /\ pc' = "tools"
      /\ running' = DOMAIN toolUses'
  BY DEF AskForTools
<1>2. RoundsEntered' /\ Distinct' /\ RoundEntered'
  <2>1. RoundsEntered' /\ Distinct'
    BY <1>1 DEF BInv, RoundsEntered, Entered, Distinct, client, books
  <2>2. DOMAIN toolUses' \ running' = {}
    BY <1>1
  <2> QED
    BY <2>1, <2>2 DEF RoundEntered
<1>3. InOrder'
  <2>1. ASSUME NEW n \in DOMAIN planned PROVE planned[n].command[1] # Len(messages) + 1
    <3>1. planned[n].command[1] <= Len(messages)
      BY <1>1 DEF BInv, InOrder
    <3>2. planned[n].command[1] \in Nat /\ Len(messages) \in Nat
      BY PlannedPlaces DEF IInv, TypeOK
    <3> QED
      BY <3>1, <3>2
  <2> QED
    BY <1>1, <2>1 DEF BInv, InOrder, books
<1> QED
  BY <1>2, <1>3 DEF BInv

\* The goroutine of one call makes the entry of that call; entries stay.
LEMMA ExecuteToolBInv ==
  ASSUME IInv, BInv, NEW i \in running, ExecuteTool(i)
  PROVE  BInv'
<1> DEFINE k == Len(messages) + 1
           t == toolUses[i]
<1>1. /\ pc = "tools" /\ pc' = "tools" /\ running' = running \ {i}
      /\ UNCHANGED <<client, messages, toolUses>>
      /\ \/ ReadTool(i) \/ CaptureWrite(i) \/ Block(i)
         \/ groupErr' = TRUE /\ UNCHANGED <<toolResults, books>>
  BY DEF ExecuteTool
<1>2. /\ TypeOK /\ toolUses \in ToolCalls /\ i \in DOMAIN toolUses /\ k \in Nat
      /\ toolResults \in [DOMAIN toolUses -> Results] /\ t \in Tools
      /\ planned \in Seq(Actions) /\ blocked \in Seq(Tools)
  BY <1>1, ToolCallsAreSequences DEF IInv, TypeOK, Progress
<1>3. ASSUME NEW n \in DOMAIN planned PROVE planned[n].command # <<k, i>>
  BY <1>1, <1>3 DEF BInv, InOrder
<1>4. /\ \A n \in DOMAIN planned : n \in DOMAIN planned' /\ planned'[n] = planned[n]
      /\ \A n \in DOMAIN blocked : n \in DOMAIN blocked' /\ blocked'[n] = blocked[n]
      /\ \A j \in DOMAIN toolUses \ {i} : toolResults'[j] = toolResults[j]
  <2>1. CASE ReadTool(i)
    BY <1>2, <2>1 DEF ReadTool, Answer
  <2>2. CASE CaptureWrite(i)
    BY <1>2, <2>2 DEF CaptureWrite, Answer
  <2>3. CASE Block(i)
    BY <1>2, <2>3 DEF Block, Answer
  <2>4. CASE UNCHANGED <<toolResults, books>>
    BY <2>4 DEF books
  <2> QED
    BY <1>1, <2>1, <2>2, <2>3, <2>4
<1>5. ASSUME NEW u, NEW result, NEW r, NEW j, Entered(u, result, r, j)
      PROVE  Entered(u, result, r, j)'
  BY <1>1, <1>4, <1>5 DEF Entered, client
<1>6. RoundsEntered'
  BY <1>1, <1>5 DEF BInv, RoundsEntered
<1>7. RoundEntered'
  <2> SUFFICES ASSUME ~groupErr', NEW j \in DOMAIN toolUses \ (running \ {i})
               PROVE  Entered(toolUses[j], toolResults[j], k, j)'
    BY <1>1 DEF RoundEntered
  <2>1. ReadTool(i) \/ CaptureWrite(i) \/ Block(i)
    BY <1>1
  <2>2. ~groupErr
    BY <2>1 DEF ReadTool, CaptureWrite, Block
  <2>3. CASE j # i
    <3>1. Entered(toolUses[j], toolResults[j], k, j)
      BY <1>1, <2>2, <2>3 DEF BInv, RoundEntered
    <3> QED
      BY <1>1, <1>4, <2>3, <3>1 DEF Entered, client
  <2>4. CASE j = i
    <3>1. CASE ReadTool(i)
      BY <1>1, <1>2, <2>4, <3>1, ToolAssumption DEF ReadTool, IsAllowed, Answer, Entered
    <3>2. CASE CaptureWrite(i)
      <4>1. /\ Len(planned) + 1 \in DOMAIN planned'
            /\ planned'[Len(planned) + 1] = buildPlannedAction(i)
        BY <1>2, <3>2 DEF CaptureWrite
      <4>2. toolResults'[i] = "captured" /\ t \in WRITE_TOOLS /\ dryRun /\ dryRun'
        BY <1>1, <1>2, <3>2 DEF CaptureWrite, GetWriteTool, Answer, client
      <4> QED
        BY <1>1, <2>4, <4>1, <4>2, ToolAssumption DEF Entered, buildPlannedAction, Place
    <3>3. CASE Block(i)
      <4>1. toolResults'[i] = "not_allowed" /\ t \notin READ_ONLY_TOOLS
        BY <1>2, <3>3 DEF Block, IsAllowed, Answer
      <4>2. ~(t \in WRITE_TOOLS /\ dryRun) /\ dryRun' = dryRun
        BY <1>1, <3>3 DEF Block, GetWriteTool, client
      <4>3. dryRun => \E n \in DOMAIN blocked' : blocked'[n] = t
        <5>1. CASE \E n \in DOMAIN blocked : blocked[n] = t
          BY <1>4, <5>1
        <5>2. CASE dryRun /\ \A n \in DOMAIN blocked : blocked[n] # t
          <6>1. blocked' = Append(blocked, t)
            BY <3>3, <5>2 DEF Block
          <6> QED
            BY <1>2, <6>1
        <5> QED
          BY <5>1, <5>2
      <4> QED
        BY <1>1, <2>4, <4>1, <4>2, <4>3 DEF Entered
    <3> QED
      BY <2>1, <3>1, <3>2, <3>3
  <2> QED
    BY <2>3, <2>4
<1>8. CASE planned' = planned
  <2>1. InOrder'
    BY <1>1, <1>8 DEF BInv, InOrder
  <2>2. Distinct'
    <3>1. CASE blocked' = blocked
      BY <1>8, <3>1 DEF BInv, Distinct
    <3>2. CASE blocked' = Append(blocked, t) /\ \A n \in DOMAIN blocked : blocked[n] # t
      BY <1>2, <1>8, <3>2 DEF BInv, Distinct
    <3> QED
      BY <1>1, <3>1, <3>2 DEF ReadTool, CaptureWrite, Block, books
  <2> QED
    BY <1>6, <1>7, <2>1, <2>2 DEF BInv
<1>9. CASE planned' = Append(planned, buildPlannedAction(i)) /\ blocked' = blocked
  <2> DEFINE last == Len(planned) + 1
  <2>1. /\ last \in DOMAIN planned' /\ planned'[last].command = <<k, i>>
        /\ DOMAIN planned' = DOMAIN planned \cup {last} /\ last \notin DOMAIN planned
        /\ \A n \in DOMAIN planned : n < last
    BY <1>2, <1>9 DEF buildPlannedAction, Place
  <2>2. Distinct'
    BY <1>3, <1>4, <1>9, <2>1 DEF BInv, Distinct
  <2>3. \A n \in DOMAIN planned : planned[n].command[1] <= k
    BY DEF BInv, InOrder
  <2>4. \A m, n \in DOMAIN planned' :
          m < n => planned'[m].command[1] <= planned'[n].command[1]
    <3> SUFFICES ASSUME NEW m \in DOMAIN planned', NEW n \in DOMAIN planned', m < n
                 PROVE  planned'[m].command[1] <= planned'[n].command[1]
      OBVIOUS
    <3>1. m \in DOMAIN planned
      BY <1>2, <2>1
    <3>2. CASE n \in DOMAIN planned
      BY <1>4, <3>1, <3>2 DEF BInv, InOrder
    <3>3. CASE n = last
      BY <1>4, <2>1, <2>3, <3>1, <3>3
    <3> QED
      BY <2>1, <3>2, <3>3
  <2>5. ASSUME NEW n \in DOMAIN planned'
        PROVE  /\ planned'[n].command[1] <= k
               /\ planned'[n].command[1] = k => planned'[n].command[2] \notin running \ {i}
    <3>1. CASE n \in DOMAIN planned
      BY <1>1, <1>4, <3>1 DEF BInv, InOrder
    <3>2. CASE n = last
      BY <1>2, <2>1, <3>2
    <3> QED
      BY <2>1, <3>1, <3>2
  <2>6. InOrder'
    BY <1>1, <2>4, <2>5 DEF InOrder
  <2> QED
    BY <1>6, <1>7, <2>2, <2>6 DEF BInv
<1> QED
  BY <1>1, <1>8, <1>9 DEF ReadTool, CaptureWrite, Block, books

\* A round that failed ends the run; any other joins the conversation.
LEMMA WaitForToolsBInv == ASSUME IInv, BInv, WaitForTools PROVE BInv'
<1> DEFINE k    == Len(messages) + 1
           done == [calls |-> toolUses, results |-> toolResults]
<1>1. pc = "tools" /\ running = {} /\ UNCHANGED <<client, books>>
  BY DEF WaitForTools
<1>2. CASE groupErr
  <2>1. pc' = "done" /\ messages' = messages
    BY <1>2 DEF WaitForTools, Return
  <2> QED
    BY <1>1, <2>1, QuietBInv
<1>3. CASE ~groupErr
  <2>1. /\ messages' = Append(messages, done) /\ pc' # "tools"
    BY <1>3 DEF WaitForTools, Return
  <2>2. /\ messages \in Seq([calls : ToolCalls, results : Seq(Results)])
        /\ Len(messages') = k /\ k \in Nat /\ TypeOK
        /\ DOMAIN messages' = DOMAIN messages \cup {k} /\ messages'[k] = done
        /\ \A n \in DOMAIN messages : messages'[n] = messages[n]
    BY <2>1 DEF IInv, TypeOK
  <2>3. RoundsEntered'
    <3>1. \A i \in DOMAIN toolUses : Entered(toolUses[i], toolResults[i], k, i)
      BY <1>1, <1>3 DEF BInv, RoundEntered
    <3>2. ASSUME NEW n \in DOMAIN messages', NEW i \in DOMAIN messages'[n].calls
          PROVE  Entered(messages[n].calls[i], messages[n].results[i], n, i)'
      <4>1. CASE n \in DOMAIN messages
        <5>1. Entered(messages[n].calls[i], messages[n].results[i], n, i)
          BY <2>2, <3>2, <4>1 DEF BInv, RoundsEntered
        <5> QED
          BY <1>1, <2>2, <4>1, <5>1 DEF Entered, client, books
      <4>2. CASE n = k
        <5>1. messages'[n].calls = toolUses /\ messages'[n].results = toolResults
          BY <2>2, <4>2
        <5>2. Entered(toolUses[i], toolResults[i], n, i)
          BY <3>1, <3>2, <4>2, <5>1
        <5> QED
          BY <1>1, <5>1, <5>2 DEF Entered, client, books
      <4> QED
        BY <2>2, <4>1, <4>2
    <3> QED
      BY <3>2 DEF RoundsEntered
  <2>4. RoundEntered' /\ Distinct'
    BY <1>1, <2>1 DEF BInv, RoundEntered, Distinct, books
  <2>5. InOrder'
    <3>1. ASSUME NEW n \in DOMAIN planned
          PROVE  planned[n].command[1] <= k /\ planned[n].command[1] \in Nat
      BY <2>2, PlannedPlaces DEF BInv, InOrder
    <3>2. \A n \in DOMAIN planned : planned[n].command[1] <= k + 1
      BY <2>2, <3>1
    <3> QED
      BY <1>1, <2>1, <2>2, <3>1, <3>2 DEF BInv, InOrder, books
  <2> QED
    BY <2>3, <2>4, <2>5 DEF BInv
<1> QED
  BY <1>2, <1>3

LEMMA NextBInv == IInv /\ BInv /\ [Next]_vars => BInv'
<1> SUFFICES ASSUME IInv, BInv, [Next]_vars PROVE BInv'
  OBVIOUS
<1>1. CASE \E s, d \in BOOLEAN : Begin(s, d)
  BY <1>1, BeginBInv
<1>2. CASE StubDiagnosis \/ AskForText \/ InferenceFails
  <2>1. UNCHANGED <<client, messages, books>> /\ pc = "ask" /\ pc' \in {"store", "done"}
    BY <1>2 DEF StubDiagnosis, AskForText, InferenceFails, Return
  <2> QED
    BY <2>1, QuietBInv
<1>3. CASE AskForTools
  BY <1>3, AskForToolsBInv
<1>4. CASE \E i \in running : ExecuteTool(i)
  BY <1>4, ExecuteToolBInv
<1>5. CASE WaitForTools
  BY <1>5, WaitForToolsBInv
<1>6. CASE StorePlan
  BY <1>6, QuietBInv DEF StorePlan
<1>7. CASE Cancel
  BY <1>7, QuietBInv DEF Cancel
<1>8. CASE UNCHANGED vars
  BY <1>8, QuietBInv DEF vars
<1> QED
  BY <1>1, <1>2, <1>3, <1>4, <1>5, <1>6, <1>7, <1>8 DEF Next, Run

\* An entry that is there and nowhere else is there once.
LEMMA BooksCount == ASSUME IInv, BInv PROVE BooksMatchConversation
<1>1. ASSUME NEW k \in DOMAIN messages, NEW i \in DOMAIN messages[k].calls,
             messages[k].calls[i] \in WRITE_TOOLS, dryRun
      PROVE  Cardinality({n \in DOMAIN planned :
               planned[n].command = <<k, i>> /\ planned[n].tool_name = messages[k].calls[i]}) = 1
  <2>1. PICK n \in DOMAIN planned :
          planned[n].command = <<k, i>> /\ planned[n].tool_name = messages[k].calls[i]
    BY <1>1 DEF BInv, RoundsEntered, Entered
  <2>2. {m \in DOMAIN planned :
           planned[m].command = <<k, i>> /\ planned[m].tool_name = messages[k].calls[i]} = {n}
    BY <2>1 DEF BInv, Distinct
  <2> QED
    BY <2>2, FS_Singleton
<1>2. ASSUME NEW t \in UnlistedTools, NEW m \in DOMAIN blocked, blocked[m] = t
      PROVE  Cardinality({n \in DOMAIN blocked : blocked[n] = t}) = 1
  <2>1. {n \in DOMAIN blocked : blocked[n] = t} = {m}
    BY <1>2 DEF BInv, Distinct
  <2> QED
    BY <2>1, FS_Singleton
<1> QED
  BY <1>1, <1>2
  DEF BInv, RoundsEntered, Entered, InOrder, BooksMatchConversation

\* However the goroutines of a reply are scheduled, every write call is
\* planned once and every refused tool reported once.
THEOREM BooksAreRight == Spec => []BooksMatchConversation
<1>1. Init => BInv
  BY InitBInv
<1>2. IInv /\ BInv /\ [Next]_vars => BInv'
  BY NextBInv
<1>3. IInv /\ BInv => BooksMatchConversation
  BY BooksCount
<1> QED
  BY <1>1, <1>2, <1>3, Invariance, PTL DEF Spec

-----------------------------------------------------------------------------
(* What a planned action names as observed.                                *)

\* The reads of the round under way whose goroutines have returned.
RoundReads == {i \in DOMAIN toolUses \ running : toolUses[i] \in READ_ONLY_TOOLS}

\* The book of reads holds calls of read tools that were made, each of them
\* once, in the order of the rounds ...
ReadsEntered ==
  \A j \in DOMAIN observedReads :
    LET p == observedReads[j] IN
    /\ p[1] <= Len(messages) + 1
    /\ pc \notin {"tools", "done"} => p[1] <= Len(messages)
    /\ p[1] \in DOMAIN messages => p[2] \in ReadsOf(p[1])
    /\ pc = "tools" /\ p[1] = Len(messages) + 1 => p[2] \in RoundReads
ReadsInOrder ==
  \A j, l \in DOMAIN observedReads :
    j < l => /\ observedReads[j][1] <= observedReads[l][1]
             /\ observedReads[j] # observedReads[l]

\* ... and those of a dry run are all there.
Observed(p) == \E j \in DOMAIN observedReads : observedReads[j] = p
AllReads ==
  dryRun =>
    /\ \A m \in DOMAIN messages : \A i \in ReadsOf(m) : Observed(<<m, i>>)
    /\ pc = "tools" /\ ~groupErr => \A i \in RoundReads : Observed(Place(i))

PlannedRead(n) ==
  LET pre == planned[n].preconditions_met
      k   == planned[n].command[1]
  IN /\ Len(pre) <= Len(observedReads)
     /\ \A j \in DOMAIN pre : pre[j] = observedReads[j] /\ pre[j][1] <= k
     /\ \A m \in 1..(k - 1) : \A i \in ReadsOf(m) :
          \E j \in DOMAIN pre : pre[j] = <<m, i>>
PlannedReads == \A n \in DOMAIN planned : PlannedRead(n)

PreInv == ReadsEntered /\ ReadsInOrder /\ AllReads /\ PlannedReads

LEMMA PreInvIsEnough == PreInv => PreconditionsWereObserved
BY DEF PreInv, ReadsEntered, ReadsInOrder, PlannedReads, PlannedRead, PreconditionsWereObserved

\* The reads of the rounds that are over stay what they are.
LEMMA EarlierReadsKept ==
  ASSUME TypeOK, NEW m \in DOMAIN messages,
         \/ UNCHANGED messages
         \/ \E x : messages' = Append(messages, x)
  PROVE  m \in DOMAIN messages' /\ ReadsOf(m)' = ReadsOf(m)
<1>1. messages \in Seq([calls : ToolCalls, results : Seq(Results)])
  BY DEF TypeOK
<1>2. m \in DOMAIN messages' /\ messages'[m] = messages[m]
  <2>1. ASSUME NEW x, messages' = Append(messages, x)
        PROVE  m \in DOMAIN messages' /\ messages'[m] = messages[m]
    BY <1>1, <2>1
  <2> QED
    BY <2>1
<1> QED
  BY <1>2 DEF ReadsOf

\* What was planned stays right while the book of reads only grows.
LEMMA PlannedKept ==
  ASSUME TypeOK, BInv, PlannedReads, UNCHANGED planned,
         \/ UNCHANGED messages
         \/ \E x : messages' = Append(messages, x),
         \/ UNCHANGED observedReads
         \/ \E p \in Places : observedReads' = Append(observedReads, p)
  PROVE  PlannedReads'
<1> SUFFICES ASSUME NEW n \in DOMAIN planned PROVE PlannedRead(n)'
  BY DEF PlannedReads
<1> DEFINE pre == planned[n].preconditions_met
           k   == planned[n].command[1]
<1>1. /\ k \in Nat /\ k <= Len(messages) + 1 /\ pre \in Seq(Places)
      /\ observedReads \in Seq(Places) /\ Len(messages) \in Nat
      /\ DOMAIN messages = 1..Len(messages)
  BY PlannedPlaces DEF BInv, InOrder, TypeOK, Actions
<1>2. /\ Len(pre) <= Len(observedReads)
      /\ \A j \in DOMAIN pre : pre[j] = observedReads[j] /\ pre[j][1] <= k
      /\ \A m \in 1..(k - 1) : \A i \in ReadsOf(m) :
           \E j \in DOMAIN pre : pre[j] = <<m, i>>
  BY DEF PlannedReads, PlannedRead
<1>3. /\ Len(observedReads) <= Len(observedReads')
      /\ Len(observedReads) \in Nat /\ Len(observedReads') \in Nat
      /\ \A j \in DOMAIN observedReads : observedReads'[j] = observedReads[j]
  BY <1>1
<1>4. Len(pre) \in Nat /\ DOMAIN pre \subseteq DOMAIN observedReads
  BY <1>1, <1>2
<1>5. \A m \in 1..(k - 1) : ReadsOf(m)' = ReadsOf(m)
  <2>1. \A m \in 1..(k - 1) : m \in DOMAIN messages
    BY <1>1
  <2> QED
    BY <2>1, EarlierReadsKept
<1>6. planned'[n].preconditions_met = pre /\ planned'[n].command[1] = k
  OBVIOUS
<1> HIDE DEF pre, k
<1>7. /\ Len(pre) <= Len(observedReads')
      /\ \A j \in DOMAIN pre : pre[j] = observedReads'[j] /\ pre[j][1] <= k
  BY <1>2, <1>3, <1>4
<1> QED
  BY <1>2, <1>5, <1>6, <1>7 DEF PlannedRead

\* A step outside the rounds.
LEMMA QuietPreInv ==
  ASSUME IInv, BInv, PreInv, UNCHANGED <<client, messages, books>>,
         \/ pc' = "done"
         \/ pc \notin {"tools", "done"} /\ pc' # "tools"
         \/ UNCHANGED <<pc, round>>
  PROVE  PreInv'
<1>1. PlannedReads'
  BY PlannedKept DEF IInv, PreInv, books
<1>2. ReadsInOrder'
  BY DEF PreInv, ReadsInOrder, books
<1>3. UNCHANGED round => RoundReads' = RoundReads
  BY DEF RoundReads, round
<1>4. ReadsEntered'
  BY <1>3 DEF PreInv, ReadsEntered, ReadsOf, books
<1>5. AllReads'
  BY <1>3 DEF PreInv, AllReads, Observed, ReadsOf, Place, client, books, round
<1> QED
  BY <1>1, <1>2, <1>4, <1>5 DEF PreInv

\* Before the first round the book is empty.
LEMMA NothingObserved ==
  ASSUME TypeOK, ReadsEntered, pc = "idle", messages = <<>>
  PROVE  DOMAIN observedReads = {}
<1>1. \A j \in DOMAIN observedReads : observedReads[j] \in Places
  BY DEF TypeOK
<1>2. \A p \in Places : p[1] \in Nat /\ p[1] >= 1
  BY BoundAssumption DEF Places
<1>3. \A j \in DOMAIN observedReads : observedReads[j][1] <= 0
  BY DEF ReadsEntered
<1>4. ASSUME NEW j \in DOMAIN observedReads PROVE FALSE
  BY <1>1, <1>2, <1>3, <1>4
<1> QED
  BY <1>4

LEMMA BeginPreInv ==
  ASSUME IInv, BInv, PreInv, NEW s \in BOOLEAN, NEW d \in BOOLEAN, Begin(s, d)
  PROVE  PreInv'
<1>1. /\ pc = "idle" /\ messages = <<>> /\ pc' = "ask" /\ UNCHANGED <<messages, books>>
  BY DEF IInv, Progress, Begin
<1>2. DOMAIN observedReads' = {} /\ DOMAIN messages' = {}
  BY <1>1, NothingObserved DEF IInv, PreInv, books
<1>3. PlannedReads'
  BY <1>1, PlannedKept DEF IInv, PreInv, books
<1> QED
  BY <1>1, <1>2, <1>3 DEF PreInv, ReadsEntered, ReadsInOrder, AllReads

LEMMA AskForToolsPreInv ==
  ASSUME IInv, BInv, PreInv, AskForTools
  PROVE  PreInv'
<1>1. /\ UNCHANGED <<client, messages, books>> /\ running' = DOMAIN toolUses' /\ pc = "ask"
  BY DEF AskForTools
<1>2. PlannedReads'
  BY <1>1, PlannedKept DEF IInv, PreInv, books
<1>3. RoundReads' = {}
  BY <1>1 DEF RoundReads
<1>4. ReadsInOrder'
  BY <1>1 DEF PreInv, ReadsInOrder, books
<1>5. ReadsEntered'
  <2>1. /\ Len(messages) \in Nat
        /\ \A j \in DOMAIN observedReads : observedReads[j][1] \in Nat
    BY BoundAssumption DEF IInv, TypeOK, Places
  <2>2. \A j \in DOMAIN observedReads :
          /\ observedReads[j][1] <= Len(messages)
          /\ observedReads[j][1] \in DOMAIN messages
               => observedReads[j][2] \in ReadsOf(observedReads[j][1])
    BY <1>1 DEF PreInv, ReadsEntered
  <2>3. \A k : ReadsOf(k)' = ReadsOf(k)
    BY <1>1 DEF ReadsOf
  <2> QED
    BY <1>1, <2>1, <2>2, <2>3 DEF ReadsEntered, books
<1>6. AllReads'
  BY <1>1, <1>3 DEF PreInv, AllReads, Observed, ReadsOf, client, books
<1> QED
  BY <1>2, <1>4, <1>5, <1>6 DEF PreInv

\* A goroutine that served a read has entered it; whoever plans an action
\* then finds at least the reads of the rounds before.
LEMMA ExecuteToolPreInv ==
  ASSUME IInv, BInv, PreInv, NEW i \in running, ExecuteTool(i)
  PROVE  PreInv'
<1> DEFINE k == Len(messages) + 1
           t == toolUses[i]
<1>1. /\ pc = "tools" /\ running' = running \ {i}
      /\ UNCHANGED <<client, pc, messages, toolUses>>
      /\ \/ ReadTool(i) \/ CaptureWrite(i) \/ Block(i)
         \/ groupErr' = TRUE /\ UNCHANGED <<toolResults, books>>
  BY DEF ExecuteTool
<1>2. /\ TypeOK /\ toolUses \in ToolCalls /\ i \in DOMAIN toolUses /\ k \in Nat
      /\ observedReads \in Seq(Places) /\ planned \in Seq(Actions)
      /\ DOMAIN messages = 1..Len(messages) /\ Len(messages) \in Nat
      /\ Len(messages) < maxToolIterations /\ i \in 1..MaxUses
  BY <1>1, ToolCallsAreSequences DEF IInv, TypeOK, Progress
<1>3. /\ \A m : ReadsOf(m)' = ReadsOf(m)
      /\ Place(i)' = Place(i) /\ Place(i) \in Places
      /\ Place(i)[1] = k /\ Place(i)[2] = i
  BY <1>1, <1>2, BoundAssumption DEF ReadsOf, Place, Places
<1>4. RoundReads' = IF t \in READ_ONLY_TOOLS THEN RoundReads \cup {i} ELSE RoundReads
  BY <1>1, <1>2 DEF RoundReads
<1>5. i \notin RoundReads
  BY DEF RoundReads
<1>6. \A j \in DOMAIN observedReads :
        /\ observedReads[j] \in Places /\ observedReads[j][1] \in Nat
        /\ observedReads[j][1] <= k
        /\ observedReads[j][1] \in DOMAIN messages
             => observedReads[j][2] \in ReadsOf(observedReads[j][1])
        /\ observedReads[j][1] = k => observedReads[j][2] \in RoundReads
  BY <1>1, <1>2, BoundAssumption DEF PreInv, ReadsEntered, Places
<1> HIDE DEF k, t
<1>7. ASSUME UNCHANGED observedReads, groupErr => groupErr',
             t \notin READ_ONLY_TOOLS \/ groupErr'
      PROVE  ReadsEntered' /\ ReadsInOrder' /\ AllReads'
  <2>1. ReadsEntered'
    BY <1>1, <1>3, <1>4, <1>6, <1>7 DEF ReadsEntered, k
  <2>2. ReadsInOrder'
    BY <1>7 DEF PreInv, ReadsInOrder
  <2>3. AllReads'
    BY <1>1, <1>3, <1>4, <1>7 DEF PreInv, AllReads, Observed, client, Place
  <2> QED
    BY <2>1, <2>2, <2>3
<1>8. CASE ReadTool(i)
  <2>1. /\ t \in READ_ONLY_TOOLS /\ UNCHANGED <<planned, groupErr>>
        /\ observedReads' = IF dryRun THEN Append(observedReads, Place(i)) ELSE observedReads
    BY <1>8 DEF ReadTool, IsAllowed, t
  <2>2. PlannedReads'
    BY <1>1, <1>2, <1>3, <2>1, PlannedKept DEF PreInv
  <2>3. CASE ~dryRun
    <3>1. ReadsEntered'
      BY <1>1, <1>3, <1>4, <1>6, <2>1, <2>3 DEF ReadsEntered, k
    <3>2. ReadsInOrder' /\ AllReads'
      BY <1>1, <2>1, <2>3 DEF PreInv, ReadsInOrder, AllReads, client
    <3> QED
      BY <2>2, <3>1, <3>2 DEF PreInv
  <2>4. CASE dryRun
    <3>1. /\ DOMAIN observedReads' = DOMAIN observedReads \cup {Len(observedReads) + 1}
          /\ \A j \in DOMAIN observedReads : observedReads'[j] = observedReads[j] /\ j < Len(observedReads) + 1
          /\ observedReads'[Len(observedReads) + 1] = Place(i)
          /\ Len(observedReads) \in Nat /\ DOMAIN observedReads = 1..Len(observedReads)
      BY <1>2, <2>1, <2>4
    <3>2. ReadsEntered'
      <4>1. k \notin DOMAIN messages
        BY <1>2 DEF k
      <4>2. ASSUME NEW j \in DOMAIN observedReads'
            PROVE  LET p == observedReads'[j] IN
                   /\ p[1] <= k
                   /\ p[1] \in DOMAIN messages => p[2] \in ReadsOf(p[1])
                   /\ p[1] = k => p[2] \in RoundReads'
        <5>1. CASE j \in DOMAIN observedReads
          BY <1>4, <1>6, <3>1, <5>1
        <5>2. CASE j = Len(observedReads) + 1
          BY <1>2, <1>3, <1>4, <2>1, <3>1, <4>1, <5>2
        <5> QED
          BY <3>1, <5>1, <5>2
      <4> QED
        BY <1>1, <1>3, <4>2 DEF ReadsEntered, k
    <3>3. ReadsInOrder'
      <4>1. ASSUME NEW j \in DOMAIN observedReads', NEW l \in DOMAIN observedReads', j < l
            PROVE  /\ observedReads'[j][1] <= observedReads'[l][1]
                   /\ observedReads'[j] # observedReads'[l]
        <5>1. j \in DOMAIN observedReads
          BY <3>1, <4>1
        <5>2. CASE l \in DOMAIN observedReads
          BY <3>1, <4>1, <5>1, <5>2 DEF PreInv, ReadsInOrder
        <5>3. CASE l = Len(observedReads) + 1
          BY <1>3, <1>5, <1>6, <3>1, <5>1, <5>3
        <5> QED
          BY <3>1, <5>2, <5>3
      <4> QED
        BY <4>1 DEF ReadsInOrder
    <3>4. \A p : Observed(p) \/ p = Place(i) => Observed(p)'
      BY <3>1 DEF Observed
    <3>5. AllReads'
      BY <1>1, <1>3, <1>4, <2>1, <3>4 DEF PreInv, AllReads, client, Place
    <3> QED
      BY <2>2, <3>2, <3>3, <3>5 DEF PreInv
  <2> QED
    BY <2>3, <2>4
<1>9. CASE CaptureWrite(i)
  <2>1. /\ dryRun /\ t \in WRITE_TOOLS /\ UNCHANGED <<observedReads, groupErr>>
        /\ planned' = Append(planned, buildPlannedAction(i))
    BY <1>9 DEF CaptureWrite, GetWriteTool, t
  <2>2. t \notin READ_ONLY_TOOLS
    BY <2>1, ToolAssumption
  <2>3. PlannedReads'
    <3> SUFFICES ASSUME NEW n \in DOMAIN planned' PROVE PlannedRead(n)'
      BY DEF PlannedReads
    <3>1. CASE n \in DOMAIN planned
      <4>1. planned'[n] = planned[n]
        BY <1>2, <2>1, <3>1
      <4>2. PlannedRead(n)
        BY <3>1 DEF PreInv, PlannedReads
      <4>3. observedReads' = observedReads /\ \A m : ReadsOf(m)' = ReadsOf(m)
        BY <1>3, <2>1
      <4> QED
        BY <4>1, <4>2, <4>3 DEF PlannedRead
    <3>2. CASE n = Len(planned) + 1
      <4>1. planned'[n] = buildPlannedAction(i)
        BY <1>2, <2>1, <3>2
      <4>2. planned'[n].preconditions_met = observedReads /\ planned'[n].command[1] = k
        BY <1>3, <4>1 DEF buildPlannedAction
      <4>3. \A m \in 1..(k - 1) : \A r \in ReadsOf(m) :
              \E j \in DOMAIN observedReads : observedReads[j] = <<m, r>>
        BY <1>2, <2>1 DEF PreInv, AllReads, Observed, k
      <4> QED
        BY <1>2, <1>3, <1>6, <2>1, <4>2, <4>3 DEF PlannedRead
    <3>3. n \in DOMAIN planned \/ n = Len(planned) + 1
      BY <1>2, <2>1
    <3> QED
      BY <3>1, <3>2, <3>3
  <2> QED
    BY <1>7, <2>1, <2>2, <2>3 DEF PreInv
<1>10. CASE Block(i)
  <2>1. t \notin READ_ONLY_TOOLS /\ UNCHANGED <<planned, observedReads, groupErr>>
    BY <1>10 DEF Block, IsAllowed, t
  <2>2. PlannedReads'
    BY <1>1, <1>2, <2>1, PlannedKept DEF PreInv
  <2> QED
    BY <1>7, <2>1, <2>2 DEF PreInv
<1>11. CASE groupErr' = TRUE /\ UNCHANGED <<toolResults, books>>
  <2>1. PlannedReads' /\ UNCHANGED observedReads
    BY <1>1, <1>2, <1>11, PlannedKept DEF PreInv, books
  <2> QED
    BY <1>7, <1>11, <2>1 DEF PreInv
<1> QED
  BY <1>1, <1>8, <1>9, <1>10, <1>11

\* When all goroutines have returned, the round is one of those before.
LEMMA WaitForToolsPreInv ==
  ASSUME IInv, BInv, PreInv, WaitForTools
  PROVE  PreInv'
<1> DEFINE done == [calls |-> toolUses, results |-> toolResults]
<1>1. pc = "tools" /\ running = {} /\ UNCHANGED <<client, books>>
  BY DEF WaitForTools
<1>2. CASE groupErr
  <2>1. pc' = "done" /\ messages' = messages
    BY <1>2 DEF WaitForTools, Return
  <2> QED
    BY <1>1, <2>1, QuietPreInv
<1>3. CASE ~groupErr
  <2>1. /\ messages' = Append(messages, done) /\ pc' # "tools"
    BY <1>3 DEF WaitForTools, Return
  <2> PICK k \in Nat : k = Len(messages) + 1
    BY DEF IInv, TypeOK
  <2>2. /\ messages \in Seq([calls : ToolCalls, results : Seq(Results)]) /\ TypeOK
        /\ Len(messages') = k /\ k \in Nat /\ k \notin DOMAIN messages /\ messages'[k] = done
        /\ Len(messages) \in Nat /\ DOMAIN messages = 1..Len(messages)
        /\ DOMAIN messages' = DOMAIN messages \cup {k}
    BY <2>1 DEF IInv, TypeOK
  <2>3. PlannedReads'
    BY <1>1, <2>1, <2>2, PlannedKept DEF PreInv, books
  <2>4. /\ ReadsOf(k)' = RoundReads
        /\ \A m \in DOMAIN messages : ReadsOf(m)' = ReadsOf(m)
    <3>1. ReadsOf(k)' = RoundReads
      <4>1. messages'[k].calls = toolUses /\ DOMAIN toolUses \ running = DOMAIN toolUses
        BY <1>1, <2>2
      <4> QED
        BY <4>1 DEF ReadsOf, RoundReads
    <3>2. \A m \in DOMAIN messages : ReadsOf(m)' = ReadsOf(m)
      BY <2>1, <2>2, EarlierReadsKept
    <3> QED
      BY <3>1, <3>2
  <2>5. \A j \in DOMAIN observedReads :
          /\ observedReads[j][1] \in Nat /\ observedReads[j][1] <= k
          /\ observedReads[j][1] \in DOMAIN messages
               => observedReads[j][2] \in ReadsOf(observedReads[j][1])
          /\ observedReads[j][1] = k => observedReads[j][2] \in RoundReads
    BY <1>1, <2>2, BoundAssumption DEF PreInv, ReadsEntered, TypeOK, Places
  <2>6. \A r : Place(r) = <<k, r>>
    BY DEF Place
  <2>7. ReadsEntered'
    <3>1. ASSUME NEW j \in DOMAIN observedReads
          PROVE  /\ observedReads[j][1] <= Len(messages') + 1
                 /\ observedReads[j][1] <= Len(messages')
                 /\ observedReads[j][1] \in DOMAIN messages'
                      => observedReads[j][2] \in ReadsOf(observedReads[j][1])'
      BY <1>1, <2>2, <2>4, <2>5 DEF books
    <3> QED
      BY <1>1, <2>1, <3>1 DEF ReadsEntered, books
  <2>8. ReadsInOrder'
    BY <1>1 DEF PreInv, ReadsInOrder, books
  <2>9. AllReads'
    <3>1. ASSUME dryRun, NEW m \in DOMAIN messages', NEW r \in ReadsOf(m)'
          PROVE  Observed(<<m, r>>)
      <4>1. CASE m \in DOMAIN messages
        BY <2>4, <3>1, <4>1 DEF PreInv, AllReads
      <4>2. CASE m = k
        BY <1>1, <1>3, <2>4, <2>6, <3>1, <4>2 DEF PreInv, AllReads
      <4> QED
        BY <2>2, <4>1, <4>2
    <3> QED
      BY <1>1, <2>1, <3>1 DEF AllReads, Observed, client, books
  <2> QED
    BY <2>3, <2>7, <2>8, <2>9 DEF PreInv
<1> QED
  BY <1>2, <1>3

LEMMA InitPreInv == Init => PreInv
BY DEF Init, PreInv, ReadsEntered, ReadsInOrder, AllReads, PlannedReads

LEMMA NextPreInv == IInv /\ BInv /\ PreInv /\ [Next]_vars => PreInv'
<1> SUFFICES ASSUME IInv, BInv, PreInv, [Next]_vars PROVE PreInv'
  OBVIOUS
<1>1. CASE \E s, d \in BOOLEAN : Begin(s, d)
  BY <1>1, BeginPreInv
<1>2. CASE StubDiagnosis \/ AskForText \/ InferenceFails
  <2>1. UNCHANGED <<client, messages, books>> /\ pc = "ask" /\ pc' # "tools"
    BY <1>2 DEF StubDiagnosis, AskForText, InferenceFails, Return
  <2> QED
    BY <2>1, QuietPreInv
<1>3. CASE AskForTools
  BY <1>3, AskForToolsPreInv
<1>4. CASE \E i \in running : ExecuteTool(i)
  BY <1>4, ExecuteToolPreInv
<1>5. CASE WaitForTools
  BY <1>5, WaitForToolsPreInv
<1>6. CASE StorePlan
  BY <1>6, QuietPreInv DEF StorePlan
<1>7. CASE Cancel
  BY <1>7, QuietPreInv DEF Cancel
<1>8. CASE UNCHANGED vars
  BY <1>8, QuietPreInv DEF vars
<1> QED
  BY <1>1, <1>2, <1>3, <1>4, <1>5, <1>6, <1>7, <1>8 DEF Next, Run

\* What a planned action names as its preconditions is a beginning of the
\* reads that were observed; it holds the reads of every round before, each
\* once and in the order of the rounds, and none of a later round.
THEOREM PreconditionsObserved == Spec => []PreconditionsWereObserved
<1>1. Init => PreInv
  BY InitPreInv
<1>2. IInv /\ BInv /\ PreInv /\ [Next]_vars => PreInv'
  BY NextPreInv
<1>3. PreInv => PreconditionsWereObserved
  BY PreInvIsEnough
<1> QED
  BY <1>1, <1>2, <1>3, InitBInv, NextBInv, Invariance, PTL DEF Spec

-----------------------------------------------------------------------------
(* The evaluation gate as a caller.                                        *)

\* The gate's diagnoses come from a client without an API key: they call no
\* tools and leave nothing behind.
GateCalls ==
  /\ gate \in {"off", "start", "diagnose", "wait", "score", "done"}
  /\ gate # "off" => /\ messages = <<>> /\ planned = <<>> /\ observedReads = <<>>
                     /\ row = NoPlan /\ ~dryRun
  /\ gate \in {"start", "diagnose", "score", "done"} => pc = "idle"
  /\ gate = "wait" => stub /\ pc \in {"ask", "done"}

DiagnosisInv == IInv /\ BInv /\ PreInv

LEMMA NextDiagnosisInv ==
  ASSUME DiagnosisInv, [Next]_vars
  PROVE  DiagnosisInv'
BY NextIInv, NextBInv, NextPreInv DEF DiagnosisInv

\* The diagnosis is at rest again and can be called for the next sample.
LEMMA TakeDiagnosisInv ==
  ASSUME DiagnosisInv, GateCalls, TakeDiagnosis
  PROVE  DiagnosisInv'
<1>1. /\ gate = "wait" /\ pc = "done" /\ pc' = "idle"
      /\ messages = <<>> /\ planned = <<>> /\ observedReads = <<>> /\ row = NoPlan /\ ~dryRun
      /\ UNCHANGED <<client, cancelled, messages, round, books, outcome, row>>
  BY DEF TakeDiagnosis, GateCalls
<1>2. TypeOK'
  BY <1>1 DEF DiagnosisInv, IInv, TypeOK, client, round, books
<1>3. Progress' /\ PlanOfCleanRun'
  BY <1>1 DEF DiagnosisInv, IInv, Progress, PlanOfCleanRun, round
<1>4. RoundsEntered' /\ RoundEntered' /\ InOrder'
  BY <1>1 DEF RoundsEntered, RoundEntered, InOrder, books
<1>5. Distinct'
  BY <1>1 DEF DiagnosisInv, BInv, Distinct, books
<1>6. PreInv'
  BY <1>1 DEF PreInv, ReadsEntered, ReadsInOrder, AllReads, PlannedReads, client, books
<1> QED
  BY <1>2, <1>3, <1>4, <1>5, <1>6 DEF DiagnosisInv, IInv, BInv

LEMMA NextGateCalls ==
  ASSUME DiagnosisInv, GateCalls, [GateNext]_allVars
  PROVE  DiagnosisInv' /\ GateCalls'
<1>1. CASE gate = "off" /\ (\E s, d \in BOOLEAN : Begin(s, d)) /\ UNCHANGED gateVars
  BY <1>1, NextDiagnosisInv DEF Next, GateCalls, gateVars
<1>2. CASE (Run \/ Cancel) /\ UNCHANGED gateVars
  <2>1. DiagnosisInv' /\ gate' = gate
    BY <1>2, NextDiagnosisInv DEF Next, gateVars
  <2>2. CASE gate = "off"
    BY <2>1, <2>2 DEF GateCalls
  <2>3. CASE gate # "off"
    <3>1. StubDiagnosis \/ pc \in {"tools", "store"} \/ (~stub /\ pc \in {"ask", "tools"})
      <4>1. AskForTools \/ AskForText \/ InferenceFails => ~stub /\ pc \in {"ask", "tools"}
        BY DEF AskForTools, AskForText, InferenceFails
      <4>2. (\E i \in running : ExecuteTool(i)) \/ WaitForTools \/ StorePlan
            => pc \in {"tools", "store"}
        BY DEF ExecuteTool, WaitForTools, StorePlan
      <4>3. Cancel => ~stub /\ pc \in {"ask", "tools"}
        BY DEF Cancel
      <4> QED
        BY <1>2, <4>1, <4>2, <4>3 DEF Run
    <3>2. CASE StubDiagnosis
      BY <2>1, <2>3, <3>2 DEF StubDiagnosis, Return, GateCalls, client, books
    <3>3. CASE pc \in {"tools", "store"} \/ (~stub /\ pc \in {"ask", "tools"})
      <4>1. gate = "wait" => stub /\ pc \in {"ask", "done"}
        BY DEF GateCalls
      <4>2. gate # "wait" => pc = "idle"
        BY <2>3 DEF GateCalls
      <4> QED
        BY <3>3, <4>1, <4>2
    <3> QED
      BY <3>1, <3>2, <3>3
  <2> QED
    BY <2>2, <2>3
<1>3. CASE StartGate
  <2>1. DiagnosisInv'
    BY <1>3, NextDiagnosisInv DEF StartGate
  <2>2. GateCalls'
    BY <1>3 DEF StartGate, GateCalls, vars, client, books
  <2> QED
    BY <2>1, <2>2
<1>4. CASE DiagnoseSample
  <2>1. DiagnosisInv'
    BY <1>4, NextDiagnosisInv DEF DiagnoseSample, Next
  <2>2. GateCalls'
    BY <1>4 DEF DiagnoseSample, Begin, GateCalls, books
  <2> QED
    BY <2>1, <2>2
<1>5. CASE TakeDiagnosis
  <2>1. DiagnosisInv'
    BY <1>5, TakeDiagnosisInv
  <2>2. GateCalls'
    BY <1>5 DEF TakeDiagnosis, GateCalls, client, books
  <2> QED
    BY <2>1, <2>2
<1>6. CASE ScoreSample
  <2>1. DiagnosisInv'
    BY <1>6, NextDiagnosisInv DEF ScoreSample
  <2>2. GateCalls'
    BY <1>6 DEF ScoreSample, GateCalls, vars, client, books
  <2> QED
    BY <2>1, <2>2
<1>7. CASE UNCHANGED allVars
  <2>1. DiagnosisInv'
    BY <1>7, NextDiagnosisInv DEF allVars
  <2>2. GateCalls'
    BY <1>7 DEF allVars, vars, gateVars, client, books, GateCalls
  <2> QED
    BY <2>1, <2>2
<1> QED
  BY <1>1, <1>2, <1>3, <1>4, <1>5, <1>6, <1>7 DEF GateNext, Gate

\* The diagnoses the gate asks for, one after the other over the same client,
\* keep what every other caller is promised.
THEOREM EveryCaller ==
  GateSpec => [](TypeOK /\ PlanOfCleanRun /\ BooksMatchConversation /\ PreconditionsWereObserved)
<1>1. GateInit => DiagnosisInv /\ GateCalls
  <2> SUFFICES ASSUME GateInit PROVE DiagnosisInv /\ GateCalls
    OBVIOUS
  <2>1. Init /\ gate \in {"off", "start"}
    BY DEF GateInit
  <2>2. DiagnosisInv
    BY <2>1, InitIInv, InitBInv, InitPreInv DEF DiagnosisInv
  <2>3. GateCalls
    BY <2>1 DEF Init, GateCalls
  <2> QED
    BY <2>2, <2>3
<1>2. DiagnosisInv /\ GateCalls /\ [GateNext]_allVars => DiagnosisInv' /\ GateCalls'
  BY NextGateCalls
<1>3. DiagnosisInv => TypeOK /\ PlanOfCleanRun /\ BooksMatchConversation /\ PreconditionsWereObserved
  BY BooksCount, PreInvIsEnough DEF DiagnosisInv, IInv
<1> QED
  BY <1>1, <1>2, <1>3, PTL DEF GateSpec

-----------------------------------------------------------------------------
(* The verdict of the gate.                                                *)

\* The verdict against the running total: nothing but a full baseline of
\* valid cards passes or warns, and it does so exactly when the total reaches
\* the threshold.
VerdictOfSum ==
  gate = "done" =>
    LET full == samples > 0 /\ Len(PerSample) = samples IN
    /\ verdict = "pass" <=> full /\ sum >= PassThreshold * samples
    /\ verdict = "warn" <=> full /\ sum >= WarnFloor * samples /\ ~(sum >= PassThreshold * samples)
    /\ verdict \in {"pass", "warn", "fail"}
    /\ \A n \in DOMAIN PerSample : InRange(PerSample[n])

\* Until the verdict is given a card is missing, and every card counted is
\* valid.
VerdictInv ==
  /\ gate \in {"off", "start", "diagnose", "wait", "score", "done"}
  /\ samples \in Nat /\ PerSample \in Seq([Dims -> Scores])
  /\ \A n \in DOMAIN PerSample : InRange(PerSample[n])
  /\ gate = "start" => PerSample = <<>>
  /\ gate \in {"diagnose", "wait", "score"} => Len(PerSample) < samples
  /\ VerdictOfSum

\* The running total is that of the cards reported with it: acc[n] is the
\* total of the first n.
PartialSums(acc) ==
  /\ acc[0] = 0 /\ acc[Len(PerSample)] = sum
  /\ \A n \in DOMAIN PerSample : acc[n] = acc[n - 1] + Total(PerSample[n])

SumOfCards == \E acc : PartialSums(acc)

\* A card enters the report and the total in one step, or neither.
CardsAndSum ==
  \/ UNCHANGED <<PerSample, sum>>
  \/ \E card \in [Dims -> Scores] :
       /\ InRange(card)
       /\ PerSample' = Append(PerSample, card) /\ sum' = sum + Total(card)

LEMMA ScoreSampleVerdict ==
  ASSUME VerdictInv, ScoreSample
  PROVE  VerdictInv' /\ CardsAndSum
<1>1. /\ gate = "score" /\ samples \in Nat /\ samples' = samples
      /\ PerSample \in Seq([Dims -> Scores]) /\ Len(PerSample) < samples
      /\ \A n \in DOMAIN PerSample : InRange(PerSample[n])
  BY DEF ScoreSample, VerdictInv
<1>2. CASE gate' = "done" /\ verdict' = "fail" /\ UNCHANGED <<PerSample, sum>>
  BY <1>1, <1>2 DEF VerdictInv, VerdictOfSum, CardsAndSum
<1>3. ASSUME NEW card \in [Dims -> Scores], InRange(card),
             PerSample' = Append(PerSample, card) /\ sum' = sum + Total(card),
             IF Len(PerSample') = samples
               THEN gate' = "done" /\ verdict' = Classify(sum', samples)
               ELSE gate' = "diagnose" /\ UNCHANGED verdict
      PROVE  VerdictInv' /\ CardsAndSum
  <2>1. /\ PerSample' \in Seq([Dims -> Scores])
        /\ Len(PerSample') = Len(PerSample) + 1
        /\ \A n \in DOMAIN PerSample' : InRange(PerSample'[n])
    <3>1. \A n \in 1..Len(PerSample) + 1 :
            PerSample'[n] = IF n = Len(PerSample) + 1 THEN card ELSE PerSample[n]
      BY <1>1, <1>3
    <3>2. PerSample' \in Seq([Dims -> Scores]) /\ Len(PerSample') = Len(PerSample) + 1
      BY <1>1, <1>3
    <3>3. ASSUME NEW n \in DOMAIN PerSample' PROVE InRange(PerSample'[n])
      <4>1. n \in 1..Len(PerSample) + 1 /\ Len(PerSample) \in Nat
        BY <1>1, <3>2
      <4>2. CASE n = Len(PerSample) + 1
        BY <1>3, <3>1, <4>1, <4>2
      <4>3. CASE n \in DOMAIN PerSample
        BY <1>1, <3>1, <4>1, <4>3
      <4> QED
        BY <1>1, <4>1, <4>2, <4>3
    <3> QED
      BY <3>2, <3>3
  <2>2. CardsAndSum
    BY <1>3 DEF CardsAndSum
  <2>3. CASE Len(PerSample') = samples
    <3>1. gate' = "done" /\ verdict' = Classify(sum', samples)
      BY <1>3, <2>3
    <3>2. /\ verdict' = "pass" <=> sum' >= PassThreshold * samples
          /\ verdict' = "warn" <=> sum' >= WarnFloor * samples /\ ~(sum' >= PassThreshold * samples)
          /\ verdict' \in {"pass", "warn", "fail"}
      BY <3>1 DEF Classify
    <3>3. samples > 0
      BY <1>1, <2>1, <2>3
    <3>4. VerdictOfSum'
      BY <1>1, <2>1, <2>3, <3>2, <3>3 DEF VerdictOfSum
    <3> QED
      BY <1>1, <2>1, <2>2, <3>1, <3>4 DEF VerdictInv
  <2>4. CASE Len(PerSample') # samples
    <3>1. gate' = "diagnose" /\ Len(PerSample') < samples
      BY <1>1, <1>3, <2>1, <2>4
    <3> QED
      BY <1>1, <2>1, <2>2, <3>1 DEF VerdictInv, VerdictOfSum
  <2> QED
    BY <2>3, <2>4
<1> QED
  BY <1>2, <1>3 DEF ScoreSample

LEMMA NextVerdictInv ==
  ASSUME VerdictInv, [GateNext]_allVars
  PROVE  VerdictInv' /\ CardsAndSum
<1>1. CASE UNCHANGED gateVars
  BY <1>1 DEF gateVars, VerdictInv, VerdictOfSum, InRange, CardsAndSum
<1>2. CASE StartGate
  <2>1. CASE samples' = 0
    BY <1>2, <2>1 DEF StartGate, VerdictInv, VerdictOfSum, CardsAndSum
  <2>2. CASE samples' # 0
    <3>1. samples' \in Nat /\ samples' > 0 /\ gate' = "diagnose"
      BY <1>2, <2>2, GateAssumption DEF StartGate
    <3> QED
      BY <1>2, <3>1 DEF StartGate, VerdictInv, VerdictOfSum, CardsAndSum
  <2> QED
    BY <2>1, <2>2
<1>3. CASE DiagnoseSample
  BY <1>3 DEF DiagnoseSample, VerdictInv, VerdictOfSum, CardsAndSum
<1>4. CASE TakeDiagnosis
  BY <1>4 DEF TakeDiagnosis, VerdictInv, VerdictOfSum, CardsAndSum
<1>5. CASE ScoreSample
  BY <1>5, ScoreSampleVerdict
<1> QED
  BY <1>1, <1>2, <1>3, <1>4, <1>5 DEF GateNext, Gate, allVars

LEMMA CardAdded ==
  ASSUME PerSample \in Seq([Dims -> Scores]), SumOfCards, CardsAndSum
  PROVE  SumOfCards'
<1>1. CASE UNCHANGED <<PerSample, sum>>
  <2>1. PICK acc : PartialSums(acc)
    BY DEF SumOfCards
  <2>2. PartialSums(acc)'
    BY <1>1, <2>1 DEF PartialSums
  <2> QED
    BY <2>2 DEF SumOfCards
<1>2. ASSUME NEW card \in [Dims -> Scores],
             PerSample' = Append(PerSample, card), sum' = sum + Total(card)
      PROVE  SumOfCards'
  <2>1. PICK acc : PartialSums(acc)
    BY DEF SumOfCards
  <2> DEFINE N == Len(PerSample)
  <2>2. /\ N \in Nat /\ DOMAIN PerSample = 1..N
        /\ Len(PerSample') = N + 1 /\ DOMAIN PerSample' = 1..N + 1
        /\ \A n \in 1..N : PerSample'[n] = PerSample[n]
        /\ PerSample'[N + 1] = card
    BY <1>2
  <2>3. /\ acc[0] = 0 /\ acc[N] = sum
        /\ \A n \in 1..N : acc[n] = acc[n - 1] + Total(PerSample[n])
    BY <2>1, <2>2 DEF PartialSums
  <2> HIDE DEF N
  <2>4. PICK next : next = [n \in 0..N + 1 |-> IF n = N + 1 THEN sum' ELSE acc[n]]
    OBVIOUS
  <2>5. next[N + 1] = sum' /\ \A n \in 0..N : next[n] = acc[n]
    BY <2>2, <2>4
  <2>6. ASSUME NEW n \in 1..N + 1 PROVE next[n] = next[n - 1] + Total(PerSample'[n])
    <3>1. CASE n = N + 1
      BY <1>2, <2>2, <2>3, <2>5, <3>1
    <3>2. CASE n \in 1..N
      <4>1. next[n] = acc[n] /\ next[n - 1] = acc[n - 1]
        BY <2>2, <2>5, <3>2
      <4> QED
        BY <2>2, <2>3, <3>2, <4>1
    <3> QED
      BY <2>2, <3>1, <3>2
  <2>7. PartialSums(next)'
    BY <2>2, <2>3, <2>5, <2>6 DEF PartialSums
  <2> QED
    BY <2>7 DEF SumOfCards
<1> QED
  BY <1>1, <1>2 DEF CardsAndSum

\* CardTotals is what its equation says: the partial sums there are make a
\* function that satisfies it.
LEMMA CardTotalsEquation ==
  ASSUME PerSample \in Seq([Dims -> Scores]), NEW acc, PartialSums(acc)
  PROVE  CardTotals = [n \in 0..Len(PerSample) |->
                         IF n = 0 THEN 0 ELSE CardTotals[n - 1] + Total(PerSample[n])]
<1> DEFINE sums == [n \in 0..Len(PerSample) |-> acc[n]]
           equation(f) == f = [n \in 0..Len(PerSample) |->
                                 IF n = 0 THEN 0 ELSE f[n - 1] + Total(PerSample[n])]
<1>1. Len(PerSample) \in Nat /\ DOMAIN PerSample = 1..Len(PerSample)
  OBVIOUS
<1>2. ASSUME NEW n \in 0..Len(PerSample)
      PROVE  sums[n] = IF n = 0 THEN 0 ELSE sums[n - 1] + Total(PerSample[n])
  <2>1. CASE n = 0
    BY <1>1, <2>1 DEF PartialSums
  <2>2. CASE n # 0
    <3>1. n \in DOMAIN PerSample /\ n - 1 \in 0..Len(PerSample)
      BY <1>1, <2>2
    <3> QED
      BY <2>2, <3>1 DEF PartialSums
  <2> QED
    BY <2>1, <2>2
<1>3. \E f : equation(f)
  <2>1. equation(sums)
    BY <1>2
  <2> QED
    BY <2>1
<1>4. CardTotals = CHOOSE f : equation(f)
  BY DEF CardTotals
<1> QED
  BY <1>3, <1>4

\* The total of the reported cards is the sum the gate keeps.  There is no
\* least number of cards at which the two part.
LEMMA CardTotalsIsSum ==
  ASSUME PerSample \in Seq([Dims -> Scores]), SumOfCards
  PROVE  CardTotals[Len(PerSample)] = sum
<1>1. PICK acc : PartialSums(acc)
  BY DEF SumOfCards
<1>2. Len(PerSample) \in Nat /\ DOMAIN PerSample = 1..Len(PerSample)
  OBVIOUS
<1>3. \A n \in 0..Len(PerSample) :
        CardTotals[n] = IF n = 0 THEN 0 ELSE CardTotals[n - 1] + Total(PerSample[n])
  BY <1>1, CardTotalsEquation
<1> DEFINE parted == {n \in Nat : n <= Len(PerSample) /\ CardTotals[n] # acc[n]}
<1>4. ASSUME parted # {} PROVE FALSE
  <2>1. PICK least \in parted : \A n \in parted : ~(<<n, least>> \in OpToRel(<, Nat))
    BY <1>4, NatLessThanWellFounded, WFMin, Zenon
  <2>2. least \in Nat /\ least <= Len(PerSample) /\ CardTotals[least] # acc[least]
    BY <2>1
  <2>3. \A n \in Nat : n < least => n \notin parted
    BY <2>1, <2>2 DEF OpToRel
  <2>4. CASE least = 0
    BY <1>1, <1>2, <1>3, <2>2, <2>4 DEF PartialSums
  <2>5. CASE least # 0
    <3>1. /\ least \in DOMAIN PerSample /\ least - 1 \in Nat
          /\ least - 1 < least /\ least - 1 <= Len(PerSample)
      BY <1>2, <2>2, <2>5
    <3>2. CardTotals[least - 1] = acc[least - 1]
      BY <2>3, <3>1
    <3>3. CardTotals[least] = CardTotals[least - 1] + Total(PerSample[least])
      BY <1>2, <1>3, <2>2, <2>5
    <3>4. acc[least] = acc[least - 1] + Total(PerSample[least])
      BY <1>1, <3>1 DEF PartialSums
    <3> QED
      BY <2>2, <3>2, <3>3, <3>4
  <2> QED
    BY <2>4, <2>5
<1>5. CardTotals[Len(PerSample)] = acc[Len(PerSample)]
  BY <1>2, <1>4
<1> QED
  BY <1>1, <1>5 DEF PartialSums

\* The gate passes or warns exactly on a full baseline of valid cards whose
\* total reaches the threshold.
THEOREM VerdictIsEarned == GateSpec => []VerdictMatchesCards
<1>1. GateInit => VerdictInv /\ SumOfCards
  <2> SUFFICES ASSUME GateInit PROVE VerdictInv /\ SumOfCards
    OBVIOUS
  <2>1. gate \in {"off", "start"} /\ samples = 0 /\ PerSample = <<>> /\ sum = 0
    BY DEF GateInit
  <2>2. PartialSums([n \in 0..0 |-> 0])
    BY <2>1 DEF PartialSums
  <2> QED
    BY <2>1, <2>2 DEF VerdictInv, VerdictOfSum, SumOfCards
<1>2. VerdictInv /\ SumOfCards /\ [GateNext]_allVars => VerdictInv' /\ SumOfCards'
  <2> SUFFICES ASSUME VerdictInv, SumOfCards, [GateNext]_allVars
               PROVE  VerdictInv' /\ SumOfCards'
    OBVIOUS
  <2>1. PerSample \in Seq([Dims -> Scores])
    BY DEF VerdictInv
  <2> QED
    BY <2>1, NextVerdictInv, CardAdded
<1>3. VerdictInv /\ SumOfCards => VerdictMatchesCards
  <2> SUFFICES ASSUME VerdictInv, SumOfCards PROVE VerdictMatchesCards
    OBVIOUS
  <2>1. CardTotals[Len(PerSample)] = sum
    BY CardTotalsIsSum DEF VerdictInv
  <2> QED
    BY <2>1 DEF VerdictInv, VerdictOfSum, VerdictMatchesCards
<1> QED
  BY <1>1, <1>2, <1>3, PTL DEF GateSpec

=============================================================================
