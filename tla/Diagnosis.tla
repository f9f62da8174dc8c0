------------------------------ MODULE Diagnosis ------------------------------
(***************************************************************************)
(* One diagnosis by the agent: the loop that asks the model, the           *)
(* goroutines that serve the tool calls of one reply, and POST /exec/plan, *)
(* which makes a plan row of what a dry run collected.                     *)
(*                                                                         *)
(* A goroutine looks at its context and then takes stateMu once: the two   *)
(* are one step here, since a cancellation in between changes nothing for  *)
(* the goroutine that has already looked.                                  *)
(*                                                                         *)
(* An operator named Mutant... is no part of the specification: it is the  *)
(* definition after it with a plausible bug, which some property has to    *)
(* tell from the code.                                                     *)
(***************************************************************************)
EXTENDS Naturals, Sequences, FiniteSets

CONSTANTS
  READ_ONLY_TOOLS, WRITE_TOOLS,  \* the names on the two lists
  UnlistedTools,                 \* names on neither, which a model makes up
  maxToolIterations,
  MaxUses,                       \* bound on the tool calls of one reply
  NoPlan                         \* the request has inserted no row

ASSUME ToolAssumption ==
  /\ READ_ONLY_TOOLS \cap WRITE_TOOLS = {}
  /\ UnlistedTools \cap (READ_ONLY_TOOLS \cup WRITE_TOOLS) = {}
ASSUME BoundAssumption == maxToolIterations \in Nat \ {0} /\ MaxUses \in Nat \ {0}

VARIABLES
  stub,           \* the client was made without an API key
  dryRun,         \* the call is DiagnoseDryRun, on behalf of POST /exec/plan
  pc,
  cancelled,      \* the caller's context
  messages,       \* the rounds the model is sent back: calls and their results
  toolUses,       \* the calls of the present round
  toolResults,
  running,        \* the goroutines of the round that have not returned
  groupErr,       \* one of them returned an error
  planned, blocked, observedReads,
  outcome,        \* what runDiagnosis returned; "failed" comes with an error
  row             \* would_execute and blocked_by_policy of the inserted plan

client == <<stub, dryRun>>
round  == <<toolUses, toolResults, running, groupErr>>
books  == <<planned, blocked, observedReads>>
vars   == <<client, pc, cancelled, messages, round, books, outcome, row>>

-----------------------------------------------------------------------------
Tools == READ_ONLY_TOOLS \cup WRITE_TOOLS \cup UnlistedTools

IsAllowed(t)    == t \in READ_ONLY_TOOLS
GetWriteTool(t) == t \in WRITE_TOOLS

\* The replies of the model that call tools, offered to it or not.
ToolCalls == UNION {[1..n -> Tools] : n \in 1..MaxUses}

\* A reply without one is text; the fields say what parseDiagnosis looks at.
Texts == [decodes : BOOLEAN, trailing : BOOLEAN, root_cause : BOOLEAN,
          confidence : BOOLEAN, risk_levels : BOOLEAN]

parseDiagnosis(text) ==
  /\ text.decodes /\ ~text.trailing
  /\ text.root_cause /\ text.confidence /\ text.risk_levels

\* Call i of the present round, by its place in the conversation.
Place(i) == <<Len(messages) + 1, i>>

\* The command of a planned action is the input of the call: here its place.
\* The reads are copied under the lock.
buildPlannedAction(i) ==
  [tool_name |-> toolUses[i], command |-> Place(i), preconditions_met |-> observedReads]

Init ==
  /\ stub = FALSE /\ dryRun = FALSE
  /\ pc = "idle" /\ cancelled = FALSE
  /\ messages = <<>>
  /\ toolUses = <<>> /\ toolResults = <<>> /\ running = {} /\ groupErr = FALSE
  /\ planned = <<>> /\ blocked = <<>> /\ observedReads = <<>>
  /\ outcome = "none" /\ row = NoPlan

-----------------------------------------------------------------------------
\* Diagnose or DiagnoseDryRun is called.
Begin(s, d) ==
  /\ pc = "idle"
  /\ stub' = s /\ dryRun' = d
  /\ pc' = "ask" /\ outcome' = "none"
  /\ UNCHANGED <<cancelled, messages, round, books, row>>

\* The error of the planner is not looked at before its result is used.
MutantReturn(o) ==
  /\ outcome' = o
  /\ pc' = IF dryRun THEN "store" ELSE "done"

\* Only a run without an error goes on to the plan's row.
Return(o) ==
  /\ outcome' = o
  /\ pc' = IF dryRun /\ o # "failed" THEN "store" ELSE "done"

StubDiagnosis ==
  /\ pc = "ask" /\ stub
  /\ Return("stub")
  /\ UNCHANGED <<client, cancelled, messages, round, books, row>>

\* The reply calls tools: one goroutine is started for each call.
AskForTools ==
  /\ pc = "ask" /\ ~stub /\ ~cancelled
  /\ toolUses' \in ToolCalls
  /\ toolResults' = [i \in DOMAIN toolUses' |-> "none"]
  /\ running' = DOMAIN toolUses'
  /\ pc' = "tools"
  /\ UNCHANGED <<client, cancelled, messages, groupErr, books, outcome, row>>

\* The reply is the diagnosis, or is meant to be.
AskForText ==
  /\ pc = "ask" /\ ~stub /\ ~cancelled
  /\ \E text \in Texts :
       Return(IF parseDiagnosis(text) THEN "answered" ELSE "failed")
  /\ UNCHANGED <<client, cancelled, messages, round, books, row>>

\* The call to the model fails; with a cancelled context it always does.
InferenceFails ==
  /\ pc = "ask" /\ ~stub
  /\ Return("failed")
  /\ UNCHANGED <<client, cancelled, messages, round, books, row>>

\* The result is there for the model, whatever became of the call.
Answer(i, result) == toolResults' = [toolResults EXCEPT ![i] = result]

\* What a planned action has met is the run's list, not a copy of it.
MutantReadTool(i) ==
  /\ IsAllowed(toolUses[i])
  /\ observedReads' = IF dryRun THEN Append(observedReads, Place(i)) ELSE observedReads
  /\ planned' = [n \in DOMAIN planned |->
                   [planned[n] EXCEPT !.preconditions_met = observedReads']]
  /\ Answer(i, "not_implemented")
  /\ UNCHANGED <<blocked, groupErr>>

\* What becomes of call i: no tool is ever run.  The line a read leaves in the
\* book is made of the tool's name alone; here it is the call itself, which
\* tells two calls of one tool apart.
ReadTool(i) ==
  /\ IsAllowed(toolUses[i])
  /\ observedReads' = IF dryRun THEN Append(observedReads, Place(i)) ELSE observedReads
  /\ Answer(i, "not_implemented")
  /\ UNCHANGED <<planned, blocked, groupErr>>

CaptureWrite(i) ==
  /\ dryRun /\ GetWriteTool(toolUses[i])
  /\ planned' = Append(planned, buildPlannedAction(i))
  /\ Answer(i, "captured")
  /\ UNCHANGED <<blocked, observedReads, groupErr>>

Block(i) ==
  /\ ~IsAllowed(toolUses[i]) /\ ~(dryRun /\ GetWriteTool(toolUses[i]))
  /\ blocked' = IF dryRun /\ \A n \in DOMAIN blocked : blocked[n] # toolUses[i]
                  THEN Append(blocked, toolUses[i]) ELSE blocked
  /\ Answer(i, "not_allowed")
  /\ UNCHANGED <<planned, observedReads, groupErr>>

\* The goroutine of call i, from its first line to its return.
ExecuteTool(i) ==
  /\ pc = "tools" /\ i \in running
  /\ running' = running \ {i}
  /\ \/ ~cancelled /\ (ReadTool(i) \/ CaptureWrite(i) \/ Block(i))
     \/ cancelled /\ groupErr' = TRUE /\ UNCHANGED <<toolResults, books>>
  /\ UNCHANGED <<client, pc, cancelled, messages, toolUses, outcome, row>>

\* group.Wait() is forgotten: a slow goroutine goes on into the next round.
MutantWaitForTools ==
  /\ pc = "tools"
  /\ UNCHANGED <<client, cancelled, books, row>>
  /\ toolUses' = <<>> /\ toolResults' = <<>> /\ running' = {} /\ groupErr' = FALSE
  /\ messages' = Append(messages, [calls |-> toolUses, results |-> toolResults])
  /\ IF Len(messages') = maxToolIterations
       THEN Return("truncated")
       ELSE pc' = "ask" /\ UNCHANGED outcome

\* A run that has come to the limit is begun anew, instead of ending.
MutantBeginAnew ==
  /\ pc = "tools" /\ running = {}
  /\ toolUses' = <<>> /\ toolResults' = <<>> /\ running' = {} /\ groupErr' = FALSE
  /\ \/ groupErr /\ Return("failed") /\ UNCHANGED <<messages, books>>
     \/ /\ ~groupErr /\ pc' = "ask" /\ UNCHANGED outcome
        /\ IF Len(messages) + 1 = maxToolIterations
             THEN messages' = <<>> /\ planned' = <<>> /\ blocked' = <<>> /\ observedReads' = <<>>
             ELSE /\ messages' = Append(messages, [calls |-> toolUses, results |-> toolResults])
                  /\ UNCHANGED books
  /\ UNCHANGED <<client, cancelled, row>>

\* All goroutines have returned.  The results of a failed round are dropped,
\* what it entered into the books is not.
WaitForTools ==
  /\ pc = "tools" /\ running = {}
  /\ toolUses' = <<>> /\ toolResults' = <<>> /\ running' = {} /\ groupErr' = FALSE
  /\ \/ groupErr /\ Return("failed") /\ UNCHANGED messages
     \/ /\ ~groupErr
        /\ messages' = Append(messages, [calls |-> toolUses, results |-> toolResults])
        /\ IF Len(messages') = maxToolIterations
             THEN Return("truncated")
             ELSE pc' = "ask" /\ UNCHANGED outcome
  /\ UNCHANGED <<client, cancelled, books, row>>

\* POST /exec/plan inserts the row; an insert that fails may have been
\* applied.  A truncated run is stored like any other.
StorePlan ==
  /\ pc = "store"
  /\ \/ row' = [would_execute |-> planned, blocked_by_policy |-> blocked]
     \/ UNCHANGED row
  /\ pc' = "done"
  /\ UNCHANGED <<client, cancelled, messages, round, books, outcome>>

\* The HTTP client goes away, or the caller's deadline passes.
Cancel ==
  /\ pc \in {"ask", "tools"} /\ ~stub /\ ~cancelled
  /\ cancelled' = TRUE
  /\ UNCHANGED <<client, pc, messages, round, books, outcome, row>>

Run ==
  \/ StubDiagnosis \/ AskForTools \/ AskForText \/ InferenceFails
  \/ \E i \in running : ExecuteTool(i)
  \/ WaitForTools \/ StorePlan

Next == (\E s, d \in BOOLEAN : Begin(s, d)) \/ Run \/ Cancel

Spec == Init /\ [][Next]_vars

\* The goroutines are scheduled, and a call to the model ends, with an error
\* if in no other way: the client has a timeout.
FairSpec == Spec /\ WF_vars(Run)

-----------------------------------------------------------------------------
(* Properties.                                                             *)

Places  == (1..maxToolIterations) \X (1..MaxUses)
Actions == [tool_name : WRITE_TOOLS, command : Places, preconditions_met : Seq(Places)]
Results == {"none", "not_implemented", "captured", "not_allowed"}

\* Every variable has its type, and a round has a result slot per call.
TypeOK ==
  /\ stub \in BOOLEAN /\ dryRun \in BOOLEAN /\ cancelled \in BOOLEAN
  /\ pc \in {"idle", "ask", "tools", "store", "done"}
  /\ messages \in Seq([calls : ToolCalls, results : Seq(Results)])
  /\ Len(messages) \in 0..maxToolIterations
  /\ pc \in {"ask", "tools"} => Len(messages) < maxToolIterations
  /\ toolUses \in ToolCalls \cup {<<>>}
  /\ toolResults \in [DOMAIN toolUses -> Results]
  /\ running \subseteq DOMAIN toolUses /\ groupErr \in BOOLEAN
  /\ planned \in Seq(Actions) /\ blocked \in Seq(Tools) /\ observedReads \in Seq(Places)
  /\ outcome \in {"none", "stub", "answered", "truncated", "failed"}
  /\ row = NoPlan \/ row \in [would_execute : Seq(Actions), blocked_by_policy : Seq(Tools)]

\* Although the calls of a reply are served concurrently, a dry run's books
\* say what the conversation says: every call of a write tool is planned
\* once, in the order of the rounds, every other refused tool is reported
\* once, and each result stands at the place of its call.
BooksMatchConversation ==
  /\ \A k \in DOMAIN messages : \A i \in DOMAIN messages[k].calls :
       LET t == messages[k].calls[i] IN
       /\ t \in READ_ONLY_TOOLS => messages[k].results[i] = "not_implemented"
       /\ t \in WRITE_TOOLS /\ dryRun =>
            /\ messages[k].results[i] = "captured"
            /\ Cardinality({n \in DOMAIN planned :
                 planned[n].command = <<k, i>> /\ planned[n].tool_name = t}) = 1
       /\ t \in UnlistedTools /\ dryRun =>
            /\ messages[k].results[i] = "not_allowed"
            /\ Cardinality({n \in DOMAIN blocked : blocked[n] = t}) = 1
       /\ t \in WRITE_TOOLS /\ ~dryRun => messages[k].results[i] = "not_allowed"
  /\ \A m, n \in DOMAIN planned :
       m < n => planned[m].command[1] <= planned[n].command[1]

\* What a planned action names as observed was observed before it: all the
\* reads of the rounds before, each of them once and in the order of the
\* rounds, and no read of a later round.
ReadsOf(k) == {i \in DOMAIN messages[k].calls : messages[k].calls[i] \in READ_ONLY_TOOLS}
PreconditionsWereObserved ==
  /\ \A j \in DOMAIN observedReads :
       LET p == observedReads[j] IN
       /\ p[1] \in DOMAIN messages => p[2] \in ReadsOf(p[1])
       /\ \A l \in DOMAIN observedReads :
            j < l => p[1] <= observedReads[l][1] /\ p # observedReads[l]
  /\ \A n \in DOMAIN planned :
       LET pre == planned[n].preconditions_met
           k   == planned[n].command[1]
       IN /\ Len(pre) <= Len(observedReads)
          /\ \A j \in DOMAIN pre : pre[j] = observedReads[j] /\ pre[j][1] <= k
          /\ \A m \in 1..(k - 1) : \A i \in ReadsOf(m) :
               \E j \in DOMAIN pre : pre[j] = <<m, i>>

\* A human is only ever offered a plan whose run ended without an error, and
\* the plan is all of what that run collected: a run that is cut off in the
\* middle of a round leaves half a list behind, and no row.
PlanOfCleanRun ==
  row # NoPlan =>
    /\ outcome \in {"stub", "answered", "truncated"} /\ running = {}
    /\ row = [would_execute |-> planned, blocked_by_policy |-> blocked]

\* A model that never stops calling tools does not keep the loop going.
RunEnds == (pc = "ask") ~> (pc = "done")

=============================================================================
