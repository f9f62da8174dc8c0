------------------------------ MODULE ExecView ------------------------------
(***************************************************************************)
(* GET /exec/{exec_id} beside a running pipeline: the handler reads the    *)
(* plan's row and then its audit rows, in two statements without a         *)
(* transaction, while ExecPlan goes on in between.                         *)
(***************************************************************************)
EXTENDS ExecPlan

CONSTANT Unread   \* a part of the answer that has not been read yet

VARIABLES
  viewed,         \* the plan of the request
  shownPlan,      \* its status and actions_completed, as they were read
  shownTrail      \* its audit_trail, as it was read

view == <<viewed, shownPlan, shownTrail>>

ViewInit ==
  /\ Init
  /\ viewed \in Plans /\ shownPlan = Unread /\ shownTrail = Unread

PlanRow(p) == [status |-> status[p], done |-> done[p]]

\* A missing plan is a 404 and leaves nothing to read.
ViewPlan ==
  /\ shownPlan = Unread
  /\ status[viewed] # "absent"
  /\ shownPlan' = PlanRow(viewed)
  /\ UNCHANGED <<vars, viewed, shownTrail>>

\* The trail may be read first.
MutantViewTrail ==
  /\ shownTrail = Unread
  /\ shownTrail' = audit[viewed]
  /\ UNCHANGED <<vars, viewed, shownPlan>>

ViewTrail ==
  /\ shownPlan # Unread /\ shownTrail = Unread
  /\ shownTrail' = audit[viewed]
  /\ UNCHANGED <<vars, viewed, shownPlan>>

\* The answer is written, and the next request is for any plan; an error of
\* either statement ends the request without one.
NextView ==
  /\ shownPlan # Unread
  /\ viewed' \in Plans /\ shownPlan' = Unread /\ shownTrail' = Unread
  /\ UNCHANGED vars

ViewSpecNext ==
  \/ Next /\ UNCHANGED view
  \/ ViewPlan \/ ViewTrail \/ NextView

ViewSpec == ViewInit /\ [][ViewSpecNext]_<<vars, view>>

-----------------------------------------------------------------------------
\* Where executions of a plan do not overlap, the handler reads in the safe
\* order: what it shows may be a state the plan
\* was never in, but the trail is never behind the status above it.  A plan
\* shown as started comes with its audit rows, and one shown as finished
\* with the rows of how it finished.
TrailNotBehindStatus ==
  shownPlan # Unread /\ shownTrail # Unread =>
    LET rows   == 1..NumActions[viewed]
        In(S)  == {s \in rows : shownTrail[s] \in S}
        n      == shownPlan.done
    IN CASE shownPlan.status = "running"     -> In({"none"}) = {}
         [] shownPlan.status = "completed"   -> In({"success"}) = rows /\ n = NumActions[viewed]
         [] shownPlan.status = "failed"      -> In({"failed"}) = {n + 1} /\ In({"none"}) = {}
         [] shownPlan.status = "rolled_back" -> In({"rolled_back"}) = 1..n /\ In({"failed"}) = {n + 1}
         [] OTHER                            -> n = 0

=============================================================================
