----------------------------- MODULE AlertTable -----------------------------
(***************************************************************************)
(* The alerts table and those who write it, but for the life of the        *)
(* worker: the CMS webhook, which inserts rows, the incident handlers,     *)
(* which move them along the lifecycle on behalf of operators, and the     *)
(* worker's statements, which AlertPipeline and WorkerLifecycle put into   *)
(* loops.  Nobody opens a transaction: each step below is one statement,   *)
(* and the steps of the parties interleave.                                *)
(*                                                                         *)
(* An operator named Mutant... is no part of the specification: it is the  *)
(* definition after it with a plausible bug, which some property has to    *)
(* tell from the code.                                                     *)
(***************************************************************************)
EXTENDS Naturals, FiniteSets

CONSTANTS
  Events,     \* alert_id values CMS pushes, each any number of times
  Stamped,    \* the events whose payload carries an RFC3339 created_at
  Stamp,      \* that created_at
  MaxStamp,   \* a time after all of them and before the first push
  Users,      \* operators, each with one incident request in flight at most
  Wanted,     \* the statuses they ask for
  MaxRows,    \* bound on the rows of the table
  BatchSize,  \* the LIMIT of the worker's query
  NoEvent,    \* the alert_id of a row that does not exist
  NoRequest,  \* the operator is not in a handler
  DBFaults    \* a statement may fail, applied or not

Rows == 1..MaxRows

ASSUME TableAssumption == MaxRows \in Nat /\ BatchSize \in Nat \ {0}
ASSUME EventAssumption ==
  /\ Stamped \subseteq Events /\ NoEvent \notin Events
  /\ MaxStamp \in Nat /\ Stamp \in [Stamped -> 0..MaxStamp]
ASSUME FaultAssumption == DBFaults \in BOOLEAN

VARIABLES
  \* alerts: the key (alert_id, created_at) and the status of each row
  event, created, status,
  acked,      \* the events whose sender has received a 200
  late,       \* rows whose mark was sent and never answered: the server may
              \* still apply it when the worker has long gone on or returned
  request,    \* each operator's request between its SELECT and its UPDATE:
              \* the row, the status read from it and the one to write
  \* history
  everAcked   \* rows an operator has moved to "acknowledged"

table   == <<event, created, status>>
pending == <<late, request>>
alerts  == <<table, acked, pending, everAcked>>

-----------------------------------------------------------------------------
Targets == {"open", "acknowledged", "suppressed", "maintenance", "resolved"}
ASSUME WantedAssumption == Wanted \subseteq Targets

Status  == Targets \cup {"absent", "analyzed"}
Request == [row : Rows, current : Status, target : Targets]

validTransitions ==
  {<<"open", "acknowledged">>,
   <<"acknowledged", "suppressed">>, <<"acknowledged", "maintenance">>,
   <<"acknowledged", "resolved">>,
   <<"suppressed", "open">>, <<"maintenance", "open">>, <<"resolved", "open">>}

\* An alert may be closed without being acknowledged first.
MutantCanTransition(from, to) ==
  <<from, to>> \in validTransitions \/ (from = "open" /\ to = "resolved")

canTransition(from, to) == <<from, to>> \in validTransitions

Present == {i \in Rows : status[i] # "absent"}

\* The next id of the sequence.
NextRow(i) == status[i] = "absent" /\ \A j \in 1..(i - 1) : status[j] # "absent"

\* time.Now() is later than every earlier insertion and every payload's stamp.
Now == MaxStamp + Cardinality(Present) + 1

\* The column of the missing timestamp is filled in from the event's name.
MutantCreatedAt(e) == IF e \in Stamped THEN Now ELSE 0

CreatedAt(e) == IF e \in Stamped THEN Stamp[e] ELSE Now

\* ORDER BY created_at DESC; the later id goes first where the query leaves
\* a tie open.
Newer(j, i) == created[j] > created[i] \/ (created[j] = created[i] /\ j > i)

\* The query of the Python worker, which only joins with analyses.
MutantBacklog == {i \in Rows : status[i] # "absent"}

Backlog == {i \in Rows : status[i] \notin {"absent", "analyzed"}}

TableInit ==
  /\ event = [i \in Rows |-> NoEvent]
  /\ created = [i \in Rows |-> 0]
  /\ status = [i \in Rows |-> "absent"]
  /\ acked = {}
  /\ late = {}
  /\ request = [u \in Users |-> NoRequest]
  /\ everAcked = {}

-----------------------------------------------------------------------------
(* POST /webhook/cms.  A push that fails its signature or its parsing      *)
(* changes nothing.                                                        *)

\* The bound on the table is the only reason why there is no next row.
AddRow(e, t) ==
  \E i \in Rows :
    /\ NextRow(i)
    /\ event' = [event EXCEPT ![i] = e]
    /\ created' = [created EXCEPT ![i] = t]
    /\ status' = [status EXCEPT ![i] = "open"]

\* The conflict updates the row in place and opens it again.
MutantInsertAlert(e, t) ==
  LET same == {i \in Rows : event[i] = e /\ created[i] = t} IN
  IF same # {}
    THEN /\ status' = [i \in Rows |-> IF i \in same THEN "open" ELSE status[i]]
         /\ UNCHANGED <<event, created>>
    ELSE AddRow(e, t)

\* ON CONFLICT (alert_id, created_at) DO NOTHING
InsertAlert(e, t) ==
  IF \E i \in Rows : event[i] = e /\ created[i] = t
    THEN UNCHANGED table
    ELSE AddRow(e, t)

\* The answer does not wait for the insert.
MutantServeWebhook(e) ==
  /\ InsertAlert(e, CreatedAt(e)) \/ UNCHANGED table
  /\ acked' = acked \cup {e}
  /\ UNCHANGED <<pending, everAcked>>

\* CMS pushes at least once: before, and also after, a 200 it received.
ServeWebhook(e) ==
  /\ \/ InsertAlert(e, CreatedAt(e)) /\ acked' = acked \cup {e}
     \/ InsertAlert(e, CreatedAt(e)) /\ UNCHANGED acked   \* the 200 is lost
     \/ DBFaults /\ UNCHANGED <<table, acked>>            \* 500
  /\ UNCHANGED <<pending, everAcked>>

-----------------------------------------------------------------------------
(* The statements of the worker.                                           *)

\* The query's answer.
Unanalyzed ==
  {i \in Backlog : Cardinality({j \in Backlog : Newer(j, i)}) < BatchSize}

\* The rows of an answer are marked in its order.
IsNext(i, rows) == i \in rows /\ \A j \in rows \ {i} : Newer(i, j)

\* The UPDATE names the row by its key alone, whatever became of its status.
\* It may fail, and take effect all the same, now or later.
MarkRow(i) ==
  /\ \/ status' = [status EXCEPT ![i] = "analyzed"] /\ UNCHANGED late
     \/ DBFaults /\ late' \in {late, late \cup {i}} /\ UNCHANGED status
  /\ UNCHANGED <<event, created, acked, request, everAcked>>

\* The loop is told to end with the rows still to be marked: it may have
\* sent the UPDATE of the next one.
LeaveRows(rows) ==
  /\ late' \in {late} \cup {late \cup {i} : i \in {k \in rows : IsNext(k, rows)}}
  /\ UNCHANGED <<table, acked, request, everAcked>>

\* The server comes to such an UPDATE, or drops it with its connection.  An
\* entry stays when it stands for more than one UPDATE of the row.
LateMark ==
  /\ \E i \in late :
       /\ late' \in {late, late \ {i}}
       /\ status' = [status EXCEPT ![i] = "analyzed"] \/ UNCHANGED status
  /\ UNCHANGED <<event, created, acked, request, everAcked>>

-----------------------------------------------------------------------------
(* POST /incidents/{id}/ack, suppress, maintenance, resolve, replay.  A     *)
(* request whose row is missing or unreadable (404), is in the target      *)
(* state already (200) or may not go there (409) ends with its SELECT.     *)

ReadStatus(u, i, to) ==
  /\ request[u] = NoRequest
  /\ canTransition(status[i], to)
  /\ request' = [request EXCEPT ![u] = [row |-> i, current |-> status[i], target |-> to]]
  /\ UNCHANGED <<table, acked, late, everAcked>>

\* This UPDATE, too, does not look at the status it replaces.
WriteStatus(u) ==
  /\ request[u] # NoRequest
  /\ request' = [request EXCEPT ![u] = NoRequest]
  /\ \/ /\ status' = [status EXCEPT ![request[u].row] = request[u].target]
        /\ everAcked' = IF request[u].target = "acknowledged"
                          THEN everAcked \cup {request[u].row} ELSE everAcked
     \/ DBFaults /\ UNCHANGED <<status, everAcked>>
  /\ UNCHANGED <<event, created, acked, late>>

\* Everybody but the loops of the worker.
Others ==
  \/ \E e \in Events : ServeWebhook(e)
  \/ \E u \in Users : \/ \E i \in Rows, to \in Wanted : ReadStatus(u, i, to)
                      \/ WriteStatus(u)
  \/ LateMark

-----------------------------------------------------------------------------
(* Properties.                                                             *)

\* Every variable of the table and of the requests has its type.
TableTypeOK ==
  /\ event \in [Rows -> Events \cup {NoEvent}]
  /\ created \in [Rows -> Nat]
  /\ status \in [Rows -> Status]
  /\ acked \subseteq Events
  /\ late \subseteq Present
  /\ request \in [Users -> Request \cup {NoRequest}]
  /\ everAcked \subseteq Rows
  /\ \A i \in Rows : event[i] = NoEvent <=> status[i] = "absent"

\* However often CMS pushes an event that carries its own timestamp, and
\* whichever answers are lost, one row stands for it.
OneRowPerStampedEvent ==
  \A i, j \in Present : event[i] = event[j] /\ event[i] \in Stamped => i = j

\* An alert whose sender was told 200 is in the table: CMS stops retrying it.
AckedIsStored == \A e \in acked : \E i \in Present : event[i] = e

\* Whatever races between operators and worker, no alert is suppressed, put
\* in maintenance or resolved unless some operator acknowledged it before.
VerdictNeedsAck ==
  \A i \in Rows :
    status[i] \in {"suppressed", "maintenance", "resolved"} => i \in everAcked

\* Whatever the worker is about, the only way out of "analyzed" is the late
\* write of an operator who read the status before; a push of the same alert
\* never opens it again.
OnlyLateWriteReopens ==
  [][\A i \in Rows :
       status[i] = "analyzed" /\ status'[i] # "analyzed" =>
         \E u \in Users : /\ request[u] # NoRequest /\ request[u].row = i
                          /\ request[u].current # "analyzed"]_alerts

=============================================================================
