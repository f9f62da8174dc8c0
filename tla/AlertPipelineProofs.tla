------------------------ MODULE AlertPipelineProofs ------------------------
(***************************************************************************)
(* Proofs about AlertPipeline, for every number of rows, events, operators *)
(* and every batch size, and about WorkerLifecycle, which implements it,   *)
(* for any number of callers and loops.                                    *)
(***************************************************************************)
EXTENDS AlertPipeline, WorkerLifecycle, FiniteSetTheorems, WellFoundedInduction, TLAPS

\* What an insertion does to one row: it is filled, or it stays as it is.
Filled(i)   == /\ status[i] = "absent" /\ status'[i] = "open"
               /\ event'[i] \in Events /\ created'[i] \in Nat
Kept(i)     == event'[i] = event[i] /\ created'[i] = created[i]
Same(i)     == Kept(i) /\ status'[i] = status[i]

\* Types of the rows.
TableTypes ==
  /\ event \in [Rows -> Events \cup {NoEvent}]
  /\ created \in [Rows -> Nat]
  /\ status \in [Rows -> Status]

LEMMA NowIsNat == TableTypes => Now \in Nat
<1> SUFFICES ASSUME TableTypes PROVE Now \in Nat
  OBVIOUS
<1>1. IsFiniteSet(Rows)
  BY FS_Interval, TableAssumption DEF Rows
<1>2. IsFiniteSet(Present) /\ Cardinality(Present) \in Nat
  BY <1>1, FS_Subset, FS_CardinalityType DEF Present
<1> QED
  BY <1>2, EventAssumption DEF Now

LEMMA CreatedAtIsNat == \A e \in Events : TableTypes => CreatedAt(e) \in Nat
<1> SUFFICES ASSUME NEW e \in Events, TableTypes PROVE CreatedAt(e) \in Nat
  OBVIOUS
<1>1. CASE e \in Stamped
  BY <1>1, EventAssumption DEF CreatedAt
<1>2. CASE e \notin Stamped
  BY <1>2, NowIsNat DEF CreatedAt
<1> QED
  BY <1>1, <1>2

\* An insertion keeps the types and fills at most one row, an absent one.
LEMMA InsertEffect ==
  ASSUME TableTypes, NEW e \in Events, NEW t \in Nat, InsertAlert(e, t)
  PROVE  /\ TableTypes'
         /\ \/ UNCHANGED table /\ \E i \in Rows : event[i] = e /\ created[i] = t
            \/ /\ \A i \in Rows : ~(event[i] = e /\ created[i] = t)
               /\ \E i \in Rows :
                    /\ Filled(i) /\ event'[i] = e /\ created'[i] = t
                    /\ \A j \in Rows \ {i} : Same(j)
<1>1. CASE \E i \in Rows : event[i] = e /\ created[i] = t
  <2>1. UNCHANGED table
    BY <1>1 DEF InsertAlert
  <2> QED
    BY <1>1, <2>1 DEF table, TableTypes
<1>2. CASE ~ \E i \in Rows : event[i] = e /\ created[i] = t
  <2>1. AddRow(e, t)
    BY <1>2 DEF InsertAlert
  <2>2. PICK i \in Rows :
          /\ status[i] = "absent"
          /\ event' = [event EXCEPT ![i] = e]
          /\ created' = [created EXCEPT ![i] = t]
          /\ status' = [status EXCEPT ![i] = "open"]
    BY <2>1 DEF AddRow, NextRow
  <2>3. TableTypes'
    BY <2>2 DEF TableTypes, Status, Targets
  <2>4. /\ Filled(i) /\ event'[i] = e /\ created'[i] = t
        /\ \A j \in Rows \ {i} : Same(j)
    BY <2>2 DEF TableTypes, Filled, Same, Kept
  <2> QED
    BY <1>2, <2>3, <2>4
<1> QED
  BY <1>1, <1>2

\* What every step on the table keeps, whoever takes it: the types, the
\* timestamps of the stamped rows, and what a request in flight remembers of
\* its row.
StampedRows ==
  \A i \in Rows : event[i] \in Stamped => created[i] = Stamp[event[i]]
RequestsLegal ==
  \A u \in Users : request[u] # NoRequest =>
    /\ <<request[u].current, request[u].target>> \in validTransitions
    /\ status[request[u].row] # "absent"
    /\ request[u].current = "acknowledged" => request[u].row \in everAcked
AckedFirst ==
  \A i \in Rows :
    status[i] \in {"acknowledged", "suppressed", "maintenance", "resolved"} =>
      i \in everAcked
TInv == /\ TableTypeOK /\ StampedRows /\ OneRowPerStampedEvent /\ AckedIsStored
        /\ RequestsLegal /\ AckedFirst

LEMMA InitTInv == TableInit => TInv
<1> SUFFICES ASSUME TableInit PROVE TInv
  OBVIOUS
<1>1. TableTypeOK
  BY EventAssumption DEF TableInit, TableTypeOK, Status, Targets, Present, Rows
<1>2. StampedRows /\ OneRowPerStampedEvent /\ AckedIsStored
  BY EventAssumption
  DEF TableInit, StampedRows, OneRowPerStampedEvent, AckedIsStored, Present
<1>3. RequestsLegal /\ AckedFirst
  BY DEF TableInit, RequestsLegal, AckedFirst
<1> QED
  BY <1>1, <1>2, <1>3 DEF TInv

\* The webhook: a push that is answered has its row, the new or the old one.
LEMMA ServeWebhookTInv ==
  ASSUME TInv, NEW e \in Events, ServeWebhook(e)
  PROVE  TInv'
<1>0. TableTypeOK /\ TableTypes
  BY DEF TInv, TableTypeOK, TableTypes
<1>1. /\ UNCHANGED <<pending, everAcked>>
      /\ acked' \subseteq acked \cup {e}
      /\ InsertAlert(e, CreatedAt(e)) \/ (UNCHANGED table /\ acked' = acked)
  BY DEF ServeWebhook
<1>2. CreatedAt(e) \in Nat
  BY <1>0, CreatedAtIsNat
<1>3. CASE UNCHANGED table /\ (acked' = acked \/ \E i \in Rows : event[i] = e)
  <2>1. AckedIsStored'
    <3>1. \A i \in Rows : event[i] = e => i \in Present
      BY <1>0, EventAssumption DEF TableTypeOK, Present
    <3> QED
      BY <1>1, <1>3, <3>1 DEF TInv, AckedIsStored, Present, table
  <2>2. TableTypeOK'
    BY <1>0, <1>1, <1>3 DEF TableTypeOK, Present, table, pending
  <2> QED
    BY <1>1, <1>3, <2>1, <2>2
    DEF TInv, StampedRows, OneRowPerStampedEvent, RequestsLegal, AckedFirst,
        Present, table, pending
<1>4. CASE InsertAlert(e, CreatedAt(e)) /\ table' # table
  <2>1. /\ TableTypes'
        /\ \A i \in Rows : ~(event[i] = e /\ created[i] = CreatedAt(e))
    BY <1>0, <1>2, <1>4, InsertEffect DEF table
  <2>2. PICK i \in Rows :
          /\ Filled(i) /\ event'[i] = e /\ created'[i] = CreatedAt(e)
          /\ \A j \in Rows \ {i} : Same(j)
    BY <1>0, <1>2, <1>4, InsertEffect DEF table
  <2>3. Present' = Present \cup {i}
    BY <2>2 DEF Present, Filled, Same
  <2>4. event[i] = NoEvent
    BY <1>0, <2>2 DEF TableTypeOK, Filled
  <2>5. TableTypeOK'
    <3>1. \A j \in Rows : event'[j] = NoEvent <=> status'[j] = "absent"
      BY <1>0, <2>2, EventAssumption DEF TableTypeOK, Filled, Same, Kept
    <3>2. acked' \subseteq Events /\ late' \subseteq Present'
      BY <1>0, <1>1, <2>3 DEF TableTypeOK, pending
    <3> QED
      BY <1>0, <1>1, <2>1, <3>1, <3>2 DEF TableTypeOK, TableTypes, pending
  <2>6. StampedRows'
    BY <2>2 DEF TInv, StampedRows, Same, Kept, CreatedAt
  <2>7. OneRowPerStampedEvent'
    <3>1. \A j \in Rows \ {i} : event[j] = e => e \notin Stamped
      BY <2>1 DEF TInv, StampedRows, CreatedAt
    <3> QED
      BY <2>2, <2>3, <3>1
      DEF TInv, OneRowPerStampedEvent, Same, Kept, Present
  <2>8. AckedIsStored'
    <3>1. \A j \in Present : event'[j] = event[j]
      BY <2>2 DEF Present, Filled, Same, Kept
    <3> QED
      BY <1>1, <2>2, <2>3, <3>1 DEF TInv, AckedIsStored
  <2>9. RequestsLegal' /\ AckedFirst'
    <3>1. \A v \in Users : request[v] # NoRequest => request[v].row \in Rows
      BY <1>0 DEF TableTypeOK, Request
    <3> QED
      BY <1>1, <2>2, <3>1
      DEF TInv, RequestsLegal, AckedFirst, Filled, Same, pending
  <2> QED
    BY <2>5, <2>6, <2>7, <2>8, <2>9 DEF TInv
<1>5. CASE InsertAlert(e, CreatedAt(e)) /\ table' = table
  <2>1. \E i \in Rows : event[i] = e
    <3>1. CASE \E i \in Rows : event[i] = e /\ created[i] = CreatedAt(e)
      BY <3>1
    <3>2. CASE \E i \in Rows : Filled(i)
      BY <1>5, <3>2 DEF Filled, table
    <3> QED
      BY <1>0, <1>2, <1>5, <3>1, <3>2, InsertEffect
  <2> QED
    BY <1>3, <1>5, <2>1 DEF table
<1> QED
  BY <1>1, <1>3, <1>4, <1>5 DEF table

\* A statement of the worker changes no key, and no status to one that needs
\* an operator.
Marked ==
  /\ UNCHANGED <<event, created, acked, request, everAcked>>
  /\ late' \subseteq Present
  /\ \/ status' = status
     \/ \E i \in Present : status' = [status EXCEPT ![i] = "analyzed"]

LEMMA StatementsMark ==
  ASSUME TInv, NEW rows \in SUBSET Present
  PROVE  /\ \A i \in rows : MarkRow(i) => Marked
         /\ LeaveRows(rows) => Marked
         /\ LateMark => Marked
<1>0. late \subseteq Present
  BY DEF TInv, TableTypeOK
<1>1. \A i \in rows : MarkRow(i) => Marked
  BY <1>0 DEF MarkRow, Marked
<1>2. LeaveRows(rows) => Marked
  BY <1>0 DEF LeaveRows, Marked, table
<1>3. LateMark => Marked
  BY <1>0 DEF LateMark, Marked
<1> QED
  BY <1>1, <1>2, <1>3

LEMMA MarkedTInv ==
  ASSUME TInv, Marked
  PROVE  /\ TInv' /\ Present' = Present
         /\ \A i \in Rows : status'[i] \in {status[i], "analyzed"}
<1>0. TableTypeOK
  BY DEF TInv
<1>2. /\ status' \in [Rows -> Status] /\ Present' = Present
      /\ \A i \in Rows : status'[i] \in {status[i], "analyzed"}
      /\ \A i \in Rows : status'[i] = "absent" <=> status[i] = "absent"
  BY <1>0 DEF Marked, TableTypeOK, Present, Status
<1>3. TableTypeOK'
  BY <1>0, <1>2 DEF Marked, TableTypeOK
<1>4. StampedRows' /\ OneRowPerStampedEvent' /\ AckedIsStored'
  BY <1>2 DEF Marked, TInv, StampedRows, OneRowPerStampedEvent, AckedIsStored
<1>5. RequestsLegal' /\ AckedFirst'
  <2>1. \A v \in Users : request[v] # NoRequest => request[v].row \in Rows
    BY <1>0 DEF TableTypeOK, Request
  <2> QED
    BY <1>2, <2>1 DEF Marked, TInv, RequestsLegal, AckedFirst
<1> QED
  BY <1>2, <1>3, <1>4, <1>5 DEF TInv

\* An operator reads a status from which the transition is legal ...
LEMMA ReadStatusTInv ==
  ASSUME TInv, NEW u \in Users, NEW i \in Rows, NEW to \in Targets,
         ReadStatus(u, i, to)
  PROVE  TInv'
<1>0. TableTypeOK
  BY DEF TInv
<1>1. UNCHANGED <<table, acked, late, everAcked>>
  BY DEF ReadStatus
<1>2. /\ request' \in [Users -> Request \cup {NoRequest}]
      /\ request'[u] = [row |-> i, current |-> status[i], target |-> to]
      /\ \A v \in Users \ {u} : request'[v] = request[v]
  BY <1>0 DEF ReadStatus, TableTypeOK, Request
<1>3. TableTypeOK'
  BY <1>0, <1>1, <1>2 DEF TableTypeOK, Present, table, pending
<1>4. RequestsLegal'
  <2>1. <<status[i], to>> \in validTransitions /\ status[i] # "absent"
    BY DEF ReadStatus, canTransition, validTransitions
  <2>2. status[i] = "acknowledged" => i \in everAcked
    BY DEF TInv, AckedFirst
  <2> QED
    BY <1>1, <1>2, <2>1, <2>2 DEF TInv, RequestsLegal, table
<1> QED
  BY <1>1, <1>3, <1>4
  DEF TInv, StampedRows, OneRowPerStampedEvent, AckedIsStored, AckedFirst,
      Present, table

\* ... and writes its target whatever the status has become: a verdict was
\* read from "acknowledged", so its row has been acknowledged.
LEMMA WriteStatusTInv ==
  ASSUME TInv, NEW u \in Users, WriteStatus(u)
  PROVE  TInv'
<1> DEFINE i == request[u].row
           to == request[u].target
<1>0. TableTypeOK
  BY DEF TInv
<1>1. /\ request[u] \in Request
      /\ UNCHANGED <<event, created, acked, late>>
      /\ request' = [request EXCEPT ![u] = NoRequest]
      /\ \/ /\ status' = [status EXCEPT ![i] = to]
            /\ everAcked' = IF to = "acknowledged" THEN everAcked \cup {i}
                                                   ELSE everAcked
         \/ UNCHANGED <<status, everAcked>>
  BY <1>0 DEF WriteStatus, TableTypeOK
<1>2. /\ i \in Rows /\ to \in Targets /\ status[i] # "absent"
      /\ <<request[u].current, to>> \in validTransitions
      /\ request[u].current = "acknowledged" => i \in everAcked
  BY <1>1 DEF TInv, RequestsLegal, WriteStatus, Request
<1>3. /\ everAcked \subseteq everAcked' /\ everAcked' \subseteq Rows
      /\ status' \in [Rows -> Status]
      /\ \A j \in Rows : status'[j] = "absent" <=> status[j] = "absent"
  BY <1>0, <1>1, <1>2 DEF TableTypeOK, Status, Targets
<1>4. Present' = Present
  BY <1>3 DEF Present
<1>5. TableTypeOK'
  BY <1>0, <1>1, <1>3, <1>4 DEF TableTypeOK, pending
<1>6. StampedRows' /\ OneRowPerStampedEvent' /\ AckedIsStored'
  BY <1>1, <1>4 DEF TInv, StampedRows, OneRowPerStampedEvent, AckedIsStored
<1>7. RequestsLegal'
  <2>1. \A v \in Users : request'[v] # NoRequest =>
          request'[v] = request[v] /\ request[v] \in Request
    BY <1>0, <1>1 DEF TableTypeOK
  <2>2. \A v \in Users : request'[v] # NoRequest => request[v].row \in Rows
    BY <2>1 DEF Request
  <2> QED
    BY <1>3, <2>1, <2>2 DEF TInv, RequestsLegal
<1>8. AckedFirst'
  <2>1. \A j \in Rows : status'[j] = status[j]
          \/ (j = i /\ status'[j] = to
              /\ (to = "acknowledged" => i \in everAcked'))
    BY <1>0, <1>1, <1>2 DEF TableTypeOK
  <2>2. to \in {"suppressed", "maintenance", "resolved"} => i \in everAcked
    BY <1>2 DEF validTransitions
  <2> QED
    BY <1>2, <1>3, <2>1, <2>2 DEF TInv, AckedFirst, Targets
<1> QED
  BY <1>5, <1>6, <1>7, <1>8 DEF TInv


\* The steps of everybody but the loops: rows are added and never go, and a
\* row comes back from "analyzed" by the late write of an operator only.
LateWrite(i) ==
  \E u \in Users : /\ request[u] # NoRequest /\ request[u].row = i
                   /\ request[u].current # "analyzed"
Reopened(i) == status[i] = "analyzed" /\ status'[i] # "analyzed"

LEMMA OthersTInv ==
  ASSUME TInv, Others
  PROVE  /\ TInv' /\ Present \subseteq Present'
         /\ \A i \in Rows : Reopened(i) => LateWrite(i)
<1>0. TableTypeOK /\ TableTypes
  BY DEF TInv, TableTypeOK, TableTypes
<1>1. ASSUME NEW e \in Events, ServeWebhook(e)
      PROVE  /\ Present \subseteq Present'
             /\ \A i \in Rows : ~Reopened(i)
  <2>1. CASE InsertAlert(e, CreatedAt(e))
    <3>1. \A i \in Rows : status'[i] = status[i] \/ Filled(i)
      BY <1>0, <2>1, CreatedAtIsNat, InsertEffect DEF Same, table
    <3> QED
      BY <3>1 DEF Filled, Present, Reopened
  <2>2. CASE UNCHANGED table
    BY <2>2 DEF table, Present, Reopened
  <2> QED
    BY <1>1, <2>1, <2>2 DEF ServeWebhook
<1>2. ASSUME NEW u \in Users, NEW k \in Rows, NEW to \in Wanted, ReadStatus(u, k, to)
      PROVE  Present' = Present /\ \A i \in Rows : ~Reopened(i)
  BY <1>2 DEF ReadStatus, table, Present, Reopened
<1>3. ASSUME NEW u \in Users, WriteStatus(u)
      PROVE  /\ Present \subseteq Present'
             /\ \A i \in Rows : Reopened(i) => LateWrite(i)
  <2>1. request[u] \in Request
    BY <1>0, <1>3 DEF WriteStatus, TableTypeOK
  <2>2. \A i \in Rows : status'[i] = status[i]
          \/ (request[u].row = i /\ status'[i] = request[u].target)
    BY <1>0, <1>3, <2>1 DEF WriteStatus, TableTypeOK, Request
  <2>3. request[u].current # "analyzed" /\ request[u].target # "absent"
    BY <1>3, <2>1
    DEF TInv, RequestsLegal, validTransitions, WriteStatus, Request, Targets
  <2>4. request[u] # NoRequest
    BY <1>3 DEF WriteStatus
  <2> QED
    BY <2>2, <2>3, <2>4 DEF Present, Reopened, LateWrite
<1>4. ASSUME LateMark
      PROVE  Present' = Present /\ \A i \in Rows : ~Reopened(i)
  BY <1>4, StatementsMark, MarkedTInv DEF Reopened
<1>5. TInv'
  <2>1. CASE LateMark
    BY <2>1, StatementsMark, MarkedTInv
  <2>2. \A to \in Wanted : to \in Targets
    BY WantedAssumption
  <2> QED
    BY <2>1, <2>2, ServeWebhookTInv, ReadStatusTInv, WriteStatusTInv DEF Others
<1> QED
  BY <1>1, <1>2, <1>3, <1>4, <1>5 DEF Others

LEMMA TableStutters == ASSUME TInv, UNCHANGED alerts PROVE TInv' /\ Present' = Present
BY DEF TInv, TableTypeOK, StampedRows, OneRowPerStampedEvent, AckedIsStored,
       RequestsLegal, AckedFirst, Present, alerts, table, pending

-----------------------------------------------------------------------------
(* AlertPipeline.                                                          *)

\* The inductive invariant.
IInv == TInv /\ TypeOK

LEMMA InitIInv == Init => IInv
<1> SUFFICES ASSUME Init PROVE IInv
  OBVIOUS
<1>1. TInv
  BY InitTInv DEF Init
<1> QED
  BY <1>1 DEF Init, TInv, TypeOK, IInv

\* What a step of the worker does to the table.
LEMMA WorkMarks ==
  ASSUME IInv, Work
  PROVE  /\ UNCHANGED alerts \/ Marked
         /\ wpc' \in {"stopped", "poll", "mark"} /\ batch' \subseteq Present
<1>0. TInv /\ batch \subseteq Present /\ wpc \in {"stopped", "poll", "mark"}
  BY DEF IInv, TypeOK
<1>1. CASE Start
  BY <1>0, <1>1 DEF Start
<1>2. CASE SelectUnanalyzed
  BY <1>2 DEF SelectUnanalyzed, Unanalyzed, Backlog, Present
<1>3. CASE MarkAnalyzed
  <2>1. PICK i \in Rows : IsNext(i, batch) /\ MarkRow(i) /\ batch' = batch \ {i}
    BY <1>3 DEF MarkAnalyzed
  <2>2. i \in batch /\ UNCHANGED wpc
    BY <1>3, <2>1 DEF MarkAnalyzed, IsNext
  <2> QED
    BY <1>0, <2>1, <2>2, StatementsMark
<1>4. CASE EndCycle
  BY <1>0, <1>4 DEF EndCycle
<1>5. CASE Stop
  BY <1>0, <1>5, StatementsMark DEF Stop
<1> QED
  BY <1>1, <1>2, <1>3, <1>4, <1>5 DEF Work

LEMMA NextIInv ==
  IInv /\ [Next]_vars => IInv' /\ [\A i \in Rows : Reopened(i) => LateWrite(i)]_alerts
<1> SUFFICES ASSUME IInv, [Next]_vars
             PROVE  /\ IInv'
                    /\ [\A i \in Rows : Reopened(i) => LateWrite(i)]_alerts
  OBVIOUS
<1>0. TInv /\ batch \subseteq Present /\ wpc \in {"stopped", "poll", "mark"}
  BY DEF IInv, TypeOK
<1>1. CASE Work
  <2>1. TInv' /\ Present' = Present
    BY <1>0, <1>1, WorkMarks, MarkedTInv, TableStutters
  <2>2. TypeOK'
    BY <1>1, <2>1, WorkMarks DEF TypeOK, TInv
  <2>3. [\A i \in Rows : ~Reopened(i)]_alerts
    BY <1>0, <1>1, WorkMarks, MarkedTInv DEF Reopened
  <2> QED
    BY <2>1, <2>2, <2>3 DEF IInv
<1>2. CASE Others /\ UNCHANGED worker
  <2>1. TInv' /\ Present \subseteq Present'
    BY <1>0, <1>2, OthersTInv
  <2>2. TypeOK'
    BY <1>0, <1>2, <2>1 DEF TypeOK, TInv, worker
  <2> QED
    BY <1>0, <1>2, <2>1, <2>2, OthersTInv DEF IInv
<1>3. CASE UNCHANGED vars
  <2>1. TInv' /\ Present' = Present /\ UNCHANGED <<alerts, worker>>
    BY <1>0, <1>3, TableStutters DEF vars
  <2> QED
    BY <1>0, <2>1 DEF IInv, TypeOK, TInv, worker
<1> QED
  BY <1>1, <1>2, <1>3 DEF Next

LEMMA Invariance == Spec => []IInv
<1> QED
  BY InitIInv, NextIInv, PTL DEF Spec

\* The types of the table, the worker and the requests in flight.
THEOREM TypeCorrect == Spec => []TypeOK
<1>1. IInv => TypeOK
  BY DEF IInv
<1> QED
  BY <1>1, Invariance, PTL

\* Redelivery of an event with its own timestamp leaves one row.
THEOREM NoDuplicate == Spec => []OneRowPerStampedEvent
<1>1. IInv => OneRowPerStampedEvent
  BY DEF IInv, TInv
<1> QED
  BY <1>1, Invariance, PTL

\* A 200 is sent for a stored alert only.
THEOREM NothingAckedIsLost == Spec => []AckedIsStored
<1>1. IInv => AckedIsStored
  BY DEF IInv, TInv
<1> QED
  BY <1>1, Invariance, PTL

\* No order of the operators' SELECTs and UPDATEs and of the worker's marks,
\* the late ones included, closes an alert nobody has acknowledged.
THEOREM AckComesFirst == Spec => []VerdictNeedsAck
<1>1. IInv => VerdictNeedsAck
  BY DEF IInv, TInv, AckedFirst, VerdictNeedsAck
<1> QED
  BY <1>1, Invariance, PTL

\* A processed alert comes back through a write that was under way only.
THEOREM ProcessedStaysProcessed == Spec => OnlyLateWriteReopens
<1>1. IInv /\ [Next]_vars =>
        [\A i \in Rows : Reopened(i) => LateWrite(i)]_alerts
  BY NextIInv
<1> QED
  BY <1>1, Invariance, PTL DEF Spec, OnlyLateWriteReopens, Reopened, LateWrite


-----------------------------------------------------------------------------
(* The cycle of the worker: a batch is no longer than the LIMIT of the     *)
(* query says, one row of it is always the next, and each mark leaves one  *)
(* row less.  This is why a cycle comes to its end, and with it the part   *)
(* of RunningWorkerDrains that needs no fairness.                          *)

\* The place of a row in the answer of the query over the rows of S.
Place(i, S) == Cardinality({j \in S : Newer(j, i)})

\* No two rows of the batch are tied, so one is ahead of all others.
SomeRowIsNext == batch # {} => \E i \in Rows : IsNext(i, batch)
CycleRunsOut ==
  [][/\ wpc = "poll" /\ wpc' = "mark" => Cardinality(batch') <= BatchSize
     /\ wpc = "mark" => batch' = batch \/ Cardinality(batch') < Cardinality(batch)]_vars

\* ORDER BY created_at DESC, with the ids for the ties, is a total order.
LEMMA NewerIsOrder ==
  ASSUME TableTypes, NEW i \in Rows, NEW j \in Rows, NEW k \in Rows
  PROVE  /\ ~Newer(i, i)
         /\ i # j => Newer(i, j) \/ Newer(j, i)
         /\ Newer(i, j) /\ Newer(j, k) => Newer(i, k)
BY TableAssumption DEF TableTypes, Newer, Rows

LEMMA SetsOfRows ==
  ASSUME NEW S \in SUBSET Rows
  PROVE  IsFiniteSet(S) /\ Cardinality(S) \in Nat
<1>1. IsFiniteSet(Rows)
  BY FS_Interval, TableAssumption DEF Rows
<1> QED
  BY <1>1, FS_Subset, FS_CardinalityType

LEMMA NewerComesFirst ==
  ASSUME TableTypes, NEW S \in SUBSET Rows, NEW i \in S, NEW j \in S, Newer(j, i)
  PROVE  Place(j, S) < Place(i, S)
<1> DEFINE before(r) == {k \in S : Newer(k, r)}
<1>1. before(j) \subseteq before(i)
  BY NewerIsOrder
<1>2. j \in before(i) /\ j \notin before(j)
  BY NewerIsOrder
<1>3. IsFiniteSet(before(i)) /\ Cardinality(before(i)) \in Nat
      /\ Cardinality(before(j)) \in Nat
  BY SetsOfRows
<1>4. Cardinality(before(j)) <= Cardinality(before(i))
      /\ Cardinality(before(j)) # Cardinality(before(i))
  BY <1>1, <1>2, <1>3, FS_Subset
<1> HIDE DEF before
<1>5. Cardinality(before(j)) < Cardinality(before(i))
  BY <1>3, <1>4
<1> QED
  BY <1>5 DEF Place, before

\* The query: as many rows as the LIMIT, however many it has to choose from.
LEMMA LimitIsKept ==
  ASSUME TableTypes, NEW S \in SUBSET Rows, NEW n \in Nat \ {0}
  PROVE  Cardinality({i \in S : Place(i, S) < n}) <= n
<1> DEFINE T == {i \in S : Place(i, S) < n}
           f == [i \in T |-> Place(i, S)]
<1>1. \A i \in S : Place(i, S) \in Nat
  BY SetsOfRows DEF Place
<1>2. f \in [T -> 0..(n - 1)]
  BY <1>1
<1>3. \A i, j \in T : f[i] = f[j] => i = j
  <2> SUFFICES ASSUME NEW i \in T, NEW j \in T, i # j PROVE Place(i, S) # Place(j, S)
    OBVIOUS
  <2>1. Newer(i, j) \/ Newer(j, i)
    BY NewerIsOrder
  <2>2. Place(i, S) < Place(j, S) \/ Place(j, S) < Place(i, S)
    BY <2>1, NewerComesFirst
  <2> QED
    BY <1>1, <2>2
<1>4. f \in Injection(T, 0..(n - 1))
  BY <1>2, <1>3 DEF Injection, IsInjective
<1>5. IsFiniteSet(0..(n - 1)) /\ Cardinality(0..(n - 1)) = n
  BY FS_Interval
<1>6. Cardinality(T) <= Cardinality(0..(n - 1))
  BY <1>4, <1>5, FS_Injection
<1> QED
  BY <1>5, <1>6

LEMMA NewestExists ==
  ASSUME TableTypes, NEW S \in SUBSET Rows, S # {}
  PROVE  \E i \in S : \A j \in S \ {i} : Newer(i, j)
<1> DEFINE places == {Place(i, S) : i \in S}
<1>1. \A i \in S : Place(i, S) \in Nat
  BY SetsOfRows DEF Place
<1>2. places \in SUBSET Nat /\ places # {}
  BY <1>1
<1>3. PICK first \in places : \A n \in places : ~(<<n, first>> \in OpToRel(<, Nat))
  BY <1>2, NatLessThanWellFounded, WFMin, Zenon
<1>4. PICK i \in S : first = Place(i, S)
  BY <1>3
<1>5. \A j \in S : ~(Place(j, S) < Place(i, S))
  BY <1>1, <1>3, <1>4 DEF OpToRel
<1>6. \A j \in S \ {i} : Newer(i, j)
  BY <1>5, NewerComesFirst, NewerIsOrder
<1> QED
  BY <1>6

\* Whatever comes in or is written meanwhile, a cycle marks BatchSize rows at
\* most and is never without a next one.
THEOREM CyclesAreBounded == Spec => []SomeRowIsNext /\ CycleRunsOut
<1>0. IInv => TableTypes /\ batch \subseteq Rows /\ Backlog \subseteq Rows
  BY DEF IInv, TInv, TypeOK, TableTypeOK, TableTypes, Present, Backlog
<1>1. IInv => SomeRowIsNext
  BY <1>0, NewestExists DEF SomeRowIsNext, IsNext
<1> DEFINE Limited == wpc = "poll" /\ wpc' = "mark" => Cardinality(batch') <= BatchSize
           Less == wpc = "mark" =>
                     batch' = batch \/ Cardinality(batch') < Cardinality(batch)
<1>2. IInv /\ [Next]_vars => [Limited /\ Less]_vars
  <2> SUFFICES ASSUME IInv, Next PROVE Limited /\ Less
    OBVIOUS
  <2>1. CASE UNCHANGED worker
    BY <2>1 DEF worker
  <2>2. CASE Start \/ EndCycle
    BY <2>2 DEF Start, EndCycle
  <2>3. CASE SelectUnanalyzed
    BY <1>0, <2>3, LimitIsKept, TableAssumption
    DEF SelectUnanalyzed, Unanalyzed, Place
  <2>4. CASE MarkAnalyzed
    <3>1. PICK i \in batch : batch' = batch \ {i}
      BY <2>4 DEF MarkAnalyzed, IsNext
    <3>2. IsFiniteSet(batch) /\ Cardinality(batch) \in Nat
      BY <1>0, SetsOfRows
    <3>3. Cardinality(batch') = Cardinality(batch) - 1
      BY <3>1, <3>2, FS_RemoveElement
    <3> QED
      BY <2>4, <3>2, <3>3 DEF MarkAnalyzed
  <2>5. CASE Stop
    <3>1. batch' = {} /\ wpc' = "stopped"
      BY <2>5 DEF Stop
    <3>2. IsFiniteSet(batch) /\ Cardinality(batch) \in Nat
          /\ (batch # {} => Cardinality(batch) # 0) /\ Cardinality({}) = 0
      BY <1>0, SetsOfRows, FS_EmptySet
    <3> QED
      BY <3>1, <3>2
  <2> QED
    BY <2>1, <2>2, <2>3, <2>4, <2>5 DEF Next, Work
<1> QED
  BY <1>1, <1>2, Invariance, PTL DEF Spec, CycleRunsOut

-----------------------------------------------------------------------------
(* The life of the worker: the mutex and w.cancel leave one loop at most,  *)
(* and so the loops are the one worker of AlertPipeline.                   *)

\* The inductive invariant.  The loop that runs is the one w.cancel ends, so
\* that Start launches none next to another; who waits holds the mutex; and
\* no loop but one in the marks has rows to come to.
CancelCovers   == \A l \in Running : cancel = l
HolderWaits    == \A c \in Callers : call[c] = "wait" <=> lifecycle = c
StoppedIsOff   == stopped => cancel = NoLoop
TodoOfMarks    == \A l \in Loops : loop[l] # "mark" => todo[l] = {}
LiveRuns       == \A l \in Loops : runCtx[l] = "live" => l \in Running
LInv == /\ TInv /\ LifecycleTypeOK
        /\ CancelCovers /\ HolderWaits /\ StoppedIsOff /\ TodoOfMarks /\ LiveRuns

LEMMA InitLInv == LifecycleInit => LInv
<1> SUFFICES ASSUME LifecycleInit PROVE LInv
  OBVIOUS
<1>1. TInv
  BY InitTInv DEF LifecycleInit
<1>2. /\ lifecycle = Free /\ cancel = NoLoop /\ stopped = FALSE
      /\ call = [c \in Callers |-> "idle"] /\ loop = [l \in Loops |-> "none"]
      /\ todo = [l \in Loops |-> {}] /\ runCtx = [l \in Loops |-> "done"]
  BY DEF LifecycleInit
<1>3. Running = {}
  BY <1>2 DEF Running
<1>4. LifecycleTypeOK
  <2>1. /\ call \in [Callers -> {"idle", "start", "stop", "wait"}]
        /\ loop \in [Loops -> {"none", "poll", "mark"}]
        /\ todo \in [Loops -> SUBSET Present]
        /\ runCtx \in [Loops -> {"live", "done"}]
    BY <1>2
  <2> QED
    BY <1>1, <1>2, <2>1 DEF LifecycleTypeOK, TInv
<1>5. HolderWaits /\ StoppedIsOff /\ TodoOfMarks /\ LiveRuns
  BY <1>2, CallerAssumption DEF HolderWaits, StoppedIsOff, TodoOfMarks, LiveRuns
<1> QED
  BY <1>1, <1>3, <1>4, <1>5 DEF LInv, CancelCovers

\* What a step that leaves the table alone has to show.
LEMMA ControlStep ==
  ASSUME LInv, UNCHANGED alerts,
         lifecycle' \in Callers \cup {Free} /\ cancel' \in Loops \cup {NoLoop},
         call' \in [Callers -> {"idle", "start", "stop", "wait"}],
         loop' \in [Loops -> {"none", "poll", "mark"}],
         todo' \in [Loops -> SUBSET Present],
         runCtx' \in [Loops -> {"live", "done"}], stopped' \in BOOLEAN
  PROVE  TInv' /\ LifecycleTypeOK'
<1>1. TInv' /\ Present' = Present
  BY TableStutters DEF LInv
<1> QED
  BY <1>1 DEF LifecycleTypeOK, TInv

LEMMA CallLInv ==
  ASSUME LInv, NEW c \in Callers, NEW op \in {"start", "stop"}, Call(c, op)
  PROVE  LInv'
<1>1. /\ UNCHANGED <<alerts, loop, todo, runCtx, lifecycle, cancel, stopped>>
      /\ call[c] = "idle" /\ call' = [call EXCEPT ![c] = op]
  BY DEF Call, loops
<1>2. TInv' /\ LifecycleTypeOK'
  BY <1>1, ControlStep DEF LInv, LifecycleTypeOK
<1>3. HolderWaits'
  BY <1>1 DEF LInv, LifecycleTypeOK, HolderWaits
<1> QED
  BY <1>1, <1>2, <1>3
  DEF LInv, CancelCovers, StoppedIsOff, TodoOfMarks, LiveRuns, Running

\* Start finds w.cancel set, or no loop at all.
LEMMA StartWorkerLInv ==
  ASSUME LInv, NEW c \in Callers, StartWorker(c)
  PROVE  LInv'
<1>1. /\ UNCHANGED <<alerts, lifecycle>> /\ lifecycle = Free
      /\ call[c] = "start" /\ call' = [call EXCEPT ![c] = "idle"]
  BY DEF StartWorker
<1>2. HolderWaits'
  BY <1>1, CallerAssumption DEF LInv, LifecycleTypeOK, HolderWaits
<1>3. CASE cancel # NoLoop
  <2>1. UNCHANGED <<cancel, stopped, loop, todo, runCtx>>
    BY <1>3 DEF StartWorker, loops
  <2>2. TInv' /\ LifecycleTypeOK'
    BY <1>1, <2>1, ControlStep DEF LInv, LifecycleTypeOK
  <2> QED
    BY <1>2, <2>1, <2>2
    DEF LInv, CancelCovers, StoppedIsOff, TodoOfMarks, LiveRuns, Running
<1>4. CASE cancel = NoLoop
  <2>1. Running = {}
    BY <1>4, LoopAssumption DEF LInv, CancelCovers, Running
  <2>2. PICK l \in Loops \ Running, state \in {"live", "done"} :
          /\ cancel' = l /\ stopped' = FALSE
          /\ loop' = [loop EXCEPT ![l] = "poll"]
          /\ runCtx' = [runCtx EXCEPT ![l] = state]
          /\ UNCHANGED todo
    BY <1>4 DEF StartWorker, Launch
  <2>3. TInv' /\ LifecycleTypeOK'
    BY <1>1, <2>2, ControlStep DEF LInv, LifecycleTypeOK
  <2>4. Running' = {l}
    BY <2>1, <2>2 DEF LInv, LifecycleTypeOK, Running
  <2>5. TodoOfMarks'
    BY <2>1, <2>2 DEF LInv, LifecycleTypeOK, TodoOfMarks, Running
  <2>6. LiveRuns'
    BY <2>1, <2>2, <2>4 DEF LInv, LifecycleTypeOK, LiveRuns
  <2> QED
    BY <1>2, <2>2, <2>3, <2>4, <2>5, <2>6 DEF LInv, CancelCovers, StoppedIsOff
<1> QED
  BY <1>3, <1>4

LEMMA StopWorkerLInv ==
  ASSUME LInv, NEW c \in Callers, StopWorker(c)
  PROVE  LInv'
<1>1. /\ UNCHANGED <<alerts, cancel, loop, todo>> /\ lifecycle = Free
      /\ call[c] = "stop"
  BY DEF StopWorker
<1>2. CASE cancel # NoLoop
  <2>1. /\ runCtx' = [runCtx EXCEPT ![cancel] = "done"]
        /\ lifecycle' = c /\ call' = [call EXCEPT ![c] = "wait"]
        /\ UNCHANGED stopped
    BY <1>2 DEF StopWorker
  <2>2. TInv' /\ LifecycleTypeOK'
    BY <1>1, <2>1, ControlStep DEF LInv, LifecycleTypeOK
  <2>3. HolderWaits'
    BY <1>1, <2>1, CallerAssumption DEF LInv, LifecycleTypeOK, HolderWaits
  <2>4. LiveRuns'
    BY <1>1, <2>1 DEF LInv, LifecycleTypeOK, LiveRuns, Running
  <2> QED
    BY <1>1, <2>1, <2>2, <2>3, <2>4
    DEF LInv, CancelCovers, StoppedIsOff, TodoOfMarks, Running
<1>3. CASE cancel = NoLoop
  <2>1. /\ call' = [call EXCEPT ![c] = "idle"] /\ stopped' = TRUE
        /\ UNCHANGED <<runCtx, lifecycle>>
    BY <1>3 DEF StopWorker
  <2>2. TInv' /\ LifecycleTypeOK'
    BY <1>1, <2>1, ControlStep DEF LInv, LifecycleTypeOK
  <2>3. HolderWaits'
    BY <1>1, <2>1 DEF LInv, LifecycleTypeOK, HolderWaits
  <2> QED
    BY <1>1, <1>3, <2>1, <2>2, <2>3
    DEF LInv, CancelCovers, StoppedIsOff, TodoOfMarks, LiveRuns, Running
<1> QED
  BY <1>2, <1>3

LEMMA WaitReturnsLInv ==
  ASSUME LInv, NEW c \in Callers, WaitReturns(c)
  PROVE  LInv'
<1>1. /\ UNCHANGED <<alerts, loop, todo, runCtx>> /\ Running = {}
      /\ cancel' = NoLoop /\ lifecycle' = Free /\ stopped' = TRUE
      /\ call[c] = "wait" /\ call' = [call EXCEPT ![c] = "idle"]
  BY DEF WaitReturns, loops
<1>2. TInv' /\ LifecycleTypeOK'
  BY <1>1, ControlStep DEF LInv, LifecycleTypeOK
<1>3. HolderWaits'
  <2>1. \A d \in Callers \ {c} : call[d] # "wait"
    BY <1>1 DEF LInv, HolderWaits
  <2> QED
    BY <1>1, <2>1, CallerAssumption DEF LInv, LifecycleTypeOK, HolderWaits
<1>4. Running' = {}
  BY <1>1 DEF Running
<1> QED
  BY <1>1, <1>2, <1>3, <1>4
  DEF LInv, CancelCovers, StoppedIsOff, TodoOfMarks, LiveRuns

LEMMA ContextEndsLInv ==
  ASSUME LInv, NEW l \in Loops, ContextEnds(l)
  PROVE  LInv'
<1>1. /\ UNCHANGED <<alerts, loop, todo, lifecycle, cancel, call, stopped>>
      /\ runCtx' = [runCtx EXCEPT ![l] = "done"]
  BY DEF ContextEnds, control
<1>2. TInv' /\ LifecycleTypeOK'
  BY <1>1, ControlStep DEF LInv, LifecycleTypeOK
<1>3. LiveRuns'
  BY <1>1 DEF LInv, LifecycleTypeOK, LiveRuns, Running
<1> QED
  BY <1>1, <1>2, <1>3
  DEF LInv, CancelCovers, HolderWaits, StoppedIsOff, TodoOfMarks, Running

\* The loops: a step of one leaves the others as they are.
LEMMA LoopLInv ==
  ASSUME LInv, NEW l \in Loops, Cycle(l) \/ LoopReturns(l)
  PROVE  /\ LInv' /\ l \in Running /\ UNCHANGED <<control, runCtx>>
         /\ UNCHANGED alerts \/ Marked
<1>0. /\ TInv /\ LifecycleTypeOK /\ todo[l] \in SUBSET Present
      /\ loop \in [Loops -> {"none", "poll", "mark"}]
      /\ todo \in [Loops -> SUBSET Present]
  BY DEF LInv, LifecycleTypeOK
<1>1. l \in Running /\ UNCHANGED <<control, runCtx>>
  BY DEF Cycle, LoopReturns, Poll, Mark, Heartbeat, Running
<1>2. /\ UNCHANGED alerts \/ Marked
      /\ \E pc \in {"none", "poll", "mark"}, rows \in SUBSET Present :
           /\ loop' = [loop EXCEPT ![l] = pc] /\ todo' = [todo EXCEPT ![l] = rows]
           /\ pc # "mark" => rows = {}
           /\ runCtx[l] = "live" => pc # "none"
  <2>1. CASE Cycle(l) /\ Poll(l)
    <3>1. Unanalyzed \in SUBSET Present
      BY DEF Unanalyzed, Backlog, Present
    <3> QED
      BY <2>1, <3>1 DEF Poll
  <2>2. CASE Cycle(l) /\ Mark(l)
    <3>1. PICK i \in Rows : /\ IsNext(i, todo[l]) /\ MarkRow(i)
                            /\ todo' = [todo EXCEPT ![l] = @ \ {i}]
      BY <2>2 DEF Mark
    <3>2. loop' = [loop EXCEPT ![l] = "mark"]
      BY <1>0, <2>2 DEF Mark
    <3>3. i \in todo[l] /\ todo' = [todo EXCEPT ![l] = todo[l] \ {i}]
      BY <3>1 DEF IsNext
    <3>4. Marked
      BY <1>0, <3>1, <3>3, StatementsMark
    <3>5. todo[l] \ {i} \in SUBSET Present
      BY <1>0
    <3> QED
      BY <3>2, <3>3, <3>4, <3>5
  <2>3. CASE Cycle(l) /\ Heartbeat(l)
    <3>1. todo' = [todo EXCEPT ![l] = {}]
      BY <1>0, <2>3 DEF Heartbeat
    <3> QED
      BY <2>3, <3>1 DEF Heartbeat
  <2>4. CASE LoopReturns(l)
    <3>1. Marked
      BY <1>0, <2>4, StatementsMark DEF LoopReturns
    <3>2. /\ loop' = [loop EXCEPT ![l] = "none"] /\ todo' = [todo EXCEPT ![l] = {}]
          /\ runCtx[l] # "live"
      BY <2>4 DEF LoopReturns
    <3>3. {} \in SUBSET Present
      OBVIOUS
    <3> QED
      BY <3>1, <3>2, <3>3
  <2> QED
    BY <2>1, <2>2, <2>3, <2>4 DEF Cycle
<1>3. PICK pc \in {"none", "poll", "mark"}, rows \in SUBSET Present :
        /\ loop' = [loop EXCEPT ![l] = pc] /\ todo' = [todo EXCEPT ![l] = rows]
        /\ pc # "mark" => rows = {}
        /\ runCtx[l] = "live" => pc # "none"
  BY <1>2
<1>4. TInv' /\ Present' = Present
  BY <1>0, <1>2, MarkedTInv, TableStutters
<1>5. LifecycleTypeOK'
  BY <1>0, <1>1, <1>3, <1>4 DEF LifecycleTypeOK, TInv, control
<1>6. Running' \subseteq Running
  BY <1>0, <1>1, <1>3 DEF Running
<1>7. TodoOfMarks'
  BY <1>0, <1>3 DEF LInv, TodoOfMarks
<1>8. LiveRuns'
  BY <1>0, <1>1, <1>3 DEF LInv, LiveRuns, Running
<1> QED
  BY <1>1, <1>2, <1>4, <1>5, <1>6, <1>7, <1>8
  DEF LInv, CancelCovers, HolderWaits, StoppedIsOff, control

\* The webhook and the operators have no part in it.
LEMMA OthersLInv ==
  ASSUME LInv, Others, UNCHANGED <<control, loops>>
  PROVE  LInv'
<1>1. TInv' /\ Present \subseteq Present'
  BY OthersTInv DEF LInv
<1>2. LifecycleTypeOK'
  BY <1>1 DEF LInv, LifecycleTypeOK, TInv, control, loops
<1> QED
  BY <1>1, <1>2
  DEF LInv, CancelCovers, HolderWaits, StoppedIsOff, TodoOfMarks, LiveRuns,
      Running, control, loops

LEMMA NextLInv == LInv /\ [LifecycleNext]_all => LInv'
<1> SUFFICES ASSUME LInv, [LifecycleNext]_all PROVE LInv'
  OBVIOUS
<1>1. CASE \E c \in Callers : Call(c, "start") \/ Call(c, "stop")
  BY <1>1, CallLInv
<1>2. CASE \E c \in Callers : Locked(c)
  BY <1>2, StartWorkerLInv, StopWorkerLInv DEF Locked
<1>3. CASE \E c \in Callers : WaitReturns(c)
  BY <1>3, WaitReturnsLInv
<1>4. CASE \E l \in Loops : ContextEnds(l) \/ Cycle(l) \/ LoopReturns(l)
  BY <1>4, ContextEndsLInv, LoopLInv
<1>5. CASE Others /\ UNCHANGED <<control, loops>>
  BY <1>5, OthersLInv
<1>6. CASE UNCHANGED all
  <2>1. UNCHANGED <<alerts, control, loops>>
    BY <1>6 DEF all
  <2>2. TInv' /\ LifecycleTypeOK'
    BY <2>1, ControlStep DEF LInv, LifecycleTypeOK, control, loops
  <2> QED
    BY <2>1, <2>2
    DEF LInv, CancelCovers, HolderWaits, StoppedIsOff, TodoOfMarks, LiveRuns,
        Running, control, loops
<1> QED
  BY <1>1, <1>2, <1>3, <1>4, <1>5, <1>6 DEF LifecycleNext

LEMMA LifecycleInvariance == LifecycleSpec => []LInv
BY InitLInv, NextLInv, PTL DEF LifecycleSpec

\* The types of the mutex, of w.cancel and of the loops and their contexts.
THEOREM LifecycleTypes == LifecycleSpec => []LifecycleTypeOK
<1>1. LInv => LifecycleTypeOK
  BY DEF LInv
<1> QED
  BY <1>1, LifecycleInvariance, PTL

\* Any number of goroutines that start and stop the worker leave one loop.
THEOREM SingleLoop == LifecycleSpec => []OneLoop
<1>1. LInv => OneLoop
  BY DEF LInv, CancelCovers, OneLoop
<1> QED
  BY <1>1, LifecycleInvariance, PTL

\* When a Stop has returned and nobody has launched a loop since, none runs.
THEOREM StopWaits == LifecycleSpec => []StopJoins
<1>1. LInv => StopJoins
  BY LoopAssumption DEF LInv, CancelCovers, StoppedIsOff, StopJoins, Running
<1> QED
  BY <1>1, LifecycleInvariance, PTL

\* From the moment Stop waits with the mutex in its hand until it returns,
\* the loop it waits for does nothing but return: it has been told to, nobody
\* can start another, and no further row is taken up.
LoopIsTold  == lifecycle # Free => \A l \in Loops : runCtx[l] = "done"
ReturnsOnly(l) == loop'[l] = "none" /\ todo'[l] = {}
OnlyReturns ==
  [][lifecycle # Free =>
       /\ \A l \in Loops : UNCHANGED <<loop[l], todo[l]>> \/ ReturnsOnly(l)
       /\ lifecycle' = lifecycle \/ (lifecycle' = Free /\ Running = {})]_all

\* One return of the loop and one of the wait are all that Stop still needs:
\* what CallsEnd says, without the fairness.
THEOREM StopHasItsWay == LifecycleSpec => []LoopIsTold /\ OnlyReturns
<1> DEFINE Returns ==
      lifecycle # Free =>
        /\ \A l \in Loops : UNCHANGED <<loop[l], todo[l]>> \/ ReturnsOnly(l)
        /\ lifecycle' = lifecycle \/ (lifecycle' = Free /\ Running = {})
<1>1. LifecycleInit => LoopIsTold
  BY DEF LifecycleInit, LoopIsTold
<1>2. ASSUME LoopIsTold, LInv, [LifecycleNext]_all
      PROVE  LoopIsTold' /\ [Returns]_all
  <2>0. loop \in [Loops -> {"none", "poll", "mark"}]
        /\ todo \in [Loops -> SUBSET Present] /\ runCtx \in [Loops -> {"live", "done"}]
    BY <1>2 DEF LInv, LifecycleTypeOK
  <2>1. CASE UNCHANGED <<loop, todo, runCtx, lifecycle>>
    BY <1>2, <2>1 DEF LoopIsTold
  <2>2. CASE \E c \in Callers : StartWorker(c)
    BY <2>2 DEF StartWorker, LoopIsTold
  <2>3. CASE \E c \in Callers : StopWorker(c)
    <3>1. PICK c \in Callers : StopWorker(c)
      BY <2>3
    <3>2. lifecycle = Free
      BY <3>1 DEF StopWorker
    <3>3. CASE cancel = NoLoop
      BY <1>2, <3>1, <3>2, <3>3 DEF StopWorker, LoopIsTold
    <3>4. CASE cancel # NoLoop
      <4>1. runCtx' = [runCtx EXCEPT ![cancel] = "done"]
        BY <3>1, <3>4 DEF StopWorker
      <4>2. \A l \in Loops : runCtx[l] = "live" => l = cancel
        BY <1>2 DEF LInv, LiveRuns, CancelCovers
      <4>3. \A l \in Loops : runCtx'[l] = "done"
        BY <2>0, <4>1, <4>2
      <4> QED
        BY <3>2, <4>3 DEF LoopIsTold
    <3> QED
      BY <3>3, <3>4
  <2>4. CASE \E c \in Callers : WaitReturns(c)
    BY <1>2, <2>4 DEF WaitReturns, LoopIsTold, loops
  <2>5. CASE \E l \in Loops : ContextEnds(l)
    BY <1>2, <2>0, <2>5 DEF ContextEnds, LoopIsTold, control
  <2>6. CASE \E l \in Loops : Cycle(l)
    BY <1>2, <2>6 DEF Cycle, LoopIsTold, control
  <2>7. CASE \E l \in Loops : LoopReturns(l)
    BY <1>2, <2>0, <2>7 DEF LoopReturns, LoopIsTold, ReturnsOnly, control
  <2>8. CASE (\E c \in Callers : Call(c, "start") \/ Call(c, "stop"))
             \/ (Others /\ UNCHANGED <<control, loops>>) \/ UNCHANGED all
    BY <2>1, <2>8 DEF Call, all, control, loops
  <2> QED
    BY <1>2, <2>2, <2>3, <2>4, <2>5, <2>6, <2>7, <2>8 DEF LifecycleNext, Locked
<1>3. LoopIsTold /\ LInv /\ [LifecycleNext]_all => LoopIsTold' /\ [Returns]_all
  BY <1>2
<1> QED
  BY <1>1, <1>3, LifecycleInvariance, PTL DEF LifecycleSpec, OnlyReturns

-----------------------------------------------------------------------------
(* The refinement.  The loop that runs, if any does, is the worker that    *)
(* AlertPipeline sees; that there is never a second one, and that a loop   *)
(* has nothing left to do when it has returned, is the invariant's part.   *)

LEMMA RunningLoopIsWorker ==
  LInv => /\ \A l \in Running : WorkerPc = loop[l] /\ WorkerBatch = todo[l]
          /\ Running = {} => WorkerPc = "stopped" /\ WorkerBatch = {}
<1> SUFFICES ASSUME LInv
             PROVE  /\ \A l \in Running : WorkerPc = loop[l] /\ WorkerBatch = todo[l]
                    /\ Running = {} => WorkerPc = "stopped" /\ WorkerBatch = {}
  OBVIOUS
<1>0. /\ loop \in [Loops -> {"none", "poll", "mark"}]
      /\ \A l \in Loops \ Running : loop[l] = "none" /\ todo[l] = {}
  BY DEF LInv, LifecycleTypeOK, TodoOfMarks, Running
<1>1. ASSUME NEW l \in Running PROVE WorkerPc = loop[l] /\ WorkerBatch = todo[l]
  <2>1. \A k \in Loops \ {l} : loop[k] = "none" /\ todo[k] = {}
    BY <1>0 DEF LInv, CancelCovers
  <2>2. WorkerPc = loop[l]
    BY <1>0, <2>1 DEF WorkerPc, Running
  <2>3. WorkerBatch = todo[l]
    BY <2>1 DEF WorkerBatch, Running
  <2> QED
    BY <2>2, <2>3
<1>2. ASSUME Running = {} PROVE WorkerPc = "stopped" /\ WorkerBatch = {}
  BY <1>0, <1>2 DEF WorkerPc, WorkerBatch
<1> QED
  BY <1>1, <1>2

\* The table under the instance is the table itself.
LEMMA SameCardinality == \A S : Cardinality(S) = Pipeline!Cardinality(S)
BY DEF Cardinality, Pipeline!Cardinality

LEMMA SameTable ==
  /\ TableInit => Pipeline!TableInit
  /\ Unanalyzed = Pipeline!Unanalyzed
  /\ \A i : MarkRow(i) => Pipeline!MarkRow(i)
  /\ \A i, rows : IsNext(i, rows) => Pipeline!IsNext(i, rows)
  /\ \A rows : LeaveRows(rows) => Pipeline!LeaveRows(rows)
  /\ UNCHANGED alerts => UNCHANGED Pipeline!alerts
<1>1. TableInit => Pipeline!TableInit
  BY DEF TableInit, Pipeline!TableInit, Rows, Pipeline!Rows
<1>2. Backlog = Pipeline!Backlog
  BY DEF Backlog, Pipeline!Backlog, Rows, Pipeline!Rows
<1>3. Unanalyzed = Pipeline!Unanalyzed
  <2>1. \A i : {j \in Backlog : Newer(j, i)}
               = {j \in Pipeline!Backlog : Pipeline!Newer(j, i)}
    BY <1>2 DEF Newer, Pipeline!Newer
  <2> QED
    BY <1>2, <2>1, SameCardinality DEF Unanalyzed, Pipeline!Unanalyzed
<1>4. \A i : MarkRow(i) => Pipeline!MarkRow(i)
  BY DEF MarkRow, Pipeline!MarkRow
<1>5. \A i, rows : IsNext(i, rows) <=> Pipeline!IsNext(i, rows)
  BY DEF IsNext, Pipeline!IsNext, Newer, Pipeline!Newer
<1>6. \A rows : LeaveRows(rows) => Pipeline!LeaveRows(rows)
  BY <1>5 DEF LeaveRows, Pipeline!LeaveRows, table, Pipeline!table
<1>7. UNCHANGED alerts => UNCHANGED Pipeline!alerts
  BY DEF alerts, Pipeline!alerts, table, Pipeline!table, pending, Pipeline!pending
<1> QED
  BY <1>1, <1>3, <1>4, <1>5, <1>6, <1>7

LEMMA SameOthers == Others => Pipeline!Others
<1>1. \A e : CreatedAt(e) = Pipeline!CreatedAt(e)
  <2>1. Present = Pipeline!Present
    BY DEF Present, Pipeline!Present, Rows, Pipeline!Rows
  <2> QED
    BY <2>1, SameCardinality DEF CreatedAt, Pipeline!CreatedAt, Now, Pipeline!Now
<1>2. \A e, t : InsertAlert(e, t) => Pipeline!InsertAlert(e, t)
  BY DEF InsertAlert, Pipeline!InsertAlert, AddRow, Pipeline!AddRow, NextRow,
         Pipeline!NextRow, Rows, Pipeline!Rows, table, Pipeline!table
<1>3. \A e : ServeWebhook(e) => Pipeline!ServeWebhook(e)
  BY <1>1, <1>2 DEF ServeWebhook, Pipeline!ServeWebhook, table, Pipeline!table,
         pending, Pipeline!pending
<1>4. \A u, i, to : ReadStatus(u, i, to) => Pipeline!ReadStatus(u, i, to)
  BY DEF ReadStatus, Pipeline!ReadStatus, canTransition, Pipeline!canTransition,
         validTransitions, Pipeline!validTransitions, table, Pipeline!table
<1>5. \A u : WriteStatus(u) => Pipeline!WriteStatus(u)
  BY DEF WriteStatus, Pipeline!WriteStatus
<1>6. LateMark => Pipeline!LateMark
  BY DEF LateMark, Pipeline!LateMark
<1> QED
  BY <1>3, <1>4, <1>5, <1>6 DEF Others, Pipeline!Others, Rows, Pipeline!Rows

LEMMA StepRefines ==
  LInv /\ LInv' /\ [LifecycleNext]_all => [Pipeline!Next]_(Pipeline!vars)
<1> SUFFICES ASSUME LInv, LInv', [LifecycleNext]_all
             PROVE  [Pipeline!Next]_(Pipeline!vars)
  OBVIOUS
<1>a. /\ \A l \in Running' : WorkerPc' = loop'[l] /\ WorkerBatch' = todo'[l]
      /\ Running' = {} => WorkerPc' = "stopped" /\ WorkerBatch' = {}
  <2>1. (LInv => /\ \A l \in Running : WorkerPc = loop[l] /\ WorkerBatch = todo[l]
                 /\ Running = {} => WorkerPc = "stopped" /\ WorkerBatch = {})'
    BY RunningLoopIsWorker, PTL
  <2> QED
    BY <2>1
<1>0. ASSUME UNCHANGED <<alerts, loop, todo>> PROVE UNCHANGED Pipeline!vars
  BY <1>0, SameTable
  DEF Pipeline!vars, Pipeline!worker, WorkerPc, WorkerBatch, Running
<1>1. CASE \E c \in Callers : StartWorker(c) /\ cancel = NoLoop
  <2>1. Running = {} /\ UNCHANGED alerts
    BY <1>1, LoopAssumption DEF StartWorker, LInv, CancelCovers, Running
  <2>2. PICK l \in Loops : /\ loop' = [loop EXCEPT ![l] = "poll"]
                           /\ UNCHANGED todo
    BY <1>1 DEF StartWorker, Launch
  <2>3. l \in Running' /\ loop'[l] = "poll"
    BY <2>2 DEF LInv, LifecycleTypeOK, Running
  <2>4. WorkerPc = "stopped" /\ WorkerBatch = {}
    BY <2>1, RunningLoopIsWorker
  <2>5. WorkerPc' = "poll" /\ WorkerBatch' = todo'[l]
    BY <1>a, <2>3
  <2>6. todo'[l] = {}
    BY <2>3 DEF LInv, TodoOfMarks, Running
  <2> QED
    BY <2>1, <2>4, <2>5, <2>6, SameTable
    DEF Pipeline!Next, Pipeline!Work, Pipeline!Start
<1>2. CASE \E c \in Callers : \/ Call(c, "start") \/ Call(c, "stop")
                              \/ StopWorker(c) \/ WaitReturns(c)
                              \/ (StartWorker(c) /\ cancel # NoLoop)
  BY <1>0, <1>2 DEF Call, StopWorker, WaitReturns, StartWorker, loops
<1>3. CASE \E l \in Loops : ContextEnds(l)
  BY <1>0, <1>3 DEF ContextEnds
<1>4. ASSUME NEW l \in Loops, Cycle(l) PROVE Pipeline!Next
  <2>1. /\ l \in Running /\ l \in Running'
        /\ loop'[l] \in {"poll", "mark"} /\ loop[l] \in {"poll", "mark"}
    BY <1>4 DEF Cycle, Poll, Mark, Heartbeat, LInv, LifecycleTypeOK, Running
  <2>2. WorkerPc = loop[l] /\ WorkerBatch = todo[l]
    BY <2>1, RunningLoopIsWorker
  <2>3. WorkerPc' = loop'[l] /\ WorkerBatch' = todo'[l]
    BY <1>a, <2>1
  <2>4. loop \in [Loops -> {"none", "poll", "mark"}]
        /\ todo \in [Loops -> SUBSET Present]
    BY DEF LInv, LifecycleTypeOK
  <2>5. CASE Poll(l)
    <3>1. /\ loop[l] = "poll" /\ loop'[l] = "mark" /\ todo'[l] = Unanalyzed
          /\ UNCHANGED alerts
      BY <2>4, <2>5 DEF Poll
    <3> QED
      BY <2>2, <2>3, <3>1, SameTable
      DEF Pipeline!Next, Pipeline!Work, Pipeline!SelectUnanalyzed
  <2>6. CASE Mark(l)
    <3>1. PICK i \in Rows : /\ IsNext(i, todo[l]) /\ MarkRow(i)
                            /\ todo' = [todo EXCEPT ![l] = @ \ {i}]
      BY <2>6 DEF Mark
    <3>2. /\ loop[l] = "mark" /\ loop'[l] = "mark" /\ todo'[l] = todo[l] \ {i}
      BY <2>4, <2>6, <3>1 DEF Mark
    <3> QED
      BY <2>2, <2>3, <3>1, <3>2, SameTable
      DEF Pipeline!Next, Pipeline!Work, Pipeline!MarkAnalyzed, Rows, Pipeline!Rows
  <2>7. CASE Heartbeat(l)
    <3>1. /\ loop[l] = "mark" /\ loop'[l] = "poll" /\ todo[l] = {}
          /\ todo'[l] = todo[l] /\ UNCHANGED alerts
      BY <2>4, <2>7 DEF Heartbeat
    <3> QED
      BY <2>2, <2>3, <3>1, SameTable
      DEF Pipeline!Next, Pipeline!Work, Pipeline!EndCycle
  <2> QED
    BY <1>4, <2>5, <2>6, <2>7 DEF Cycle
<1>5. ASSUME NEW l \in Loops, LoopReturns(l) PROVE Pipeline!Next
  <2>1. /\ l \in Running /\ loop[l] # "none" /\ LeaveRows(todo[l])
        /\ loop' = [loop EXCEPT ![l] = "none"]
    BY <1>5 DEF LoopReturns, Running
  <2>2. Running' = {}
    BY <2>1 DEF LInv, LifecycleTypeOK, CancelCovers, Running
  <2>3. WorkerPc = loop[l] /\ WorkerBatch = todo[l]
    BY <2>1, RunningLoopIsWorker
  <2>4. WorkerPc' = "stopped" /\ WorkerBatch' = {}
    BY <1>a, <2>2
  <2>5. loop[l] # "stopped"
    BY <2>1 DEF LInv, LifecycleTypeOK, Running
  <2> QED
    BY <2>1, <2>3, <2>4, <2>5, SameTable DEF Pipeline!Next, Pipeline!Work, Pipeline!Stop
<1>6. CASE Others /\ UNCHANGED <<control, loops>>
  <2>1. UNCHANGED <<WorkerPc, WorkerBatch>>
    BY <1>6 DEF WorkerPc, WorkerBatch, Running, loops
  <2> QED
    BY <1>6, <2>1, SameOthers DEF Pipeline!Next, Pipeline!worker
<1>7. CASE UNCHANGED all
  BY <1>0, <1>7 DEF all, loops
<1> QED
  BY <1>1, <1>2, <1>3, <1>4, <1>5, <1>6, <1>7 DEF LifecycleNext, Locked

\* The loops of a worker's life, whoever starts, stops or cuts them off, are
\* the worker of AlertPipeline.
THEOREM LifecycleRefines == LifecycleSpec => AlertSpec
<1>1. LifecycleInit => Pipeline!Init
  <2> SUFFICES ASSUME LifecycleInit PROVE Pipeline!Init
    OBVIOUS
  <2>1. LInv /\ Running = {}
    BY InitLInv DEF LifecycleInit, Running
  <2> QED
    BY <2>1, RunningLoopIsWorker, SameTable DEF LifecycleInit, Pipeline!Init
<1> QED
  BY <1>1, StepRefines, LifecycleInvariance, PTL
  DEF LifecycleSpec, AlertSpec, Pipeline!Spec

\* With any number of callers and loops, too, no alert is closed that nobody
\* acknowledged ...
THEOREM LifecycleAckFirst == LifecycleSpec => []VerdictNeedsAck
<1>1. LInv => VerdictNeedsAck
  BY DEF LInv, TInv, AckedFirst, VerdictNeedsAck
<1> QED
  BY <1>1, LifecycleInvariance, PTL

\* ... and none that was processed comes back but by a late write.
THEOREM LifecycleStaysProcessed == LifecycleSpec => OnlyLateWriteReopens
<1> DEFINE NoReopen == \A i \in Rows : Reopened(i) => LateWrite(i)
<1>1. ASSUME LInv, [LifecycleNext]_all PROVE [NoReopen]_alerts
  <2>0. TInv
    BY <1>1 DEF LInv
  <2>1. CASE UNCHANGED alerts
    BY <2>1
  <2>2. CASE \E l \in Loops : Cycle(l) \/ LoopReturns(l)
    <3>1. UNCHANGED alerts \/ Marked
      BY <1>1, <2>2, LoopLInv
    <3> QED
      BY <2>0, <3>1, MarkedTInv DEF Reopened
  <2>3. CASE Others
    BY <2>0, <2>3, OthersTInv
  <2>4. CASE \/ \E c \in Callers : \/ Call(c, "start") \/ Call(c, "stop")
                                   \/ Locked(c) \/ WaitReturns(c)
             \/ \E l \in Loops : ContextEnds(l)
    <3>1. UNCHANGED alerts
      BY <2>4 DEF Call, Locked, StartWorker, StopWorker, WaitReturns, ContextEnds
    <3> QED
      BY <3>1
  <2> QED
    BY <1>1, <2>1, <2>2, <2>3, <2>4 DEF LifecycleNext, all
<1>2. LInv /\ [LifecycleNext]_all => [NoReopen]_alerts
  BY <1>1
<1> QED
  BY <1>2, LifecycleInvariance, PTL
  DEF LifecycleSpec, OnlyLateWriteReopens, Reopened, LateWrite
=============================================================================
