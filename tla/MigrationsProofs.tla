-------------------------- MODULE MigrationsProofs --------------------------
(***************************************************************************)
(* Proofs about Migrations, for any servers, releases, migrations and      *)
(* faults.                                                                 *)
(***************************************************************************)
EXTENDS Migrations, TLAPS

\* What a server that runs RunMigrations knows of the table: what it read is
\* still there, and so is everything its loop has gone past.
Known(s) ==
  /\ applied[s] \subseteq recorded
  /\ \A f \in Files : f < next[s] => f \in recorded
  /\ pc[s] = "up" => next[s] > files[s]
  /\ pc[s] = "commit" => next[s] \notin recorded
Knowledge == \A s \in Servers : Known(s)

\* The key of the row lets one transaction through at a time.
OneInserter ==
  \A s, t \in Servers :
    pc[s] = "commit" /\ pc[t] = "commit" /\ next[s] = next[t] => s = t

IInv == /\ TypeOK /\ NeverHalfMigrated /\ RecordedInOrder /\ AppliedOnce
        /\ Knowledge /\ OneInserter

LEMMA InitIInv == Init => IInv
<1> SUFFICES ASSUME Init PROVE IInv
  OBVIOUS
<1>1. \A n \in 0..NumFiles : 1..n \subseteq Files
  BY ReleaseAssumption DEF Files
<1>2. TypeOK
  <2>1. /\ byHand \subseteq Files /\ present \subseteq Files /\ recorded \subseteq Files
        /\ broken \subseteq Files /\ tracked \in BOOLEAN
    BY <1>1, ReleaseAssumption DEF Init
  <2>2. /\ files \in [Servers -> 0..NumFiles]
        /\ next \in [Servers -> 1..(NumFiles + 1)] /\ faults \in 0..MaxFaults
    BY ReleaseAssumption DEF Init
  <2> QED
    BY <2>1, <2>2 DEF Init, TypeOK
<1>3. NeverHalfMigrated
  BY DEF Init, NeverHalfMigrated
<1>4. RecordedInOrder
  <2>1. recorded = 1..0 /\ 0 \in 0..NumFiles
    BY ReleaseAssumption DEF Init
  <2> QED
    BY <2>1 DEF RecordedInOrder
<1>5. AppliedOnce
  BY DEF Init, AppliedOnce
<1>6. Knowledge /\ OneInserter
  BY DEF Init, Knowledge, Known, OneInserter, Files
<1> QED
  BY <1>2, <1>3, <1>4, <1>5, <1>6 DEF IInv

\* A step that leaves what the migrations made alone disturbs nothing but what is said of
\* the server that takes it.
LEMMA LocalStep ==
  ASSUME IInv, NEW s \in Servers, UNCHANGED content, TypeOK', Known(s)',
         \A t \in Servers \ {s} :
           pc'[t] = pc[t] /\ next'[t] = next[t] /\ files'[t] = files[t] /\ applied'[t] = applied[t],
         pc'[s] = "commit" => \A t \in Servers \ {s} : ~(pc[t] = "commit" /\ next[t] = next'[s])
  PROVE  IInv'
<1>1. NeverHalfMigrated' /\ RecordedInOrder' /\ AppliedOnce'
  BY DEF IInv, NeverHalfMigrated, RecordedInOrder, AppliedOnce, content
<1>2. Knowledge'
  BY DEF IInv, Knowledge, Known, database, content
<1>3. OneInserter'
  BY DEF IInv, OneInserter
<1> QED
  BY <1>1, <1>2, <1>3 DEF IInv

LEMMA RestartIInv == ASSUME IInv, NEW s \in Servers, Restart(s) PROVE IInv'
<1>1. TypeOK'
  BY ReleaseAssumption DEF IInv, TypeOK, Restart, Goto, database, content, Steps
<1>2. Known(s)'
  BY <1>1 DEF IInv, TypeOK, Restart, Goto, Known, database, content, Files
<1> QED
  BY <1>1, <1>2, LocalStep DEF IInv, TypeOK, Restart, Goto, database

\* A server on its way to its first look at the table.
LEMMA EarlyStep ==
  ASSUME IInv, NEW s \in Servers, NEW to \in {"create", "load", "down"},
         UNCHANGED <<content, applied, next>>, Goto(s, to), pc[s] \in {"ensure", "create"},
         tracked' \in BOOLEAN, faults' \in 0..MaxFaults,
         files' = files \/ files' = [files EXCEPT ![s] = Release[s]]
  PROVE  IInv'
<1>1. TypeOK'
  <2>1. /\ files' \in [Servers -> 0..NumFiles]
        /\ \A t \in Servers \ {s} : files'[t] = files[t]
    BY ReleaseAssumption DEF IInv, TypeOK
  <2>2. /\ pc' \in [Servers -> Steps \cup {"down", "up"}] /\ pc'[s] = to
        /\ \A t \in Servers \ {s} : pc'[t] = pc[t]
    BY DEF IInv, TypeOK, Goto, Steps
  <2> QED
    BY <2>1, <2>2 DEF IInv, TypeOK, content
<1>2. Known(s)'
  BY DEF IInv, TypeOK, Goto, Knowledge, Known, content
<1>3. \A t \in Servers \ {s} :
        pc'[t] = pc[t] /\ next'[t] = next[t] /\ files'[t] = files[t] /\ applied'[t] = applied[t]
  BY DEF IInv, TypeOK, Goto
<1>4. pc'[s] = to /\ UNCHANGED content
  BY DEF IInv, TypeOK, Goto
<1> QED
  BY <1>1, <1>2, <1>3, <1>4, LocalStep

LEMMA EnsureTableIInv == ASSUME IInv, NEW s \in Servers, EnsureTable(s) PROVE IInv'
<1>1. /\ UNCHANGED <<database, applied, next>> /\ pc[s] = "ensure"
      /\ Goto(s, "load") \/ Goto(s, "create")
      /\ faults' \in 0..MaxFaults
      /\ files' = files \/ files' = [files EXCEPT ![s] = Release[s]]
  BY ReleaseAssumption DEF EnsureTable, ListFiles, IInv, TypeOK
<1>2. UNCHANGED content /\ tracked' \in BOOLEAN
  BY <1>1 DEF database, content, IInv, TypeOK
<1> QED
  BY <1>1, <1>2, EarlyStep

LEMMA CreateTableIInv == ASSUME IInv, NEW s \in Servers, CreateTable(s) PROVE IInv'
<1>1. /\ UNCHANGED <<content, applied, next>> /\ pc[s] = "create" /\ tracked' \in BOOLEAN
      /\ Goto(s, "load") \/ Goto(s, "down")
      /\ faults' \in 0..MaxFaults
      /\ files' = files \/ files' = [files EXCEPT ![s] = Release[s]]
  BY ReleaseAssumption DEF CreateTable, ListFiles, Fail, IInv, TypeOK
<1> QED
  BY <1>1, EarlyStep

LEMMA LoadAppliedIInv == ASSUME IInv, NEW s \in Servers, LoadApplied(s) PROVE IInv'
<1>1. TypeOK'
  BY DEF IInv, TypeOK, LoadApplied, Goto, database, content, Steps
<1>2. Known(s)'
  BY DEF IInv, TypeOK, LoadApplied, Goto, Knowledge, Known, database, content
<1>3. \A t \in Servers \ {s} :
        pc'[t] = pc[t] /\ next'[t] = next[t] /\ files'[t] = files[t] /\ applied'[t] = applied[t]
  BY DEF IInv, TypeOK, LoadApplied, Goto
<1>4. pc'[s] = "next" /\ UNCHANGED database
  BY DEF IInv, TypeOK, LoadApplied, Goto
<1> QED
  BY <1>1, <1>2, <1>3, <1>4, LocalStep DEF database

\* The loop goes past what the server read, and ends behind its list.
LEMMA NextFileIInv == ASSUME IInv, NEW s \in Servers, NextFile(s) PROVE IInv'
<1>0. /\ next[s] \in 1..(NumFiles + 1) /\ files[s] \in 0..NumFiles /\ NumFiles \in Nat
      /\ next \in [Servers -> 1..(NumFiles + 1)]
      /\ pc \in [Servers -> Steps \cup {"down", "up"}]
  BY ReleaseAssumption DEF IInv, TypeOK
<1>1. /\ UNCHANGED <<database, files, applied, faults>> /\ pc[s] = "next"
      /\ \/ /\ next[s] > files[s] /\ pc' = [pc EXCEPT ![s] = "up"] /\ next' = next
         \/ /\ next[s] <= files[s] /\ next[s] \in applied[s]
            /\ next' = [next EXCEPT ![s] = next[s] + 1] /\ pc' = pc
         \/ next[s] <= files[s] /\ pc' = [pc EXCEPT ![s] = "body"] /\ next' = next
  BY DEF NextFile, Goto
<1>2. TypeOK'
  <2>1. next' \in [Servers -> 1..(NumFiles + 1)]
    BY <1>0, <1>1
  <2>2. pc' \in [Servers -> Steps \cup {"down", "up"}]
    BY <1>0, <1>1 DEF Steps
  <2>3. \A t \in Servers : pc'[t] \in {"body", "record", "commit"} => next'[t] <= files'[t]
    <3> SUFFICES ASSUME NEW t \in Servers, pc'[t] \in {"body", "record", "commit"}
                 PROVE  next'[t] <= files'[t]
      OBVIOUS
    <3>1. CASE t = s
      BY <1>0, <1>1, <3>1
    <3>2. CASE t # s
      BY <1>0, <1>1, <3>2 DEF IInv, TypeOK
    <3> QED
      BY <3>1, <3>2
  <2> QED
    BY <1>1, <2>1, <2>2, <2>3 DEF IInv, TypeOK, database, content
<1>3. Known(s)'
  <2>1. applied'[s] \subseteq recorded'
    BY <1>1 DEF IInv, Knowledge, Known, database, content
  <2>2. ASSUME NEW f \in Files, f < next'[s] PROVE f \in recorded'
    <3>1. CASE f < next[s]
      BY <1>1, <3>1 DEF IInv, Knowledge, Known, database, content
    <3>2. CASE ~(f < next[s])
      <4>1. next[s] \in applied[s] /\ next'[s] = next[s] + 1
        BY <1>0, <1>1, <2>2, <3>2
      <4>2. f = next[s]
        BY <1>0, <2>2, <3>2, <4>1, ReleaseAssumption DEF Files
      <4> QED
        BY <1>1, <4>1, <4>2 DEF IInv, Knowledge, Known, database, content
    <3> QED
      BY <3>1, <3>2
  <2>3. pc'[s] = "up" => next'[s] > files'[s]
    BY <1>0, <1>1
  <2>4. pc'[s] # "commit"
    BY <1>0, <1>1
  <2> QED
    BY <2>1, <2>2, <2>3, <2>4 DEF Known
<1>4. \A t \in Servers \ {s} :
        pc'[t] = pc[t] /\ next'[t] = next[t] /\ files'[t] = files[t] /\ applied'[t] = applied[t]
  BY <1>0, <1>1
<1>5. pc'[s] # "commit"
  BY <1>0, <1>1
<1> QED
  BY <1>1, <1>2, <1>3, <1>4, <1>5, LocalStep DEF database

\* A server that goes down, or to its next statement within a transaction,
\* keeps what it knows.
LEMMA MoveIInv ==
  ASSUME IInv, NEW s \in Servers, NEW to \in {"down", "record", "commit"},
         UNCHANGED <<database, locals>>, faults' \in 0..MaxFaults, Goto(s, to),
         to = "record" => pc[s] = "body",
         to = "commit" => /\ pc[s] = "record" /\ next[s] \notin recorded
                          /\ ~Inserting(next[s])
  PROVE  IInv'
<1>0. /\ pc \in [Servers -> Steps \cup {"down", "up"}]
      /\ pc' = [pc EXCEPT ![s] = to]
  BY DEF IInv, TypeOK, Goto
<1>1. TypeOK'
  <2>1. pc' \in [Servers -> Steps \cup {"down", "up"}]
    BY <1>0 DEF Steps
  <2>2. \A t \in Servers : pc'[t] \in {"body", "record", "commit"} =>
                             pc[t] \in {"body", "record", "commit"}
    BY <1>0
  <2> QED
    BY <2>1, <2>2 DEF IInv, TypeOK, database, content, locals
<1>2. Known(s)'
  BY <1>0 DEF IInv, Knowledge, Known, database, content, locals
<1>3. to = "commit" => \A t \in Servers \ {s} : ~(pc[t] = "commit" /\ next[t] = next'[s])
  BY DEF Inserting, locals
<1>4. \A t \in Servers \ {s} : pc'[t] = pc[t]
  BY <1>0
<1>5. pc'[s] = to
  BY <1>0
<1> QED
  BY <1>1, <1>2, <1>3, <1>4, <1>5, LocalStep DEF locals, database

LEMMA ExecBodyIInv == ASSUME IInv, NEW s \in Servers, ExecBody(s) PROVE IInv'
<1>1. /\ UNCHANGED <<database, locals, faults>> /\ pc[s] = "body"
      /\ Goto(s, "down") \/ Goto(s, "record")
  BY DEF ExecBody, Fail
<1>2. faults' \in 0..MaxFaults
  BY <1>1 DEF IInv, TypeOK
<1> QED
  BY <1>1, <1>2, MoveIInv

LEMMA InsertRecordIInv == ASSUME IInv, NEW s \in Servers, InsertRecord(s) PROVE IInv'
<1>1. /\ UNCHANGED <<database, locals, faults>> /\ pc[s] = "record"
      /\ \/ Goto(s, "down")
         \/ Goto(s, "commit") /\ next[s] \notin recorded /\ ~Inserting(next[s])
  BY DEF InsertRecord, Fail
<1>2. faults' \in 0..MaxFaults
  BY <1>1 DEF IInv, TypeOK
<1> QED
  BY <1>1, <1>2, MoveIInv

LEMMA FaultIInv == ASSUME IInv, NEW s \in Servers, Fault(s) PROVE IInv'
<1>1. UNCHANGED <<database, locals>> /\ Goto(s, "down")
  BY DEF Fault
<1>2. faults' \in 0..MaxFaults
  BY ReleaseAssumption DEF Fault, IInv, TypeOK
<1> QED
  BY <1>1, <1>2, MoveIInv

\* The one step that changes the database: the row that is added is the next
\* of the list, since all before it are there and it was not.
LEMMA CommitIInv == ASSUME IInv, NEW s \in Servers, Commit(s) PROVE IInv'
<1> DEFINE f == next[s]
<1>0. /\ TypeOK /\ pc[s] = "commit" /\ f \in Files /\ f <= files[s] /\ f \notin recorded
      /\ files[s] \in 0..NumFiles /\ NumFiles \in Nat /\ f \in Nat
      /\ \A g \in Files : g < f => g \in recorded
  <2>1. TypeOK /\ Known(s) /\ pc[s] = "commit"
    BY DEF Commit, IInv, Knowledge
  <2>2. /\ files[s] \in 0..NumFiles /\ f \in 1..(NumFiles + 1) /\ f <= files[s]
        /\ NumFiles \in Nat
    BY <2>1, ReleaseAssumption DEF TypeOK
  <2>3. f \in Files /\ f \in Nat
    BY <2>2 DEF Files
  <2>4. f \notin recorded /\ \A g \in Files : g < f => g \in recorded
    BY <2>1 DEF Known
  <2> QED
    BY <2>1, <2>2, <2>3, <2>4
<1>1. /\ present' = present \cup {f} /\ recorded' = recorded \cup {f}
      /\ bodies' = [bodies EXCEPT ![f] = @ + 1] /\ byHand' = byHand
      /\ UNCHANGED <<broken, tracked>>
      /\ UNCHANGED <<files, applied>> /\ faults' \in 0..MaxFaults
      /\ \/ next' = [next EXCEPT ![s] = f + 1] /\ pc' = [pc EXCEPT ![s] = "next"]
         \/ next' = next /\ pc' = [pc EXCEPT ![s] = "down"]
  BY <1>0, ReleaseAssumption DEF Commit, Apply, Fail, Goto, TypeOK
<1>2. TypeOK'
  <2>1. next' \in [Servers -> 1..(NumFiles + 1)]
    BY <1>0, <1>1 DEF TypeOK
  <2>2. pc' \in [Servers -> Steps \cup {"down", "up"}]
    BY <1>0, <1>1 DEF TypeOK, Steps
  <2>3. bodies' \in [Files -> Nat]
    BY <1>0, <1>1 DEF TypeOK
  <2>4. ASSUME NEW t \in Servers, pc'[t] \in {"body", "record", "commit"}
        PROVE  next'[t] <= files'[t]
    <3>1. t # s /\ pc'[t] = pc[t] /\ next'[t] = next[t] /\ files'[t] = files[t]
      BY <1>0, <1>1, <2>4 DEF TypeOK
    <3> QED
      BY <1>0, <2>4, <3>1 DEF TypeOK
  <2> QED
    BY <1>0, <1>1, <2>1, <2>2, <2>3, <2>4 DEF TypeOK
<1>3. NeverHalfMigrated'
  BY <1>1 DEF IInv, NeverHalfMigrated
<1>4. RecordedInOrder'
  <2>1. PICK n \in 0..NumFiles : recorded = 1..n
    BY DEF IInv, RecordedInOrder
  <2>2. n < f
    <3>1. f >= 1 /\ n \in Nat
      BY <1>0 DEF Files
    <3>2. ~(f <= n)
      BY <1>0, <2>1, <3>1
    <3> QED
      BY <1>0, <3>1, <3>2
  <2>3. n = f - 1
    <3>1. CASE f = 1
      BY <1>0, <2>2, <3>1
    <3>2. CASE f > 1
      <4>1. f - 1 \in Files
        BY <1>0, <3>2 DEF Files
      <4>2. f - 1 \in 1..n
        BY <1>0, <2>1, <4>1
      <4> QED
        BY <1>0, <2>1, <2>2, <4>2
    <3> QED
      BY <1>0, <3>1, <3>2 DEF Files
  <2>4. recorded' = 1..f
    BY <1>0, <1>1, <2>1, <2>3
  <2> QED
    BY <1>0, <2>4 DEF RecordedInOrder
<1>5. AppliedOnce'
  <2>1. bodies[f] = 0
    BY <1>0 DEF IInv, AppliedOnce, TypeOK
  <2>2. bodies'[f] = 1 /\ \A g \in Files \ {f} : bodies'[g] = bodies[g]
    BY <1>0, <1>1, <2>1 DEF TypeOK
  <2> QED
    BY <1>1, <2>2 DEF IInv, AppliedOnce
<1>6. \A t \in Servers \ {s} :
        pc'[t] = pc[t] /\ next'[t] = next[t] /\ files'[t] = files[t] /\ applied'[t] = applied[t]
  BY <1>0, <1>1 DEF TypeOK
<1>7. pc'[s] \notin {"commit", "up"}
  BY <1>0, <1>1 DEF TypeOK
<1>8. Knowledge'
  <2>1. Known(s)'
    <3>1. next'[s] \in {f, f + 1}
      BY <1>0, <1>1 DEF TypeOK
    <3>2. \A g \in Files : g < next'[s] => g \in recorded'
      BY <1>0, <1>1, <3>1, ReleaseAssumption DEF Files
    <3>3. applied'[s] \subseteq recorded'
      BY <1>1 DEF IInv, Knowledge, Known
    <3> QED
      BY <1>7, <3>2, <3>3 DEF Known
  <2>2. ASSUME NEW t \in Servers \ {s} PROVE Known(t)'
    <3>1. pc'[t] = "commit" => next'[t] \notin recorded'
      BY <1>0, <1>1, <1>6 DEF IInv, OneInserter, Knowledge, Known
    <3> QED
      BY <1>1, <1>6, <3>1 DEF IInv, Knowledge, Known
  <2> QED
    BY <2>1, <2>2 DEF Knowledge
<1>9. OneInserter'
  BY <1>6, <1>7 DEF IInv, OneInserter
<1> QED
  BY <1>2, <1>3, <1>4, <1>5, <1>8, <1>9 DEF IInv

LEMMA StutterIInv == IInv /\ UNCHANGED vars => IInv'
BY DEF IInv, TypeOK, NeverHalfMigrated, RecordedInOrder, AppliedOnce, Knowledge,
       Known, OneInserter, vars, database, content, locals

LEMMA NextIInv == IInv /\ [Next]_vars => IInv'
<1> SUFFICES ASSUME IInv, [Next]_vars PROVE IInv'
  OBVIOUS
<1>1. ASSUME NEW s \in Servers, Run(s) PROVE IInv'
  BY <1>1, RestartIInv, EnsureTableIInv, CreateTableIInv, LoadAppliedIInv, NextFileIInv,
     ExecBodyIInv, InsertRecordIInv, CommitIInv DEF Run
<1>2. ASSUME NEW s \in Servers, Fault(s) PROVE IInv'
  BY <1>2, FaultIInv
<1>3. CASE UNCHANGED vars
  BY <1>3, StutterIInv
<1> QED
  BY <1>1, <1>2, <1>3 DEF Next

LEMMA Invariance == Spec => []IInv
BY InitIInv, NextIInv, PTL DEF Spec

\* The types, and that no server works behind the end of its list.
THEOREM TypeCorrect == Spec => []TypeOK
<1>1. IInv => TypeOK
  BY DEF IInv
<1> QED
  BY <1>1, Invariance, PTL

\* Body and row of a migration appear together, whoever dies where.
THEOREM AllOrNothing == Spec => []NeverHalfMigrated
<1>1. IInv => NeverHalfMigrated
  BY DEF IInv
<1> QED
  BY <1>1, Invariance, PTL

\* No server, of an older release or a newer one, leaves a gap in the rows.
THEOREM NoGap == Spec => []RecordedInOrder
<1>1. IInv => RecordedInOrder
  BY DEF IInv
<1> QED
  BY <1>1, Invariance, PTL

\* Servers that start together commit each migration once.
THEOREM CommittedOnce == Spec => []AppliedOnce
<1>1. IInv => AppliedOnce
  BY DEF IInv
<1> QED
  BY <1>1, Invariance, PTL

\* RunMigrations returns nil when its list is in the table.
THEOREM UpIsMigrated == Spec => []UpMeansMigrated
<1>1. IInv => UpMeansMigrated
  <2> SUFFICES ASSUME IInv, NEW s \in Servers, pc[s] = "up", NEW f \in 1..files[s]
               PROVE  f \in recorded
    BY DEF UpMeansMigrated
  <2>1. /\ files[s] \in 0..NumFiles /\ NumFiles \in Nat /\ next[s] \in Nat
        /\ next[s] > files[s]
    BY ReleaseAssumption DEF IInv, TypeOK, Knowledge, Known
  <2>2. f \in Files /\ f < next[s]
    BY <2>1 DEF Files
  <2> QED
    BY <2>2 DEF IInv, Knowledge, Known
<1> QED
  BY <1>1, Invariance, PTL

-----------------------------------------------------------------------------
(* Servers that race help each other on: what AllComeUp says, without the  *)
(* fairness.                                                               *)

\* The lock a server waits for is held by one that has gone further in the
\* same file, and of those at least one waits for nobody.
Waits(s) ==
  \/ pc[s] = "body" /\ Creating(next[s])
  \/ pc[s] = "record" /\ Inserting(next[s])
NoCircularWait ==
  \A s \in Servers : Waits(s) =>
    \E t \in Servers : next[t] = next[s] /\ pc[t] \in {"record", "commit"} /\ ~Waits(t)

\* Why a server goes down without a fault: another one made schema_migrations
\* since it looked for it, which its next start finds; a row was written after
\* it read them, and its next start reads more; or, whatever the others do,
\* somebody made by hand what a plain migration makes, or the file holds an
\* error.
FailureIsProgress ==
  [][\A s \in Servers :
       pc[s] # "down" /\ pc'[s] = "down" /\ faults' = faults =>
         \/ pc[s] = "create" /\ tracked
         \/ next[s] \in recorded \ applied[s]
         \/ next[s] \in byHand \cap Plain
         \/ next[s] \in broken]_vars

\* The file in work is none of those the server found recorded.
NotYetKnown ==
  \A s \in Servers : pc[s] \in {"body", "record", "commit"} => next[s] \notin applied[s]

LEMMA NotYetKnownInvariance == Spec => []NotYetKnown
<1>1. Init => NotYetKnown
  BY DEF Init, NotYetKnown
<1>2. IInv /\ NotYetKnown /\ [Next]_vars => NotYetKnown'
  <2> SUFFICES ASSUME IInv, NotYetKnown, [Next]_vars PROVE NotYetKnown'
    OBVIOUS
  <2>0. /\ pc \in [Servers -> Steps \cup {"down", "up"}]
        /\ next \in [Servers -> 1..(NumFiles + 1)] /\ applied \in [Servers -> SUBSET Files]
    BY DEF IInv, TypeOK
  <2>1. ASSUME NEW s \in Servers, Restart(s) \/ EnsureTable(s) \/ CreateTable(s) \/ LoadApplied(s)
        PROVE  NotYetKnown'
    BY <2>0, <2>1 DEF NotYetKnown, Restart, EnsureTable, CreateTable, LoadApplied, Fail, Goto
  <2>2. ASSUME NEW s \in Servers, NextFile(s) PROVE NotYetKnown'
    BY <2>0, <2>2 DEF NotYetKnown, NextFile, Goto
  <2>3. ASSUME NEW s \in Servers, ExecBody(s) \/ InsertRecord(s) \/ Fault(s)
        PROVE  NotYetKnown'
    BY <2>0, <2>3 DEF NotYetKnown, ExecBody, InsertRecord, Fault, Fail, Goto, locals
  <2>4. ASSUME NEW s \in Servers, Commit(s) PROVE NotYetKnown'
    BY <2>0, <2>4 DEF NotYetKnown, Commit, Fail, Goto
  <2>5. CASE UNCHANGED vars
    BY <2>5 DEF NotYetKnown, vars, locals
  <2> QED
    BY <2>1, <2>2, <2>3, <2>4, <2>5 DEF Next, Run
<1> QED
  BY <1>1, <1>2, Invariance, PTL DEF Spec

\* However many servers start together, one can always go on, and but for a
\* file that no server can apply none is sent back to its start in vain.
THEOREM RacersMakeProgress == Spec => []NoCircularWait /\ FailureIsProgress
<1>1. IInv => NoCircularWait
  <2> SUFFICES ASSUME IInv, NEW s \in Servers, Waits(s)
               PROVE  \E t \in Servers :
                        next[t] = next[s] /\ pc[t] \in {"record", "commit"} /\ ~Waits(t)
    BY DEF NoCircularWait
  <2>1. \A t \in Servers : pc[t] = "commit" => ~Waits(t)
    BY DEF Waits
  <2>2. CASE Inserting(next[s])
    BY <2>1, <2>2 DEF Inserting
  <2>3. CASE ~Inserting(next[s])
    <3>1. PICK t \in Servers : pc[t] \in {"record", "commit"} /\ next[t] = next[s]
      BY <2>3 DEF Waits, Creating
    <3>2. ~Waits(t)
      BY <2>3, <3>1 DEF Waits
    <3> QED
      BY <3>1, <3>2
  <2> QED
    BY <2>2, <2>3
<1> DEFINE Late == \A s \in Servers :
                     pc[s] # "down" /\ pc'[s] = "down" /\ faults' = faults =>
                       \/ pc[s] = "create" /\ tracked
                       \/ next[s] \in recorded \ applied[s]
                       \/ next[s] \in byHand \cap Plain
                       \/ next[s] \in broken
<1>2. IInv /\ NotYetKnown /\ [Next]_vars => [Late]_vars
  <2> SUFFICES ASSUME IInv, NotYetKnown, NEW r \in Servers, Run(r) \/ Fault(r),
                      NEW s \in Servers,
                      pc[s] # "down", pc'[s] = "down", faults' = faults
               PROVE  \/ pc[s] = "create" /\ tracked
                      \/ next[s] \in recorded \ applied[s]
                      \/ next[s] \in byHand \cap Plain
                      \/ next[s] \in broken
    BY DEF Next
  <2>0. pc \in [Servers -> Steps \cup {"down", "up"}] /\ faults \in Nat
    BY ReleaseAssumption DEF IInv, TypeOK
  <2>1. CASE Restart(r) \/ EnsureTable(r) \/ LoadApplied(r) \/ NextFile(r)
    BY <2>0, <2>1 DEF Restart, EnsureTable, LoadApplied, NextFile, Goto
  <2>5. CASE CreateTable(r)
    BY <2>0, <2>5 DEF CreateTable, Fail, Goto
  <2>2. CASE ExecBody(r)
    <3>1. r = s /\ pc[s] = "body"
      BY <2>0, <2>2 DEF ExecBody, Fail, Goto
    <3>2. \/ next[s] \in broken
          \/ next[s] \in present /\ (next[s] \in Plain \/ next[s] \in recorded)
      BY <2>0, <2>2, <3>1 DEF ExecBody, Fail, Goto
    <3>3. next[s] \in present => next[s] \in recorded \/ next[s] \in byHand
      BY DEF IInv, NeverHalfMigrated
    <3> QED
      BY <3>1, <3>2, <3>3 DEF NotYetKnown
  <2>3. CASE InsertRecord(r)
    <3>1. r = s /\ pc[s] = "record" /\ next[s] \in recorded
      BY <2>0, <2>3 DEF InsertRecord, Fail, Goto
    <3> QED
      BY <3>1 DEF NotYetKnown
  <2>4. CASE Commit(r) \/ Fault(r)
    BY <2>0, <2>4 DEF Commit, Fault, Fail, Goto
  <2> QED
    BY <2>1, <2>2, <2>3, <2>4, <2>5 DEF Run
<1> QED
  BY <1>1, <1>2, Invariance, NotYetKnownInvariance, PTL DEF Spec, FailureIsProgress
=============================================================================
