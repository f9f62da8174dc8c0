----------------------------- MODULE Migrations -----------------------------
(***************************************************************************)
(* RunMigrations on several servers that start at once against one         *)
(* database, perhaps of different releases.  A server that got an error or *)
(* was killed is started again.  One step is one round trip; an open       *)
(* transaction holds its locks and is rolled back when its server dies.    *)
(*                                                                         *)
(* An operator named Mutant... is no part of the specification: it is the  *)
(* definition after it with a plausible bug, which some property has to    *)
(* tell from the code.                                                     *)
(***************************************************************************)
EXTENDS Naturals, FiniteSets

CONSTANTS
  Servers,
  NumFiles,   \* the migrations, numbered in lexical order of their names
  Plain,      \* those whose body fails on objects that are there already
  Defects,    \* sets of files with a syntax error, of which one is that of the run
  Release,    \* how many of them each server's directory holds
  MaxFaults   \* bound on errors of the database, kills and unread directories

Files == 1..NumFiles

ASSUME ReleaseAssumption ==
  /\ NumFiles \in Nat /\ MaxFaults \in Nat
  /\ Plain \subseteq Files /\ Defects \subseteq SUBSET Files /\ Release \in [Servers -> 0..NumFiles]

VARIABLES
  broken,     \* migrations PostgreSQL refuses to parse, whoever sends them
  \* the database
  byHand,     \* migrations somebody ran with psql before the first server
  tracked,    \* schema_migrations is there
  present,    \* migrations whose objects are there
  recorded,   \* the rows of schema_migrations
  \* each server
  pc,
  files,      \* the length of the list it made of its directory
  applied,    \* the rows it read
  next,       \* the file of the loop
  \* history
  bodies,     \* commits of each body
  faults

content  == <<broken, byHand, present, recorded, bodies>>
database == <<content, tracked>>
locals   == <<files, applied, next>>
vars     == <<database, pc, locals, faults>>

-----------------------------------------------------------------------------
Steps == {"ensure", "create", "load", "next", "body", "record", "commit"}

Init ==
  /\ broken \in Defects /\ tracked = FALSE
  /\ byHand \in {1..n : n \in 0..NumFiles} /\ present = byHand /\ recorded = {}
  /\ bodies = [f \in Files |-> 0]
  /\ pc = [s \in Servers |-> "down"]
  /\ files = [s \in Servers |-> 0]
  /\ applied = [s \in Servers |-> {}]
  /\ next = [s \in Servers |-> 1]
  /\ faults = 0

Goto(s, step) == pc' = [pc EXCEPT ![s] = step]

\* An error, of whatever kind, ends RunMigrations and with it the server.
Fail(s) == Goto(s, "down")

\* Locks: on the objects of a body until its transaction ends, and on the key
\* of the row.
Creating(f) == \E t \in Servers : pc[t] \in {"record", "commit"} /\ next[t] = f /\ f \notin present
Inserting(f) == \E t \in Servers : pc[t] = "commit" /\ next[t] = f

Restart(s) ==
  /\ pc[s] = "down"
  /\ Goto(s, "ensure")
  /\ files' = [files EXCEPT ![s] = 0] /\ applied' = [applied EXCEPT ![s] = {}]
  /\ next' = [next EXCEPT ![s] = 1]
  /\ UNCHANGED <<database, faults>>

\* An unreadable directory is an empty one.
ListFiles(s) ==
  \/ files' = [files EXCEPT ![s] = Release[s]] /\ UNCHANGED faults
  \/ faults < MaxFaults /\ faults' = faults + 1 /\ UNCHANGED files

\* CREATE TABLE IF NOT EXISTS begins with a look at the catalog.
EnsureTable(s) ==
  /\ pc[s] = "ensure"
  /\ IF tracked
       THEN ListFiles(s) /\ Goto(s, "load")
       ELSE Goto(s, "create") /\ UNCHANGED <<files, faults>>
  /\ UNCHANGED <<database, applied, next>>

\* Of two servers that did not find the table one makes it, and the other
\* fails on the key of the catalog.  It is also there when the answer is lost.
CreateTable(s) ==
  /\ pc[s] = "create"
  /\ tracked' = TRUE
  /\ \/ ~tracked /\ ListFiles(s) /\ Goto(s, "load")
     \/ tracked /\ Fail(s) /\ UNCHANGED <<files, faults>>
     \/ ~tracked /\ faults < MaxFaults /\ faults' = faults + 1 /\ Fail(s) /\ UNCHANGED files
  /\ UNCHANGED <<content, applied, next>>

\* The rows of an earlier start are forgotten and not read again.
MutantLoadApplied(s) ==
  /\ pc[s] = "load"
  /\ Goto(s, "next")
  /\ UNCHANGED <<database, locals, faults>>

\* The rows are read once, before the loop.
LoadApplied(s) ==
  /\ pc[s] = "load"
  /\ applied' = [applied EXCEPT ![s] = recorded]
  /\ Goto(s, "next")
  /\ UNCHANGED <<database, files, next, faults>>

NextFile(s) ==
  /\ pc[s] = "next"
  /\ \/ next[s] > files[s] /\ Goto(s, "up") /\ UNCHANGED next
     \/ /\ next[s] <= files[s]
        /\ IF next[s] \in applied[s]
             THEN next' = [next EXCEPT ![s] = @ + 1] /\ UNCHANGED pc
             ELSE Goto(s, "body") /\ UNCHANGED next
  /\ UNCHANGED <<database, files, applied, faults>>

\* The error of a file is logged and the loop goes on.
MutantExecBody(s) ==
  LET f == next[s] IN
  /\ pc[s] = "body" /\ ~Creating(f)
  /\ \/ /\ f \in broken \/ (f \in present /\ (f \in Plain \/ f \in recorded))
        /\ next' = [next EXCEPT ![s] = @ + 1] /\ Goto(s, "next")
     \/ /\ f \notin broken /\ ~(f \in present /\ f \in Plain)
        /\ Goto(s, "record") /\ UNCHANGED next
  /\ UNCHANGED <<database, files, applied, faults>>

\* The transaction begins with the body of the file.  A body with a syntax
\* error fails as a whole.  Where its objects are there, a plain CREATE fails,
\* and so does CREATE ... IF NOT EXISTS when it had to wait for the server
\* that made them.
ExecBody(s) ==
  LET f == next[s] IN
  /\ pc[s] = "body" /\ ~Creating(f)
  /\ \/ f \in broken /\ Fail(s)
     \/ f \in present /\ (f \in Plain \/ f \in recorded) /\ Fail(s)
     \/ f \notin broken /\ ~(f \in present /\ f \in Plain) /\ Goto(s, "record")
  /\ UNCHANGED <<database, locals, faults>>

\* INSERT ... ON CONFLICT DO NOTHING
MutantInsertRecord(s) ==
  /\ pc[s] = "record" /\ ~Inserting(next[s])
  /\ Goto(s, "commit")
  /\ UNCHANGED <<database, locals, faults>>

\* The row's key is the file's name: of two servers that ran a body that
\* does nothing the second time, one fails here.
InsertRecord(s) ==
  /\ pc[s] = "record" /\ ~Inserting(next[s])
  /\ IF next[s] \in recorded THEN Fail(s) ELSE Goto(s, "commit")
  /\ UNCHANGED <<database, locals, faults>>

\* The row is written by a statement of its own after the transaction, which
\* a killed server does not come to.
MutantApply(f) ==
  /\ present' = present \cup {f}
  /\ \/ recorded' = recorded \cup {f}
     \/ faults < MaxFaults /\ UNCHANGED recorded
  /\ bodies' = [bodies EXCEPT ![f] = @ + 1]
  /\ UNCHANGED <<broken, byHand, tracked>>

Apply(f) ==
  /\ present' = present \cup {f} /\ recorded' = recorded \cup {f}
  /\ bodies' = [bodies EXCEPT ![f] = @ + 1]
  /\ UNCHANGED <<broken, byHand, tracked>>

\* A commit whose answer is lost has been made, and fails the server.
Commit(s) ==
  /\ pc[s] = "commit"
  /\ Apply(next[s])
  /\ \/ /\ next' = [next EXCEPT ![s] = @ + 1] /\ Goto(s, "next")
        /\ UNCHANGED faults
     \/ /\ faults < MaxFaults /\ faults' = faults + 1
        /\ Fail(s) /\ UNCHANGED next
  /\ UNCHANGED <<files, applied>>

\* A statement fails, or the server is killed, before or after it is up: an
\* open transaction is rolled back.
Fault(s) ==
  /\ pc[s] \in Steps \cup {"up"}
  /\ faults < MaxFaults /\ faults' = faults + 1
  /\ Goto(s, "down")
  /\ UNCHANGED <<database, locals>>

Run(s) ==
  \/ Restart(s) \/ EnsureTable(s) \/ CreateTable(s) \/ LoadApplied(s)
  \/ NextFile(s) \/ ExecBody(s) \/ InsertRecord(s) \/ Commit(s)

Next == \E s \in Servers : Run(s) \/ Fault(s)

Spec == Init /\ [][Next]_vars

\* A server that is down is started again and its steps are taken; a lock is
\* given to whoever waits for it when its transaction ends.
FairSpec == Spec /\ \A s \in Servers : WF_vars(Run(s))

-----------------------------------------------------------------------------
(* Properties.                                                             *)

\* Every variable has its type.
TypeOK ==
  /\ broken \subseteq Files /\ tracked \in BOOLEAN
  /\ byHand \subseteq Files /\ present \subseteq Files /\ recorded \subseteq Files
  /\ bodies \in [Files -> Nat]
  /\ pc \in [Servers -> Steps \cup {"down", "up"}]
  /\ files \in [Servers -> 0..NumFiles] /\ applied \in [Servers -> SUBSET Files]
  /\ next \in [Servers -> 1..(NumFiles + 1)]
  /\ faults \in 0..MaxFaults
  /\ \A s \in Servers : pc[s] \in {"body", "record", "commit"} => next[s] <= files[s]

\* "Partial applies cannot leave the DB half-migrated": whoever fails where,
\* what is there and was not made by hand is recorded, and what is recorded
\* is there.
NeverHalfMigrated == present = recorded \cup byHand

\* The rows are the first migrations of the list, without a gap, although
\* servers of different releases work on it at the same time.
RecordedInOrder == \E n \in 0..NumFiles : recorded = 1..n

\* No migration is committed twice: a server that read the rows before another
\* one wrote its own fails rather than run a body again.
AppliedOnce == \A f \in Files : bodies[f] <= 1 /\ (bodies[f] = 1 <=> f \in recorded)

\* A server that came up finds every migration of the list it made.
UpMeansMigrated == \A s \in Servers : pc[s] = "up" => 1..files[s] \subseteq recorded

\* The servers get in each other's way, and each failure costs one of them a
\* restart; sooner or later all are up whose lists hold no file with an error,
\* unless somebody made by hand what a plain migration makes.
AllComeUp ==
  (byHand \cap Plain = {}) =>
    []<>(\A s \in Servers : 1..Release[s] \cap broken = {} => pc[s] = "up")

=============================================================================
