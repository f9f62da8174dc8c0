--------------------------- MODULE WorkerLifecycle ---------------------------
(***************************************************************************)
(* Start and Stop of the polling worker, called from any goroutine, and    *)
(* the loops they launch and wait for, over the alerts table.  Start and   *)
(* Stop hold w.lifecycle from their first line to their return; Stop waits *)
(* for the loop while holding it.  The context given to Start may end on   *)
(* its own, without Stop.                                                  *)
(***************************************************************************)
EXTENDS AlertTable

CONSTANTS
  Callers,   \* goroutines that start and stop the worker
  Free,      \* nobody holds the lock
  Loops,     \* goroutines of Run: names, used again when one has returned
  NoLoop     \* w.cancel = nil

ASSUME CallerAssumption == Free \notin Callers
ASSUME LoopAssumption == NoLoop \notin Loops

VARIABLES
  lifecycle, \* the holder of the mutex between two steps
  cancel,    \* the loop whose context w.cancel ends, or NoLoop
  call,      \* each caller: in no call, about to lock, or in wg.Wait()
  loop,      \* each goroutine: "none", waiting to "poll", or in the "mark" loop
  todo,      \* the rows it selected and has not come to yet
  runCtx,    \* its context: "live" or "done"
  \* history
  stopped    \* a Stop has returned, and no Start has launched a loop since

control == <<lifecycle, cancel, call, stopped>>
loops   == <<loop, todo, runCtx>>
all     == <<alerts, control, loops>>

\* The wait group counts them.
Running == {l \in Loops : loop[l] # "none"}

-----------------------------------------------------------------------------
LifecycleInit ==
  /\ TableInit
  /\ lifecycle = Free /\ cancel = NoLoop /\ stopped = FALSE
  /\ call = [c \in Callers |-> "idle"]
  /\ loop = [l \in Loops |-> "none"]
  /\ todo = [l \in Loops |-> {}]
  /\ runCtx = [l \in Loops |-> "done"]

Call(c, op) ==
  /\ call[c] = "idle"
  /\ call' = [call EXCEPT ![c] = op]
  /\ UNCHANGED <<alerts, loops, lifecycle, cancel, stopped>>

\* The context given to Start may have ended before.
Launch ==
  \E l \in Loops \ Running, state \in {"live", "done"} :
    /\ cancel' = l /\ stopped' = FALSE
    /\ loop' = [loop EXCEPT ![l] = "poll"]
    /\ runCtx' = [runCtx EXCEPT ![l] = state]
    /\ UNCHANGED todo

\* The second Start looks for a loop that has not been told to end, not at
\* w.cancel.
MutantStartWorker(c) ==
  /\ call[c] = "start" /\ lifecycle = Free
  /\ IF cancel # NoLoop /\ runCtx[cancel] = "live"
       THEN UNCHANGED <<cancel, stopped, loops>> ELSE Launch
  /\ call' = [call EXCEPT ![c] = "idle"]
  /\ UNCHANGED <<alerts, lifecycle>>

\* As long as w.cancel is set, Start does nothing and returns nil, also when
\* the loop it belongs to has ended.
StartWorker(c) ==
  /\ call[c] = "start" /\ lifecycle = Free
  /\ IF cancel # NoLoop THEN UNCHANGED <<cancel, stopped, loops>> ELSE Launch
  /\ call' = [call EXCEPT ![c] = "idle"]
  /\ UNCHANGED <<alerts, lifecycle>>

\* Stop takes w.cancel and gives the lock up before it waits.
MutantStopUnlocked(c) ==
  /\ call[c] = "stop" /\ lifecycle = Free
  /\ IF cancel # NoLoop
       THEN /\ runCtx' = [runCtx EXCEPT ![cancel] = "done"] /\ cancel' = NoLoop
            /\ call' = [call EXCEPT ![c] = "wait"] /\ UNCHANGED stopped
       ELSE /\ call' = [call EXCEPT ![c] = "idle"] /\ stopped' = TRUE
            /\ UNCHANGED <<runCtx, cancel>>
  /\ UNCHANGED <<alerts, lifecycle, loop, todo>>

\* Stop waits without having called w.cancel().
MutantStopUncancelled(c) ==
  /\ call[c] = "stop" /\ lifecycle = Free
  /\ IF cancel # NoLoop
       THEN /\ lifecycle' = c /\ call' = [call EXCEPT ![c] = "wait"]
            /\ UNCHANGED stopped
       ELSE /\ call' = [call EXCEPT ![c] = "idle"] /\ stopped' = TRUE
            /\ UNCHANGED lifecycle
  /\ UNCHANGED <<alerts, cancel, loops>>

\* Stop cancels, and keeps the lock for the wait.
StopWorker(c) ==
  /\ call[c] = "stop" /\ lifecycle = Free
  /\ IF cancel # NoLoop
       THEN /\ runCtx' = [runCtx EXCEPT ![cancel] = "done"]
            /\ lifecycle' = c /\ call' = [call EXCEPT ![c] = "wait"]
            /\ UNCHANGED stopped
       ELSE /\ call' = [call EXCEPT ![c] = "idle"] /\ stopped' = TRUE
            /\ UNCHANGED <<runCtx, lifecycle>>
  /\ UNCHANGED <<alerts, cancel, loop, todo>>

\* Stop does not wait for the loop it has cancelled.
MutantWaitReturns(c) ==
  /\ call[c] = "wait"
  /\ cancel' = NoLoop /\ lifecycle' = Free /\ stopped' = TRUE
  /\ call' = [call EXCEPT ![c] = "idle"]
  /\ UNCHANGED <<alerts, loops>>

WaitReturns(c) ==
  /\ call[c] = "wait" /\ Running = {}
  /\ cancel' = NoLoop /\ lifecycle' = Free /\ stopped' = TRUE
  /\ call' = [call EXCEPT ![c] = "idle"]
  /\ UNCHANGED <<alerts, loops>>

\* The context given to Start ends from outside.
ContextEnds(l) ==
  /\ runCtx[l] = "live"
  /\ runCtx' = [runCtx EXCEPT ![l] = "done"]
  /\ UNCHANGED <<alerts, control, loop, todo>>

\* Under a context that has not ended the loop polls, ...
Poll(l) ==
  /\ loop[l] = "poll"
  /\ loop' = [loop EXCEPT ![l] = "mark"]
  /\ todo' = [todo EXCEPT ![l] = Unanalyzed]
  /\ UNCHANGED alerts

\* ... marks the rows one after the other, errors or not, ...
Mark(l) ==
  /\ loop[l] = "mark"
  /\ \E i \in Rows : /\ IsNext(i, todo[l]) /\ MarkRow(i)
                     /\ todo' = [todo EXCEPT ![l] = @ \ {i}]
  /\ UNCHANGED loop

\* ... writes its heartbeat and waits for the timer.
Heartbeat(l) ==
  /\ loop[l] = "mark" /\ todo[l] = {}
  /\ loop' = [loop EXCEPT ![l] = "poll"]
  /\ UNCHANGED <<alerts, todo>>

Cycle(l) ==
  /\ runCtx[l] = "live"
  /\ Poll(l) \/ Mark(l) \/ Heartbeat(l)
  /\ UNCHANGED <<runCtx, control>>

\* The loop sees that its context has ended: before a cycle, in the wait,
\* between two rows, or because the statement it waits for fails.
LoopReturns(l) ==
  /\ runCtx[l] = "done" /\ loop[l] # "none"
  /\ LeaveRows(todo[l])
  /\ loop' = [loop EXCEPT ![l] = "none"]
  /\ todo' = [todo EXCEPT ![l] = {}]
  /\ UNCHANGED <<runCtx, control>>

Locked(c) == StartWorker(c) \/ StopWorker(c)

LifecycleNext ==
  \/ \E c \in Callers : \/ Call(c, "start") \/ Call(c, "stop")
                        \/ Locked(c) \/ WaitReturns(c)
  \/ \E l \in Loops : ContextEnds(l) \/ Cycle(l) \/ LoopReturns(l)
  \/ Others /\ UNCHANGED <<control, loops>>

LifecycleSpec == LifecycleInit /\ [][LifecycleNext]_all

\* The loop is scheduled and its timer fires; a mutex of Go hands over to the
\* goroutine that has waited longest, so that nobody waits for it forever.
LifecycleFairSpec ==
  /\ LifecycleSpec
  /\ \A l \in Loops : WF_all(Cycle(l)) /\ WF_all(LoopReturns(l))
  /\ \A c \in Callers : SF_all(Locked(c)) /\ WF_all(WaitReturns(c))

-----------------------------------------------------------------------------
\* What the other parties see of the loops.
WorkerPc ==
  IF \E l \in Loops : loop[l] = "mark" THEN "mark"
  ELSE IF Running # {} THEN "poll" ELSE "stopped"
WorkerBatch == UNION {todo[l] : l \in Loops}

Pipeline == INSTANCE AlertPipeline WITH wpc <- WorkerPc, batch <- WorkerBatch

-----------------------------------------------------------------------------
(* Properties.                                                             *)

\* The variables of the lifecycle have their types.
LifecycleTypeOK ==
  /\ TableTypeOK
  /\ lifecycle \in Callers \cup {Free} /\ cancel \in Loops \cup {NoLoop}
  /\ call \in [Callers -> {"idle", "start", "stop", "wait"}]
  /\ loop \in [Loops -> {"none", "poll", "mark"}]
  /\ todo \in [Loops -> SUBSET Present]
  /\ runCtx \in [Loops -> {"live", "done"}]
  /\ stopped \in BOOLEAN

\* However Start, Stop and the ends of contexts fall together, two loops
\* never poll at the same time.
OneLoop == \A l, k \in Running : l = k

\* From the return of a Stop, be it one that found nothing to stop, until the
\* next loop is launched, no loop runs: nothing is queried or sent any more.
\* What a loop had sent when its context ended may still take effect, which
\* is LateMark.
StopJoins == stopped => Running = {}

\* Stop waits for the loop with the mutex in its hand, and still every call
\* comes back, of whoever else is waiting for it too.
CallsEnd == \A c \in Callers : (call[c] \in {"start", "stop", "wait"}) ~> (call[c] = "idle")

\* The loops of a worker's whole life, taken together, are one worker that
\* polls, marks, stops anywhere and starts again: a cycle never begins, goes
\* on or ends beside another one.  What AlertPipeline says of that worker
\* holds for them.
AlertSpec == Pipeline!Spec

Unprocessed(i) == status[i] \notin {"absent", "analyzed"}
Ahead(i)       == {j \in Rows : Unprocessed(j) /\ Newer(j, i)}
MoreAhead(i)   == \E j \in Rows : ~Unprocessed(j) /\ (Unprocessed(j) /\ Newer(j, i))'

\* Under a worker that is at last left running, an alert stays unprocessed
\* for one reason only: BatchSize newer ones are ahead of it again and again,
\* and others keep joining them, pushed by CMS or put back by an operator.
\* When these run dry, every alert is processed, the oldest too.
RunningWorkerDrains ==
  <>[](\E l \in Running : runCtx[l] = "live") =>
    \A i \in Rows : <>[]Unprocessed(i) =>
      /\ []<>(Cardinality(Ahead(i)) >= BatchSize)
      /\ []<><<MoreAhead(i)>>_all

=============================================================================
