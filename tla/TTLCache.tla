------------------------------ MODULE TTLCache ------------------------------
(***************************************************************************)
(* The resource metadata cache of the Python package: get_or_fetch as a    *)
(* coroutine per call, on one event loop.  A step of the model runs from   *)
(* one suspension point to the next, so what lies between two awaits is    *)
(* atomic; an asyncio.Lock that is free is taken without suspending.       *)
(*                                                                         *)
(* An operator named Mutant... is no part of the specification: it is the  *)
(* definition after it with a plausible bug, which some property has to    *)
(* tell from the code.                                                     *)
(***************************************************************************)
EXTENDS Naturals, Sequences, SequencesExt

CONSTANTS
  Tasks,    \* calls of get_or_fetch, each made once
  Keys,     \* cache keys
  KeyOf,    \* the key of each call
  None,     \* no task
  Cancels   \* a caller may be cancelled where it is suspended

ASSUME TaskAssumption ==
  /\ KeyOf \in [Tasks -> Keys] /\ None \notin Tasks
  /\ Cancels \in BOOLEAN

VARIABLES
  store,     \* keys with an entry younger than the TTL
  inFlight,  \* _in_flight: the task that created the future of a key, or None
  future,    \* the future each task creates: "pending" until it is settled
  holder,    \* the task suspended inside "async with self._lock", or None
  queue,     \* the tasks suspended at "async with self._lock", first in first out
  pc         \* what each task is suspended at: its fetcher ("fetch"), another
             \* task's future ("await"), or the lock on its way to the dedupe
             \* ("enter"), to publish a value or to give up after a failure

vars == <<store, inFlight, future, holder, queue, pc>>

-----------------------------------------------------------------------------
Waiting == {"enter", "publish", "abandon"}
Settled == {"result", "exception", "cancelled"}

Init ==
  /\ store = {}
  /\ inFlight = [k \in Keys |-> None]
  /\ future = [t \in Tasks |-> "none"]
  /\ holder = None /\ queue = <<>>
  /\ pc = [t \in Tasks |-> "idle"]

Goto(t, step) == pc' = [pc EXCEPT ![t] = step]
\* set_result and set_exception are skipped on a future that is done.
Settle(t, outcome) ==
  future' = [future EXCEPT ![t] = IF @ = "pending" THEN outcome ELSE @]
Pop(k) == inFlight' = [inFlight EXCEPT ![k] = None]

-----------------------------------------------------------------------------
(* The three bodies of "async with self._lock".                            *)

\* Nobody looks for a fetch under way.
MutantDedupe(t) ==
  /\ inFlight' = [inFlight EXCEPT ![KeyOf[t]] = t]
  /\ future' = [future EXCEPT ![t] = "pending"]
  /\ Goto(t, "fetch")
  /\ UNCHANGED <<store, holder>>

\* With a fetch under way the task awaits its future, and keeps the lock.
Dedupe(t) ==
  LET k == KeyOf[t] IN
  \/ /\ inFlight[k] # None
     /\ holder' = t /\ Goto(t, "await")
     /\ UNCHANGED <<store, inFlight, future>>
  \/ /\ inFlight[k] = None
     /\ inFlight' = [inFlight EXCEPT ![k] = t]
     /\ future' = [future EXCEPT ![t] = "pending"]
     /\ Goto(t, "fetch")
     /\ UNCHANGED <<store, holder>>

\* The entry of _in_flight is left behind.
MutantPublish(t) ==
  /\ store' = store \cup {KeyOf[t]}
  /\ Settle(t, "result")
  /\ Goto(t, "done")
  /\ UNCHANGED <<inFlight, holder>>

Publish(t) ==
  /\ store' = store \cup {KeyOf[t]}
  /\ Pop(KeyOf[t]) /\ Settle(t, "result")
  /\ Goto(t, "done")
  /\ UNCHANGED holder

\* The lock is not given up on the error path.
MutantAbandon(t) ==
  /\ Pop(KeyOf[t]) /\ Settle(t, "exception")
  /\ Goto(t, "done")
  /\ holder' = t
  /\ UNCHANGED store

Abandon(t) ==
  /\ Pop(KeyOf[t]) /\ Settle(t, "exception")
  /\ Goto(t, "done")
  /\ UNCHANGED <<store, holder>>

Body(t, step) ==
  CASE step = "enter"   -> Dedupe(t)
    [] step = "publish" -> Publish(t)
    [] step = "abandon" -> Abandon(t)

\* async with self._lock: a free lock nobody queues for is taken at once.
WithLock(t, step) ==
  IF holder = None /\ queue = <<>>
    THEN Body(t, step) /\ UNCHANGED queue
    ELSE /\ queue' = Append(queue, t) /\ Goto(t, step)
         /\ UNCHANGED <<store, inFlight, future, holder>>

-----------------------------------------------------------------------------
\* The fast path reads the store without the lock.
Get(t) ==
  /\ pc[t] = "idle"
  /\ IF KeyOf[t] \in store
       THEN Goto(t, "done") /\ UNCHANGED <<store, inFlight, future, holder, queue>>
       ELSE WithLock(t, "enter")

\* The lock is handed to the task that has waited longest.
Acquire(t) ==
  /\ holder = None
  /\ queue # <<>> /\ Head(queue) = t
  /\ queue' = Tail(queue)
  /\ Body(t, pc[t])

FetcherReturns(t) == pc[t] = "fetch" /\ WithLock(t, "publish")
FetcherRaises(t)  == pc[t] = "fetch" /\ WithLock(t, "abandon")

\* The awaited future is settled: return its value or raise its exception.
\* It still is the one in _in_flight, which changes only under the lock.  (To
\* await a future that is done already is a step of its own here.)
AwaitEnds(t) ==
  /\ pc[t] = "await" /\ future[inFlight[KeyOf[t]]] \in Settled
  /\ holder' = None /\ Goto(t, "done")
  /\ UNCHANGED <<store, inFlight, future, queue>>

\* CancelledError is no Exception: the fetching task leaves its entry and its
\* pending future behind.  Cancelling a task that awaits a future cancels the
\* future, which all others share.
Cancel(t) ==
  /\ Cancels
  /\ \/ /\ pc[t] = "fetch" /\ Goto(t, "done")
        /\ UNCHANGED <<store, inFlight, future, holder, queue>>
     \/ /\ pc[t] \in Waiting /\ Goto(t, "done")
        /\ \E i \in DOMAIN queue : queue[i] = t /\ queue' = RemoveAt(queue, i)
        /\ UNCHANGED <<store, inFlight, future, holder>>
     \/ /\ pc[t] = "await"
        /\ holder' = None /\ Goto(t, "done")
        /\ future' = [u \in Tasks |-> IF u = inFlight[KeyOf[t]] /\ future[u] = "pending"
                                      THEN "cancelled" ELSE future[u]]
        /\ UNCHANGED <<store, inFlight, queue>>

\* invalidate(k), or the entry outlives its TTL.
Drop(k) ==
  /\ k \in store
  /\ store' = store \ {k}
  /\ UNCHANGED <<inFlight, future, holder, queue, pc>>

Run(t) == Acquire(t) \/ FetcherReturns(t) \/ FetcherRaises(t) \/ AwaitEnds(t)

Next ==
  \/ \E t \in Tasks : Get(t) \/ Run(t) \/ Cancel(t)
  \/ \E k \in Keys : Drop(k)

Spec == Init /\ [][Next]_vars

\* The loop runs what is ready, and every fetcher comes to an end.
FairSpec == Spec /\ \A t \in Tasks : WF_vars(Run(t))

-----------------------------------------------------------------------------
(* Properties.                                                             *)

\* Every variable has its type, and the queue holds the tasks that wait for
\* the lock, each once.
TypeOK ==
  /\ store \subseteq Keys
  /\ inFlight \in [Keys -> Tasks \cup {None}]
  /\ future \in [Tasks -> Settled \cup {"none", "pending"}]
  /\ holder \in Tasks \cup {None} /\ queue \in Seq(Tasks)
  /\ pc \in [Tasks -> Waiting \cup {"idle", "fetch", "await", "done"}]
  /\ IsInjective(queue) /\ ToSet(queue) = {t \in Tasks : pc[t] \in Waiting}

\* However calls are cancelled, fail and join each other, a resource is
\* fetched by one task at a time: the API quota is spent once.
SingleFetch ==
  \A t, u \in Tasks :
    pc[t] = "fetch" /\ pc[u] = "fetch" /\ KeyOf[t] = KeyOf[u] => t = u

\* What a newcomer finds in _in_flight never carries a value: a value is
\* published to the store and taken out of _in_flight in one step.
NoStaleFuture ==
  \A k \in Keys : inFlight[k] # None => future[inFlight[k]] \in {"pending", "cancelled"}

\* Every call returns or raises, unless some call waits for ever for the fetch
\* of another: no failure and no cancellation leaves the lock taken.
GetEnds ==
  (\A t \in Tasks : []<>(pc[t] # "await")) =>
    \A t \in Tasks : (pc[t] # "idle") ~> (pc[t] = "done")

=============================================================================
