--------------------------- MODULE TTLCacheProofs ---------------------------
(***************************************************************************)
(* Proofs about TTLCache, for any calls and keys.                          *)
(***************************************************************************)
EXTENDS TTLCache, SequenceTheorems, TLAPS

\* A task between its entry in _in_flight and the removal of it.
Fetching(t) == pc[t] \in {"fetch", "publish", "abandon"}

\* The entry of a key is that of the task that fetches it, and an entry is
\* always of a task of its key, whose future has no value.
Owned  == \A t \in Tasks : Fetching(t) => inFlight[KeyOf[t]] = t
OfKey  == \A k \in Keys : inFlight[k] # None => KeyOf[inFlight[k]] = k

IInv == TypeOK /\ Owned /\ OfKey /\ NoStaleFuture

-----------------------------------------------------------------------------
(* The queue as a sequence.                                                *)

QueueTypes == queue \in Seq(Tasks) /\ IsInjective(queue)

LEMMA AppendFact ==
  ASSUME QueueTypes, NEW t \in Tasks, t \notin ToSet(queue)
  PROVE  /\ Append(queue, t) \in Seq(Tasks) /\ IsInjective(Append(queue, t))
         /\ ToSet(Append(queue, t)) = ToSet(queue) \cup {t}
<1> DEFINE q == Append(queue, t)
<1>1. /\ q \in Seq(Tasks) /\ DOMAIN q = DOMAIN queue \cup {Len(queue) + 1}
      /\ q[Len(queue) + 1] = t /\ \A i \in DOMAIN queue : q[i] = queue[i]
  BY DEF QueueTypes
<1>2. IsInjective(q)
  BY <1>1 DEF QueueTypes, IsInjective, ToSet
<1>3. ToSet(q) = ToSet(queue) \cup {t}
  BY <1>1 DEF ToSet
<1> QED
  BY <1>1, <1>2, <1>3

LEMMA TailFact ==
  ASSUME QueueTypes, queue # <<>>
  PROVE  /\ Tail(queue) \in Seq(Tasks) /\ IsInjective(Tail(queue))
         /\ Head(queue) \in ToSet(queue)
         /\ ToSet(Tail(queue)) = ToSet(queue) \ {Head(queue)}
<1> DEFINE q == Tail(queue)
<1>1. /\ q \in Seq(Tasks) /\ Len(queue) \in Nat \ {0} /\ DOMAIN queue = 1..Len(queue)
      /\ DOMAIN q = 1..(Len(queue) - 1) /\ Head(queue) = queue[1]
      /\ \A i \in 1..(Len(queue) - 1) : q[i] = queue[i + 1]
  BY DEF QueueTypes
<1>2. IsInjective(q)
  BY <1>1 DEF QueueTypes, IsInjective
<1>3. ToSet(q) \subseteq ToSet(queue) \ {queue[1]}
  BY <1>1 DEF QueueTypes, IsInjective, ToSet
<1>4. ASSUME NEW x \in ToSet(queue) \ {queue[1]} PROVE x \in ToSet(q)
  <2>1. PICK i \in 1..Len(queue) : x = queue[i] /\ i # 1
    BY <1>1, <1>4 DEF ToSet
  <2>2. i - 1 \in 1..(Len(queue) - 1) /\ q[i - 1] = x
    BY <1>1, <2>1
  <2> QED
    BY <1>1, <2>2 DEF ToSet
<1>5. Head(queue) \in ToSet(queue)
  BY <1>1 DEF ToSet
<1>6. ToSet(q) = ToSet(queue) \ {Head(queue)}
  BY <1>1, <1>3, <1>4
<1> QED
  BY <1>1, <1>2, <1>5, <1>6

\* The elements of a concatenation behind the first sequence.
LEMMA SecondPart ==
  ASSUME NEW S, NEW s \in Seq(S), NEW t \in Seq(S),
         NEW m \in (Len(s) + 1)..(Len(s) + Len(t))
  PROVE  (s \o t)[m] = t[m - Len(s)]
<1>1. Len(s) \in Nat /\ Len(t) \in Nat
  OBVIOUS
<1>2. m \in 1..(Len(s) + Len(t)) /\ ~(m <= Len(s))
  BY <1>1
<1> QED
  BY <1>2, ConcatProperties

LEMMA RemoveAtFact ==
  ASSUME QueueTypes, NEW i \in DOMAIN queue
  PROVE  /\ RemoveAt(queue, i) \in Seq(Tasks) /\ IsInjective(RemoveAt(queue, i))
         /\ ToSet(RemoveAt(queue, i)) = ToSet(queue) \ {queue[i]}
<1> DEFINE n == Len(queue)
           a == SubSeq(queue, 1, i - 1)
           b == SubSeq(queue, i + 1, n)
           q == a \o b
<1>0. n \in Nat /\ i \in 1..n /\ DOMAIN queue = 1..n
  BY DEF QueueTypes
<1>1. /\ a \in Seq(Tasks) /\ Len(a) = i - 1 /\ \A j \in 1..(i - 1) : a[j] = queue[j]
  BY <1>0 DEF QueueTypes
<1>2. /\ b \in Seq(Tasks) /\ Len(b) = n - i /\ \A j \in 1..(n - i) : b[j] = queue[i + j]
  BY <1>0 DEF QueueTypes
<1> HIDE DEF a, b
<1>3. /\ q \in Seq(Tasks) /\ Len(q) = n - 1 /\ DOMAIN q = 1..(n - 1)
      /\ \A j \in 1..(n - 1) : q[j] = IF j < i THEN queue[j] ELSE queue[j + 1]
  <2>0. i - 1 \in Nat /\ n - i \in Nat /\ (i - 1) + (n - i) = n - 1 /\ n - 1 \in Nat
    BY <1>0
  <2>1. q \in Seq(Tasks) /\ Len(q) = n - 1
    <3>1. q \in Seq(Tasks) /\ Len(q) = Len(a) + Len(b)
      BY <1>1, <1>2, ConcatProperties
    <3> QED
      BY <1>1, <1>2, <2>0, <3>1
  <2>2. ASSUME NEW j \in 1..(n - 1), j < i PROVE q[j] = queue[j]
    <3>1. j \in 1..(i - 1) /\ q[j] = a[j]
      BY <1>0, <1>1, <1>2, <2>0, <2>2, ConcatProperties
    <3> QED
      BY <1>1, <3>1
  <2>3. ASSUME NEW j \in 1..(n - 1), ~(j < i) PROVE q[j] = queue[j + 1]
    <3> DEFINE k == j - (i - 1)
    <3>1. /\ k \in 1..(n - i) /\ i + k = j + 1
          /\ j \in Int /\ (i - 1) + 1 <= j /\ j <= (i - 1) + (n - i)
      BY <1>0, <2>0, <2>3
    <3>2. \A m \in (Len(a) + 1)..(Len(a) + Len(b)) : (a \o b)[m] = b[m - Len(a)]
      BY <1>1, <1>2, SecondPart
    <3>3. \A m \in ((i - 1) + 1)..((i - 1) + (n - i)) : q[m] = b[m - (i - 1)]
      BY <1>1, <1>2, <3>2
    <3>4. j \in ((i - 1) + 1)..((i - 1) + (n - i))
      BY <1>0, <2>0, <3>1
    <3>5. q[j] = b[k]
      BY <3>3, <3>4
    <3> HIDE DEF k
    <3>6. b[k] = queue[i + k]
      BY <1>2, <3>1
    <3> QED
      BY <3>1, <3>5, <3>6
  <2>4. DOMAIN q = 1..(n - 1)
    BY <2>1
  <2> QED
    BY <2>1, <2>2, <2>3, <2>4
<1> HIDE DEF q
<1>4. IsInjective(q)
  <2> DEFINE At(j) == IF j < i THEN j ELSE j + 1
  <2>1. ASSUME NEW j \in 1..(n - 1) PROVE At(j) \in DOMAIN queue /\ q[j] = queue[At(j)]
    BY <1>0, <1>3
  <2>2. ASSUME NEW j \in 1..(n - 1), NEW k \in 1..(n - 1), At(j) = At(k) PROVE j = k
    BY <1>0, <2>2
  <2> HIDE DEF At
  <2>3. ASSUME NEW j \in 1..(n - 1), NEW k \in 1..(n - 1), q[j] = q[k] PROVE j = k
    <3>1. At(j) = At(k)
      BY <2>1, <2>3 DEF QueueTypes, IsInjective
    <3> QED
      BY <2>2, <3>1
  <2> QED
    BY <1>3, <2>3 DEF IsInjective
<1>5. ToSet(q) \subseteq ToSet(queue) \ {queue[i]}
  <2> SUFFICES ASSUME NEW j \in 1..(n - 1) PROVE q[j] \in ToSet(queue) \ {queue[i]}
    BY <1>3 DEF ToSet
  <2>1. CASE j < i
    BY <1>0, <1>3, <2>1 DEF QueueTypes, IsInjective, ToSet
  <2>2. CASE ~(j < i)
    BY <1>0, <1>3, <2>2 DEF QueueTypes, IsInjective, ToSet
  <2> QED
    BY <2>1, <2>2
<1>6. ASSUME NEW x \in ToSet(queue) \ {queue[i]} PROVE x \in ToSet(q)
  <2>1. PICK j \in 1..n : x = queue[j] /\ j # i
    BY <1>0, <1>6 DEF ToSet
  <2>2. CASE j < i
    BY <1>0, <1>3, <2>1, <2>2 DEF ToSet
  <2>3. CASE j > i
    <3>1. j - 1 \in 1..(n - 1) /\ q[j - 1] = x
      BY <1>0, <1>3, <2>1, <2>3
    <3> QED
      BY <1>3, <3>1 DEF ToSet
  <2> QED
    BY <1>0, <2>1, <2>2, <2>3
<1> QED
  BY <1>3, <1>4, <1>5, <1>6 DEF RemoveAt, q, a, b

-----------------------------------------------------------------------------
LEMMA InitIInv == Init => IInv
<1> SUFFICES ASSUME Init PROVE IInv
  OBVIOUS
<1>1. TypeOK
  <2>1. IsInjective(queue) /\ ToSet(queue) = {}
    BY DEF Init, IsInjective, ToSet
  <2> QED
    BY <2>1 DEF Init, TypeOK, Waiting, Settled
<1>2. Owned /\ OfKey /\ NoStaleFuture
  BY TaskAssumption DEF Init, Owned, OfKey, NoStaleFuture, Fetching
<1> QED
  BY <1>1, <1>2 DEF IInv

\* What a body of the lock leaves of the invariant, by whichever way the task
\* got the lock: it is not in the queue any more, and waits no longer.
BodyPost(t) ==
  /\ store' \subseteq Keys
  /\ inFlight' \in [Keys -> Tasks \cup {None}]
  /\ future' \in [Tasks -> Settled \cup {"none", "pending"}]
  /\ holder' \in Tasks \cup {None}
  /\ \E step \in {"fetch", "await", "done"} : pc' = [pc EXCEPT ![t] = step]
  /\ Owned' /\ OfKey' /\ NoStaleFuture'

LEMMA DedupePost ==
  ASSUME IInv, NEW t \in Tasks, pc[t] \in {"idle", "enter"}, Dedupe(t)
  PROVE  BodyPost(t)
<1> DEFINE k == KeyOf[t]
<1>0. TypeOK /\ k \in Keys /\ None \notin Tasks
  BY TaskAssumption DEF IInv
<1>1. CASE inFlight[k] # None
  <2>1. /\ holder' = t /\ pc' = [pc EXCEPT ![t] = "await"]
        /\ UNCHANGED <<store, inFlight, future>>
    BY <1>1 DEF Dedupe, Goto
  <2>2. Owned' /\ OfKey' /\ NoStaleFuture'
    BY <1>0, <2>1 DEF IInv, TypeOK, Owned, OfKey, NoStaleFuture, Fetching
  <2> QED
    BY <1>0, <2>1, <2>2 DEF BodyPost, TypeOK
<1>2. CASE inFlight[k] = None
  <2>1. /\ inFlight' = [inFlight EXCEPT ![k] = t]
        /\ future' = [future EXCEPT ![t] = "pending"]
        /\ pc' = [pc EXCEPT ![t] = "fetch"] /\ UNCHANGED <<store, holder>>
    BY <1>2 DEF Dedupe, Goto
  <2>2. Owned'
    <3>1. ASSUME NEW u \in Tasks \ {t}, Fetching(u) PROVE KeyOf[u] # k
      BY <1>0, <1>2, <3>1 DEF IInv, Owned
    <3> QED
      BY <1>0, <2>1, <3>1, TaskAssumption DEF IInv, TypeOK, Owned, Fetching
  <2>3. OfKey' /\ NoStaleFuture'
    <3>1. \A h \in Keys \ {k} : inFlight[h] # t
      BY <1>0 DEF IInv, OfKey
    <3> QED
      BY <1>0, <2>1, <3>1 DEF IInv, TypeOK, OfKey, NoStaleFuture
  <2> QED
    BY <1>0, <2>1, <2>2, <2>3 DEF BodyPost, TypeOK
<1> QED
  BY <1>1, <1>2

\* The fetch of a key ends, well or badly: its entry goes, and nobody else
\* holds one of that key or shares its future.
LEMMA EndOfFetchPost ==
  ASSUME IInv, NEW t \in Tasks, Fetching(t), Publish(t) \/ Abandon(t)
  PROVE  BodyPost(t)
<1> DEFINE k == KeyOf[t]
<1>0. TypeOK /\ k \in Keys /\ None \notin Tasks /\ inFlight[k] = t
  BY TaskAssumption DEF IInv, Owned
<1>1. /\ store' \in {store, store \cup {k}} /\ holder' = holder
      /\ inFlight' = [inFlight EXCEPT ![k] = None]
      /\ pc' = [pc EXCEPT ![t] = "done"]
      /\ \E o \in {"result", "exception"} :
           future' = [future EXCEPT ![t] = IF future[t] = "pending" THEN o ELSE future[t]]
  BY DEF Publish, Abandon, Pop, Settle, Goto
<1>2. future' \in [Tasks -> Settled \cup {"none", "pending"}]
  BY <1>0, <1>1 DEF TypeOK, Settled
<1>3. Owned'
  <2>1. ASSUME NEW u \in Tasks \ {t}, Fetching(u) PROVE KeyOf[u] # k
    BY <1>0, <2>1 DEF IInv, Owned
  <2> QED
    BY <1>0, <1>1, <2>1, TaskAssumption DEF IInv, TypeOK, Owned, Fetching
<1>4. OfKey' /\ NoStaleFuture'
  <2>1. \A h \in Keys \ {k} : inFlight[h] # t
    BY <1>0 DEF IInv, OfKey
  <2>2. \A u \in Tasks \ {t} : future'[u] = future[u]
    BY <1>0, <1>1 DEF TypeOK
  <2> QED
    BY <1>0, <1>1, <2>1, <2>2 DEF IInv, TypeOK, OfKey, NoStaleFuture
<1> QED
  BY <1>0, <1>1, <1>2, <1>3, <1>4 DEF BodyPost, TypeOK

\* After a body the queue and the tasks that wait agree again.
LEMMA BodyIInv ==
  ASSUME IInv, NEW t \in Tasks, BodyPost(t), queue' \in Seq(Tasks),
         IsInjective(queue'), ToSet(queue') = ToSet(queue) \ {t}
  PROVE  IInv'
<1>1. PICK step \in {"fetch", "await", "done"} : pc' = [pc EXCEPT ![t] = step]
  BY DEF BodyPost
<1>2. pc' \in [Tasks -> Waiting \cup {"idle", "fetch", "await", "done"}]
  BY <1>1 DEF IInv, TypeOK
<1>3. ToSet(queue') = {u \in Tasks : pc'[u] \in Waiting}
  BY <1>1 DEF IInv, TypeOK, Waiting
<1> QED
  BY <1>2, <1>3 DEF IInv, TypeOK, BodyPost

\* A task that asks for the lock gets it at once or joins the queue.
LEMMA WithLockIInv ==
  ASSUME IInv, NEW t \in Tasks, NEW step \in Waiting, WithLock(t, step),
         \/ step = "enter" /\ pc[t] = "idle"
         \/ step \in {"publish", "abandon"} /\ pc[t] = "fetch"
  PROVE  IInv'
<1>0. QueueTypes /\ t \notin ToSet(queue)
  BY DEF IInv, TypeOK, QueueTypes, Waiting
<1>1. CASE holder = None /\ queue = <<>>
  <2>1. Body(t, step) /\ queue' = queue
    BY <1>1 DEF WithLock
  <2>2. BodyPost(t)
    <3>1. CASE step = "enter"
      BY <2>1, <3>1, DedupePost DEF Body
    <3>2. CASE step \in {"publish", "abandon"}
      BY <2>1, <3>2, EndOfFetchPost DEF Body, Fetching
    <3> QED
      BY <3>1, <3>2 DEF Waiting
  <2> QED
    BY <1>0, <2>1, <2>2, BodyIInv DEF QueueTypes
<1>2. CASE ~(holder = None /\ queue = <<>>)
  <2>1. /\ queue' = Append(queue, t) /\ pc' = [pc EXCEPT ![t] = step]
        /\ UNCHANGED <<store, inFlight, future, holder>>
    BY <1>2 DEF WithLock, Goto
  <2>2. pc' \in [Tasks -> Waiting \cup {"idle", "fetch", "await", "done"}]
    BY <2>1 DEF IInv, TypeOK
  <2>3. /\ queue' \in Seq(Tasks) /\ IsInjective(queue')
        /\ ToSet(queue') = ToSet(queue) \cup {t}
    BY <1>0, <2>1, AppendFact
  <2>4. ToSet(queue') = {u \in Tasks : pc'[u] \in Waiting}
    BY <2>1, <2>3 DEF IInv, TypeOK
  <2>5. TypeOK'
    BY <2>1, <2>2, <2>3, <2>4 DEF IInv, TypeOK
  <2>6. Owned' /\ OfKey' /\ NoStaleFuture'
    BY <2>1 DEF IInv, TypeOK, Owned, OfKey, NoStaleFuture, Fetching
  <2> QED
    BY <2>5, <2>6 DEF IInv
<1> QED
  BY <1>1, <1>2

LEMMA GetIInv == ASSUME IInv, NEW t \in Tasks, Get(t) PROVE IInv'
<1>1. CASE KeyOf[t] \in store
  <2>1. /\ pc' = [pc EXCEPT ![t] = "done"] /\ pc[t] = "idle"
        /\ UNCHANGED <<store, inFlight, future, holder, queue>>
    BY <1>1 DEF Get, Goto
  <2>2. TypeOK'
    BY <2>1 DEF IInv, TypeOK, Waiting
  <2>3. Owned' /\ OfKey' /\ NoStaleFuture'
    BY <2>1 DEF IInv, TypeOK, Owned, OfKey, NoStaleFuture, Fetching
  <2> QED
    BY <2>2, <2>3 DEF IInv
<1>2. CASE KeyOf[t] \notin store
  BY <1>2, WithLockIInv DEF Get, Waiting
<1> QED
  BY <1>1, <1>2

LEMMA AcquireIInv == ASSUME IInv, NEW t \in Tasks, Acquire(t) PROVE IInv'
<1>0. QueueTypes
  BY DEF IInv, TypeOK, QueueTypes
<1>1. /\ queue # <<>> /\ t = Head(queue) /\ queue' = Tail(queue) /\ Body(t, pc[t])
  BY DEF Acquire
<1>2. /\ queue' \in Seq(Tasks) /\ IsInjective(queue') /\ t \in ToSet(queue)
      /\ ToSet(queue') = ToSet(queue) \ {t}
  BY <1>0, <1>1, TailFact
<1>3. pc[t] \in Waiting
  BY <1>2 DEF IInv, TypeOK
<1>4. BodyPost(t)
  <2>1. CASE pc[t] = "enter"
    BY <1>1, <2>1, DedupePost DEF Body
  <2>2. CASE pc[t] \in {"publish", "abandon"}
    BY <1>1, <2>2, EndOfFetchPost DEF Body, Fetching
  <2> QED
    BY <1>3, <2>1, <2>2 DEF Waiting
<1> QED
  BY <1>2, <1>4, BodyIInv

\* Whoever awaited a future leaves the lock, at most with the future cancelled.
LEMMA AwaitOverIInv ==
  ASSUME IInv, NEW t \in Tasks, pc[t] = "await", pc' = [pc EXCEPT ![t] = "done"],
         holder' = None, UNCHANGED <<store, inFlight, queue>>,
         future' \in [Tasks -> Settled \cup {"none", "pending"}],
         \A u \in Tasks : future'[u] \in {future[u], "cancelled"}
  PROVE  IInv'
<1>1. TypeOK'
  BY DEF IInv, TypeOK, Waiting
<1>2. Owned' /\ OfKey'
  BY DEF IInv, TypeOK, Owned, OfKey, Fetching
<1>3. NoStaleFuture'
  BY DEF IInv, TypeOK, NoStaleFuture
<1> QED
  BY <1>1, <1>2, <1>3 DEF IInv

LEMMA CancelIInv == ASSUME IInv, NEW t \in Tasks, Cancel(t) PROVE IInv'
<1>0. QueueTypes
  BY DEF IInv, TypeOK, QueueTypes
<1>1. CASE pc[t] \in Waiting \cup {"fetch"}
  <2>1. /\ pc' = [pc EXCEPT ![t] = "done"]
        /\ UNCHANGED <<store, inFlight, future, holder>>
    BY <1>1 DEF Cancel, Goto, Waiting
  <2>2. /\ queue' \in Seq(Tasks) /\ IsInjective(queue')
        /\ ToSet(queue') = ToSet(queue) \ {t}
    <3>1. CASE pc[t] = "fetch"
      <4>1. queue' = queue /\ t \notin ToSet(queue)
        BY <3>1 DEF Cancel, IInv, TypeOK, Waiting
      <4> QED
        BY <1>0, <4>1 DEF QueueTypes
    <3>2. CASE pc[t] \in Waiting
      <4>1. PICK i \in DOMAIN queue : queue[i] = t /\ queue' = RemoveAt(queue, i)
        BY <3>2 DEF Cancel, Waiting
      <4> QED
        BY <1>0, <4>1, RemoveAtFact
    <3> QED
      BY <1>1, <3>1, <3>2
  <2>3. TypeOK'
    <3>1. ToSet(queue') = {u \in Tasks : pc'[u] \in Waiting}
      BY <2>1, <2>2 DEF IInv, TypeOK, Waiting
    <3> QED
      BY <2>1, <2>2, <3>1 DEF IInv, TypeOK
  <2>4. Owned' /\ OfKey' /\ NoStaleFuture'
    BY <2>1 DEF IInv, TypeOK, Owned, OfKey, NoStaleFuture, Fetching
  <2> QED
    BY <2>3, <2>4 DEF IInv
<1>2. CASE pc[t] = "await"
  <2>1. /\ holder' = None /\ pc' = [pc EXCEPT ![t] = "done"]
        /\ UNCHANGED <<store, inFlight, queue>>
        /\ future' = [u \in Tasks |-> IF u = inFlight[KeyOf[t]] /\ future[u] = "pending"
                                      THEN "cancelled" ELSE future[u]]
    BY <1>2 DEF Cancel, Goto, Waiting
  <2>2. /\ future' \in [Tasks -> Settled \cup {"none", "pending"}]
        /\ \A u \in Tasks : future'[u] \in {future[u], "cancelled"}
    BY <2>1 DEF IInv, TypeOK, Settled
  <2> QED
    BY <1>2, <2>1, <2>2, AwaitOverIInv
<1> QED
  BY <1>1, <1>2 DEF Cancel

LEMMA NextIInv == IInv /\ [Next]_vars => IInv'
<1> SUFFICES ASSUME IInv, [Next]_vars PROVE IInv'
  OBVIOUS
<1>1. ASSUME NEW t \in Tasks, FetcherReturns(t) \/ FetcherRaises(t) PROVE IInv'
  BY <1>1, WithLockIInv DEF FetcherReturns, FetcherRaises, Waiting
<1>2. ASSUME NEW t \in Tasks, AwaitEnds(t) PROVE IInv'
  <2>1. /\ pc[t] = "await" /\ pc' = [pc EXCEPT ![t] = "done"] /\ holder' = None
        /\ UNCHANGED <<store, inFlight, future, queue>>
    BY <1>2 DEF AwaitEnds, Goto
  <2> QED
    BY <2>1, AwaitOverIInv DEF IInv, TypeOK
<1>3. ASSUME NEW t \in Tasks, Get(t) \/ Acquire(t) \/ Cancel(t) PROVE IInv'
  BY <1>3, GetIInv, AcquireIInv, CancelIInv
<1>4. ASSUME NEW k \in Keys, Drop(k) PROVE IInv'
  BY <1>4 DEF Drop, IInv, TypeOK, Owned, OfKey, NoStaleFuture, Fetching
<1>5. CASE UNCHANGED vars
  BY <1>5 DEF vars, IInv, TypeOK, Owned, OfKey, NoStaleFuture, Fetching
<1> QED
  BY <1>1, <1>2, <1>3, <1>4, <1>5 DEF Next, Run

LEMMA Invariance == Spec => []IInv
BY InitIInv, NextIInv, PTL DEF Spec

\* The types: the queue of the lock holds every waiting task, once.
THEOREM TypeCorrect == Spec => []TypeOK
<1>1. IInv => TypeOK
  BY DEF IInv
<1> QED
  BY <1>1, Invariance, PTL

\* Whoever joins, fails or is cancelled, a key is fetched by one task.
THEOREM OneFetch == Spec => []SingleFetch
<1>1. IInv => SingleFetch
  BY DEF IInv, Owned, Fetching, SingleFetch
<1> QED
  BY <1>1, Invariance, PTL

\* A future that carries a value is not in _in_flight any more.
THEOREM NothingStale == Spec => []NoStaleFuture
<1>1. IInv => NoStaleFuture
  BY DEF IInv
<1> QED
  BY <1>1, Invariance, PTL

-----------------------------------------------------------------------------
(* Who has the lock.                                                       *)

\* The lock is taken by nobody but a task that awaits a future under it, and
\* that future is in _in_flight: only who has the lock could take it out.
LockInv ==
  /\ \A t \in Tasks : holder = t <=> pc[t] = "await"
  /\ \A t \in Tasks : pc[t] = "await" => inFlight[KeyOf[t]] # None

\* A body runs when nobody has the lock, so nobody awaits, or the one task does
\* that found a future and keeps the lock for it.
LEMMA BodyLock ==
  ASSUME TypeOK, LockInv, holder = None, NEW t \in Tasks, NEW step \in Waiting,
         Body(t, step)
  PROVE  LockInv'
<1>1. \A u \in Tasks : pc[u] # "await"
  BY TaskAssumption DEF LockInv
<1>2. CASE /\ inFlight[KeyOf[t]] # None /\ holder' = t
           /\ pc' = [pc EXCEPT ![t] = "await"] /\ inFlight' = inFlight
  BY <1>1, <1>2 DEF LockInv, TypeOK
<1>3. CASE holder' = None /\ \E to \in {"fetch", "done"} : pc' = [pc EXCEPT ![t] = to]
  BY <1>1, <1>3, TaskAssumption DEF LockInv, TypeOK
<1> QED
  BY <1>2, <1>3 DEF Body, Dedupe, Publish, Abandon, Goto, Waiting

LEMMA WithLockLock ==
  ASSUME TypeOK, LockInv, NEW t \in Tasks, pc[t] # "await", NEW step \in Waiting,
         WithLock(t, step)
  PROVE  LockInv'
<1>1. CASE holder = None /\ queue = <<>>
  BY <1>1, BodyLock DEF WithLock
<1>2. CASE ~(holder = None /\ queue = <<>>)
  BY <1>2 DEF WithLock, Goto, LockInv, TypeOK, Waiting
<1> QED
  BY <1>1, <1>2

\* A task that returns without the lock, or gives it up.
LEMMA DoneLock ==
  ASSUME TypeOK, LockInv, NEW t \in Tasks, pc' = [pc EXCEPT ![t] = "done"],
         UNCHANGED inFlight,
         IF pc[t] = "await" THEN holder' = None ELSE UNCHANGED holder
  PROVE  LockInv'
BY TaskAssumption DEF LockInv, TypeOK

LEMMA NextLock == IInv /\ LockInv /\ [Next]_vars => LockInv'
<1> SUFFICES ASSUME IInv, LockInv, [Next]_vars PROVE LockInv'
  OBVIOUS
<1>0. TypeOK
  BY DEF IInv
<1>1. ASSUME NEW t \in Tasks, Get(t) PROVE LockInv'
  <2>1. CASE KeyOf[t] \in store
    BY <1>0, <1>1, <2>1, DoneLock DEF Get, Goto
  <2>2. CASE KeyOf[t] \notin store
    BY <1>0, <1>1, <2>2, WithLockLock DEF Get, Waiting
  <2> QED
    BY <2>1, <2>2
<1>2. ASSUME NEW t \in Tasks, Acquire(t) PROVE LockInv'
  <2>1. pc[t] \in Waiting
    <3>1. QueueTypes
      BY <1>0 DEF TypeOK, QueueTypes
    <3>2. t \in ToSet(queue)
      BY <1>2, <3>1, TailFact DEF Acquire
    <3> QED
      BY <1>0, <3>2 DEF TypeOK
  <2> QED
    BY <1>0, <1>2, <2>1, BodyLock DEF Acquire
<1>3. ASSUME NEW t \in Tasks, FetcherReturns(t) \/ FetcherRaises(t) PROVE LockInv'
  BY <1>0, <1>3, WithLockLock DEF FetcherReturns, FetcherRaises, Waiting
<1>4. ASSUME NEW t \in Tasks, AwaitEnds(t) PROVE LockInv'
  BY <1>0, <1>4, DoneLock DEF AwaitEnds, Goto
<1>5. ASSUME NEW t \in Tasks, Cancel(t) PROVE LockInv'
  BY <1>0, <1>5, DoneLock DEF Cancel, Goto, Waiting
<1>6. ASSUME NEW k \in Keys, Drop(k) PROVE LockInv'
  BY <1>6 DEF Drop, LockInv
<1>7. CASE UNCHANGED vars
  BY <1>7 DEF vars, LockInv
<1> QED
  BY <1>1, <1>2, <1>3, <1>4, <1>5, <1>6, <1>7 DEF Next, Run

LEMMA LockInvariance == Spec => [](IInv /\ LockInv)
<1>1. Init => LockInv
  BY TaskAssumption DEF Init, LockInv
<1> QED
  BY <1>1, NextLock, InitIInv, NextIInv, PTL DEF Spec

\* No failure of a fetcher and no cancellation, wherever it strikes, leaves the
\* lock taken: whoever has it awaits the future of another.
THEOREM LockIsGivenUp == Spec => []LockInv
BY LockInvariance, PTL

\* A call that awaits the fetch of another is ended by nothing but its own
\* cancellation: to settle the future takes the lock, which the call keeps.
AwaitsForEver ==
  [][\A t \in Tasks : pc[t] = "await" /\ future[inFlight[KeyOf[t]]] = "pending" =>
       \/ Cancel(t)
       \/ UNCHANGED <<pc[t], inFlight[KeyOf[t]], future[inFlight[KeyOf[t]]]>>]_vars

\* For any calls and keys: the deadlock the run finds with two calls is no
\* matter of timing, the first call that joins a fetch is caught in it.
THEOREM JoinedFetchHangs == Spec => AwaitsForEver
<1>1. IInv /\ LockInv /\ [Next]_vars =>
        [\A t \in Tasks : pc[t] = "await" /\ future[inFlight[KeyOf[t]]] = "pending" =>
           \/ Cancel(t)
           \/ UNCHANGED <<pc[t], inFlight[KeyOf[t]], future[inFlight[KeyOf[t]]]>>]_vars
  <2> SUFFICES ASSUME IInv, LockInv, Next, NEW t \in Tasks, pc[t] = "await",
                      future[inFlight[KeyOf[t]]] = "pending", ~Cancel(t)
               PROVE  UNCHANGED <<pc[t], inFlight, future>>
    OBVIOUS
  <2>1. holder = t /\ holder # None /\ \A u \in Tasks \ {t} : pc[u] # "await"
    BY TaskAssumption DEF LockInv
  <2>2. ASSUME NEW u \in Tasks \ {t}, Get(u) \/ Run(u)
        PROVE  UNCHANGED <<pc[t], inFlight, future>>
    <3>1. ASSUME NEW step, WithLock(u, step) PROVE UNCHANGED <<pc[t], inFlight, future>>
      BY <2>1, <3>1 DEF WithLock, Goto, IInv, TypeOK
    <3> QED
      BY <2>1, <2>2, <3>1 DEF Get, Run, Acquire, FetcherReturns, FetcherRaises, AwaitEnds,
                              Goto, IInv, TypeOK
  <2>3. ~(Get(t) \/ Run(t))
    BY <2>1 DEF Get, Run, Acquire, FetcherReturns, FetcherRaises, AwaitEnds, Settled
  <2>4. ASSUME NEW k \in Keys, Drop(k) PROVE UNCHANGED <<pc[t], inFlight, future>>
    BY <2>4 DEF Drop
  <2>5. ASSUME NEW u \in Tasks \ {t}, Cancel(u)
        PROVE  UNCHANGED <<pc[t], inFlight, future>>
    BY <2>1, <2>5 DEF Cancel, Goto, IInv, TypeOK
  <2> QED
    BY <2>2, <2>3, <2>4, <2>5 DEF Next
<1> QED
  BY <1>1, LockInvariance, PTL DEF Spec, AwaitsForEver
=============================================================================
