--------------------------- MODULE StsCacheProofs ---------------------------
(***************************************************************************)
(* Proofs about StsCache, for any number of calls and accounts.            *)
(***************************************************************************)
EXTENDS StsCache, TLAPS

\* The inductive invariant: the map and the state of the calls say the same,
\* and a token is stored, or dropped, only after its call has left the map.
MapIsState ==
  \A c \in Gets :
    call[c] \in {"running", "returned"} => m[AccountOf[c]] = c
Progress ==
  \A g \in Gets :
    /\ pc[g] \in {"idle", "miss"} => joined[g] = None /\ call[g] = "none"
    /\ pc[g] \in {"wait", "put"} => joined[g] # None
    /\ pc[g] = "put" => call[joined[g]] = "done"
    /\ joined[g] # None => call[joined[g]] # "none"
TokensDone ==
  /\ \A a \in Accounts : store[a] # None => call[store[a]] = "done"
  /\ \A t \in Gets : asked[t] # Unasked => call[t] = "done"
IInv == TypeOK /\ MapIsState /\ Progress /\ TokensDone /\ NoDroppedToken

LEMMA InitIInv == Init => IInv
BY GetAssumption
DEF Init, IInv, TypeOK, MapIsState, Progress, TokensDone, NoDroppedToken, Unasked

\* A Get that joins a call finds it in the map: its token is not out yet.
LEMMA DoIInv ==
  ASSUME IInv, NEW g \in Gets, Do(g)
  PROVE  IInv'
<1> DEFINE a == AccountOf[g]
<1>0. a \in Accounts /\ pc[g] = "miss" /\ call[g] = "none" /\ g # None
  BY GetAssumption DEF IInv, Progress, Do
<1>1. CASE m[a] # None
  <2>1. /\ m[a] \in Gets /\ call[m[a]] \in {"running", "returned"}
        /\ joined' = [joined EXCEPT ![g] = m[a]]
        /\ pc' = [pc EXCEPT ![g] = "wait"]
        /\ UNCHANGED <<store, fresh, m, call, err, asked>>
    BY <1>0, <1>1 DEF IInv, TypeOK, Do, Goto
  <2>2. TypeOK' /\ MapIsState' /\ TokensDone'
    BY <2>1 DEF IInv, TypeOK, MapIsState, TokensDone
  <2>3. Progress'
    BY <1>1, <2>1 DEF IInv, TypeOK, Progress
  <2>4. NoDroppedToken'
    BY <2>1 DEF IInv, TypeOK, TokensDone, NoDroppedToken
  <2> QED
    BY <2>2, <2>3, <2>4 DEF IInv
<1>2. CASE m[a] = None
  <2>1. /\ joined' = [joined EXCEPT ![g] = g]
        /\ m' = [m EXCEPT ![a] = g]
        /\ call' = [call EXCEPT ![g] = "running"]
        /\ pc' = [pc EXCEPT ![g] = "wait"]
        /\ UNCHANGED <<store, fresh, err, asked>>
    BY <1>2 DEF Do, Goto
  <2>2. TypeOK'
    BY <1>0, <2>1, GetAssumption DEF IInv, TypeOK
  <2>3. MapIsState'
    <3>1. \A c \in Gets : call[c] \in {"running", "returned"} => AccountOf[c] # a
      BY <1>2, GetAssumption DEF IInv, MapIsState
    <3> QED
      BY <1>0, <2>1, <3>1, GetAssumption DEF IInv, TypeOK, MapIsState
  <2>4. Progress'
    BY <1>0, <2>1 DEF IInv, TypeOK, Progress
  <2>5. TokensDone'
    BY <1>0, <2>1 DEF IInv, TypeOK, TokensDone
  <2>6. NoDroppedToken'
    BY <1>0, <2>1 DEF IInv, TypeOK, TokensDone, NoDroppedToken
  <2> QED
    BY <2>2, <2>3, <2>4, <2>5, <2>6 DEF IInv
<1> QED
  BY <1>1, <1>2

\* The steps of the goroutine of a call.
LEMMA CallIInv ==
  ASSUME IInv, NEW c \in Gets, AssumeRole(c) \/ LeaveMap(c) \/ WakeWaiters(c)
  PROVE  IInv'
<1>0. AccountOf[c] \in Accounts /\ c # None
  BY GetAssumption
<1>1. CASE AssumeRole(c)
  <2>1. TypeOK'
    BY <1>1 DEF IInv, TypeOK, AssumeRole
  <2>2. MapIsState' /\ Progress' /\ TokensDone' /\ NoDroppedToken'
    BY <1>1 DEF IInv, TypeOK, MapIsState, Progress, TokensDone, NoDroppedToken, AssumeRole
  <2> QED
    BY <2>1, <2>2 DEF IInv
<1>2. CASE LeaveMap(c)
  <2>1. m[AccountOf[c]] = c
    BY <1>2 DEF IInv, MapIsState, LeaveMap
  <2>2. TypeOK'
    <3>1. \A a \in Accounts \ {AccountOf[c]} : m[a] # c
      BY <1>0 DEF IInv, TypeOK
    <3> QED
      BY <1>0, <1>2, <3>1 DEF IInv, TypeOK, LeaveMap
  <2>3. MapIsState'
    BY <1>0, <1>2, <2>1, GetAssumption DEF IInv, TypeOK, MapIsState, LeaveMap
  <2>4. Progress' /\ TokensDone' /\ NoDroppedToken'
    BY <1>2 DEF IInv, TypeOK, Progress, TokensDone, NoDroppedToken, LeaveMap
  <2> QED
    BY <2>2, <2>3, <2>4 DEF IInv
<1>3. CASE WakeWaiters(c)
  <2>1. TypeOK'
    BY <1>3 DEF IInv, TypeOK, WakeWaiters
  <2>2. MapIsState' /\ Progress' /\ TokensDone' /\ NoDroppedToken'
    BY <1>3 DEF IInv, TypeOK, MapIsState, Progress, TokensDone, NoDroppedToken, WakeWaiters
  <2> QED
    BY <2>1, <2>2 DEF IInv
<1> QED
  BY <1>1, <1>2, <1>3

\* The lookup, the end of the wait and the store of the token.
LEMMA GetIInv ==
  ASSUME IInv, NEW g \in Gets, Get(g) \/ Wait(g) \/ Put(g)
  PROVE  IInv'
<1>0. AccountOf[g] \in Accounts
  BY GetAssumption
<1>1. CASE Get(g)
  <2>1. pc' \in [Gets -> {"idle", "miss", "wait", "put", "done"}]
    BY <1>1 DEF IInv, TypeOK, Get, Goto
  <2> QED
    BY <1>1, <2>1
    DEF IInv, TypeOK, MapIsState, Progress, TokensDone, NoDroppedToken, Get, Goto
<1>2. CASE Wait(g)
  <2>1. pc' \in [Gets -> {"idle", "miss", "wait", "put", "done"}]
    BY <1>2 DEF IInv, TypeOK, Wait, Goto
  <2> QED
    BY <1>2, <2>1
    DEF IInv, TypeOK, MapIsState, Progress, TokensDone, NoDroppedToken, Wait,
        Awaken, Goto
<1>3. CASE Put(g)
  <2>1. joined[g] \in Gets /\ call[joined[g]] = "done"
    BY <1>3 DEF IInv, TypeOK, Progress, Put
  <2>2. /\ pc' \in [Gets -> {"idle", "miss", "wait", "put", "done"}]
        /\ store' \in [Accounts -> Gets \cup {None}]
    BY <1>3, <2>1 DEF IInv, TypeOK, Put, Goto
  <2> QED
    BY <1>0, <1>3, <2>1, <2>2
    DEF IInv, TypeOK, MapIsState, Progress, TokensDone, NoDroppedToken, Put, Goto
<1> QED
  BY <1>1, <1>2, <1>3

\* Who waits for a token that is dropped, or has it, has begun.
LEMMA InvalidateIInv ==
  ASSUME IInv, NEW a \in Accounts, Invalidate(a)
  PROVE  IInv'
<1> DEFINE t == store[a]
<1>1. t \in Gets /\ call[t] = "done" /\ Begun \in SUBSET Gets
  BY DEF IInv, TypeOK, TokensDone, Invalidate, Begun
<1>2. TypeOK'
  BY <1>1 DEF IInv, TypeOK, Invalidate
<1>3. MapIsState' /\ Progress'
  BY DEF IInv, MapIsState, Progress, Invalidate
<1>4. TokensDone'
  BY <1>1 DEF IInv, TypeOK, TokensDone, Invalidate
<1>5. NoDroppedToken'
  <2>1. \A g \in Gets : joined[g] # None => g \in Begun
    BY DEF IInv, Progress, Begun
  <2> QED
    BY <1>1, <2>1 DEF IInv, TypeOK, NoDroppedToken, Invalidate
<1> QED
  BY <1>2, <1>3, <1>4, <1>5 DEF IInv

LEMMA NextIInv == IInv /\ [Next]_vars => IInv'
<1> SUFFICES ASSUME IInv, [Next]_vars PROVE IInv'
  OBVIOUS
<1>1. CASE \E g \in Gets : Do(g)
  BY <1>1, DoIInv
<1>2. CASE \E g \in Gets : AssumeRole(g) \/ LeaveMap(g) \/ WakeWaiters(g)
  BY <1>2, CallIInv
<1>3. CASE \E g \in Gets : Get(g) \/ Wait(g) \/ Put(g)
  BY <1>3, GetIInv
<1>4. CASE \E t \in Gets : Age(t)
  BY <1>4 DEF IInv, TypeOK, MapIsState, Progress, TokensDone, NoDroppedToken, Age
<1>5. CASE \E a \in Accounts : Invalidate(a)
  BY <1>5, InvalidateIInv
<1>6. CASE UNCHANGED vars
  BY <1>6 DEF IInv, TypeOK, MapIsState, Progress, TokensDone, NoDroppedToken, vars
<1> QED
  BY <1>1, <1>2, <1>3, <1>4, <1>5, <1>6 DEF Next, Run

LEMMA Invariance == Spec => []IInv
<1> QED
  BY InitIInv, NextIInv, PTL DEF Spec

\* The types, and that the map holds calls whose result is not settled.
THEOREM TypeCorrect == Spec => []TypeOK
<1>1. IInv => TypeOK
  BY DEF IInv
<1> QED
  BY <1>1, Invariance, PTL

\* Any number of Gets that miss at once keep one AssumeRole per account busy.
THEOREM OneAtATime == Spec => []OneAssumeRole
<1>1. IInv => OneAssumeRole
  BY DEF IInv, MapIsState, OneAssumeRole
<1> QED
  BY <1>1, Invariance, PTL

\* A Get that begins after Invalidate never joins the call of the token that
\* was dropped.
THEOREM DroppedIsNotJoined == Spec => []NoDroppedToken
<1>1. IInv => NoDroppedToken
  BY DEF IInv
<1> QED
  BY <1>1, Invariance, PTL

-----------------------------------------------------------------------------
(* Every Get comes to its end: what GetEnds says, without the fairness.    *)

\* What a Get waits for is a call whose goroutine has been started and takes
\* its remaining steps without asking anybody, the waiters least of all.
WaitsForAGoroutine ==
  \A g \in Gets : pc[g] = "wait" =>
    /\ joined[g] \in Gets
    /\ call[joined[g]] \in {"running", "returned", "left", "done"}

\* The steps that g has left, as a Get and as the goroutine it may start.
AsGet(step)  == IF step \in {"idle", "miss"} THEN 6
                ELSE IF step = "wait" THEN 2
                ELSE IF step = "put" THEN 1 ELSE 0
AsCall(step) == IF step = "running" THEN 3
                ELSE IF step = "returned" THEN 2
                ELSE IF step = "left" THEN 1 ELSE 0
StepsLeft(g) == AsGet(pc[g]) + AsCall(call[g])
StepsRunOut ==
  [][\A g \in Gets : /\ StepsLeft(g)' <= StepsLeft(g)
                     /\ Run(g) => StepsLeft(g)' < StepsLeft(g)]_vars

\* The steps of one g do not lengthen the way of another.
LEMMA OthersKeepTheirWay ==
  ASSUME IInv, NEW g \in Gets, NEW h \in Gets \ {g}, Get(g) \/ Run(g) \/ Age(g)
  PROVE  pc'[h] = pc[h] /\ call'[h] = call[h]
<1>1. CASE Get(g) \/ Do(g) \/ Wait(g) \/ Put(g)
  BY <1>1 DEF IInv, TypeOK, Get, Do, Wait, Put, Goto
<1>2. CASE AssumeRole(g) \/ LeaveMap(g) \/ WakeWaiters(g)
  BY <1>2 DEF IInv, TypeOK, AssumeRole, LeaveMap, WakeWaiters
<1>3. CASE Age(g)
  BY <1>3 DEF Age
<1> QED
  BY <1>1, <1>2, <1>3 DEF Run

LEMMA OwnWayIsShorter ==
  ASSUME IInv, NEW g \in Gets, Run(g)
  PROVE  StepsLeft(g)' < StepsLeft(g)
<1>0. pc \in [Gets -> {"idle", "miss", "wait", "put", "done"}]
      /\ call \in [Gets -> {"none", "running", "returned", "left", "done"}]
  BY DEF IInv, TypeOK
<1>1. CASE Do(g)
  <2>1. call[g] = "none" /\ pc[g] = "miss" /\ pc'[g] = "wait"
    BY <1>0, <1>1 DEF IInv, Progress, Do, Goto
  <2>2. call'[g] \in {"none", "running"}
    BY <1>0, <1>1, <2>1 DEF Do
  <2> QED
    BY <2>1, <2>2 DEF StepsLeft, AsGet, AsCall
<1>2. CASE Wait(g)
  <2>1. pc[g] = "wait" /\ pc'[g] \in {"put", "done"} /\ call' = call
    BY <1>0, <1>2 DEF Wait, Awaken, Goto
  <2> QED
    BY <1>0, <2>1 DEF StepsLeft, AsGet, AsCall
<1>3. CASE Put(g)
  <2>1. pc[g] = "put" /\ pc'[g] = "done" /\ call' = call
    BY <1>0, <1>3 DEF Put, Goto
  <2> QED
    BY <1>0, <2>1 DEF StepsLeft, AsGet, AsCall
<1>4. CASE AssumeRole(g) \/ LeaveMap(g) \/ WakeWaiters(g)
  <2>1. /\ pc' = pc
        /\ \/ call[g] = "running" /\ call'[g] = "returned"
           \/ call[g] = "returned" /\ call'[g] = "left"
           \/ call[g] = "left" /\ call'[g] = "done"
    BY <1>0, <1>4 DEF AssumeRole, LeaveMap, WakeWaiters
  <2> QED
    BY <1>0, <2>1 DEF StepsLeft, AsGet, AsCall
<1> QED
  BY <1>1, <1>2, <1>3, <1>4 DEF Run

\* No Get is forgotten, and none takes more than six steps, those of the
\* goroutine it starts included: unlike a call of TTLCache, which may wait for
\* a fetch that waits for its lock.
THEOREM GetsRunOut == Spec => []WaitsForAGoroutine /\ StepsRunOut
<1>1. IInv => WaitsForAGoroutine
  BY DEF IInv, TypeOK, Progress, WaitsForAGoroutine
<1> DEFINE Shorter == \A g \in Gets : /\ StepsLeft(g)' <= StepsLeft(g)
                                      /\ Run(g) => StepsLeft(g)' < StepsLeft(g)
<1>2. IInv /\ [Next]_vars => [Shorter]_vars
  <2> SUFFICES ASSUME IInv, Next, NEW g \in Gets
               PROVE  /\ StepsLeft(g)' <= StepsLeft(g)
                      /\ Run(g) => StepsLeft(g)' < StepsLeft(g)
    OBVIOUS
  <2>1. StepsLeft(g) \in Nat /\ StepsLeft(g)' \in Nat
    BY DEF StepsLeft, AsGet, AsCall
  <2>2. ASSUME pc'[g] = pc[g] /\ call'[g] = call[g]
        PROVE  StepsLeft(g)' = StepsLeft(g)
    BY <2>2 DEF StepsLeft
  <2>3. CASE \E h \in Gets \ {g} : Get(h) \/ Run(h) \/ Age(h)
    BY <2>1, <2>2, <2>3, OthersKeepTheirWay, OwnWayIsShorter
  <2>4. CASE Run(g)
    BY <2>1, <2>4, OwnWayIsShorter
  <2>5. CASE Get(g)
    <3>1. pc[g] = "idle" /\ pc'[g] \in {"miss", "done"} /\ call' = call
      BY <2>5 DEF IInv, TypeOK, Get, Goto
    <3>2. StepsLeft(g)' <= StepsLeft(g)
      BY <3>1 DEF StepsLeft, AsGet, AsCall
    <3> QED
      BY <3>2, OwnWayIsShorter
  <2>6. CASE Age(g) \/ \E a \in Accounts : Invalidate(a)
    <3>1. UNCHANGED <<pc, call>>
      BY <2>6 DEF Age, Invalidate
    <3> QED
      BY <2>1, <2>2, <3>1, OwnWayIsShorter
  <2> QED
    BY <2>3, <2>4, <2>5, <2>6 DEF Next
<1> QED
  BY <1>1, <1>2, Invariance, PTL DEF Spec, StepsRunOut
=============================================================================
