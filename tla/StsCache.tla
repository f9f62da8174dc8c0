------------------------------ MODULE StsCache ------------------------------
(***************************************************************************)
(* The cache of STS tokens and the singleflight group under it.  Each call *)
(* of StsTokenCache.Get is a process; the goroutine a call of Do starts    *)
(* when it finds no call under way goes through the steps AssumeRole,      *)
(* LeaveMap and WakeWaiters.  A critical section under one of the two      *)
(* mutexes is one step.                                                    *)
(*                                                                         *)
(* A call of AssumeRole issues a token of its own, so a call, the token it *)
(* returns and the Get that started it share a name.                       *)
(*                                                                         *)
(* An operator named Mutant... is no part of the specification: it is the  *)
(* definition after it with a plausible bug, which some property has to    *)
(* tell from the code.                                                     *)
(***************************************************************************)
EXTENDS Naturals

CONSTANTS
  Gets,       \* calls of Get, each made once
  Accounts,
  AccountOf,  \* the account of each call
  None        \* no token, no call

ASSUME GetAssumption == AccountOf \in [Gets -> Accounts] /\ None \notin Gets

VARIABLES
  store,   \* store: the token cached for each account, or None
  fresh,   \* the tokens that expire later than the refresh margin from now
  m,       \* singleflight.m: the call under way for each account, or None
  call,    \* sfCall: "none", fn is "running", it has "returned", the call has
           \* "left" the map, or is "done" (wg.Done)
  err,     \* the calls whose fn returned an error
  joined,  \* the sfCall each Get waits for
  pc,      \* "idle", "miss", "wait", "put" or "done"
  \* history
  asked    \* for each token Invalidate has dropped, the Gets that had begun

vars == <<store, fresh, m, call, err, joined, pc, asked>>
Unasked == {None}   \* the token was never dropped

Init ==
  /\ store = [a \in Accounts |-> None] /\ fresh = {}
  /\ m = [a \in Accounts |-> None]
  /\ call = [g \in Gets |-> "none"] /\ err = {}
  /\ joined = [g \in Gets |-> None]
  /\ pc = [g \in Gets |-> "idle"]
  /\ asked = [t \in Gets |-> Unasked]

Goto(g, step) == pc' = [pc EXCEPT ![g] = step]

-----------------------------------------------------------------------------
(* StsTokenCache.Get and singleflight.Do.                                  *)

\* The lookup, under the mutex of the cache.
Get(g) ==
  /\ pc[g] = "idle"
  /\ Goto(g, IF store[AccountOf[g]] \in fresh THEN "done" ELSE "miss")
  /\ UNCHANGED <<store, fresh, m, call, err, joined, asked>>

\* Every miss starts a call of its own.
MutantDo(g) ==
  /\ pc[g] = "miss" /\ Goto(g, "wait")
  /\ joined' = [joined EXCEPT ![g] = g]
  /\ m' = [m EXCEPT ![AccountOf[g]] = g]
  /\ call' = [call EXCEPT ![g] = "running"]
  /\ UNCHANGED <<store, fresh, err, asked>>

\* The store is not looked at again: a Get that missed starts a call although
\* another Get has cached a token since.
Do(g) ==
  LET a == AccountOf[g] IN
  /\ pc[g] = "miss" /\ Goto(g, "wait")
  /\ \/ m[a] # None /\ joined' = [joined EXCEPT ![g] = m[a]] /\ UNCHANGED <<m, call>>
     \/ /\ m[a] = None
        /\ joined' = [joined EXCEPT ![g] = g]
        /\ m' = [m EXCEPT ![a] = g]
        /\ call' = [call EXCEPT ![g] = "running"]
  /\ UNCHANGED <<store, fresh, err, asked>>

\* The context is that of the Get that started the call: when it is
\* cancelled, all who wait share the error.  A token may be near its end
\* when it is issued.
AssumeRole(c) ==
  /\ call[c] = "running"
  /\ call' = [call EXCEPT ![c] = "returned"]
  /\ \/ fresh' \in {fresh, fresh \cup {c}} /\ UNCHANGED err
     \/ err' = err \cup {c} /\ UNCHANGED fresh
  /\ UNCHANGED <<store, m, joined, pc, asked>>

LeaveMap(c) ==
  /\ call[c] = "returned"
  /\ call' = [call EXCEPT ![c] = "left"]
  /\ m' = [m EXCEPT ![AccountOf[c]] = None]
  /\ UNCHANGED <<store, fresh, err, joined, pc, asked>>

\* The error path returns before it wakes the waiters.
MutantWakeWaiters(c) ==
  /\ call[c] = "left" /\ c \notin err
  /\ call' = [call EXCEPT ![c] = "done"]
  /\ UNCHANGED <<store, fresh, m, err, joined, pc, asked>>

WakeWaiters(c) ==
  /\ call[c] = "left"
  /\ call' = [call EXCEPT ![c] = "done"]
  /\ UNCHANGED <<store, fresh, m, err, joined, pc, asked>>

\* The result may be used as soon as fn has returned it.
MutantAwaken(g) == pc[g] = "wait" /\ call[joined[g]] \in {"returned", "left", "done"}

\* wg.Wait returns.
Awaken(g) == pc[g] = "wait" /\ call[joined[g]] = "done"

Wait(g) ==
  /\ Awaken(g)
  /\ Goto(g, IF joined[g] \in err THEN "done" ELSE "put")
  /\ UNCHANGED <<store, fresh, m, call, err, joined, asked>>

\* Whoever waited stores the token, whatever the store holds by now.
Put(g) ==
  /\ pc[g] = "put" /\ Goto(g, "done")
  /\ store' = [store EXCEPT ![AccountOf[g]] = joined[g]]
  /\ UNCHANGED <<fresh, m, call, err, joined, asked>>

Begun == {g \in Gets : pc[g] # "idle"}

Invalidate(a) ==
  /\ store[a] # None
  /\ store' = [store EXCEPT ![a] = None]
  /\ asked' = [asked EXCEPT ![store[a]] = IF @ = Unasked THEN Begun ELSE @]
  /\ UNCHANGED <<fresh, m, call, err, joined, pc>>

\* Time passes.
Age(t) ==
  /\ t \in fresh
  /\ fresh' = fresh \ {t}
  /\ UNCHANGED <<store, m, call, err, joined, pc, asked>>

Run(g) ==
  \/ Do(g) \/ Wait(g) \/ Put(g)
  \/ AssumeRole(g) \/ LeaveMap(g) \/ WakeWaiters(g)

Next ==
  \/ \E g \in Gets : Get(g) \/ Run(g) \/ Age(g)
  \/ \E a \in Accounts : Invalidate(a)

Spec == Init /\ [][Next]_vars

\* Goroutines are scheduled, and every AssumeRole returns.
FairSpec == Spec /\ \A g \in Gets : WF_vars(Run(g))

-----------------------------------------------------------------------------
(* Properties.                                                             *)

\* Every variable has its type, and the map holds the calls whose result is
\* not settled, of their account.
TypeOK ==
  /\ store \in [Accounts -> Gets \cup {None}] /\ fresh \subseteq Gets
  /\ m \in [Accounts -> Gets \cup {None}]
  /\ call \in [Gets -> {"none", "running", "returned", "left", "done"}]
  /\ err \subseteq Gets
  /\ joined \in [Gets -> Gets \cup {None}]
  /\ pc \in [Gets -> {"idle", "miss", "wait", "put", "done"}]
  /\ asked \in [Gets -> {Unasked} \cup SUBSET Gets]
  /\ \A a \in Accounts : m[a] # None =>
       call[m[a]] \in {"running", "returned"} /\ AccountOf[m[a]] = a

\* STS is asked for one token of an account at a time, however many Gets
\* miss, and although the map is emptied before the waiters wake.
OneAssumeRole ==
  \A c, d \in Gets :
    call[c] = "running" /\ call[d] = "running" /\ AccountOf[c] = AccountOf[d]
      => c = d

\* A token that Invalidate has dropped is handed by singleflight only to Gets
\* that had begun before: the key leaves the map before any waiter can store
\* the token, so nobody asks for it and finds it under way after it was dropped.
NoDroppedToken ==
  \A g \in Gets :
    joined[g] # None /\ asked[joined[g]] # Unasked => g \in asked[joined[g]]

\* Every Get returns, with a token or with the error of the call it joined.
GetEnds == \A g \in Gets : (pc[g] # "idle") ~> (pc[g] = "done")

=============================================================================
