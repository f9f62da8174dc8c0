---------------------------- MODULE WsHubProofs ----------------------------
(***************************************************************************)
(* Proofs about WsHub, for any number of connections, publishers, events   *)
(* and any capacity.                                                       *)
(***************************************************************************)
EXTENDS WsHub, FiniteSetTheorems, SequenceTheorems, TLAPS

\* The lock: a loop is under way over clients of the hub only.
LoopHoldsLock ==
  \A p \in Publishers :
    todo[p] \subseteq clients /\ (ppc[p] = "idle" => todo[p] = {})

\* Nothing of publisher p that client c has, or is about to get, has a
\* number from n on.
Below(c, p, n) ==
  /\ last[c][p] < n
  /\ ev[c] # None /\ ev[c][1] = p => ev[c][2] < n
  /\ \A i \in 1..Len(ch[c]) : ch[c][i][1] = p => ch[c][i][2] < n
Numbered ==
  \A c \in Clients, p \in Publishers :
    /\ Below(c, p, no[p] + 1)
    /\ c \in todo[p] => Below(c, p, no[p])

IInv == TypeOK /\ LoopHoldsLock /\ Numbered /\ EventsInOrder

LEMMA InitIInv == Init => IInv
<1> SUFFICES ASSUME Init PROVE IInv
  OBVIOUS
<1>1. TypeOK
  BY HubAssumption DEF Init, TypeOK
<1>2. LoopHoldsLock /\ Numbered /\ EventsInOrder
  BY DEF Init, LoopHoldsLock, Numbered, Below, EventsInOrder, InOrder, Reached
<1> QED
  BY <1>1, <1>2 DEF IInv

LEMMA FrameInOrder ==
  ASSUME NEW c \in Clients, InOrder(c),
         ch'[c] = ch[c], ev'[c] = ev[c], last'[c] = last[c]
  PROVE  InOrder(c)'
BY DEF InOrder, Reached

LEMMA PublishIInv ==
  ASSUME IInv, NEW p \in Publishers, Publish(p)
  PROVE  IInv'
<1>1. TypeOK' /\ LoopHoldsLock'
  BY DEF IInv, TypeOK, LoopHoldsLock, Publish, handlers
<1>2. Numbered'
  <2> SUFFICES ASSUME NEW c \in Clients, NEW q \in Publishers
               PROVE  /\ Below(c, q, no[q] + 1)'
                      /\ c \in todo'[q] => Below(c, q, no[q])'
    BY DEF Numbered
  <2>1. CASE q = p
    <3>1. /\ no'[p] = no[p] + 1 /\ no[p] \in Nat
          /\ UNCHANGED <<last, ev, ch>>
      <4>1. no \in [Publishers -> Nat]
        BY DEF IInv, TypeOK
      <4>2. no' = [no EXCEPT ![p] = @ + 1] /\ UNCHANGED <<handlers, ch>>
        BY DEF Publish
      <4> QED
        BY <4>1, <4>2 DEF handlers
    <3>2. Below(c, p, no[p] + 1)
      BY DEF IInv, Numbered
    <3>3. /\ last[c][p] \in Nat
          /\ ev[c] # None => ev[c][2] \in Nat
          /\ \A i \in 1..Len(ch[c]) : ch[c][i][2] \in Nat
      <4>1. /\ last[c] \in [Publishers -> Nat] /\ ev[c] \in Event \cup {None}
            /\ ch[c] \in Seq(Event)
        BY DEF IInv, TypeOK
      <4>2. \A e \in Event : e[2] \in Nat
        BY DEF Event
      <4>3. \A i \in 1..Len(ch[c]) : ch[c][i] \in Event
        BY <4>1
      <4> QED
        BY <4>1, <4>2, <4>3
    <3>4. last[c][p] < no[p] + 1
      BY <3>2 DEF Below
    <3>5. ev[c] # None /\ ev[c][1] = p => ev[c][2] < no[p] + 1
      BY <3>2 DEF Below
    <3>6. \A i \in 1..Len(ch[c]) : ch[c][i][1] = p => ch[c][i][2] < no[p] + 1
      BY <3>2 DEF Below
    <3>7. Below(c, p, no[p] + 1)'
      <4>1. ASSUME NEW i \in 1..Len(ch'[c]), ch'[c][i][1] = p
            PROVE  ch'[c][i][2] < no'[p] + 1
        BY <3>1, <3>3, <3>6, <4>1
      <4>2. last'[c][p] < no'[p] + 1
        BY <3>1, <3>3, <3>4
      <4>3. ev'[c] # None /\ ev'[c][1] = p => ev'[c][2] < no'[p] + 1
        BY <3>1, <3>3, <3>5
      <4> QED
        BY <4>1, <4>2, <4>3 DEF Below
    <3>8. Below(c, p, no[p])'
      BY <3>1, <3>4, <3>5, <3>6 DEF Below
    <3> QED
      BY <2>1, <3>7, <3>8
  <2>2. CASE q # p
    BY <2>2 DEF IInv, TypeOK, Numbered, Below, Publish, handlers
  <2> QED
    BY <2>1, <2>2
<1>3. EventsInOrder'
  BY DEF IInv, EventsInOrder, InOrder, Reached, Publish, handlers
<1> QED
  BY <1>1, <1>2, <1>3 DEF IInv

\* The event appended is the newest of its publisher for this client.
LEMMA SendIInv ==
  ASSUME IInv, NEW p \in Publishers, Send(p)
  PROVE  IInv'
<1>0. PICK c \in todo[p] :
        /\ Offer(c, <<p, no[p]>>)
        /\ todo' = [todo EXCEPT ![p] = @ \ {c}]
  BY DEF Send
<1> DEFINE e == <<p, no[p]>>
<1>1. /\ c \in Clients /\ no[p] \in Nat /\ Below(c, p, no[p])
      /\ UNCHANGED <<clients, closed, cls, pc, ev, last, no, ppc>>
  BY <1>0 DEF IInv, TypeOK, Numbered, Send, handlers
<1>2. last[c][p] \in Nat /\ e \in Event
  BY <1>1 DEF IInv, TypeOK, Event, Below
<1>3. /\ ch \in [Clients -> Seq(Event)]
      /\ \A d \in Clients : Len(ch[d]) \in Nat /\ Len(ch[d]) <= Capacity
  BY DEF IInv, TypeOK
<1>4. /\ ch' \in [Clients -> Seq(Event)]
      /\ \A d \in Clients \ {c} : ch'[d] = ch[d]
      /\ \/ ch'[c] = ch[c]
         \/ ch'[c] = Append(ch[c], e) /\ Len(ch[c]) < Capacity
  BY <1>0, <1>1, <1>2, <1>3 DEF Offer
<1>5. /\ Len(ch'[c]) <= Capacity
      /\ \A i \in 1..Len(ch'[c]) :
           \/ i \in 1..Len(ch[c]) /\ ch'[c][i] = ch[c][i]
           \/ i = Len(ch[c]) + 1 /\ ch'[c][i] = e
  <2>1. CASE ch'[c] = ch[c]
    BY <1>1, <1>3, <2>1
  <2>2. CASE ch'[c] = Append(ch[c], e) /\ Len(ch[c]) < Capacity
    BY <1>1, <1>2, <1>3, <2>2, HubAssumption
  <2> QED
    BY <1>4, <2>1, <2>2
<1>6. todo' \in [Publishers -> SUBSET Clients] /\ todo'[p] = todo[p] \ {c}
      /\ \A q \in Publishers \ {p} : todo'[q] = todo[q]
  BY <1>0 DEF IInv, TypeOK
<1>7. TypeOK'
  BY <1>1, <1>3, <1>4, <1>5, <1>6 DEF IInv, TypeOK
<1>8. LoopHoldsLock'
  BY <1>1, <1>6 DEF IInv, LoopHoldsLock
<1>9. Numbered'
  <2> SUFFICES ASSUME NEW d \in Clients, NEW q \in Publishers
               PROVE  /\ Below(d, q, no[q] + 1)'
                      /\ d \in todo'[q] => Below(d, q, no[q])'
    BY DEF Numbered
  <2>1. /\ Below(d, q, no[q] + 1) /\ (d \in todo[q] => Below(d, q, no[q]))
        /\ no[q] \in Nat
    BY DEF IInv, Numbered, TypeOK
  <2>2. CASE d # c
    <3>1. UNCHANGED <<ch[d], last[d], no>>
      BY <1>1, <1>4, <2>2
    <3>2. d \in todo'[q] => d \in todo[q]
      BY <1>6
    <3> QED
      <4>1. Below(d, q, no[q] + 1)'
        BY <1>1, <2>1, <3>1 DEF Below
      <4>2. Below(d, q, no[q]) => Below(d, q, no[q])'
        BY <1>1, <3>1 DEF Below
      <4> QED
        BY <2>1, <3>2, <4>1, <4>2
  <2>3. CASE d = c
    <3>1. Below(c, q, no[q] + 1)'
      BY <1>1, <1>5, <2>1, <2>3 DEF Below
    <3>2. c \in todo'[q] => Below(c, q, no[q])'
      BY <1>1, <1>5, <1>6, <2>1, <2>3 DEF Below
    <3> QED
      BY <2>3, <3>1, <3>2
  <2> QED
    BY <2>2, <2>3
<1>10. EventsInOrder'
  <2>1. \A d \in Clients \ {c} : InOrder(d)'
    BY <1>1, <1>4, FrameInOrder DEF IInv, EventsInOrder
  <2>2. Reached(c, p) < no[p] /\ Reached(c, p) \in Nat
    BY <1>1, <1>2 DEF IInv, TypeOK, Event, Below, Reached
  <2>3. \A i \in 1..Len(ch[c]) :
          /\ ch[c][i][2] > Reached(c, ch[c][i][1])
          /\ ch[c][i][1] = p => ch[c][i][2] < no[p]
    BY <1>1 DEF IInv, EventsInOrder, InOrder, Below
  <2>4. \A i \in 1..Len(ch'[c]) : ch'[c][i][2] > Reached(c, ch[c][i][1])'
    <3> SUFFICES ASSUME NEW i \in 1..Len(ch'[c])
                 PROVE  ch'[c][i][2] > Reached(c, ch[c][i][1])'
      OBVIOUS
    <3>1. CASE i \in 1..Len(ch[c]) /\ ch'[c][i] = ch[c][i]
      BY <1>1, <2>3, <3>1 DEF Reached
    <3>2. CASE ch'[c][i] = e
      <4>1. Reached(c, ch[c][i][1])' = Reached(c, p)
        BY <1>1, <3>2 DEF Reached
      <4> QED
        BY <1>1, <2>2, <3>2, <4>1
    <3> QED
      BY <1>5, <3>1, <3>2
  <2>5. \A i, j \in 1..Len(ch'[c]) :
          i < j /\ ch'[c][i][1] = ch'[c][j][1] => ch'[c][i][2] < ch'[c][j][2]
    <3> SUFFICES ASSUME NEW i \in 1..Len(ch'[c]), NEW j \in 1..Len(ch'[c]),
                        i < j, ch'[c][i][1] = ch'[c][j][1]
                 PROVE  ch'[c][i][2] < ch'[c][j][2]
      OBVIOUS
    <3>1. i \in 1..Len(ch[c]) /\ ch'[c][i] = ch[c][i]
      BY <1>1, <1>3, <1>5
    <3>2. CASE j \in 1..Len(ch[c]) /\ ch'[c][j] = ch[c][j]
      BY <1>1, <3>1, <3>2 DEF IInv, EventsInOrder, InOrder
    <3>3. CASE ch'[c][j] = e
      BY <2>3, <3>1, <3>3
    <3> QED
      BY <1>5, <3>2, <3>3
  <2>6. InOrder(c)'
    BY <1>1, <2>4, <2>5 DEF IInv, EventsInOrder, InOrder
  <2> QED
    BY <2>1, <2>6 DEF EventsInOrder
<1> QED
  BY <1>7, <1>8, <1>9, <1>10 DEF IInv

LEMMA UnlockIInv ==
  ASSUME IInv, NEW p \in Publishers, Unlock(p)
  PROVE  IInv'
<1>1. TypeOK' /\ LoopHoldsLock'
  BY DEF IInv, TypeOK, LoopHoldsLock, Unlock, handlers
<1>2. Numbered' /\ EventsInOrder'
  BY DEF IInv, Numbered, Below, EventsInOrder, InOrder, Reached, Unlock, handlers
<1> QED
  BY <1>1, <1>2 DEF IInv

\* The pump takes the head of the channel, which is older than its tail.
LEMMA ReceiveIInv ==
  ASSUME IInv, NEW c \in Clients, Receive(c)
  PROVE  IInv'
<1>0. /\ pc[c] = "pump" /\ ev[c] = None /\ ch[c] # <<>> /\ ch[c] \in Seq(Event)
      /\ UNCHANGED <<clients, closed, cls, last, no, ppc, todo>>
  BY DEF IInv, TypeOK, Receive, publishers
<1>1. /\ Len(ch[c]) \in Nat \ {0} /\ Head(ch[c]) = ch[c][1] /\ ch[c][1] \in Event
      /\ Tail(ch[c]) \in Seq(Event) /\ Len(Tail(ch[c])) = Len(ch[c]) - 1
      /\ \A i \in 1..Len(Tail(ch[c])) : Tail(ch[c])[i] = ch[c][i + 1]
  BY <1>0, HeadTailProperties, EmptySeq
<1>2. /\ ch' = [ch EXCEPT ![c] = Tail(ch[c])]
      /\ \/ ev' = [ev EXCEPT ![c] = ch[c][1]] /\ pc' = [pc EXCEPT ![c] = "write"]
         \/ ev' = ev /\ pc' = pc
  BY <1>1 DEF Receive, Goto
<1>3. TypeOK'
  <2>1. /\ ch' \in [Clients -> Seq(Event)]
        /\ \A d \in Clients : Len(ch'[d]) <= Capacity
    BY <1>1, <1>2, HubAssumption DEF IInv, TypeOK
  <2>2. ch[c][1] # None
    BY <1>1, HubAssumption
  <2>3. /\ ev' \in [Clients -> Event \cup {None}]
        /\ pc' \in [Clients -> {"idle", "register", "pump", "write", "leave", "close", "gone"}]
    BY <1>1, <1>2 DEF IInv, TypeOK
  <2>4. \A d \in Clients : ev'[d] # None <=> pc'[d] = "write"
    BY <1>0, <1>2, <2>2 DEF IInv, TypeOK
  <2>5. /\ clients' = {d \in Clients : pc'[d] \in {"pump", "write", "leave"}}
        /\ closed' = {d \in Clients : pc'[d] = "gone"}
    <3>1. \A d \in Clients : pc'[d] = pc[d] \/ (pc[d] = "pump" /\ pc'[d] = "write")
      BY <1>0, <1>2 DEF IInv, TypeOK
    <3> QED
      BY <1>0, <3>1 DEF IInv, TypeOK
  <2> QED
    BY <1>0, <2>1, <2>3, <2>4, <2>5 DEF IInv, TypeOK
<1>4. LoopHoldsLock'
  BY <1>0 DEF IInv, LoopHoldsLock
<1>5. \A d \in Clients \ {c} : ch'[d] = ch[d] /\ ev'[d] = ev[d]
  BY <1>2 DEF IInv, TypeOK
<1>6. /\ ch'[c] = Tail(ch[c])
      /\ ev'[c] \in {ch[c][1], None}
      /\ \A i \in 1..Len(ch'[c]) : i + 1 \in 1..Len(ch[c]) /\ ch'[c][i] = ch[c][i + 1]
  BY <1>0, <1>1, <1>2 DEF IInv, TypeOK
<1>7. Numbered'
  <2>1. \A q \in Publishers, n \in Nat : Below(c, q, n) => Below(c, q, n)'
    BY <1>0, <1>1, <1>6 DEF Below
  <2>2. \A d \in Clients \ {c}, q \in Publishers, n \in Nat : Below(d, q, n) => Below(d, q, n)'
    BY <1>0, <1>5 DEF Below
  <2>3. \A q \in Publishers : no[q] \in Nat /\ no[q] + 1 \in Nat
    BY DEF IInv, TypeOK
  <2> QED
    BY <1>0, <2>1, <2>2, <2>3 DEF IInv, Numbered
<1>8. EventsInOrder'
  <2>0. InOrder(c)
    BY DEF IInv, EventsInOrder
  <2>1. ev'[c] # None => ev'[c][2] > last[c][ev'[c][1]]
    BY <1>0, <1>1, <1>6, <2>0 DEF InOrder, Reached
  <2>2. ASSUME NEW i \in 1..Len(ch'[c])
        PROVE  ch'[c][i][2] > Reached(c, ch[c][i][1])'
    <3>1. /\ i + 1 \in 1..Len(ch[c]) /\ 1 \in 1..Len(ch[c]) /\ 1 < i + 1
          /\ ch'[c][i] = ch[c][i + 1]
      BY <1>1, <1>6
    <3>2. ch[c][i + 1][2] > last[c][ch[c][i + 1][1]]
      BY <1>0, <2>0, <3>1 DEF InOrder, Reached
    <3>3. ch[c][1][1] = ch[c][i + 1][1] => ch[c][i + 1][2] > ch[c][1][2]
      <4>1. ch[c][1][2] \in Nat /\ ch[c][i + 1][2] \in Nat
        BY <1>0, <1>1, <3>1 DEF Event
      <4>2. ch[c][1][1] = ch[c][i + 1][1] => ch[c][1][2] < ch[c][i + 1][2]
        BY <2>0, <3>1 DEF InOrder
      <4> QED
        BY <4>1, <4>2
    <3>4. Reached(c, ch[c][i][1])' =
            IF ev'[c] # None /\ ev'[c][1] = ch[c][i + 1][1]
            THEN ev'[c][2] ELSE last[c][ch[c][i + 1][1]]
      BY <1>0, <3>1 DEF Reached
    <3> QED
      BY <1>6, <3>1, <3>2, <3>3, <3>4
  <2>3. ASSUME NEW i \in 1..Len(ch'[c]), NEW j \in 1..Len(ch'[c]),
               i < j, ch'[c][i][1] = ch'[c][j][1]
        PROVE  ch'[c][i][2] < ch'[c][j][2]
    <3>1. /\ i + 1 \in 1..Len(ch[c]) /\ j + 1 \in 1..Len(ch[c]) /\ i + 1 < j + 1
          /\ ch'[c][i] = ch[c][i + 1] /\ ch'[c][j] = ch[c][j + 1]
      BY <1>1, <1>6, <2>3
    <3> QED
      BY <2>0, <2>3, <3>1 DEF InOrder
  <2>4. InOrder(c)'
    BY <1>0, <2>1, <2>2, <2>3 DEF InOrder
  <2>5. \A d \in Clients \ {c} : InOrder(d)'
    BY <1>0, <1>5, FrameInOrder DEF IInv, EventsInOrder
  <2> QED
    BY <2>4, <2>5 DEF EventsInOrder
<1> QED
  BY <1>3, <1>4, <1>7, <1>8 DEF IInv

\* The event written becomes the last one; what is left is newer.
LEMMA WriteIInv ==
  ASSUME IInv, NEW c \in Clients, Write(c)
  PROVE  IInv'
<1>0. /\ pc[c] = "write" /\ ev[c] # None /\ ev[c] \in Event
      /\ UNCHANGED <<clients, closed, cls, ch, no, ppc, todo>>
      /\ ev' = [ev EXCEPT ![c] = None]
  BY DEF IInv, TypeOK, Write, publishers
<1> DEFINE q == ev[c][1]
           k == ev[c][2]
<1>1. q \in Publishers /\ k \in Nat
  BY <1>0 DEF Event
<1>2. last' = last \/ last' = [last EXCEPT ![c][q] = k]
  BY DEF Write
<1>3. /\ last' \in [Clients -> [Publishers -> Nat]]
      /\ \A d \in Clients \ {c} : last'[d] = last[d] /\ ev'[d] = ev[d]
      /\ \A p \in Publishers \ {q} : last'[c][p] = last[c][p]
      /\ last'[c][q] \in {last[c][q], k}
  <2>0. last \in [Clients -> [Publishers -> Nat]]
    BY DEF IInv, TypeOK
  <2>1. \A d \in Clients \ {c} : ev'[d] = ev[d]
    BY <1>0 DEF IInv, TypeOK
  <2>2. CASE last' = last
    BY <2>0, <2>1, <2>2
  <2>3. CASE last' = [last EXCEPT ![c][q] = k]
    <3>1. last' = [last EXCEPT ![c] = [last[c] EXCEPT ![q] = k]]
      BY <2>3
    <3>2. [last[c] EXCEPT ![q] = k] \in [Publishers -> Nat]
      BY <1>1, <2>0
    <3> QED
      BY <1>1, <2>0, <2>1, <3>1, <3>2
  <2> QED
    BY <1>2, <2>2, <2>3
<1>4. /\ pc' \in [Clients -> {"idle", "register", "pump", "write", "leave", "close", "gone"}]
      /\ pc'[c] \in {"pump", "leave"} /\ \A d \in Clients \ {c} : pc'[d] = pc[d]
  BY DEF IInv, TypeOK, Write, Goto
<1>5. ev'[c] = None
  BY <1>0 DEF IInv, TypeOK
<1>6. TypeOK'
  <2>1. /\ clients' = {d \in Clients : pc'[d] \in {"pump", "write", "leave"}}
        /\ closed' = {d \in Clients : pc'[d] = "gone"}
    BY <1>0, <1>4 DEF IInv, TypeOK
  <2>2. /\ ev' \in [Clients -> Event \cup {None}]
        /\ \A d \in Clients : ev'[d] # None <=> pc'[d] = "write"
    BY <1>0, <1>3, <1>4, <1>5 DEF IInv, TypeOK
  <2> QED
    BY <1>0, <1>3, <1>4, <2>1, <2>2 DEF IInv, TypeOK
<1>7. LoopHoldsLock'
  BY <1>0 DEF IInv, LoopHoldsLock
<1>8. Numbered'
  <2>1. \A d \in Clients, p \in Publishers, n \in Nat : Below(d, p, n) => Below(d, p, n)'
    BY <1>0, <1>1, <1>3, <1>5 DEF Below
  <2>2. \A p \in Publishers : no[p] \in Nat /\ no[p] + 1 \in Nat
    BY DEF IInv, TypeOK
  <2> QED
    BY <1>0, <2>1, <2>2 DEF IInv, Numbered
<1>9. EventsInOrder'
  <2>0. InOrder(c) /\ ch[c] \in Seq(Event)
    BY DEF IInv, TypeOK, EventsInOrder
  <2>1. \A p \in Publishers :
          /\ Reached(c, p) \in Nat /\ last'[c][p] \in Nat
          /\ last'[c][p] <= Reached(c, p)
    <3> SUFFICES ASSUME NEW p \in Publishers
                 PROVE  /\ Reached(c, p) \in Nat /\ last'[c][p] \in Nat
                        /\ last'[c][p] <= Reached(c, p)
      OBVIOUS
    <3>1. last[c][q] \in Nat /\ last[c][p] \in Nat /\ k > last[c][q]
      BY <1>0, <1>1, <2>0 DEF IInv, TypeOK, InOrder
    <3> QED
      BY <1>0, <1>1, <1>3, <3>1 DEF Reached
  <2>2. ASSUME NEW i \in 1..Len(ch[c])
        PROVE  ch[c][i][2] > last'[c][ch[c][i][1]]
    <3>1. ch[c][i][1] \in Publishers /\ ch[c][i][2] \in Nat
      BY <2>0 DEF Event
    <3>2. ch[c][i][2] > Reached(c, ch[c][i][1])
      BY <2>0 DEF InOrder
    <3> QED
      BY <2>1, <3>1, <3>2
  <2>3. InOrder(c)'
    <3>1. \A i \in 1..Len(ch[c]) : Reached(c, ch[c][i][1])' = last'[c][ch[c][i][1]]
      BY <1>0, <1>5 DEF Reached
    <3> QED
      BY <1>0, <1>5, <2>0, <2>2, <3>1 DEF InOrder
  <2>4. \A d \in Clients \ {c} : InOrder(d)'
    BY <1>0, <1>3, FrameInOrder DEF IInv, EventsInOrder
  <2> QED
    BY <2>3, <2>4 DEF EventsInOrder
<1> QED
  BY <1>6, <1>7, <1>8, <1>9 DEF IInv

\* The steps that change neither a channel nor what a dashboard has got.
LEMMA HandlerIInv ==
  ASSUME IInv, NEW c \in Clients,
         Connect(c) \/ Register(c) \/ ReadFails(c) \/ SeeClosed(c) \/ Leave(c) \/ Close(c)
  PROVE  IInv'
<1>0. UNCHANGED <<ev, last, ch, publishers>>
  BY DEF Connect, Register, ReadFails, SeeClosed, Leave, Close
<1>1. TypeOK'
  <2>1. CASE Connect(c)
    BY <2>1 DEF IInv, TypeOK, Connect, Goto, publishers
  <2>2. CASE Register(c)
    BY <2>2 DEF IInv, TypeOK, Register, Goto, publishers
  <2>3. CASE ReadFails(c)
    BY <2>3 DEF IInv, TypeOK, ReadFails, publishers
  <2>4. CASE SeeClosed(c)
    BY <2>4 DEF IInv, TypeOK, SeeClosed, Goto, publishers
  <2>5. CASE Leave(c)
    BY <2>5 DEF IInv, TypeOK, Leave, Goto, publishers
  <2>6. CASE Close(c)
    BY <2>6 DEF IInv, TypeOK, Close, Goto, publishers
  <2> QED
    BY <2>1, <2>2, <2>3, <2>4, <2>5, <2>6
<1>2. LoopHoldsLock'
  <2>1. CASE Leave(c)
    BY <2>1 DEF IInv, LoopHoldsLock, Leave, NoReader, publishers
  <2>2. CASE ~Leave(c)
    <3>1. clients \subseteq clients'
      BY <2>2 DEF Connect, Register, ReadFails, SeeClosed, Close
    <3> QED
      BY <1>0, <3>1 DEF IInv, LoopHoldsLock, publishers
  <2> QED
    BY <2>1, <2>2
<1>3. Numbered' /\ EventsInOrder'
  BY <1>0 DEF IInv, Numbered, Below, EventsInOrder, InOrder, Reached, publishers
<1> QED
  BY <1>1, <1>2, <1>3 DEF IInv

LEMMA NextIInv == IInv /\ [Next]_vars => IInv'
<1> SUFFICES ASSUME IInv, [Next]_vars PROVE IInv'
  OBVIOUS
<1>1. CASE \E p \in Publishers : Publish(p) \/ Send(p) \/ Unlock(p)
  BY <1>1, PublishIInv, SendIInv, UnlockIInv
<1>2. CASE \E c \in Clients : Receive(c) \/ Write(c)
  BY <1>2, ReceiveIInv, WriteIInv
<1>3. CASE \E c \in Clients :
             \/ Connect(c) \/ Register(c) \/ ReadFails(c)
             \/ SeeClosed(c) \/ Leave(c) \/ Close(c)
  BY <1>3, HandlerIInv
<1>4. CASE UNCHANGED vars
  BY <1>4
  DEF IInv, TypeOK, LoopHoldsLock, Numbered, Below, EventsInOrder, InOrder, Reached,
      vars, handlers, publishers
<1> QED
  BY <1>1, <1>2, <1>3, <1>4 DEF Next, Loop, Pump

LEMMA Invariance == Spec => []IInv
<1> QED
  BY InitIInv, NextIInv, PTL DEF Spec

\* The types: no channel over its capacity, and the hub's map against the
\* handlers that run.
THEOREM TypeCorrect == Spec => []TypeOK
<1>1. IInv => TypeOK
  BY DEF IInv
<1> QED
  BY <1>1, Invariance, PTL

\* No publisher reaches a channel that a handler has closed.
THEOREM NoPanic == Spec => []NoSendOnClosed
<1>1. IInv => NoSendOnClosed
  BY DEF IInv, TypeOK, LoopHoldsLock, NoSendOnClosed
<1> QED
  BY <1>1, Invariance, PTL

\* A dashboard gets the events of a publisher in their order, each once.
THEOREM DashboardInOrder == Spec => []EventsInOrder
<1>1. IInv => EventsInOrder
  BY DEF IInv
<1> QED
  BY <1>1, Invariance, PTL

-----------------------------------------------------------------------------
(* The refinement: each step of the hub is one of the stream, or changes   *)
(* nothing of it.                                                          *)

LEMMA WriteDelivers ==
  ASSUME IInv, NEW c \in Clients, Write(c)
  PROVE  [Stream!Next]_Stream!vars
<1>1. UNCHANGED <<clients, no>> /\ pc[c] = "write" /\ pc'[c] \in {"pump", "leave"}
      /\ \A d \in Clients \ {c} : pc'[d] = pc[d]
  BY DEF IInv, TypeOK, Write, Goto, publishers
<1>2. Line' = Line
  BY <1>1 DEF Line
<1>3. c \in clients
  BY <1>1 DEF IInv, TypeOK
<1>4. CASE UNCHANGED last
  BY <1>1, <1>2, <1>4 DEF Stream!vars
<1>5. CASE last' = [last EXCEPT ![c][ev[c][1]] = ev[c][2]]
  <2> DEFINE p == ev[c][1]
             n == ev[c][2]
  <2>1. ev[c] # None /\ ev[c] \in Event
    BY <1>1 DEF IInv, TypeOK
  <2>2. p \in Publishers /\ n \in Nat
    BY <2>1 DEF Event
  <2>3. last[c][p] \in Nat /\ no[p] \in Nat
    BY <2>2 DEF IInv, TypeOK
  <2>4. n > last[c][p]
    BY <2>1 DEF IInv, EventsInOrder, InOrder
  <2>5. n < no[p] + 1
    BY <2>1, <2>2 DEF IInv, Numbered, Below
  <2>6. n \in (last[c][p] + 1)..no[p]
    BY <2>2, <2>3, <2>4, <2>5
  <2>7. Line[c] = "on"
    BY <1>3 DEF Line
  <2>8. Stream!Deliver(c, p)
    BY <1>1, <1>2, <1>5, <2>6, <2>7 DEF Stream!Deliver
  <2> QED
    BY <2>2, <2>8 DEF Stream!Next
<1> QED
  BY <1>4, <1>5 DEF Write

LEMMA StepStream == IInv /\ [Next]_vars => [Stream!Next]_Stream!vars
<1> SUFFICES ASSUME IInv, [Next]_vars PROVE [Stream!Next]_Stream!vars
  OBVIOUS
<1>0. clients = {c \in Clients : pc[c] \in {"pump", "write", "leave"}}
      /\ pc \in [Clients -> {"idle", "register", "pump", "write", "leave", "close", "gone"}]
  BY DEF IInv, TypeOK
<1>1. ASSUME NEW p \in Publishers, Publish(p) PROVE Stream!Next
  <2>1. no' = [no EXCEPT ![p] = @ + 1] /\ UNCHANGED <<clients, pc, last>>
    BY <1>1 DEF Publish, handlers
  <2>2. Stream!Emit(p)
    BY <2>1 DEF Stream!Emit, Line
  <2> QED
    BY <2>2 DEF Stream!Next
<1>2. ASSUME NEW p \in Publishers, Loop(p) PROVE UNCHANGED <<clients, pc, no, last>>
  BY <1>2 DEF Loop, Send, Unlock, handlers
<1>3. ASSUME NEW c \in Clients, Register(c) PROVE Stream!Next
  <2>1. /\ c \notin clients /\ Line[c] = "new"
        /\ clients' = clients \cup {c}
        /\ pc' = [pc EXCEPT ![c] = "pump"] /\ UNCHANGED <<no, last>>
    BY <1>0, <1>3 DEF Register, Goto, Line, publishers
  <2>2. Line' = [Line EXCEPT ![c] = "on"]
    BY <1>0, <2>1 DEF Line
  <2>3. Stream!Subscribe(c)
    BY <2>1, <2>2 DEF Stream!Subscribe, Stream!Move
  <2> QED
    BY <2>3 DEF Stream!Next
<1>4. ASSUME NEW c \in Clients, Leave(c) PROVE Stream!Next
  <2>1. /\ c \in clients /\ Line[c] = "on"
        /\ clients' = clients \ {c}
        /\ pc' = [pc EXCEPT ![c] = "close"] /\ UNCHANGED <<no, last>>
    BY <1>0, <1>4 DEF Leave, Goto, Line, publishers
  <2>2. Line' = [Line EXCEPT ![c] = "off"]
    BY <1>0, <2>1 DEF Line
  <2>3. Stream!Drop(c)
    BY <2>1, <2>2 DEF Stream!Drop, Stream!Move
  <2> QED
    BY <2>3 DEF Stream!Next
<1>5. ASSUME NEW c \in Clients,
             Connect(c) \/ ReadFails(c) \/ Receive(c) \/ SeeClosed(c) \/ Close(c)
      PROVE  UNCHANGED <<Line, no, last>>
  <2>1. UNCHANGED <<clients, no, last>>
    BY <1>5 DEF Connect, ReadFails, Receive, SeeClosed, Close, publishers
  <2>2. \A d \in Clients : d \in clients \/
          (pc'[d] \in {"idle", "register"} <=> pc[d] \in {"idle", "register"})
    BY <1>0, <1>5 DEF Connect, ReadFails, Receive, SeeClosed, Close, Goto
  <2> QED
    BY <2>1, <2>2 DEF Line
<1>6. CASE UNCHANGED vars
  BY <1>6 DEF vars, handlers, publishers, Line, Stream!vars
<1>7. UNCHANGED <<clients, pc, no, last>> => UNCHANGED Stream!vars
  BY DEF Line, Stream!vars
<1>8. UNCHANGED <<Line, no, last>> => UNCHANGED Stream!vars
  BY DEF Stream!vars
<1> QED
  BY <1>1, <1>2, <1>3, <1>4, <1>5, <1>6, <1>7, <1>8, WriteDelivers DEF Next, Pump

\* For any connections, publishers, events and capacity the hub is the stream:
\* a dashboard gets an event at most once, in order, after it was published
\* and while it is subscribed.
THEOREM HubIsStream == Spec => StreamSpec
<1>1. Init => Stream!Init
  BY DEF Init, Stream!Init, Line
<1> QED
  BY <1>1, StepStream, Invariance, PTL DEF Spec, StreamSpec, Stream!Spec

-----------------------------------------------------------------------------
(* No publisher is held up: what PublishEnds says, without the fairness.   *)

\* The hub has finitely many clients at any time, whoever may still come.
FewClients == IsFiniteSet(clients)

\* A publisher's loop and the unlock after it.
StepsLeft(p) == IF ppc[p] = "range" THEN Cardinality(todo[p]) + 1 ELSE 0
PublishRunsOut ==
  [][\A p \in Publishers : ppc[p] = "range" =>
       /\ StepsLeft(p)' <= StepsLeft(p)
       /\ Loop(p) => StepsLeft(p)' < StepsLeft(p)]_vars

LEMMA FewClientsInvariance == Spec => []FewClients
<1>1. Init => FewClients
  BY FS_EmptySet DEF Init, FewClients
<1>2. FewClients /\ [Next]_vars => FewClients'
  <2> SUFFICES ASSUME FewClients, [Next]_vars PROVE FewClients'
    OBVIOUS
  <2>1. CASE UNCHANGED clients
    BY <2>1 DEF FewClients
  <2>2. ASSUME NEW c \in Clients, Register(c) \/ Leave(c) PROVE FewClients'
    BY <2>2, FS_AddElement, FS_RemoveElement DEF FewClients, Register, Leave
  <2>3. ASSUME NEW c \in Clients,
               Connect(c) \/ ReadFails(c) \/ Receive(c) \/ SeeClosed(c) \/ Close(c)
               \/ Write(c)
        PROVE  UNCHANGED clients
    BY <2>3 DEF Connect, ReadFails, Receive, SeeClosed, Close, Write
  <2>4. ASSUME NEW p \in Publishers, Publish(p) \/ Loop(p) PROVE UNCHANGED clients
    BY <2>4 DEF Publish, Loop, Send, Unlock, handlers
  <2>5. CASE UNCHANGED vars
    BY <2>1, <2>5 DEF vars, handlers
  <2> QED
    BY <2>1, <2>2, <2>3, <2>4, <2>5 DEF Next, Pump
<1> QED
  BY <1>1, <1>2, PTL DEF Spec

LEMMA LoopIsShorter ==
  ASSUME IInv, FewClients, NEW p \in Publishers, Loop(p)
  PROVE  /\ \A q \in Publishers \ {p} : StepsLeft(q)' = StepsLeft(q)
         /\ StepsLeft(p)' < StepsLeft(p)
<1>0. /\ ppc \in [Publishers -> {"idle", "range"}]
      /\ todo \in [Publishers -> SUBSET Clients]
      /\ todo[p] \subseteq clients /\ (ppc[p] = "idle" => todo[p] = {})
  BY DEF IInv, TypeOK, LoopHoldsLock
<1>1. IsFiniteSet(todo[p]) /\ Cardinality(todo[p]) \in Nat
  BY <1>0, FS_Subset, FS_CardinalityType DEF FewClients
<1>2. CASE Send(p)
  <2>1. PICK c \in todo[p] : todo' = [todo EXCEPT ![p] = @ \ {c}]
    BY <1>2 DEF Send
  <2>2. ppc' = ppc /\ ppc[p] = "range"
    BY <1>0, <1>2, <2>1 DEF Send
  <2>3. Cardinality(todo[p] \ {c}) = Cardinality(todo[p]) - 1
    BY <1>1, FS_RemoveElement
  <2> QED
    BY <1>0, <1>1, <2>1, <2>2, <2>3 DEF StepsLeft
<1>3. CASE Unlock(p)
  <2>1. ppc' = [ppc EXCEPT ![p] = "idle"] /\ todo' = todo /\ ppc[p] = "range"
    BY <1>3 DEF Unlock
  <2> QED
    BY <1>0, <1>1, <2>1 DEF StepsLeft
<1> QED
  BY <1>2, <1>3 DEF Loop

\* Neither a full channel nor a handler that hangs, comes or goes lengthens
\* the loop of a publisher: it has a step for each client it found, and one
\* for the lock.
THEOREM PublishesRunOut == Spec => PublishRunsOut
<1> DEFINE Shorter == \A p \in Publishers : ppc[p] = "range" =>
                        /\ StepsLeft(p)' <= StepsLeft(p)
                        /\ Loop(p) => StepsLeft(p)' < StepsLeft(p)
<1>1. IInv /\ FewClients /\ [Next]_vars => [Shorter]_vars
  <2> SUFFICES ASSUME IInv, FewClients, Next,
                      NEW p \in Publishers, ppc[p] = "range"
               PROVE  /\ StepsLeft(p)' <= StepsLeft(p)
                      /\ Loop(p) => StepsLeft(p)' < StepsLeft(p)
    OBVIOUS
  <2>1. StepsLeft(p) \in Nat
    <3>1. IsFiniteSet(todo[p])
      BY FS_Subset DEF IInv, LoopHoldsLock, FewClients
    <3> QED
      BY <3>1, FS_CardinalityType DEF StepsLeft
  <2>2. CASE Loop(p)
    <3>1. StepsLeft(p)' < StepsLeft(p)
      BY <2>2, LoopIsShorter
    <3>2. IsFiniteSet(todo'[p]) /\ StepsLeft(p)' \in Nat
      <4>1. IsFiniteSet(todo[p]) /\ todo'[p] \subseteq todo[p]
        <5>1. IsFiniteSet(todo[p])
          BY FS_Subset DEF IInv, LoopHoldsLock, FewClients
        <5>2. todo \in [Publishers -> SUBSET Clients]
          BY DEF IInv, TypeOK
        <5> QED
          BY <2>2, <5>1, <5>2 DEF Loop, Send, Unlock
      <4> QED
        BY <4>1, FS_Subset, FS_CardinalityType DEF StepsLeft
    <3> QED
      BY <2>1, <3>1, <3>2
  <2>3. CASE \E q \in Publishers \ {p} : Loop(q)
    BY <2>1, <2>3, LoopIsShorter
  <2>4. CASE \E q \in Publishers : Publish(q)
    <3>1. PICK q \in Publishers : Publish(q)
      BY <2>4
    <3>2. q # p /\ ppc'[p] = ppc[p] /\ todo'[p] = todo[p]
      BY <3>1 DEF IInv, TypeOK, Publish
    <3> QED
      BY <2>1, <2>2, <3>2 DEF StepsLeft
  <2>5. CASE \E c \in Clients : Connect(c) \/ Register(c) \/ ReadFails(c) \/ Pump(c) \/ Write(c)
    <3>1. UNCHANGED publishers
      BY <2>5
      DEF Connect, Register, ReadFails, Pump, Receive, SeeClosed, Leave, Close, Write
    <3>2. StepsLeft(p)' = StepsLeft(p)
      BY <3>1 DEF publishers, StepsLeft
    <3> QED
      BY <2>1, <2>2, <3>2
  <2> QED
    BY <2>2, <2>3, <2>4, <2>5 DEF Next
<1> QED
  BY <1>1, Invariance, FewClientsInvariance, PTL DEF Spec, PublishRunsOut
=============================================================================
