------------------------------- MODULE WsHub -------------------------------
(***************************************************************************)
(* The dashboard hub: publishers that range over the client map under the  *)
(* read lock, and for each connection the handler that registers, pumps    *)
(* events from its channel to the socket and cleans up, next to the        *)
(* goroutine that only reads the socket to learn that it is gone.          *)
(*                                                                         *)
(* An operator named Mutant... is no part of the specification: it is the  *)
(* definition after it with a plausible bug, which some property has to    *)
(* tell from the code.                                                     *)
(***************************************************************************)
EXTENDS Naturals, Sequences

CONSTANTS
  Clients,     \* connections, each made once
  Publishers,  \* goroutines that call Publish, one event after the other
  Capacity,    \* the buffer of a client's channel, 16
  MaxEvents,   \* bound on the events of each publisher
  None         \* no event

Event == Publishers \X (Nat \ {0})

ASSUME HubAssumption ==
  /\ Capacity \in Nat \ {0} /\ None \notin Event
  /\ MaxEvents \in [Publishers -> Nat]

VARIABLES
  clients,  \* the keys of hub.clients
  ch,       \* the channel of each client
  closed,   \* the channels that are closed
  cls,      \* the clients whose reader has closed wsc.cls
  pc,       \* each handler: "idle", at Lock to "register", in the "pump", in
            \* writeText ("write"), at Lock to "leave", at close(ch) or "gone"
  ev,       \* the event it writes
  no,       \* the number of events each publisher has begun to publish
  ppc,      \* each publisher: "idle" or in the "range" loop, with the read lock
  todo,     \* the clients its loop has not come to yet
  \* history
  last      \* the last event of each publisher that reached each dashboard

handlers   == <<clients, closed, cls, pc, ev, last>>
publishers == <<no, ppc, todo>>
vars       == <<handlers, ch, publishers>>

Init ==
  /\ clients = {} /\ closed = {} /\ cls = {}
  /\ ch = [c \in Clients |-> <<>>]
  /\ pc = [c \in Clients |-> "idle"] /\ ev = [c \in Clients |-> None]
  /\ no = [p \in Publishers |-> 0]
  /\ ppc = [p \in Publishers |-> "idle"] /\ todo = [p \in Publishers |-> {}]
  /\ last = [c \in Clients |-> [p \in Publishers |-> 0]]

Goto(c, step) == pc' = [pc EXCEPT ![c] = step]

\* sync.RWMutex: a writer waits for the readers, and a writer that waits
\* keeps new readers out.
NoReader == \A p \in Publishers : ppc[p] = "idle"
NoWriterWaits == \A c \in Clients : pc[c] \notin {"register", "leave"}

-----------------------------------------------------------------------------
(* Hub.Publish.                                                            *)
Publish(p) ==
  /\ ppc[p] = "idle" /\ no[p] < MaxEvents[p] /\ NoWriterWaits
  /\ ppc' = [ppc EXCEPT ![p] = "range"]
  /\ no' = [no EXCEPT ![p] = @ + 1]
  /\ todo' = [todo EXCEPT ![p] = clients]
  /\ UNCHANGED <<handlers, ch>>

\* The select has no default case: a full channel holds the loop up.
MutantOffer(c, e) ==
  Len(ch[c]) < Capacity /\ ch' = [ch EXCEPT ![c] = Append(@, e)]

\* A full channel loses the event.
Offer(c, e) ==
  ch' = [ch EXCEPT ![c] = IF Len(@) < Capacity THEN Append(@, e) ELSE @]

\* A map is ranged over in no particular order.
Send(p) ==
  /\ \E c \in todo[p] :
       /\ Offer(c, <<p, no[p]>>)
       /\ todo' = [todo EXCEPT ![p] = @ \ {c}]
  /\ UNCHANGED <<handlers, no, ppc>>

Unlock(p) ==
  /\ ppc[p] = "range" /\ todo[p] = {}
  /\ ppc' = [ppc EXCEPT ![p] = "idle"]
  /\ UNCHANGED <<handlers, ch, no, todo>>

-----------------------------------------------------------------------------
(* wsHandler, from the end of the handshake on.                            *)
Connect(c) ==
  /\ pc[c] = "idle" /\ Goto(c, "register")
  /\ UNCHANGED <<clients, closed, cls, ev, last, ch, publishers>>

Register(c) ==
  /\ pc[c] = "register" /\ NoReader
  /\ clients' = clients \cup {c}
  /\ Goto(c, "pump")
  /\ UNCHANGED <<closed, cls, ev, last, ch, publishers>>

\* The reader's goroutine, which ignores whatever it can read.
ReadFails(c) ==
  /\ pc[c] \notin {"idle", "register"} /\ c \notin cls
  /\ cls' = cls \cup {c}
  /\ UNCHANGED <<clients, closed, pc, ev, last, ch, publishers>>

\* With both cases ready, the select takes any.  An event json cannot encode
\* is passed over.
Receive(c) ==
  /\ pc[c] = "pump" /\ ch[c] # <<>>
  /\ ch' = [ch EXCEPT ![c] = Tail(@)]
  /\ \/ ev' = [ev EXCEPT ![c] = Head(ch[c])] /\ Goto(c, "write")
     \/ UNCHANGED <<ev, pc>>
  /\ UNCHANGED <<clients, closed, cls, last, publishers>>

\* The reader's signal is looked at after an event only.
MutantSeeClosed(c) ==
  /\ pc[c] = "pump" /\ c \in cls /\ ch[c] # <<>> /\ Goto(c, "leave")
  /\ UNCHANGED <<clients, closed, cls, ev, last, ch, publishers>>

SeeClosed(c) ==
  /\ pc[c] = "pump" /\ c \in cls /\ Goto(c, "leave")
  /\ UNCHANGED <<clients, closed, cls, ev, last, ch, publishers>>

\* An event that could not be written goes back to the queue.
MutantWrite(c) ==
  /\ pc[c] = "write" /\ Goto(c, "pump")
  /\ \/ last' = [last EXCEPT ![c][ev[c][1]] = ev[c][2]] /\ UNCHANGED ch
     \/ ch' = [ch EXCEPT ![c] = IF Len(@) < Capacity THEN Append(@, ev[c]) ELSE @]
        /\ UNCHANGED last
  /\ ev' = [ev EXCEPT ![c] = None]
  /\ UNCHANGED <<clients, closed, cls, publishers>>

Write(c) ==
  /\ pc[c] = "write"
  /\ \/ last' = [last EXCEPT ![c][ev[c][1]] = ev[c][2]] /\ Goto(c, "pump")
     \/ UNCHANGED last /\ Goto(c, "leave")
  /\ ev' = [ev EXCEPT ![c] = None]
  /\ UNCHANGED <<clients, closed, cls, ch, publishers>>

\* The map is written without the lock.
MutantLeave(c) ==
  /\ pc[c] = "leave"
  /\ clients' = clients \ {c}
  /\ Goto(c, "close")
  /\ UNCHANGED <<closed, cls, ev, last, ch, publishers>>

Leave(c) ==
  /\ pc[c] = "leave" /\ NoReader
  /\ clients' = clients \ {c}
  /\ Goto(c, "close")
  /\ UNCHANGED <<closed, cls, ev, last, ch, publishers>>

Close(c) ==
  /\ pc[c] = "close" /\ Goto(c, "gone")
  /\ closed' = closed \cup {c}
  /\ UNCHANGED <<clients, cls, ev, last, ch, publishers>>

Loop(p) == Send(p) \/ Unlock(p)
Pump(c) == Receive(c) \/ SeeClosed(c) \/ Leave(c) \/ Close(c)

Next ==
  \/ \E p \in Publishers : Publish(p) \/ Loop(p)
  \/ \E c \in Clients : Connect(c) \/ Register(c) \/ ReadFails(c) \/ Pump(c) \/ Write(c)

Spec == Init /\ [][Next]_vars

\* Goroutines are scheduled.  A write to a socket may take for ever, and
\* nobody has to connect, to publish or to go away.
FairSpec ==
  /\ Spec
  /\ \A p \in Publishers : WF_vars(Loop(p))
  /\ \A c \in Clients : WF_vars(Pump(c))

-----------------------------------------------------------------------------
(* Properties.                                                             *)

\* Every variable has its type, no channel is over its capacity, and the hub
\* knows the clients whose handler runs.
TypeOK ==
  /\ clients = {c \in Clients : pc[c] \in {"pump", "write", "leave"}}
  /\ closed = {c \in Clients : pc[c] = "gone"} /\ cls \subseteq Clients
  /\ ch \in [Clients -> Seq(Event)] /\ \A c \in Clients : Len(ch[c]) <= Capacity
  /\ pc \in [Clients -> {"idle", "register", "pump", "write", "leave", "close", "gone"}]
  /\ ev \in [Clients -> Event \cup {None}]
  /\ \A c \in Clients : ev[c] # None <=> pc[c] = "write"
  /\ no \in [Publishers -> Nat]
  /\ ppc \in [Publishers -> {"idle", "range"}]
  /\ todo \in [Publishers -> SUBSET Clients]
  /\ last \in [Clients -> [Publishers -> Nat]]

\* No publisher is about to send on a closed channel, which would panic,
\* although handlers leave at any time and the channel is closed without the
\* lock.
NoSendOnClosed == \A p \in Publishers : todo[p] \cap closed = {}

\* What a dashboard still gets from a publisher is newer than what it has
\* got, and in order: events are lost, never repeated or reordered.
Reached(c, p) ==
  IF ev[c] # None /\ ev[c][1] = p THEN ev[c][2] ELSE last[c][p]
InOrder(c) ==
  /\ ev[c] # None => ev[c][2] > last[c][ev[c][1]]
  /\ \A i \in 1..Len(ch[c]) : ch[c][i][2] > Reached(c, ch[c][i][1])
  /\ \A i, j \in 1..Len(ch[c]) :
       i < j /\ ch[c][i][1] = ch[c][j][1] => ch[c][i][2] < ch[c][j][2]
EventsInOrder == \A c \in Clients : InOrder(c)

\* The subscription of a dashboard, as the client map has it.
Line == [c \in Clients |->
           IF c \in clients THEN "on"
           ELSE IF pc[c] \in {"idle", "register"} THEN "new" ELSE "off"]

\* What reaches the dashboards is the stream the hub promises: with full
\* channels, slow writes and handlers that go at any time, none of them gets an
\* event twice, out of order, before it was published or after its end.
Stream == INSTANCE WsStream WITH line <- Line, sent <- no, got <- last
StreamSpec == Stream!Spec

\* A dashboard that no longer reads its socket holds no publisher up.
PublishEnds == \A p \in Publishers : (ppc[p] = "range") ~> (ppc[p] = "idle")

\* A connection whose reader has failed leaves the hub, unless its handler
\* hangs in a write.
ClosedLeaves ==
  \A c \in Clients : (c \in cls) ~> (c \notin clients \/ pc[c] = "write")

=============================================================================
