------------------------------ MODULE WsStream ------------------------------
(***************************************************************************)
(* What the hub promises a dashboard, without channels, locks and loops:   *)
(* of each publisher it gets some of the events that were published, each  *)
(* once and in their order, from its subscription until it is dropped,     *)
(* once and for all.                                                       *)
(***************************************************************************)
EXTENDS Naturals

CONSTANTS
  Clients,
  Publishers

VARIABLES
  line,  \* each dashboard: "new", "on" or "off"
  sent,  \* the number of events each publisher has published
  got    \* the last event of each publisher each dashboard has got

vars == <<line, sent, got>>

Init ==
  /\ line = [c \in Clients |-> "new"]
  /\ sent = [p \in Publishers |-> 0]
  /\ got = [c \in Clients |-> [p \in Publishers |-> 0]]

Move(c, from, to) == line[c] = from /\ line' = [line EXCEPT ![c] = to]

Subscribe(c) == Move(c, "new", "on") /\ UNCHANGED <<sent, got>>
Drop(c)      == Move(c, "on", "off") /\ UNCHANGED <<sent, got>>

Emit(p) ==
  /\ sent' = [sent EXCEPT ![p] = @ + 1]
  /\ UNCHANGED <<line, got>>

\* Events may be left out, and what has been left out does not come later.
Deliver(c, p) ==
  /\ line[c] = "on"
  /\ \E n \in (got[c][p] + 1)..sent[p] : got' = [got EXCEPT ![c][p] = n]
  /\ UNCHANGED <<line, sent>>

Next ==
  \/ \E c \in Clients : Subscribe(c) \/ Drop(c)
  \/ \E p \in Publishers : Emit(p)
  \/ \E c \in Clients, p \in Publishers : Deliver(c, p)

Spec == Init /\ [][Next]_vars
=============================================================================
