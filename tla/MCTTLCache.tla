----------------------------- MODULE MCTTLCache -----------------------------
(* Instances of TTLCache for TLC.                                          *)
EXTENDS TTLCache

CONSTANTS t1, t2, t3, t4, k1, k2

\* Calls that share a key, and one of a key of its own.
MCKeyOf == [t \in Tasks |-> IF t = t4 THEN k2 ELSE k1]

\* "concurrent gets for the same key share one in-flight fetch (the second
\* waits on the first's coroutine)": both calls come to an end.
SharedFetchEnds == \A t \in Tasks : (pc[t] = "await") ~> (pc[t] = "done")

=============================================================================
