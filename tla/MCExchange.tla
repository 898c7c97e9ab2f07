------------------------------- MODULE MCExchange -------------------------------
(* Two users of this process and a foreign peer. *)
EXTENDS Exchange, TLC

CONSTANTS u, v, f, r1, r2, r3, r4

\* A request of each user to the foreign peer, one between the users, and one the
\* foreign peer makes.
MCFrom == [m \in Messages |-> CASE m \in {r1, r3} -> u [] m = r2 -> v [] m = r4 -> f]
MCTo == [m \in Messages |-> CASE m \in {r1, r2} -> f [] m = r3 -> v [] m = r4 -> u]

\* What decides the further steps and the properties: all but the samples, of which
\* only the trips of foreign peers are counted, and how many receipts came early.
Deciding == <<now, lastSweep, rtt, fanExpected, fanArrived, foreignSends, foreignRecv,
              [kind \in Kinds |-> Len(foreignRTT[kind])], foreignPend, foreignPendAt,
              traffic, early = 0, perKind>>
===============================================================================
