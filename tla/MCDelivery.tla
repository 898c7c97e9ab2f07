------------------------------ MODULE MCDelivery ------------------------------
(* Model values for checking Delivery with TLC. *)
EXTENDS Delivery
CONSTANTS a, b, c

\* What decides a room's further steps and the properties of the room: all but the
\* samples and the audiences, and what is remembered of the chats' receipts, which no
\* step reads.
Deciding == <<now, lastSweep, rtt, fanExpected, fanArrived, room, chat, churn,
              inbox, handling, faults, {u \in Users : <<"leave", u>> \in early},
              {<<u, got[<<"leave", u>>]>> : u \in Users}, promised, heard>>

\* Bound: once the window is over the clock stands still.
ClockStops == over => now = 0
===============================================================================
