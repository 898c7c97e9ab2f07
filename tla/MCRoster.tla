-------------------------------- MODULE MCRoster --------------------------------
(* A room of three; lists of one and two pages, one of them broken. *)
EXTENDS Roster

CONSTANTS me, p, q, bad

MCJoinedAt == (p :> 2) @@ (q :> 1)
MCLists == {<<<<p, me>>>>, <<<<p>>, <<q, me>>>>, <<<<q, bad, p>>>>}
===============================================================================
