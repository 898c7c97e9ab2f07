------------------------------ MODULE MCMemSampler ------------------------------
(* The two samplers of a run, of its own memory and of the machine.  They share *)
(* no state, so a behaviour takes either, and leaves the other as it is at the  *)
(* beginning.                                                                   *)
EXTENDS MemSampler, HostSampler, TLC

CONSTANTS p1, p2, server, tester

Symmetry == Permutations({p1, p2}) \cup Permutations({server, tester})

VARIABLE subject

MCInit == Init /\ HostInit /\ subject \in {"memory", "host"}

MCNext == \/ subject = "memory" /\ Next /\ UNCHANGED <<hostVars, subject>>
          \/ subject = "host" /\ HostNext /\ UNCHANGED <<vars, subject>>

MCSpec == MCInit /\ [][MCNext]_<<vars, hostVars, subject>>
===============================================================================
