------------------------------ MODULE FanLedger ------------------------------
(***************************************************************************)
(* What the summary's `fan=N%` figure promises, with nothing of how the    *)
(* collector arrives at it: per delivery kind a number of receipts that    *)
(* was promised and a number that arrived.  A promise only ever grows, and *)
(* a receipt is credited only while one is still owed, so the ratio never  *)
(* exceeds 100%.                                                           *)
(***************************************************************************)
EXTENDS Integers

CONSTANTS Kinds,     \* delivery kinds ("chat", "scene", "pubTrack", ...)
          FanSizes   \* the numbers of recipients one send may promise (at least 1)

VARIABLES promised, credited

ledgerVars == <<promised, credited>>

Init == /\ promised = [kind \in Kinds |-> 0]
        /\ credited = [kind \in Kinds |-> 0]

Promise(kind, n) ==
  /\ promised' = [promised EXCEPT ![kind] = @ + n]
  /\ UNCHANGED credited

Credit(kind) ==
  /\ credited[kind] < promised[kind]
  /\ credited' = [credited EXCEPT ![kind] = @ + 1]
  /\ UNCHANGED promised

Next == \E kind \in Kinds : Credit(kind) \/ \E n \in FanSizes : Promise(kind, n)

Spec == Init /\ [][Next]_ledgerVars
==============================================================================
