----------------------------- MODULE ForeignLedger -----------------------------
(***************************************************************************)
(* The real-user-sync ledger of report.Collector: sends to peers that do   *)
(* not belong to this process (they never receipt into its registry), and  *)
(* the pending direct round trips, one per request kind and peer.  Each    *)
(* operator is what one call does under Collector.mu.                      *)
(***************************************************************************)
EXTENDS Integers, Sequences, FiniteSets, Functions

CONSTANTS Kinds,        \* kinds of messages sent to foreign peers
          Peers,        \* foreign peers
          SweepEvery,   \* deliverySweepEvery, in clock ticks
          TTL           \* foreignPendTTL, in clock ticks

VARIABLES foreignSends,   \* sends to foreign peers, per kind
          foreignRecv,    \* responses of foreign peers, per kind
          foreignRTT,     \* direct round trips, per request kind
          foreignPend,    \* pending requests: <<kind, peer>> -> time of the send
          foreignPendAt   \* time of the last inline sweep

foreignVars == <<foreignSends, foreignRecv, foreignRTT, foreignPend, foreignPendAt>>

Init ==
  /\ foreignSends = [kind \in Kinds |-> 0]
  /\ foreignRecv = [kind \in Kinds |-> 0]
  /\ foreignRTT = [kind \in Kinds |-> <<>>]
  /\ foreignPend = <<>>
  /\ foreignPendAt = -(SweepEvery + 1)   \* the zero time

SweepDue(at) == at - foreignPendAt > SweepEvery

\* The pendings left once RecordForeignSend has swept.
UnexpiredMutant(at) == {key \in DOMAIN foreignPend :
                          ~(SweepDue(at) /\ foreignPend[key] < foreignPendAt - TTL)}
Unexpired(at) == {key \in DOMAIN foreignPend :
                    ~(SweepDue(at) /\ foreignPend[key] < at - TTL)}

(***************************************************************************)
(* RecordForeignSend: count, sweep when due, and with a pendKey register   *)
(* or renew the peer's pending.                                            *)
(***************************************************************************)
RecordForeignSend(kind, to, at, pending) ==
  LET added == IF pending THEN {<<kind, to>>} ELSE {} IN
  /\ foreignSends' = [foreignSends EXCEPT ![kind] = @ + 1]
  /\ foreignPendAt' = IF SweepDue(at) THEN at ELSE foreignPendAt
  /\ foreignPend' = [key \in Unexpired(at) \cup added |->
                       IF key \in added THEN at ELSE foreignPend[key]]
  /\ UNCHANGED <<foreignRecv, foreignRTT>>

(***************************************************************************)
(* RecordForeignRecv: under one lock count the response and take the       *)
(* peer's pending away, then append the time between, unless it is         *)
(* negative, under another.                                                *)
(***************************************************************************)
ResolvedMutant(key) == foreignPend
Resolved(key) == Restrict(foreignPend, DOMAIN foreignPend \ {key})

\* The one trip a response with stamp `at` measures, if any.
Trip(pendKind, from, at) ==
  {at - foreignPend[key] : key \in {<<pendKind, from>>} \cap DOMAIN foreignPend} \cap Nat

RecordForeignRecv(kind, pendKind, from) ==
  /\ foreignRecv' = [foreignRecv EXCEPT ![kind] = @ + 1]
  /\ foreignPend' = Resolved(<<pendKind, from>>)
  /\ UNCHANGED <<foreignSends, foreignRTT, foreignPendAt>>

AppendTrip(pendKind, trip) ==
  /\ foreignRTT' = [foreignRTT EXCEPT ![pendKind] = Append(@, trip)]
  /\ UNCHANGED <<foreignSends, foreignRecv, foreignPend, foreignPendAt>>

-------------------------------------------------------------------------------
TypeOK ==
  /\ foreignSends \in [Kinds -> Nat] /\ foreignRecv \in [Kinds -> Nat]
  /\ foreignRTT \in [Kinds -> Seq(Nat)]
  /\ DOMAIN foreignPend \subseteq Kinds \X Peers
  /\ foreignPend \in [DOMAIN foreignPend -> Nat]
  /\ foreignPendAt \in Int

\* "replacing any prior entry (no double-counting)": every sample and every
\* pending has a send of its own.
NoDoubleCounting ==
  \A kind \in Kinds :
    Len(foreignRTT[kind])
      + Cardinality({key \in DOMAIN foreignPend : key[1] = kind})
      <= foreignSends[kind]

\* After a call with stamp `at` no pending is older than the TTL and the sweep
\* interval together.
SweptAt(at) ==
  \A key \in DOMAIN foreignPend' : at - foreignPend'[key] <= TTL + SweepEvery
===============================================================================
