----------------------------- MODULE ExchangeProofs -----------------------------
(***************************************************************************)
(* What the foreign ledger keeps for any number of users, foreign peers    *)
(* and messages, of copies on their way and of ticks between a time stamp  *)
(* and its lock: direct round trips are not counted twice, each entry of a *)
(* send leaves the pendings young, and foreign peers, who never report a   *)
(* receipt, take nothing off the figures of the private kinds.             *)
(***************************************************************************)
EXTENDS Exchange, TLAPS, FiniteSetTheorems

\* The pendings of one request kind.
Pendings(kind) == {pending \in DOMAIN foreignPend : pending[1] = kind}

\* Trips that are measured and not yet appended: only requests have any.
Underway(kind) == IF kind = "syncReq" THEN DOMAIN measured ELSE {}

Sound(kind) == Len(foreignRTT[kind]) + Cardinality(Underway(kind))
                 + Cardinality(Pendings(kind)) <= foreignSends[kind]

LedgerTypes ==
  /\ now \in Nat
  /\ foreignSends \in [Kinds -> Nat] /\ foreignRecv \in [Kinds -> Nat]
  /\ foreignRTT \in [Kinds -> Seq(Int)]
  /\ foreignPend \in [DOMAIN foreignPend -> Nat]
  /\ foreignPendAt \in Int

(***************************************************************************)
(* A handler is at one answer at a time: the pending of a message that is  *)
(* heard has not been taken.                                               *)
(***************************************************************************)
HandlerInv ==
  /\ heard \subseteq Messages /\ DOMAIN measured \subseteq Messages
  /\ measured \in [DOMAIN measured -> SUBSET Nat]
  /\ heard \cap DOMAIN measured = {}

(***************************************************************************)
(* The samples, the trips that are measured and the pendings of a kind are *)
(* no more than its sends.                                                 *)
(***************************************************************************)
LedgerInv ==
  /\ LedgerTypes /\ HandlerInv
  /\ IsFiniteSet(DOMAIN foreignPend)
  /\ \A kind \in Kinds : Sound(kind)

LEMMA BoundsAreNatural ==
  /\ SweepEvery \in Nat /\ PendTTL \in Nat /\ MaxTime \in Nat /\ MaxLag \in Nat
BY ExchangeAssumption

LEMMA PendingsAreFinite ==
  ASSUME LedgerInv, NEW kind
  PROVE  IsFiniteSet(Pendings(kind)) /\ Cardinality(Pendings(kind)) \in Nat
BY FS_Subset, FS_CardinalityType DEF LedgerInv, Pendings

LEMMA TripsAreFinite ==
  ASSUME HandlerInv, NEW kind
  PROVE  IsFiniteSet(Underway(kind)) /\ Cardinality(Underway(kind)) \in Nat
<1>1. Underway(kind) \in SUBSET Messages
  BY DEF HandlerInv, Underway
<1> QED  BY <1>1, ExchangeAssumption, FS_Subset, FS_CardinalityType

LEMMA LedgerInvInit == Init => LedgerInv
<1> SUFFICES ASSUME Init PROVE LedgerInv
  OBVIOUS
<1>1. now = 0 /\ foreignPend = <<>>
  BY DEF Init, Reg!Init, Led!Init
<1>2. LedgerTypes
  BY <1>1, BoundsAreNatural DEF Init, Led!Init, LedgerTypes
<1>3. DOMAIN foreignPend = {}
  BY <1>1
<1>4. HandlerInv /\ \A kind \in Kinds : Pendings(kind) = {} /\ Underway(kind) = {}
  BY <1>3 DEF Init, Pendings, Underway, HandlerInv
<1>5. ASSUME NEW kind \in Kinds PROVE Sound(kind)
  <2>1. Cardinality(Pendings(kind)) = 0 /\ Cardinality(Underway(kind)) = 0
    BY <1>4, <1>5, FS_EmptySet
  <2>2. foreignSends[kind] = 0 /\ foreignRTT[kind] = <<>>
    BY <1>5 DEF Init, Led!Init
  <2>3. Len(foreignRTT[kind]) = 0
    BY <2>2
  <2> QED  BY <2>1, <2>2, <2>3 DEF Sound
<1> QED  BY <1>2, <1>3, <1>4, <1>5, FS_EmptySet DEF LedgerInv

(***************************************************************************)
(* A send adds one to the sends of its kind, and at most one pending.      *)
(***************************************************************************)
LEMMA SendKeepsLedger ==
  ASSUME LedgerInv, UNCHANGED <<now, handler>>,
         NEW kind \in Kinds, NEW to, NEW at \in Nat, NEW pending \in BOOLEAN,
         Led!RecordForeignSend(kind, to, at, pending)
  PROVE  LedgerInv'
<1> DEFINE key == <<kind, to>>
           kept == Led!Unexpired(at)
<1> USE DEF LedgerInv, LedgerTypes
<1>0. HandlerInv' /\ \A k : Underway(k)' = Underway(k)
  BY DEF handler, HandlerInv, Underway
<1>1. kept \subseteq DOMAIN foreignPend
  BY DEF Led!Unexpired
<1>2. DOMAIN foreignPend' \subseteq kept \cup {key}
  BY DEF Led!RecordForeignSend
<1>3. IsFiniteSet(DOMAIN foreignPend')
  <2>1. IsFiniteSet(DOMAIN foreignPend \cup {key})
    BY FS_AddElement
  <2> QED  BY <1>1, <1>2, <2>1, FS_Subset
<1>4. LedgerTypes'
  <2>1. foreignSends' \in [Kinds -> Nat]
    BY DEF Led!RecordForeignSend
  <2>2. foreignPendAt' \in Int
    BY DEF Led!RecordForeignSend
  <2>3. foreignPend' \in [DOMAIN foreignPend' -> Nat]
    BY <1>1 DEF Led!RecordForeignSend
  <2> QED  BY <2>1, <2>2, <2>3 DEF Led!RecordForeignSend
<1>5. ASSUME NEW other \in Kinds PROVE Sound(other)'
  <2>1. /\ Cardinality(Pendings(other)) \in Nat /\ IsFiniteSet(Pendings(other))
        /\ Cardinality(Underway(other)) \in Nat
        /\ Cardinality(Underway(other)') = Cardinality(Underway(other))
    BY <1>0, PendingsAreFinite, TripsAreFinite
  <2>2. CASE other = kind
    <3>1. Pendings(other)' \subseteq Pendings(other) \cup {key}
      BY <1>1, <1>2 DEF Pendings
    <3>2. /\ IsFiniteSet(Pendings(other) \cup {key})
          /\ Cardinality(Pendings(other) \cup {key}) <= Cardinality(Pendings(other)) + 1
      <4> HIDE DEF key
      <4>1. /\ IsFiniteSet(Pendings(other) \cup {key})
            /\ \/ Cardinality(Pendings(other) \cup {key}) = Cardinality(Pendings(other))
               \/ Cardinality(Pendings(other) \cup {key}) = Cardinality(Pendings(other)) + 1
        BY <2>1, FS_AddElement
      <4> QED  BY <2>1, <4>1
    <3>3. /\ Cardinality(Pendings(other)') <= Cardinality(Pendings(other) \cup {key})
          /\ Cardinality(Pendings(other)') \in Nat
          /\ Cardinality(Pendings(other) \cup {key}) \in Nat
      BY <3>1, <3>2, FS_Subset, FS_CardinalityType
    <3>4. foreignSends'[other] = foreignSends[other] + 1 /\ foreignRTT' = foreignRTT
      BY <2>2 DEF Led!RecordForeignSend
    <3>5. Len(foreignRTT[other]) \in Nat /\ foreignSends[other] \in Nat
      OBVIOUS
    <3> QED  BY <2>1, <3>2, <3>3, <3>4, <3>5 DEF Sound
  <2>3. CASE other # kind
    <3>1. Pendings(other)' \subseteq Pendings(other)
      BY <1>1, <1>2, <2>3 DEF Pendings
    <3>2. /\ Cardinality(Pendings(other)') <= Cardinality(Pendings(other))
          /\ Cardinality(Pendings(other)') \in Nat
      BY <2>1, <3>1, FS_Subset, FS_CardinalityType
    <3>3. foreignSends'[other] = foreignSends[other] /\ foreignRTT' = foreignRTT
      BY <2>3 DEF Led!RecordForeignSend
    <3>4. Len(foreignRTT[other]) \in Nat /\ foreignSends[other] \in Nat
      OBVIOUS
    <3> QED  BY <2>1, <3>2, <3>3, <3>4 DEF Sound
  <2> QED  BY <2>2, <2>3
<1> QED  BY <1>0, <1>3, <1>4, <1>5

(***************************************************************************)
(* A response turns at most one pending into at most one trip.             *)
(***************************************************************************)
LEMMA ResponseKeepsLedger ==
  ASSUME LedgerInv, NEW m \in Messages, NEW at \in Nat, ResolvePending(m, at)
  PROVE  LedgerInv'
<1> DEFINE key == <<"syncReq", To[m]>>
           trip == Led!Trip("syncReq", To[m], at)
<1> USE DEF LedgerInv
<1>1. /\ DOMAIN foreignPend' = DOMAIN foreignPend \ {key}
      /\ foreignPend' \in [DOMAIN foreignPend' -> Nat]
      /\ foreignRecv' \in [Kinds -> Nat]
      /\ UNCHANGED <<now, foreignSends, foreignRTT, foreignPendAt>>
  BY DEF ResolvePending, LedgerTypes, Kinds, Led!RecordForeignRecv, Led!Resolved,
         Led!Restrict
<1>2. /\ m \in heard /\ m \notin DOMAIN measured /\ heard' = heard \ {m}
      /\ measured' = [n \in DOMAIN measured \cup (IF trip = {} THEN {} ELSE {m}) |->
                        IF n = m THEN trip ELSE measured[n]]
  BY DEF ResolvePending, HandlerInv
<1>3. trip \subseteq Nat /\ (key \notin DOMAIN foreignPend => trip = {})
  BY DEF Led!Trip
<1> HIDE DEF trip
<1>4. /\ IsFiniteSet(DOMAIN foreignPend') /\ LedgerTypes'
  <2>1. LedgerTypes'
    BY <1>1 DEF LedgerTypes
  <2> QED  BY <1>1, <2>1, FS_Subset
<1>5. HandlerInv'
  <2>1. /\ heard' \subseteq Messages /\ DOMAIN measured' \subseteq Messages
        /\ heard' \cap DOMAIN measured' = {}
    BY <1>2 DEF HandlerInv
  <2>2. \A n \in DOMAIN measured' : measured'[n] \in SUBSET Nat
    BY <1>2, <1>3 DEF HandlerInv
  <2>3. measured' \in [DOMAIN measured' -> SUBSET Nat]
    BY <1>2, <2>2
  <2> QED  BY <2>1, <2>3 DEF HandlerInv
<1>6. ASSUME NEW other \in Kinds PROVE Sound(other)'
  <2>1. /\ IsFiniteSet(Pendings(other)) /\ IsFiniteSet(Underway(other))
        /\ Cardinality(Pendings(other)) \in Nat /\ Cardinality(Underway(other)) \in Nat
    BY PendingsAreFinite, TripsAreFinite
  <2>2. Pendings(other)' = Pendings(other) \ {key}
    BY <1>1 DEF Pendings
  <2>3. /\ Len(foreignRTT[other]) \in Nat /\ foreignSends[other] \in Nat
        /\ UNCHANGED <<foreignRTT, foreignSends>> /\ Sound(other)
    BY <1>1 DEF LedgerTypes
  <2>4. CASE other = "syncReq" /\ key \in DOMAIN foreignPend
    <3>1. key \in Pendings(other)
      BY <2>4 DEF Pendings
    <3>2. Cardinality(Pendings(other)') = Cardinality(Pendings(other)) - 1
      <4> HIDE DEF key
      <4>1. Cardinality(Pendings(other) \ {key}) = Cardinality(Pendings(other)) - 1
        BY <2>1, <3>1, FS_RemoveElement
      <4> QED  BY <2>2, <4>1
    <3>3. Underway(other)' = Underway(other) \/ Underway(other)' = Underway(other) \cup {m}
      BY <1>2, <2>4 DEF Underway
    <3>4. /\ Cardinality(Underway(other)') \in Nat
          /\ Cardinality(Underway(other)') <= Cardinality(Underway(other)) + 1
      <4>1. /\ IsFiniteSet(Underway(other) \cup {m})
            /\ \/ Cardinality(Underway(other) \cup {m}) = Cardinality(Underway(other))
               \/ Cardinality(Underway(other) \cup {m}) = Cardinality(Underway(other)) + 1
        BY <2>1, FS_AddElement
      <4>2. CASE Underway(other)' = Underway(other)
        <5>1. Cardinality(Underway(other)') = Cardinality(Underway(other))
          BY <4>2
        <5> QED  BY <2>1, <5>1
      <4>3. CASE Underway(other)' = Underway(other) \cup {m}
        <5>1. Cardinality(Underway(other)') = Cardinality(Underway(other) \cup {m})
          BY <4>3
        <5> QED  BY <2>1, <4>1, <5>1
      <4> QED  BY <3>3, <4>2, <4>3
    <3> HIDE DEF LedgerInv, key
    <3> QED  BY <2>1, <2>3, <3>2, <3>4 DEF Sound
  <2>5. CASE ~(other = "syncReq" /\ key \in DOMAIN foreignPend)
    <3>1. key \notin Pendings(other)
      BY <2>5 DEF Pendings
    <3>2. Pendings(other)' = Pendings(other) /\ Underway(other)' = Underway(other)
      BY <1>2, <1>3, <2>2, <2>5, <3>1 DEF Underway
    <3>3. /\ Cardinality(Pendings(other)') = Cardinality(Pendings(other))
          /\ Cardinality(Underway(other)') = Cardinality(Underway(other))
      BY <3>2
    <3> QED  BY <2>3, <3>3 DEF Sound
  <2> QED  BY <2>4, <2>5
<1> QED  BY <1>4, <1>5, <1>6

(***************************************************************************)
(* A trip that was measured becomes a sample.                              *)
(***************************************************************************)
LEMMA AppendKeepsLedger ==
  ASSUME LedgerInv, NEW m \in Messages, AppendTrip(m)
  PROVE  LedgerInv'
<1> USE DEF LedgerInv
<1>1. PICK trip \in measured[m] : Led!AppendTrip("syncReq", trip)
  BY DEF AppendTrip
<1>2. /\ m \in DOMAIN measured /\ trip \in Nat
      /\ UNCHANGED <<now, heard, foreignSends, foreignRecv, foreignPend, foreignPendAt>>
      /\ DOMAIN measured' = DOMAIN measured \ {m}
      /\ measured' \in [DOMAIN measured' -> SUBSET Nat]
  BY <1>1 DEF AppendTrip, HandlerInv, Restrict, Led!AppendTrip
<1>3. HandlerInv'
  BY <1>2 DEF HandlerInv
<1>4. /\ foreignRTT["syncReq"] \in Seq(Int) /\ "syncReq" \in Kinds /\ trip \in Int
      /\ foreignRTT' = [foreignRTT EXCEPT !["syncReq"] = Append(@, trip)]
  BY <1>1, <1>2 DEF LedgerTypes, Kinds, Led!AppendTrip
<1>5. LedgerTypes'
  <2>1. foreignRTT' \in [Kinds -> Seq(Int)]
    BY <1>4 DEF LedgerTypes
  <2> QED  BY <1>2, <2>1 DEF LedgerTypes
<1>6. ASSUME NEW other \in Kinds PROVE Sound(other)'
  <2>1. /\ IsFiniteSet(Underway(other)) /\ Cardinality(Underway(other)) \in Nat
        /\ Cardinality(Pendings(other)) \in Nat
        /\ Len(foreignRTT[other]) \in Nat /\ foreignSends[other] \in Nat
    BY PendingsAreFinite, TripsAreFinite DEF LedgerTypes
  <2>2. Pendings(other)' = Pendings(other) /\ foreignSends' = foreignSends /\ Sound(other)
    BY <1>2 DEF Pendings
  <2>3. CASE other = "syncReq"
    <3>1. Len(foreignRTT'[other]) = Len(foreignRTT[other]) + 1
      BY <1>4, <2>3 DEF LedgerTypes
    <3>2. m \in Underway(other) /\ Underway(other)' = Underway(other) \ {m}
      BY <1>2, <2>3 DEF Underway
    <3>3. Cardinality(Underway(other) \ {m}) = Cardinality(Underway(other)) - 1
      BY <2>1, <3>2, FS_RemoveElement
    <3>4. /\ Cardinality(Underway(other)') = Cardinality(Underway(other)) - 1
          /\ Cardinality(Pendings(other)') = Cardinality(Pendings(other))
      BY <2>2, <3>2, <3>3
    <3> HIDE DEF LedgerInv
    <3> QED  BY <2>1, <2>2, <3>1, <3>4 DEF Sound
  <2>4. CASE other # "syncReq"
    <3>1. /\ foreignRTT'[other] = foreignRTT[other]
          /\ Underway(other)' = Underway(other)
      BY <1>4, <2>4 DEF Underway, LedgerTypes
    <3>2. /\ Cardinality(Underway(other)') = Cardinality(Underway(other))
          /\ Cardinality(Pendings(other)') = Cardinality(Pendings(other))
      BY <2>2, <3>1
    <3> QED  BY <2>2, <3>1, <3>2 DEF Sound
  <2> QED  BY <2>3, <2>4
<1> QED  BY <1>2, <1>3, <1>5, <1>6

(***************************************************************************)
(* What a step does to the ledger: an entry for a foreign receiver, the    *)
(* two halves of a foreign peer's response, or nothing at all.             *)
(***************************************************************************)
EntersForeign(at) ==
  \E kind \in Kinds, to \in Foreign :
    Led!RecordForeignSend(kind, to, at, kind = "syncReq")

LeavesLedger ==
  /\ UNCHANGED <<ledger, measured>> /\ now' \in {now, now + 1}
  /\ \/ UNCHANGED heard
     \/ \E m \in Messages : Idle(From[m]) /\ heard' = heard \cup {m}

LEMMA StepsOfTheLedger ==
  ASSUME [Next]_vars
  PROVE  \/ UNCHANGED <<now, handler>> /\ \E at \in Reg!Stamps : EntersForeign(at)
         \/ \E m \in Messages, at \in Reg!Stamps : ResolvePending(m, at)
         \/ \E m \in Messages : AppendTrip(m)
         \/ LeavesLedger
<1> DEFINE Goal == \/ UNCHANGED <<now, handler>> /\ \E at \in Reg!Stamps : EntersForeign(at)
                   \/ LeavesLedger
<1>1. ASSUME NEW m \in Messages, SendPrivate(m) \/ SendResponse(m) \/ ForeignReceives(m)
      PROVE  Goal
  BY <1>1 DEF SendPrivate, SendResponse, ForeignReceives, ledger, handler, LeavesLedger
<1>2. ASSUME NEW m \in Messages, NEW at \in Reg!Stamps, EnterMessage(m, at)
      PROVE  Goal
  BY <1>2 DEF EnterMessage, Enter, EntersForeign, Kinds, handler, LeavesLedger
<1>3. ASSUME NEW m \in Messages, NEW at \in Reg!Stamps, EnterResponse(m, at)
      PROVE  Goal
  BY <1>3 DEF EnterResponse, Enter, EntersForeign, Kinds, handler, LeavesLedger
<1>4. ASSUME NEW m \in Messages, NEW at \in Reg!Stamps, OnMessage(m, at)
      PROVE  Goal
  BY <1>4 DEF OnMessage, ledger, handler, LeavesLedger
<1>5. ASSUME NEW m \in Messages, NEW at \in Reg!Stamps, OnResponse(m, at)
      PROVE  Goal
  BY <1>5 DEF OnResponse, ledger, LeavesLedger
<1>6. CASE Tick \/ UNCHANGED vars
  BY <1>6 DEF Tick, Reg!Tick, vars, ledger, traffic, LeavesLedger
<1> QED  BY <1>1, <1>2, <1>3, <1>4, <1>5, <1>6 DEF Next

LEMMA LedgerInvStep == LedgerInv /\ [Next]_vars => LedgerInv'
<1> SUFFICES ASSUME LedgerInv, [Next]_vars PROVE LedgerInv'
  OBVIOUS
<1>1. Reg!Stamps \subseteq Nat
  BY DEF Reg!Stamps
<1>2. ASSUME NEW at \in Reg!Stamps, UNCHANGED <<now, handler>>, EntersForeign(at)
      PROVE  LedgerInv'
  BY <1>1, <1>2, SendKeepsLedger DEF EntersForeign
<1>3. ASSUME NEW m \in Messages, NEW at \in Reg!Stamps, ResolvePending(m, at)
      PROVE  LedgerInv'
  BY <1>1, <1>3, ResponseKeepsLedger
<1>4. CASE LeavesLedger
  <2>1. LedgerTypes' /\ IsFiniteSet(DOMAIN foreignPend')
    BY <1>4 DEF LeavesLedger, LedgerInv, LedgerTypes, ledger
  <2>2. HandlerInv'
    BY <1>4 DEF LeavesLedger, LedgerInv, HandlerInv, Idle
  <2>3. \A kind \in Kinds : Sound(kind)'
    BY <1>4 DEF LeavesLedger, LedgerInv, Sound, Pendings, Underway, ledger
  <2> QED  BY <2>1, <2>2, <2>3 DEF LedgerInv
<1>5. ASSUME NEW m \in Messages, AppendTrip(m) PROVE LedgerInv'
  BY <1>5, AppendKeepsLedger
<1> QED  BY <1>2, <1>3, <1>4, <1>5, StepsOfTheLedger

(***************************************************************************)
(* Direct round trips of foreign peers are not counted twice, however many *)
(* users ask a peer and however often its answers come (report.go:385-388, *)
(* 414-426).                                                               *)
(***************************************************************************)
THEOREM TripsCountOnce == Spec => []DirectTripsCountOnce
<1>1. LedgerInv => DirectTripsCountOnce
  <2>1. ASSUME NEW kind \in Kinds
        PROVE  Pendings(kind) = {key \in DOMAIN foreignPend : key[1] = kind}
    BY DEF Pendings
  <2>2. \A S : Led!Cardinality(S) = Cardinality(S)
    BY DEF Cardinality, Led!Cardinality
  <2>3. ASSUME LedgerInv, NEW kind \in Kinds
        PROVE  Len(foreignRTT[kind]) + Cardinality(Pendings(kind)) <= foreignSends[kind]
    <3>1. /\ Cardinality(Underway(kind)) \in Nat /\ Cardinality(Pendings(kind)) \in Nat
          /\ Sound(kind) /\ Len(foreignRTT[kind]) \in Nat /\ foreignSends[kind] \in Nat
      BY <2>3, PendingsAreFinite, TripsAreFinite DEF LedgerInv, LedgerTypes
    <3> QED  BY <3>1 DEF Sound
  <2> QED  BY <2>1, <2>2, <2>3 DEF DirectTripsCountOnce, Led!NoDoubleCounting
<1> QED  BY LedgerInvInit, LedgerInvStep, <1>1, PTL DEF Spec

-------------------------------------------------------------------------------
(***************************************************************************)
(* The pendings are no older than the TTL when the last sweep was made.    *)
(* That needs a bound on the lag between a stamp and its lock: a stamp     *)
(* older than the TTL would be entered as old as that.                     *)
(***************************************************************************)
YoungInv ==
  /\ LedgerInv
  /\ foreignPendAt <= now
  /\ \A key \in DOMAIN foreignPend : foreignPend[key] >= foreignPendAt - PendTTL

LEMMA AgeSinceSweep ==
  ASSUME NEW at \in Int, NEW swept \in Int, NEW p \in Int,
         NEW ttl \in Nat, NEW every \in Nat,
         at - swept <= every, p >= swept - ttl
  PROVE  at - p <= ttl + every
OBVIOUS

LEMMA EntriesSweep ==
  ASSUME YoungInv, MaxLag <= PendTTL,
         NEW at \in Reg!Stamps, EntersForeign(at), UNCHANGED now, LedgerInv'
  PROVE  YoungInv' /\ Led!SweptAt(at)
<1> USE DEF LedgerInv, LedgerTypes, YoungInv
<1>1. PICK kind \in Kinds, to \in Foreign :
        Led!RecordForeignSend(kind, to, at, kind = "syncReq")
  BY DEF EntersForeign
<1>2. at \in Nat /\ at <= now /\ now - at <= MaxLag
  BY DEF Reg!Stamps
<1>3. /\ foreignPendAt \in Int /\ now \in Nat /\ foreignPendAt <= now
      /\ at >= foreignPendAt - PendTTL
  BY <1>2, BoundsAreNatural
<1>4. /\ foreignPendAt' \in Int /\ at - foreignPendAt' <= SweepEvery
      /\ at >= foreignPendAt' - PendTTL
  BY <1>1, <1>2, <1>3, BoundsAreNatural DEF Led!RecordForeignSend, Led!SweepDue
<1>5. ASSUME NEW key \in DOMAIN foreignPend'
      PROVE  foreignPend'[key] \in Nat /\ foreignPend'[key] >= foreignPendAt' - PendTTL
  <2>1. \/ foreignPend'[key] = at
        \/ key \in Led!Unexpired(at) /\ foreignPend'[key] = foreignPend[key]
    BY <1>1, <1>5 DEF Led!RecordForeignSend
  <2>2. CASE foreignPend'[key] = at
    BY <1>2, <1>4, <2>2
  <2>3. CASE key \in Led!Unexpired(at) /\ foreignPend'[key] = foreignPend[key]
    <3>1. foreignPend[key] \in Nat /\ foreignPend[key] >= foreignPendAt - PendTTL
      BY <2>3 DEF Led!Unexpired
    <3>2. CASE Led!SweepDue(at)
      <4>1. ~(foreignPend[key] < at - PendTTL) /\ foreignPendAt' = at
        BY <1>1, <2>3, <3>2 DEF Led!Unexpired, Led!RecordForeignSend
      <4> HIDE DEF LedgerInv, LedgerTypes, YoungInv
      <4> QED  BY <1>2, <2>3, <3>1, <4>1, BoundsAreNatural
    <3>3. CASE ~Led!SweepDue(at)
      BY <1>1, <2>3, <3>1, <3>3 DEF Led!RecordForeignSend
    <3> QED  BY <3>2, <3>3
  <2> QED  BY <2>1, <2>2, <2>3
<1>6. ASSUME NEW key \in DOMAIN foreignPend'
      PROVE  at - foreignPend'[key] <= PendTTL + SweepEvery
  <2> DEFINE p == foreignPend'[key]
             swept == foreignPendAt'
  <2>1. /\ at \in Int /\ p \in Int /\ swept \in Int /\ PendTTL \in Nat
        /\ SweepEvery \in Nat /\ at - swept <= SweepEvery /\ p >= swept - PendTTL
    BY <1>2, <1>4, <1>5, <1>6, BoundsAreNatural
  <2> HIDE DEF p, swept, LedgerInv, LedgerTypes, YoungInv
  <2>2. at - p <= PendTTL + SweepEvery
    BY <2>1, AgeSinceSweep
  <2> QED  BY <2>2 DEF p
<1>7. foreignPendAt' <= now'
  BY <1>1, <1>2 DEF Led!RecordForeignSend
<1> QED  BY <1>5, <1>6, <1>7 DEF Led!SweptAt

(***************************************************************************)
(* PendingsExpire: after each entry of a send to a foreign peer no pending *)
(* is older than the TTL and the sweep interval together, as long as no    *)
(* stamp waits longer than the TTL for its lock (report.go:389-403).       *)
(***************************************************************************)
THEOREM PendingsAreYoung ==
  ASSUME MaxLag <= PendTTL
  PROVE  Spec => PendingsExpire
<1>1. Init => YoungInv
  <2> SUFFICES ASSUME Init PROVE YoungInv
    OBVIOUS
  <2>1. now = 0 /\ foreignPend = <<>> /\ foreignPendAt = -(SweepEvery + 1)
    BY DEF Init, Reg!Init, Led!Init
  <2> QED  BY <2>1, LedgerInvInit, BoundsAreNatural DEF YoungInv
<1>2. YoungInv /\ [Next]_vars => YoungInv'
  <2> SUFFICES ASSUME YoungInv, [Next]_vars PROVE YoungInv'
    OBVIOUS
  <2>1. LedgerInv'
    BY LedgerInvStep DEF YoungInv
  <2>2. ASSUME NEW at \in Reg!Stamps, UNCHANGED <<now, handler>>, EntersForeign(at)
        PROVE  YoungInv'
    BY <2>1, <2>2, EntriesSweep
  <2>3. ASSUME NEW m \in Messages, NEW at \in Reg!Stamps, ResolvePending(m, at)
        PROVE  YoungInv'
    <3>1. /\ UNCHANGED <<now, foreignPendAt>>
          /\ \A key \in DOMAIN foreignPend' : /\ key \in DOMAIN foreignPend
                                              /\ foreignPend'[key] = foreignPend[key]
      BY <2>3 DEF ResolvePending, Led!RecordForeignRecv, Led!Resolved, Led!Restrict
    <3> QED  BY <2>1, <3>1 DEF YoungInv
  <2>4. CASE LeavesLedger \/ \E m \in Messages : AppendTrip(m)
    <3>1. UNCHANGED <<foreignPend, foreignPendAt>> /\ now' \in {now, now + 1}
      BY <2>4 DEF LeavesLedger, AppendTrip, Led!AppendTrip, ledger
    <3> QED  BY <2>1, <3>1 DEF YoungInv, LedgerInv, LedgerTypes
  <2> QED  BY <2>2, <2>3, <2>4, StepsOfTheLedger
<1>3. YoungInv /\ [Next]_vars
        => [\A m \in Messages, at \in Reg!Stamps :
              \/ EnterMessage(m, at) /\ To[m] \in Foreign
              \/ EnterResponse(m, at) /\ From[m] \in Foreign
              => Led!SweptAt(at)]_vars
  <2> SUFFICES ASSUME YoungInv, [Next]_vars, NEW m \in Messages, NEW at \in Reg!Stamps,
                      \/ EnterMessage(m, at) /\ To[m] \in Foreign
                      \/ EnterResponse(m, at) /\ From[m] \in Foreign
               PROVE  Led!SweptAt(at)
    OBVIOUS
  <2>1. EntersForeign(at) /\ UNCHANGED now
    BY ExchangeAssumption
       DEF EnterMessage, EnterResponse, Enter, EntersForeign, Kinds
  <2>2. LedgerInv'
    BY LedgerInvStep DEF YoungInv
  <2> QED  BY <2>1, <2>2, EntriesSweep
<1> QED  BY <1>1, <1>2, <1>3, PTL DEF Spec, PendingsExpire

-------------------------------------------------------------------------------
(* Foreign peers do not count. *)

PrivateKinds == {"syncReq", "syncRes"}

\* The entries of a kind that wait for their one receipt.
Awaiting(kind) == {key \in DOMAIN rtt : key[1] = kind}

Entry == [at : Nat, expected : {1}, received : {0}, latched : {FALSE}, pt : {0}]

(***************************************************************************)
(* What the registry holds of the private kinds, whatever was refused,     *)
(* swept, or entered twice.                                                *)
(***************************************************************************)
EntriesInv ==
  /\ now \in Nat
  /\ fanExpected \in [Kinds -> Nat] /\ fanArrived \in [Kinds -> Nat]
  /\ perKind \in [Kinds -> Nat]
  /\ DOMAIN rtt \subseteq PrivateKinds \X Messages
  /\ rtt \in [DOMAIN rtt -> Entry]
  /\ \A kind \in PrivateKinds :
       /\ Cardinality(Awaiting(kind)) <= perKind[kind]
       /\ fanExpected[kind] <= perKind[kind]
       /\ EntriesFit => fanExpected[kind] = perKind[kind]

LEMMA EntriesAreFinite ==
  ASSUME NEW S \in SUBSET (PrivateKinds \X Messages)
  PROVE  IsFiniteSet(S) /\ Cardinality(S) \in Nat
<1>1. IsFiniteSet(PrivateKinds)
  <2>1. PrivateKinds = {"syncReq"} \cup {"syncRes"}
    BY DEF PrivateKinds
  <2> QED  BY <2>1, FS_Singleton, FS_AddElement
<1>2. IsFiniteSet(PrivateKinds \X Messages)
  BY <1>1, ExchangeAssumption, FS_Product
<1> QED  BY <1>2, FS_Subset, FS_CardinalityType

LEMMA SameCardinality == \A S : Reg!Cardinality(S) = Cardinality(S)
BY DEF Cardinality, Reg!Cardinality

\* As many entries wait as are awaited of both kinds.
LEMMA PendingsFit ==
  ASSUME EntriesInv
  PROVE  /\ Cardinality(DOMAIN rtt) \in Nat
         /\ Cardinality(DOMAIN rtt) <= perKind["syncReq"] + perKind["syncRes"]
<1> DEFINE R == Awaiting("syncReq")
           S == Awaiting("syncRes")
<1>1. DOMAIN rtt = R \cup S
  BY DEF EntriesInv, Awaiting, PrivateKinds
<1>2. /\ IsFiniteSet(R) /\ Cardinality(R) \in Nat /\ IsFiniteSet(S)
      /\ Cardinality(S) \in Nat /\ Cardinality(DOMAIN rtt) \in Nat
  BY EntriesAreFinite DEF EntriesInv, Awaiting
<1>3. Cardinality(R) <= perKind["syncReq"] /\ Cardinality(S) <= perKind["syncRes"]
  BY DEF EntriesInv, PrivateKinds
<1>4. perKind["syncReq"] \in Nat /\ perKind["syncRes"] \in Nat
  BY DEF EntriesInv, Kinds
<1> HIDE DEF R, S
<1>5. /\ Cardinality(R \cup S) = Cardinality(R) + Cardinality(S) - Cardinality(R \cap S)
      /\ Cardinality(R \cap S) \in Nat
  BY <1>2, FS_Union, FS_Intersection, FS_CardinalityType
<1> QED  BY <1>1, <1>2, <1>3, <1>4, <1>5

(***************************************************************************)
(* An entry for a user of this process counts one, and finds room and all  *)
(* the others as long as none is too old and they all fit.                 *)
(***************************************************************************)
LEMMA EntryCounts ==
  ASSUME EntriesInv, NEW kind \in PrivateKinds, NEW m \in Messages, NEW at \in Reg!Stamps,
         Reg!RecordSend(kind, m, at, 1), UNCHANGED now,
         perKind' = [perKind EXCEPT ![kind] = @ + 1]
  PROVE  /\ EntriesInv'
         /\ EntriesFit' => EntriesFit
         /\ fanArrived' = fanArrived
         /\ EntriesFit' /\ now <= TTL =>
              /\ DOMAIN rtt' = DOMAIN rtt \cup {<<kind, m>>}
              /\ fanExpected' = [fanExpected EXCEPT ![kind] = @ + 1]
<1> DEFINE key == <<kind, m>>
           kept == Reg!Kept(at)
           send == [at |-> at, expected |-> 1, received |-> 0, latched |-> FALSE,
                    pt |-> 0]
<1>1. /\ at \in Nat /\ at <= now /\ kind \in Kinds /\ key \in PrivateKinds \X Messages
      /\ now \in Nat /\ TTL \in Nat /\ Cap \in Nat
  BY ExchangeAssumption DEF Reg!Stamps, EntriesInv, Kinds, PrivateKinds
<1>2. kept \subseteq DOMAIN rtt
  BY DEF Reg!Kept
<1>3. ASSUME now <= TTL PROVE kept = DOMAIN rtt
  <2>1. ASSUME NEW k \in DOMAIN rtt PROVE ~Reg!Stale(k, at)
    <3>1. rtt[k].at \in Nat
      BY DEF EntriesInv, Entry
    <3> QED  BY <1>1, <1>3, <3>1 DEF Reg!Stale
  <2> QED  BY <2>1 DEF Reg!Kept
<1>4. \/ /\ ~Reg!Full(at) /\ fanExpected' = [fanExpected EXCEPT ![kind] = @ + 1]
         /\ rtt' = Reg!Registered(key, at, 1)
      \/ Reg!Full(at) /\ rtt' = Reg!Restrict(rtt, kept) /\ UNCHANGED fanExpected
  BY DEF Reg!RecordSend, Reg!Awaited
<1>5. /\ DOMAIN rtt' \subseteq kept \cup {key} /\ rtt' \in [DOMAIN rtt' -> Entry]
      /\ ~Reg!Full(at) => DOMAIN rtt' = kept \cup {key}
  <2>1. send \in Entry
    BY <1>1 DEF Entry
  <2>2. \A k \in kept : rtt[k] \in Entry
    BY <1>2 DEF EntriesInv
  <2>3. CASE rtt' = Reg!Registered(key, at, 1)
    <3>1. rtt' = [k \in kept \cup {key} |-> IF k = key THEN send ELSE rtt[k]]
      BY <2>3 DEF Reg!Registered, Reg!NoTrack
    <3> HIDE DEF send
    <3> QED  BY <2>1, <2>2, <3>1
  <2>4. CASE Reg!Full(at) /\ rtt' = Reg!Restrict(rtt, kept)
    BY <2>2, <2>4 DEF Reg!Restrict
  <2> QED  BY <1>4, <2>3, <2>4
<1>6. /\ perKind' \in [Kinds -> Nat] /\ perKind'[kind] = perKind[kind] + 1
      /\ \A k \in Kinds \ {kind} : perKind'[k] = perKind[k]
      /\ \A k \in Kinds : perKind[k] \in Nat /\ fanExpected[k] \in Nat
  BY <1>1 DEF EntriesInv
<1>7. /\ EntriesFit' => EntriesFit
      /\ EntriesFit' => perKind["syncReq"] + perKind["syncRes"] + 1 <= Cap
  BY <1>1, <1>6 DEF EntriesFit, Kinds, PrivateKinds
<1>8. ASSUME EntriesFit' PROVE ~Reg!Full(at)
  <2>1. Cardinality(DOMAIN rtt) + 1 <= Cap
    BY <1>1, <1>6, <1>7, <1>8, PendingsFit DEF Kinds
  <2>2. Cardinality(kept) <= Cardinality(DOMAIN rtt) /\ Cardinality(kept) \in Nat
    BY <1>2, EntriesAreFinite, FS_Subset DEF EntriesInv
  <2> QED  BY <1>1, <2>1, <2>2, PendingsFit, SameCardinality DEF Reg!Full
<1>9. /\ fanArrived' = fanArrived /\ fanExpected' \in [Kinds -> Nat]
      /\ fanExpected'[kind] <= fanExpected[kind] + 1
      /\ \A k \in Kinds \ {kind} : fanExpected'[k] = fanExpected[k]
      /\ ~Reg!Full(at) => fanExpected'[kind] = fanExpected[kind] + 1
  BY <1>1, <1>4, <1>6 DEF Reg!RecordSend, EntriesInv
<1>10. ASSUME NEW k \in PrivateKinds
       PROVE  /\ Cardinality(Awaiting(k)') <= perKind'[k]
              /\ fanExpected'[k] <= perKind'[k]
              /\ EntriesFit' => fanExpected'[k] = perKind'[k]
  <2>1. /\ k \in Kinds /\ fanExpected[k] <= perKind[k]
        /\ EntriesFit => fanExpected[k] = perKind[k]
        /\ Cardinality(Awaiting(k)) <= perKind[k]
    BY DEF EntriesInv, Kinds, PrivateKinds
  <2>2. /\ fanExpected'[k] <= perKind'[k]
        /\ EntriesFit' => fanExpected'[k] = perKind'[k]
    BY <1>1, <1>6, <1>7, <1>8, <1>9, <2>1
  <2>3. /\ Awaiting(k) \in SUBSET (PrivateKinds \X Messages)
        /\ Awaiting(k) \cup {key} \in SUBSET (PrivateKinds \X Messages)
        /\ k # kind => Awaiting(k)' \subseteq Awaiting(k)
        /\ Awaiting(k)' \subseteq Awaiting(k) \cup {key}
    BY <1>1, <1>2, <1>5 DEF Awaiting, EntriesInv
  <2>4. /\ IsFiniteSet(Awaiting(k)) /\ Cardinality(Awaiting(k)) \in Nat
        /\ IsFiniteSet(Awaiting(k) \cup {key}) /\ Cardinality(Awaiting(k) \cup {key}) \in Nat
        /\ Cardinality(Awaiting(k)') \in Nat
    BY <2>3, EntriesAreFinite
  <2>5. Cardinality(Awaiting(k) \cup {key}) <= Cardinality(Awaiting(k)) + 1
    <3> HIDE DEF key
    <3>1. \/ Cardinality(Awaiting(k) \cup {key}) = Cardinality(Awaiting(k))
          \/ Cardinality(Awaiting(k) \cup {key}) = Cardinality(Awaiting(k)) + 1
      BY <2>4, FS_AddElement
    <3> QED  BY <2>4, <3>1
  <2>6. CASE k = kind
    <3>1. Cardinality(Awaiting(k)') <= Cardinality(Awaiting(k) \cup {key})
      BY <2>3, <2>4, FS_Subset
    <3> QED  BY <1>6, <2>1, <2>2, <2>4, <2>5, <2>6, <3>1
  <2>7. CASE k # kind
    <3>1. Cardinality(Awaiting(k)') <= Cardinality(Awaiting(k))
      BY <2>3, <2>4, <2>7, FS_Subset
    <3> QED  BY <1>6, <2>1, <2>2, <2>4, <2>7, <3>1
  <2> QED  BY <2>6, <2>7
<1>11. DOMAIN rtt' \subseteq PrivateKinds \X Messages
  BY <1>1, <1>2, <1>5 DEF EntriesInv
<1>12. EntriesInv'
  BY <1>1, <1>5, <1>6, <1>9, <1>10, <1>11 DEF EntriesInv
<1> QED  BY <1>3, <1>4, <1>5, <1>7, <1>8, <1>9, <1>12

(***************************************************************************)
(* A receipt of an entry completes it; any other receipt leaves no trace.  *)
(***************************************************************************)
LEMMA ReceiptCounts ==
  ASSUME EntriesInv, NEW kind \in PrivateKinds, NEW m \in Messages, NEW at,
         Reg!RecordRecv(kind, m, at), UNCHANGED <<now, perKind>>
  PROVE  /\ EntriesInv'
         /\ fanExpected' = fanExpected
         /\ DOMAIN rtt' = DOMAIN rtt \ {<<kind, m>>}
         /\ fanArrived' = IF <<kind, m>> \in DOMAIN rtt
                            THEN [fanArrived EXCEPT ![kind] = @ + 1] ELSE fanArrived
<1> DEFINE key == <<kind, m>>
<1>1. CASE key \notin DOMAIN rtt
  <2>1. UNCHANGED <<rtt, fanExpected, fanArrived>>
    BY <1>1 DEF Reg!RecordRecv, Reg!registryVars
  <2> QED  BY <1>1, <2>1 DEF EntriesInv, Awaiting, EntriesFit
<1>2. CASE key \in DOMAIN rtt
  <2>1. rtt[key] \in Entry
    BY <1>2 DEF EntriesInv
  <2>2. Reg!Completes(Reg!Receipted(key))
    <3>1. rtt[key].received = 0 /\ rtt[key].expected = 1
      <4>1. rtt[key].received \in {0} /\ rtt[key].expected \in {1}
        BY <2>1 DEF Entry
      <4> QED  BY <4>1
    <3>2. Reg!Receipted(key).received = 1 /\ Reg!Receipted(key).expected = 1
      BY <2>1, <3>1 DEF Reg!Receipted, Entry
    <3> QED  BY <3>2 DEF Reg!Completes
  <2>3. /\ rtt' = [k \in DOMAIN rtt \ {key} |-> rtt[k]]
        /\ fanArrived' = [fanArrived EXCEPT ![kind] = @ + 1]
        /\ fanExpected' = fanExpected
    BY <1>2, <2>2 DEF Reg!RecordRecv, Reg!Restrict
  <2>4. /\ fanArrived' \in [Kinds -> Nat] /\ rtt' \in [DOMAIN rtt' -> Entry]
        /\ DOMAIN rtt' = DOMAIN rtt \ {key}
    BY <2>3 DEF EntriesInv, Kinds, PrivateKinds
  <2>5. ASSUME NEW k \in PrivateKinds PROVE Cardinality(Awaiting(k)') <= perKind[k]
    <3>1. Awaiting(k)' \subseteq Awaiting(k)
      BY <2>4 DEF Awaiting
    <3>2. /\ IsFiniteSet(Awaiting(k)) /\ Cardinality(Awaiting(k)) \in Nat
          /\ Cardinality(Awaiting(k)') \in Nat
      BY <3>1, EntriesAreFinite DEF Awaiting, EntriesInv
    <3>3. Cardinality(Awaiting(k)') <= Cardinality(Awaiting(k))
      BY <3>1, <3>2, FS_Subset
    <3>4. Cardinality(Awaiting(k)) <= perKind[k] /\ perKind[k] \in Nat
      BY DEF EntriesInv, PrivateKinds, Kinds
    <3> QED  BY <3>2, <3>3, <3>4
  <2>6. EntriesInv'
    BY <2>3, <2>4, <2>5 DEF EntriesInv, EntriesFit
  <2> QED  BY <1>2, <2>3, <2>4, <2>6
<1> QED  BY <1>1, <1>2

(***************************************************************************)
(* Where each message and its answer are.  As long as nothing is delivered *)
(* again, a message is in one place at a time; as long as nothing came too *)
(* early either, its entry waits just while its copy is on its way.        *)
(***************************************************************************)
Forth(m) == wire[<<m, "to">>]
Back(m) == wire[<<m, "back">>]

TrafficTypes ==
  /\ sender \in [Messages -> {"idle", "published", "sent"}]
  /\ wire \in [Messages \X {"to", "back"} -> Nat]
  /\ answering \in [Messages -> Nat] /\ answered \in [Messages -> Nat]
  /\ redelivered \in Nat /\ early \in Nat

OneOfEach(m) ==
  /\ sender[m] = "idle" => Forth(m) = 0 /\ answering[m] = 0 /\ Back(m) = 0 /\ answered[m] = 0
  /\ Forth(m) + answering[m] + Back(m) <= 1
  /\ Forth(m) + answering[m] + answered[m] <= 1

Clean == EntriesFit /\ early = 0 /\ redelivered = 0 /\ now <= TTL

EntriesFollow(m) ==
  /\ <<"syncReq", m>> \in DOMAIN rtt => sender[m] = "sent" /\ To[m] \in Synthetic /\ Forth(m) = 1
  /\ <<"syncRes", m>> \in DOMAIN rtt =>
       From[m] \in Synthetic /\ Back(m) = 1 /\ answered[m] = 0
  /\ sender[m] = "published" /\ To[m] \in Synthetic => Forth(m) = 1
  /\ answered[m] > 0 /\ From[m] \in Synthetic => Back(m) = 1

AllCounted ==
  \A kind \in PrivateKinds :
    fanExpected[kind] = fanArrived[kind] + Cardinality(Awaiting(kind))

FollowInv ==
  /\ EntriesInv /\ TrafficTypes
  /\ redelivered = 0 => \A m \in Messages : OneOfEach(m)
  /\ Clean => AllCounted /\ \A m \in Messages : EntriesFollow(m)

LEMMA FollowInvInit == Init => FollowInv
<1> SUFFICES ASSUME Init PROVE FollowInv
  OBVIOUS
<1> USE DEF Init, Reg!Init
<1>1. /\ now = 0 /\ DOMAIN rtt = {} /\ rtt \in [DOMAIN rtt -> Entry]
      /\ \A kind \in Kinds : fanExpected[kind] = 0 /\ fanArrived[kind] = 0 /\ perKind[kind] = 0
  OBVIOUS
<1>2. \A kind \in PrivateKinds : kind \in Kinds /\ Cardinality(Awaiting(kind)) = 0
  <2>1. \A kind : Awaiting(kind) = {}
    BY <1>1 DEF Awaiting
  <2> QED  BY <2>1, FS_EmptySet DEF PrivateKinds, Kinds
<1>3. EntriesInv
  BY <1>1, <1>2 DEF EntriesInv
<1>4. TrafficTypes /\ \A m \in Messages : OneOfEach(m) /\ EntriesFollow(m)
  BY <1>1 DEF TrafficTypes, OneOfEach, EntriesFollow, Forth, Back
<1>5. AllCounted
  BY <1>1, <1>2 DEF AllCounted
<1> QED  BY <1>3, <1>4, <1>5 DEF FollowInv

(***************************************************************************)
(* A copy arrives: one less is on its way, unless it comes again.          *)
(***************************************************************************)
LEMMA TakeTakesOne ==
  ASSUME TrafficTypes, NEW m \in Messages, NEW way \in {"to", "back"}, Take(<<m, way>>)
  PROVE  /\ redelivered' \in Nat /\ wire' \in [Messages \X {"to", "back"} -> Nat]
         /\ redelivered' = 0 =>
              /\ redelivered = 0 /\ wire[<<m, way>>] > 0
              /\ wire' = [wire EXCEPT ![<<m, way>>] = @ - 1]
BY DEF TrafficTypes, Take

(***************************************************************************)
(* Copies put on the wire.                                                 *)
(***************************************************************************)
LEMMA SendersKeepFollow ==
  ASSUME FollowInv, NEW m \in Messages,
         SendPrivate(m) \/ SendResponse(m) \/ ForeignReceives(m)
  PROVE  FollowInv'
<1>1. /\ UNCHANGED <<now, rtt, fanExpected, fanArrived, perKind, redelivered, early>>
      /\ (Clean' <=> Clean) /\ (EntriesFit' <=> EntriesFit)
  BY DEF SendPrivate, SendResponse, ForeignReceives, registry, Clean, EntriesFit
<1>2. EntriesInv' /\ (AllCounted => AllCounted')
  BY <1>1 DEF FollowInv, EntriesInv, AllCounted, Awaiting
<1>3. /\ wire \in [Messages \X {"to", "back"} -> Nat]
      /\ <<m, "to">> \in Messages \X {"to", "back"}
      /\ <<m, "back">> \in Messages \X {"to", "back"}
      /\ \A k \in Messages : Forth(k) \in Nat /\ Back(k) \in Nat /\ answering[k] \in Nat
                             /\ answered[k] \in Nat
  BY DEF FollowInv, TrafficTypes, Forth, Back
<1> USE DEF FollowInv
<1>4. CASE SendPrivate(m)
  <2>1. /\ Forth(m)' = Forth(m) + 1 /\ Back(m)' = Back(m)
        /\ \A k \in Messages \ {m} : Forth(k)' = Forth(k) /\ Back(k)' = Back(k)
                                     /\ sender'[k] = sender[k]
        /\ UNCHANGED <<answering, answered>>
        /\ sender[m] = "idle" /\ sender'[m] # "idle"
    BY <1>3, <1>4 DEF SendPrivate, Put, Forth, Back, TrafficTypes
  <2>2. TrafficTypes'
    BY <1>1, <1>3, <1>4 DEF SendPrivate, Put, TrafficTypes
  <2>3. ASSUME redelivered = 0, NEW k \in Messages PROVE OneOfEach(k)'
    <3>1. OneOfEach(k)
      BY <2>3
    <3>2. CASE k = m
      BY <1>3, <2>1, <3>1, <3>2 DEF OneOfEach
    <3>3. CASE k # m
      BY <1>3, <2>1, <3>1, <3>3 DEF OneOfEach
    <3> QED  BY <3>2, <3>3
  <2>4. ASSUME Clean, NEW k \in Messages PROVE EntriesFollow(k)'
    <3>1. redelivered = 0 /\ OneOfEach(k) /\ EntriesFollow(k)
      BY <2>4 DEF Clean
    <3> QED  BY <1>1, <1>3, <2>1, <3>1 DEF OneOfEach, EntriesFollow
  <2> QED  BY <1>1, <1>2, <2>2, <2>3, <2>4
<1>5. CASE SendResponse(m)
  <2>1. /\ answering[m] > 0 /\ answering'[m] = answering[m] - 1
        /\ \/ answered'[m] = answered[m] + 1 /\ Back(m)' = Back(m) + 1
           \/ answered'[m] = answered[m] /\ Back(m)' = Back(m)
        /\ \A k \in Messages \ {m} : Back(k)' = Back(k) /\ answering'[k] = answering[k]
                                     /\ answered'[k] = answered[k]
        /\ \A k \in Messages : Forth(k)' = Forth(k)
        /\ UNCHANGED sender
    BY <1>3, <1>5 DEF SendResponse, Put, Forth, Back, TrafficTypes
  <2>2. TrafficTypes'
    BY <1>1, <1>3, <1>5 DEF SendResponse, Put, TrafficTypes
  <2>3. ASSUME redelivered = 0, NEW k \in Messages PROVE OneOfEach(k)'
    <3>1. OneOfEach(k)
      BY <2>3
    <3>2. CASE k = m
      BY <1>3, <2>1, <3>1, <3>2 DEF OneOfEach
    <3>3. CASE k # m
      BY <1>3, <2>1, <3>1, <3>3 DEF OneOfEach
    <3> QED  BY <3>2, <3>3
  <2>4. ASSUME Clean, NEW k \in Messages PROVE EntriesFollow(k)'
    <3>1. redelivered = 0 /\ OneOfEach(k) /\ EntriesFollow(k)
      BY <2>4 DEF Clean
    <3> QED  BY <1>1, <1>3, <2>1, <3>1 DEF OneOfEach, EntriesFollow
  <2> QED  BY <1>1, <1>2, <2>2, <2>3, <2>4
<1>6. CASE ForeignReceives(m)
  <2>1. /\ To[m] \notin Synthetic
        /\ Forth(m) > 0 /\ Forth(m)' = Forth(m) - 1
        /\ Back(m)' \in {Back(m), Back(m) + 1}
        /\ \A k \in Messages \ {m} : Forth(k)' = Forth(k) /\ Back(k)' = Back(k)
        /\ UNCHANGED <<answering, answered, sender>>
    BY <1>3, <1>6, ExchangeAssumption DEF ForeignReceives, Forth, Back
  <2>2. TrafficTypes'
    <3>1. wire' \in [Messages \X {"to", "back"} -> Nat]
      BY <1>3, <1>6 DEF ForeignReceives
    <3> QED  BY <1>1, <2>1, <3>1 DEF TrafficTypes
  <2>3. ASSUME redelivered = 0, NEW k \in Messages PROVE OneOfEach(k)'
    <3>1. OneOfEach(k)
      BY <2>3
    <3>2. CASE k = m
      BY <1>3, <2>1, <3>1, <3>2 DEF OneOfEach
    <3>3. CASE k # m
      BY <1>3, <2>1, <3>1, <3>3 DEF OneOfEach
    <3> QED  BY <3>2, <3>3
  <2>4. ASSUME Clean, NEW k \in Messages PROVE EntriesFollow(k)'
    <3>1. redelivered = 0 /\ OneOfEach(k) /\ EntriesFollow(k)
      BY <2>4 DEF Clean
    <3> QED  BY <1>1, <1>3, <2>1, <3>1 DEF OneOfEach, EntriesFollow
  <2> QED  BY <1>1, <1>2, <2>2, <2>3, <2>4
<1> QED  BY <1>4, <1>5, <1>6

\* One entry more, or one completed, of the pendings that are counted.
LEMMA CountsMove ==
  ASSUME EntriesInv, AllCounted, NEW kind \in PrivateKinds, NEW m \in Messages,
         fanExpected' \in [Kinds -> Nat], fanArrived' \in [Kinds -> Nat],
         \/ /\ <<kind, m>> \notin DOMAIN rtt /\ fanArrived' = fanArrived
            /\ DOMAIN rtt' = DOMAIN rtt \cup {<<kind, m>>}
            /\ fanExpected' = [fanExpected EXCEPT ![kind] = @ + 1]
         \/ /\ <<kind, m>> \in DOMAIN rtt /\ fanExpected' = fanExpected
            /\ DOMAIN rtt' = DOMAIN rtt \ {<<kind, m>>}
            /\ fanArrived' = [fanArrived EXCEPT ![kind] = @ + 1]
  PROVE  AllCounted'
<1> DEFINE key == <<kind, m>>
<1> SUFFICES ASSUME NEW k \in PrivateKinds
             PROVE  fanExpected'[k] = fanArrived'[k] + Cardinality(Awaiting(k)')
  BY DEF AllCounted
<1>1. /\ k \in Kinds /\ kind \in Kinds /\ fanExpected[k] \in Nat /\ fanArrived[k] \in Nat
      /\ fanExpected[k] = fanArrived[k] + Cardinality(Awaiting(k))
  BY DEF EntriesInv, AllCounted, Kinds, PrivateKinds
<1>2. IsFiniteSet(Awaiting(k)) /\ Cardinality(Awaiting(k)) \in Nat
  BY EntriesAreFinite DEF EntriesInv, Awaiting
<1>3. CASE k # kind
  <2>1. Awaiting(k)' = Awaiting(k)
    BY <1>3 DEF Awaiting
  <2>2. fanExpected'[k] = fanExpected[k] /\ fanArrived'[k] = fanArrived[k]
    BY <1>1, <1>3 DEF EntriesInv
  <2> QED  BY <1>1, <2>1, <2>2
<1>4. CASE k = kind /\ key \notin DOMAIN rtt
  <2>1. Awaiting(k)' = Awaiting(k) \cup {key} /\ key \notin Awaiting(k)
    BY <1>4 DEF Awaiting
  <2>2. Cardinality(Awaiting(k)') = Cardinality(Awaiting(k)) + 1
    <3> HIDE DEF key
    <3> QED  BY <1>2, <2>1, FS_AddElement
  <2>3. fanExpected'[k] = fanExpected[k] + 1 /\ fanArrived'[k] = fanArrived[k]
    BY <1>1, <1>4 DEF EntriesInv
  <2> QED  BY <1>1, <1>2, <2>2, <2>3
<1>5. CASE k = kind /\ key \in DOMAIN rtt
  <2>1. Awaiting(k)' = Awaiting(k) \ {key} /\ key \in Awaiting(k)
    BY <1>5 DEF Awaiting
  <2>2. Cardinality(Awaiting(k)') = Cardinality(Awaiting(k)) - 1
    <3> HIDE DEF key
    <3> QED  BY <1>2, <2>1, FS_RemoveElement
  <2>3. fanExpected'[k] = fanExpected[k] /\ fanArrived'[k] = fanArrived[k] + 1
    BY <1>1, <1>5 DEF EntriesInv
  <2> QED  BY <1>1, <1>2, <2>2, <2>3
<1> QED  BY <1>3, <1>4, <1>5

(***************************************************************************)
(* Published requests and answers are entered.                             *)
(***************************************************************************)
LEMMA EntriesKeepFollow ==
  ASSUME FollowInv, NEW m \in Messages, NEW at \in Reg!Stamps,
         EnterMessage(m, at) \/ EnterResponse(m, at)
  PROVE  FollowInv'
<1> USE DEF FollowInv
<1>0. /\ UNCHANGED <<now, wire, redelivered, early, answering>>
      /\ \A k \in Messages : Forth(k)' = Forth(k) /\ Back(k)' = Back(k)
      /\ \A k \in Messages : Forth(k) \in Nat /\ Back(k) \in Nat /\ answering[k] \in Nat
                             /\ answered[k] \in Nat
  BY DEF EnterMessage, EnterResponse, Forth, Back, TrafficTypes
<1>1. PICK kind \in PrivateKinds, to \in Synthetic \cup Foreign :
        /\ Enter(kind, m, to, at)
        /\ \/ /\ kind = "syncReq" /\ to = To[m] /\ answered' = answered
              /\ sender[m] = "published" /\ sender' = [sender EXCEPT ![m] = "sent"]
           \/ /\ kind = "syncRes" /\ to = From[m] /\ sender' = sender
              /\ answered[m] > 0 /\ answered' = [answered EXCEPT ![m] = @ - 1]
  BY ExchangeAssumption DEF EnterMessage, EnterResponse, PrivateKinds
<1>2. TrafficTypes'
  BY <1>0, <1>1 DEF TrafficTypes
<1>3. ASSUME redelivered = 0, NEW k \in Messages PROVE OneOfEach(k)'
  <2>1. OneOfEach(k)
    BY <1>3
  <2>2. answered'[k] <= answered[k] /\ (sender'[k] = "idle" => sender[k] = "idle")
        /\ answered'[k] \in Nat
    BY <1>0, <1>1, <1>2 DEF TrafficTypes
  <2> QED  BY <1>0, <2>1, <2>2 DEF OneOfEach
<1>4. CASE to \in Foreign
  <2>1. UNCHANGED <<rtt, fanExpected, fanArrived, perKind>> /\ to \notin Synthetic
    BY <1>1, <1>4, ExchangeAssumption DEF Enter, registry
  <2>2. /\ EntriesInv' /\ (AllCounted => AllCounted') /\ (Clean' <=> Clean)
    BY <1>0, <2>1 DEF EntriesInv, AllCounted, Awaiting, Clean, EntriesFit
  <2>3. ASSUME Clean, NEW k \in Messages PROVE EntriesFollow(k)'
    <3>1. EntriesFollow(k) /\ OneOfEach(k)
      BY <2>3 DEF Clean
    <3> QED  BY <1>0, <1>1, <2>1, <3>1 DEF EntriesFollow, OneOfEach, TrafficTypes
  <2> QED  BY <1>0, <1>2, <1>3, <2>2, <2>3
<1>5. CASE to \in Synthetic
  <2>1. /\ Reg!RecordSend(kind, m, at, 1)
        /\ perKind' = [perKind EXCEPT ![kind] = @ + 1]
    BY <1>1, <1>5, ExchangeAssumption DEF Enter
  <2>2. /\ EntriesInv' /\ fanArrived' = fanArrived
        /\ Clean' => /\ Clean
                     /\ DOMAIN rtt' = DOMAIN rtt \cup {<<kind, m>>}
                     /\ fanExpected' = [fanExpected EXCEPT ![kind] = @ + 1]
    BY <1>0, <2>1, EntryCounts DEF Clean
  <2>3. ASSUME Clean' PROVE AllCounted' /\ \A k \in Messages : EntriesFollow(k)'
    <3>1. Clean /\ redelivered = 0 /\ AllCounted /\ EntriesFollow(m) /\ OneOfEach(m)
      BY <2>2, <2>3 DEF Clean
    <3>2. <<kind, m>> \notin DOMAIN rtt
      BY <1>1, <3>1 DEF EntriesFollow
    <3>3. AllCounted'
      BY <2>2, <2>3, <3>1, <3>2, CountsMove DEF EntriesInv
    <3>4. ASSUME NEW k \in Messages PROVE EntriesFollow(k)'
      <4>1. EntriesFollow(k) /\ OneOfEach(k)
        BY <3>1
      <4>2. CASE k # m
        BY <1>0, <1>1, <2>2, <2>3, <4>1, <4>2 DEF EntriesFollow, TrafficTypes
      <4>3. CASE k = m
        <5>1. CASE kind = "syncReq"
          BY <1>0, <1>1, <1>5, <2>2, <2>3, <4>1, <4>3, <5>1 DEF EntriesFollow, TrafficTypes
        <5>2. CASE kind = "syncRes"
          <6>1. Back(m) = 1 /\ answered[m] = 1 /\ answered'[m] = 0
            <7>1. /\ answered[m] > 0 /\ answered'[m] = answered[m] - 1
                  /\ From[m] \in Synthetic
              BY <1>1, <1>5, <5>2 DEF TrafficTypes
            <7>2. Back(m) = 1
              BY <3>1, <7>1 DEF EntriesFollow
            <7>3. answered[m] <= 1
              BY <1>0, <3>1 DEF OneOfEach
            <7> QED  BY <1>0, <7>1, <7>2, <7>3
          <6> QED  BY <1>0, <1>1, <1>5, <2>2, <2>3, <4>1, <4>3, <5>2, <6>1 DEF EntriesFollow
        <5> QED  BY <5>1, <5>2 DEF PrivateKinds
      <4> QED  BY <4>2, <4>3
    <3> QED  BY <3>3, <3>4
  <2> QED  BY <1>0, <1>2, <1>3, <2>2, <2>3
<1> QED  BY <1>1, <1>4, <1>5

(***************************************************************************)
(* Copies arrive and are tallied.                                          *)
(***************************************************************************)
LEMMA ArrivalsKeepFollow ==
  ASSUME FollowInv, NEW m \in Messages, NEW at \in Reg!Stamps,
         OnMessage(m, at) \/ OnResponse(m, at)
  PROVE  FollowInv'
<1> USE DEF FollowInv
<1>0. /\ UNCHANGED <<now, sender, answered, perKind>>
      /\ \A k \in Messages : Forth(k) \in Nat /\ Back(k) \in Nat /\ answering[k] \in Nat
                             /\ answered[k] \in Nat
  BY DEF OnMessage, OnResponse, Forth, Back, TrafficTypes
<1>1. PICK kind \in PrivateKinds, way \in {"to", "back"} :
        /\ Take(<<m, way>>) /\ Reg!RecordRecv(kind, m, at)
        /\ \/ /\ kind = "syncReq" /\ way = "to" /\ To[m] \in Synthetic
              /\ TooEarly("syncReq", m, sender[m] = "published")
              /\ answering' = [answering EXCEPT ![m] = @ + 1]
           \/ /\ kind = "syncRes" /\ way = "back" /\ From[m] \in Synthetic
              /\ TooEarly("syncRes", m, answered[m] > 0)
              /\ answering' = answering
  BY DEF OnMessage, OnResponse, PrivateKinds
<1>2. /\ redelivered' \in Nat /\ wire' \in [Messages \X {"to", "back"} -> Nat]
      /\ redelivered' = 0 =>
           /\ redelivered = 0 /\ wire[<<m, way>>] > 0
           /\ wire' = [wire EXCEPT ![<<m, way>>] = @ - 1]
  BY <1>1, TakeTakesOne
<1>3. early' \in Nat /\ (early' = 0 => early = 0)
  BY <1>1 DEF TooEarly, TrafficTypes
<1>4. TrafficTypes'
  BY <1>0, <1>1, <1>2, <1>3 DEF TrafficTypes
<1>5. ASSUME redelivered' = 0
      PROVE  /\ \A k \in Messages \ {m} : Forth(k)' = Forth(k) /\ Back(k)' = Back(k)
                                          /\ answering'[k] = answering[k]
             /\ \/ /\ kind = "syncReq" /\ Forth(m) > 0 /\ Forth(m)' = Forth(m) - 1
                   /\ Back(m)' = Back(m) /\ answering'[m] = answering[m] + 1
                \/ /\ kind = "syncRes" /\ Back(m) > 0 /\ Back(m)' = Back(m) - 1
                   /\ Forth(m)' = Forth(m) /\ answering'[m] = answering[m]
  BY <1>1, <1>2, <1>5 DEF Forth, Back, TrafficTypes
<1>6. ASSUME redelivered' = 0, NEW k \in Messages PROVE OneOfEach(k)'
  <2>1. OneOfEach(k)
    BY <1>2, <1>6
  <2>2. CASE k = m
    BY <1>0, <1>5, <1>6, <2>1, <2>2 DEF OneOfEach
  <2>3. CASE k # m
    BY <1>0, <1>5, <1>6, <2>1, <2>3 DEF OneOfEach
  <2> QED  BY <2>2, <2>3
<1>7. /\ EntriesInv' /\ fanExpected' = fanExpected
      /\ DOMAIN rtt' = DOMAIN rtt \ {<<kind, m>>}
      /\ fanArrived' = IF <<kind, m>> \in DOMAIN rtt
                         THEN [fanArrived EXCEPT ![kind] = @ + 1] ELSE fanArrived
  BY <1>0, <1>1, ReceiptCounts
<1>8. ASSUME Clean' PROVE AllCounted' /\ \A k \in Messages : EntriesFollow(k)'
  <2>1. Clean /\ redelivered' = 0 /\ early' = 0
    BY <1>0, <1>2, <1>3, <1>8 DEF Clean, EntriesFit
  <2>2. AllCounted /\ redelivered = 0
    BY <2>1 DEF Clean
  <2>3. AllCounted'
    <3>1. CASE <<kind, m>> \in DOMAIN rtt
      BY <1>7, <2>2, <3>1, CountsMove DEF EntriesInv
    <3>2. CASE <<kind, m>> \notin DOMAIN rtt
      BY <1>7, <2>2, <3>2 DEF AllCounted, Awaiting
    <3> QED  BY <3>1, <3>2
  <2>4. ASSUME NEW k \in Messages PROVE EntriesFollow(k)'
    <3>1. EntriesFollow(k) /\ OneOfEach(k)
      BY <2>1, <2>2
    <3>2. CASE k # m
      BY <1>0, <1>5, <1>7, <2>1, <3>1, <3>2 DEF EntriesFollow
    <3>3. CASE k = m
      <4>1. CASE kind = "syncReq"
        <5>1. sender[m] # "published"
          BY <1>1, <2>1, <3>1, <3>3, <4>1 DEF TooEarly, EntriesFollow, TrafficTypes, Clean
        <5> QED  BY <1>0, <1>5, <1>7, <2>1, <3>1, <3>3, <4>1, <5>1 DEF EntriesFollow, OneOfEach
      <4>2. CASE kind = "syncRes"
        <5>1. answered[m] = 0
          BY <1>0, <1>1, <2>1, <3>1, <3>3, <4>2 DEF TooEarly, EntriesFollow, TrafficTypes, Clean
        <5> QED  BY <1>0, <1>5, <1>7, <2>1, <3>1, <3>3, <4>2, <5>1 DEF EntriesFollow, OneOfEach
      <4> QED  BY <4>1, <4>2 DEF PrivateKinds
    <3> QED  BY <3>2, <3>3
  <2> QED  BY <2>3, <2>4
<1> QED  BY <1>2, <1>4, <1>6, <1>7, <1>8

LEMMA FollowInvStep == FollowInv /\ [Next]_vars => FollowInv'
<1> SUFFICES ASSUME FollowInv, [Next]_vars PROVE FollowInv'
  OBVIOUS
<1>1. ASSUME UNCHANGED <<registry, traffic, early, perKind>>, now' \in {now, now + 1}
      PROVE  FollowInv'
  <2>1. now' \in Nat /\ (Clean' => Clean)
    <3>1. now \in Nat /\ TTL \in Nat
      BY ExchangeAssumption DEF FollowInv, EntriesInv
    <3> QED  BY <1>1, <3>1 DEF Clean, EntriesFit, traffic
  <2> QED  BY <1>1, <2>1 DEF FollowInv, EntriesInv, TrafficTypes, OneOfEach, EntriesFollow,
              AllCounted, Awaiting, Forth, Back, EntriesFit, registry, traffic
<1>2. CASE Tick
  BY <1>1, <1>2 DEF Tick, Reg!Tick, Reg!registryVars, registry
<1>3. CASE UNCHANGED vars
  BY <1>1, <1>3 DEF vars
<1>4. ASSUME NEW m \in Messages, NEW at \in Reg!Stamps, ResolvePending(m, at)
      PROVE  FollowInv'
  <2>1. UNCHANGED <<now, registry, sender, wire, answering, answered, redelivered, early,
                    perKind>>
    BY <1>4 DEF ResolvePending
  <2> QED  BY <2>1 DEF FollowInv, EntriesInv, TrafficTypes, OneOfEach, EntriesFollow,
              AllCounted, Awaiting, Forth, Back, EntriesFit, Clean, registry
<1>5. ASSUME NEW m \in Messages, AppendTrip(m) PROVE FollowInv'
  <2>1. UNCHANGED <<now, registry, sender, wire, answering, answered, redelivered, early,
                    perKind>>
    BY <1>5 DEF AppendTrip
  <2> QED  BY <2>1 DEF FollowInv, EntriesInv, TrafficTypes, OneOfEach, EntriesFollow,
              AllCounted, Awaiting, Forth, Back, EntriesFit, Clean, registry
<1> QED  BY <1>2, <1>3, <1>4, <1>5, SendersKeepFollow, EntriesKeepFollow, ArrivalsKeepFollow
         DEF Next

(***************************************************************************)
(* ForeignPeersDoNotCount: however many foreign peers there are, whatever  *)
(* they ask and answer, the fan figures of the private kinds are about the *)
(* receivers of this process, and complete once everything has arrived, if *)
(* nothing came too early, twice or too late (report.go:62-66, 307-332).   *)
(***************************************************************************)
THEOREM ForeignPeersStayOut == Spec => []ForeignPeersDoNotCount
<1>1. FollowInv => ForeignPeersDoNotCount
  <2> SUFFICES ASSUME FollowInv, NEW kind \in PrivateKinds
               PROVE  /\ fanExpected[kind] <= perKind[kind]
                      /\ EntriesFit =>
                           /\ fanExpected[kind] = perKind[kind]
                           /\ Quiet /\ early = 0 /\ redelivered = 0 /\ now <= TTL =>
                                fanArrived[kind] = fanExpected[kind]
    BY DEF ForeignPeersDoNotCount, PrivateKinds
  <2>1. ASSUME Quiet, Clean PROVE fanArrived[kind] = fanExpected[kind]
    <3>1. Awaiting(kind) = {}
      <4>1. ASSUME NEW m \in Messages, <<kind, m>> \in DOMAIN rtt PROVE FALSE
        <5>1. EntriesFollow(m)
          BY <2>1 DEF FollowInv
        <5>2. CASE kind = "syncReq"
          <6>1. To[m] \in Synthetic /\ Forth(m) = 1
            BY <4>1, <5>1, <5>2 DEF EntriesFollow
          <6>2. Forth(m) = 0
            BY <2>1, <6>1 DEF Quiet, Forth
          <6> QED  BY <6>1, <6>2
        <5>3. CASE kind = "syncRes"
          <6>1. From[m] \in Synthetic /\ Back(m) = 1
            BY <4>1, <5>1, <5>3 DEF EntriesFollow
          <6>2. Back(m) = 0
            BY <2>1, <6>1 DEF Quiet, Back
          <6> QED  BY <6>1, <6>2
        <5> QED  BY <5>2, <5>3 DEF PrivateKinds
      <4> QED  BY <4>1 DEF Awaiting, FollowInv, EntriesInv
    <3>2. fanArrived[kind] \in Nat
      BY DEF FollowInv, EntriesInv, PrivateKinds, Kinds
    <3> QED  BY <2>1, <3>1, <3>2, FS_EmptySet DEF FollowInv, AllCounted
  <2> QED  BY <2>1 DEF FollowInv, EntriesInv, Clean
<1> QED  BY FollowInvInit, FollowInvStep, <1>1, PTL DEF Spec

-------------------------------------------------------------------------------
(***************************************************************************)
(* Each call these exchanges make of the collector is one the registry     *)
(* allows, and what they do with the foreign ledger it does not see.  That *)
(* is how the exchanges are written; it is stated for the theorem after    *)
(* it, which carries the registry's own properties over.                   *)
(***************************************************************************)
LEMMA ExchangesUseTheRegistry == Spec => Reg!Spec
<1>1. Init => Reg!Init
  BY DEF Init
<1>2. [Next]_vars => [Reg!Next]_Reg!vars
  <2> SUFFICES ASSUME [Next]_vars PROVE [Reg!Next]_Reg!vars
    OBVIOUS
  <2> USE DEF registry, Reg!vars, Reg!registryVars
  <2>1. ASSUME NEW m \in Messages, SendPrivate(m) \/ SendResponse(m) \/ ForeignReceives(m)
        PROVE  UNCHANGED Reg!vars
    BY <2>1 DEF SendPrivate, SendResponse, ForeignReceives
  <2>7. ASSUME NEW m \in Messages,
               AppendTrip(m) \/ \E at \in Reg!Stamps : ResolvePending(m, at)
        PROVE  UNCHANGED Reg!vars
    BY <2>7 DEF AppendTrip, ResolvePending
  <2>2. ASSUME NEW m \in Messages, NEW at \in Reg!Stamps,
               NEW kind \in {"syncReq", "syncRes"}, NEW to,
               Enter(kind, m, to, at), UNCHANGED now
        PROVE  Reg!Next \/ UNCHANGED Reg!vars
    BY <2>2 DEF Enter, Reg!Next, Reg!Step, Kinds
  <2>3. ASSUME NEW m \in Messages, NEW at \in Reg!Stamps,
               NEW kind \in {"syncReq", "syncRes"},
               Reg!RecordRecv(kind, m, at), UNCHANGED now
        PROVE  Reg!Next
    BY <2>3 DEF Reg!Next, Reg!Step, Kinds
  <2>4. ASSUME NEW m \in Messages, NEW at \in Reg!Stamps,
               \/ EnterMessage(m, at) \/ OnMessage(m, at)
               \/ EnterResponse(m, at) \/ OnResponse(m, at)
        PROVE  Reg!Next \/ UNCHANGED Reg!vars
    BY <2>2, <2>3, <2>4 DEF EnterMessage, EnterResponse, OnMessage, OnResponse
  <2>5. CASE Tick
    BY <2>5 DEF Tick, Reg!Next
  <2>6. CASE UNCHANGED vars
    BY <2>6 DEF vars
  <2> QED  BY <2>1, <2>4, <2>5, <2>6, <2>7 DEF Next
<1> QED  BY <1>1, <1>2, PTL DEF Spec, Reg!Spec

(***************************************************************************)
(* What RegistryProofs proves holds of the registry these exchanges call:  *)
(* its constants and its registry are theirs.                              *)
(***************************************************************************)
RegP == INSTANCE RegistryProofs WITH
          PubTrack <- "pubTrack", Ids <- Messages, MaxExpected <- 1,
          MaxFan <- 2 * Cardinality(Messages), MaxTracks <- 0, pubTracks <- <<>>

LEMMA RegistryIsProved == RegP!RegistryAssumption
<1>1. IsFiniteSet(Messages) <=> RegP!IsFiniteSet(Messages)
  BY DEF IsFiniteSet, RegP!IsFiniteSet
<1>2. 2 * Cardinality(Messages) \in Nat
  BY ExchangeAssumption, FS_CardinalityType
<1> QED  BY <1>1, <1>2, ExchangeAssumption DEF RegP!RegistryAssumption, Kinds

LEMMA SameSend ==
  ASSUME NEW kind, NEW id, NEW at, NEW expected, Reg!RecordSend(kind, id, at, expected)
  PROVE  RegP!RecordSend(kind, id, at, expected)
<1>1. Reg!Kept(at) = RegP!Kept(at)
  BY DEF Reg!Kept, RegP!Kept, Reg!SweepDue, RegP!SweepDue, Reg!Stale, RegP!Stale
<1>2. Reg!Full(at) <=> RegP!Full(at)
  BY <1>1 DEF Reg!Full, RegP!Full, Reg!Cardinality, RegP!Cardinality
<1> QED  BY <1>1, <1>2
         DEF Reg!RecordSend, RegP!RecordSend, Reg!SweepDue, RegP!SweepDue,
             Reg!Registered, RegP!Registered, Reg!Awaited, RegP!Awaited,
             Reg!Restrict, RegP!Restrict, Reg!NoTrack, RegP!NoTrack

LEMMA SameReceipt ==
  ASSUME NEW kind, NEW id, NEW at, Reg!RecordRecv(kind, id, at)
  PROVE  RegP!RecordRecv(kind, id, at)
BY DEF Reg!RecordRecv, RegP!RecordRecv, Reg!Completes, RegP!Completes,
       Reg!Receipted, RegP!Receipted, Reg!TrackReceipted, RegP!TrackReceipted,
       Reg!NoTrack, RegP!NoTrack, Reg!Restrict, RegP!Restrict,
       Reg!registryVars, RegP!registryVars

LEMMA SameRegistry == Reg!Spec => RegP!Spec
<1>1. Reg!Init => RegP!Init
  BY DEF Reg!Init, RegP!Init
<1>2. [Reg!Next]_Reg!vars => [RegP!Next]_RegP!vars
  <2> USE DEF Reg!vars, RegP!vars, Reg!registryVars, RegP!registryVars
  <2>1. Reg!Tick => RegP!Tick
    BY DEF Reg!Tick, RegP!Tick
  <2>2. Reg!Step => RegP!Step
    BY SameSend, SameReceipt
       DEF Reg!Step, RegP!Step, Reg!Stamps, RegP!Stamps, Reg!AppendTrack
  <2> QED  BY <2>1, <2>2 DEF Reg!Next, RegP!Next
<1> QED  BY <1>1, <1>2, PTL DEF Reg!Spec, RegP!Spec

(***************************************************************************)
(* However many users and foreign peers exchange whatever messages, the    *)
(* fan figure stays within what was promised, and the registry within its  *)
(* cap: what is proved of Registry holds of the exchanges.                 *)
(***************************************************************************)
THEOREM ExchangesKeepTheFan ==
  Spec => []RegP!FanWithinExpected /\ []RegP!RegistryBounded
<1>1. RegP!Spec => []RegP!FanWithinExpected
  BY RegistryIsProved, RegP!FanAlwaysWithinExpected
<1>2. RegP!Spec => []RegP!RegistryBounded
  BY RegistryIsProved, RegP!RegistryAlwaysBounded
<1> QED  BY <1>1, <1>2, SameRegistry, ExchangesUseTheRegistry, PTL
         
===============================================================================
