----------------------------- MODULE DeliveryProofs -----------------------------
(***************************************************************************)
(* Why churn detection can be measured: for every room, however many users *)
(* chat and are replaced, no receipt of a leave signal comes before its    *)
(* registration, unless the user ended before its cancel.  The invariant   *)
(* follows the signal: whatever carries it belongs to a user that was      *)
(* cancelled or ended before, and what was cancelled was registered.       *)
(*                                                                         *)
(* That the fan figure counts the receipts of what was registered, each    *)
(* message up to its promise; and that the room uses the registry as the   *)
(* registry allows, so that what is proved of it holds in the room.        *)
(***************************************************************************)
EXTENDS Delivery, TLAPS, FiniteSetTheorems

\* What a leave signal of v stands for, and that it was registered.
Signal(v) == <<"leave", v>>
IsRegistered(v) == Signal(v) \in DOMAIN promised
Left(v) == v \in cancelled \cup died

\* The parts of the type invariant the argument reads.
RoomTypes ==
  /\ cancelled \subseteq Users /\ died \subseteq Users
  /\ churn \in [step : {"idle", "sized", "registered", "cancelled"},
                victim : SUBSET Users, expected : Nat]
  /\ roomLive \in Nat
  /\ got \in [Key -> SUBSET Users]
  /\ \A copy \in inbox : copy.to \in Users /\ copy.key \in Key
  /\ \A h \in handling : h.by \in Users /\ h.key \in Key

(***************************************************************************)
(* The churn loop cancels what it has registered, one user at a time.      *)
(***************************************************************************)
CancelledWereRegistered ==
  /\ \A v \in cancelled : IsRegistered(v)
  /\ \A v, w \in churn.victim : v = w
  /\ churn.step \in {"registered", "cancelled"} =>
       \A v \in churn.victim : IsRegistered(v)

(***************************************************************************)
(* A leave signal is told, handled or tallied only of a user that left.    *)
(***************************************************************************)
SignalsAreOfTheGone ==
  \A v \in Users :
    /\ \A copy \in inbox : copy.key = Signal(v) => Left(v)
    /\ \A h \in handling : h.key = Signal(v) => Left(v)
    /\ got[Signal(v)] # {} => Left(v)

LeaveInv == RoomTypes /\ CancelledWereRegistered /\ SignalsAreOfTheGone /\ LeaveNeverEarly

(***************************************************************************)
(* Only the churn loop cancels, and only what it has registered.           *)
(***************************************************************************)
LEMMA ChurnRegistersFirst ==
  ASSUME LeaveInv,
         \/ \E v \in Users : Pick(v) \/ RegisterLeave(v) \/ Cancel(v)
         \/ ChurnLeave
  PROVE  LeaveInv'
<1> USE DEF LeaveInv, RoomTypes, CancelledWereRegistered, IsRegistered, Signal
<1>1. ASSUME NEW v \in Users, Pick(v) PROVE LeaveInv'
  <2>1. Others \in Nat
    BY DEF Others
  <2> QED  BY <1>1, <2>1 DEF Pick, registry, room, faults, history,
                            SignalsAreOfTheGone, LeaveNeverEarly, Left
<1>2. ASSUME NEW v \in Users, RegisterLeave(v) PROVE LeaveInv'
  <2>1. DOMAIN promised' = DOMAIN promised \cup {Signal(v)}
    BY <1>2 DEF RegisterLeave, Promise
  <2>2. CancelledWereRegistered'
    BY <1>2, <2>1 DEF RegisterLeave, room
  <2> QED  BY <1>2, <2>2 DEF RegisterLeave, room, faults, SignalsAreOfTheGone,
                            LeaveNeverEarly, Left
<1>3. ASSUME NEW v \in Users, Cancel(v) PROVE LeaveInv'
  <2>1. IsRegistered(v)
    BY <1>3 DEF Cancel
  <2> QED  BY <1>3, <2>1 DEF Cancel, faults, history, SignalsAreOfTheGone,
                            LeaveNeverEarly, Left
<1>4. CASE ChurnLeave
  <2>1. roomLive' \in Nat
    BY <1>4 DEF ChurnLeave
  <2> QED  BY <1>4, <2>1 DEF ChurnLeave, NoChurn, faults, history,
                            SignalsAreOfTheGone, LeaveNeverEarly, Left
<1> QED  BY <1>1, <1>2, <1>3, <1>4

(***************************************************************************)
(* A leave signal enters the inbox when its user's run returns, and when   *)
(* an event that was tallied comes again.                                  *)
(***************************************************************************)
LEMMA SignalsComeOfLeaving ==
  ASSUME LeaveInv,
         NEW u \in Users, NEW v \in Users, Die(u) \/ Close(u) \/ Redeliver(u, v)
  PROVE  LeaveInv'
<1> USE DEF LeaveInv, RoomTypes, Signal
<1>0. Signal(u) \in Key /\ Signal(v) \in Key
  BY DEF Key, Kinds
<1>1. ASSUME Return(u) PROVE LeaveInv'
  <2> DEFINE told == IF phase[u] = "joining" THEN {} ELSE Attached \ {u}
  <2>1. told \subseteq Users
    BY DEF Attached
  <2>2. inbox' = inbox \cup {[to |-> w, key |-> Signal(u)] : w \in told}
    BY <1>1 DEF Return
  <2>3. CancelledWereRegistered'
    BY <1>1 DEF Return, history, CancelledWereRegistered, IsRegistered
  <2>4. /\ died \subseteq died' /\ died' \subseteq Users /\ u \in cancelled \cup died'
        /\ UNCHANGED <<cancelled, handling, got, early, churn, roomLive>>
    BY <1>1 DEF Return, history
  <2>5. LeaveNeverEarly'
    BY <2>4 DEF LeaveNeverEarly
  <2>6. RoomTypes'
    BY <1>0, <2>1, <2>2, <2>4
  <2>7. SignalsAreOfTheGone'
    BY <2>2, <2>4 DEF SignalsAreOfTheGone, Left
  <2> QED  BY <2>3, <2>5, <2>6, <2>7
<1>2. CASE Die(u) \/ Close(u)
  BY <1>1, <1>2 DEF Die, Close
<1>3. CASE Redeliver(u, v)
  <2>1. Left(v)
    BY <1>3 DEF Redeliver, SignalsAreOfTheGone
  <2>2. CancelledWereRegistered' /\ LeaveNeverEarly'
    BY <1>3 DEF Redeliver, room, history, CancelledWereRegistered, IsRegistered,
                LeaveNeverEarly
  <2>3. RoomTypes'
    BY <1>0, <1>3 DEF Redeliver, room, history
  <2>4. SignalsAreOfTheGone'
    BY <1>3, <2>1 DEF Redeliver, room, history, SignalsAreOfTheGone, Left
  <2> QED  BY <2>2, <2>3, <2>4
<1> QED  BY <1>1, <1>2, <1>3

(***************************************************************************)
(* A receipt is handled and tallied.  A leave signal without registration  *)
(* is not of a cancelled user, so its user ended before.                   *)
(***************************************************************************)
LEMMA ReceiptsKeepLeaveInv ==
  ASSUME LeaveInv,
         \/ \E copy \in inbox : Dispatch(copy)
         \/ \E h \in handling : Tally(h)
  PROVE  LeaveInv'
<1> USE DEF LeaveInv, RoomTypes, Signal
<1>1. ASSUME NEW copy \in inbox, Dispatch(copy) PROVE LeaveInv'
  <2>1. CancelledWereRegistered' /\ LeaveNeverEarly'
    BY <1>1 DEF Dispatch, room, faults, history, CancelledWereRegistered,
                IsRegistered, LeaveNeverEarly
  <2>2. RoomTypes'
    BY <1>1 DEF Dispatch, room, faults, history
  <2>3. SignalsAreOfTheGone'
    BY <1>1 DEF Dispatch, room, faults, history, SignalsAreOfTheGone, Left
  <2> QED  BY <2>1, <2>2, <2>3
<1>2. ASSUME NEW h \in handling, Tally(h) PROVE LeaveInv'
  <2>1. CancelledWereRegistered'
    BY <1>2 DEF Tally, room, CancelledWereRegistered, IsRegistered
  <2>2. RoomTypes'
    BY <1>2 DEF Tally, room, faults
  <2>3. SignalsAreOfTheGone'
    BY <1>2 DEF Tally, room, faults, SignalsAreOfTheGone, Left
  <2>4. LeaveNeverEarly'
    <3> SUFFICES ASSUME NEW v \in Users, Signal(v) \in early', v \notin died
                 PROVE  FALSE
      BY <1>2 DEF LeaveNeverEarly, Tally, faults
    <3>1. Signal(v) \notin early
      BY DEF LeaveNeverEarly
    <3>2. h.key = Signal(v) /\ ~IsRegistered(v)
      BY <1>2, <3>1 DEF Tally, IsRegistered
    <3>3. v \in cancelled
      BY <3>2 DEF SignalsAreOfTheGone, Left
    <3> QED  BY <3>2, <3>3 DEF CancelledWereRegistered
  <2> QED  BY <2>1, <2>2, <2>3, <2>4
<1> QED  BY <1>1, <1>2

(***************************************************************************)
(* A chat and its registration, a join and the clock leave the signals     *)
(* alone: their copies carry another key.                                  *)
(***************************************************************************)
LEMMA TheRestKeepsLeaveInv ==
  ASSUME LeaveInv,
         \/ \E u \in Users : Attach(u) \/ Subscribe(u) \/ AddJoined(u)
         \/ \E u \in Chatters : Publish(u) \/ Stamp(u) \/ Size(u) \/ Register(u)
         \/ Tick \/ EndWindow
         \/ UNCHANGED vars
  PROVE  LeaveInv'
<1> USE DEF LeaveInv, RoomTypes, Signal, registry, room, faults, history
<1>1. ASSUME NEW u \in Users, Attach(u) \/ Subscribe(u) \/ AddJoined(u)
      PROVE  LeaveInv'
  <2>1. roomLive' \in Nat
    BY <1>1 DEF Attach, Subscribe, AddJoined
  <2> QED  BY <1>1, <2>1 DEF Attach, Subscribe, AddJoined, CancelledWereRegistered,
                            IsRegistered, SignalsAreOfTheGone, Left, LeaveNeverEarly
<1>2. ASSUME NEW u \in Chatters, Publish(u) PROVE LeaveInv'
  <2>1. \A copy \in inbox' : \/ copy \in inbox
                             \/ copy.to \in Users /\ copy.key = <<"chat", u>>
    BY <1>2 DEF Publish, Subscribed
  <2>2. <<"chat", u>> \in Key /\ \A v \in Users : <<"chat", u>> # Signal(v)
    BY DeliveryAssumption DEF Key, Kinds
  <2>3. CancelledWereRegistered' /\ LeaveNeverEarly'
    BY <1>2 DEF Publish, CancelledWereRegistered, IsRegistered, LeaveNeverEarly
  <2>4. UNCHANGED <<cancelled, died, churn, roomLive, handling, got>>
    BY <1>2 DEF Publish
  <2>5. RoomTypes'
    BY <2>1, <2>2, <2>4
  <2>6. SignalsAreOfTheGone'
    BY <2>1, <2>2, <2>4 DEF SignalsAreOfTheGone, Left
  <2> QED  BY <2>3, <2>5, <2>6
<1>3. ASSUME NEW u \in Chatters, Register(u) PROVE LeaveInv'
  <2>1. DOMAIN promised \subseteq DOMAIN promised'
    BY <1>3 DEF Register, Promise
  <2> QED  BY <1>3, <2>1 DEF Register, CancelledWereRegistered, IsRegistered,
                            SignalsAreOfTheGone, Left, LeaveNeverEarly
<1>4. ASSUME NEW u \in Chatters, Stamp(u) \/ Size(u) PROVE LeaveInv'
  BY <1>4 DEF Stamp, Size, CancelledWereRegistered, IsRegistered,
              SignalsAreOfTheGone, Left, LeaveNeverEarly
<1>5. CASE Tick \/ EndWindow \/ UNCHANGED vars
  BY <1>5 DEF Tick, EndWindow, vars, CancelledWereRegistered, IsRegistered,
              SignalsAreOfTheGone, Left, LeaveNeverEarly
<1> QED  BY <1>1, <1>2, <1>3, <1>4, <1>5

(***************************************************************************)
(* At the start nobody is cancelled, told or tallied.                      *)
(***************************************************************************)
LEMMA LeaveInvInit == Init => LeaveInv
BY DeliveryAssumption, FS_CardinalityType, FS_Subset
   DEF Init, LeaveInv, RoomTypes, CancelledWereRegistered, SignalsAreOfTheGone,
       LeaveNeverEarly, NoChurn, Key, Kinds, Signal, Left

LEMMA LeaveInvHolds == Spec => []LeaveInv
<1>1. LeaveInv /\ [Next]_vars => LeaveInv'
  <2> SUFFICES ASSUME LeaveInv, [Next]_vars PROVE LeaveInv'
    OBVIOUS
  <2>1. ASSUME NEW v \in Users,
               \/ Pick(v) \/ RegisterLeave(v) \/ Cancel(v) \/ Die(v) \/ Close(v)
               \/ \E w \in Users : Redeliver(v, w)
        PROVE  LeaveInv'
    BY <2>1, ChurnRegistersFirst, SignalsComeOfLeaving
  <2>2. CASE ChurnLeave
    BY <2>2, ChurnRegistersFirst
  <2> QED  BY <2>1, <2>2, ReceiptsKeepLeaveInv, TheRestKeepsLeaveInv DEF Next
<1> QED  BY LeaveInvInit, <1>1, PTL DEF Spec

(***************************************************************************)
(* LeaveNeverEarly: no receipt of a leave signal is tallied before the     *)
(* signal is registered, unless its user ended before its cancel           *)
(* (engine.go:167-195, report.go:237-238).                                 *)
(***************************************************************************)
THEOREM LeaveNeverEarlyHolds == Spec => []LeaveNeverEarly
<1>1. LeaveInv => LeaveNeverEarly
  BY DEF LeaveInv
<1> QED  BY LeaveInvHolds, <1>1, PTL

-------------------------------------------------------------------------------
(* The room implements the registry.                                       *)

\* Users that AddJoined has not counted yet.
Uncounted == {u \in Users : phase[u] \in {"joining", "attached", "subscribed"}}

(***************************************************************************)
(* What the room hands to the collector is what the registry accepts:      *)
(* stamps of the past, known ids, and fan-outs of at most everybody.  That *)
(* the live count is never more than the users that have joined bounds     *)
(* them: each user is counted once, and never again.                       *)
(***************************************************************************)
CallsInv ==
  /\ now \in 0..MaxTime
  /\ phase \in [Users -> Phases]
  /\ roomLive \in Nat /\ roomLive + Cardinality(Uncounted) <= Cardinality(Users)
  /\ chat \in [Chatters -> [step : {"idle", "published", "stamped", "sized", "sent"},
                           at : 0..now, expected : 0..Cardinality(Users)]]
  /\ churn.step \in {"idle", "sized", "registered", "cancelled"}
  /\ churn = [step |-> churn.step, victim |-> churn.victim, expected |-> churn.expected]
  /\ churn.victim \subseteq Users
  /\ churn.expected \in 0..Cardinality(Users)
  /\ \A copy \in inbox : copy.key \in Key
  /\ \A h \in handling : h.key \in Key /\ h.at \in 0..now

LEMMA UsersAreCounted ==
  /\ Cardinality(Users) \in Nat
  /\ IsFiniteSet(Uncounted) /\ Cardinality(Uncounted) \in Nat
BY DeliveryAssumption, FS_Subset, FS_CardinalityType DEF Uncounted

LEMMA OthersAreUsers ==
  ASSUME CallsInv
  PROVE  Others \in 0..Cardinality(Users)
BY UsersAreCounted DEF CallsInv, Others

LEMMA CallsInvInit == Init => CallsInv
<1> SUFFICES ASSUME Init PROVE CallsInv
  OBVIOUS
<1>1. Uncounted = Users \ AtStart
  BY DEF Init, Uncounted
<1>2. /\ Cardinality(AtStart) \in Nat
      /\ Cardinality(AtStart) + Cardinality(Users \ AtStart) = Cardinality(Users)
  <2>1. Users \cap AtStart = AtStart
    BY DeliveryAssumption
  <2>2. IsFiniteSet(AtStart)
    BY DeliveryAssumption, FS_Subset
  <2>3. Cardinality(Users \ AtStart) = Cardinality(Users) - Cardinality(Users \cap AtStart)
    BY DeliveryAssumption, FS_Difference
  <2>4. Cardinality(AtStart) \in Nat /\ Cardinality(Users) \in Nat
    BY <2>2, DeliveryAssumption, FS_CardinalityType
  <2> QED  BY <2>1, <2>3, <2>4
<1> QED  BY <1>1, <1>2, UsersAreCounted, DeliveryAssumption
         DEF Init, Reg!Init, CallsInv, Phases, Idle, NoChurn, Key, Kinds

\* A user that moves on is not uncounted again.
LEMMA UncountedShrinks ==
  ASSUME Uncounted' \subseteq Uncounted
  PROVE  Cardinality(Uncounted') <= Cardinality(Uncounted) /\ Cardinality(Uncounted') \in Nat
BY UsersAreCounted, FS_Subset, FS_CardinalityType

(***************************************************************************)
(* Users join, end and close.                                              *)
(***************************************************************************)
LEMMA UsersKeepCallsInv ==
  ASSUME CallsInv, NEW u \in Users,
         \/ Attach(u) \/ Subscribe(u) \/ AddJoined(u) \/ Die(u) \/ Close(u)
         \/ \E v \in Users : Redeliver(u, v)
  PROVE  CallsInv'
<1> USE DEF CallsInv, registry, room, faults, history, Key, Kinds
<1>1. ASSUME Attach(u) \/ Subscribe(u) \/ Die(u) \/ Close(u)
      PROVE  CallsInv'
  <2>1. phase' \in [Users -> Phases] /\ Uncounted' \subseteq Uncounted
    BY <1>1 DEF Attach, Subscribe, Die, Close, Return, Phases, Uncounted
  <2>2. UNCHANGED <<now, roomLive, chat, churn, handling>>
    BY <1>1 DEF Attach, Subscribe, Die, Close, Return
  <2>3. \A copy \in inbox' : copy.key \in Key
    BY <1>1 DEF Attach, Subscribe, Die, Close, Return
  <2> QED  BY <2>1, <2>2, <2>3, UncountedShrinks, UsersAreCounted
<1>2. ASSUME AddJoined(u) PROVE CallsInv'
  <2>1. u \in Uncounted /\ Uncounted' = Uncounted \ {u}
    BY <1>2 DEF AddJoined, Uncounted
  <2>2. Cardinality(Uncounted') = Cardinality(Uncounted) - 1
    BY <2>1, UsersAreCounted, FS_RemoveElement
  <2> QED  BY <1>2, <2>2, UsersAreCounted DEF AddJoined, Phases
<1>3. ASSUME NEW v \in Users, Redeliver(u, v) PROVE CallsInv'
  BY <1>3 DEF Redeliver, Uncounted
<1> QED  BY <1>1, <1>2, <1>3

(***************************************************************************)
(* Senders publish, stamp, size and register; the churn loop sizes,        *)
(* registers, cancels and counts.                                          *)
(***************************************************************************)
LEMMA SendersKeepCallsInv ==
  ASSUME CallsInv,
         \/ \E u \in Chatters : Publish(u) \/ Stamp(u) \/ Size(u) \/ Register(u)
         \/ \E v \in Users : Pick(v) \/ RegisterLeave(v) \/ Cancel(v)
         \/ ChurnLeave
  PROVE  CallsInv'
<1> USE DeliveryAssumption
    DEF CallsInv, registry, room, faults, history, Uncounted
<1>1. ASSUME NEW u \in Chatters, Publish(u) PROVE CallsInv'
  <2>1. \A copy \in inbox' : copy.key \in Key
    BY <1>1 DEF Publish, Key, Kinds
  <2> QED  BY <1>1, <2>1 DEF Publish
<1>2. ASSUME NEW u \in Chatters, Stamp(u) PROVE CallsInv'
  <2>1. now \in 0..now
    OBVIOUS
  <2> QED  BY <1>2, <2>1 DEF Stamp
<1>3. ASSUME NEW u \in Chatters, Size(u) PROVE CallsInv'
  <2>1. Others \in 0..Cardinality(Users)
    BY OthersAreUsers
  <2> QED  BY <1>3, <2>1 DEF Size
<1>4. ASSUME NEW u \in Chatters, Register(u) PROVE CallsInv'
  BY <1>4 DEF Register
<1>5. ASSUME NEW v \in Users, Pick(v) PROVE CallsInv'
  <2>1. Others \in 0..Cardinality(Users)
    BY OthersAreUsers
  <2> QED  BY <1>5, <2>1 DEF Pick
<1>6. ASSUME NEW v \in Users, RegisterLeave(v) \/ Cancel(v) PROVE CallsInv'
  BY <1>6 DEF RegisterLeave, Cancel
<1>7. ASSUME ChurnLeave PROVE CallsInv'
  BY <1>7, UsersAreCounted DEF ChurnLeave, NoChurn
<1> QED  BY <1>1, <1>2, <1>3, <1>4, <1>5, <1>6, <1>7

LEMMA ReceiptsKeepCallsInv ==
  ASSUME CallsInv,
         \/ \E copy \in inbox : Dispatch(copy)
         \/ \E h \in handling : Tally(h)
         \/ Tick \/ EndWindow
         \/ UNCHANGED vars
  PROVE  CallsInv'
<1> USE DeliveryAssumption DEF CallsInv, registry, room, faults, history, Uncounted
<1>1. ASSUME NEW copy \in inbox, Dispatch(copy) PROVE CallsInv'
  BY <1>1 DEF Dispatch
<1>2. ASSUME NEW h \in handling, Tally(h) PROVE CallsInv'
  BY <1>2 DEF Tally
<1>3. CASE Tick
  BY <1>3 DEF Tick, Reg!Tick
<1>4. CASE EndWindow \/ UNCHANGED vars
  BY <1>4 DEF EndWindow, vars
<1> QED  BY <1>1, <1>2, <1>3, <1>4

LEMMA CallsInvHolds == Spec => []CallsInv
<1>1. CallsInv /\ [Next]_vars => CallsInv'
  BY UsersKeepCallsInv, SendersKeepCallsInv, ReceiptsKeepCallsInv DEF Next
<1> QED  BY CallsInvInit, <1>1, PTL DEF Spec

-------------------------------------------------------------------------------
(* The fan figure is exact. *)

(***************************************************************************)
(* A message is registered once: by a sender that has not sent yet, or by  *)
(* the churn loop for the one user it has picked and not yet cancelled.    *)
(***************************************************************************)
RegisteredOnce ==
  /\ \A u \in Chatters : <<"chat", u>> \in DOMAIN promised => chat[u].step = "sent"
  /\ \A v \in Users : IsRegistered(v) =>
       v \in cancelled \/ (churn.step = "registered" /\ v \in churn.victim)
  /\ churn.step = "sized" => \A v \in churn.victim : ~IsRegistered(v)
  /\ \A v, w \in churn.victim : v = w

PendingSend == [at : Nat, expected : Nat, received : Nat, latched : BOOLEAN, pt : Nat]

\* No pending send was swept so far, and none refused for want of room.
NothingForgotten == now <= TTL /\ Cardinality(DOMAIN promised) <= Cap

(***************************************************************************)
(* A pending send knows what was promised of it and how often it was heard *)
(* of since, which is less; a registered message that is not pending any   *)
(* more was heard of often enough, unless it was forgotten.                *)
(***************************************************************************)
PendingsKnow ==
  /\ DOMAIN promised \subseteq Key
  /\ promised \in [DOMAIN promised -> 0..Cardinality(Users)]
  /\ heard \in [Key -> Nat]
  /\ fanArrived \in [Kinds -> Nat]
  /\ DOMAIN rtt \subseteq DOMAIN promised
  /\ rtt \in [DOMAIN rtt -> PendingSend]
  /\ \A key \in DOMAIN rtt : /\ rtt[key].received = heard[key]
                             /\ rtt[key].expected = promised[key]
                             /\ heard[key] < promised[key]
  /\ \A key \in Key \ DOMAIN promised : heard[key] = 0
  /\ NothingForgotten =>
       \A key \in DOMAIN promised \ DOMAIN rtt : promised[key] <= heard[key]

CountInv == CallsInv /\ RegisteredOnce /\ PendingsKnow /\ FanIsExact

Slots == Users \X (1..Cardinality(Users))

LEMMA SlotsAreCounted ==
  ASSUME NEW S \in SUBSET Slots
  PROVE  IsFiniteSet(S) /\ Cardinality(S) \in Nat
<1>1. ASSUME NEW n \in Nat PROVE IsFiniteSet(1..n)
  <2>1. 1 \in Int /\ n \in Int
    OBVIOUS
  <2> QED  BY <2>1, FS_Interval
<1>2. IsFiniteSet(Slots)
  BY <1>1, UsersAreCounted, DeliveryAssumption, FS_Product DEF Slots
<1> QED  BY <1>2, FS_Subset, FS_CardinalityType

\* Receipts that are counted stay counted, and a slot more is one more.
LEMMA CountGrows ==
  ASSUME NEW S \in SUBSET Slots, NEW T \in SUBSET Slots
  PROVE  /\ S \subseteq T => Cardinality(S) <= Cardinality(T)
         /\ \A slot : T = S \cup {slot} /\ slot \notin S
              => Cardinality(T) = Cardinality(S) + 1
BY SlotsAreCounted, FS_Subset, FS_AddElement

LEMMA CountInvInit == Init => CountInv
<1> SUFFICES ASSUME Init PROVE CountInv
  OBVIOUS
<1>1. \A kind \in Kinds : CountedReceipts(kind) = {} /\ fanArrived[kind] = 0
  BY DEF Init, Reg!Init, CountedReceipts
<1>2. FanIsExact
  BY <1>1, FS_EmptySet DEF FanIsExact, Kinds
<1>3. RegisteredOnce /\ PendingsKnow
  BY DEF Init, Reg!Init, RegisteredOnce, PendingsKnow, IsRegistered, Signal, NoChurn,
         PendingSend
<1> QED  BY <1>2, <1>3, CallsInvInit DEF CountInv

(***************************************************************************)
(* A receipt of a pending send takes the next of its slots, and the last   *)
(* one ends it; any other receipt takes none.                              *)
(***************************************************************************)
LEMMA TallyKeepsCount ==
  ASSUME CountInv, NEW h \in handling, Tally(h)
  PROVE  PendingsKnow' /\ FanIsExact'
<1> DEFINE key == h.key
<1>0. key \in Key /\ key = <<key[1], key[2]>> /\ key[1] \in Kinds /\ key[2] \in Users
  BY DEF CountInv, CallsInv, Key
<1>1. UNCHANGED <<promised, now>>
  BY DEF Tally
<1>2. NothingForgotten' <=> NothingForgotten
  BY <1>1 DEF NothingForgotten
<1>3. CASE key \notin DOMAIN promised
  <2>1. UNCHANGED <<heard, rtt, fanArrived>>
    BY <1>0, <1>3 DEF Tally, Reg!RecordRecv, Reg!registryVars, CountInv, PendingsKnow
  <2> QED  BY <1>1, <1>2, <2>1
           DEF CountInv, PendingsKnow, FanIsExact, CountedReceipts, NothingForgotten
<1>4. CASE key \in DOMAIN promised
  <2>1. heard' = [heard EXCEPT ![key] = @ + 1]
    BY <1>4 DEF Tally
  <2>2. heard' \in [Key -> Nat] /\ heard'[key] = heard[key] + 1
        /\ \A k \in Key \ {key} : heard'[k] = heard[k]
    BY <1>0, <2>1 DEF CountInv, PendingsKnow
  <2>3. CASE key \notin DOMAIN rtt
    <3>1. UNCHANGED <<rtt, fanArrived>>
      BY <1>0, <2>3 DEF Tally, Reg!RecordRecv, Reg!registryVars
    <3>2. PendingsKnow'
      BY <1>1, <1>2, <1>4, <2>2, <2>3, <3>1 DEF CountInv, PendingsKnow
    <3>3. ASSUME NEW kind \in {"chat", "leave"}
          PROVE  CountedReceipts(kind) \subseteq CountedReceipts(kind)'
      BY <1>1, <2>2 DEF CountInv, PendingsKnow, CountedReceipts
    <3>4. ASSUME NEW kind \in {"chat", "leave"}, NothingForgotten
          PROVE  CountedReceipts(kind)' = CountedReceipts(kind)
      <4>1. promised[key] <= heard[key] /\ heard[key] \in Nat /\ promised[key] \in Nat
        BY <1>0, <1>4, <2>3, <3>4 DEF CountInv, PendingsKnow
      <4>2. ASSUME NEW slot \in CountedReceipts(kind)' PROVE slot \in CountedReceipts(kind)
        BY <1>1, <2>2, <4>1, <4>2 DEF CountInv, PendingsKnow, CountedReceipts
      <4> QED  BY <3>3, <4>2
    <3>5. ASSUME NEW kind \in {"chat", "leave"}
          PROVE  /\ Cardinality(CountedReceipts(kind)) \in Nat
                 /\ Cardinality(CountedReceipts(kind)') \in Nat
                 /\ Cardinality(CountedReceipts(kind)) <= Cardinality(CountedReceipts(kind)')
      <4>1. CountedReceipts(kind) \subseteq Slots /\ CountedReceipts(kind)' \subseteq Slots
        BY DEF CountedReceipts, Slots
      <4> QED  BY <3>3, <4>1, CountGrows, SlotsAreCounted
    <3>6. FanIsExact'
      <4> SUFFICES ASSUME NEW kind \in {"chat", "leave"}
                   PROVE  /\ fanArrived[kind] <= Cardinality(CountedReceipts(kind)')
                          /\ NothingForgotten => fanArrived[kind]
                                                 = Cardinality(CountedReceipts(kind)')
        BY <1>1, <1>2, <3>1 DEF FanIsExact, NothingForgotten
      <4>1. fanArrived[kind] \in Nat
        BY DEF CountInv, PendingsKnow, Kinds
      <4> QED  BY <3>4, <3>5, <4>1 DEF CountInv, FanIsExact, NothingForgotten
    <3> QED  BY <3>2, <3>6
  <2>4. CASE key \in DOMAIN rtt
    <3>1. /\ rtt[key] \in PendingSend /\ rtt[key].received = heard[key]
          /\ rtt[key].expected = promised[key] /\ heard[key] < promised[key]
          /\ heard[key] \in Nat /\ promised[key] \in 0..Cardinality(Users)
      BY <1>0, <2>4 DEF CountInv, PendingsKnow
    <3>2. /\ rtt' = IF Reg!Completes(Reg!Receipted(key))
                      THEN Reg!Restrict(rtt, DOMAIN rtt \ {key})
                      ELSE [rtt EXCEPT ![key] = Reg!Receipted(key)]
          /\ fanArrived' = [fanArrived EXCEPT ![key[1]] = @ + 1]
      BY <1>0, <2>4 DEF Tally, Reg!RecordRecv
    <3>3. /\ Reg!Receipted(key) = [rtt[key] EXCEPT !.received = @ + 1, !.latched = TRUE]
          /\ Reg!Receipted(key) \in PendingSend
          /\ Reg!Receipted(key).received = heard[key] + 1
          /\ Reg!Receipted(key).expected = promised[key]
      <4>1. rtt[key].received \in Nat /\ rtt[key].received + 1 \in Nat
        BY <3>1
      <4> QED  BY <3>1, <4>1 DEF Reg!Receipted, PendingSend
    <3>4. Reg!Completes(Reg!Receipted(key)) <=> heard[key] + 1 >= promised[key]
      BY <3>3 DEF Reg!Completes
    <3>5. PendingsKnow'
      <4>0. /\ fanArrived' \in [Kinds -> Nat]
            /\ \A k \in Key \ DOMAIN promised : heard'[k] = 0
        BY <1>0, <1>4, <2>2, <3>2 DEF CountInv, PendingsKnow
      <4>1. CASE heard[key] + 1 >= promised[key]
        <5>1. /\ DOMAIN rtt' = DOMAIN rtt \ {key}
              /\ \A k \in DOMAIN rtt' : rtt'[k] = rtt[k]
              /\ rtt' \in [DOMAIN rtt' -> PendingSend]
          BY <3>2, <3>4, <4>1 DEF Reg!Restrict, CountInv, PendingsKnow
        <5>2. ASSUME NEW k \in DOMAIN rtt'
              PROVE  /\ rtt'[k].received = heard'[k] /\ rtt'[k].expected = promised'[k]
                     /\ heard'[k] < promised'[k]
          <6>1. k \in DOMAIN rtt /\ k # key /\ k \in Key
            BY <5>1 DEF CountInv, PendingsKnow
          <6> QED  BY <1>1, <2>2, <5>1, <6>1 DEF CountInv, PendingsKnow
        <5>3. ASSUME NothingForgotten, NEW k \in DOMAIN promised \ DOMAIN rtt'
              PROVE  promised[k] <= heard'[k]
          BY <1>0, <2>2, <4>1, <5>1, <5>3 DEF CountInv, PendingsKnow
        <5>4. DOMAIN rtt' \subseteq DOMAIN promised
          BY <5>1 DEF CountInv, PendingsKnow
        <5> QED  BY <1>1, <1>2, <2>2, <4>0, <5>1, <5>2, <5>3, <5>4
                 DEF CountInv, PendingsKnow
      <4>2. CASE heard[key] + 1 < promised[key]
        <5>1. rtt' = [rtt EXCEPT ![key] = Reg!Receipted(key)]
          BY <3>1, <3>2, <3>4, <4>2
        <5>2. /\ DOMAIN rtt' = DOMAIN rtt /\ rtt'[key] = Reg!Receipted(key)
              /\ \A k \in DOMAIN rtt \ {key} : rtt'[k] = rtt[k]
              /\ rtt' \in [DOMAIN rtt' -> PendingSend]
          BY <2>4, <3>3, <5>1 DEF CountInv, PendingsKnow
        <5>3. ASSUME NEW k \in DOMAIN rtt'
              PROVE  /\ rtt'[k].received = heard'[k] /\ rtt'[k].expected = promised'[k]
                     /\ heard'[k] < promised'[k]
          <6>1. k \in DOMAIN rtt /\ k \in Key
            BY <5>2 DEF CountInv, PendingsKnow
          <6>2. CASE k = key
            BY <1>1, <2>2, <3>3, <4>2, <5>2, <6>2
          <6>3. CASE k # key
            BY <1>1, <2>2, <5>2, <6>1, <6>3 DEF CountInv, PendingsKnow
          <6> QED  BY <6>2, <6>3
        <5>4. ASSUME NothingForgotten, NEW k \in DOMAIN promised \ DOMAIN rtt'
              PROVE  promised[k] <= heard'[k]
          BY <2>2, <2>4, <5>2, <5>4 DEF CountInv, PendingsKnow
        <5>5. DOMAIN rtt' \subseteq DOMAIN promised
          BY <5>2 DEF CountInv, PendingsKnow
        <5> QED  BY <1>1, <1>2, <2>2, <4>0, <5>2, <5>3, <5>4, <5>5
                 DEF CountInv, PendingsKnow
      <4> QED  BY <3>1, <4>1, <4>2
    <3>6. ASSUME NEW kind \in {"chat", "leave"}
          PROVE  CountedReceipts(kind)' =
                   IF kind = key[1] THEN CountedReceipts(kind) \cup {<<key[2], heard[key] + 1>>}
                                    ELSE CountedReceipts(kind)
      <4>1. \A id : <<kind, id>> = key <=> kind = key[1] /\ id = key[2]
        BY <1>0
      <4>2. ASSUME NEW id \in Users, NEW n \in 1..Cardinality(Users)
            PROVE  <<id, n>> \in CountedReceipts(kind)' <=>
                     \/ <<id, n>> \in CountedReceipts(kind)
                     \/ kind = key[1] /\ <<id, n>> = <<key[2], heard[key] + 1>>
        <5>1. CASE <<kind, id>> = key
          BY <1>1, <1>4, <2>2, <3>1, <4>1, <5>1 DEF CountedReceipts
        <5>2. CASE <<kind, id>> # key /\ <<kind, id>> \in Key
          <6>1. heard'[<<kind, id>>] = heard[<<kind, id>>]
            BY <2>2, <5>2
          <6> QED  BY <1>1, <4>1, <5>2, <6>1 DEF CountedReceipts
        <5> QED  BY <5>1, <5>2 DEF Key, Kinds
      <4>3. heard[key] + 1 \in 1..Cardinality(Users)
        BY <3>1, UsersAreCounted
      <4>4. ASSUME NEW slot \in Users \X (1..Cardinality(Users))
            PROVE  slot \in CountedReceipts(kind)' <=>
                     \/ slot \in CountedReceipts(kind)
                     \/ kind = key[1] /\ slot = <<key[2], heard[key] + 1>>
        BY <4>2
      <4> QED  BY <1>0, <4>3, <4>4 DEF CountedReceipts
    <3>7. ASSUME NEW kind \in {"chat", "leave"}
          PROVE  /\ Cardinality(CountedReceipts(kind)) \in Nat
                 /\ Cardinality(CountedReceipts(kind)') =
                      IF kind = key[1] THEN Cardinality(CountedReceipts(kind)) + 1
                                       ELSE Cardinality(CountedReceipts(kind))
      <4>1. CountedReceipts(kind) \subseteq Slots /\ CountedReceipts(kind)' \subseteq Slots
        BY DEF CountedReceipts, Slots
      <4>2. kind = key[1] => <<key[2], heard[key] + 1>> \notin CountedReceipts(kind)
        BY <1>0, <3>1 DEF CountedReceipts
      <4> QED  BY <3>6, <4>1, <4>2, CountGrows, SlotsAreCounted
    <3>8. FanIsExact'
      <4> SUFFICES ASSUME NEW kind \in {"chat", "leave"}
                   PROVE  /\ fanArrived'[kind] <= Cardinality(CountedReceipts(kind)')
                          /\ NothingForgotten => fanArrived'[kind]
                                                 = Cardinality(CountedReceipts(kind)')
        BY <1>1, <1>2 DEF FanIsExact, NothingForgotten
      <4>1. /\ fanArrived[kind] \in Nat
            /\ fanArrived'[kind] = IF kind = key[1] THEN fanArrived[kind] + 1
                                                    ELSE fanArrived[kind]
        BY <1>0, <3>2 DEF CountInv, PendingsKnow, Kinds
      <4> QED  BY <3>7, <4>1 DEF CountInv, FanIsExact, NothingForgotten
    <3> QED  BY <3>5, <3>8
  <2> QED  BY <2>3, <2>4
<1> QED  BY <1>3, <1>4

(***************************************************************************)
(* A registration takes no slot: its message was not heard of before.  It  *)
(* makes the message pending, or expects nothing of it, unless the         *)
(* registry is full.                                                       *)
(***************************************************************************)
LEMMA SameCardinality == \A S : Reg!Cardinality(S) = Cardinality(S)
BY DEF Cardinality, Reg!Cardinality

LEMMA RegistrationKeepsCount ==
  ASSUME CountInv, NEW kind \in Kinds, NEW id \in Users, <<kind, id>> \notin DOMAIN promised,
         NEW at \in 0..now, NEW expected \in 0..Cardinality(Users),
         Reg!RecordSend(kind, id, at, expected), Promise(<<kind, id>>, expected),
         UNCHANGED <<now, heard>>
  PROVE  PendingsKnow' /\ FanIsExact'
<1> DEFINE key == <<kind, id>>
<1>0. /\ key \in Key /\ heard[key] = 0 /\ at \in Nat /\ expected \in Nat
      /\ now \in Nat /\ fanArrived' = fanArrived
  BY UsersAreCounted, DeliveryAssumption
     DEF Key, CountInv, CallsInv, PendingsKnow, Reg!RecordSend
<1>1. /\ DOMAIN promised' = DOMAIN promised \cup {key}
      /\ promised'[key] = expected
      /\ \A k \in DOMAIN promised : promised'[k] = promised[k]
      /\ promised' \in [DOMAIN promised' -> 0..Cardinality(Users)]
  BY DEF Promise, CountInv, PendingsKnow
<1>2. /\ Cardinality(DOMAIN promised) \in Nat /\ IsFiniteSet(DOMAIN promised)
      /\ Cardinality(DOMAIN promised') = Cardinality(DOMAIN promised) + 1
  <2>1. IsFiniteSet(Kinds)
    <3>1. Kinds = ({"chat"} \cup {"leave"}) \cup {"pubTrack"}
      BY DEF Kinds
    <3> QED  BY <3>1, FS_Singleton, FS_AddElement
  <2>2. IsFiniteSet(DOMAIN promised)
    BY <2>1, DeliveryAssumption, FS_Product, FS_Subset DEF Key, CountInv, PendingsKnow
  <2> QED  BY <1>1, <2>2, FS_AddElement, FS_CardinalityType
<1>3. NothingForgotten' => NothingForgotten
  BY <1>2, DeliveryAssumption DEF NothingForgotten
<1>4. ASSUME NothingForgotten' PROVE Reg!Kept(at) = DOMAIN rtt /\ ~Reg!Full(at)
  <2>1. ASSUME NEW k \in DOMAIN rtt PROVE ~Reg!Stale(k, at)
    <3>1. rtt[k].at \in Nat /\ now <= TTL
      BY <1>3, <1>4 DEF CountInv, PendingsKnow, PendingSend, NothingForgotten
    <3> QED  BY <1>0, <3>1, DeliveryAssumption DEF Reg!Stale
  <2>2. Reg!Kept(at) = DOMAIN rtt
    BY <2>1 DEF Reg!Kept
  <2>3. Cardinality(DOMAIN rtt) \in Nat
        /\ Cardinality(DOMAIN rtt) <= Cardinality(DOMAIN promised)
    BY <1>2, FS_Subset, FS_CardinalityType DEF CountInv, PendingsKnow
  <2>4. Cardinality(DOMAIN promised) + 1 <= Cap /\ Cap \in Nat
    BY <1>2, <1>4, DeliveryAssumption DEF NothingForgotten
  <2> QED  BY <1>2, <2>2, <2>3, <2>4, SameCardinality DEF Reg!Full
<1>5. \/ /\ Reg!Awaited(expected) /\ ~Reg!Full(at)
         /\ rtt' = Reg!Registered(key, at, expected)
      \/ /\ ~Reg!Awaited(expected) \/ Reg!Full(at)
         /\ rtt' = Reg!Restrict(rtt, Reg!Kept(at))
  BY DEF Reg!RecordSend
<1>6. PendingsKnow'
  <2>1. Reg!Kept(at) \subseteq DOMAIN rtt /\ key \notin DOMAIN rtt
    BY DEF Reg!Kept, CountInv, PendingsKnow
  <2>2. \A k \in Key \ DOMAIN promised' : heard'[k] = 0
    BY <1>1 DEF CountInv, PendingsKnow
  <2>3. \A k \in DOMAIN rtt : /\ k \in DOMAIN promised /\ rtt[k] \in PendingSend
                              /\ rtt[k].received = heard[k]
                              /\ rtt[k].expected = promised[k] /\ heard[k] < promised[k]
    BY DEF CountInv, PendingsKnow
  <2>4. CASE /\ Reg!Awaited(expected) /\ ~Reg!Full(at)
             /\ rtt' = Reg!Registered(key, at, expected)
    <3> DEFINE send == [at |-> at, expected |-> expected, received |-> 0,
                        latched |-> FALSE, pt |-> 0]
    <3>1. /\ DOMAIN rtt' = Reg!Kept(at) \cup {key}
          /\ \A k \in Reg!Kept(at) : rtt'[k] = rtt[k]
          /\ rtt'[key] = send
          /\ rtt' = [k \in DOMAIN rtt' |-> rtt'[k]]
      BY <2>1, <2>4 DEF Reg!Registered, Reg!NoTrack
    <3>2. send \in PendingSend /\ send.received = 0 /\ send.expected = expected
          /\ 0 < expected
      BY <1>0, <2>4 DEF PendingSend, Reg!Awaited
    <3> HIDE DEF send
    <3>3. rtt' \in [DOMAIN rtt' -> PendingSend] /\ DOMAIN rtt' \subseteq DOMAIN promised'
      BY <1>1, <2>1, <2>3, <3>1, <3>2
    <3>4. ASSUME NEW k \in DOMAIN rtt'
          PROVE  /\ rtt'[k].received = heard'[k] /\ rtt'[k].expected = promised'[k]
                 /\ heard'[k] < promised'[k]
      BY <1>0, <1>1, <2>1, <2>3, <3>1, <3>2
    <3>5. NothingForgotten' =>
            \A k \in DOMAIN promised' \ DOMAIN rtt' : promised'[k] <= heard'[k]
      BY <1>1, <1>3, <1>4, <3>1 DEF CountInv, PendingsKnow
    <3> QED  BY <1>0, <1>1, <2>2, <3>3, <3>4, <3>5 DEF CountInv, PendingsKnow
  <2>5. CASE /\ ~Reg!Awaited(expected) \/ Reg!Full(at)
             /\ rtt' = Reg!Restrict(rtt, Reg!Kept(at))
    <3>1. /\ DOMAIN rtt' = Reg!Kept(at) /\ \A k \in Reg!Kept(at) : rtt'[k] = rtt[k]
          /\ rtt' = [k \in DOMAIN rtt' |-> rtt'[k]]
      BY <2>5 DEF Reg!Restrict
    <3>2. rtt' \in [DOMAIN rtt' -> PendingSend] /\ DOMAIN rtt' \subseteq DOMAIN promised'
      BY <1>1, <2>1, <2>3, <3>1
    <3>3. ASSUME NEW k \in DOMAIN rtt'
          PROVE  /\ rtt'[k].received = heard'[k] /\ rtt'[k].expected = promised'[k]
                 /\ heard'[k] < promised'[k]
      BY <1>1, <2>1, <2>3, <3>1
    <3>4. NothingForgotten' =>
            \A k \in DOMAIN promised' \ DOMAIN rtt' : promised'[k] <= heard'[k]
      <4>1. ASSUME NothingForgotten', NEW k \in DOMAIN promised' \ DOMAIN rtt'
            PROVE  promised'[k] <= heard'[k]
        <5>1. CASE k = key
          BY <1>0, <1>1, <1>4, <2>5, <4>1, <5>1 DEF Reg!Awaited
        <5>2. CASE k # key
          BY <1>1, <1>3, <1>4, <3>1, <4>1, <5>2 DEF CountInv, PendingsKnow
        <5> QED  BY <5>1, <5>2
      <4> QED  BY <4>1
    <3> QED  BY <1>0, <1>1, <2>2, <3>2, <3>3, <3>4 DEF CountInv, PendingsKnow
  <2> QED  BY <1>5, <2>4, <2>5
<1>7. ASSUME NEW k2 \in {"chat", "leave"}
      PROVE  CountedReceipts(k2)' = CountedReceipts(k2)
  <2>1. ASSUME NEW slot \in Users \X (1..Cardinality(Users))
        PROVE  slot \in CountedReceipts(k2)' <=> slot \in CountedReceipts(k2)
    <3>1. CASE <<k2, slot[1]>> = key
      BY <1>0, <1>1, <3>1 DEF CountedReceipts
    <3>2. CASE <<k2, slot[1]>> # key
      BY <1>1, <3>2 DEF CountedReceipts
    <3> QED  BY <3>1, <3>2
  <2> QED  BY <2>1 DEF CountedReceipts
<1>8. FanIsExact'
  BY <1>0, <1>3, <1>7 DEF CountInv, FanIsExact, NothingForgotten
<1> QED  BY <1>6, <1>8

(***************************************************************************)
(* No other step touches a registration or a count.                        *)
(***************************************************************************)
LEMMA TheRestKeepsCount ==
  ASSUME CountInv, UNCHANGED <<rtt, fanArrived, promised, heard>>, now' \in Nat, now' >= now
  PROVE  PendingsKnow' /\ FanIsExact'
<1>1. NothingForgotten' => NothingForgotten
  <2>1. now \in Nat /\ TTL \in Nat
    BY DeliveryAssumption DEF CountInv, CallsInv
  <2> QED  BY <2>1 DEF NothingForgotten
<1>2. \A kind \in {"chat", "leave"} : CountedReceipts(kind)' = CountedReceipts(kind)
  BY DEF CountedReceipts
<1> QED  BY <1>1, <1>2 DEF CountInv, PendingsKnow, FanIsExact, NothingForgotten

LEMMA StepKeepsRegisteredOnce ==
  ASSUME CountInv, [Next]_vars
  PROVE  RegisteredOnce'
<1> USE DEF CountInv, RegisteredOnce, IsRegistered, Signal
<1>1. ASSUME NEW u \in Users,
             \/ Attach(u) \/ Subscribe(u) \/ AddJoined(u) \/ Die(u) \/ Close(u)
             \/ \E v \in Users : Redeliver(u, v)
      PROVE  RegisteredOnce'
  BY <1>1 DEF Attach, Subscribe, AddJoined, Die, Close, Return, Redeliver, history,
              room
<1>2. ASSUME NEW v \in Users, Pick(v) PROVE RegisteredOnce'
  BY <1>2 DEF Pick, history, room
<1>3. ASSUME NEW v \in Users, RegisterLeave(v) PROVE RegisteredOnce'
  <2>1. DOMAIN promised' = DOMAIN promised \cup {Signal(v)}
    BY <1>3 DEF RegisterLeave, Promise
  <2> QED  BY <1>3, <2>1 DEF RegisterLeave, room, CallsInv
<1>4. ASSUME NEW v \in Users, Cancel(v) PROVE RegisteredOnce'
  BY <1>4 DEF Cancel, history, CallsInv
<1>5. ASSUME ChurnLeave PROVE RegisteredOnce'
  BY <1>5 DEF ChurnLeave, NoChurn, history
<1>6. ASSUME NEW u \in Chatters, Publish(u) \/ Stamp(u) \/ Size(u) PROVE RegisteredOnce'
  <2>1. /\ UNCHANGED <<promised, churn, cancelled>>
        /\ \A w \in Chatters : chat[w].step = "sent" => chat'[w].step = "sent"
    BY <1>6 DEF Publish, Stamp, Size, history, room, CallsInv
  <2> QED  BY <2>1
<1>7. ASSUME NEW u \in Chatters, Register(u) PROVE RegisteredOnce'
  <2>1. DOMAIN promised' = DOMAIN promised \cup {<<"chat", u>>}
    BY <1>7 DEF Register, Promise
  <2>2. \A w \in Chatters : (chat[w].step = "sent" \/ w = u) => chat'[w].step = "sent"
    BY <1>7 DEF Register, CallsInv
  <2> QED  BY <1>7, <2>1, <2>2 DEF Register, room
<1>8. ASSUME NEW copy \in inbox, Dispatch(copy) PROVE RegisteredOnce'
  BY <1>8 DEF Dispatch, history, room
<1>9. ASSUME NEW h \in handling, Tally(h) PROVE RegisteredOnce'
  BY <1>9 DEF Tally, room
<1>10. CASE Tick
  BY <1>10 DEF Tick, history, room
<1>11. CASE EndWindow \/ UNCHANGED vars
  BY <1>11 DEF EndWindow, vars, history, room
<1> QED  BY <1>1, <1>2, <1>3, <1>4, <1>5, <1>6, <1>7, <1>8, <1>9, <1>10, <1>11 DEF Next

LEMMA CountInvHolds == Spec => []CountInv
<1>1. CountInv /\ [Next]_vars => PendingsKnow' /\ FanIsExact'
  <2> SUFFICES ASSUME CountInv, [Next]_vars PROVE PendingsKnow' /\ FanIsExact'
    OBVIOUS
  <2>0. now \in Nat /\ now >= now /\ now \in 0..now
    BY DEF CountInv, CallsInv
  <2>1. ASSUME NEW u \in Users,
               \/ Attach(u) \/ Subscribe(u) \/ AddJoined(u) \/ Die(u) \/ Close(u)
               \/ Pick(u) \/ Cancel(u) \/ \E v \in Users : Redeliver(u, v)
        PROVE  UNCHANGED <<now, rtt, fanArrived, promised, heard>>
    BY <2>1 DEF Attach, Subscribe, AddJoined, Die, Close, Return, Pick, Cancel,
                Redeliver, registry, history
  <2>2. ASSUME NEW u \in Chatters, Publish(u) \/ Stamp(u) \/ Size(u)
        PROVE  UNCHANGED <<now, rtt, fanArrived, promised, heard>>
    BY <2>2 DEF Publish, Stamp, Size, registry, history
  <2>3. ASSUME \/ ChurnLeave \/ EndWindow \/ \E copy \in inbox : Dispatch(copy)
               \/ UNCHANGED vars
        PROVE  UNCHANGED <<now, rtt, fanArrived, promised, heard>>
    BY <2>3 DEF ChurnLeave, EndWindow, Dispatch, vars, registry, history
  <2>4. CASE UNCHANGED <<now, rtt, fanArrived, promised, heard>>
    BY <2>0, <2>4, TheRestKeepsCount
  <2>5. CASE Tick
    BY <2>0, <2>5, TheRestKeepsCount DEF Tick, Reg!Tick, registry, history
  <2>6. ASSUME NEW h \in handling, Tally(h) PROVE PendingsKnow' /\ FanIsExact'
    BY <2>6, TallyKeepsCount
  <2>7. ASSUME NEW u \in Chatters, Register(u) PROVE PendingsKnow' /\ FanIsExact'
    <3>1. /\ u \in Users /\ <<"chat", u>> \notin DOMAIN promised /\ "chat" \in Kinds
          /\ chat[u].at \in 0..now /\ chat[u].expected \in 0..Cardinality(Users)
      BY <2>7, DeliveryAssumption DEF Register, CountInv, CallsInv, RegisteredOnce, Kinds
    <3> QED  BY <2>7, <3>1, RegistrationKeepsCount DEF Register
  <2>8. ASSUME NEW v \in Users, RegisterLeave(v) PROVE PendingsKnow' /\ FanIsExact'
    <3>1. /\ <<"leave", v>> \notin DOMAIN promised /\ "leave" \in Kinds
          /\ churn.expected \in 0..Cardinality(Users)
      BY <2>8 DEF RegisterLeave, CountInv, CallsInv, RegisteredOnce, IsRegistered,
                  Signal, Kinds
    <3> QED  BY <2>0, <2>8, <3>1, RegistrationKeepsCount DEF RegisterLeave
  <2> QED  BY <2>1, <2>2, <2>3, <2>4, <2>5, <2>6, <2>7, <2>8 DEF Next
<1>2. CountInv /\ CallsInv' /\ [Next]_vars => CountInv'
  BY <1>1, StepKeepsRegisteredOnce DEF CountInv
<1> QED  BY CountInvInit, CallsInvHolds, <1>2, PTL DEF Spec

(***************************************************************************)
(* FanIsExact: however receipts overtake registrations, repeat and come    *)
(* late, the tally of a kind is the number of receipts since the           *)
(* registrations, each cut off at what was promised; a sweep or a full     *)
(* registry can only lower it (report.go:307-332, 361-380).                *)
(***************************************************************************)
THEOREM FanIsExactHolds == Spec => []FanIsExact
<1>1. CountInv => FanIsExact
  BY DEF CountInv
<1> QED  BY CountInvHolds, <1>1, PTL

-------------------------------------------------------------------------------
(***************************************************************************)
(* ImplementsRegistry: whatever is lost, repeated, cancelled or counted    *)
(* late, each call this room makes of the collector is one the registry    *)
(* allows, with a stamp of the past and a fan-out of at most everybody.    *)
(***************************************************************************)
THEOREM RoomUsesTheRegistry == Spec => ImplementsRegistry
<1>1. Init => Reg!Init
  BY DEF Init
<1>2. CallsInv /\ [Next]_vars => [Reg!Next]_Reg!vars
  <2> SUFFICES ASSUME CallsInv, [Next]_vars PROVE [Reg!Next]_Reg!vars
    OBVIOUS
  <2> USE DEF registry, Reg!vars, Reg!registryVars
  <2>0. 0..now \subseteq Reg!Stamps
    BY DeliveryAssumption DEF CallsInv, Reg!Stamps
  <2>1. ASSUME NEW u \in Users,
               \/ Attach(u) \/ Subscribe(u) \/ AddJoined(u) \/ Die(u) \/ Close(u)
               \/ Pick(u) \/ Cancel(u) \/ \E v \in Users : Redeliver(u, v)
        PROVE  UNCHANGED Reg!vars
    BY <2>1 DEF Attach, Subscribe, AddJoined, Die, Close, Return, Pick, Cancel,
                Redeliver
  <2>2. ASSUME NEW u \in Chatters, Publish(u) \/ Stamp(u) \/ Size(u)
        PROVE  UNCHANGED Reg!vars
    BY <2>2 DEF Publish, Stamp, Size
  <2>3. ASSUME NEW kind \in {"chat", "leave"}, NEW id \in Users, NEW at \in 0..now,
               NEW expected \in 0..Cardinality(Users),
               Reg!RecordSend(kind, id, at, expected), UNCHANGED now
        PROVE  Reg!Next
    BY <2>0, <2>3 DEF Reg!Next, Reg!Step, Kinds
  <2>4. ASSUME NEW u \in Chatters, Register(u) PROVE Reg!Next
    BY <2>3, <2>4, DeliveryAssumption DEF Register, CallsInv
  <2>5. ASSUME NEW v \in Users, RegisterLeave(v) PROVE Reg!Next
    <3>1. now \in 0..now
      BY DEF CallsInv
    <3> QED  BY <2>3, <2>5, <3>1 DEF RegisterLeave, CallsInv
  <2>6. ASSUME NEW copy \in inbox, Dispatch(copy) PROVE UNCHANGED Reg!vars
    BY <2>6 DEF Dispatch
  <2>7. ASSUME NEW h \in handling, Tally(h) PROVE Reg!Next
    <3>1. h.key[1] \in Kinds /\ h.key[2] \in Users /\ h.at \in Reg!Stamps
      BY <2>0 DEF CallsInv, Key
    <3> QED  BY <2>7, <3>1 DEF Tally, Reg!Next, Reg!Step
  <2>8. CASE ChurnLeave \/ EndWindow
    BY <2>8 DEF ChurnLeave, EndWindow
  <2>9. CASE Tick
    BY <2>9 DEF Tick, Reg!Next
  <2>10. CASE UNCHANGED vars
    BY <2>10 DEF vars
  <2> QED  BY <2>1, <2>2, <2>4, <2>5, <2>6, <2>7, <2>8, <2>9, <2>10 DEF Next
<1> QED  BY <1>1, <1>2, CallsInvHolds, PTL DEF Spec, ImplementsRegistry, Reg!Spec

(***************************************************************************)
(* What RegistryProofs proves holds of the registry this room calls: its   *)
(* constants and its registry are the room's.                              *)
(***************************************************************************)
RegP == INSTANCE RegistryProofs WITH
          PubTrack <- "pubTrack", Ids <- Users, MaxExpected <- Cardinality(Users),
          MaxLag <- MaxTime, MaxFan <- Cardinality(Users) * Cardinality(Users),
          MaxTracks <- 0, pubTracks <- <<>>

LEMMA RegistryIsProved == RegP!RegistryAssumption
<1>1. IsFiniteSet(Users) <=> RegP!IsFiniteSet(Users)
  BY DEF IsFiniteSet, RegP!IsFiniteSet
<1>2. ASSUME NEW n \in Nat PROVE n * n \in Nat
  OBVIOUS
<1>3. {Cardinality(Users), Cardinality(Users) * Cardinality(Users)} \subseteq Nat
  BY <1>2, UsersAreCounted
<1> QED  BY <1>1, <1>3, DeliveryAssumption DEF RegP!RegistryAssumption, Kinds

LEMMA SameSend ==
  ASSUME NEW kind, NEW id, NEW at, NEW expected, Reg!RecordSend(kind, id, at, expected)
  PROVE  RegP!RecordSend(kind, id, at, expected)
<1>1. Reg!Kept(at) = RegP!Kept(at)
  BY DEF Reg!Kept, RegP!Kept, Reg!SweepDue, RegP!SweepDue, Reg!Stale, RegP!Stale
<1>2. Reg!Full(at) <=> RegP!Full(at)
  BY <1>1 DEF Reg!Full, RegP!Full, Reg!Cardinality, RegP!Cardinality
<1> QED  BY <1>1, <1>2
         DEF Reg!RecordSend, RegP!RecordSend, Reg!SweepDue, RegP!SweepDue,
             Reg!Registered, RegP!Registered, Reg!Awaited, RegP!Awaited,
             Reg!Restrict, RegP!Restrict, Reg!NoTrack, RegP!NoTrack

LEMMA SameReceipt ==
  ASSUME NEW kind, NEW id, NEW at, Reg!RecordRecv(kind, id, at)
  PROVE  RegP!RecordRecv(kind, id, at)
BY DEF Reg!RecordRecv, RegP!RecordRecv, Reg!Completes, RegP!Completes,
       Reg!Receipted, RegP!Receipted, Reg!TrackReceipted, RegP!TrackReceipted,
       Reg!NoTrack, RegP!NoTrack, Reg!Restrict, RegP!Restrict,
       Reg!registryVars, RegP!registryVars

LEMMA SameRegistry == Reg!Spec => RegP!Spec
<1>1. Reg!Init => RegP!Init
  BY DEF Reg!Init, RegP!Init
<1>2. [Reg!Next]_Reg!vars => [RegP!Next]_RegP!vars
  <2> USE DEF Reg!vars, RegP!vars, Reg!registryVars, RegP!registryVars
  <2>1. Reg!Tick => RegP!Tick
    BY DEF Reg!Tick, RegP!Tick
  <2>2. Reg!Step => RegP!Step
    BY SameSend, SameReceipt
       DEF Reg!Step, RegP!Step, Reg!Stamps, RegP!Stamps, Reg!AppendTrack
  <2> QED  BY <2>1, <2>2 DEF Reg!Next, RegP!Next
<1> QED  BY <1>1, <1>2, PTL DEF Reg!Spec, RegP!Spec

(***************************************************************************)
(* However the users of a room join, leave, die and are replaced, the fan  *)
(* figure stays within what was promised, and the registry within its cap: *)
(* what is proved of Registry holds of the room.                           *)
(***************************************************************************)
THEOREM RoomKeepsTheFan ==
  Spec => []RegP!FanWithinExpected /\ []RegP!RegistryBounded
<1>1. RegP!Spec => []RegP!FanWithinExpected
  BY RegistryIsProved, RegP!FanAlwaysWithinExpected
<1>2. RegP!Spec => []RegP!RegistryBounded
  BY RegistryIsProved, RegP!RegistryAlwaysBounded
<1> QED  BY <1>1, <1>2, SameRegistry, RoomUsesTheRegistry, PTL
         DEF ImplementsRegistry
===============================================================================
