------------------------------- MODULE EngineProofs -------------------------------
(***************************************************************************)
(* What the engine keeps for every number of rooms, users, churn ticks and *)
(* failures.  Types come first, with what the step of a churn tick tells;  *)
(* on them rests that an active runner is the newest of its slot, and on   *)
(* both that the population gauge accounts for the active runners.         *)
(***************************************************************************)
EXTENDS Engine, FiniteSetTheorems, TLAPS

\* The slots are counted by a natural number.
LEMMA TotalIsNatural == Total \in Nat
<1>1. ASSUME NEW a \in Nat, NEW b \in Nat PROVE a * b \in Nat
  BY <1>1
<1> QED  BY <1>1, EngineAssumption DEF Total

\* One room's gauge moved, within what has joined.
LEMMA GaugeMoved ==
  ASSUME NEW S, NEW a \in Nat, NEW b \in Nat, a <= b, NEW f \in [S -> 0..a],
         NEW x, NEW y, x \in S => y \in 0..b
  PROVE  [f EXCEPT ![x] = y] \in [S -> 0..b]
<1> DEFINE g == [f EXCEPT ![x] = y]
<1>1. ASSUME NEW z \in S PROVE g[z] \in 0..b
  <2>1. f[z] \in 0..b
    <3>1. f[z] \in 0..a
      OBVIOUS
    <3> QED  BY <3>1
  <2>2. CASE z = x
    BY <2>2
  <2>3. CASE z # x
    BY <2>1, <2>3
  <2> QED  BY <2>2, <2>3
<1>2. g = [z \in S |-> g[z]]
  OBVIOUS
<1> HIDE DEF g
<1>3. g \in [S -> 0..b]
  BY <1>1, <1>2
<1> QED  BY <1>3 DEF g

\* The steps that neither start nor stop a runner, nor move a churn tick on.
Quiet == BringUp \/ OpenWindow \/ Expire \/ AbortSpawning \/ Panic \/ StopChurning

(***************************************************************************)
(* The types, how far a churn tick is, and how many generations a slot can *)
(* have had by now.                                                        *)
(***************************************************************************)
TickInv ==
  /\ refill = [step |-> refill.step, victim |-> refill.victim]
  /\ refill.step # "idle" => engine = "churning" /\ spawned = Total
  /\ refill.step \in {"picked", "cancelled", "left"} => refill.victim \in DOMAIN runner
  /\ refill.step \in {"picked", "cancelled"} => churnLeaves < MaxChurns
  /\ refill.step = "left" => refill.victim[2] <= churnLeaves
  /\ engine = "churning" => spawned = Total

TypeInv ==
  /\ TypeOK /\ TickInv
  /\ joinedN \in Nat /\ churnLeaves \in 0..MaxChurns
  /\ \A id \in DOMAIN runner : id[2] <= churnLeaves + 1

\* A token was fetched: the new runner and what SpawnOk leaves alone.
LEMMA SpawnOkTypes ==
  ASSUME TypeInv, NEW id \in Ids, SpawnOk(id)
  PROVE  /\ DOMAIN runner' = DOMAIN runner \cup {id}
         /\ runner' \in [DOMAIN runner' -> {"joining", "joined", "ended"}]
         /\ DOMAIN runner' \subseteq Ids
         /\ active' \subseteq DOMAIN runner'
  BY DEF SpawnOk, TypeInv, TypeOK

\* The number of the next slot to spawn is a slot, the first generation a
\* generation, and the replacement of a victim an id.
LEMMA FirstIsId ==
  ASSUME TypeInv, spawned < Total
  PROVE  <<spawned, 1>> \in Ids
  BY TotalIsNatural, EngineAssumption DEF TypeInv, TypeOK, Ids, Slots

LEMMA ReplacementIsId ==
  ASSUME TypeInv, refill.step = "left"
  PROVE  /\ Replacement(refill.victim) \in Ids
         /\ Replacement(refill.victim)[2] <= churnLeaves + 1
<1>1. refill.victim \in Slots \X (1..(MaxChurns + 1))
  BY DEF TypeInv, TickInv, TypeOK, Ids
<1>2. refill.victim[1] \in Slots /\ refill.victim[2] \in 1..(MaxChurns + 1)
  BY <1>1
<1>3. refill.victim[2] <= churnLeaves /\ churnLeaves \in 0..MaxChurns /\ MaxChurns \in Nat
  BY EngineAssumption DEF TypeInv, TickInv
<1> QED  BY <1>2, <1>3 DEF Replacement, Ids

-------------------------------------------------------------------------------
(***************************************************************************)
(* The variables of the engine, the gauges and the runners keep their      *)
(* types.                                                                  *)
(***************************************************************************)
THEOREM TypesHold == Spec => []TypeInv
<1>1. Init => TypeInv
  BY EngineAssumption, TotalIsNatural
  DEF Init, TypeInv, TypeOK, TickInv, NoRefill, Ids
<1>2. TypeInv /\ [Next]_vars => TypeInv'
  <2> SUFFICES ASSUME TypeInv, [Next]_vars
               PROVE  TypeInv'
    OBVIOUS
  <2>0. /\ Rooms \in Nat /\ MaxChurns \in Nat /\ Total \in Nat
        /\ joinedN \in Nat /\ churnLeaves \in 0..MaxChurns
    BY EngineAssumption, TotalIsNatural DEF TypeInv
  <2>1. CASE Quiet
    <3>1. UNCHANGED <<runnerVars, liveVars, spawned, active, refill, churnLeaves>>
      BY <2>1 DEF Quiet, BringUp, OpenWindow, Expire, AbortSpawning, Panic,
           StopChurning, popVars
    <3>2. roomsUp' \in 0..Rooms
      BY <2>0, <2>1 DEF Quiet, BringUp, OpenWindow, Expire, AbortSpawning, Panic,
           StopChurning, TypeInv, TypeOK
    <3>3. /\ engine' \in {"rooms", "roomFailed", "spawning", "aborting", "churning",
                          "waiting", "panicked", "aborted", "returned"}
          /\ refill.step # "idle" => engine' = engine
          /\ engine' = "churning" => engine = "churning"
      BY <2>1 DEF Quiet, BringUp, OpenWindow, Expire, AbortSpawning, Panic,
           StopChurning, ChurnTick, TypeInv, TypeOK, TickInv
    <3> QED  BY <3>1, <3>2, <3>3
             DEF TypeInv, TypeOK, TickInv, runnerVars, liveVars
  <2>2. CASE SpawnNext
    <3>1. refill.step = "idle" /\ spawned < Total
      BY <2>2 DEF SpawnNext, TypeInv, TickInv
    <3>2. spawned' \in 0..Total /\ engine' = "spawning"
      BY <2>0, <2>2 DEF SpawnNext, TypeInv, TypeOK
    <3>3. UNCHANGED <<roomsUp, refill, cancelled, liveVars, popVars>>
      BY <2>2 DEF SpawnNext
    <3>4. CASE SpawnOk(<<spawned, 1>>)
      <4>1. \A id \in DOMAIN runner' : id[2] <= churnLeaves + 1
        <5>1. <<spawned, 1>>[2] <= churnLeaves + 1
          BY <2>0
        <5>2. DOMAIN runner' = DOMAIN runner \cup {<<spawned, 1>>}
          BY <3>1, <3>4, FirstIsId, SpawnOkTypes
        <5> QED  BY <5>1, <5>2 DEF TypeInv
      <4> QED  BY <3>1, <3>2, <3>3, <3>4, <4>1, FirstIsId, SpawnOkTypes
               DEF TypeInv, TypeOK, TickInv, liveVars, popVars
    <3>5. CASE SpawnFails
      BY <3>1, <3>2, <3>3, <3>5
      DEF SpawnFails, TypeInv, TypeOK, TickInv, liveVars, popVars
    <3> QED  BY <2>2, <3>4, <3>5 DEF SpawnNext
  <2>3. CASE SpawningDone
    BY <2>3 DEF SpawningDone, TypeInv, TypeOK, TickInv, runnerVars, liveVars
  <2>4. CASE \E id \in active : Pick(id)
    BY <2>0, <2>4 DEF Pick, ChurnTick, TypeInv, TypeOK, TickInv, runnerVars, liveVars,
         popVars
  <2>5. CASE CancelVictim
    BY <2>5 DEF CancelVictim, TypeInv, TypeOK, TickInv, liveVars, popVars
  <2>6. CASE ChurnLeave
    <3>1. /\ refill.step = "cancelled" /\ refill' = [refill EXCEPT !.step = "left"]
          /\ churnLeaves' = churnLeaves + 1 /\ churnLeaves < MaxChurns
          /\ refill.victim \in DOMAIN runner /\ refill.victim[2] <= churnLeaves + 1
      BY <2>6 DEF ChurnLeave, TypeInv, TickInv
    <3>2. UNCHANGED <<engineVars, runnerVars, joinedN>> \/
          UNCHANGED <<engine, roomsUp, spawned, active, runner, cancelled, joinedN>>
      BY <2>6 DEF ChurnLeave, runnerVars
    <3>3. roomLive' \in [0..(Rooms - 1) -> 0..joinedN]
      <4> DEFINE room == RoomOf(refill.victim[1])
                 live == IF roomLive[room] > 0 THEN roomLive[room] - 1 ELSE roomLive[room]
      <4>1. roomLive' = [roomLive EXCEPT ![room] = live]
        BY <2>6 DEF ChurnLeave, CountedOut
      <4>2. roomLive \in [0..(Rooms - 1) -> 0..joinedN]
        BY DEF TypeInv, TypeOK
      <4> HIDE DEF room
      <4>3. room \in 0..(Rooms - 1) => live \in 0..joinedN
        BY <2>0, <4>2
      <4> HIDE DEF live
      <4>4. joinedN <= joinedN
        BY <2>0
      <4> QED  BY <2>0, <4>1, <4>2, <4>3, <4>4, GaugeMoved
    <3>4. churnLeaves' \in 0..MaxChurns /\ \A id \in DOMAIN runner : id[2] <= churnLeaves' + 1
      <4>1. \A id \in DOMAIN runner : id[2] \in Int /\ id[2] <= churnLeaves + 1
        BY <2>0 DEF TypeInv, TypeOK, Ids
      <4> QED  BY <2>0, <3>1, <4>1
    <3> QED  BY <2>0, <3>1, <3>2, <3>3, <3>4
             DEF TypeInv, TypeOK, TickInv, engineVars, runnerVars
  <2>7. CASE Refill
    <3>1. refill.step = "left" /\ UNCHANGED <<engine, roomsUp, spawned, cancelled, liveVars, popVars>>
      BY <2>7 DEF Refill
    <3>2. CASE /\ SpawnOk(Replacement(refill.victim))
               /\ refill' = [refill EXCEPT !.step = "refilled"]
      <4>1. \A id \in DOMAIN runner' : id[2] <= churnLeaves + 1
        BY <3>1, <3>2, ReplacementIsId, SpawnOkTypes DEF TypeInv
      <4> QED  BY <3>1, <3>2, <4>1, ReplacementIsId, SpawnOkTypes
               DEF TypeInv, TypeOK, TickInv, liveVars, popVars
    <3>3. CASE SpawnFails /\ refill' = NoRefill
      BY <3>1, <3>3
      DEF SpawnFails, NoRefill, TypeInv, TypeOK, TickInv, liveVars, popVars
    <3> QED  BY <2>7, <3>2, <3>3 DEF Refill
  <2>8. CASE ChurnJoin
    BY <2>8 DEF ChurnJoin, NoRefill, TypeInv, TypeOK, TickInv, runnerVars, liveVars
  <2>9. CASE Return
    BY <2>9 DEF Return, TypeInv, TypeOK, TickInv, runnerVars, liveVars, popVars
  <2>10. CASE \E id \in Ids : Join(id)
    <3>1. PICK id \in Ids : Join(id)
      BY <2>10
    <3>2. joinedN' = joinedN + 1 /\ roomLive' \in [0..(Rooms - 1) -> 0..joinedN']
      <4> DEFINE room == RoomOf(id[1])
                 live == roomLive[room] + 1
      <4>1. /\ joinedN' = joinedN + 1
            /\ roomLive' = [roomLive EXCEPT ![room] = live]
        BY <3>1 DEF Join
      <4>2. roomLive \in [0..(Rooms - 1) -> 0..joinedN]
        BY DEF TypeInv, TypeOK
      <4> HIDE DEF room
      <4>3. room \in 0..(Rooms - 1) => live \in 0..(joinedN + 1)
        BY <2>0, <4>2
      <4> HIDE DEF live
      <4>4. joinedN + 1 \in Nat /\ joinedN <= joinedN + 1
        BY <2>0
      <4>5. roomLive' \in [0..(Rooms - 1) -> 0..(joinedN + 1)]
        BY <2>0, <4>1, <4>2, <4>3, <4>4, GaugeMoved
      <4> QED  BY <4>1, <4>5
    <3>3. /\ DOMAIN runner' = DOMAIN runner
          /\ runner' \in [DOMAIN runner -> {"joining", "joined", "ended"}]
      BY <3>1 DEF Join, TypeInv, TypeOK
    <3> QED  BY <2>0, <3>1, <3>2, <3>3
             DEF Join, TypeInv, TypeOK, TickInv, engineVars, popVars
  <2>11. CASE \E id \in Ids : EndsByItself(id) \/ Close(id)
    <3>1. /\ DOMAIN runner' = DOMAIN runner
          /\ runner' \in [DOMAIN runner -> {"joining", "joined", "ended"}]
          /\ UNCHANGED <<engineVars, cancelled, liveVars, popVars>>
      BY <2>11 DEF EndsByItself, Close, TypeInv, TypeOK
    <3> QED  BY <3>1 DEF TypeInv, TypeOK, TickInv, engineVars, liveVars, popVars
  <2>12. CASE UNCHANGED vars
    BY <2>12 DEF vars, engineVars, runnerVars, liveVars, popVars, TypeInv, TypeOK, TickInv
  <2> QED  BY <2>1, <2>2, <2>3, <2>4, <2>5, <2>6, <2>7, <2>8, <2>9, <2>10, <2>11, <2>12
           DEF Next, Run, Quiet
<1> QED  BY <1>1, <1>2, PTL DEF Spec

-------------------------------------------------------------------------------
(***************************************************************************)
(* Slot by slot: an active runner is the newest of its slot and those      *)
(* before it are cancelled; between the pick of a victim and its           *)
(* replacement the victim is what an active runner was, and no other       *)
(* runner of its slot is active.                                           *)
(***************************************************************************)
Newest(id) ==
  \A other \in DOMAIN runner :
    other[1] = id[1] => other[2] <= id[2] /\ (other # id => other \in cancelled)

SlotInv ==
  /\ OneRunnerPerSlot
  /\ \A id \in DOMAIN runner : id[1] < spawned
  /\ \A id \in active : Newest(id)
  /\ refill.step \in {"picked", "cancelled", "left"} =>
       /\ Newest(refill.victim)
       /\ \A id \in active : id[1] # refill.victim[1]
  /\ refill.step \in {"cancelled", "left"} => refill.victim \in cancelled

\* An id is a pair of numbers.
LEMMA IdIsPair ==
  ASSUME NEW id \in Ids
  PROVE  id[1] \in Nat /\ id[2] \in Nat /\ id = <<id[1], id[2]>>
BY TotalIsNatural, EngineAssumption DEF Ids, Slots

\* Two active runners of a slot are one.
LEMMA ActiveIsAlone ==
  ASSUME TypeInv, SlotInv, NEW a \in active, NEW b \in active, a[1] = b[1]
  PROVE  a = b
<1>1. a \in Ids /\ b \in Ids /\ a \in DOMAIN runner /\ b \in DOMAIN runner
  BY DEF TypeInv, TypeOK
<1>2. a[2] <= b[2] /\ b[2] <= a[2]
  BY <1>1 DEF SlotInv, Newest
<1> QED  BY <1>1, <1>2, IdIsPair

\* A new runner whose slot has only cancelled runners of earlier generations.
LEMMA FreshRunner ==
  ASSUME TypeInv, SlotInv, NEW id \in Ids, SpawnOk(id), UNCHANGED cancelled,
         \A other \in DOMAIN runner :
           other[1] = id[1] => other[2] < id[2] /\ other \in cancelled,
         \A other \in active : other[1] # id[1]
  PROVE  /\ OneRunnerPerSlot'
         /\ \A other \in active' : Newest(other)'
<1>1. /\ DOMAIN runner' = DOMAIN runner \cup {id} /\ DOMAIN runner \subseteq Ids
      /\ active' = active \cup {id} /\ cancelled' = cancelled
  BY SpawnOkTypes DEF SpawnOk, TypeInv, TypeOK
<1>2. OneRunnerPerSlot'
  <2> SUFFICES ASSUME NEW older \in DOMAIN runner', NEW newer \in DOMAIN runner',
                      older[1] = newer[1], older[2] < newer[2]
               PROVE  older \in cancelled'
    BY DEF OneRunnerPerSlot
  <2>1. CASE older = id
    BY <1>1, <2>1, IdIsPair
  <2>2. CASE older # id /\ newer = id
    BY <1>1, <2>2
  <2>3. CASE older # id /\ newer # id
    BY <1>1, <2>3 DEF SlotInv, OneRunnerPerSlot
  <2> QED  BY <2>1, <2>2, <2>3
<1>3. ASSUME NEW other \in active' PROVE Newest(other)'
  <2>1. CASE other = id
    BY <1>1, <2>1, IdIsPair DEF Newest
  <2>2. CASE other # id
    BY <1>1, <2>2 DEF Newest, SlotInv
  <2> QED  BY <2>1, <2>2
<1> QED  BY <1>2, <1>3

(***************************************************************************)
(* An active runner is the newest of its slot, at every step of a tick.    *)
(***************************************************************************)
THEOREM SlotsHold == Spec => []SlotInv
<1>1. Init => SlotInv
  BY DEF Init, SlotInv, OneRunnerPerSlot, NoRefill
<1>2. TypeInv /\ SlotInv /\ [Next]_vars => SlotInv'
  <2> SUFFICES ASSUME TypeInv, SlotInv, [Next]_vars
               PROVE  SlotInv'
    OBVIOUS
  <2>0. /\ spawned \in Nat /\ DOMAIN runner \subseteq Ids /\ active \subseteq DOMAIN runner
        /\ \A id \in DOMAIN runner : id[1] < spawned
    BY TotalIsNatural DEF TypeInv, TypeOK, SlotInv
  <2>1. CASE SpawnNext /\ SpawnOk(<<spawned, 1>>)
    <3>1. refill.step = "idle" /\ refill' = refill /\ cancelled' = cancelled
          /\ spawned' = spawned + 1 /\ spawned < Total
      BY <2>1 DEF SpawnNext, TypeInv, TickInv
    <3>2. \A other \in DOMAIN runner : other[1] # spawned
      BY <2>0, IdIsPair
    <3>3. OneRunnerPerSlot' /\ \A other \in active' : Newest(other)'
      BY <2>0, <2>1, <3>1, <3>2, FirstIsId, FreshRunner
    <3>4. \A id \in DOMAIN runner' : id[1] < spawned'
      <4>1. DOMAIN runner' = DOMAIN runner \cup {<<spawned, 1>>}
        BY <2>1, <3>1, FirstIsId, SpawnOkTypes
      <4>2. <<spawned, 1>>[1] < spawned + 1
        BY <2>0
      <4>3. \A id \in DOMAIN runner : id[1] < spawned + 1
        BY <2>0, IdIsPair
      <4> QED  BY <3>1, <4>1, <4>2, <4>3
    <3> QED  BY <3>1, <3>3, <3>4 DEF SlotInv
  <2>2. CASE Refill /\ SpawnOk(Replacement(refill.victim))
    <3> DEFINE victim == refill.victim
               id == Replacement(victim)
    <3>1. /\ refill.step = "left" /\ cancelled' = cancelled /\ spawned' = spawned
          /\ victim \in DOMAIN runner
      BY <2>2 DEF Refill, TypeInv, TickInv
    <3>2. refill'.step \in {"refilled", "idle"}
      BY <2>2, <3>1 DEF Refill, NoRefill, TypeInv, TickInv
    <3>3. id \in Ids /\ id[1] = victim[1] /\ id[2] = victim[2] + 1
      BY <3>1, ReplacementIsId DEF Replacement
    <3>4. \A other \in DOMAIN runner :
            other[1] = id[1] => other[2] < id[2] /\ other \in cancelled
      BY <2>0, <3>1, <3>3, IdIsPair DEF SlotInv, Newest
    <3>5. \A other \in active : other[1] # id[1]
      BY <3>1, <3>3 DEF SlotInv
    <3>6. OneRunnerPerSlot' /\ \A other \in active' : Newest(other)'
      BY <2>2, <3>1, <3>3, <3>4, <3>5, FreshRunner
    <3>7. \A other \in DOMAIN runner' : other[1] < spawned'
      BY <2>0, <2>2, <3>1, <3>3, SpawnOkTypes
    <3> QED  BY <3>2, <3>6, <3>7, <3>1 DEF SlotInv
  <2>3. CASE \E id \in active : Pick(id)
    <3>1. PICK id \in active : Pick(id)
      BY <2>3
    <3>2. /\ active' = active \ {id} /\ refill' = [step |-> "picked", victim |-> id]
          /\ UNCHANGED <<runner, cancelled, spawned>>
      BY <3>1 DEF Pick, runnerVars
    <3>3. \A other \in active' : other[1] # id[1]
      BY <3>2, ActiveIsAlone
    <3> QED  BY <3>2, <3>3 DEF SlotInv, Newest, OneRunnerPerSlot
  <2>4. CASE CancelVictim
    BY <2>4 DEF CancelVictim, TypeInv, TickInv, SlotInv, Newest, OneRunnerPerSlot
  <2>5. CASE ChurnLeave
    <3>1. /\ refill.step = "cancelled" /\ refill' = [refill EXCEPT !.step = "left"]
          /\ UNCHANGED <<runner, cancelled, spawned, active>>
      BY <2>5 DEF ChurnLeave, runnerVars
    <3> QED  BY <3>1 DEF TypeInv, TickInv, SlotInv, Newest, OneRunnerPerSlot
  <2>6. CASE \/ ChurnJoin
             \/ Refill /\ SpawnFails /\ refill' = NoRefill
             \/ SpawnNext /\ SpawnFails
    <3>1. /\ UNCHANGED <<runner, cancelled, active>>
          /\ spawned' \in {spawned, spawned + 1}
          /\ refill'.step = "idle"
      BY <2>6 DEF ChurnJoin, Refill, SpawnFails, SpawnNext, NoRefill, runnerVars,
           TypeInv, TickInv
    <3>2. \A id \in DOMAIN runner : id[1] < spawned'
      BY <2>0, <3>1, IdIsPair
    <3> QED  BY <3>1, <3>2 DEF SlotInv, Newest, OneRunnerPerSlot
  <2>7. CASE Quiet \/ SpawningDone \/ Return
    BY <2>7 DEF Quiet, BringUp, OpenWindow, Expire, AbortSpawning, Panic, StopChurning,
         SpawningDone, Return, runnerVars, SlotInv, Newest, OneRunnerPerSlot
  <2>8. CASE \E id \in Ids : Join(id) \/ EndsByItself(id) \/ Close(id)
    <3>1. DOMAIN runner' = DOMAIN runner /\ UNCHANGED <<engineVars, cancelled>>
      BY <2>8 DEF Join, EndsByItself, Close, TypeInv, TypeOK
    <3> QED  BY <3>1 DEF engineVars, SlotInv, Newest, OneRunnerPerSlot
  <2>9. CASE UNCHANGED vars
    BY <2>9 DEF vars, engineVars, runnerVars, SlotInv, Newest, OneRunnerPerSlot
  <2>10. SpawnNext => SpawnOk(<<spawned, 1>>) \/ SpawnFails
    BY DEF SpawnNext
  <2>11. Refill => \/ SpawnOk(Replacement(refill.victim))
                   \/ SpawnFails /\ refill' = NoRefill
    BY DEF Refill
  <2>12. CASE SpawnNext
    BY <2>1, <2>6, <2>10, <2>12
  <2>13. CASE Refill
    BY <2>2, <2>6, <2>11, <2>13
  <2> QED  BY <2>3, <2>4, <2>5, <2>6, <2>7, <2>8, <2>9, <2>12, <2>13
           DEF Next, Run, Quiet
<1> QED  BY <1>1, <1>2, TypesHold, PTL DEF Spec

(***************************************************************************)
(* A slot never has two runners that were not told to stop.                *)
(***************************************************************************)
THEOREM OneRunnerHolds == Spec => []OneRunnerPerSlot
<1>1. SlotInv => OneRunnerPerSlot
  BY DEF SlotInv
<1> QED  BY <1>1, SlotsHold, PTL

-------------------------------------------------------------------------------
(***************************************************************************)
(* The population gauge against the list of active runners, at every step  *)
(* of a churn tick.                                                        *)
(***************************************************************************)
\* What the gauge is ahead of the list by: a runner that is unlisted and not yet
\* counted out, or one that is listed and not yet counted in.
Ahead == CASE refill.step \in {"picked", "cancelled"} -> 1
           [] refill.step = "refilled" -> -1
           [] OTHER -> 0

GaugeInv ==
  /\ IsFiniteSet(active) /\ initialMisses \in Nat
  /\ {churnLeaves, churnJoins, churnPop, popMin, popMax} \subseteq Int
  /\ popSet \in BOOLEAN
  /\ popSet <=> engine \in {"churning", "waiting", "panicked", "returned"}
  /\ ~popSet => churnLeaves = 0 /\ churnJoins = 0
  /\ engine \in {"rooms", "spawning"} => Cardinality(active) + initialMisses = spawned
  /\ popSet =>
       /\ popMin <= churnPop /\ churnPop <= popMax
       /\ churnPop = Total - churnLeaves + churnJoins
       /\ churnPop = Cardinality(active) + initialMisses + Ahead

(***************************************************************************)
(* Between churn ticks the population gauge accounts for the active        *)
(* runners and the slots that were never filled.                           *)
(***************************************************************************)
THEOREM PopulationHolds == Spec => []PopulationAccounts
<1> USE DEF GaugeInv
<1>1. Init => GaugeInv
  <2> SUFFICES ASSUME Init PROVE GaugeInv
    OBVIOUS
  <2>1. active = {} /\ spawned = 0 /\ engine = "rooms"
    BY DEF Init
  <2>2. IsFiniteSet(active) /\ Cardinality(active) = 0
    BY <2>1, FS_EmptySet
  <2>3. /\ {churnLeaves, churnJoins, churnPop, popMin, popMax} \subseteq Int
        /\ initialMisses = 0 /\ churnLeaves = 0 /\ churnJoins = 0 /\ popSet = FALSE
    BY DEF Init
  <2>4. popSet \in BOOLEAN /\ ~(engine \in {"churning", "waiting", "panicked", "returned"})
    BY <2>1, <2>3
  <2>5. Cardinality(active) + initialMisses = spawned
    BY <2>1, <2>2, <2>3
  <2>6. ~popSet /\ initialMisses \in Nat
    BY <2>3
  <2> QED  BY <2>2, <2>3, <2>4, <2>5, <2>6
<1>2. TypeInv /\ SlotInv /\ GaugeInv /\ [Next]_vars => GaugeInv'
  <2> SUFFICES ASSUME TypeInv, SlotInv, GaugeInv, [Next]_vars
               PROVE  GaugeInv'
    OBVIOUS
  <2>0. /\ IsFiniteSet(active) /\ Cardinality(active) \in Nat
        /\ spawned \in Nat /\ Total \in Nat
        /\ refill = [step |-> refill.step, victim |-> refill.victim]
    BY FS_CardinalityType, TotalIsNatural DEF TypeInv, TypeOK, TickInv
  <2>1. ASSUME NEW id \in Ids, SpawnOk(id), \A other \in active : other[1] # id[1]
        PROVE  IsFiniteSet(active') /\ Cardinality(active') = Cardinality(active) + 1
    <3>1. active' = active \cup {id} /\ id \notin active
      BY <2>1 DEF SpawnOk
    <3> QED  BY <2>0, <3>1, FS_AddElement
  <2>2. CASE SpawnNext
    <3>1. /\ refill.step = "idle" /\ engine = "spawning" /\ engine' = engine
          /\ spawned' = spawned + 1 /\ spawned < Total /\ ~popSet
          /\ UNCHANGED <<refill, popVars>>
      BY <2>2 DEF SpawnNext, TypeInv, TickInv
    <3>2. CASE SpawnOk(<<spawned, 1>>) /\ UNCHANGED initialMisses
      <4>1. \A other \in active : other[1] # spawned
        BY <2>0, IdIsPair DEF SlotInv, TypeInv, TypeOK
      <4>2. IsFiniteSet(active') /\ Cardinality(active') = Cardinality(active) + 1
        BY <2>1, <3>1, <3>2, <4>1, FirstIsId
      <4> QED  BY <2>0, <3>1, <3>2, <4>2 DEF popVars
    <3>3. CASE SpawnFails /\ initialMisses' = initialMisses + 1
      BY <2>0, <3>1, <3>3 DEF SpawnFails, popVars
    <3> QED  BY <2>2, <3>2, <3>3 DEF SpawnNext
  <2>3. CASE SpawningDone
    <3>1. refill.step = "idle" /\ ~popSet /\ Cardinality(active) + initialMisses = Total
      BY <2>3 DEF SpawningDone, TypeInv, TickInv
    <3> QED  BY <2>0, <2>3, <3>1 DEF SpawningDone, Ahead
  <2>4. CASE \E id \in active : Pick(id)
    <3>1. PICK id \in active : Pick(id)
      BY <2>4
    <3>2. /\ active' = active \ {id} /\ refill.step = "idle" /\ refill'.step = "picked"
          /\ UNCHANGED <<engine, initialMisses, spawned, popVars>>
          /\ engine = "churning"
      BY <3>1 DEF Pick, ChurnTick
    <3>3. IsFiniteSet(active') /\ Cardinality(active') = Cardinality(active) - 1
      BY <2>0, <3>2, FS_RemoveElement
    <3> QED  BY <2>0, <3>2, <3>3 DEF popVars, Ahead
  <2>5. CASE CancelVictim
    <3>1. refill.step = "picked" /\ refill'.step = "cancelled"
      BY <2>0, <2>5 DEF CancelVictim
    <3> QED  BY <2>5, <3>1 DEF CancelVictim, popVars, Ahead
  <2>6. CASE ChurnLeave
    <3>1. /\ refill.step = "cancelled" /\ refill'.step = "left" /\ popSet
          /\ engine = "churning"
      BY <2>0, <2>6 DEF ChurnLeave, TypeInv, TickInv
    <3>2. /\ churnLeaves' = churnLeaves + 1 /\ churnPop' = churnPop - 1
          /\ popMin' = (IF churnPop' < popMin THEN churnPop' ELSE popMin)
          /\ UNCHANGED <<churnJoins, popMax, popSet, engine, spawned, active, initialMisses>>
      BY <2>6, <3>1 DEF ChurnLeave, Lowest
    <3> QED  BY <2>0, <3>1, <3>2 DEF Ahead
  <2>7. CASE Refill
    <3>1. /\ refill.step = "left" /\ popSet /\ engine = "churning"
          /\ UNCHANGED <<engine, spawned, initialMisses, popVars>>
      BY <2>7 DEF Refill, TypeInv, TickInv
    <3>2. CASE /\ SpawnOk(Replacement(refill.victim))
               /\ refill' = [refill EXCEPT !.step = "refilled"]
      <4>1. \A other \in active : other[1] # Replacement(refill.victim)[1]
        BY <3>1 DEF SlotInv, Replacement
      <4>2. IsFiniteSet(active') /\ Cardinality(active') = Cardinality(active) + 1
        BY <2>1, <3>1, <3>2, <4>1, ReplacementIsId
      <4>3. refill'.step = "refilled"
        BY <2>0, <3>2
      <4> QED  BY <2>0, <3>1, <4>2, <4>3 DEF popVars, Ahead
    <3>3. CASE SpawnFails /\ refill' = NoRefill
      BY <2>0, <3>1, <3>3 DEF SpawnFails, NoRefill, popVars, Ahead
    <3> QED  BY <2>7, <3>2, <3>3 DEF Refill
  <2>8. CASE ChurnJoin
    <3>1. /\ refill.step = "refilled" /\ refill'.step = "idle" /\ popSet
      BY <2>8 DEF ChurnJoin, NoRefill, TypeInv, TickInv
    <3>2. /\ churnJoins' = churnJoins + 1 /\ churnPop' = churnPop + 1
          /\ popMax' = (IF churnPop' > popMax THEN churnPop' ELSE popMax)
          /\ UNCHANGED <<churnLeaves, popMin, popSet, engine, spawned, active, initialMisses>>
      BY <2>8, <3>1 DEF ChurnJoin
    <3> QED  BY <2>0, <3>1, <3>2 DEF Ahead
  <2>9. CASE Quiet \/ Return
    <3>1. UNCHANGED <<spawned, active, refill, initialMisses, popVars>>
      BY <2>9 DEF Quiet, BringUp, OpenWindow, Expire, AbortSpawning, Panic,
           StopChurning, Return
    <3>2. /\ engine' \in {"churning", "waiting", "panicked", "returned"} <=> popSet
          /\ engine' \in {"rooms", "spawning"} => engine \in {"rooms", "spawning"}
      BY <2>9 DEF Quiet, BringUp, OpenWindow, Expire, AbortSpawning, Panic,
           StopChurning, Return, ChurnTick
    <3> QED  BY <3>1, <3>2 DEF popVars, Ahead
  <2>10. CASE \E id \in Ids : Join(id) \/ EndsByItself(id) \/ Close(id)
    <3>1. UNCHANGED <<engineVars, popVars>>
      BY <2>10 DEF Join, EndsByItself, Close
    <3> QED  BY <3>1 DEF engineVars, popVars, Ahead
  <2>11. CASE UNCHANGED vars
    BY <2>11 DEF vars, engineVars, popVars, Ahead
  <2> QED  BY <2>2, <2>3, <2>4, <2>5, <2>6, <2>7, <2>8, <2>9, <2>10, <2>11
           DEF Next, Run, Quiet
<1>3. GaugeInv => PopulationAccounts
  <2> SUFFICES ASSUME GaugeInv, popSet PROVE /\ popMin <= churnPop /\ churnPop <= popMax
               /\ churnPop = Total - churnLeaves + churnJoins
               /\ refill.step = "idle" => churnPop = Cardinality(active) + initialMisses
    BY DEF PopulationAccounts
  <2>1. Cardinality(active) \in Nat
    BY FS_CardinalityType
  <2>2. refill.step = "idle" => Ahead = 0
    BY DEF Ahead
  <2> QED  BY <2>1, <2>2
<1> QED  BY <1>1, <1>2, <1>3, TypesHold, SlotsHold, PTL DEF Spec

-------------------------------------------------------------------------------
(***************************************************************************)
(* The live gauge against the runners, at every step of a churn tick.  Out *)
(* are the runners ChurnLeave has counted out: the cancelled ones, without *)
(* the victim of a tick that has not come to that yet.  The two bounds of  *)
(* GaugeDrift are stated for Out, where each step moves the gauge and one  *)
(* of the sets together; the floor only helps the lower bound, and at the  *)
(* floor the upper one is trivial.                                         *)
(***************************************************************************)
Out == IF refill.step = "cancelled" THEN cancelled \ {refill.victim} ELSE cancelled

Roles ==
  /\ IsFiniteSet(entered) /\ IsFiniteSet(cancelled)
  /\ entered \subseteq DOMAIN runner /\ late \subseteq entered
  /\ \A id \in DOMAIN runner : /\ runner[id] = "joining" => id \notin entered
                               /\ runner[id] = "joined" => id \in entered
  /\ \A id \in active : id \notin cancelled
  /\ refill.step = "picked" => refill.victim \notin cancelled

Count(ids, room) == Cardinality(InRoom(ids, room))

Drift(live, in, out, tardy, room) ==
  /\ live + Count(out \ in, room) >= Count(in \ out, room)
  /\ live <= Count(in \ out, room) + Count(tardy, room)

Drifts == \A room \in 0..(Rooms - 1) : Drift(roomLive[room], entered, Out, late, room)

DriftInv == Roles /\ Drifts

\* One more, or one less, among those of a room.
LEMMA RoomGains ==
  ASSUME NEW S, IsFiniteSet(S), NEW x, x \notin S, NEW room
  PROVE  Count(S \cup {x}, room)
           = Count(S, room) + (IF RoomOf(x[1]) = room THEN 1 ELSE 0)
<1>1. IsFiniteSet(InRoom(S, room)) /\ x \notin InRoom(S, room)
  <2>1. InRoom(S, room) \in SUBSET S
    BY DEF InRoom
  <2> QED  BY <2>1, FS_Subset
<1>2. Count(S, room) \in Nat
  BY <1>1, FS_CardinalityType DEF Count
<1>3. CASE RoomOf(x[1]) = room
  <2>1. InRoom(S \cup {x}, room) = InRoom(S, room) \cup {x}
    BY <1>3 DEF InRoom
  <2> QED  BY <1>1, <1>3, <2>1, FS_AddElement DEF Count
<1>4. CASE RoomOf(x[1]) # room
  <2>1. InRoom(S \cup {x}, room) = InRoom(S, room)
    BY <1>4 DEF InRoom
  <2> QED  BY <1>2, <1>4, <2>1 DEF Count
<1> QED  BY <1>3, <1>4

LEMMA RoomLoses ==
  ASSUME NEW S, IsFiniteSet(S), NEW x \in S, NEW room
  PROVE  Count(S, room)
           = Count(S \ {x}, room) + (IF RoomOf(x[1]) = room THEN 1 ELSE 0)
<1>1. IsFiniteSet(S \ {x}) /\ x \notin S \ {x}
  BY FS_RemoveElement
<1>2. (S \ {x}) \cup {x} = S
  OBVIOUS
<1> QED  BY <1>1, <1>2, RoomGains

LEMMA RoomCounts ==
  ASSUME NEW S, IsFiniteSet(S), NEW room
  PROVE  Count(S, room) \in Nat
<1>1. InRoom(S, room) \in SUBSET S
  BY DEF InRoom
<1>2. IsFiniteSet(InRoom(S, room))
  BY <1>1, FS_Subset
<1> QED  BY <1>2, FS_CardinalityType DEF Count

(***************************************************************************)
(* The live gauge of a room is off by no more than its users' churn can    *)
(* account for.                                                            *)
(***************************************************************************)
THEOREM DriftHolds == Spec => []GaugeDrift
<1>1. Init => DriftInv
  <2> SUFFICES ASSUME Init PROVE DriftInv
    OBVIOUS
  <2>1. entered = {} /\ late = {} /\ cancelled = {} /\ Out = {}
        /\ \A room \in 0..(Rooms - 1) : roomLive[room] = 0
    BY DEF Init, Out
  <2>2. IsFiniteSet({}) /\ \A room : Count({}, room) = 0
    <3>1. \A room : InRoom({}, room) = {}
      BY DEF InRoom
    <3> QED  BY <3>1, FS_EmptySet DEF Count
  <2>3. Roles
    BY <2>1, <2>2 DEF Init, Roles, NoRefill
  <2>4. {} \ {} = {}
    OBVIOUS
  <2>5. \A room : Drift(0, {}, {}, {}, room)
    BY <2>2, <2>4 DEF Drift
  <2> QED  BY <2>1, <2>3, <2>5 DEF DriftInv, Drifts
<1>2. TypeInv /\ SlotInv /\ DriftInv /\ [Next]_vars => DriftInv'
  <2> SUFFICES ASSUME TypeInv, SlotInv, DriftInv, [Next]_vars
               PROVE  DriftInv'
    OBVIOUS
  <2>0. /\ refill = [step |-> refill.step, victim |-> refill.victim]
        /\ cancelled \subseteq DOMAIN runner /\ active \subseteq DOMAIN runner
        /\ DOMAIN runner \subseteq Ids /\ Roles
        /\ \A id \in DOMAIN runner : id[1] < spawned
    BY DEF TypeInv, TypeOK, TickInv, SlotInv, DriftInv
  <2>1. ASSUME UNCHANGED <<liveVars, Out>>, Roles'
        PROVE  DriftInv'
    BY <2>1 DEF DriftInv, Drifts, liveVars
  <2>2. ASSUME NEW id \in Ids, SpawnOk(id), id \notin DOMAIN runner,
               UNCHANGED <<liveVars, cancelled>>, refill.step \in {"idle", "left"},
               refill'.step \in {"idle", "refilled"}
        PROVE  DriftInv'
    <3>1. /\ DOMAIN runner' = DOMAIN runner \cup {id} /\ active' = active \cup {id}
          /\ \A i \in DOMAIN runner' : runner'[i] = IF i = id THEN "joining" ELSE runner[i]
      BY <2>2 DEF SpawnOk
    <3>2. Roles'
      BY <2>0, <2>2, <3>1 DEF Roles, liveVars
    <3>3. UNCHANGED Out
      BY <2>2 DEF Out
    <3> QED  BY <2>1, <2>2, <3>2, <3>3
  <2>3. CASE SpawnNext
    <3>1. /\ UNCHANGED <<refill, cancelled, liveVars>> /\ refill.step = "idle"
          /\ spawned < Total
      BY <2>3 DEF SpawnNext, TypeInv, TickInv
    <3>2. CASE SpawnOk(<<spawned, 1>>)
      <4>1. <<spawned, 1>> \in Ids /\ spawned \in Nat
        BY <3>1, FirstIsId, TotalIsNatural DEF TypeInv, TypeOK
      <4>2. <<spawned, 1>> \notin DOMAIN runner
        BY <2>0, <4>1
      <4> QED  BY <2>2, <3>1, <3>2, <4>1, <4>2
    <3>3. CASE SpawnFails
      <4>1. Roles' /\ UNCHANGED <<liveVars, Out>>
        BY <2>0, <3>1, <3>3 DEF SpawnFails, Roles, Out, liveVars
      <4> QED  BY <2>1, <4>1
    <3> QED  BY <2>3, <3>2, <3>3 DEF SpawnNext
  <2>4. CASE Refill
    <3>1. refill.step = "left" /\ UNCHANGED <<cancelled, liveVars>>
          /\ refill'.step \in {"idle", "refilled"}
      BY <2>0, <2>4 DEF Refill, NoRefill
    <3>2. CASE SpawnOk(Replacement(refill.victim))
      <4>1. Replacement(refill.victim) \in Ids /\ refill.victim \in Ids
        BY <2>0, <3>1, ReplacementIsId DEF TypeInv, TickInv
      <4>2. Replacement(refill.victim) \notin DOMAIN runner
        BY <2>0, <3>1, <4>1, IdIsPair DEF Replacement, SlotInv, Newest
      <4> QED  BY <2>2, <3>1, <3>2, <4>1, <4>2
    <3>3. CASE SpawnFails
      <4>1. Roles' /\ UNCHANGED <<liveVars, Out>>
        BY <2>0, <3>1, <3>3 DEF SpawnFails, Roles, Out, liveVars
      <4> QED  BY <2>1, <4>1
    <3> QED  BY <2>4, <3>2, <3>3 DEF Refill
  <2>5. CASE \E id \in active : Pick(id)
    <3>1. PICK id \in active : Pick(id)
      BY <2>5
    <3>2. /\ active' = active \ {id} /\ refill.step = "idle"
          /\ refill' = [step |-> "picked", victim |-> id]
          /\ UNCHANGED <<runnerVars, liveVars>>
      BY <3>1 DEF Pick, ChurnTick
    <3>3. Roles' /\ UNCHANGED Out
      BY <2>0, <3>2 DEF Roles, Out, runnerVars, liveVars
    <3> QED  BY <2>1, <3>2, <3>3
  <2>6. CASE CancelVictim
    <3>1. /\ refill.step = "picked" /\ refill'.step = "cancelled"
          /\ refill'.victim = refill.victim /\ refill.victim \in DOMAIN runner
          /\ cancelled' = cancelled \cup {refill.victim} /\ UNCHANGED <<runner, active, liveVars>>
      BY <2>0, <2>6 DEF CancelVictim, TypeInv, TickInv
    <3>2. UNCHANGED Out
      BY <2>0, <3>1 DEF Out, Roles
    <3>3. IsFiniteSet(cancelled')
      BY <2>0, <3>1, FS_AddElement DEF Roles
    <3>4. \A id \in active : id \notin cancelled'
      BY <2>0, <3>1 DEF Roles, SlotInv
    <3>5. Roles'
      BY <2>0, <3>1, <3>3, <3>4 DEF Roles, liveVars
    <3> QED  BY <2>1, <3>1, <3>2, <3>5
  <2>7. CASE ChurnLeave
    <3> DEFINE victim == refill.victim
               home == RoomOf(victim[1])
    <3>1. /\ refill.step = "cancelled" /\ refill'.step = "left" /\ refill'.victim = victim
          /\ roomLive' = [roomLive EXCEPT ![home] = CountedOut(@)]
          /\ UNCHANGED <<runnerVars, active, entered, late>>
      BY <2>0, <2>7 DEF ChurnLeave
    <3>2. victim \in cancelled /\ Out = cancelled \ {victim} /\ Out' = cancelled
      BY <2>0, <3>1 DEF Out, SlotInv, runnerVars
    <3>3. Roles'
      BY <2>0, <3>1 DEF Roles, runnerVars
    <3>4. ASSUME NEW room \in 0..(Rooms - 1)
          PROVE  Drift(roomLive'[room], entered', Out', late', room)
      <4>1. /\ IsFiniteSet(entered \ Out) /\ IsFiniteSet(Out \ entered)
            /\ IsFiniteSet(entered \ cancelled) /\ IsFiniteSet(cancelled \ entered)
            /\ IsFiniteSet(late)
        <5>1. IsFiniteSet(Out)
          BY <2>0, <3>2, FS_RemoveElement DEF Roles
        <5>2. late \in SUBSET entered
          BY <2>0 DEF Roles
        <5> QED  BY <2>0, <5>1, <5>2, FS_Difference, FS_Subset DEF Roles
      <4> DEFINE here == IF home = room THEN 1 ELSE 0
      <4>2. roomLive[room] \in Nat /\ roomLive'[room] = (IF home = room THEN CountedOut(roomLive[room]) ELSE roomLive[room])
        BY <3>1 DEF TypeInv, TypeOK
      <4>3. Drift(roomLive[room], entered, Out, late, room)
        BY DEF DriftInv, Drifts
      <4>4. /\ Count(entered \ cancelled, room) \in Nat
            /\ Count(cancelled \ entered, room) \in Nat
            /\ Count(late, room) \in Nat
        BY <4>1, RoomCounts
      <4>5. CASE victim \in entered
        <5>1. /\ victim \in entered \ Out /\ Out \ entered = cancelled \ entered
              /\ (entered \ Out) \ {victim} = entered \ cancelled
          BY <3>2, <4>5
        <5>2. Count(entered \ Out, room)
                = Count(entered \ cancelled, room) + here
          BY <4>1, <5>1, RoomLoses
        <5>3. Count(Out \ entered, room) = Count(cancelled \ entered, room)
          BY <5>1, Zenon
        <5>4. Drift(roomLive'[room], entered, cancelled, late, room)
          BY <4>2, <4>3, <4>4, <5>2, <5>3 DEF Drift, CountedOut
        <5> QED  BY <3>1, <3>2, <5>4 DEF runnerVars
      <4>6. CASE victim \notin entered
        <5>1. /\ victim \in cancelled \ entered /\ entered \ Out = entered \ cancelled
              /\ (cancelled \ entered) \ {victim} = Out \ entered
          BY <3>2, <4>6
        <5>2. Count(cancelled \ entered, room)
                = Count(Out \ entered, room) + here
          BY <4>1, <5>1, RoomLoses
        <5>3. Count(entered \ Out, room) = Count(entered \ cancelled, room)
          BY <5>1, Zenon
        <5>4. Drift(roomLive'[room], entered, cancelled, late, room)
          <6>1. Count(Out \ entered, room) \in Nat
            BY <4>1, RoomCounts
          <6> QED  BY <4>2, <4>3, <4>4, <5>2, <5>3, <6>1 DEF Drift, CountedOut
        <5> QED  BY <3>1, <3>2, <5>4 DEF runnerVars
      <4> QED  BY <4>5, <4>6
    <3> QED  BY <3>3, <3>4 DEF DriftInv, Drifts
  <2>8. CASE \E id \in Ids : Join(id)
    <3>1. PICK id \in Ids : Join(id)
      BY <2>8
    <3> DEFINE home == RoomOf(id[1])
    <3>2. /\ id \in DOMAIN runner /\ runner[id] = "joining"
          /\ runner' = [runner EXCEPT ![id] = "joined"]
          /\ roomLive' = [roomLive EXCEPT ![home] = @ + 1]
          /\ entered' = entered \cup {id}
          /\ late' = IF id \in cancelled THEN late \cup {id} ELSE late
          /\ UNCHANGED <<engineVars, cancelled>>
      BY <3>1 DEF Join, Alive
    <3>3. id \notin entered /\ id \notin late /\ UNCHANGED Out
      BY <2>0, <3>2 DEF Roles, Out, engineVars
    <3>4. Roles'
      <4>1. IsFiniteSet(entered')
        BY <2>0, <3>2, FS_AddElement DEF Roles
      <4> QED  BY <2>0, <3>2, <4>1 DEF Roles, engineVars
    <3>5. ASSUME NEW room \in 0..(Rooms - 1)
          PROVE  Drift(roomLive'[room], entered', Out', late', room)
      <4>1. IsFiniteSet(Out) /\ IsFiniteSet(late)
        <5>1. late \in SUBSET entered
          BY <2>0 DEF Roles
        <5> QED  BY <2>0, <5>1, FS_Subset, FS_RemoveElement DEF Roles, Out
      <4>2. /\ IsFiniteSet(entered \ Out) /\ IsFiniteSet(Out \ entered)
            /\ IsFiniteSet(Out \ entered')
        BY <2>0, <4>1, FS_Difference DEF Roles
      <4> DEFINE here == IF home = room THEN 1 ELSE 0
      <4>3. roomLive[room] \in Nat /\ roomLive'[room] = roomLive[room] + here
        BY <3>2 DEF TypeInv, TypeOK
      <4>4. Drift(roomLive[room], entered, Out, late, room)
        BY DEF DriftInv, Drifts
      <4>5. /\ Count(late, room) \in Nat
            /\ Count(late', room) \in Nat
            /\ id \in cancelled => Count(late', room)
                                    = Count(late, room) + here
            /\ Count(late', room) >= Count(late, room)
        <5>1. Count(late, room) \in Nat
          BY <4>1, RoomCounts
        <5>2. Count(late \cup {id}, room) = Count(late, room) + here
          BY <3>3, <4>1, RoomGains
        <5> QED  BY <3>2, <5>1, <5>2
      <4>6. /\ Count(entered \ Out, room) \in Nat
            /\ Count(Out \ entered, room) \in Nat
            /\ Count(Out \ entered', room) \in Nat
        BY <4>2, RoomCounts
      <4>7. CASE id \in Out
        <5>1. /\ entered' \ Out = entered \ Out /\ id \in Out \ entered /\ id \in cancelled
              /\ (Out \ entered) \ {id} = Out \ entered'
          BY <3>2, <3>3, <4>7 DEF Out
        <5>2. Count(Out \ entered, room)
                = Count(Out \ entered', room) + here
          BY <4>2, <5>1, RoomLoses
        <5>3. /\ Count(entered' \ Out', room) = Count(entered \ Out, room)
              /\ Count(Out' \ entered', room) = Count(Out \ entered', room)
          BY <3>3, <5>1, Zenon
        <5> QED  BY <4>3, <4>4, <4>5, <4>6, <5>1, <5>2, <5>3 DEF Drift
      <4>8. CASE id \notin Out
        <5>1. /\ entered' \ Out = (entered \ Out) \cup {id} /\ id \notin entered \ Out
              /\ Out \ entered' = Out \ entered
          BY <3>2, <3>3, <4>8
        <5>2. Count(entered' \ Out, room)
                = Count(entered \ Out, room) + here
          BY <4>2, <5>1, RoomGains
        <5>3. /\ Count(entered' \ Out', room) = Count(entered \ Out, room) + here
              /\ Count(Out' \ entered', room) = Count(Out \ entered, room)
          <6>1. entered' \ Out' = entered' \ Out /\ Out' \ entered' = Out \ entered
            BY <3>3, <5>1
          <6> QED  BY <5>2, <6>1, Zenon
        <5> QED  BY <4>3, <4>4, <4>5, <4>6, <5>3 DEF Drift
      <4> QED  BY <4>7, <4>8
    <3> QED  BY <3>4, <3>5 DEF DriftInv, Drifts
  <2>9. CASE \/ Quiet \/ SpawningDone \/ Return \/ ChurnJoin
             \/ UNCHANGED vars
    <3>1. /\ UNCHANGED <<runnerVars, liveVars, active>>
          /\ \/ UNCHANGED refill
             \/ refill.step = "refilled" /\ refill'.step = "idle"
      BY <2>9 DEF Quiet, BringUp, OpenWindow, Expire, AbortSpawning, Panic, StopChurning,
         SpawningDone, Return, ChurnJoin, NoRefill, vars, engineVars
    <3>2. Roles' /\ UNCHANGED Out
      BY <2>0, <3>1 DEF Roles, Out, runnerVars, liveVars
    <3> QED  BY <2>1, <3>1, <3>2
  <2>10. CASE \E id \in Ids : EndsByItself(id) \/ Close(id)
    <3>1. PICK id \in Ids : EndsByItself(id) \/ Close(id)
      BY <2>10
    <3>2. /\ runner' = [runner EXCEPT ![id] = "ended"] /\ id \in DOMAIN runner
          /\ UNCHANGED <<engineVars, cancelled, liveVars>>
      BY <3>1 DEF EndsByItself, Close, Alive
    <3>3. Roles' /\ UNCHANGED Out
      BY <2>0, <3>2 DEF Roles, Out, engineVars, liveVars
    <3> QED  BY <2>1, <3>2, <3>3
  <2> QED  BY <2>3, <2>4, <2>5, <2>6, <2>7, <2>8, <2>9, <2>10 DEF Next, Run, Quiet
<1>3. TypeInv /\ DriftInv => GaugeDrift
  <2> SUFFICES ASSUME TypeInv, DriftInv, refill.step = "idle", NEW room \in 0..(Rooms - 1)
               PROVE  /\ roomLive[room] >= Cardinality(LiveIn(room) \cup UncountedIn(room))
                                            - Cardinality(NeverIn(room))
                      /\ roomLive[room] <= Cardinality(LiveIn(room) \cup UncountedIn(room))
                                            + Cardinality(LateIn(room))
    BY DEF GaugeDrift
  <2>1. LiveIn(room) \cup UncountedIn(room) = InRoom(entered \ Out, room)
    BY DEF LiveIn, UncountedIn, InRoom, Out, Roles, DriftInv, TypeInv, TypeOK
  <2>2. NeverIn(room) = InRoom(Out \ entered, room) /\ LateIn(room) = InRoom(late, room)
    BY DEF NeverIn, LateIn, Out
  <2>3. IsFiniteSet(entered \ Out) /\ IsFiniteSet(Out \ entered) /\ IsFiniteSet(late)
    <3>1. late \in SUBSET entered /\ Out = cancelled
      BY DEF DriftInv, Roles, Out
    <3> QED  BY <3>1, FS_Difference, FS_Subset DEF DriftInv, Roles
  <2>4. /\ Count(entered \ Out, room) \in Nat /\ Count(Out \ entered, room) \in Nat
        /\ Count(late, room) \in Nat /\ roomLive[room] \in Nat
    BY <2>3, RoomCounts DEF TypeInv, TypeOK
  <2>5. Drift(roomLive[room], entered, Out, late, room)
    BY DEF DriftInv, Drifts
  <2>6. /\ roomLive[room] >= Count(entered \ Out, room) - Count(Out \ entered, room)
        /\ roomLive[room] <= Count(entered \ Out, room) + Count(late, room)
    BY <2>4, <2>5 DEF Drift
  <2> QED  BY <2>1, <2>2, <2>6 DEF Count
<1> QED  BY <1>1, <1>2, <1>3, TypesHold, SlotsHold, PTL DEF Spec
===============================================================================
