-------------------------------- MODULE Engine --------------------------------
(***************************************************************************)
(* engine.Run: bring the rooms up, spawn one runner per slot inside the    *)
(* run window, replace runners while the window lasts (churn), wait for    *)
(* every runner.  With it the population gauges of report.Collector and,   *)
(* reduced to what the engine can tell, the runners themselves: a runner   *)
(* joins or fails, may end by itself, and closes once its context ends.    *)
(***************************************************************************)
EXTENDS Integers, FiniteSets, Functions

CONSTANTS Rooms,      \* number of rooms (--rooms)
          RoomUsers,  \* users per room (--users)
          Churning,   \* --churn-rate > 0
          MaxChurns,  \* bound: churn ticks
          MaxFailed,  \* bound: GetJoinToken calls that fail
          MaxEnded    \* bound: runners that fail to join or end by themselves

ASSUME EngineAssumption ==
  /\ {Rooms, RoomUsers, MaxChurns, MaxFailed, MaxEnded} \subseteq Nat
  /\ Churning \in BOOLEAN

Total == Rooms * RoomUsers
Slots == 0..(Total - 1)                \* (rIdx, uIdx), in spawning order
RoomOf(slot) == slot \div RoomUsers
Ids == Slots \X (1..(MaxChurns + 1))   \* lt-<run>-<rIdx>-<uIdx>[-g<gen>]

VARIABLES
  engine,       \* where Run is
  roomsUp,      \* rooms known to be active
  spawned,      \* slots the spawn loop has been through
  windowOpen,   \* runCtx has not ended
  active,       \* the engine's list of churnable runners
  refill,       \* the churn tick in progress: its step and its victim
  runner,       \* every runner ever started, and how far it is
  cancelled,    \* runners whose own context was cancelled
  joinedN, roomLive,                              \* Collector
  churnLeaves, churnJoins, churnPop, popMin, popMax, popSet,
  failed, ended,        \* used up of the bounds
  initialMisses,        \* history: slots whose first spawn failed
  entered, late         \* history: runners AddJoined was called for, and those
                        \* of them that were cancelled before

engineVars == <<engine, roomsUp, spawned, windowOpen, active, refill, failed,
                initialMisses>>
runnerVars == <<runner, cancelled, ended>>
liveVars == <<joinedN, roomLive, entered, late>>
popVars == <<churnLeaves, churnJoins, churnPop, popMin, popMax, popSet>>
vars == <<engineVars, runnerVars, liveVars, popVars>>

NoRefill == [step |-> "idle", victim |-> <<0, 0>>]

Init ==
  /\ engine = "rooms" /\ roomsUp = 0 /\ spawned = 0 /\ windowOpen = TRUE
  /\ active = {} /\ refill = NoRefill
  /\ runner = <<>> /\ cancelled = {}
  /\ joinedN = 0 /\ roomLive = [room \in 0..(Rooms - 1) |-> 0]
  /\ entered = {} /\ late = {}
  /\ churnLeaves = 0 /\ churnJoins = 0
  /\ churnPop = 0 /\ popMin = 0 /\ popMax = 0 /\ popSet = FALSE
  /\ failed = 0 /\ ended = 0 /\ initialMisses = 0

(***************************************************************************)
(* Rooms up, one after the other; the first error ends the run.            *)
(***************************************************************************)
BringUp ==
  /\ engine = "rooms" /\ roomsUp < Rooms
  /\ \/ roomsUp' = roomsUp + 1 /\ UNCHANGED engine
     \/ engine' = "roomFailed" /\ UNCHANGED roomsUp
  /\ UNCHANGED <<spawned, windowOpen, active, refill, failed, initialMisses,
                 runnerVars, liveVars, popVars>>

OpenWindow ==
  /\ engine = "rooms" /\ roomsUp = Rooms
  /\ engine' = "spawning"
  /\ UNCHANGED <<roomsUp, spawned, windowOpen, active, refill, failed,
                 initialMisses, runnerVars, liveVars, popVars>>

\* cfg.Duration is over, or the caller's context ended.
Expire ==
  /\ engine \in {"spawning", "churning", "waiting"}
  /\ windowOpen
  /\ windowOpen' = FALSE
  /\ UNCHANGED <<engine, roomsUp, spawned, active, refill, failed,
                 initialMisses, runnerVars, liveVars, popVars>>

(***************************************************************************)
(* spawn: fetch a token, then start the runner and list it as active; a    *)
(* failed fetch is printed and forgotten.                                  *)
(***************************************************************************)
SpawnOk(id) ==
  /\ runner' = [i \in DOMAIN runner \cup {id} |->
                  IF i = id THEN "joining" ELSE runner[i]]
  /\ active' = active \cup {id}
  /\ UNCHANGED failed

SpawnFails ==
  /\ failed < MaxFailed
  /\ failed' = failed + 1
  /\ UNCHANGED <<runner, active>>

\* One turn of the spawn loop.  With the window over and the ticker due, the
\* select takes either.
SpawnNext ==
  /\ engine = "spawning" /\ spawned < Total
  /\ spawned' = spawned + 1
  /\ \/ SpawnOk(<<spawned, 1>>) /\ UNCHANGED initialMisses
     \/ SpawnFails /\ initialMisses' = initialMisses + 1
  /\ UNCHANGED <<engine, roomsUp, windowOpen, refill, cancelled, ended,
                 liveVars, popVars>>

AbortSpawning ==
  /\ engine = "spawning" /\ spawned < Total
  /\ ~windowOpen
  /\ engine' = "aborting"
  /\ UNCHANGED <<roomsUp, spawned, windowOpen, active, refill, failed,
                 initialMisses, runnerVars, liveVars, popVars>>

\* SetChurnPop, and the decision to churn.
SpawningDone ==
  /\ engine = "spawning" /\ spawned = Total
  /\ engine' = IF Churning /\ active # {} THEN "churning" ELSE "waiting"
  /\ churnPop' = Total /\ popMin' = Total /\ popMax' = Total /\ popSet' = TRUE
  /\ UNCHANGED <<churnLeaves, churnJoins, roomsUp, spawned, windowOpen, active,
                 refill, failed, initialMisses, runnerVars, liveVars>>

(***************************************************************************)
(* One churn tick: pick and unlist a random active runner (Intn of an      *)
(* empty list panics), cancel it, count it out, spawn its replacement, and *)
(* count that in if it was started.  Registering the leave signals before  *)
(* the cancel is module Delivery's.                                        *)
(***************************************************************************)
ChurnTick == engine = "churning" /\ refill.step = "idle" /\ windowOpen
             /\ churnLeaves < MaxChurns

Pick(id) ==
  /\ ChurnTick
  /\ id \in active
  /\ active' = active \ {id}
  /\ refill' = [step |-> "picked", victim |-> id]
  /\ UNCHANGED <<engine, roomsUp, spawned, windowOpen, failed, initialMisses,
                 runnerVars, liveVars, popVars>>

Panic ==
  /\ ChurnTick
  /\ active = {}
  /\ engine' = "panicked"
  /\ UNCHANGED <<roomsUp, spawned, windowOpen, active, refill, failed,
                 initialMisses, runnerVars, liveVars, popVars>>

CancelVictimMutant ==
  /\ refill.step = "picked"
  /\ refill' = [refill EXCEPT !.step = "cancelled"]
  /\ UNCHANGED <<cancelled, engine, roomsUp, spawned, windowOpen, active, failed,
                 initialMisses, runner, ended, liveVars, popVars>>
CancelVictim ==
  /\ refill.step = "picked"
  /\ refill' = [refill EXCEPT !.step = "cancelled"]
  /\ cancelled' = cancelled \cup {refill.victim}
  /\ UNCHANGED <<engine, roomsUp, spawned, windowOpen, active, failed,
                 initialMisses, runner, ended, liveVars, popVars>>

LowestMutant == popMin
Lowest == IF ~popSet \/ churnPop' < popMin THEN churnPop' ELSE popMin

CountedOutMutant(live) == IF live > 1 THEN live - 1 ELSE live
CountedOut(live) == IF live > 0 THEN live - 1 ELSE live

ChurnLeave ==
  LET room == RoomOf(refill.victim[1]) IN
  /\ refill.step = "cancelled"
  /\ refill' = [refill EXCEPT !.step = "left"]
  /\ churnLeaves' = churnLeaves + 1
  /\ churnPop' = churnPop - 1
  /\ roomLive' = [roomLive EXCEPT ![room] = CountedOut(@)]
  /\ popMin' = Lowest
  /\ UNCHANGED <<churnJoins, popMax, popSet, joinedN, entered, late, engine, roomsUp, spawned,
                 windowOpen, active, failed, initialMisses, runnerVars>>

\* The replacement has the victim's slot and the next generation's id.
Replacement(id) == <<id[1], id[2] + 1>>

Refill ==
  /\ refill.step = "left"
  /\ \/ /\ SpawnOk(Replacement(refill.victim))
        /\ refill' = [refill EXCEPT !.step = "refilled"]
     \/ /\ SpawnFails
        /\ refill' = NoRefill
  /\ UNCHANGED <<engine, roomsUp, spawned, windowOpen, initialMisses, cancelled,
                 ended, liveVars, popVars>>

ChurnJoin ==
  /\ refill.step = "refilled"
  /\ refill' = NoRefill
  /\ churnJoins' = churnJoins + 1
  /\ churnPop' = churnPop + 1
  /\ popMax' = IF ~popSet \/ churnPop' > popMax THEN churnPop' ELSE popMax
  /\ UNCHANGED <<churnLeaves, popMin, popSet, engine, roomsUp, spawned,
                 windowOpen, active, failed, initialMisses, runnerVars, liveVars>>

StopChurning ==
  /\ engine = "churning" /\ refill.step = "idle" /\ ~windowOpen
  /\ engine' = "waiting"
  /\ UNCHANGED <<roomsUp, spawned, windowOpen, active, refill, failed,
                 initialMisses, runnerVars, liveVars, popVars>>

\* wg.Wait() returns once every runner has.
Return ==
  /\ engine \in {"aborting", "waiting"}
  /\ \A id \in DOMAIN runner : runner[id] = "ended"
  /\ engine' = IF engine = "aborting" THEN "aborted" ELSE "returned"
  /\ UNCHANGED <<roomsUp, spawned, windowOpen, active, refill, failed,
                 initialMisses, runnerVars, liveVars, popVars>>

(***************************************************************************)
(* The runners.  A context ends when the engine cancels it or the window   *)
(* is over; a panic of the engine takes the whole process with it.         *)
(***************************************************************************)
Over(id) == id \in cancelled \/ ~windowOpen
Alive(id) == id \in DOMAIN runner /\ engine # "panicked"

\* joinSequence succeeded: AddJoined (even if the context ended meanwhile).
Join(id) ==
  /\ Alive(id) /\ runner[id] = "joining"
  /\ runner' = [runner EXCEPT ![id] = "joined"]
  /\ joinedN' = joinedN + 1
  /\ roomLive' = [roomLive EXCEPT ![RoomOf(id[1])] = @ + 1]
  /\ entered' = entered \cup {id}
  /\ late' = IF id \in cancelled THEN late \cup {id} ELSE late
  /\ UNCHANGED <<engineVars, cancelled, ended, popVars>>

\* run() returns an error, or the ping loop cancels its own context.
EndsByItself(id) ==
  /\ Alive(id) /\ runner[id] \in {"joining", "joined"} /\ ~Over(id)
  /\ ended < MaxEnded
  /\ ended' = ended + 1
  /\ runner' = [runner EXCEPT ![id] = "ended"]
  /\ UNCHANGED <<engineVars, cancelled, liveVars, popVars>>

CloseMutant(id) ==
  /\ Alive(id) /\ runner[id] \in {"joining", "joined"} /\ id \in cancelled
  /\ runner' = [runner EXCEPT ![id] = "ended"]
  /\ UNCHANGED <<engineVars, cancelled, ended, liveVars, popVars>>
Close(id) ==
  /\ Alive(id) /\ runner[id] \in {"joining", "joined"} /\ Over(id)
  /\ runner' = [runner EXCEPT ![id] = "ended"]
  /\ UNCHANGED <<engineVars, cancelled, ended, liveVars, popVars>>

Run == \/ BringUp \/ OpenWindow \/ SpawnNext \/ AbortSpawning \/ SpawningDone
       \/ Panic \/ CancelVictim \/ ChurnLeave \/ Refill \/ ChurnJoin
       \/ StopChurning \/ Return \/ \E id \in active : Pick(id)

Next == \/ Run
        \/ Expire
        \/ \E id \in Ids : Join(id) \/ EndsByItself(id) \/ Close(id)

Spec == Init /\ [][Next]_vars

(***************************************************************************)
(* The engine's goroutine runs, its tickers tick and its HTTP calls return *)
(* (the client has no timeout: this is an assumption on the server); the   *)
(* window's timer fires; every runner notices the end of its context.      *)
(***************************************************************************)
Fairness == /\ WF_vars(Run)
            /\ WF_vars(Expire)
            /\ \A id \in Ids : WF_vars(Close(id))

FairSpec == Spec /\ Fairness

-------------------------------------------------------------------------------
TypeOK ==
  /\ engine \in {"rooms", "roomFailed", "spawning", "aborting", "churning",
                 "waiting", "panicked", "aborted", "returned"}
  /\ roomsUp \in 0..Rooms /\ spawned \in 0..Total
  /\ DOMAIN runner \subseteq Ids
  /\ runner \in [DOMAIN runner -> {"joining", "joined", "ended"}]
  /\ active \subseteq DOMAIN runner
  /\ cancelled \subseteq DOMAIN runner
  /\ refill.step \in {"idle", "picked", "cancelled", "left", "refilled"}
  /\ roomLive \in [0..(Rooms - 1) -> 0..joinedN]

(***************************************************************************)
(* A slot never has two runners that were not told to stop: the victim is  *)
(* cancelled before its replacement starts, so load per role stays what    *)
(* was asked for (engine.go:194-199).                                      *)
(***************************************************************************)
OneRunnerPerSlot ==
  \A older, newer \in DOMAIN runner :
    older[1] = newer[1] /\ older[2] < newer[2] => older \in cancelled

(***************************************************************************)
(* Between churn ticks the population gauge is the number of listed        *)
(* runners plus the slots whose first spawn failed (SetChurnPop takes the  *)
(* requested number), leaves and joins account for all of its change, and  *)
(* it lies between its recorded extremes (report.go:239-271).              *)
(***************************************************************************)
PopulationAccounts ==
  popSet =>
    /\ popMin <= churnPop /\ churnPop <= popMax
    /\ churnPop = Total - churnLeaves + churnJoins
    /\ refill.step = "idle" =>
         churnPop = Cardinality(active) + initialMisses

(***************************************************************************)
(* Every run comes to its end once its window is over: it returns, or it   *)
(* fails visibly.                                                          *)
(***************************************************************************)
RunEnds == <>(engine \in {"roomFailed", "aborted", "returned", "panicked"})

\* The churn loop always finds a runner to replace: the test before the loop,
\* `cfg.ChurnRate > 0 && len(active) > 0` (engine.go:171), is meant to see to it.
ChurnFindsRunner == engine # "panicked"

(***************************************************************************)
(* The users of a room: those that are connected; those that ended without *)
(* being churned, which nobody counts out; those churned while they were   *)
(* still joining, which ChurnLeave counted out although they were not in,  *)
(* and of them those that came in all the same.                            *)
(***************************************************************************)
InRoom(ids, room) == {id \in ids : RoomOf(id[1]) = room}
LiveIn(room) ==
  {id \in InRoom(DOMAIN runner, room) : runner[id] = "joined" /\ id \notin cancelled}
UncountedIn(room) ==
  {id \in InRoom(entered \ cancelled, room) : runner[id] = "ended"}
NeverIn(room) == InRoom(cancelled \ entered, room)
LateIn(room) == InRoom(late, room)

(***************************************************************************)
(* How wrong the live gauge of a room can get between churn ticks, however *)
(* joins, endings and churn interleave (report.go:171-177, 239-246): it    *)
(* counts the connected users and those that ended by themselves, less at  *)
(* most one for every user churned before it joined, plus at most one for  *)
(* every user that joined after it was churned.  The floor at zero in      *)
(* ChurnLeave is what makes it a range: a decrement it swallows is never   *)
(* made up for.  The expected fan of a leave signal and the users the      *)
(* memory sampler divides by are this gauge.                               *)
(***************************************************************************)
GaugeDrift ==
  refill.step = "idle" =>
    \A room \in 0..(Rooms - 1) :
      LET listed == Cardinality(LiveIn(room) \cup UncountedIn(room)) IN
      /\ roomLive[room] >= listed - Cardinality(NeverIn(room))
      /\ roomLive[room] <= listed + Cardinality(LateIn(room))

(***************************************************************************)
(* RoomLive "returns the live (currently connected) joined count per room" *)
(* (report.go:180), read between churn ticks: every connected user counts. *)
(***************************************************************************)
RoomLiveCountsAll ==
  refill.step = "idle" =>
    \A room \in 0..(Rooms - 1) : roomLive[room] >= Cardinality(LiveIn(room))

(***************************************************************************)
(* The same line read the other way: nobody else counts.                   *)
(***************************************************************************)
RoomLiveOnlyLive ==
  refill.step = "idle" =>
    \A room \in 0..(Rooms - 1) : roomLive[room] <= Cardinality(LiveIn(room))

(***************************************************************************)
(* README.md:82 calls a run clean only if "joined == requested (X/Y with   *)
(* X == Y)": no run in which every user joins and nothing fails reports    *)
(* anything else.                                                          *)
(***************************************************************************)
CleanRunsJoinWhatWasRequested ==
  engine = "returned" /\ failed = 0 /\ ended = 0 => joinedN <= Total
===============================================================================
