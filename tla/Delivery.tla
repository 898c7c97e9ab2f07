------------------------------- MODULE Delivery -------------------------------
(***************************************************************************)
(* One room of virtual users around the delivery registry.  A chat is      *)
(* published first and registered afterwards, by a goroutine of its        *)
(* sender; the receivers' dispatcher goroutines tally their receipts; the  *)
(* engine's churn loop registers a user's leave signals first and cancels  *)
(* the user afterwards.  Publishing goes through the NATS server: chat is  *)
(* core NATS (at most once, no echo), the server's USER_DISCONNECTED event *)
(* is JetStream (at least once).                                           *)
(*                                                                         *)
(* "chat" stands for every kind that is published and then registered      *)
(* with fanExpected() (scene, fullstate, pageChange, fileChange, pointer,  *)
(* reaction, notepadUpdate); "leave" for leaveDetect and leaveOffline.     *)
(*                                                                         *)
(* An operator named ...Mutant is the operator after it as a plausible bug *)
(* would have it; the specification does not use it.                       *)
(***************************************************************************)
EXTENDS Integers, FiniteSets

CONSTANTS Users,         \* virtual users of the room
          Chatters,      \* users that send one chat each
          Churned,       \* users the churn loop may replace
          AtStart,       \* users that have joined before the run begins
          Cap, SweepEvery, TTL,
          MaxTime,       \* bound: last clock tick
          MaxFaults      \* bound: chat copies lost, leave events delivered again
                         \* (ack lost), users ending by themselves (pings missed,
                         \* join failed) and the end of the window, together

ASSUME DeliveryAssumption ==
  /\ IsFiniteSet(Users)
  /\ Chatters \cup Churned \cup AtStart \subseteq Users
  /\ {Cap, SweepEvery, TTL, MaxTime, MaxFaults} \subseteq Nat

Kinds == {"chat", "leave", "pubTrack"}
Key == Kinds \X Users       \* a chat and a leave signal are known by their user

VARIABLES now, lastSweep, rtt, fanExpected, fanArrived, lat,
          roomLive,    \* Collector.roomLive of the room
          phase,       \* where each user's run() is
          cancelled,   \* users the churn loop has cancelled
          chat,        \* each sender's progress through publicChat
          churn,       \* the churn loop's progress through one replacement
          inbox,       \* copies delivered to a user, not yet dispatched
          handling,    \* receipts stamped with time.Now(), not yet tallied
          lost, redelivered,   \* how often that happened
          over,        \* the run window has ended
          died,        \* users that ended before the churn loop cancelled them
          audience,    \* history: the live others when a chat was published
          got,         \* history: users that tallied a receipt of a message
          early,       \* history: messages tallied before their registration
          promised,    \* history: what each registered message was to be received by
          heard        \* history: receipts tallied since the registration

registry == <<lastSweep, rtt, fanExpected, fanArrived, lat>>
room == <<roomLive, phase, cancelled>>
faults == <<lost, redelivered, over, died>>
history == <<audience, got, early, promised, heard>>
vars == <<now, registry, room, chat, churn, inbox, handling, faults, history>>

Reg == INSTANCE Registry WITH
         PubTrack <- "pubTrack", Ids <- Users, MaxExpected <- Cardinality(Users),
         MaxLag <- MaxTime, MaxFan <- Cardinality(Users) * Cardinality(Users),
         MaxTracks <- 0, pubTracks <- <<>>

Phases == {"joining", "attached", "subscribed", "joined", "gone"}
Attached == {u \in Users : phase[u] \in {"attached", "subscribed", "joined"}}
Subscribed == {u \in Users : phase[u] \in {"subscribed", "joined"}}
Joined == {u \in Users : phase[u] = "joined"}

Idle == [step |-> "idle", at |-> 0, expected |-> 0]
NoChurn == [step |-> "idle", victim |-> {}, expected |-> 0]

Init ==
  /\ Reg!Init
  /\ phase = [u \in Users |-> IF u \in AtStart THEN "joined" ELSE "joining"]
  /\ roomLive = Cardinality(AtStart)
  /\ cancelled = {}
  /\ chat = [u \in Chatters |-> Idle]
  /\ churn = NoChurn
  /\ inbox = {} /\ handling = {}
  /\ lost = 0 /\ redelivered = 0 /\ over = FALSE /\ died = {}
  /\ audience = [u \in Chatters |-> {}]
  /\ got \in [Key -> {{}}]
  /\ early = {}
  /\ promised = <<>>
  /\ heard = [key \in Key |-> 0]

Faults == lost + redelivered + Cardinality(died) + (IF over THEN 1 ELSE 0)

\* fanExpected() of a sender, exp of the churn loop: the others of the room.
Others == IF roomLive > 0 THEN roomLive - 1 ELSE 0

\* History: a message is registered (each once) with what it is to be received by.
Promise(key, expected) ==
  promised' = [k \in DOMAIN promised \cup {key} |->
                 IF k = key THEN expected ELSE promised[k]]

(***************************************************************************)
(* Joining: the JetStream consumer is attached first, the core             *)
(* subscriptions come at the end of joinSequence, and AddJoined counts the *)
(* user only after that.                                                   *)
(***************************************************************************)
Attach(u) ==
  /\ phase[u] = "joining"
  /\ phase' = [phase EXCEPT ![u] = "attached"]
  /\ UNCHANGED <<now, registry, roomLive, cancelled, chat, churn, inbox,
                 handling, faults, history>>

Subscribe(u) ==
  /\ phase[u] = "attached"
  /\ phase' = [phase EXCEPT ![u] = "subscribed"]
  /\ UNCHANGED <<now, registry, roomLive, cancelled, chat, churn, inbox,
                 handling, faults, history>>

AddJoined(u) ==
  /\ phase[u] = "subscribed"
  /\ phase' = [phase EXCEPT ![u] = "joined"]
  /\ roomLive' = roomLive + 1
  /\ UNCHANGED <<now, registry, cancelled, chat, churn, inbox, handling,
                 faults, history>>

(***************************************************************************)
(* publicChat: rawPublish, then RecordSend(.., time.Now(), fanExpected()): *)
(* the stamp, the room's live count and the registration are three steps.  *)
(***************************************************************************)
Publish(u) ==
  LET receivers == Subscribed \ {u} IN
  /\ phase[u] = "joined"
  /\ chat[u].step = "idle"
  /\ \E missed \in SUBSET receivers :
       /\ Faults + Cardinality(missed) <= MaxFaults
       /\ lost' = lost + Cardinality(missed)
       /\ inbox' = inbox \cup {[to |-> v, key |-> <<"chat", u>>] :
                                 v \in receivers \ missed}
  /\ chat' = [chat EXCEPT ![u].step = "published"]
  /\ audience' = [audience EXCEPT ![u] = Joined \ {u}]
  /\ UNCHANGED <<now, registry, room, churn, handling, redelivered, over, died,
                 got, early, promised, heard>>

Stamp(u) ==
  /\ chat[u].step = "published"
  /\ chat' = [chat EXCEPT ![u].step = "stamped", ![u].at = now]
  /\ UNCHANGED <<now, registry, room, churn, inbox, handling, faults, history>>

Size(u) ==
  /\ chat[u].step = "stamped"
  /\ chat' = [chat EXCEPT ![u].step = "sized", ![u].expected = Others]
  /\ UNCHANGED <<now, registry, room, churn, inbox, handling, faults, history>>

Register(u) ==
  /\ chat[u].step = "sized"
  /\ Reg!RecordSend("chat", u, chat[u].at, chat[u].expected)
  /\ Promise(<<"chat", u>>, chat[u].expected)
  /\ chat' = [chat EXCEPT ![u].step = "sent"]
  /\ UNCHANGED <<now, room, churn, inbox, handling, faults, audience, got,
                 early, heard>>

(***************************************************************************)
(* Receiving: a dispatcher takes one copy at a time off its subscription   *)
(* and stamps it (onChatSub, onMsg), then RecordRecv waits for the lock.   *)
(***************************************************************************)
Dispatch(copy) ==
  /\ ~\E h \in handling : h.by = copy.to /\ h.key[1] = copy.key[1]
  /\ inbox' = inbox \ {copy}
  /\ handling' = handling \cup {[by |-> copy.to, key |-> copy.key, at |-> now]}
  /\ UNCHANGED <<now, registry, room, chat, churn, faults, history>>

Tally(h) ==
  /\ Reg!RecordRecv(h.key[1], h.key[2], h.at)
  /\ handling' = handling \ {h}
  /\ got' = [got EXCEPT ![h.key] = @ \cup {h.by}]
  /\ IF h.key \in DOMAIN promised
       THEN heard' = [heard EXCEPT ![h.key] = @ + 1] /\ UNCHANGED early
       ELSE early' = early \cup {h.key} /\ UNCHANGED heard
  /\ UNCHANGED <<now, room, chat, churn, inbox, faults, audience, promised>>

(***************************************************************************)
(* The churn loop replaces one runner: it sizes and registers the leave    *)
(* signals, cancels the runner, and only then takes it out of the gauge.   *)
(* A runner that is still joining is picked like any other.                *)
(***************************************************************************)
PickMutant(v) ==
  /\ churn.step = "idle" /\ ~over
  /\ v \in Churned \ cancelled
  /\ churn' = [step |-> "sized", victim |-> {v}, expected |-> Others]
  /\ cancelled' = cancelled \cup {v}
  /\ UNCHANGED <<now, registry, roomLive, phase, chat, inbox, handling, faults,
                 history>>
Pick(v) ==
  /\ churn.step = "idle" /\ ~over
  /\ v \in Churned \ cancelled
  /\ churn' = [step |-> "sized", victim |-> {v}, expected |-> Others]
  /\ UNCHANGED <<now, registry, room, chat, inbox, handling, faults, history>>

RegisterLeave(v) ==
  /\ churn.step = "sized" /\ v \in churn.victim
  /\ Reg!RecordSend("leave", v, now, churn.expected)
  /\ Promise(<<"leave", v>>, churn.expected)
  /\ churn' = [churn EXCEPT !.step = "registered"]
  /\ UNCHANGED <<now, room, chat, inbox, handling, faults, audience, got,
                 early, heard>>

Cancel(v) ==
  /\ churn.step = "registered" /\ v \in churn.victim
  /\ cancelled' = cancelled \cup {v}
  /\ churn' = [churn EXCEPT !.step = "cancelled"]
  /\ UNCHANGED <<now, registry, roomLive, phase, chat, inbox, handling, faults,
                 history>>

\* A user that is replaced is forgotten with all it sent.
ChurnLeaveMutant ==
  /\ churn.step = "cancelled"
  /\ roomLive' = IF roomLive > 0 THEN roomLive - 1 ELSE 0
  /\ rtt' = [key \in {k \in DOMAIN rtt : k[2] \notin churn.victim} |-> rtt[key]]
  /\ churn' = NoChurn
  /\ UNCHANGED <<now, lastSweep, fanExpected, fanArrived, lat, phase, cancelled,
                 chat, inbox, handling, faults, history>>
ChurnLeave ==
  /\ churn.step = "cancelled"
  /\ roomLive' = IF roomLive > 0 THEN roomLive - 1 ELSE 0
  /\ churn' = NoChurn
  /\ UNCHANGED <<now, registry, phase, cancelled, chat, inbox, handling, faults,
                 history>>

(***************************************************************************)
(* run() returns.  The server tells the users it still serves, if the      *)
(* runner had got as far as its consumer.  What the runner's dispatchers   *)
(* had not yet taken they may still take, or never.                        *)
(***************************************************************************)
Return(u) ==
  LET told == IF phase[u] = "joining" THEN {} ELSE Attached \ {u} IN
  /\ phase' = [phase EXCEPT ![u] = "gone"]
  /\ inbox' = inbox \cup {[to |-> v, key |-> <<"leave", u>>] : v \in told}
  /\ died' = IF u \in cancelled THEN died ELSE died \cup {u}
  /\ UNCHANGED <<now, registry, roomLive, cancelled, chat, churn, handling,
                 lost, redelivered, over, history>>

\* A runner ends by itself: its ping loop cancels its own context, or its join
\* sequence fails.  The churn loop knows nothing of it.
Die(u) ==
  /\ Faults < MaxFaults
  /\ u \in Attached \ cancelled
  /\ Return(u)

\* A runner ends because its context has: the churn loop cancelled it, or the run
\* window is over.
Close(u) ==
  /\ u \in cancelled \/ over
  /\ phase[u] # "gone"
  /\ Return(u)

\* The run window expires, also in the middle of a replacement.
EndWindow ==
  /\ Faults < MaxFaults
  /\ ~over
  /\ over' = TRUE
  /\ UNCHANGED <<now, registry, room, chat, churn, inbox, handling, lost,
                 redelivered, died, history>>

\* The JetStream server delivers an event again when the Ack was lost.
Redeliver(u, v) ==
  /\ Faults < MaxFaults
  /\ u \in got[<<"leave", v>>] /\ u \in Attached
  /\ redelivered' = redelivered + 1
  /\ inbox' = inbox \cup {[to |-> u, key |-> <<"leave", v>>]}
  /\ UNCHANGED <<now, registry, room, chat, churn, handling, lost, over, died,
                 history>>

Tick ==
  /\ Reg!Tick
  /\ UNCHANGED <<registry, room, chat, churn, inbox, handling, faults, history>>

Next ==
  \/ \E u \in Users : Attach(u) \/ Subscribe(u) \/ AddJoined(u) \/ Die(u)
                      \/ Close(u) \/ Pick(u) \/ RegisterLeave(u) \/ Cancel(u)
  \/ \E u \in Chatters : Publish(u) \/ Stamp(u) \/ Size(u) \/ Register(u)
  \/ \E copy \in inbox : Dispatch(copy)
  \/ \E h \in handling : Tally(h)
  \/ \E u, v \in Users : Redeliver(u, v)
  \/ ChurnLeave
  \/ EndWindow
  \/ Tick

Spec == Init /\ [][Next]_vars

-------------------------------------------------------------------------------
TypeOK ==
  /\ roomLive \in Nat
  /\ phase \in [Users -> Phases]
  /\ cancelled \subseteq Churned /\ died \subseteq Users /\ over \in BOOLEAN
  /\ churn.expected \in 0..(Cardinality(Users) - 1)
  /\ churn.step \in {"idle", "sized", "registered", "cancelled"}
  /\ \A u \in Chatters :
       chat[u].step \in {"idle", "published", "stamped", "sized", "sent"}
  /\ \A copy \in inbox : copy.to \in Users /\ copy.key \in Key
  /\ \A h \in handling : h.by \in Users /\ h.key \in Key /\ h.at \in 0..now

\* Every call this room makes of the collector is one the registry allows, so
\* what is proved of Registry holds of it.
ImplementsRegistry == Reg!Spec

(***************************************************************************)
(* Registering before cancelling is what makes churn detection measurable: *)
(* no receipt of a leave signal is tallied before the signal is registered *)
(* unless the user had ended before its cancel: by itself, or with the run *)
(* window while the churn loop was about to replace it (engine.go:167-195, *)
(* and the comment of ChurnLeave, report.go:237-238).                      *)
(***************************************************************************)
LeaveNeverEarly ==
  \A v \in Users :
    <<"leave", v>> \in early => v \in died

\* The receipts that count for a kind: one slot per receipt tallied since its
\* message was registered, up to as many as that registration expected.
CountedReceipts(kind) ==
  {slot \in Users \X (1..Cardinality(Users)) :
     /\ <<kind, slot[1]>> \in DOMAIN promised
     /\ slot[2] <= heard[<<kind, slot[1]>>]
     /\ slot[2] <= promised[<<kind, slot[1]>>]}

(***************************************************************************)
(* Once a send is registered the fan figure is exact: until a send can be  *)
(* swept or refused for want of room, the tally of a kind is the number of *)
(* receipts since the registrations, each send cut off at what it expected *)
(* - no receipt is lost, counted for the wrong send, or counted after      *)
(* completion; and a sweep or a refusal can only lower it (report.go:      *)
(* 307-332, 361-380).                                                      *)
(***************************************************************************)
FanIsExact ==
  \A kind \in {"chat", "leave"} :
    /\ fanArrived[kind] <= Cardinality(CountedReceipts(kind))
    /\ now <= TTL /\ Cardinality(DOMAIN promised) <= Cap
         => fanArrived[kind] = Cardinality(CountedReceipts(kind))

Quiet == /\ \A u \in Chatters : chat[u].step \in {"idle", "sent"}
         /\ handling = {} /\ \A copy \in inbox : phase[copy.to] = "gone"

Reached(u) == audience[u] \subseteq got[<<"chat", u>>]

(***************************************************************************)
(* README.md:78, "fan=N% is delivered/expected - 100% = everyone got       *)
(* everything", read one way: when every user that was live at each        *)
(* publish has received the chat, the fan figure is 100%.                  *)
(***************************************************************************)
EveryoneMeansFullFan ==
  Quiet /\ (\A u \in Chatters : Reached(u))
    => fanArrived["chat"] = fanExpected["chat"]

(***************************************************************************)
(* README.md:78 read the other way: a fan figure of 100% means that every  *)
(* user that was live at each publish has received the chat.               *)
(***************************************************************************)
FullFanMeansEveryone ==
  Quiet /\ 0 < fanExpected["chat"] /\ fanArrived["chat"] = fanExpected["chat"]
    => \A u \in Chatters : Reached(u)

(***************************************************************************)
(* A delivery RTT is a duration from a publish to a receipt, so it is not  *)
(* negative (README.md:78, "publish->receive per peer").                   *)
(***************************************************************************)
SamplesNotNegative == ~\E i \in DOMAIN lat["chat"] : lat["chat"][i] < 0

(***************************************************************************)
(* The same holds of the leave signals because they are registered before  *)
(* the cancel: unless a user ended before the churn loop cancelled it, no  *)
(* detection latency is negative (engine.go:186-195, user.go: 812-814).    *)
(***************************************************************************)
LeaveSamplesNotNegative ==
  died = {} => ~\E i \in DOMAIN lat["leave"] : lat["leave"][i] < 0
===============================================================================
