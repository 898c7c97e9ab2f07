------------------------------- MODULE UserProofs -------------------------------
(***************************************************************************)
(* Proofs about one virtual user, for every value of the constants: its    *)
(* session, its donor history, its whiteboard.  The three share no state,  *)
(* so each part is about one of them alone.                                *)
(*                                                                         *)
(* The session: any capacity of its channels, any limit of missed pings,   *)
(* whatever the server does.  The main goroutine's place says what must    *)
(* have been heard, consumed and closed by then.                           *)
(*                                                                         *)
(* The donor history: element by element it is the window of the latest    *)
(* chats, and a reply is the history as it was when the request arrived,   *)
(* of which every chunk takes a piece off the front.                       *)
(*                                                                         *)
(* The whiteboard loops: any times of bursts and pauses, any deadlines of  *)
(* full states, any lag.  Each property is strengthened by what the loops  *)
(* have begun: where they are says which update is still to come.          *)
(***************************************************************************)
EXTENDS Session, ChatHistory, Whiteboard,
        SequenceTheorems, WellFoundedInduction, TLAPS

\* What OnMsg, the timer, the ping loop and the window leave to the main goroutine.
Others == OnMsg \/ Reconcile \/ PingLoop \/ Expire

LEMMA BoundsAreNatural ==
  /\ InitCap \in Nat \ {0} /\ ListCap \in Nat \ {0} /\ MaxMissed \in Nat \ {0}
  /\ MaxRepeats \in Nat /\ MaxPongs \in Nat /\ MaxSendErrors \in Nat
BY SessionAssumption

\* Nobody but the main goroutine moves it, nor what only it changes.
LEMMA MainIsAlone ==
  Others => UNCHANGED mainVars
BY DEF Others, OnMsg, InitialData, MediaServerData, Answered, UsersListDone, Pong,
     Reconcile, PingLoop, StampPing, PublishPing, PingTick, PingLoopEnds, Expire

-------------------------------------------------------------------------------
(***************************************************************************)
(* The types, and why the two counters of pings stay in range.             *)
(***************************************************************************)
TypeInv ==
  /\ TypeOK
  /\ pc = "attach" => conn = "open"
  /\ silent \in 0..MaxMissed
  /\ pinger # "ended" => missed < MaxMissed
  /\ pinger # "off" => pc \in {"running", "closing", "returned"}

(***************************************************************************)
(* The variables of a session have their types.                            *)
(***************************************************************************)
THEOREM TypesHold == Spec => []TypeInv
<1>1. Init => TypeInv
  BY BoundsAreNatural DEF Init, TypeInv, TypeOK
<1>2. TypeInv /\ [Next]_vars => TypeInv'
  <2> SUFFICES ASSUME TypeInv, [Next]_vars
               PROVE  TypeInv'
    OBVIOUS
  <2> USE DEF TypeInv, TypeOK
  <2>1. CASE Main
    <3> DEFINE Places == {"verify", "connect", "askInitial", "askedInitial",
                          "awaitInitial", "askUsers", "askedUsers", "awaitUsers",
                          "askMedia", "subscribe", "sync", "count", "media", "steady",
                          "unwinding"}
    <3>1. ASSUME NEW request \in Requests, NEW step \in Places, NEW next \in Places,
                 Ask(request, step, next)
          PROVE  TypeInv'
      <4>1. owed' \subseteq Requests
        BY <3>1 DEF Ask
      <4> QED  BY <3>1, <4>1 DEF Ask, Go, chans, pingVars
    <3>2. ASSUME NEW step \in Places, NEW next \in Places,
                 EnterSelect(step, next) \/ JoinFails(step)
          PROVE  TypeInv'
      BY <3>2 DEF EnterSelect, JoinFails, Go, wire, chans, pingVars
    <3>3. CASE VerifyToken \/ Connect \/ Attach
      BY <3>3 DEF VerifyToken, Connect, Attach, Fails, Go, Return, wire, chans, pingVars
    <3>4. CASE Unwind \/ Close
      BY <3>4 DEF Unwind, Close, Return, wire, chans, pingVars
    <3>5. CASE RequestInitialData \/ RequestUsersList \/ RequestMediaData \/ RequestSync
      BY <3>1, <3>2, <3>5 DEF RequestInitialData, RequestUsersList, RequestMediaData,
           RequestSync, Requests
    <3>6. CASE AwaitInitialData
      BY <3>2, <3>6, BoundsAreNatural DEF AwaitInitialData, Go, wire, pingVars
    <3>7. CASE AwaitUsersList
      BY <3>2, <3>7, BoundsAreNatural DEF AwaitUsersList, Go, wire, pingVars
    <3>8. CASE Subscribe \/ AddJoined
      BY <3>2, <3>8 DEF Subscribe, AddJoined, Go, wire, chans, pingVars
    <3>9. CASE StartMedia \/ StopMedia
      BY <3>9 DEF StartMedia, StopMedia, Go, wire, chans, pingVars
    <3>10. CASE StartSteadyState
      BY <3>10 DEF StartSteadyState, Go, wire, chans
    <3> QED  BY <2>1, <3>3, <3>4, <3>5, <3>6, <3>7, <3>8, <3>9, <3>10 DEF Main
  <2>2. CASE OnMsg
    <3>1. CASE InitialData \/ MediaServerData
      <4>1. heard' \subseteq Requests /\ owed' \subseteq Requests
        BY <3>1 DEF InitialData, MediaServerData, Answered
      <4>2. chInit' \in 0..InitCap /\ chUL' = chUL
        BY <3>1, BoundsAreNatural DEF InitialData, MediaServerData
      <4> QED  BY <3>1, <4>1, <4>2
               DEF InitialData, MediaServerData, Answered, mainVars, pingVars
    <3>2. CASE UsersListDone
      BY <3>2, BoundsAreNatural DEF UsersListDone, mainVars, pingVars, Requests
    <3>3. CASE Pong
      BY <3>3, BoundsAreNatural DEF Pong, mainVars, wire, chans
    <3> QED  BY <2>2, <3>1, <3>2, <3>3 DEF OnMsg
  <2>3. CASE Reconcile
    BY <2>3 DEF Reconcile, mainVars, chans, pingVars, Requests
  <2>4. CASE PingLoop
    <3>1. CASE StampPing \/ PingLoopEnds
      BY <3>1 DEF StampPing, PingLoopEnds, mainVars, wire, chans
    <3>2. CASE PublishPing
      BY <3>2, BoundsAreNatural DEF PublishPing, mainVars, chans
    <3>3. CASE PingTick
      BY <3>3, BoundsAreNatural DEF PingTick, mainVars, wire, chans
    <3> QED  BY <2>4, <3>1, <3>2, <3>3 DEF PingLoop
  <2>5. CASE Expire
    BY <2>5 DEF Expire, mainVars, wire, chans, pingVars
  <2>6. CASE UNCHANGED vars
    BY <2>6 DEF vars, mainVars, wire, chans, pingVars
  <2> QED  BY <2>1, <2>2, <2>3, <2>4, <2>5, <2>6 DEF Next
<1> QED  BY <1>1, <1>2, PTL DEF Spec

-------------------------------------------------------------------------------
(***************************************************************************)
(* Where the main goroutine is says what onMsg has passed on and what is   *)
(* still in the channels.                                                  *)
(***************************************************************************)
Deaf == {"verify", "connect", "attach"}
AwaitingInitial == {"askInitial", "askedInitial", "awaitInitial"}
AwaitingUsers == {"askUsers", "askedUsers", "awaitUsers"}
Member == {"askMedia", "subscribe", "sync", "count", "media", "steady", "running",
           "closing"}

WakeupInv ==
  /\ pc \in Deaf => ~consuming /\ heard = {} /\ ~joined
  /\ pc \in AwaitingInitial \cup AwaitingUsers => ~joined
  /\ pc \in AwaitingInitial /\ "initial" \in heard => chInit > 0
  /\ pc \in AwaitingInitial \cup AwaitingUsers /\ "list" \in heard => chUL > 0
  /\ chInit > 0 => "initial" \in heard
  /\ chUL > 0 => "list" \in heard
  /\ pc \in AwaitingUsers \cup Member => "initial" \in heard
  /\ pc \in Member => "list" \in heard
  /\ pc \in Member \ {"askMedia", "subscribe"} => subscribed
  /\ joined => {"initial", "list"} \subseteq heard /\ subscribed

(***************************************************************************)
(* The channels hold what was heard and is still awaited, and a joined     *)
(* session was served.                                                     *)
(***************************************************************************)
THEOREM WakeupsHold == Spec => []WakeupInv
<1> USE DEF WakeupInv, Deaf, AwaitingInitial, AwaitingUsers, Member
<1>1. Init => WakeupInv
  BY DEF Init
<1>2. TypeInv /\ WakeupInv /\ [Next]_vars => WakeupInv'
  <2> SUFFICES ASSUME TypeInv, WakeupInv, [Next]_vars
               PROVE  WakeupInv'
    OBVIOUS
  <2>0. chInit \in 0..InitCap /\ chUL \in 0..ListCap
    BY DEF TypeInv, TypeOK
  <2>1. CASE Main
    <3>1. CASE VerifyToken \/ Connect \/ Attach
      BY <3>1 DEF VerifyToken, Connect, Attach, Fails, Go, Return, chans
    <3>2. CASE Unwind \/ Close
      BY <3>2 DEF Unwind, Close, Return, chans
    <3>3. CASE RequestInitialData
      BY <3>3 DEF RequestInitialData, Ask, EnterSelect, JoinFails, Go, chans
    <3>4. CASE AwaitInitialData
      BY <2>0, <3>4 DEF AwaitInitialData, JoinFails, Go, chans
    <3>5. CASE RequestUsersList
      BY <3>5 DEF RequestUsersList, Ask, EnterSelect, JoinFails, Go, chans
    <3>6. CASE AwaitUsersList
      BY <2>0, <3>6 DEF AwaitUsersList, JoinFails, Go, chans
    <3>7. CASE RequestMediaData \/ RequestSync
      BY <3>7 DEF RequestMediaData, RequestSync, Ask, EnterSelect, JoinFails, Go, chans
    <3>8. CASE Subscribe \/ AddJoined
      BY <3>8 DEF Subscribe, AddJoined, JoinFails, Go, chans
    <3>9. CASE StartMedia \/ StartSteadyState \/ StopMedia
      BY <3>9 DEF StartMedia, StartSteadyState, StopMedia, Go, chans
    <3> QED  BY <2>1, <3>1, <3>2, <3>3, <3>4, <3>5, <3>6, <3>7, <3>8, <3>9 DEF Main
  <2>2. CASE OnMsg
    <3>0. UNCHANGED mainVars /\ (pc \in Deaf => ~OnMsg)
      BY <2>2, MainIsAlone
      DEF Others, OnMsg, InitialData, MediaServerData, Answered, UsersListDone, Pong
    <3>1. CASE InitialData
      BY <2>0, <3>0, <3>1, BoundsAreNatural, <2>2 DEF InitialData, Answered, mainVars
    <3>2. CASE MediaServerData
      BY <3>0, <3>2, <2>2 DEF MediaServerData, Answered, mainVars
    <3>3. CASE UsersListDone
      BY <2>0, <3>0, <3>3, BoundsAreNatural, <2>2 DEF UsersListDone, mainVars
    <3>4. CASE Pong
      BY <3>0, <3>4 DEF Pong, mainVars, chans
    <3> QED  BY <2>2, <3>1, <3>2, <3>3, <3>4 DEF OnMsg
  <2>3. CASE Reconcile \/ PingLoop \/ Expire
    <3>1. UNCHANGED <<mainVars, chans>>
      BY <2>3 DEF Reconcile, PingLoop, StampPing, PublishPing, PingTick, PingLoopEnds, Expire
    <3> QED  BY <3>1 DEF mainVars, chans
  <2>4. CASE UNCHANGED vars
    BY <2>4 DEF vars, mainVars, chans
  <2> QED  BY <2>1, <2>2, <2>3, <2>4 DEF Next
<1> HIDE DEF WakeupInv, Deaf, AwaitingInitial, AwaitingUsers, Member
<1> QED  BY <1>1, <1>2, TypesHold, PTL DEF Spec

(***************************************************************************)
(* An answer that arrives before the main goroutine waits for it is not    *)
(* lost.                                                                   *)
(***************************************************************************)
THEOREM WakeupsAreKept == Spec => []NoLostWakeup
<1>1. WakeupInv => NoLostWakeup
  BY DEF WakeupInv, NoLostWakeup, AwaitingInitial, AwaitingUsers
<1> QED  BY <1>1, WakeupsHold, PTL

(***************************************************************************)
(* Only users that the server has served are counted as joined.            *)
(***************************************************************************)
THEOREM JoinedServed == Spec => []JoinedWasServed
<1>1. WakeupInv => JoinedWasServed
  BY DEF WakeupInv, JoinedWasServed
<1> QED  BY <1>1, WakeupsHold, PTL

-------------------------------------------------------------------------------
(***************************************************************************)
(* Media runs only between its start and its stop, and where the main      *)
(* goroutine is says whether there is a connection and a consumer.         *)
(***************************************************************************)
ClosingInv ==
  /\ ReturnsDrained
  /\ media = "started" => pc \in {"steady", "running"}
  /\ pc \in Deaf => ~consuming
  /\ pc \in {"verify", "connect"} => conn = "none"
  /\ pc \notin {"verify", "connect", "returned"} => conn = "open"

(***************************************************************************)
(* Wherever a session returns from, its consumer and its media connection  *)
(* are stopped, and its NATS connection is drained if there is one, except *)
(* after an error of jetstream.New, AttachUserConsumer or Consume, which   *)
(* leaves it open.                                                         *)
(***************************************************************************)
THEOREM ReturnsDrainedHolds == Spec => []ReturnsDrained
<1> USE DEF ClosingInv, ReturnsDrained, Deaf
<1>1. Init => ClosingInv
  BY DEF Init
<1>2. ClosingInv /\ [Next]_vars => ClosingInv'
  <2> SUFFICES ASSUME ClosingInv, [Next]_vars
               PROVE  ClosingInv'
    OBVIOUS
  <2>1. CASE Main
    <3>1. CASE VerifyToken \/ Connect \/ Attach
      BY <3>1 DEF VerifyToken, Connect, Attach, Fails, Go, Return, ctx
    <3>2. CASE Unwind \/ Close
      BY <3>2 DEF Unwind, Close, Return, chans
    <3>3. CASE RequestInitialData \/ RequestUsersList \/ RequestMediaData \/ RequestSync
      BY <3>3 DEF RequestInitialData, RequestUsersList, RequestMediaData, RequestSync, Ask,
           EnterSelect, JoinFails, Go, ctx
    <3>4. CASE AwaitInitialData \/ AwaitUsersList
      BY <3>4 DEF AwaitInitialData, AwaitUsersList, JoinFails, Go, ctx
    <3>5. CASE Subscribe \/ AddJoined
      BY <3>5 DEF Subscribe, AddJoined, JoinFails, Go, ctx
    <3>6. CASE StartMedia \/ StartSteadyState \/ StopMedia
      BY <3>6 DEF StartMedia, StartSteadyState, StopMedia, Go, ctx
    <3> QED  BY <2>1, <3>1, <3>2, <3>3, <3>4, <3>5, <3>6 DEF Main
  <2>2. CASE OnMsg
    <3>1. consuming /\ UNCHANGED <<mainVars, returnedAt>>
      BY <2>2, MainIsAlone
      DEF Others, OnMsg, InitialData, MediaServerData, Answered, UsersListDone, Pong, ctx
    <3> QED  BY <3>1 DEF mainVars
  <2>3. CASE Reconcile \/ PingLoop \/ Expire
    <3>1. UNCHANGED <<mainVars, returnedAt>>
      BY <2>3 DEF Reconcile, PingLoop, StampPing, PublishPing, PingTick, PingLoopEnds,
           Expire, ctx
    <3> QED  BY <3>1 DEF mainVars
  <2>4. CASE UNCHANGED vars
    BY <2>4 DEF vars, mainVars, ctx
  <2> QED  BY <2>1, <2>2, <2>3, <2>4 DEF Next
<1>3. ClosingInv => ReturnsDrained
  OBVIOUS
<1> QED  BY <1>1, <1>2, <1>3, PTL DEF Spec

-------------------------------------------------------------------------------
(***************************************************************************)
(* Misses in a row are ticks in silence: a PONG clears both.               *)
(***************************************************************************)
SilenceInv == missed <= silent

(***************************************************************************)
(* Misses never outnumber the ticks since the last PONG.                   *)
(***************************************************************************)
THEOREM SilenceHolds == Spec => []SilenceInv
<1>1. Init => SilenceInv
  BY DEF Init, SilenceInv
<1>2. TypeInv /\ SilenceInv /\ [Next]_vars => SilenceInv'
  <2> SUFFICES ASSUME TypeInv, SilenceInv, [Next]_vars
               PROVE  SilenceInv'
    OBVIOUS
  <2>0. /\ missed \in Nat /\ silent \in 0..MaxMissed /\ MaxMissed \in Nat
        /\ pinger = "waiting" => missed < MaxMissed
    BY BoundsAreNatural DEF TypeInv, TypeOK
  <2>1. CASE PingTick
    BY <2>0, <2>1 DEF PingTick, SilenceInv
  <2>2. CASE Pong
    BY <2>2 DEF Pong, SilenceInv
  <2>3. CASE Main
    <3>1. UNCHANGED <<missed, silent>>
      BY <2>3 DEF Main, VerifyToken, Connect, Attach, Unwind, RequestInitialData,
           AwaitInitialData, RequestUsersList, AwaitUsersList, RequestMediaData, Subscribe,
           RequestSync, AddJoined, StartMedia, StartSteadyState, StopMedia, Close, Fails,
           JoinFails, Ask, EnterSelect, pingVars
    <3> QED  BY <3>1 DEF SilenceInv
  <2>4. CASE InitialData \/ MediaServerData \/ UsersListDone \/ Reconcile \/ Expire
    BY <2>4 DEF InitialData, MediaServerData, Answered, UsersListDone, Reconcile, Expire,
         pingVars, SilenceInv
  <2>5. CASE StampPing \/ PublishPing \/ PingLoopEnds
    BY <2>5 DEF StampPing, PublishPing, PingLoopEnds, SilenceInv
  <2>6. CASE UNCHANGED vars
    BY <2>6 DEF vars, pingVars, SilenceInv
  <2> QED  BY <2>1, <2>2, <2>3, <2>4, <2>5, <2>6 DEF Next, OnMsg, PingLoop
<1> QED  BY <1>1, <1>2, TypesHold, PTL DEF Spec

(***************************************************************************)
(* A session is given up for missed pings only after MaxMissed ticks       *)
(* without any PONG.                                                       *)
(***************************************************************************)
THEOREM GivenUpAfterSilence == Spec => GivenUpOnlyAfterSilence
<1>1. TypeInv /\ SilenceInv /\ [Next]_vars => (runErr' /\ ~runErr => silent' >= MaxMissed)
  <2> SUFFICES ASSUME TypeInv, SilenceInv, [Next]_vars, runErr' # runErr
               PROVE  silent' >= MaxMissed
    OBVIOUS
  <2>0. /\ missed \in Nat /\ silent \in 0..MaxMissed /\ MaxMissed \in Nat
        /\ missed <= silent
    BY BoundsAreNatural DEF TypeInv, TypeOK, SilenceInv
  <2>1. PingTick
    BY DEF Next, Main, VerifyToken, Connect, Attach, Unwind, RequestInitialData,
       AwaitInitialData, RequestUsersList, AwaitUsersList, RequestMediaData, Subscribe,
       RequestSync, AddJoined, StartMedia, StartSteadyState, StopMedia, Close, Fails,
       JoinFails, Ask, EnterSelect, OnMsg, InitialData, MediaServerData, Answered,
       UsersListDone, Pong, Reconcile, Expire, PingLoop, StampPing, PublishPing,
       PingLoopEnds, vars, pingVars
  <2>2. (IF ponged THEN missed ELSE missed + 1) >= MaxMissed
    BY <2>1 DEF PingTick
  <2>3. silent' = IF silent < MaxMissed THEN silent + 1 ELSE silent
    BY <2>1 DEF PingTick
  <2> QED  BY <2>0, <2>2, <2>3
<1> QED  BY <1>1, TypesHold, SilenceHolds, PTL DEF Spec, GivenUpOnlyAfterSilence

-------------------------------------------------------------------------------
\* The number of the oldest chat in the history.
Oldest == IF chats > MaxChatHistory THEN chats - MaxChatHistory + 1 ELSE 1

Window ==
  /\ chats \in Nat /\ chatHist \in Seq(Nat)
  /\ Len(chatHist) = chats - Oldest + 1
  /\ \A i \in 1..Len(chatHist) : chatHist[i] = Oldest + i - 1

LEMMA BoundIsPositive == MaxChatHistory \in Nat /\ MaxChatHistory > 0
BY ChatHistoryAssumption

(***************************************************************************)
(* A chat is appended and, once the history is full, the oldest goes.      *)
(***************************************************************************)
LEMMA AppendKeepsWindow ==
  ASSUME Window, AppendChat
  PROVE  Window'
<1> DEFINE longer == Append(chatHist, chats + 1)
<1>0. chats' = chats + 1 /\ chatHist' = Latest(longer) /\ chats \in Nat
  BY DEF AppendChat, Window
<1>1. /\ longer \in Seq(Nat) /\ Len(longer) = Len(chatHist) + 1
      /\ \A i \in 1..Len(longer) : longer[i] = Oldest + i - 1
  <2>0. chatHist \in Seq(Nat) /\ chats + 1 \in Nat
    BY <1>0 DEF Window
  <2>1. longer \in Seq(Nat) /\ Len(longer) = Len(chatHist) + 1 /\ Len(chatHist) \in Nat
    BY <2>0
  <2>2. \A i \in 1..Len(chatHist) : longer[i] = chatHist[i]
    BY <1>0 DEF Window
  <2>3. longer[Len(chatHist) + 1] = chats + 1
    BY <1>0 DEF Window
  <2>4. Oldest \in Nat
    BY <1>0, BoundIsPositive DEF Oldest
  <2>5. ASSUME NEW i \in 1..Len(longer) PROVE longer[i] = Oldest + i - 1
    <3>1. CASE i <= Len(chatHist)
      BY <2>1, <2>2, <3>1 DEF Window
    <3>2. CASE i = Len(chatHist) + 1
      BY <1>0, <2>1, <2>3, <2>4, <3>2 DEF Window
    <3> QED  BY <2>1, <3>1, <3>2
  <2> QED  BY <2>1, <2>5
<1> HIDE DEF longer
<1>2. Len(longer) = chats - Oldest + 2
  BY <1>0, <1>1, BoundIsPositive DEF Window, Oldest
<1>3. CASE chats < MaxChatHistory
  <2>1. Oldest = 1 /\ Oldest' = 1 /\ Len(longer) = chats + 1
    BY <1>0, <1>2, <1>3, BoundIsPositive DEF Oldest
  <2>2. chatHist' = longer
    BY <1>0, <1>3, <2>1, BoundIsPositive DEF Latest
  <2> QED  BY <1>0, <1>1, <2>1, <2>2 DEF Window
<1>4. CASE chats >= MaxChatHistory
  <2>1. /\ Oldest = chats - MaxChatHistory + 1 /\ Oldest' = Oldest + 1
        /\ Len(longer) = MaxChatHistory + 1 /\ Oldest \in Nat
    BY <1>0, <1>2, <1>4, BoundIsPositive DEF Oldest
  <2>2. chatHist' = SubSeq(longer, 2, MaxChatHistory + 1)
    BY <1>0, <2>1, BoundIsPositive DEF Latest
  <2>3. /\ chatHist' \in Seq(Nat) /\ Len(chatHist') = MaxChatHistory
        /\ \A i \in 1..MaxChatHistory : chatHist'[i] = longer[i + 1]
    BY <1>1, <2>1, <2>2, BoundIsPositive
  <2>4. ASSUME NEW i \in 1..MaxChatHistory PROVE longer[i + 1] = Oldest' + i - 1
    <3>1. i + 1 \in 1..Len(longer) /\ i \in Nat
      BY <2>1, BoundIsPositive
    <3>2. longer[i + 1] = Oldest + (i + 1) - 1
      BY <1>1, <3>1
    <3> QED  BY <2>1, <3>1, <3>2
  <2> QED  BY <1>0, <2>1, <2>3, <2>4, BoundIsPositive DEF Window
<1> QED  BY <1>0, <1>3, <1>4, BoundIsPositive

LEMMA WindowStep ==
  ASSUME Window, [HistNext]_histVars
  PROVE  Window'
<1>1. CASE AppendChat
  BY <1>1, AppendKeepsWindow
<1>2. CASE ~AppendChat
  <2>1. UNCHANGED <<chats, chatHist>>
    BY <1>2 DEF HistNext, DonorRequest, SendChunk, ReplySent, histVars
  <2> QED  BY <2>1 DEF Window, Oldest
<1> QED  BY <1>1, <1>2

(***************************************************************************)
(* The history is always the latest chats, in order and without a gap, as  *)
(* many as there were up to the bound.                                     *)
(***************************************************************************)
THEOREM HistoryHolds == HistInit /\ [][HistNext]_histVars => []HistoryIsLatest
<1>1. HistInit => Window
  BY BoundIsPositive DEF HistInit, Window, Oldest
<1>2. Window /\ [HistNext]_histVars => Window'
  BY WindowStep
<1>3. Window => HistoryIsLatest
  <2> SUFFICES ASSUME Window
               PROVE  chatHist = SubSeq([i \in 1..chats |-> i], Oldest, chats)
    BY DEF HistoryIsLatest, Oldest
  <2> DEFINE all == [i \in 1..chats |-> i]
             latest == SubSeq(all, Oldest, chats)
  <2>1. chats \in Nat /\ Oldest \in 1..(chats + 1)
    BY BoundIsPositive DEF Window, Oldest
  <2>2. all \in Seq(Nat) /\ Len(all) = chats
    BY <2>1
  <2>3. /\ latest \in Seq(Nat) /\ Len(latest) = chats - Oldest + 1
        /\ \A i \in 1..(chats - Oldest + 1) : latest[i] = all[Oldest + i - 1]
    <3> HIDE DEF all
    <3> QED  BY <2>1, <2>2
  <2>4. \A i \in 1..(chats - Oldest + 1) : all[Oldest + i - 1] = Oldest + i - 1
    BY <2>1
  <2> HIDE DEF latest, all
  <2>5. Len(chatHist) = Len(latest) /\ Len(chatHist) = chats - Oldest + 1
    BY <2>3 DEF Window
  <2>6. \A i \in 1..Len(chatHist) : chatHist[i] = latest[i]
    BY <2>3, <2>4, <2>5 DEF Window
  <2>7. chatHist = latest
    BY <2>3, <2>5, <2>6, SeqEqual DEF Window
  <2> QED  BY <2>7 DEF latest, all
<1> QED  BY <1>1, <1>2, <1>3, PTL

(***************************************************************************)
(* Induction over the natural numbers: a set of them that has 0 and, with  *)
(* each number, the next one has them all.                                 *)
(***************************************************************************)
LEMMA SetInduction ==
  ASSUME NEW S \in SUBSET Nat, 0 \in S, \A k \in S : k + 1 \in S
  PROVE  S = Nat
<1> SUFFICES ASSUME Nat \ S # {}
             PROVE  FALSE
  OBVIOUS
<1> DEFINE missing == Nat \ S
<1>1. PICK x \in missing : \A y \in missing : ~(<<y, x>> \in OpToRel(<, Nat))
  <2>1. missing \subseteq Nat /\ missing # {}
    OBVIOUS
  <2> HIDE DEF missing
  <2> QED  BY <2>1, NatLessThanWellFounded, WFMin
<1>2. x \in Nat /\ x # 0
  OBVIOUS
<1>3. x - 1 \in Nat /\ <<x - 1, x>> \in OpToRel(<, Nat)
  BY <1>2 DEF OpToRel
<1>4. x - 1 \in S
  BY <1>1, <1>3
<1>5. x - 1 + 1 \in S
  BY <1>4
<1> QED  BY <1>2, <1>5

(***************************************************************************)
(* The function by which FlattenSeq puts sequences together, of which it   *)
(* takes the last value: its i-th value is the first i of them joined.     *)
(***************************************************************************)
Joins(f, seqs) ==
  f = [i \in 1..Len(seqs) |-> IF i = 1 THEN seqs[i] ELSE f[i - 1] \o seqs[i]]

LEMMA JoinsExist ==
  ASSUME NEW X, NEW seqs \in Seq(Seq(X))
  PROVE  \E f : Joins(f, seqs)
<1> DEFINE Upto(k, f) ==
             f = [i \in 1..k |-> IF i = 1 THEN seqs[i] ELSE f[i - 1] \o seqs[i]]
           done == {k \in Nat : \E f : Upto(k, f)}
<1>1. 0 \in done
  <2> DEFINE none == [i \in 1..0 |-> IF i = 1 THEN seqs[i] ELSE seqs[i - 1] \o seqs[i]]
  <2>1. Upto(0, none)
    OBVIOUS
  <2> QED  BY <2>1
<1>2. ASSUME NEW k \in done PROVE k + 1 \in done
  <2>0. PICK f : Upto(k, f)
    OBVIOUS
  <2> DEFINE g == [i \in 1..(k + 1) |->
                     IF i <= k THEN f[i]
                       ELSE IF i = 1 THEN seqs[i] ELSE f[i - 1] \o seqs[i]]
             h == [i \in 1..(k + 1) |->
                     IF i = 1 THEN seqs[i] ELSE g[i - 1] \o seqs[i]]
  <2>1. ASSUME NEW i \in 1..(k + 1) PROVE g[i] = h[i]
    <3>1. CASE i <= k
      <4>1. i \in 1..k /\ (i # 1 => i - 1 \in 1..k)
        BY <3>1
      <4>2. f[i] = IF i = 1 THEN seqs[i] ELSE f[i - 1] \o seqs[i]
        BY <2>0, <4>1
      <4> QED  BY <3>1, <4>1, <4>2
    <3>2. CASE i = k + 1
      <4>1. i # 1 => i - 1 \in 1..k /\ g[i - 1] = f[i - 1]
        BY <3>2
      <4> QED  BY <3>2, <4>1
    <3> QED  BY <3>1, <3>2
  <2>2. g = h
    BY <2>1
  <2>3. Upto(k + 1, g)
    <3> HIDE DEF g
    <3> QED  BY <2>2
  <2>4. \E e : Upto(k + 1, e)
    <3> HIDE DEF g, Upto
    <3> QED  BY <2>3
  <2>5. k + 1 \in Nat
    OBVIOUS
  <2> HIDE DEF Upto
  <2> QED  BY <2>4, <2>5
<1>3. done = Nat
  <2> HIDE DEF done
  <2>1. done \in SUBSET Nat
    BY DEF done
  <2> QED  BY <1>1, <1>2, <2>1, SetInduction
<1>4. Len(seqs) \in Nat
  OBVIOUS
<1> QED  BY <1>3, <1>4 DEF Joins

(***************************************************************************)
(* One sequence more changes none of the values before it.                 *)
(***************************************************************************)
LEMMA JoinsAgree ==
  ASSUME NEW X, NEW seqs \in Seq(Seq(X)), NEW last \in Seq(X),
         NEW f, Joins(f, seqs), NEW g, Joins(g, Append(seqs, last))
  PROVE  /\ \A i \in 1..Len(seqs) : f[i] \in Seq(X) /\ g[i] = f[i]
         /\ g[Len(seqs) + 1] = IF Len(seqs) = 0 THEN last ELSE f[Len(seqs)] \o last
<1> DEFINE all == Append(seqs, last)
           len == Len(seqs)
           done == {k \in Nat : k \in 1..len => f[k] \in Seq(X) /\ g[k] = f[k]}
<1>0. len \in Nat /\ Len(all) = len + 1 /\ all[len + 1] = last
      /\ \A i \in 1..len : all[i] = seqs[i] /\ seqs[i] \in Seq(X)
  OBVIOUS
<1>1. /\ \A i \in 1..len : f[i] = IF i = 1 THEN seqs[i] ELSE f[i - 1] \o seqs[i]
      /\ \A i \in 1..(len + 1) : g[i] = IF i = 1 THEN all[i] ELSE g[i - 1] \o all[i]
  <2> HIDE DEF all, len
  <2>1. f = [i \in 1..len |-> IF i = 1 THEN seqs[i] ELSE f[i - 1] \o seqs[i]]
    BY DEF Joins, len
  <2>2. g = [i \in 1..(len + 1) |-> IF i = 1 THEN all[i] ELSE g[i - 1] \o all[i]]
    BY <1>0 DEF Joins, all
  <2> QED  BY <2>1, <2>2
<1>11. ASSUME NEW k \in Nat, k # 0, k + 1 \in 1..len
      PROVE  f[k + 1] = f[k] \o seqs[k + 1]
  <2>1. PICK i \in 1..len : i = k + 1
    BY <1>11
  <2>2. i # 1 /\ i - 1 = k
    BY <1>11, <2>1
  <2>3. f[i] = f[i - 1] \o seqs[i]
    BY <1>1, <2>2
  <2> QED  BY <2>1, <2>2, <2>3
<1>12. ASSUME NEW k \in Nat, k # 0, k + 1 \in 1..(len + 1)
      PROVE  g[k + 1] = g[k] \o all[k + 1]
  <2>1. PICK i \in 1..(len + 1) : i = k + 1
    BY <1>12
  <2>2. i # 1 /\ i - 1 = k
    BY <1>12, <2>1
  <2>3. g[i] = g[i - 1] \o all[i]
    BY <1>1, <2>2
  <2> QED  BY <2>1, <2>2, <2>3
<1> HIDE DEF all, len
<1>2. 0 \in done
  BY <1>0
<1>3. ASSUME NEW k \in done PROVE k + 1 \in done
  <2> SUFFICES ASSUME k + 1 \in 1..len
               PROVE  f[k + 1] \in Seq(X) /\ g[k + 1] = f[k + 1]
    OBVIOUS
  <2>1. CASE k = 0
    BY <1>0, <1>1, <2>1
  <2>2. CASE k # 0
    <3>1. k \in 1..len /\ k + 1 \in 1..(len + 1) /\ k + 1 # 1 /\ k + 1 - 1 = k
      BY <1>0, <2>2
    <3>2. f[k] \in Seq(X) /\ g[k] = f[k]
      BY <3>1
    <3>3. f[k + 1] = f[k] \o seqs[k + 1] /\ g[k + 1] = g[k] \o all[k + 1]
      BY <1>11, <1>12, <2>2, <3>1
    <3>4. seqs[k + 1] \in Seq(X) /\ all[k + 1] = seqs[k + 1]
      BY <1>0
    <3>5. f[k] \o seqs[k + 1] \in Seq(X)
      BY <3>2, <3>4, ConcatProperties
    <3> QED  BY <3>2, <3>3, <3>4, <3>5
  <2> QED  BY <2>1, <2>2
<1>4. done = Nat
  <2> HIDE DEF done
  <2>1. done \in SUBSET Nat
    BY DEF done
  <2> QED  BY <1>2, <1>3, <2>1, SetInduction
<1>5. \A i \in 1..len : f[i] \in Seq(X) /\ g[i] = f[i]
  <2> SUFFICES ASSUME NEW i \in 1..len PROVE f[i] \in Seq(X) /\ g[i] = f[i]
    OBVIOUS
  <2>1. i \in Nat
    BY <1>0
  <2>2. i \in done
    <3> HIDE DEF done
    <3> QED  BY <1>4, <2>1
  <2> QED  BY <2>2
<1>6. g[len + 1] = IF len = 0 THEN last ELSE f[len] \o last
  <2>1. CASE len = 0
    BY <1>0, <1>1, <2>1
  <2>2. CASE len # 0
    <3>1. len \in 1..len /\ len + 1 \in 1..(len + 1) /\ len + 1 # 1 /\ len + 1 - 1 = len
      BY <1>0, <2>2
    <3>2. g[len + 1] = g[len] \o all[len + 1]
      BY <1>0, <1>12, <2>2, <3>1
    <3>3. g[len] = f[len]
      BY <1>5, <3>1
    <3> QED  BY <1>0, <2>2, <3>1, <3>2, <3>3
  <2> QED  BY <2>1, <2>2
<1> QED  BY <1>5, <1>6 DEF len

(***************************************************************************)
(* What FlattenSeq returns: of no sequence the empty one, and one sequence *)
(* more is put behind.                                                     *)
(***************************************************************************)
LEMMA FlattenAppends ==
  ASSUME NEW X, NEW seqs \in Seq(Seq(X)), NEW last \in Seq(X)
  PROVE  /\ FlattenSeq(seqs) \in Seq(X)
         /\ FlattenSeq(Append(seqs, last)) = FlattenSeq(seqs) \o last
<1> DEFINE all == Append(seqs, last)
           f == CHOOSE h : Joins(h, seqs)
           g == CHOOSE h : Joins(h, all)
<1>0. all \in Seq(Seq(X)) /\ Len(all) = Len(seqs) + 1 /\ Len(seqs) \in Nat
  OBVIOUS
<1>1. \A h : Joins(h, seqs) => Joins(f, seqs)
  BY Zenon
<1>2. \A h : Joins(h, all) => Joins(g, all)
  BY Zenon
<1>3. Joins(f, seqs) /\ Joins(g, all)
  <2> HIDE DEF f, g, all
  <2> QED  BY <1>0, <1>1, <1>2, JoinsExist
<1>4. FlattenSeq(seqs) = IF Len(seqs) = 0 THEN seqs ELSE f[Len(seqs)]
  BY Zenon DEF FlattenSeq, Joins
<1>5. FlattenSeq(all) = IF Len(all) = 0 THEN all ELSE g[Len(all)]
  BY Zenon DEF FlattenSeq, Joins
<1> HIDE DEF f, g
<1>6. /\ \A i \in 1..Len(seqs) : f[i] \in Seq(X) /\ g[i] = f[i]
      /\ g[Len(seqs) + 1] = IF Len(seqs) = 0 THEN last ELSE f[Len(seqs)] \o last
  BY <1>3, JoinsAgree
<1>7. CASE Len(seqs) = 0
  <2>1. seqs = <<>> /\ FlattenSeq(seqs) = <<>>
    BY <1>4, <1>7
  <2>2. FlattenSeq(all) = last
    BY <1>0, <1>5, <1>6, <1>7
  <2>3. <<>> \o last = last /\ <<>> \in Seq(X)
    BY ConcatEmptySeq
  <2> QED  BY <2>1, <2>2, <2>3
<1>8. CASE Len(seqs) # 0
  BY <1>0, <1>4, <1>5, <1>6, <1>8
<1> QED  BY <1>7, <1>8

(***************************************************************************)
(* What has been sent and what is left make up the history of the request, *)
(* and every chunk has its size.                                           *)
(***************************************************************************)
ReplyInv ==
  /\ history \in Seq(Nat) /\ chunks \in Seq(Seq(Nat))
  /\ ReplyIsSnapshot

LEMMA ChunkSizes ==
  ASSUME NEW s \in Seq(Nat), s # <<>>
  PROVE  ChunkLen(s) \in 1..Len(s) /\ ChunkLen(s) \in 1..ChatSyncChunkSize
<1>1. ChatSyncChunkSize \in Nat /\ ChatSyncChunkSize >= 1
  BY ChatHistoryAssumption
<1>2. Len(s) \in Nat /\ Len(s) >= 1
  BY EmptySeq
<1> QED  BY <1>1, <1>2 DEF ChunkLen

(***************************************************************************)
(* A chunk and the rest are the sequence they are cut from.                *)
(***************************************************************************)
LEMMA CutRejoins ==
  ASSUME NEW X, NEW s \in Seq(X), NEW k \in 1..Len(s)
  PROVE  /\ SubSeq(s, 1, k) \in Seq(X) /\ SubSeq(s, k + 1, Len(s)) \in Seq(X)
         /\ Len(SubSeq(s, 1, k)) = k
         /\ SubSeq(s, 1, k) \o SubSeq(s, k + 1, Len(s)) = s
<1> DEFINE cut == SubSeq(s, 1, k)
           rest == SubSeq(s, k + 1, Len(s))
<1>1. /\ cut \in Seq(X) /\ Len(cut) = k
      /\ \A i \in 1..k : cut[i] = s[i]
  OBVIOUS
<1>2. /\ rest \in Seq(X) /\ Len(rest) = Len(s) - k
      /\ \A i \in 1..(Len(s) - k) : rest[i] = s[k + i]
  OBVIOUS
<1> HIDE DEF cut, rest
<1>3. /\ cut \o rest \in Seq(X) /\ Len(cut \o rest) = Len(s)
      /\ \A i \in 1..Len(s) : (cut \o rest)[i] = IF i <= k THEN cut[i] ELSE rest[i - k]
  <2>1. /\ cut \o rest \in Seq(X) /\ Len(cut \o rest) = Len(cut) + Len(rest)
        /\ \A i \in 1..(Len(cut) + Len(rest)) :
             (cut \o rest)[i] = IF i <= Len(cut) THEN cut[i] ELSE rest[i - Len(cut)]
    BY <1>1, <1>2, ConcatProperties
  <2>2. Len(cut) + Len(rest) = Len(s)
    BY <1>1, <1>2
  <2> QED  BY <1>1, <2>1, <2>2
<1>4. ASSUME NEW i \in 1..Len(s) PROVE (cut \o rest)[i] = s[i]
  <2>1. CASE i <= k
    BY <1>1, <1>3, <2>1
  <2>2. CASE i > k
    <3>1. PICK j \in 1..(Len(s) - k) : j = i - k
      BY <2>2
    <3>2. rest[j] = s[k + j] /\ k + j = i
      BY <1>2, <3>1
    <3>3. (cut \o rest)[i] = rest[i - k]
      <4>1. i > Len(cut) /\ i \in 1..(Len(cut) + Len(rest)) /\ i - Len(cut) = i - k
        BY <1>1, <1>2, <1>3, <2>2
      <4> QED  BY <4>1, <1>1, <1>2
    <3> QED  BY <3>1, <3>2, <3>3
  <2>3. i <= k \/ i > k
    OBVIOUS
  <2> QED  BY <2>1, <2>2, <2>3
<1>5. cut \o rest = s
  BY <1>3, <1>4, SeqEqual
<1> QED  BY <1>1, <1>2, <1>5 DEF cut, rest

(***************************************************************************)
(* A turn of donorReply's loop that succeeds.                              *)
(***************************************************************************)
LEMMA ChunkKeepsReply ==
  ASSUME ReplyInv, SendChunk, chunks' # chunks
  PROVE  ReplyInv'
<1> DEFINE len == ChunkLen(history)
           chunk == SubSeq(history, 1, len)
           rest == SubSeq(history, len + 1, Len(history))
<1>0. history \in Seq(Nat) /\ chunks \in Seq(Seq(Nat)) /\ history # <<>>
      /\ FlattenSeq(chunks) \o history = asked
  BY DEF ReplyInv, ReplyIsSnapshot, SendChunk
<1>1. /\ chunks' = Append(chunks, chunk) /\ history' = rest
      /\ replying' /\ asked' = asked
  BY DEF SendChunk
<1>2. /\ chunk \in Seq(Nat) /\ rest \in Seq(Nat)
      /\ Len(chunk) \in 1..ChatSyncChunkSize
      /\ chunk \o rest = history
  <2>1. len \in 1..Len(history) /\ len \in 1..ChatSyncChunkSize
    BY <1>0, ChunkSizes
  <2> HIDE DEF len
  <2> QED  BY <1>0, <2>1, CutRejoins
<1> HIDE DEF chunk, rest
<1>3. FlattenSeq(chunks) \in Seq(Nat)
      /\ FlattenSeq(Append(chunks, chunk)) = FlattenSeq(chunks) \o chunk
  BY <1>0, <1>2, FlattenAppends
<1>4. FlattenSeq(chunks') \o history' = asked'
  <2> DEFINE sent == FlattenSeq(chunks)
  <2>1. sent \in Seq(Nat) /\ chunk \in Seq(Nat) /\ rest \in Seq(Nat)
    BY <1>2, <1>3
  <2>2. FlattenSeq(chunks') = sent \o chunk /\ history' = rest /\ asked' = sent \o history
    BY <1>0, <1>1, <1>3
  <2> HIDE DEF sent
  <2>3. (sent \o chunk) \o rest = sent \o (chunk \o rest)
    BY <2>1, ConcatAssociative
  <2> QED  BY <1>2, <2>2, <2>3
<1>5. \A i \in DOMAIN chunks' : Len(chunks'[i]) \in 1..ChatSyncChunkSize
  <2>1. \A i \in DOMAIN chunks : Len(chunks[i]) \in 1..ChatSyncChunkSize
    BY DEF ReplyInv, ReplyIsSnapshot
  <2>2. /\ DOMAIN chunks = 1..Len(chunks) /\ DOMAIN chunks' = 1..(Len(chunks) + 1)
        /\ \A i \in 1..Len(chunks) : chunks'[i] = chunks[i]
        /\ chunks'[Len(chunks) + 1] = chunk /\ Len(chunks) \in Nat
    BY <1>0, <1>1, <1>2
  <2>3. ASSUME NEW i \in DOMAIN chunks' PROVE i \in DOMAIN chunks \/ i = Len(chunks) + 1
    BY <2>2
  <2> QED  BY <1>2, <2>1, <2>2, <2>3
<1>6. history' \in Seq(Nat) /\ chunks' \in Seq(Seq(Nat))
  BY <1>0, <1>1, <1>2
<1> QED  BY <1>1, <1>4, <1>5, <1>6 DEF ReplyInv, ReplyIsSnapshot

(***************************************************************************)
(* A reply is the history as it was when the request arrived, whatever     *)
(* chats come in between its chunks (donorReply, sendHistChunk).           *)
(***************************************************************************)
THEOREM ReplySnapshots == HistInit /\ [][HistNext]_histVars => []ReplyIsSnapshot
<1>1. HistInit => Window /\ ReplyInv
  <2> SUFFICES ASSUME HistInit PROVE Window /\ ReplyInv
    OBVIOUS
  <2>1. Window
    BY BoundIsPositive DEF HistInit, Window, Oldest
  <2>2. FlattenSeq(chunks) = <<>>
    BY DEF HistInit, FlattenSeq
  <2>3. <<>> \in Seq(Nat) /\ <<>> \in Seq(Seq(Nat)) /\ <<>> \o <<>> = <<>>
    BY ConcatEmptySeq
  <2> QED  BY <2>1, <2>2, <2>3 DEF HistInit, ReplyInv, ReplyIsSnapshot
<1>2. Window /\ ReplyInv /\ [HistNext]_histVars => Window' /\ ReplyInv'
  <2> SUFFICES ASSUME Window, ReplyInv, [HistNext]_histVars
               PROVE  Window' /\ ReplyInv'
    OBVIOUS
  <2>1. Window'
    BY WindowStep
  <2>2. CASE AppendChat \/ UNCHANGED histVars
    <3>1. UNCHANGED replyVars
      BY <2>2 DEF AppendChat, histVars
    <3> QED  BY <2>1, <3>1 DEF ReplyInv, ReplyIsSnapshot, replyVars
  <2>3. CASE DonorRequest
    <3>1. /\ history' = chatHist /\ asked' = chatHist /\ chunks' = <<>>
          /\ replying' /\ chatHist \in Seq(Nat)
      BY <2>3 DEF DonorRequest, Window
    <3>2. FlattenSeq(chunks') = <<>>
      BY <3>1 DEF FlattenSeq
    <3>3. <<>> \in Seq(Seq(Nat)) /\ <<>> \o chatHist = chatHist
      BY <3>1, ConcatEmptySeq
    <3>4. FlattenSeq(chunks') \o history' = asked'
      BY <3>1, <3>2, <3>3
    <3>5. DOMAIN chunks' = {}
      BY <3>1
    <3> QED  BY <2>1, <3>1, <3>3, <3>4, <3>5 DEF ReplyInv, ReplyIsSnapshot
  <2>4. CASE SendChunk
    <3>1. CASE chunks' # chunks
      BY <2>1, <2>4, <3>1, ChunkKeepsReply
    <3>2. CASE UNCHANGED <<chunks, history>> /\ failed'
      <4>1. UNCHANGED <<chunks, history, asked>> /\ failed'
        BY <2>4, <3>2 DEF SendChunk
      <4> QED  BY <2>1, <4>1 DEF ReplyInv, ReplyIsSnapshot
    <3>3. chunks' # chunks \/ (UNCHANGED <<chunks, history>> /\ failed')
      <4>1. chunks \in Seq(Seq(Nat))
        BY DEF ReplyInv
      <4>2. \A chunk : Append(chunks, chunk) # chunks
        BY <4>1
      <4> QED  BY <2>4, <4>2 DEF SendChunk
    <3> QED  BY <3>1, <3>2, <3>3
  <2>5. CASE ReplySent
    <3>1. UNCHANGED <<chunks, history, asked>> /\ history = <<>>
      BY <2>5 DEF ReplySent
    <3> QED  BY <2>1, <3>1 DEF ReplyInv, ReplyIsSnapshot
  <2> QED  BY <2>1, <2>2, <2>3, <2>4, <2>5 DEF HistNext
<1>3. ReplyInv => ReplyIsSnapshot
  BY DEF ReplyInv
<1> QED  BY <1>1, <1>2, <1>3, PTL

(***************************************************************************)
(* Times are natural numbers, and a full state is due MinGap after the     *)
(* last at the earliest.                                                   *)
(***************************************************************************)
LEMMA Times ==
  /\ \A time \in Idles \cup Bursts \cup Offsets : time \in Nat
  /\ \A gap \in FullGaps : gap \in Nat /\ gap >= MinGap
  /\ MinGap \in Nat /\ MaxLag \in Nat
BY WhiteboardAssumption

(***************************************************************************)
(* The variables of the whiteboard loops have their types.                 *)
(***************************************************************************)
THEOREM BoardTypeCorrect == BoardSpec => []BoardTypeOK
<1>1. BoardInit => BoardTypeOK
  <2> SUFFICES ASSUME BoardInit PROVE BoardTypeOK
    OBVIOUS
  <2> USE DEF BoardInit
  <2>1. left \in Nat /\ nextFull \in Nat /\ late \in 0..MaxLag
    BY Times
  <2>2. due \in [Changes -> Nat] /\ quiet \in [Drawn -> Nat]
    BY DEF None
  <2>3. bin \in [Loops -> {"random", "valid"}] /\ stray \in [Loops -> Nat]
    OBVIOUS
  <2>4. sinceFull \in 0..MinGap /\ shortest \in 0..MinGap
    BY Times
  <2> QED  BY <2>1, <2>2, <2>3, <2>4 DEF BoardTypeOK
<1>2. BoardTypeOK /\ [BoardNext]_boardVars => BoardTypeOK'
  <2> SUFFICES ASSUME BoardTypeOK, [BoardNext]_boardVars
               PROVE  BoardTypeOK'
    OBVIOUS
  <2> USE DEF BoardTypeOK
  <2>0. 0 \in 0..MaxLag /\ 0 \in 0..MinGap
    BY Times
  <2>1. ASSUME NEW kinds \in SUBSET Drawn, Draw(kinds) PROVE quiet' \in [Drawn -> Nat]
    BY <2>1 DEF Draw
  <2>2. ASSUME NEW loop \in Loops, Publish(loop) PROVE stray' \in [Loops -> Nat]
    BY <2>2 DEF Publish
  <2>3. ASSUME NEW loop \in Loops, Choose(loop)
        PROVE  bin' \in [Loops -> {"random", "valid"}]
    BY <2>3 DEF Choose, Payload
  <2>4. ASSUME NEW kind \in Drawn, Update(kind)
        PROVE  quiet' \in [Drawn -> Nat] /\ stray' \in [Loops -> Nat]
    BY <2>1, <2>2, <2>4 DEF Update, Loops
  <2>5. CASE Loop
    <3>1. CASE Rest
      <4>1. left' \in Nat
        BY <3>1, Times DEF Rest
      <4> QED  BY <2>0, <3>1, <4>1 DEF Rest, facts, gaps, sending
    <3>2. CASE StartBurst
      <4>1. left' \in Nat /\ due' \in [Changes -> Nat]
        BY <3>2, Times DEF StartBurst
      <4> QED  BY <2>0, <3>2, <4>1 DEF StartBurst, facts, gaps, sending
    <3>3. CASE EndBurst
      <4>1. left' \in Nat
        BY <3>3, Times DEF EndBurst
      <4> QED  BY <2>0, <3>3, <4>1 DEF EndBurst, facts, gaps, sending
    <3>4. CASE SkipTick
      BY <2>0, <3>4 DEF SkipTick, facts, gaps, sending
    <3>5. CASE TakeTick
      <4>1. bin' \in [Loops -> {"random", "valid"}]
        BY <2>3, <3>5 DEF TakeTick, Loops
      <4>2. nextFull' \in Nat
        BY <2>0, <3>5, Times DEF TakeTick
      <4> QED  BY <2>0, <3>5, <4>1, <4>2 DEF TakeTick, facts, gaps
    <3>6. CASE PublishFull
      <4>1. quiet' \in [Drawn -> Nat] /\ stray' \in [Loops -> Nat]
        BY <2>4, <3>6 DEF PublishFull, Drawn
      <4>2. bin' \in [Loops -> {"random", "valid"}]
        BY <2>3, <3>6 DEF PublishFull, Loops
      <4>3. sinceFull' \in 0..MinGap /\ shortest' \in 0..MinGap
        BY <2>0, <3>6, Times DEF PublishFull
      <4> QED  BY <2>0, <3>6, <4>1, <4>2, <4>3 DEF PublishFull, timers, facts
    <3>7. CASE PublishScene
      <4>1. quiet' \in [Drawn -> Nat] /\ stray' \in [Loops -> Nat]
        BY <2>4, <3>7 DEF PublishScene, Drawn
      <4> QED  BY <2>0, <3>7, <4>1 DEF PublishScene, timers, facts, gaps
    <3>8. CASE ChangePage \/ ChangeFile
      <4>1. quiet' \in [Drawn -> Nat]
        BY <2>1, <3>8 DEF ChangePage, ChangeFile, Make, Drawn, Changes
      <4>2. board' \in {"burst", "file"} /\ (board' = "file" => "file" \in open')
        BY <3>8 DEF ChangePage, ChangeFile, Due, Make
      <4> QED  BY <2>0, <3>8, <4>1, <4>2
               DEF ChangePage, ChangeFile, Make, timers, facts, gaps, sending
    <3>9. CASE Leave
      BY <2>0, <3>9 DEF Leave, timers, facts, gaps, sending
    <3> QED  BY <2>5, <3>1, <3>2, <3>3, <3>4, <3>5, <3>6, <3>7, <3>8, <3>9 DEF Loop
  <2>6. CASE Pointers
    <3>1. CASE Watch
      BY <3>1 DEF Watch, drawing, timers, facts, gaps
    <3>2. CASE StopWatching
      BY <3>2 DEF StopWatching, drawing, timers, facts, gaps
    <3>3. CASE TakePointerTick
      <4>1. bin' \in [Loops -> {"random", "valid"}]
        BY <2>3, <3>3 DEF TakePointerTick, Loops
      <4> QED  BY <3>3, <4>1 DEF TakePointerTick, drawing, timers, facts, gaps
    <3>4. CASE PublishPointer
      <4>1. stray' \in [Loops -> Nat]
        BY <2>2, <3>4 DEF PublishPointer, Loops
      <4> QED  BY <3>4, <4>1 DEF PublishPointer, drawing, timers, facts, gaps
    <3>5. CASE LeavePointers
      BY <3>5 DEF LeavePointers, drawing, timers, facts, gaps
    <3> QED  BY <2>6, <3>1, <3>2, <3>3, <3>4, <3>5 DEF Pointers
  <2>7. CASE Elapse
    <3>1. late' \in 0..MaxLag
      BY <2>7, Times DEF Elapse
    <3>2. left' \in Nat /\ nextFull' \in Nat /\ due' \in [Changes -> Nat]
      BY <2>7 DEF Elapse, Less
    <3>3. sinceFull' \in 0..MinGap /\ sceneDue' \in BOOLEAN
      BY <2>7, Times DEF Elapse
    <3> QED  BY <2>7, <3>1, <3>2, <3>3 DEF Elapse, facts, sending
  <2>8. CASE Outside
    <3>1. CASE PresenterTold
      BY <3>1 DEF PresenterTold, None, timers, gaps, sending
    <3>2. CASE RealUserJoins
      BY <3>2 DEF RealUserJoins, timers, gaps, sending
    <3>3. CASE RealUserListed
      BY <3>3 DEF RealUserListed, timers, gaps, sending
    <3>4. CASE EndContext
      BY <3>4 DEF EndContext, timers, gaps, sending
    <3> QED  BY <2>8, <3>1, <3>2, <3>3, <3>4 DEF Outside
  <2>9. CASE UNCHANGED boardVars
    BY <2>9 DEF boardVars, drawing, timers, facts, gaps, sending
  <2> QED  BY <2>5, <2>6, <2>7, <2>8, <2>9 DEF BoardNext
<1> QED  BY <1>1, <1>2, PTL DEF BoardSpec

-------------------------------------------------------------------------------
(***************************************************************************)
(* What a demoted user may still draw: nothing of a kind it has drawn once *)
(* since, and of the others only what the burst it was demoted in has      *)
(* begun, or its changes that are still open.                              *)
(***************************************************************************)
QuietInv ==
  ~presenter =>
    /\ quiet["full"] <= 1 /\ (board = "full" => quiet["full"] = 0)
    /\ quiet["scene"] <= 1 /\ (board \in {"full", "scene"} => quiet["scene"] = 0)
    /\ \A change \in Changes :
         /\ quiet[change] <= 1
         /\ board \in {"burst", "full", "scene", "file"} /\ change \in open
              => quiet[change] = 0

(***************************************************************************)
(* A demoted user falls quiet, whatever was going on in its loops.         *)
(***************************************************************************)
THEOREM DemotionFallsQuiet == BoardSpec => []QuietAfterDemotion
<1>1. BoardInit => QuietInv
  BY DEF BoardInit, QuietInv, None, Drawn, Changes
<1>2. BoardTypeOK /\ QuietInv /\ [BoardNext]_boardVars => QuietInv'
  <2> SUFFICES ASSUME BoardTypeOK, QuietInv, [BoardNext]_boardVars, ~presenter'
               PROVE  QuietInv'
    BY DEF QuietInv
  <2> USE DEF QuietInv
  <2>0. quiet \in [Drawn -> Nat] /\ presenter \in BOOLEAN
    BY DEF BoardTypeOK
  <2>1. CASE Loop
    <3>0. presenter' = presenter
      BY <2>1 DEF Loop, Rest, StartBurst, EndBurst, SkipTick, TakeTick, PublishFull,
           PublishScene, ChangePage, ChangeFile, Make, Leave, facts
    <3>1. CASE Rest \/ EndBurst \/ SkipTick \/ Leave
      BY <3>0, <3>1 DEF Rest, EndBurst, SkipTick, Leave
    <3>2. CASE StartBurst \/ TakeTick
      BY <3>0, <3>2 DEF StartBurst, TakeTick
    <3>3. CASE PublishFull
      <4>1. \A kind \in Drawn \ {"full"} : quiet'[kind] = quiet[kind]
        BY <3>3, <2>0 DEF PublishFull, Update, Draw
      <4>2. quiet'["full"] <= quiet["full"] + 1
        BY <3>3, <2>0 DEF PublishFull, Update, Draw, Drawn
      <4> QED  BY <3>0, <3>3, <4>1, <4>2, <2>0 DEF PublishFull, Drawn, Changes
    <3>4. CASE PublishScene
      <4>1. \A kind \in Drawn \ {"scene"} : quiet'[kind] = quiet[kind]
        BY <3>4, <2>0 DEF PublishScene, Update, Draw
      <4>2. quiet'["scene"] <= quiet["scene"] + 1
        BY <3>4, <2>0 DEF PublishScene, Update, Draw, Drawn
      <4> QED  BY <3>0, <3>4, <4>1, <4>2, <2>0 DEF PublishScene, Drawn, Changes
    <3>5. ASSUME NEW change \in Changes, Make(change), change \in open,
                 board \in {"burst", "file"}, board' \in {"burst", "file"}
          PROVE  QuietInv'
      <4>1. \A kind \in Drawn \ {change} : quiet'[kind] = quiet[kind]
        BY <3>5, <2>0 DEF Make, Draw
      <4>2. quiet[change] = 0 /\ quiet'[change] <= quiet[change] + 1
        <5>1. quiet[change] = 0
          BY <3>0, <3>5
        <5>2. change \in Drawn
          BY DEF Drawn
        <5>3. quiet'[change] = quiet[change] \/ quiet'[change] = quiet[change] + 1
          BY <3>5, <5>2, <2>0 DEF Make, Draw
        <5> QED  BY <5>1, <5>3
      <4>3. change \notin open' /\ open' \subseteq open
        BY <3>5 DEF Make
      <4>4. ASSUME NEW other \in Changes, other # change
            PROVE  quiet'[other] = quiet[other]
        BY <4>1, <4>4 DEF Drawn
      <4>5. \A other \in Changes :
              /\ quiet'[other] <= 1
              /\ other \in open' => quiet'[other] = 0
        BY <3>0, <3>5, <4>2, <4>3, <4>4
      <4>6. quiet'["full"] = quiet["full"] /\ quiet'["scene"] = quiet["scene"]
        BY <4>1, <3>5 DEF Drawn, Changes
      <4>7. quiet["full"] <= 1 /\ quiet["scene"] <= 1
        BY <3>0
      <4>8. board' # "full" /\ board' # "scene"
        BY <3>5
      <4> HIDE DEF QuietInv
      <4> QED  BY <4>5, <4>6, <4>7, <4>8 DEF QuietInv
    <3>6. CASE ChangePage
      BY <3>5, <3>6 DEF ChangePage, Turn, Due, Changes
    <3>7. CASE ChangeFile
      <4>1. "file" \in open
        BY <3>7 DEF ChangeFile, Due, BoardTypeOK
      <4> QED  BY <3>5, <3>7, <4>1 DEF ChangeFile, Turn, Changes
    <3> QED  BY <2>1, <3>1, <3>2, <3>3, <3>4, <3>6, <3>7 DEF Loop
  <2>2. CASE Pointers
    BY <2>2 DEF Pointers, Watch, StopWatching, TakePointerTick, PublishPointer,
         LeavePointers, drawing, facts
  <2>3. CASE Elapse
    BY <2>3 DEF Elapse, facts
  <2>4. CASE PresenterTold
    BY <2>4 DEF PresenterTold, None, Drawn, Changes
  <2>5. CASE RealUserJoins \/ RealUserListed \/ EndContext
    BY <2>5 DEF RealUserJoins, RealUserListed, EndContext
  <2>6. CASE UNCHANGED boardVars
    BY <2>6 DEF boardVars, drawing, facts
  <2> QED  BY <2>1, <2>2, <2>3, <2>4, <2>5, <2>6 DEF BoardNext, Outside
<1>3. BoardTypeOK /\ QuietInv => QuietAfterDemotion
  BY DEF BoardTypeOK, QuietInv, QuietAfterDemotion, Drawn
<1> QED  BY <1>1, <1>2, <1>3, BoardTypeCorrect, PTL DEF BoardSpec

-------------------------------------------------------------------------------
(***************************************************************************)
(* The next full state is never nearer to the last one than the lag        *)
(* allows; while one is being sent, its successor's deadline has lost no   *)
(* more than the time the loop has been behind since it decided.           *)
(***************************************************************************)
SpacingInv ==
  /\ FullStatesSpaced
  /\ sinceFull + nextFull >= MinGap - MaxLag
  /\ board = "full" => /\ sinceFull >= MinGap - MaxLag
                       /\ nextFull + late >= MinGap

(***************************************************************************)
(* Full states keep their distance, whatever pauses between them.          *)
(***************************************************************************)
THEOREM SpacingHolds == BoardSpec => []FullStatesSpaced
<1> USE Times DEF SpacingInv, FullStatesSpaced
<1>1. BoardInit => SpacingInv
  BY DEF BoardInit
<1>2. BoardTypeOK /\ SpacingInv /\ [BoardNext]_boardVars => SpacingInv'
  <2> SUFFICES ASSUME BoardTypeOK, SpacingInv, [BoardNext]_boardVars
               PROVE  SpacingInv'
    OBVIOUS
  <2>0. /\ sinceFull \in 0..MinGap /\ shortest \in 0..MinGap /\ nextFull \in Nat
        /\ late \in 0..MaxLag
    BY DEF BoardTypeOK
  <2>1. CASE TakeTick
    <3>1. CASE nextFull = 0
      BY <2>0, <2>1, <3>1 DEF TakeTick, gaps
    <3>2. CASE nextFull # 0
      BY <2>0, <2>1, <3>2 DEF TakeTick, gaps
    <3> QED  BY <3>1, <3>2
  <2>2. CASE Elapse
    BY <2>0, <2>2 DEF Elapse, Less, Behind
  <2>3. CASE PublishFull
    BY <2>0, <2>3 DEF PublishFull, timers
  <2>7. CASE Loop /\ ~TakeTick /\ ~PublishFull
    BY <2>7 DEF Loop, Rest, StartBurst, EndBurst, SkipTick, PublishScene,
         ChangePage, ChangeFile, Make, Leave, gaps, timers
  <2>4. CASE Pointers
    BY <2>4 DEF Pointers, Watch, StopWatching, TakePointerTick, PublishPointer,
         LeavePointers, drawing, gaps, timers
  <2>5. CASE Outside
    BY <2>5 DEF Outside, PresenterTold, RealUserJoins, RealUserListed, EndContext,
         gaps, timers
  <2>6. CASE UNCHANGED boardVars
    BY <2>6 DEF boardVars, drawing, gaps, timers
  <2> QED  BY <2>1, <2>2, <2>3, <2>4, <2>5, <2>6, <2>7 DEF BoardNext
<1>3. SpacingInv => FullStatesSpaced
  OBVIOUS
<1> QED  BY <1>1, <1>2, <1>3, BoardTypeCorrect, PTL DEF BoardSpec

-------------------------------------------------------------------------------
(***************************************************************************)
(* A loop that has chosen an invalid payload before a real user was listed *)
(* has not sent one since.                                                 *)
(***************************************************************************)
Sends(loop) == IF loop = "board" THEN board \in {"full", "scene"} ELSE pointer = "sending"
StrayInv ==
  \A loop \in Loops :
    /\ real # "listed" => stray[loop] = 0
    /\ stray[loop] <= 1
    /\ Sends(loop) /\ bin[loop] = "random" => stray[loop] = 0

(***************************************************************************)
(* Once a real user was listed, invalid updates stop.                      *)
(***************************************************************************)
THEOREM InvalidStops == BoardSpec => []InvalidUpdatesStop
<1>1. BoardInit => StrayInv
  BY DEF BoardInit, StrayInv
<1>2. BoardTypeOK /\ StrayInv /\ [BoardNext]_boardVars => StrayInv'
  <2> SUFFICES ASSUME BoardTypeOK, StrayInv, [BoardNext]_boardVars, NEW loop \in Loops
               PROVE  /\ real' # "listed" => stray'[loop] = 0
                      /\ stray'[loop] <= 1
                      /\ Sends(loop)' /\ bin'[loop] = "random" => stray'[loop] = 0
    BY DEF StrayInv, Sends
  <2>0. /\ stray \in [Loops -> Nat] /\ bin \in [Loops -> {"random", "valid"}]
        /\ real # "listed" => stray[loop] = 0
        /\ stray[loop] <= 1
        /\ Sends(loop) /\ bin[loop] = "random" => stray[loop] = 0
    BY DEF BoardTypeOK, StrayInv
  <2>1. CASE TakeTick
    BY <2>0, <2>1 DEF TakeTick, Choose, Payload, facts, Sends, Loops
  <2>2. CASE PublishFull
    BY <2>0, <2>2 DEF PublishFull, Update, Publish, Choose, Payload, facts, Sends, Loops
  <2>3. CASE PublishScene
    BY <2>0, <2>3 DEF PublishScene, Update, Publish, facts, Sends, Loops
  <2>4. CASE TakePointerTick
    BY <2>0, <2>4 DEF TakePointerTick, Choose, Payload, drawing, facts, Sends, Loops
  <2>5. CASE PublishPointer
    BY <2>0, <2>5 DEF PublishPointer, Publish, drawing, facts, Sends, Loops
  <2>6. CASE \/ Rest \/ StartBurst \/ EndBurst \/ SkipTick
             \/ ChangePage \/ ChangeFile \/ Leave
    BY <2>0, <2>6 DEF Rest, StartBurst, EndBurst, SkipTick, ChangePage, ChangeFile,
         Make, Leave, facts, sending, Sends
  <2>7. CASE Watch \/ StopWatching \/ LeavePointers
    BY <2>0, <2>7 DEF Watch, StopWatching, LeavePointers, drawing, facts, Sends
  <2>8. CASE Elapse \/ Outside
    BY <2>0, <2>8 DEF Elapse, Outside, PresenterTold, RealUserJoins, RealUserListed,
         EndContext, facts, sending, Sends
  <2>9. CASE UNCHANGED boardVars
    BY <2>0, <2>9 DEF boardVars, drawing, facts, sending, Sends
  <2> QED  BY <2>1, <2>2, <2>3, <2>4, <2>5, <2>6, <2>7, <2>8, <2>9
           DEF BoardNext, Loop, Pointers
<1>3. StrayInv => InvalidUpdatesStop
  BY DEF StrayInv, InvalidUpdatesStop
<1> QED  BY <1>1, <1>2, <1>3, BoardTypeCorrect, PTL DEF BoardSpec
===============================================================================
