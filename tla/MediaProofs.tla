------------------------------- MODULE MediaProofs -------------------------------
(***************************************************************************)
(* The mediaLive gauge against the connections, for a room of any size and *)
(* any plan.  A connection is counted in and out by two goroutines that    *)
(* share no critical section with the handle, so a Stop may count out a    *)
(* connection whose Start has not counted it in yet; the gauge is then too *)
(* low until that Start goes on.                                           *)
(*                                                                         *)
(* The plan against the room: flags that are accepted are met.             *)
(***************************************************************************)
EXTENDS Media, FiniteSetTheorems, TLAPS

\* Where the goroutines and the sets of users are, as far as the gauge is concerned.
StateOK ==
  /\ start \in [Users -> {"new", "joining", "connected", "kept", "publishing",
                          "sending", "returned"}]
  /\ stop \in [Users -> {"running", "taken", "disconnected", "stopped"}]
  /\ handle \subseteq Users /\ seen \subseteq Users
  /\ incremented \subseteq Users /\ decremented \subseteq Users
  /\ mediaLive \in Nat

\* What each goroutine has done by where it is.
ProgressInv ==
  \A u \in Users :
    /\ start[u] \in {"new", "joining", "connected"} => u \notin handle /\ u \notin seen
    /\ start[u] \in {"new", "joining", "connected", "kept"} => u \notin incremented
    /\ u \in handle \/ u \in seen => start[u] = "kept" \/ u \in incremented
    /\ stop[u] \in {"taken", "disconnected"} => u \in seen
    /\ u \in decremented => stop[u] = "stopped" /\ u \in seen
    /\ stop[u] = "running" => u \notin seen

\* Connections counted in and not out, and those counted out and not yet in.
InGauge == incremented \ decremented
Owed == {u \in Uncounted : u \in decremented}

GaugeInv == mediaLive >= Cardinality(InGauge) - Cardinality(Owed)

\* Users and all sets of users are finite.
LEMMA UsersAreFinite ==
  ASSUME NEW S \in SUBSET Users
  PROVE  IsFiniteSet(S) /\ Cardinality(S) \in Nat
<1>1. IsFiniteSet(Users)
  BY FS_Interval, MediaAssumption DEF Users
<1> QED  BY <1>1, FS_Subset, FS_CardinalityType

-------------------------------------------------------------------------------
(***************************************************************************)
(* The goroutines and sets of users keep their types and their order.      *)
(***************************************************************************)
THEOREM ProgressHolds == Spec => [](StateOK /\ ProgressInv)
<1>1. Init => StateOK /\ ProgressInv
  BY DEF Init, StateOK, ProgressInv
<1>2. StateOK /\ ProgressInv /\ [Next]_vars => StateOK' /\ ProgressInv'
  <2> SUFFICES ASSUME StateOK, ProgressInv, [Next]_vars
               PROVE  StateOK' /\ ProgressInv'
    OBVIOUS
  <2> USE DEF StateOK, ProgressInv, conn, gauge
  <2>1. ASSUME NEW u \in Users, EndContext(u) \/ LoopEnds(u)
        PROVE  StateOK' /\ ProgressInv'
    BY <2>1 DEF EndContext, LoopEnds
  <2>9. ASSUME NEW u \in Users, Settle(u) \/ PublishTrack(u)
        PROVE  StateOK' /\ ProgressInv'
    <3>1. /\ start[u] \in {"publishing", "sending"}
          /\ \E stage \in {"publishing", "sending"} :
               start' = [start EXCEPT ![u] = stage]
          /\ UNCHANGED <<stop, handle, seen, gauge>>
      BY <2>9 DEF Settle, PublishTrack
    <3> QED  BY <3>1
  <2>2. ASSUME NEW u \in Users, BeginJoin(u) \/ JoinFails(u) \/ JoinRoom(u) \/ StartReturns(u)
        PROVE  StateOK' /\ ProgressInv'
    <3>1. /\ start' \in [Users -> {"new", "joining", "connected", "kept", "publishing",
                                   "sending", "returned"}]
          /\ start'[u] \in {"joining", "connected", "returned"}
          /\ start'[u] # "returned" => start[u] \in {"new", "joining"}
          /\ start[u] # "kept"
          /\ \A v \in Users \ {u} : start'[v] = start[v]
          /\ UNCHANGED <<stop, handle, seen, incremented, decremented, mediaLive>>
      BY <2>2 DEF BeginJoin, JoinFails, JoinRoom, StartReturns
    <3> QED  BY <3>1
  <2>3. ASSUME NEW u \in Users, KeepRoom(u)
        PROVE  StateOK' /\ ProgressInv'
    BY <2>3 DEF KeepRoom
  <2>4. ASSUME NEW u \in Users, MediaLiveInc(u)
        PROVE  StateOK' /\ ProgressInv'
    BY <2>4 DEF MediaLiveInc
  <2>5. ASSUME NEW u \in Users, TakeRoom(u)
        PROVE  StateOK' /\ ProgressInv'
    <3>1. /\ stop[u] = "running" /\ u \notin seen /\ u \notin decremented
          /\ stop' = [stop EXCEPT ![u] = IF u \in handle THEN "taken" ELSE "stopped"]
          /\ handle' = handle \ {u}
          /\ seen' = IF u \in handle THEN seen \cup {u} ELSE seen
          /\ UNCHANGED <<start, incremented, decremented, mediaLive>>
      BY <2>5 DEF TakeRoom
    <3> QED  BY <3>1
  <2>6. ASSUME NEW u \in Users, Disconnect(u)
        PROVE  StateOK' /\ ProgressInv'
    BY <2>6 DEF Disconnect
  <2>7. ASSUME NEW u \in Users, MediaLiveDec(u)
        PROVE  StateOK' /\ ProgressInv'
    BY <2>7 DEF MediaLiveDec
  <2>8. CASE UNCHANGED vars
    BY <2>8 DEF vars
  <2> QED  BY <2>1, <2>2, <2>3, <2>4, <2>5, <2>6, <2>7, <2>8, <2>9
           DEF Next, StartStep, StopStep
<1> QED  BY <1>1, <1>2, PTL DEF Spec

(***************************************************************************)
(* Whatever the interleaving, the gauge never misses a connection once no  *)
(* Start is between setting Room and counting itself.                      *)
(***************************************************************************)
THEOREM GaugeHolds == Spec => []GaugeCoversLive
<1>1. Init => GaugeInv
  <2> SUFFICES ASSUME Init PROVE GaugeInv
    OBVIOUS
  <2>1. InGauge = {} /\ Owed = {} /\ mediaLive = 0
    BY DEF Init, InGauge, Owed
  <2> QED  BY <2>1, FS_EmptySet DEF GaugeInv
<1>2. StateOK /\ ProgressInv /\ GaugeInv /\ [Next]_vars => GaugeInv'
  <2> SUFFICES ASSUME StateOK, ProgressInv, GaugeInv, [Next]_vars
               PROVE  GaugeInv'
    OBVIOUS
  <2> USE DEF conn, gauge
  <2>0. /\ IsFiniteSet(InGauge) /\ Cardinality(InGauge) \in Nat
        /\ IsFiniteSet(Owed) /\ Cardinality(Owed) \in Nat /\ mediaLive \in Nat
    BY UsersAreFinite DEF StateOK, InGauge, Owed, Uncounted
  <2>1. ASSUME NEW u \in Users, MediaLiveInc(u)
        PROVE  GaugeInv'
    <3>1. /\ start[u] = "kept" /\ u \notin incremented /\ mediaLive' = mediaLive + 1
          /\ incremented' = incremented \cup {u} /\ decremented' = decremented
          /\ start' = [start EXCEPT ![u] = "publishing"]
      BY <2>1 DEF MediaLiveInc, ProgressInv
    <3>2. Owed' = Owed \ {u}
      BY <3>1 DEF Owed, Uncounted, StateOK
    <3>3. CASE u \in decremented
      <4>1. InGauge' = InGauge /\ u \in Owed
        BY <3>1, <3>3 DEF InGauge, Owed, Uncounted
      <4>2. Cardinality(Owed') = Cardinality(Owed) - 1
        BY <2>0, <3>2, <4>1, FS_RemoveElement
      <4> QED  BY <2>0, <3>1, <4>1, <4>2 DEF GaugeInv
    <3>4. CASE u \notin decremented
      <4>1. InGauge' = InGauge \cup {u} /\ u \notin InGauge /\ Owed' = Owed
        BY <3>1, <3>2, <3>4 DEF InGauge, Owed
      <4>2. Cardinality(InGauge') = Cardinality(InGauge) + 1
        BY <2>0, <4>1, FS_AddElement
      <4> QED  BY <2>0, <3>1, <4>1, <4>2 DEF GaugeInv
    <3> QED  BY <3>3, <3>4
  <2>2. ASSUME NEW u \in Users, MediaLiveDec(u)
        PROVE  GaugeInv'
    <3>1. /\ mediaLive' >= mediaLive - 1 /\ mediaLive' \in Nat
          /\ decremented' = decremented \cup {u}
          /\ UNCHANGED <<incremented, start>>
      BY <2>0, <2>2 DEF MediaLiveDec
    <3>2. u \notin decremented /\ (start[u] = "kept" \/ u \in incremented)
      BY <2>2 DEF MediaLiveDec, ProgressInv
    <3>3. InGauge' = InGauge \ {u}
      BY <3>1 DEF InGauge
    <3>4. CASE u \in incremented
      <4>1. u \in InGauge /\ start[u] # "kept"
        BY <3>2, <3>4 DEF InGauge, ProgressInv
      <4>2. Owed' = Owed
        BY <3>1, <4>1 DEF Owed, Uncounted
      <4>3. Cardinality(InGauge') = Cardinality(InGauge) - 1
        BY <2>0, <3>3, <4>1, FS_RemoveElement
      <4> QED  BY <2>0, <3>1, <4>2, <4>3 DEF GaugeInv
    <3>5. CASE u \notin incremented
      <4>1. Owed' = Owed \cup {u} /\ u \notin Owed /\ InGauge' = InGauge
        BY <3>1, <3>2, <3>3, <3>5 DEF Owed, Uncounted, InGauge
      <4>2. Cardinality(Owed') = Cardinality(Owed) + 1
        BY <2>0, <4>1, FS_AddElement
      <4> QED  BY <2>0, <3>1, <4>1, <4>2 DEF GaugeInv
    <3> QED  BY <3>4, <3>5
  <2>3. ASSUME NEW u \in Users, KeepRoom(u)
        PROVE  GaugeInv'
    <3>1. /\ UNCHANGED gauge /\ u \notin decremented
          /\ start' = [start EXCEPT ![u] = "kept"]
      BY <2>3 DEF KeepRoom, ProgressInv
    <3>2. InGauge' = InGauge /\ Owed' = Owed
      BY <2>3, <3>1 DEF InGauge, Owed, Uncounted, StateOK, KeepRoom
    <3> QED  BY <3>1, <3>2 DEF GaugeInv
  <2>4. ASSUME NEW u \in Users,
               \/ BeginJoin(u) \/ JoinFails(u) \/ JoinRoom(u) \/ StartReturns(u)
               \/ EndContext(u) \/ Settle(u) \/ PublishTrack(u)
               \/ LoopEnds(u) \/ TakeRoom(u) \/ Disconnect(u)
        PROVE  GaugeInv'
    <3>1. UNCHANGED gauge /\ Uncounted' = Uncounted
      BY <2>4 DEF BeginJoin, JoinFails, JoinRoom, StartReturns, EndContext, Settle,
           PublishTrack, LoopEnds, TakeRoom, Disconnect, Uncounted, StateOK
    <3>2. InGauge' = InGauge /\ Owed' = Owed
      BY <3>1 DEF InGauge, Owed
    <3> QED  BY <3>1, <3>2 DEF GaugeInv
  <2>5. CASE UNCHANGED vars
    BY <2>5 DEF vars, GaugeInv, InGauge, Owed, Uncounted
  <2> QED  BY <2>1, <2>2, <2>3, <2>4, <2>5 DEF Next, StartStep, StopStep
<1>3. StateOK /\ ProgressInv /\ GaugeInv => GaugeCoversLive
  <2> SUFFICES ASSUME StateOK, ProgressInv, GaugeInv, Uncounted = {}
               PROVE  mediaLive >= Cardinality({u \in online \cap incremented : u \notin seen})
    BY DEF GaugeCoversLive
  <2> DEFINE live == {u \in online \cap incremented : u \notin seen}
  <2>1. live \subseteq InGauge /\ InGauge \subseteq Users /\ live \subseteq Users
    BY DEF StateOK, ProgressInv, InGauge
  <2>2. Owed = {} /\ Cardinality(Owed) = 0
    BY FS_EmptySet DEF Owed
  <2>3. Cardinality(live) <= Cardinality(InGauge) /\ IsFiniteSet(live)
    BY <2>1, UsersAreFinite, FS_Subset
  <2>4. Cardinality(live) \in Nat /\ Cardinality(InGauge) \in Nat /\ mediaLive \in Nat
    BY <2>1, UsersAreFinite DEF StateOK
  <2> QED  BY <2>2, <2>3, <2>4 DEF GaugeInv
<1> QED  BY <1>1, <1>2, <1>3, ProgressHolds, PTL DEF Spec

-------------------------------------------------------------------------------
(* The media plan.                                                         *)

\* What Validate leaves to build on: the cohorts fit into each other and the room.
PlanOK ==
  /\ plan.users \in 0..MaxUsers
  /\ plan.video \in Nat /\ plan.audio \in Nat
  /\ plan.subscribers \in (plan.video + plan.audio)..plan.users
  /\ plan.mode = "none" => plan.subscribers = 0

LEMMA AcceptedPlansAreOK ==
  ASSUME NEW p \in Flags, Accepted(p), plan = Resolved(p)
  PROVE  PlanOK
<1>1. /\ p \in [mode : Modes, users : 0..MaxUsers, video : Int, audio : Int,
                subscribers : Int]
      /\ MaxUsers \in Nat
  BY MediaAssumption
<1>2. CASE p.mode # "none" /\ p.subscribers = 0
  <2>1. /\ plan.users = p.users /\ plan.video = p.video /\ plan.audio = p.audio
        /\ plan.subscribers = p.users /\ plan.mode = p.mode
    BY <1>1, <1>2 DEF Resolved
  <2> QED  BY <1>1, <1>2, <2>1 DEF Accepted, Publishers, PlanOK
<1>3. CASE ~(p.mode # "none" /\ p.subscribers = 0)
  BY <1>1, <1>3 DEF Accepted, Publishers, PlanOK, Resolved
<1> QED  BY <1>2, <1>3

LEMMA IntervalSize ==
  ASSUME NEW a \in Nat, NEW n \in Nat
  PROVE  Cardinality(0..(n - 1)) = n /\ Cardinality(a..(a + n - 1)) = n
<1>1. Cardinality(0..(n - 1)) = IF 0 > n - 1 THEN 0 ELSE (n - 1) - 0 + 1
  BY FS_Interval
<1>2. Cardinality(a..(a + n - 1)) = IF a > a + n - 1 THEN 0 ELSE (a + n - 1) - a + 1
  BY FS_Interval
<1> QED  BY <1>1, <1>2

(***************************************************************************)
(* The cohorts of a room are intervals of its users, as long as the plan   *)
(* says.                                                                   *)
(***************************************************************************)
LEMMA CohortsAreIntervals ==
  ASSUME PlanOK
  PROVE  /\ Cardinality({u \in Users : Role(u) = "video"}) = plan.video
         /\ Cardinality({u \in Users : Role(u) = "audio"}) = plan.audio
         /\ Cardinality(Members) = plan.subscribers
<1> USE MediaAssumption DEF PlanOK, Users, Role, MediaRole, Publishers
<1>1. {u \in Users : Role(u) = "video"} = 0..(plan.video - 1)
  OBVIOUS
<1>2. {u \in Users : Role(u) = "audio"} = plan.video..(plan.video + plan.audio - 1)
  OBVIOUS
<1>3. Members = 0..(plan.subscribers - 1)
  BY DEF Members
<1>4. /\ plan.video \in Nat /\ plan.audio \in Nat /\ plan.subscribers \in Nat
  OBVIOUS
<1> HIDE DEF PlanOK, Users, Role, MediaRole, Publishers
<1>5. Cardinality(0..(plan.video - 1)) = plan.video
  BY <1>4, IntervalSize
<1>6. Cardinality(plan.video..(plan.video + plan.audio - 1)) = plan.audio
  BY <1>4, IntervalSize
<1>7. Cardinality(0..(plan.subscribers - 1)) = plan.subscribers
  BY <1>4, IntervalSize
<1> QED  BY <1>1, <1>2, <1>3, <1>5, <1>6, <1>7

\* Only members connect, and each publishes at most what its role has.
ServedInv ==
  /\ PlanOK
  /\ start \in [Users -> {"new", "joining", "connected", "kept", "publishing",
                          "sending", "returned"}]
  /\ \A u \in Users : start[u] = "joining" => u \in Members
  /\ online \subseteq Members
  /\ published \in [Users -> Nat]
  /\ \A u \in Users :
       /\ published[u] <= Tracks(u)
       /\ start[u] = "sending" => published[u] < Tracks(u)

(***************************************************************************)
(* The tracks of a room are two per video publisher and one per audio      *)
(* publisher, at most.                                                     *)
(***************************************************************************)
LEMMA TracksAreOfPublishers ==
  ASSUME ServedInv
  PROVE  Cardinality(PublishedTracks) <= 2 * plan.video + plan.audio
<1> DEFINE V == {u \in Users : Role(u) = "video"}
           A == {u \in Users : Role(u) = "audio"}
           twice == V \X (1..2)
           once == A \X (1..1)
<1>1. /\ IsFiniteSet(V) /\ Cardinality(V) = plan.video /\ plan.video \in Nat
      /\ IsFiniteSet(A) /\ Cardinality(A) = plan.audio /\ plan.audio \in Nat
  BY UsersAreFinite, FS_Subset, CohortsAreIntervals DEF ServedInv, PlanOK
<1>2. /\ IsFiniteSet(1..2) /\ Cardinality(1..2) = 2
      /\ IsFiniteSet(1..1) /\ Cardinality(1..1) = 1
  <2>1. 1..2 = {1} \cup {2} /\ 1..1 = {1}
    OBVIOUS
  <2>2. IsFiniteSet({1}) /\ Cardinality({1}) = 1
    BY FS_Singleton
  <2>3. IsFiniteSet({1} \cup {2}) /\ Cardinality({1} \cup {2}) = 1 + 1
    BY <2>2, FS_AddElement
  <2> QED  BY <2>1, <2>2, <2>3
<1>3. /\ IsFiniteSet(twice) /\ Cardinality(twice) = plan.video * 2
      /\ IsFiniteSet(once) /\ Cardinality(once) = plan.audio * 1
  <2> HIDE DEF V, A
  <2>1. IsFiniteSet(twice) /\ Cardinality(twice) = Cardinality(V) * Cardinality(1..2)
    BY <1>1, <1>2, FS_Product
  <2>2. IsFiniteSet(once) /\ Cardinality(once) = Cardinality(A) * Cardinality(1..1)
    BY <1>1, <1>2, FS_Product
  <2> QED  BY <1>1, <1>2, <2>1, <2>2
<1>4. PublishedTracks \subseteq twice \cup once
  <2> SUFFICES ASSUME NEW u \in Users, NEW i \in 1..published[u]
               PROVE  <<u, i>> \in twice \cup once
    BY DEF PublishedTracks
  <2>1. published[u] \in Nat /\ published[u] <= TracksOf(Role(u)) /\ i \in Nat
    BY DEF ServedInv, Tracks
  <2>2. CASE Role(u) = "video"
    BY <2>1, <2>2 DEF TracksOf
  <2>3. CASE Role(u) = "audio"
    BY <2>1, <2>3 DEF TracksOf
  <2>4. CASE Role(u) \notin {"video", "audio"}
    BY <2>1, <2>4 DEF TracksOf
  <2> QED  BY <2>2, <2>3, <2>4
<1>5. /\ IsFiniteSet(twice \cup once)
      /\ Cardinality(twice \cup once)
           = Cardinality(twice) + Cardinality(once) - Cardinality(twice \cap once)
      /\ Cardinality(twice \cap once) \in Nat
  BY <1>3, FS_Union, FS_Intersection, FS_CardinalityType
<1>6. /\ Cardinality(PublishedTracks) <= Cardinality(twice \cup once)
      /\ Cardinality(PublishedTracks) \in Nat
  BY <1>4, <1>5, FS_Subset, FS_CardinalityType
<1> HIDE DEF twice, once
<1> QED  BY <1>1, <1>3, <1>5, <1>6

(***************************************************************************)
(* Flags that are accepted are met, for rooms of any size: each cohort is  *)
(* as large as the plan says, only members connect, nobody does without a  *)
(* media mode, and no more tracks are published than the plan has          *)
(* (plan.go:17-70, engine.go:43-56, media.go:263-326).                     *)
(***************************************************************************)
THEOREM PlanHolds == Spec => []PlanIsMet
<1>1. Init => ServedInv
  <2> SUFFICES ASSUME Init PROVE ServedInv
    OBVIOUS
  <2>1. PlanOK
    BY AcceptedPlansAreOK DEF Init
  <2> QED  BY <2>1 DEF Init, ServedInv, Tracks, TracksOf
<1>2. ServedInv /\ [Next]_vars => ServedInv'
  <2> SUFFICES ASSUME ServedInv, [Next]_vars PROVE ServedInv'
    OBVIOUS
  <2> USE DEF ServedInv, conn, gauge
  <2>1. UNCHANGED plan
    BY DEF Next, StartStep, StopStep, EndContext, BeginJoin, JoinFails, JoinRoom,
           KeepRoom, MediaLiveInc, Settle, PublishTrack, StartReturns, TakeRoom,
           Disconnect, MediaLiveDec, LoopEnds, vars
  <2>2. /\ PlanOK' /\ Members' = Members
        /\ \A u \in Users : Tracks(u)' = Tracks(u)
    BY <2>1 DEF PlanOK, Members, Tracks, Role
  <2>3. ASSUME NEW u \in Users,
               \/ BeginJoin(u) \/ JoinFails(u) \/ JoinRoom(u) \/ KeepRoom(u)
               \/ MediaLiveInc(u) \/ Settle(u) \/ StartReturns(u)
        PROVE  ServedInv'
    BY <2>2, <2>3 DEF BeginJoin, JoinFails, JoinRoom, KeepRoom, MediaLiveInc, Settle,
                      StartReturns
  <2>4. ASSUME NEW u \in Users, PublishTrack(u) PROVE ServedInv'
    <3>1. /\ published' = [published EXCEPT ![u] = @ + 1]
          /\ published[u] < Tracks(u) /\ Tracks(u) \in Nat
          /\ start' = [start EXCEPT ![u] = "publishing"] /\ UNCHANGED online
      BY <2>4 DEF PublishTrack, Tracks, TracksOf
    <3> QED  BY <2>2, <3>1
  <2>5. ASSUME NEW u \in Users, EndContext(u) \/ StopStep(u) \/ LoopEnds(u)
        PROVE  ServedInv'
    BY <2>2, <2>5 DEF EndContext, StopStep, TakeRoom, Disconnect, MediaLiveDec, LoopEnds
  <2>6. CASE UNCHANGED vars
    BY <2>2, <2>6 DEF vars
  <2> QED  BY <2>3, <2>4, <2>5, <2>6 DEF Next, StartStep
<1>3. ServedInv => PlanIsMet
  <2> SUFFICES ASSUME ServedInv PROVE PlacesAreMet
    BY TracksAreOfPublishers DEF PlanIsMet
  <2>1. plan.mode = "none" => online = {}
    BY MediaAssumption
       DEF ServedInv, PlanOK, Members, Role, MediaRole, Publishers, Users
  <2> QED  BY <2>1, CohortsAreIntervals DEF ServedInv, PlacesAreMet
<1> QED  BY <1>1, <1>2, <1>3, PTL DEF Spec
===============================================================================
