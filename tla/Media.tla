-------------------------------- MODULE Media --------------------------------
(***************************************************************************)
(* media.Connection: each user's LiveKit connection is started by a        *)
(* goroutine of its own (Start) and stopped by the user's main goroutine   *)
(* (Stop) once the user's context has ended, whatever Start has reached by *)
(* then.  The two share Room, cancel and closed under Connection.mu, and   *)
(* all connections of a room share the collector's mediaLive gauge, which  *)
(* is not touched in the same critical section as Room.  Who of a room     *)
(* has a connection, and what it publishes, the media plan says.           *)
(***************************************************************************)
EXTENDS Integers, FiniteSets, Plan

CONSTANTS MaxUsers,    \* users of a room, at most
          Flags        \* the media flags a run may be started with

ASSUME MediaAssumption ==
  /\ MaxUsers \in Nat
  /\ Flags \subseteq [mode : Modes, users : 0..MaxUsers, video : Int,
                     audio : Int, subscribers : Int]

Users == 0..(MaxUsers - 1)   \* by uIdx

VARIABLES plan,        \* the run's resolved plan
          ctxDone,     \* users whose context (and with it lctx) has ended
          start,       \* where each Start goroutine is
          stop,        \* where each user's main goroutine is
          handle,      \* users whose Connection.Room is set
          closed,      \* users whose Connection.closed is set
          seen,        \* users whose Stop found Room set
          online,      \* users with an open LiveKit room
          published,   \* tracks each user has published so far
          looping,     \* users whose frame and stats loops run
          mediaLive,   \* Collector.mediaLive of the room
          incremented, decremented   \* history: users counted in, counted out

conn == <<handle, closed, seen, online>>
gauge == <<mediaLive, incremented, decremented>>
vars == <<plan, ctxDone, start, stop, conn, published, looping, gauge>>

Role(u) == IF u < plan.users THEN MediaRole(plan, u) ELSE "core"
Members == {u \in Users : Role(u) # "core"}   \* users with a media.Connection
Tracks(u) == TracksOf(Role(u))

Init ==
  /\ plan \in {Resolved(p) : p \in {q \in Flags : Accepted(q)}}
  /\ ctxDone = {} /\ handle = {} /\ closed = {} /\ seen = {} /\ online = {}
  /\ looping = {} /\ incremented = {} /\ decremented = {}
  /\ start = [u \in Users |-> "new"]
  /\ stop = [u \in Users |-> "running"]
  /\ published = [u \in Users |-> 0]
  /\ mediaLive = 0

\* The run window expires, the churn loop cancels, or the ping loop gives up.
EndContext(u) ==
  /\ u \in Members \ ctxDone
  /\ ctxDone' = ctxDone \cup {u}
  /\ UNCHANGED <<plan, start, stop, conn, published, looping, gauge>>

(***************************************************************************)
(* Start: join (the SDK refuses a context that has ended, and aborts with  *)
(* it unless it has just succeeded), keep the handle, count the            *)
(* connection, publish, and leave the loops behind.                        *)
(***************************************************************************)
BeginJoin(u) ==
  /\ start[u] = "new" /\ u \in Members \ ctxDone
  /\ start' = [start EXCEPT ![u] = "joining"]
  /\ UNCHANGED <<plan, ctxDone, stop, conn, published, looping, gauge>>

JoinFails(u) ==
  /\ start[u] = "joining" \/ (start[u] = "new" /\ u \in ctxDone)
  /\ start' = [start EXCEPT ![u] = "returned"]
  /\ UNCHANGED <<plan, ctxDone, stop, conn, published, looping, gauge>>

JoinRoom(u) ==
  /\ start[u] = "joining"
  /\ start' = [start EXCEPT ![u] = "connected"]
  /\ online' = online \cup {u}
  /\ UNCHANGED <<plan, ctxDone, stop, handle, closed, seen, published, looping, gauge>>

KeepRoom(u) ==
  /\ start[u] = "connected"
  /\ start' = [start EXCEPT ![u] = "kept"]
  /\ handle' = handle \cup {u}
  /\ UNCHANGED <<plan, ctxDone, stop, closed, seen, online, published, looping, gauge>>

MediaLiveInc(u) ==
  /\ start[u] = "kept"
  /\ start' = [start EXCEPT ![u] = "publishing"]
  /\ mediaLive' = mediaLive + 1
  /\ incremented' = incremented \cup {u}
  /\ UNCHANGED <<plan, ctxDone, stop, conn, published, looping, decremented>>

Closing(u) == u \in ctxDone \/ u \in closed

(***************************************************************************)
(* One turn of publish: settle, and unless the user is closing by then,    *)
(* take up the handle; then put a track into the room and start its frame  *)
(* loop, though Stop may have come in between.                             *)
(***************************************************************************)
Settle(u) ==
  /\ start[u] = "publishing" /\ published[u] < Tracks(u)
  /\ ~Closing(u) /\ u \in handle
  /\ start' = [start EXCEPT ![u] = "sending"]
  /\ UNCHANGED <<plan, ctxDone, stop, conn, published, looping, gauge>>

PublishTrack(u) ==
  /\ start[u] = "sending"
  /\ start' = [start EXCEPT ![u] = "publishing"]
  /\ published' = [published EXCEPT ![u] = @ + 1]
  /\ looping' = looping \cup {u}
  /\ UNCHANGED <<plan, ctxDone, stop, conn, gauge>>

\* publish is done, gives up, or fails (the SDK may refuse a track, or the room
\* is gone); statsLoop is started in every case.
StartReturns(u) ==
  /\ start[u] \in {"publishing", "sending"}
  /\ start' = [start EXCEPT ![u] = "returned"]
  /\ looping' = looping \cup {u}
  /\ UNCHANGED <<plan, ctxDone, stop, conn, published, gauge>>

LoopEndsMutant(u) ==
  /\ u \in looping
  /\ u \in closed /\ u \notin handle
  /\ looping' = looping \ {u}
  /\ UNCHANGED <<plan, ctxDone, start, stop, conn, published, gauge>>
LoopEnds(u) ==
  /\ u \in looping
  /\ Closing(u)
  /\ looping' = looping \ {u}
  /\ UNCHANGED <<plan, ctxDone, start, stop, conn, published, gauge>>

(***************************************************************************)
(* Stop: take the handle away and mark the connection closed; if there was *)
(* a handle, disconnect, count the connection out and sleep.  The context  *)
(* has ended long before, so the final cancel changes nothing.             *)
(***************************************************************************)
TakeRoom(u) ==
  /\ stop[u] = "running" /\ u \in ctxDone
  /\ stop' = [stop EXCEPT ![u] = IF u \in handle THEN "taken" ELSE "stopped"]
  /\ handle' = handle \ {u}
  /\ closed' = closed \cup {u}
  /\ seen' = IF u \in handle THEN seen \cup {u} ELSE seen
  /\ UNCHANGED <<plan, ctxDone, start, online, published, looping, gauge>>

Disconnect(u) ==
  /\ stop[u] = "taken"
  /\ stop' = [stop EXCEPT ![u] = "disconnected"]
  /\ online' = online \ {u}
  /\ UNCHANGED <<plan, ctxDone, start, handle, closed, seen, published, looping, gauge>>

MediaLiveDecMutant(u) ==
  /\ stop[u] = "disconnected" \/ (stop[u] = "stopped" /\ u \notin decremented)
  /\ stop' = [stop EXCEPT ![u] = "stopped"]
  /\ mediaLive' = IF mediaLive > 0 THEN mediaLive - 1 ELSE 0
  /\ decremented' = decremented \cup {u}
  /\ UNCHANGED <<plan, ctxDone, start, conn, published, looping, incremented>>
MediaLiveDec(u) ==
  /\ stop[u] = "disconnected"
  /\ stop' = [stop EXCEPT ![u] = "stopped"]
  /\ mediaLive' = IF mediaLive > 0 THEN mediaLive - 1 ELSE 0
  /\ decremented' = decremented \cup {u}
  /\ UNCHANGED <<plan, ctxDone, start, conn, published, looping, incremented>>

StartStep(u) == \/ BeginJoin(u) \/ JoinFails(u) \/ JoinRoom(u) \/ KeepRoom(u)
                \/ MediaLiveInc(u) \/ Settle(u) \/ PublishTrack(u)
                \/ StartReturns(u)
StopStep(u) == TakeRoom(u) \/ Disconnect(u) \/ MediaLiveDec(u)

Next == \E u \in Users :
          EndContext(u) \/ StartStep(u) \/ StopStep(u) \/ LoopEnds(u)

Spec == Init /\ [][Next]_vars

(***************************************************************************)
(* Every goroutine that can run does; contexts need not end, but users     *)
(* whose context ended have their media stopped by their main goroutine.   *)
(***************************************************************************)
FairSpec == Spec /\ \A u \in Users : /\ WF_vars(StartStep(u))
                                     /\ WF_vars(StopStep(u))
                                     /\ WF_vars(LoopEnds(u))

-------------------------------------------------------------------------------
TypeOK ==
  /\ start \in [Users -> {"new", "joining", "connected", "kept", "publishing",
                          "sending", "returned"}]
  /\ stop \in [Users -> {"running", "taken", "disconnected", "stopped"}]
  /\ ctxDone \cup handle \cup online \cup looping \subseteq Users
  /\ closed \subseteq ctxDone /\ seen \subseteq closed
  /\ \A u \in Users : published[u] \in 0..Tracks(u)
  /\ mediaLive \in Nat
  /\ plan \in [mode : Modes, users : 1..MaxUsers, video : Nat, audio : Nat,
              subscribers : 0..MaxUsers]

\* Each cohort is as large as the plan says, and only members connect.
PlacesAreMet ==
  /\ Cardinality({u \in Users : Role(u) = "video"}) = plan.video
  /\ Cardinality({u \in Users : Role(u) = "audio"}) = plan.audio
  /\ Cardinality(Members) = plan.subscribers
  /\ online \subseteq Members
  /\ plan.mode = "none" => online = {}

\* The tracks in the room, by their user and their place among that user's.
PublishedTracks == UNION {{u} \X (1..published[u]) : u \in Users}

(***************************************************************************)
(* Flags that are accepted are met: the publishers asked for all have a    *)
(* place in the room, and whoever joins, no more users connect than are    *)
(* subscribers - none without a media mode - and no more tracks are        *)
(* published than the plan has (plan.go:17-70, engine.go:43-56,            *)
(* media.go:263-326).                                                      *)
(***************************************************************************)
PlanIsMet ==
  /\ PlacesAreMet
  /\ Cardinality(PublishedTracks) <= 2 * plan.video + plan.audio

\* Users between setting Room and counting themselves.
Uncounted == {u \in Users : start[u] = "kept"}

(***************************************************************************)
(* Whatever the interleaving of Start and Stop, the gauge never misses a   *)
(* connection once no Start is between setting Room and counting itself:   *)
(* fan-outs sized with it (media.go:291-294) are not too small for long.   *)
(***************************************************************************)
GaugeCoversLive ==
  Uncounted = {} =>
    mediaLive >= Cardinality({u \in online \cap incremented : u \notin seen})

(***************************************************************************)
(* After a user's context has ended every loop of its connection ends for  *)
(* good, also when Stop came before Start had kept its room                *)
(* (media.go:141-154, 239-246).                                            *)
(***************************************************************************)
LoopsEnd == \A u \in Users : u \in ctxDone ~> [](u \notin looping)

Settled(u) == start[u] = "returned" /\ stop[u] = "stopped"

(***************************************************************************)
(* "Stop shuts the connection down ... mid-join connections cancel         *)
(* immediately" (media.go:185-188): when Start and Stop are both through,  *)
(* the user has left its LiveKit room.                                     *)
(***************************************************************************)
StoppedIsOffline == \A u \in Users : Settled(u) => u \notin online

(***************************************************************************)
(* "a ChurnLeave-style floor guard keeps the gauge sane"                   *)
(* (report.go:187-188): when every connection has ended and none is        *)
(* online, the gauge is zero.                                              *)
(***************************************************************************)
GaugeReturnsToZero ==
  (\A u \in Users : Settled(u)) /\ online = {} => mediaLive = 0
===============================================================================
