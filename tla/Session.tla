-------------------------------- MODULE Session --------------------------------
(***************************************************************************)
(* One virtual user from verifyToken to its end: the main goroutine        *)
(* (runner.run with joinSequence and startMedia), the ping loop, the       *)
(* reconciliation timer, and the JetStream callback (onMsg) that answers   *)
(* the main goroutine through two buffered channels, dropping what does    *)
(* not fit.  The server answers requests late, twice or never, and sends   *)
(* users lists nobody asked for.                                           *)
(*                                                                         *)
(* An operator named ...Mutant is the operator after it as a plausible bug *)
(* would have it, and so is AwaitUsersListNoTimer; the specification does  *)
(* not use them.                                                           *)
(***************************************************************************)
EXTENDS Integers, FiniteSets

CONSTANTS InitCap,      \* capacity of chInit
          ListCap,      \* capacity of chUL
          MaxMissed,    \* maxConsecutiveMiss
          MaxRepeats,   \* bound: answers the server sends again
          MaxPongs,     \* bound: PONGs on their way at once
          MaxSendErrors \* bound: publishes that fail after the join

ASSUME SessionAssumption ==
  /\ {InitCap, ListCap, MaxMissed} \subseteq Nat \ {0}
  /\ {MaxRepeats, MaxPongs, MaxSendErrors} \subseteq Nat

VARIABLES pc,          \* where the main goroutine is
          expired,     \* the context handed to Run has ended
          cancelled,   \* the session's own context was cancelled
          returnedAt,  \* history: the step at which run returned
          conn,        \* the NATS connection
          consuming,   \* onMsg is called for arriving messages
          subscribed,  \* the core subscriptions are in place
          chInit,      \* initial data waiting in chInit
          chUL,        \* tokens waiting in chUL
          owed,        \* requests the server has not answered yet
          repeats, sendErrors,  \* used up of the bounds
          mediaData,   \* mediaURL and mediaToken are known
          media,       \* the user's media.Connection; "core" for a user that has none
          joined,      \* AddJoined was called
          pinger,      \* where pingLoop is
          ponged,      \* lastPongAt is not before lastPingSent
          missed,      \* consecMissed
          pongs,       \* PONGs on their way
          runErr,      \* set on an early close for missed pings
          reported,    \* some error was counted (AddError)
          heard,       \* history: answers onMsg has passed on
          silent       \* history: ticks since the last PONG

mainVars == <<pc, conn, consuming, subscribed, media, joined>>
ctx == <<expired, cancelled, returnedAt>>
wire == <<owed, repeats, sendErrors>>
chans == <<chInit, chUL, mediaData, heard>>
pingVars == <<pinger, ponged, missed, pongs, runErr, silent>>
vars == <<mainVars, ctx, wire, chans, pingVars, reported>>

Requests == {"initial", "list", "media"}
Over == expired \/ cancelled       \* runCtx.Done() is closed

Init ==
  /\ pc = "verify" /\ conn = "none" /\ consuming = FALSE
  /\ subscribed = FALSE /\ media \in {"core", "none"} /\ joined = FALSE
  /\ expired = FALSE /\ cancelled = FALSE /\ returnedAt = "nowhere"
  /\ owed = {} /\ repeats = 0 /\ sendErrors = 0
  /\ chInit = 0 /\ chUL = 0 /\ mediaData = FALSE /\ heard = {}
  /\ pinger = "off" /\ ponged = FALSE /\ missed = 0 /\ pongs = 0
  /\ runErr = FALSE /\ silent = 0
  /\ reported = FALSE

(***************************************************************************)
(* run: a step of the main goroutine that succeeds, one that returns an    *)
(* error (u.err counts it), and one that fails inside joinSequence, after  *)
(* which the consumer is stopped and the connection drained.               *)
(***************************************************************************)
Go(from, to) == pc = from /\ pc' = to
\* Run's deferred cancel comes with every return.
Return == pc' = "returned" /\ returnedAt' = pc /\ cancelled' = TRUE /\ UNCHANGED expired

Fails(step) ==
  /\ pc = step
  /\ Return
  /\ reported' = TRUE
  /\ UNCHANGED <<conn, consuming, subscribed, media, joined, wire, chans, pingVars>>

JoinFails(step) ==
  /\ Go(step, "unwinding")
  /\ reported' = TRUE
  /\ UNCHANGED <<conn, consuming, subscribed, media, joined, ctx, wire, chans,
                 pingVars>>

VerifyToken ==
  \/ /\ Go("verify", "connect")
     /\ UNCHANGED <<conn, consuming, subscribed, media, joined, ctx, wire, chans,
                    pingVars, reported>>
  \/ Fails("verify")

Connect ==
  \/ /\ Go("connect", "attach")
     /\ conn' = "open"
     /\ UNCHANGED <<consuming, subscribed, media, joined, ctx, wire, chans,
                    pingVars, reported>>
  \/ Fails("connect")

\* jetstream.New, AttachUserConsumer and Consume: an error of theirs returns
\* with the connection open.
Attach ==
  \/ /\ Go("attach", "askInitial")
     /\ consuming' = TRUE
     /\ UNCHANGED <<conn, subscribed, media, joined, ctx, wire, chans, pingVars,
                    reported>>
  \/ Fails("attach")

UnwindMutant ==
  /\ pc = "unwinding"
  /\ consuming' = FALSE
  /\ Return
  /\ UNCHANGED <<conn, subscribed, media, joined, wire, chans, pingVars, reported>>
Unwind ==
  /\ pc = "unwinding"
  /\ consuming' = FALSE /\ conn' = "drained"
  /\ Return
  /\ UNCHANGED <<subscribed, media, joined, wire, chans, pingVars, reported>>

(***************************************************************************)
(* joinSequence: publish a request, then wait for its channel, for the end *)
(* of the context or for a timer, whichever the select takes.  A token     *)
(* that was in the channel already serves as well as the answer.           *)
(***************************************************************************)
Ask(request, step, next) ==
  /\ Go(step, next)
  /\ owed' = owed \cup {request}
  /\ UNCHANGED <<conn, consuming, subscribed, media, joined, ctx, repeats,
                 sendErrors, chans, pingVars, reported>>

EnterSelect(step, next) ==
  /\ Go(step, next)
  /\ UNCHANGED <<conn, consuming, subscribed, media, joined, ctx, wire, chans,
                 pingVars, reported>>

RequestInitialData == \/ Ask("initial", "askInitial", "askedInitial")
                      \/ JoinFails("askInitial")
                      \/ EnterSelect("askedInitial", "awaitInitial")

AwaitInitialData ==
  \/ /\ Go("awaitInitial", "askUsers")
     /\ chInit > 0 /\ chInit' = chInit - 1
     /\ UNCHANGED <<conn, consuming, subscribed, media, joined, ctx, wire, chUL,
                    mediaData, heard, pingVars, reported>>
  \/ JoinFails("awaitInitial")   \* the context has ended, or the timer fires

RequestUsersList == \/ Ask("list", "askUsers", "askedUsers")
                    \/ JoinFails("askUsers")
                    \/ EnterSelect("askedUsers", "awaitUsers")

AwaitUsersListMutant ==
  \/ /\ Go("awaitUsers", "askMedia")
     /\ chUL' = IF chUL > 0 THEN chUL - 1 ELSE 0
     /\ UNCHANGED <<conn, consuming, subscribed, media, joined, ctx, wire,
                    chInit, mediaData, heard, pingVars, reported>>
  \/ JoinFails("awaitUsers")
AwaitUsersListNoTimer ==
  \/ /\ Go("awaitUsers", "askMedia")
     /\ chUL > 0 /\ chUL' = chUL - 1
     /\ UNCHANGED <<conn, consuming, subscribed, media, joined, ctx, wire,
                    chInit, mediaData, heard, pingVars, reported>>
  \/ Over /\ JoinFails("awaitUsers")
AwaitUsersList ==
  \/ /\ Go("awaitUsers", "askMedia")
     /\ chUL > 0 /\ chUL' = chUL - 1
     /\ UNCHANGED <<conn, consuming, subscribed, media, joined, ctx, wire,
                    chInit, mediaData, heard, pingVars, reported>>
  \/ JoinFails("awaitUsers")

RequestMediaData == Ask("media", "askMedia", "subscribe") \/ JoinFails("askMedia")

\* Four core subscriptions; the first that fails ends the join.
Subscribe ==
  \/ /\ Go("subscribe", "sync")
     /\ subscribed' = TRUE
     /\ UNCHANGED <<conn, consuming, media, joined, ctx, wire, chans, pingVars,
                    reported>>
  \/ JoinFails("subscribe")

\* Session data, notepad and whiteboard sync, chat history: sent, not awaited.
RequestSync ==
  \/ EnterSelect("sync", "count")
  \/ JoinFails("sync")

AddJoined ==
  /\ Go("count", "media")
  /\ joined' = TRUE
  /\ UNCHANGED <<conn, consuming, subscribed, media, ctx, wire, chans, pingVars,
                 reported>>

(***************************************************************************)
(* startMedia polls for the media server data until they are there, the    *)
(* wait is over or the context ends; then the steady state begins.         *)
(***************************************************************************)
StartMedia ==
  /\ Go("media", "steady")
  /\ \/ media = "core" /\ UNCHANGED <<media, reported>>
     \/ media = "none" /\ mediaData /\ media' = "started" /\ UNCHANGED reported
     \/ media = "none" /\ ~mediaData /\ reported' = TRUE /\ UNCHANGED media
     \/ media = "none" /\ ~mediaData /\ Over /\ UNCHANGED <<media, reported>>
  /\ UNCHANGED <<conn, consuming, subscribed, joined, ctx, wire, chans, pingVars>>

StartSteadyState ==
  /\ Go("steady", "running")
  /\ pinger' = "due"
  /\ UNCHANGED <<conn, consuming, subscribed, media, joined, ctx, wire, chans,
                 ponged, missed, pongs, runErr, silent, reported>>

StopMedia ==
  /\ Over
  /\ Go("running", "closing")
  /\ media' = IF media = "started" THEN "stopped" ELSE media
  /\ UNCHANGED <<conn, consuming, subscribed, joined, ctx, wire, chans, pingVars,
                 reported>>

Close ==
  /\ pc = "closing"
  /\ consuming' = FALSE /\ conn' = "drained"
  /\ Return
  /\ UNCHANGED <<subscribed, media, joined, wire, chans, pingVars, reported>>

Main == \/ VerifyToken \/ Connect \/ Attach \/ Unwind
        \/ RequestInitialData \/ AwaitInitialData
        \/ RequestUsersList \/ AwaitUsersList \/ RequestMediaData
        \/ Subscribe \/ RequestSync \/ AddJoined
        \/ StartMedia \/ StartSteadyState \/ StopMedia \/ Close

(***************************************************************************)
(* onMsg: an answer goes into its channel unless that is full.  A server   *)
(* may answer again (redelivery), and sends complete users lists unasked.  *)
(***************************************************************************)
Answered(request) ==
  /\ consuming /\ request \in owed
  /\ heard' = heard \cup {request}
  /\ \/ owed' = owed \ {request} /\ UNCHANGED repeats
     \/ repeats < MaxRepeats /\ repeats' = repeats + 1 /\ UNCHANGED owed
  /\ UNCHANGED <<mainVars, ctx, sendErrors, pingVars, reported>>

InitialDataMutant ==
  /\ Answered("initial")
  /\ chInit' = IF pc = "awaitInitial" THEN 1 ELSE chInit
  /\ UNCHANGED <<chUL, mediaData>>
InitialData ==
  /\ Answered("initial")
  /\ chInit' = IF chInit < InitCap THEN chInit + 1 ELSE chInit
  /\ UNCHANGED <<chUL, mediaData>>

MediaServerData ==
  /\ Answered("media")
  /\ mediaData' = (media # "core")   \* not decoded for a core user
  /\ UNCHANGED <<chInit, chUL>>

\* The last chunk of a users list, the server's answer or unsolicited.
UsersListDone ==
  /\ consuming
  /\ chUL' = IF chUL < ListCap THEN chUL + 1 ELSE chUL
  /\ heard' = heard \cup {"list"}
  /\ owed' \in {owed, owed \ {"list"}}
  /\ UNCHANGED <<mainVars, ctx, repeats, sendErrors, chInit, mediaData, pingVars,
                 reported>>

PongMutant ==
  /\ consuming /\ pongs > 0
  /\ pongs' = pongs - 1
  /\ ponged' = TRUE /\ silent' = 0
  /\ UNCHANGED <<missed, mainVars, ctx, wire, chans, pinger, runErr, reported>>
Pong ==
  /\ consuming /\ pongs > 0
  /\ pongs' = pongs - 1
  /\ ponged' = TRUE /\ missed' = 0 /\ silent' = 0
  /\ UNCHANGED <<mainVars, ctx, wire, chans, pinger, runErr, reported>>

OnMsg == InitialData \/ MediaServerData \/ UsersListDone \/ Pong

(***************************************************************************)
(* The reconciliation timer asks for the users list again; a failed send   *)
(* is counted and the timer goes on.                                       *)
(***************************************************************************)
Reconcile ==
  /\ pc = "running"
  /\ \/ owed' = owed \cup {"list"} /\ UNCHANGED <<sendErrors, reported>>
     \/ /\ sendErrors < MaxSendErrors /\ sendErrors' = sendErrors + 1
        /\ reported' = TRUE
        /\ UNCHANGED owed
  /\ UNCHANGED <<mainVars, ctx, repeats, chans, pingVars>>

(***************************************************************************)
(* pingLoop: stamp and publish a PING, wait for the tick, judge the last   *)
(* one.  PING and PONG may be lost.  It may take its tick once more after  *)
(* the context has ended.                                                  *)
(***************************************************************************)
StampPing ==
  /\ pinger = "due"
  /\ pinger' = "stamped"
  /\ ponged' = FALSE
  /\ UNCHANGED <<mainVars, ctx, wire, chans, missed, pongs, runErr, silent,
                 reported>>

PublishPing ==
  /\ pinger = "stamped"
  /\ \/ /\ pinger' = "waiting"
        /\ pongs' \in {pongs, IF pongs < MaxPongs THEN pongs + 1 ELSE pongs}
        /\ UNCHANGED <<cancelled, sendErrors>>
     \/ /\ pinger' = "ended"
        /\ sendErrors < MaxSendErrors /\ sendErrors' = sendErrors + 1
        /\ cancelled' = TRUE
        /\ UNCHANGED pongs
  /\ UNCHANGED <<mainVars, expired, returnedAt, owed, repeats, chans, ponged, missed, runErr,
                 silent, reported>>

PingTick ==
  LET misses == IF ponged THEN missed ELSE missed + 1 IN
  /\ pinger = "waiting"
  /\ missed' = misses
  /\ silent' = IF silent < MaxMissed THEN silent + 1 ELSE silent
  /\ IF misses >= MaxMissed
       THEN /\ pinger' = "ended"
            /\ runErr' = TRUE /\ reported' = TRUE /\ cancelled' = TRUE
       ELSE /\ pinger' = "due"
            /\ UNCHANGED <<runErr, reported, cancelled>>
  /\ UNCHANGED <<mainVars, expired, returnedAt, wire, chans, ponged, pongs>>

PingLoopEnds ==
  /\ pinger = "waiting" /\ Over
  /\ pinger' = "ended"
  /\ UNCHANGED <<mainVars, ctx, wire, chans, ponged, missed, pongs, runErr,
                 silent, reported>>

PingLoop == StampPing \/ PublishPing \/ PingTick \/ PingLoopEnds

\* The run window is over, or the churn loop cancels the user.
Expire ==
  /\ ~expired
  /\ expired' = TRUE
  /\ UNCHANGED <<mainVars, cancelled, returnedAt, wire, chans, pingVars, reported>>

Next == Main \/ OnMsg \/ Reconcile \/ PingLoop \/ Expire

Spec == Init /\ [][Next]_vars

(***************************************************************************)
(* The goroutines run, their timers fire, and the calls they make return   *)
(* (the HTTP client has no timeout: that one is an assumption on the       *)
(* server).  A select offered an ended context at every turn takes it at   *)
(* last: Go chooses among the ready cases at random.                       *)
(***************************************************************************)
FairSpec == Spec /\ WF_vars(Main) /\ WF_vars(PingLoop) /\ SF_vars(PingLoopEnds)

-------------------------------------------------------------------------------
TypeOK ==
  /\ pc \in {"verify", "connect", "attach", "askInitial", "askedInitial",
             "awaitInitial", "askUsers", "askedUsers", "awaitUsers", "askMedia",
             "subscribe", "sync", "count", "media", "steady", "running",
             "closing", "unwinding", "returned"}
  /\ conn \in {"none", "open", "drained"} /\ (consuming => conn = "open")
  /\ media \in {"core", "none", "started", "stopped"}
  /\ chInit \in 0..InitCap /\ chUL \in 0..ListCap
  /\ owed \subseteq Requests /\ heard \subseteq Requests
  /\ pinger \in {"off", "due", "stamped", "waiting", "ended"}
  /\ missed \in 0..MaxMissed /\ pongs \in 0..MaxPongs

(***************************************************************************)
(* An answer that arrives before the main goroutine has entered its select *)
(* is not lost: while it waits for the initial data (the users list), one  *)
(* that onMsg has passed on is in the channel (user.go:82-83, 453, 473,    *)
(* 830-833, 966-969).                                                      *)
(***************************************************************************)
NoLostWakeup ==
  /\ pc = "awaitInitial" /\ "initial" \in heard => chInit > 0
  /\ pc = "awaitUsers" /\ "list" \in heard => chUL > 0

(***************************************************************************)
(* Only users the server has served are counted as joined: each has had    *)
(* its initial data and a complete users list, and its subscriptions are   *)
(* in place (user.go:273-278, 441-558).                                    *)
(***************************************************************************)
JoinedWasServed ==
  joined => {"initial", "list"} \subseteq heard /\ subscribed

(***************************************************************************)
(* What a session leaves behind, at every step it may return from: never a *)
(* consumer or a media connection that goes on, and no NATS connection     *)
(* that is open, but for one case, an error between ConnectNats and the    *)
(* running consumer, which returns without closing it (user.go:259-277,    *)
(* 291-295).                                                               *)
(***************************************************************************)
ReturnsDrained ==
  pc = "returned" =>
    /\ ~consuming /\ media # "started"
    /\ conn = "open" <=> returnedAt = "attach"
    /\ conn = "none" <=> returnedAt \in {"verify", "connect"}

(***************************************************************************)
(* Every return has closed the NATS connection it opened.  Not the one of  *)
(* a failed jetstream.New, AttachUserConsumer or Consume (user.go:259-     *)
(* 270): nothing refers to it any more, and it stays connected.            *)
(***************************************************************************)
ReturnsClosed == pc = "returned" => conn # "open"

(***************************************************************************)
(* A session is given up for missed pings only after MaxMissed ticks in a  *)
(* row without any PONG, however late the PONGs before came (user.go:      *)
(* 688-714, 857-860).                                                      *)
(***************************************************************************)
GivenUpOnlyAfterSilence == [][runErr' /\ ~runErr => silent' >= MaxMissed]_vars

(***************************************************************************)
(* No answer, no list and no broken connection keeps a session in its join *)
(* for ever, and once its context has ended it returns and its ping loop   *)
(* ends with it (user.go:441-479, 288-295, 698-700).                       *)
(***************************************************************************)
SessionEnds ==
  /\ <>(pc \in {"running", "returned"})
  /\ Over ~> (pc = "returned" /\ pinger \in {"off", "ended"})

(***************************************************************************)
(* "The internal cancel only fires for the 12-consecutive-ping case; for a *)
(* normal expiry the parent ctx ends" (user.go:93-94), and the ping loop's *)
(* early end is "counted as an error" (user.go:688-689): a session that    *)
(* returns before its window is over has counted an error.                 *)
(***************************************************************************)
EarlyEndIsReported == pc = "returned" /\ ~expired => reported
===============================================================================
