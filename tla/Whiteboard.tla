------------------------------- MODULE Whiteboard -------------------------------
(***************************************************************************)
(* The whiteboard loops of one user: whiteboardLoop draws in bursts, a     *)
(* scene at every tick of the burst, a full state whenever a deadline that *)
(* outlives the bursts has passed, and one page and one file change;       *)
(* pointerLoop sends pointers while it watches.  Meanwhile onMsg moves the *)
(* presenter flag, and takes up a real user when a users list names it:    *)
(* from then on what is sent must be valid.                                *)
(*                                                                         *)
(* Time is counted in scene ticks (2 s); a timer is the number of ticks    *)
(* until it is due.  Nothing depends on when pointers are watched, so that *)
(* is left open.  The module is written to be extended next to another     *)
(* component's, hence the names of its initial states and steps.           *)
(*                                                                         *)
(* An operator named ...Mutant is the operator after it as a plausible bug *)
(* would have it; the specification does not use it.                       *)
(***************************************************************************)
EXTENDS Integers

CONSTANTS Idles,     \* ticks between two bursts
          Bursts,    \* ticks of a burst
          Offsets,   \* ticks until a page or file change is due in a burst
          FullGaps,  \* ticks between two full states: jitter(2m)
          MinGap,    \* the shortest of them
          MaxLag     \* bound: ticks the loop's goroutine may be behind

ASSUME WhiteboardAssumption ==
  /\ Idles \subseteq Nat /\ Bursts \subseteq Nat /\ Offsets \subseteq Nat
  /\ MinGap \in Nat /\ MaxLag \in Nat
  /\ FullGaps \subseteq {gap \in Nat : gap >= MinGap}

Changes == {"page", "file"}
Drawn == {"full", "scene"} \cup Changes
Loops == {"board", "pointer"}

VARIABLES board,      \* where whiteboardLoop is
          left,       \* until the idle timer fires, or the burst is over
          due,        \* change -> until it is due in this burst
          open,       \* changes not made in this burst
          sceneDue,   \* a tick waits in sceneTick.C
          nextFull,   \* until a full state is due
          pointer,    \* where pointerLoop is
          bin,        \* loop -> the payload of the update it sends
          over,       \* ctx.Done() is closed
          late,       \* how long the loop has been behind
          presenter,  \* selfPresenter
          real,       \* a real user of the room: "absent", "announced", "listed"
          quiet,      \* history: what the user drew since it was demoted
          sinceFull,  \* history: since the last full state, up to MinGap
          shortest,   \* history: the shortest gap between two full states
          stray       \* history: loop -> invalid updates since a real user was listed

timers == <<left, due, nextFull, sceneDue>>
facts == <<over, presenter, real>>
gaps == <<sinceFull, shortest>>
sending == <<pointer, bin, stray>>
drawing == <<board, timers, open, late, quiet, gaps>>
boardVars == <<drawing, facts, sending>>

None == [kind \in Drawn |-> 0]

BoardInit ==
  /\ board = "idle" /\ left \in Idles
  /\ due = [change \in Changes |-> 0] /\ open = {} /\ sceneDue = FALSE
  /\ nextFull \in FullGaps
  /\ pointer = "resting" /\ over = FALSE /\ late = 0
  /\ bin = [loop \in Loops |-> "random"] /\ stray = [loop \in Loops |-> 0]
  /\ presenter = FALSE /\ real = "absent"
  /\ quiet = None /\ sinceFull = MinGap /\ shortest = MinGap

\* anyRealUser: peers come from users lists only, a USER_JOINED adds none.
PayloadMutant == "random"
Payload == IF real = "listed" THEN "valid" ELSE "random"

Choose(loop) == bin' = [bin EXCEPT ![loop] = Payload]

Draw(kinds) ==
  quiet' = [kind \in Drawn |->
             IF kind \in kinds /\ ~presenter THEN quiet[kind] + 1 ELSE quiet[kind]]

(***************************************************************************)
(* The loop.  It idles, and if it is presenter then, starts a burst.       *)
(***************************************************************************)
RestMutant ==
  /\ board = "idle" /\ left = 0
  /\ ~presenter
  /\ board' = "ended" /\ left' \in Idles /\ late' = 0
  /\ UNCHANGED <<due, nextFull, sceneDue, open, facts, quiet, gaps, sending>>
Rest ==
  /\ board = "idle" /\ left = 0
  /\ ~presenter
  /\ left' \in Idles /\ late' = 0
  /\ UNCHANGED <<board, due, nextFull, sceneDue, open, facts, quiet, gaps, sending>>

StartBurstMutant ==
  /\ board = "idle" /\ left = 0
  /\ board' = "burst" /\ left' \in Bursts /\ late' = 0
  /\ due' \in [Changes -> Offsets] /\ open' = Changes /\ sceneDue' = FALSE
  /\ UNCHANGED <<nextFull, facts, quiet, gaps, sending>>
StartBurst ==
  /\ board = "idle" /\ left = 0
  /\ presenter
  /\ board' = "burst" /\ left' \in Bursts /\ late' = 0
  /\ due' \in [Changes -> Offsets] /\ open' = Changes /\ sceneDue' = FALSE
  /\ UNCHANGED <<nextFull, facts, quiet, gaps, sending>>

EndBurst ==
  /\ board = "burst" /\ left = 0
  /\ board' = "idle" /\ left' \in Idles /\ late' = 0
  /\ sceneDue' = FALSE
  /\ UNCHANGED <<due, nextFull, open, facts, quiet, gaps, sending>>

\* case <-sceneTick.C of a user that is not presenter any more.
SkipTick ==
  /\ board = "burst" /\ left > 0 /\ sceneDue
  /\ ~presenter
  /\ sceneDue' = FALSE /\ late' = 0
  /\ UNCHANGED <<board, left, due, nextFull, open, facts, quiet, gaps, sending>>

\* case <-sceneTick.C of a presenter, up to the first payload.  The next deadline
\* counts from the time read here, whether the broadcast then succeeds or not.
TakeTickMutant ==
  /\ board = "burst" /\ left > 0 /\ sceneDue
  /\ presenter
  /\ sceneDue' = FALSE /\ late' = 0 /\ Choose("board")
  /\ IF nextFull = 0
       THEN /\ board' = "full" /\ nextFull' \in FullGaps \cup {0}
       ELSE board' = "scene" /\ UNCHANGED nextFull
  /\ UNCHANGED <<left, due, open, facts, quiet, gaps, pointer, stray>>
TakeTick ==
  /\ board = "burst" /\ left > 0 /\ sceneDue
  /\ presenter
  /\ sceneDue' = FALSE /\ late' = 0 /\ Choose("board")
  /\ IF nextFull = 0
       THEN /\ board' = "full" /\ nextFull' \in FullGaps
       ELSE board' = "scene" /\ UNCHANGED nextFull
  /\ UNCHANGED <<left, due, open, facts, quiet, gaps, pointer, stray>>

\* An update of a loop gets out.
Publish(loop) ==
  stray' = IF real = "listed" /\ bin[loop] = "random"
             THEN [stray EXCEPT ![loop] = @ + 1] ELSE stray

\* The update is drawn, or its error is counted.
Update(kind) == \/ Draw({kind}) /\ Publish("board")
                \/ UNCHANGED <<quiet, stray>>

\* fullStateBroadcast's publish, then sceneUpdate up to its payload.
PublishFull ==
  /\ board = "full"
  /\ Update("full")
  /\ sinceFull' = 0
  /\ shortest' = IF sinceFull < shortest THEN sinceFull ELSE shortest
  /\ board' = "scene" /\ Choose("board") /\ late' = 0
  /\ UNCHANGED <<timers, open, facts, pointer>>

PublishScene ==
  /\ board = "scene"
  /\ Update("scene")
  /\ board' = "burst" /\ late' = 0
  /\ UNCHANGED <<timers, open, facts, gaps, pointer, bin>>

\* The default case: a change that is due is made if the coin says so, and its
\* error ignored; the file's follows the page's in the same turn, or comes alone.
\* The presenter flag is not looked at.
Turn == board = "burst" /\ left > 0 /\ ~sceneDue /\ ~over

Due(change) == change \in open /\ due[change] = 0

Make(change) ==
  /\ open' = open \ {change}
  /\ Draw({change}) \/ UNCHANGED quiet
  /\ late' = 0
  /\ UNCHANGED <<timers, facts, gaps, sending>>

ChangePage ==
  /\ Turn /\ Due("page")
  /\ board' \in IF Due("file") THEN {"burst", "file"} ELSE {"burst"}
  /\ Make("page")

ChangeFile ==
  /\ board = "file" \/ (Turn /\ Due("file"))
  /\ board' = "burst"
  /\ Make("file")

\* <-ctx.Done(), in either select; a timer that is due as well may win.
Leave ==
  /\ board \in {"idle", "burst"} /\ over
  /\ board' = "ended" /\ late' = 0
  /\ UNCHANGED <<timers, open, facts, quiet, gaps, sending>>

Loop == \/ Rest \/ StartBurst \/ EndBurst \/ SkipTick \/ TakeTick
        \/ PublishFull \/ PublishScene \/ ChangePage \/ ChangeFile \/ Leave

(***************************************************************************)
(* pointerLoop: rest, watch, and send a pointer at every tick meanwhile.   *)
(***************************************************************************)
Watch ==
  /\ pointer = "resting"
  /\ pointer' = "watching"
  /\ UNCHANGED <<drawing, facts, bin, stray>>

StopWatching ==
  /\ pointer = "watching"
  /\ pointer' = "resting"
  /\ UNCHANGED <<drawing, facts, bin, stray>>

TakePointerTick ==
  /\ pointer = "watching"
  /\ pointer' = "sending" /\ Choose("pointer")
  /\ UNCHANGED <<drawing, facts, stray>>

PublishPointer ==
  /\ pointer = "sending"
  /\ pointer' = "watching"
  /\ Publish("pointer") \/ UNCHANGED stray
  /\ UNCHANGED <<drawing, facts, bin>>

LeavePointers ==
  /\ pointer \in {"resting", "watching"} /\ over
  /\ pointer' = "ended"
  /\ UNCHANGED <<drawing, facts, bin, stray>>

Pointers == Watch \/ StopWatching \/ TakePointerTick \/ PublishPointer \/ LeavePointers

(***************************************************************************)
(* Time, and what onMsg and the end of the session bring.                  *)
(***************************************************************************)
Behind == \/ board \in {"idle", "burst"} /\ (left = 0 \/ over)
          \/ board = "burst" /\ sceneDue
          \/ board \in {"full", "scene", "file"}

Less(timer) == IF timer > 0 THEN timer - 1 ELSE 0

Elapse ==
  /\ board # "ended"
  /\ Behind => late < MaxLag
  /\ late' = IF Behind THEN late + 1 ELSE 0
  /\ left' = Less(left) /\ nextFull' = Less(nextFull)
  /\ due' = [change \in Changes |-> Less(due[change])]
  /\ sceneDue' = (board # "idle")
  /\ sinceFull' = IF sinceFull < MinGap THEN sinceFull + 1 ELSE sinceFull
  /\ UNCHANGED <<board, open, facts, quiet, shortest, sending>>

\* USER_METADATA_UPDATE, USER_JOINED of the user itself, the initial data or a
\* users list change what the user knows of its role (module Roster).
PresenterTold ==
  /\ presenter' = ~presenter
  /\ quiet' = None
  /\ UNCHANGED <<board, timers, open, late, over, real, gaps, sending>>

\* USER_JOINED of a real user is handled; it adds nobody to peers.
RealUserJoins ==
  /\ real = "absent"
  /\ real' = "announced"
  /\ UNCHANGED <<board, timers, open, late, over, presenter, quiet, gaps, sending>>

\* A users list names a real user.
RealUserListed ==
  /\ real # "listed"
  /\ real' = "listed"
  /\ UNCHANGED <<board, timers, open, late, over, presenter, quiet, gaps, sending>>

EndContext ==
  /\ ~over
  /\ over' = TRUE
  /\ UNCHANGED <<board, timers, open, late, presenter, real, quiet, gaps, sending>>

Outside == PresenterTold \/ RealUserJoins \/ RealUserListed \/ EndContext

BoardNext == Loop \/ Pointers \/ Elapse \/ Outside

BoardSpec == BoardInit /\ [][BoardNext]_boardVars

(***************************************************************************)
(* The loop's goroutine runs and time passes; nothing is said of the role. *)
(***************************************************************************)
BoardFairness == WF_boardVars(Loop) /\ WF_boardVars(Elapse)

-------------------------------------------------------------------------------
BoardTypeOK ==
  /\ board \in {"idle", "burst", "full", "scene", "file", "ended"}
  /\ left \in Nat /\ due \in [Changes -> Nat] /\ open \subseteq Changes
  /\ board = "file" => "file" \in open
  /\ sceneDue \in BOOLEAN /\ nextFull \in Nat
  /\ pointer \in {"resting", "watching", "sending", "ended"}
  /\ bin \in [Loops -> {"random", "valid"}] /\ stray \in [Loops -> Nat]
  /\ over \in BOOLEAN /\ late \in 0..MaxLag /\ presenter \in BOOLEAN
  /\ real \in {"absent", "announced", "listed"}
  /\ quiet \in [Drawn -> Nat]
  /\ sinceFull \in 0..MinGap /\ shortest \in 0..MinGap

(***************************************************************************)
(* A demoted user falls quiet: whatever the demotion interrupts, until the *)
(* next promotion it draws at most one of each kind, however many bursts'  *)
(* time passes (whiteboard.go:421-472).                                    *)
(***************************************************************************)
QuietAfterDemotion == ~presenter => \A kind \in Drawn : quiet[kind] <= 1

(***************************************************************************)
(* Full states keep their distance, those that failed included, also when  *)
(* a demotion or a pause made one overdue and none has been sent for       *)
(* several deadlines: from one publish to the next no less passes than the *)
(* shortest deadline, but for what the first of the two was late by, since *)
(* the deadline counts from the tick that decided on it                    *)
(* (whiteboard.go:413, 444-449).                                           *)
(***************************************************************************)
FullStatesSpaced == shortest >= MinGap - MaxLag

(***************************************************************************)
(* Once a real user was in a users list, each loop sends at most the one   *)
(* invalid update whose payload it had chosen already (whiteboard.go:53,   *)
(* 78, 156, user.go:576-589).                                              *)
(***************************************************************************)
InvalidUpdatesStop == \A loop \in Loops : stray[loop] <= 1

(***************************************************************************)
(* "idle keep-running so a re-promote resumes actions" (whiteboard.go:423):*)
(* a user that is presenter for good draws scenes again and again.         *)
(***************************************************************************)
PromotedDraws == <>[](presenter /\ ~over) => []<>(board = "scene")

(***************************************************************************)
(* "sends only fire while the server actually says so"                     *)
(* (whiteboard.go:422): a demoted user changes neither page nor file.      *)
(***************************************************************************)
DemotedChangesNothing ==
  ~presenter => \A change \in Changes : quiet[change] = 0

(***************************************************************************)
(* "minimal VALID yjs update whenever a real user is present"              *)
(* (whiteboard.go:51): no invalid update is chosen once the user knows     *)
(* from USER_JOINED of a real user.                                        *)
(***************************************************************************)
RealUsersGetValid ==
  [][real # "absent" =>
       /\ TakeTick \/ PublishFull => bin'["board"] = "valid"
       /\ TakePointerTick => bin'["pointer"] = "valid"]_boardVars
===============================================================================
