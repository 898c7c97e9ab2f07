# A formal model of plugNmeet-loadtester

The load tester creates rooms on a plugNmeet server, fills them with virtual
users that behave like browsers (NATS messaging, optionally LiveKit media),
keeps them busy for a run window, and prints latencies, fan-out figures, joins,
churn and errors. What it prints is only worth something if its own bookkeeping
is right while hundreds of goroutines share it. This directory holds TLA+ models
of that bookkeeping and of the processes that feed it, the TLC configurations
that check them, and machine-checked proofs of every safety property they check.

Source paths are given below without the leading `src/internal/`.

## 1. The system

### Components, state and operations

| component | state | operations |
|---|---|---|
| **engine** (`engine/engine.go`) | rooms, the window's context, `active` list, wait group | bring rooms up, spawn a runner per slot, churn ticks (pick, signal, cancel, replace), wait, hand over the summary |
| **delivery registry** (`report/report.go` 60-160, 300-383) | `rtt` (pending sends), `lastSweep`, `fanExpected`, `fanArrived`, latency series, `pubTracks` | `RecordSend`, `RecordRecv`, `RecordPubTrackSend` |
| **foreign ledger** (`report/report.go` 385-427) | `foreignSends/Recv/RTT`, `foreignPend`, `foreignPendAt` | `RecordForeignSend`, `RecordForeignRecv` |
| **population gauges** (`report/report.go` 165-275) | `joined`, `roomLive`, `mediaLive`, churn counters and extremes | `AddJoined`, `ChurnLeave`, `ChurnJoin`, `SetChurnPop`, `MediaLiveInc/Dec` |
| **virtual user** (`user/user.go`) | contexts, NATS connection, consumer, `chInit`, `chUL`, media URL/token | `verifyToken`, connect, attach, `joinSequence`, `startMedia`, steady state, the unwinding of the defers |
| **ping loop** (`user/user.go` 654-722) | `lastPingSent`, `lastPongAt`, `consecMissed` | `sendPing`, tick, PONG |
| **users list** (`user/user.go` 560-652, 757-799, 913-980) | `peers`, `peerSet`, `donorID`, `selfPresenter`, `ulSent`, `ulNext`, `joinedSeen` | `sendUsersList`, `onUsersList`, presenter events, `syncTargets` |
| **sync exchanges** (`user/whiteboard.go` 215-361, `user/notepad.go`) | none of their own; registry and foreign ledger | request, answer, receipt |
| **chat** (`user/chat.go`) | `chatHist` | publish, receive, donor reply in chunks |
| **media connection** (`media/media.go`) | `Room`, `cancel`, `closed`, frame and stats loops | `Start`, `publish`, `Stop` |
| **media plan** (`media/plan.go`, `engine.go` 43-56) | none | `Validate`, `mediaRole` |
| **memory sampler** (`resmon/mem.go`) | the series of readings | `tick`, `Stop` with `downsample` |
| **CPU sampler** (`resmon/resmon.go`) | previous counters (`prevTime`, `prevMach`, `lastPID`), `tps`, per-process series and totals | `sample`, `Stop` |
| **whiteboard loops** (`user/whiteboard.go` 45-170, 409-497) | timers, `nextFull`, `pageDone`, `fileDone`; read `selfPresenter` and `peers` | burst, scene, full state, page and file change, pointer |
| **notepad, presence loops** | timers | one message per tick |
| transport, switches, ids, command line, printing | – | – |

### How they interact

The engine starts one goroutine per user and cancels users through their
contexts. A user starts its ping loop, its timers, its subscriptions' dispatcher
goroutines and, in a goroutine of its own, `media.Connection.Start`. All of them
call the one `report.Collector`, which takes a mutex per call; between two calls,
and between a call and the publish or the time stamp it is about, anything may
happen. Users talk to each other only through the NATS server: core NATS (at
most once, not back to the sender) for chat and whiteboard, JetStream (at least
once) for events and private messages. A receipt of a message is tallied by the
receiver's process under the message's id, and it is the same process: the
registry matches the two.

### What is hard

* A send is published, then stamped, sized and registered; its receipts race
  that sequence.
* `RecordPubTrackSend` is three critical sections; the registry is bounded,
  swept inline, and must forget a send exactly at its last expected receipt.
* The expected fan-out is a gauge that joins, departures, churn and media
  connections change in other goroutines.
* The spawn loop, the churn loop, the window and failing HTTP calls meet in
  `Run`; it must always end, and only after everybody.
* A join waits for answers through bounded channels (4 and 128 places) that the
  callback keeps filling later; three timeouts, a context and a connection can end it at
  any step, and the defers must close what was open.
* A users list arrives in chunks, several lists at once, with the server's
  unsolicited ones in between.
* `Start` and `Stop` of a media connection run concurrently over two critical
  sections that are not one.
* The whiteboard loop looks at the presenter flag and at the real users of the
  room in some places and sends in others, while the event callback changes both;
  its full-state deadline outlives bursts, pauses and demotions.
* The CPU sampler keeps baselines between samples: of the machine, of the time,
  and by pid, while the machine runs on between one read of a sample and the next,
  reads fail and pids are used again.

`PROJECT.json` lists each hazard at its line with the properties that cover it.

## 2. Modules

| module | models | instances and proofs |
|---|---|---|
| `FanLedger` | what the fan figure promises, abstractly: promise an amount, settle one receipt of it | refined by `Registry` |
| `Registry` | the delivery registry | `MCRegistry`; `RegistryProofs` |
| `Delivery` | a room of users around the registry; instantiates `Registry`, and is checked to implement it | `MCDelivery`; `DeliveryProofs` |
| `Engine` | `engine.Run`, the runners as it sees them, and the population gauges | `MCEngine`; `EngineProofs` |
| `Plan` | the media flags: acceptance, resolution, roles | through `Media` |
| `Media` | the media connections of a room; extends `Plan` | `MCMedia`; `MediaProofs` |
| `Session` | one virtual user from its token to its end, with its ping loop | itself, its constants being numbers (`Session_*.cfg`); `UserProofs` |
| `Roster` | what one user knows of its room | `MCRoster`; `RosterProofs` |
| `ForeignLedger` | the foreign ledger | through `Exchange`, its proofs too |
| `Exchange` | sync requests between users of this process and foreign peers; composes `Registry` and `ForeignLedger` | `MCExchange`; `ExchangeProofs` |
| `ChatHistory` | the donor history and its chunked replies | `MCChatHistory`; `UserProofs` |
| `Whiteboard` | the whiteboard and pointer loops of one user | `MCChatHistory`; `UserProofs` |
| `MemSampler` | the memory series and its reduction | `MCMemSampler`; `SamplerProofs` |
| `HostSampler` | the machine and process sampler, and the machine it reads | `MCMemSampler`; `SamplerProofs` |

`MCChatHistory` and `MCMemSampler` each extend two components that share no
state; a variable `subject` chooses which of the two a behaviour moves, so their
state spaces are added and not multiplied.

An operator named `...Mutant` (and `AwaitUsersListNoTimer`) is the operator after it with a plausible bug; no specification uses one. They are
there to show that each property notices such a bug.

### State and actions against the code

**Registry.** One action per critical section of `Collector.mu`: `RecordSend`,
`RecordRecv`, and `AppendTrack`/`RegisterTrack`/`AttachTrack` for the three
sections of `RecordPubTrackSend`. The inline sweep and the cap are part of
`RecordSend`. A caller takes `time.Now()` before it waits for the lock: `Stamps`
lets a call arrive up to `MaxLag` ticks after its stamp, so stamps of different
callers are out of order. Keys are `(kind, id)`; ids may be registered again.

**Delivery.** `Publish`, `Stamp`, `Size` and `Register` are the steps of
`publicChat`, between which receivers run. Copies wait in `inbox` (delivered) and
`handling` (stamped by the dispatcher, not yet tallied). The churn loop picks,
sizes, registers the leave signals, cancels and counts the leave, in this order.
`Attach` and `Subscribe` come before `AddJoined`, as in `run`. A user's `run`
returns (`Return`) because it was cancelled or the window is over (`Close`,
`EndWindow`), or by itself (`Die`): its pings were missed, or its join failed after
the consumer was running. In each case the server announces the departure to whom
it still serves; copies that the user had not dispatched may still be taken, or
never are. `died` are the users that returned before their cancel. "chat" stands for
every kind that is published and then registered with `fanExpected()`. One step
stands for what happens at the server in one publish, to all receivers.

**Engine.** `engine` is the program counter of `Run`; `refill` that of one churn
tick. A runner is joining, joined or ended, its context may be cancelled; that it
may fail, end by itself or take its time to close is left to the environment, as
`Session` shows it can. `active` is a set: the code swaps the last element into
the hole, and the order only feeds a random choice.

**Session.** `pc` walks through `run` and `joinSequence`; every error path leads
to `Unwind` (defers in order: media, subscriptions and consumer, drain). `Ask`
arms a request before it is sent. `chInit` and `chUL` are buffered channels,
filled by `onMsg` without blocking; their capacities are parameters, 4 and 128 in
the code (`user/user.go:82-83`). An error of the attach returns at once, with the
connection open, as `run` does before its first clean-up. The ping loop
stamps and publishes in two steps and compares stamps at the next tick, so PONGs
may come in between; ticks and misses drive `consecMissed`.

**Roster.** Lists are sequences of pages, a page a sequence of users, one of which
may not decode. `UsersList(s)` is one callback of `onUsersList`: pair the chunk
with the armed request, record, then take its users up until one is broken.

**ForeignLedger, Exchange.** A request is published, then entered in the registry
(receiver of this process) or in the ledger (foreign receiver); the receiver
answers from a goroutine under the same id. Sync requests carry a `pendKey`
per `(kind, peer)`, not per requester, as in the code. An answer is three steps:
the registry's receipt (`OnResponse`), the look at the pendings (`ResolvePending`), and
the round trip that is appended under another lock (`AppendTrip`), with stamps of
their own. A foreign pending lives for `foreignPendTTL`, 25 seconds
(`report/report.go:116`).

**ChatHistory.** `AppendChat` belongs to the chat dispatcher, `DonorRequest`,
`SendChunk` and `ReplySent` to the event callback; a send may fail.

**Media, Plan.** `Start` is begin, join, keep the handle, count, publish track by
track, return; `Stop` is take the handle, disconnect, count out. Each is a step
because each is a critical section or an SDK call of its own. A track is two:
`Settle` looks at `closed` and takes the handle, `PublishTrack` is the SDK's publish
and the start of the frame loop, and `Stop` may come in between. The look at
`closed` and the one at `Room` are two critical sections in one step: what `Stop`
does between them only makes the second fail, which is `StartReturns`. The plan
decides who has a connection and how many tracks it may publish.

**Whiteboard.** Time is counted in scene ticks; a deadline is the number of ticks
left until it. `TakeTick` is the tick's `isPresenter`, the look at `nextFull` and
the choice of the first payload; `PublishFull` and `PublishScene` are the sends
after it, each of which may fail. `ChangePage` and `ChangeFile` are the `default` case,
which does not look at the presenter flag: two sends, in this order if both are due
in one turn (`board = "file"` is between them). `PresenterTold`, `RealUserJoins` and
`RealUserListed` are what `onMsg` and `onUsersList` change meanwhile. `Elapse` lets
the loop be up to `MaxLag` ticks behind what is due. Only a users list adds to
`peers`, so `Payload` knows of a real user from `listed` and not from `announced`.
`quiet`, `sinceFull`, `shortest` and `stray` are history variables; `sinceFull` and
`shortest` measure from publish to publish.

**HostSampler.** One sample takes the time (`BeginSample`), reads `/proc/stat`
(`ReadMachine`), lists the processes (`ListProcesses`, `ListFails`), reads one after the
other (`ReadProcess`) and closes the books (`EndSample`). The machine (`Spend`,
`StartProcess`, `ExitProcess`, `Rename`) goes on between any two of these. `ReadMachine`
moves `prevMach` only after a good read while `BeginSample` moves `prevTime` always, as
the code does. `tps` is kept as the fraction it is. A process's counter and its name
are read in one step; the code reads the name just after, and a process renamed in
between is one renamed before. The books are kept while the walk goes on in the
code, and at its end in the model: they are the sampler's own.

**MemSampler.** `downsample` ranges over a Go map of anchors: `PlaceAnchor` takes
them in any order.

## 3. Runs

Run one with `tlc -workers 2 -config MCX_y.cfg MCX` (`Session_y.cfg Session` for the session).

| run | module | checks | bounds, and why they are enough |
|---|---|---|---|
| `registry_run` | `MCRegistry` | `TypeOK`, `FanWithinExpected`, `RegistryBounded`, `PendingSendsWait`, `TrackReceiptsBounded`, `ForgetsOnlyDoneOrStale`, `ImplementsLedger` | two kinds, two ids, cap 2, two tracks, fan-out up to 2: the cap, re-registration, expiry and the three sections of a track all meet. All seven are proved for every value |
| `delivery_room` | `MCDelivery` | `LeaveNeverEarly`, `FanIsExact`, `ImplementsRegistry` | three users (sender, victim, joiner), one tick, one fault of any kind: a lost copy, a repeated leave, a user that ends by itself or whose join fails, the end of the window, after which the clock stands still (`ClockStops`). With `TTL` and `SweepEvery` 0 the one tick makes every pending send old enough to be swept. A view leaves out the latency samples, the audiences and what is remembered of the chats' receipts: no step takes a choice by them and none of these properties depends on them |
| `engine_run` | `MCEngine` | `OneRunnerPerSlot`, `PopulationAccounts`, `GaugeDrift`, `RunEnds` | three slots, two churn ticks (a replacement can be replaced), up to three failed token fetches at any spawns, so that the list of runners may run empty, one user that ends by itself; users are churned while they join and after they have ended, so the gauge drifts both ways |
| `media_run` | `MCMedia` | `PlanIsMet`, `GaugeCoversLive`, `LoopsEnd` | every flag combination from -1 to 3 for rooms of up to two users, so all edges of `Validate`, and one room of three with a publisher |
| `session_run` | `Session` | `NoLostWakeup`, `JoinedWasServed`, `ReturnsDrained`, `GivenUpOnlyAfterSilence`, `SessionEnds` | channels of 1 and 2 places stand for the code's 4 and 128, so that one repeated answer fills them; two misses stand for twelve; one failing publish anywhere |
| `roster_run` | `MCRoster` | `DonorIsEarliest`, `AsksEachOnce`, `AnswerIsSampled`, `PresenterConverges` | three users; lists of one and two pages, one broken; an own, a late and a broadcast list at once; the role moves twice |
| `exchange_run` | `MCExchange` | `ForeignPeersDoNotCount`, `DirectTripsCountOnce`, `PendingsExpire` | two requesters of one foreign peer (the shared `pendKey`), one exchange inside the process, one request from outside, one message twice. Stamps do not wait (`MaxLag` 0); the theorems cover lags. A view leaves out the latency samples, of which no step takes a choice and only the number of foreign trips is in a property |
| `history_run` | `MCChatHistory` | `HistoryIsLatest`, `ReplyIsSnapshot`; `QuietAfterDemotion`, `FullStatesSpaced`, `InvalidUpdatesStop`, `PromotedDraws` | history 5 and chunks of 2 for 200 and 50; eight chats, so the history wraps during a reply, with a short last chunk. Bursts of three ticks and pauses of two, full states due every four or five: the deadline falls into a burst, a pause or a demotion, also twice; changes due at once and in the middle; the loop one tick behind, which is by how much two full states may be closer. The role moves without a bound |
| `memory_run` | `MCMemSampler` | `SeriesInOrder`, `DistantAnchorsKept`; `WithinMachine` | four points of up to eleven samples: picked points up to four apart, the peak anywhere, ties. Two pids and two names, three samples of a machine of one tick a unit, in two units of time that may pass between any two reads: any read may fail, and a pid may be used again by either name between two samples or in the middle of one. Pids and names are symmetric |
| `fan_short` | `MCDelivery` | `EveryoneMeansFullFan` is violated | see findings |
| `churn_panic` | `MCEngine` | `ChurnFindsRunner` is violated | see findings |
| `media_offline` | `MCMedia` | `StoppedIsOffline` is violated | see findings |

Deadlock checking is off where the system really stops (a run ends, a chat has
been delivered); the registry never stops and is checked for it.

### Fairness

* `Engine`: the engine's goroutine runs, the window's timer fires, each runner
  closes when its context has ended. Nothing makes users join, fail or end. That
  HTTP calls return is an assumption: `http.Client` has no timeout and the calls
  ignore the context (`transport/rest.go:29`), so a silent server does hang a run.
* `Session`: the main goroutine and the ping loop run; strong fairness for the
  ping loop's exit, because a Go `select` chooses at random among ready cases and
  so takes a closed context at last. Answers are never fair: the join must end
  by its timeouts.
* `Media`: `Start`, `Stop` and the loops run; contexts need not end.
* `Roster`: the 60 s refresh keeps firing and does not fail for ever (strong), and
  what the server has sent arrives.
* `Whiteboard`: the loop's goroutine runs (it never blocks but on its timers and a
  publish), time passes, and the loop is at most `MaxLag` ticks behind. Nothing is
  fair about the role, the real users or the end of the session: `PromotedDraws`
  assumes a last promotion in the property itself.
* `Registry`, `Delivery`, `Exchange`, `ChatHistory`, `MemSampler`, `HostSampler`: none;
  safety only.

## 4. Findings

Where the code and what is said of it disagree:

1. **A receipt can come before the registration** (`fan_short`). Every sender
   publishes first (`user/chat.go:38`) and registers afterwards (line 41). A
   receiver in the same process that is faster is not counted: everybody received
   the chat, and `fan` is below 100 %, against `README.md:78`.
2. **The churn loop picks from an empty list** (`churn_panic`). `len(active) > 0` is
   tested once before the loop (`engine/engine.go:171`); replacements whose token
   cannot be fetched shrink the list until `mrand.Intn(0)` panics and takes the
   summary with it.
3. **A stopped user stays in its LiveKit room** (`media_offline`). `Stop` while the
   join is succeeding finds no `Room`; `Start` then stores it without looking at
   `closed` (`media/media.go:125-127`), against the comment at lines 185-188.

Further configurations show more of the kind; each violates the one property
it names, except the last:

| configuration | property | what it shows |
|---|---|---|
| `MCDelivery_fan_hides.cfg` | `FullFanMeansEveryone` | a subscriber that is not yet counted receipts in place of a lost copy, and the figure is 100 % |
| `MCDelivery_rtt.cfg` | `SamplesNotNegative` | the sender stamps after publishing, so an RTT sample may be negative |
| `MCRegistry_first.cfg` | `FirstReceiptReported` | a receipt between two sections of `RecordPubTrackSend` is lost to the track's first-receipt time (comment `report/report.go:126-129`) |
| `MCEngine_live_under.cfg` | `RoomLiveCountsAll` | churning a runner that is still joining takes somebody else out of the live count |
| `MCEngine_live_over.cfg` | `RoomLiveOnlyLive` | a user that ends by itself is counted until the end of the run |
| `MCEngine_joined.cfg` | `CleanRunsJoinWhatWasRequested` | a churned run without any failure reports more joined than requested (`README.md:80-82`) |
| `MCMedia_gauge.cfg` | `GaugeReturnsToZero` | a decrement overtakes its increment, is swallowed by the floor, and the gauge stays at one |
| `Session_attach.cfg` | `ReturnsClosed` | an error of `jetstream.New`, `AttachUserConsumer` or `Consume` returns with the NATS connection open (`user/user.go:259-270`); `ReturnsDrained` names this one exception |
| `Session_silent.cfg` | `EarlyEndIsReported` | a failing PING publish ends the session without counting an error (`user/user.go:691-693`, against 93-94 and 688-689) |
| `MCRoster_broadcast.cfg` | `SamplesAreOwn` | a broadcast chunk that arrives while a request is armed is measured as its answer (`user/user.go:125-127`) |
| `MCMemSampler_anchors.cfg` | `AnchorsKept` | a peak next to the first or last sample takes its place (`resmon/mem.go:176-177`) |
| `MCMemSampler_percent.cfg` | `PercentagesFit` | `elapsed` ends where a sample begins and the processes are read later, by a delay that differs: a process's percentage of one sample can pass 100 % of the machine (`resmon/resmon.go:197-201, 288`) |
| `MCMemSampler_numbers.cfg` | `TotalsAreNumbers` | if `/proc/stat` can be read at most once, two samples make the result "supported" while `tps` is 0: the totals are `NaN` or infinite, `json.Marshal` refuses them, and no JSON summary is written (`resmon/resmon.go:118, 135`) |
| `MCChatHistory_demoted.cfg` | `DemotedChangesNothing` | a demoted user still changes page and file in the rest of its burst (`user/whiteboard.go:457-468`, against 421-422) |
| `MCChatHistory_real.cfg` | `RealUsersGetValid` | a real user that is known from `USER_JOINED`, but from no users list yet, is still sent random updates (`user/whiteboard.go:51-55`) |
| `MCDelivery_churn.cfg` | `TypeOK`, `LeaveSamplesNotNegative` | hold: leave signals are registered before the cancel, so their latencies are not negative |

Met in passing, without a run: after a failed read of `/proc/stat` the next
calibration divides the ticks of the longer span by the time of the shorter one
(`resmon/resmon.go:206, 217`), so `tps` is too large and the percentages it divides
too small; `tps` counts the ticks of all cores, so `total_cpu_s` is a share of the
machine's time and not seconds of one core; and `pct` takes the element at
`int(p*(n-1))`, which is not the nearest rank its comment names
(`resmon/resmon.go:339-347`).

## 5. Proofs

Eight modules hold proofs that `tlapm` checks, about every component but the
abstract ones and for every value of their constants, under the assumption the module names (`RegistryAssumption`, `EngineAssumption`,
...: numbers are natural, ids that may be in use are finitely many, and what the
constants mean in the code). TLC evaluates these assumptions on the runs. In each
module the types come first; the arguments below are about what has to be added
to make a property inductive.

**`RegistryProofs`**

* `TypeCorrect`, `PendingSendsAlwaysWait`. Neither is inductive alone. That
  `received` stays within `expected` needs that a pending send has fewer receipts
  than it expects, which in turn needs typed entries: `TypeInv` is both.
* `RegistryAlwaysBounded`. `BoundInv` adds that the set of pending sends is
  finite, without which its cardinality says nothing.
* `FanAlwaysWithinExpected`. `FanWithinExpected` speaks of the *open slots*: the
  pairs of a pending send and a receipt number it still waits for. Arrived plus
  open slots never exceeds expected. `StepOwes` shows that each step does one of
  three things: open at most as many slots as it promises, close one slot and
  count one receipt, or owe no more than before (sweep, drop, overwriting).
  `FanInvStep` then needs cardinalities only.
* `RegistryImplementsLedger`. Under the refinement mapping `promised <- fanExpected`,
  `credited <- fanArrived`, every step is a step of `FanLedger` or a stutter; a
  credit is within what was promised by the invariant above.
* `TrackReceiptsAlwaysBounded`. `TracksInv`: a track's id has one record, each pending
  track send has a record with its id and its expected number, and the record
  attached to a send is that one. So a record never gets a receipt that its send
  does not wait for.
* `ForgetsOnlyDoneOrStaleSends`, an action property: only a completing receipt or
  the sweep removes an entry.

**`DeliveryProofs`**

* `LeaveNeverEarlyHolds`. `LeaveInv` follows a leave signal: what carries it (a copy, a
  dispatcher, a tally) belongs to a user that was cancelled or had ended before
  (`SignalsAreOfTheGone`), and what was cancelled was registered before
  (`CancelledWereRegistered`).
* `FanIsExactHolds`. `CountInv` adds that a message is registered at most once
  (`RegisteredOnce`: by a sender that has not sent yet, or by the churn loop for the one
  victim it has not cancelled yet), and what a pending send knows (`PendingsKnow`): what
  was promised of it, how often it was heard of since, which is less, and that a
  registered message that is not pending any more was heard of often enough unless it
  was swept or refused. The figure is the cardinality of a set of slots, as in the registry.
* `RoomUsesTheRegistry` proves the refinement that `delivery_room` checks. Most steps
  stutter; a call of the collector is a step of the registry if its stamp is of the past
  and its fan-out is at most the number of users. For the latter `CallsInv` shows that
  the live count and the users not yet counted are together never more than all users.
  `RoomKeepsTheFan` then takes `FanAlwaysWithinExpected` and `RegistryAlwaysBounded`
  over: it instantiates `RegistryProofs` with the room's constants and shows that its
  assumption holds of them (`RegistryIsProved`, `SameRegistry`).

**`EngineProofs`**. `SlotInv` adds to `OneRunnerPerSlot` that an active runner is the
newest of its slot, and what each step of a churn tick knows of its victim: without
it nothing says that a replacement's slot has been left (`SlotsHold`,
`OneRunnerHolds`). `GaugeInv` counts the listed runners, the slots never filled and
what the tick is ahead of the gauge (`PopulationHolds`). `DriftHolds` bounds the live
gauge of every room at every step, not only between ticks: `DriftInv` states the two
bounds for the runners that were counted in and those that were counted out, of whom
the victim of a tick that has cancelled it is not yet one, so that each step moves the
gauge and one of these sets together. The decrement that the floor at zero swallows
only helps the lower bound, and at zero the upper one holds anyway.

**`MediaProofs`**

* `GaugeHolds`. A decrement that overtakes its increment is swallowed by the floor at
  zero, so "the gauge is the number of live connections" is false. `GaugeInv` compares
  the gauge with the users counted in and not out, less those that were counted out
  before they were counted in; `ProgressInv` orders the steps of each user.
* `PlanHolds`. The cohorts of an accepted plan are intervals of the users, as long as
  the plan says (`CohortsAreIntervals`); `ServedInv`: only members connect, and each
  publishes at most what its role has. The room's tracks are a set with two elements for
  each video publisher and one for each audio publisher at most (`TracksAreOfPublishers`).

**`ExchangeProofs`**

* `TripsCountOnce`. `LedgerInv`: per kind, the samples and the pendings together are no
  more than the sends; an answer turns one pending into one sample, and the sweep only
  removes.
* `PendingsAreYoung`. `YoungInv`: every pending is at most the TTL older than the last
  sweep. The theorem assumes `MaxLag <= PendTTL`: a stamp that waits longer for its lock
  than the TTL (25 seconds) would enter an expired pending just after a sweep.
* `ForeignPeersStayOut`. `FollowInv` says where each message and its answer are: while
  nothing was delivered again, in one place at a time (`OneOfEach`); while nothing came
  before its entry either, the entry waits just while its copy is on its way
  (`EntriesFollow`), and what was promised is what arrived and what still waits
  (`AllCounted`). What is refused, swept or entered twice is in `EntriesInv`.
* `ExchangesKeepTheFan` takes the registry's own theorems over, as for the room. That
  the exchanges call the collector only as the registry allows is a lemma
  (`ExchangesUseTheRegistry`): it is so by the way the calls are written, and no run
  asks for it.

**`UserProofs`**, of one virtual user

* The session: `WakeupInv` ties the two channels to what was heard and to the steps that
  still await it (`WakeupsAreKept`, `JoinedServed`); `ClosingInv` says what may be
  open where, so that the one return that leaves something open is the attach's
  (`ReturnsDrainedHolds`); `SilenceInv`, that misses are never more than the ticks
  since the last PONG (`GivenUpAfterSilence`).
* The donor history: `Window`, the history is the interval that ends at the last chat,
  whose length is bounded (`HistoryHolds`). `ReplySnapshots`: what was sent and what is left
  make up the history of the request, and a chunk cuts a piece off the front of what is
  left (`CutRejoins`, `FlattenAppends`), whatever is appended to the history meanwhile.
* The whiteboard: `QuietInv` counts what is already decided: a demoted user that is about
  to send a full state or a scene has not sent one, and a change that is still open has
  not been made (`DemotionFallsQuiet`). `SpacingInv`: the time since the last full state
  was published and the time until the next is due are together never less than the
  shortest gap less what the loop was late by, also while a full state that the tick
  has decided on is not yet sent (`SpacingHolds`). `StrayInv`: a loop that still holds a random payload has sent none
  since the real user was listed (`InvalidStops`). The role may change at any step.

**`RosterProofs`**. The users of a chunk and the targets of a request are folds, which
the proofs follow entry by entry.

* `RosterTypeCorrect` carries `Learned`: a donor is known just when there are peers, is one
  of them and the earliest. `LearnOne` keeps it for one user, `LearnAll` for a chunk up to
  its first unreadable user (`ReadableUsers`); `DonorHolds` reads it off.
* `AskedOnce`. `Picked` says of the targets chosen so far that they differ, are peers, are
  three at most, and are all the peers if fewer (`PickOne`, `PickAll`). The donor comes
  first because it is the first candidate.
* `AnswerSampled`, an action property. `PairingInv`: in a round that nothing disturbed the
  next chunk of the own list is the one the pairing waits for; `OneAnswerStep`: there is
  one such list at most.

**`SamplerProofs`**, of the two samplers

* `WithinHolds`. Every tick a process spends is credited once at most, and within the
  time it was spent in, although the machine runs on between the reads of a sample,
  reads fail, and pids are used again. `HostInv` carries, besides what was credited,
  what the processes owe: what this sample has read of them and not yet credited, and
  what they have *grown* by since they were last read, because this sample or the next
  may credit it. What is owed fits into the time since the sample before began
  (`OwedInTime`), what has grown since this sample's own reads into the time since it
  began (`LateInTime`), and what was credited and is owed together into the time since
  the first (`CreditedInTime`). Sums are cardinalities of sets (`TotalCounts`), so
  moving a process's growth into its name's total is `TotalSplits`.
* `SeriesHolds`, `AnchorsHold`. `MemInv`: while the anchors are placed, in any order, the
  picked points are in order, the first and the last slot hold the first and the last
  sample or the peak (`EndsHeld`), and anchors that are apart do not touch what another has
  (`Untouched`). That needs some arithmetic of the quotients by which points are picked
  (`DivBounds`, `DivGrows`, `EqualDistancesFit`), and that the slot nearest to an anchor
  has room for it (`AnchorFits`, `PeakFallsBetween`). Being in order, the points that
  remain after duplicates are dropped are all of them (`NothingDropped`).

**Folds.** The induction theorems of the library take an operator as a parameter, which
the provers cannot instantiate. Where a proof is about a fold, its module derives
induction over a *set* of numbers from the well-foundedness of their order
(`SetInduction`, from `WFMin` and `NatLessThanWellFounded`), shows that the function the
fold chooses exists (`FoldExists`, `JoinsExist`, `AddsExist`), and then follows the fold
from one element to the next (`PeersOneByOne`, `FlattenAppends`, `TotalSteps`,
`UnseenOneByOne`). The few lemmas this takes are repeated in the modules that need them.

**Only model-checked:** the liveness properties `RunEnds`, `LoopsEnd`, `SessionEnds`,
`PresenterConverges` and `PromotedDraws`, since fairness and `ENABLED` are
out of the proof system's reach. Every safety property of a passing run is a theorem.
What section 4 shows violated is violated on a small instance, which is all it takes.

## 6. Not modelled

* Latency percentiles, per-phase maps and the census are plain counters; formatting
  and printing.
* NATS and LiveKit themselves, of which the models keep delivery guarantees and
  outcomes; token and protobuf contents. HTTP calls are choices of an outcome.
* Presence, reactions, raised hands: each timer sends one message and nothing else
  depends on it; their receipts are those of any published kind of `Delivery`. A
  notepad update is the same; its session-data fetch is a request without an answer.
* Private chat: a third pair of kinds for `Exchange`, with the same steps. That its
  receiver may have left is a send nobody receipts, which `Registry` allows any caller.
* The load average, the machine's own percentages, and the percentiles of the samplers.
* The data race at the end of a run: `Snapshot` (`report/report.go:614`) hands out
  pointers to track records, which goroutines of connections still starting may write.
  `Registry` takes a record as written under the lock; a model of the race would have
  to hold a record mid-write.

## 7. Status and plan

Done: all modules planned at first, each with its run, and a theorem for every safety
property that a passing run checks, the two compositions of `Registry` included. What
is left: `Media` composed with `Registry`'s track sends; private chat in `Exchange`.
