------------------------------- MODULE Registry -------------------------------
(***************************************************************************)
(* The delivery registry of report.Collector: the pending sends (rtt), the *)
(* fan-out accounting per delivery kind (fanExpected, fanArrived), the     *)
(* delivery RTT samples and the published-track records of the JSON        *)
(* summary.  Every action below is one critical section of Collector.mu.   *)
(* The callers are arbitrary: any goroutine may register or receipt any    *)
(* message, in any order, with a time stamp it took a little earlier.      *)
(*                                                                         *)
(* An operator named ...Mutant is the operator after it as a plausible bug *)
(* would have it; the specification does not use it.                       *)
(***************************************************************************)
EXTENDS Integers, Sequences, FiniteSets, Functions

CONSTANTS Kinds,        \* delivery kinds; PubTrack is the one of media tracks
          PubTrack,
          Ids,          \* message ids (uuids, user ids, track sids)
          Cap,          \* deliveryRTTCap
          SweepEvery,   \* deliverySweepEvery, in clock ticks
          TTL,          \* deliveryRTTTTL, in clock ticks
          MaxExpected,  \* bound: largest fan-out one send expects
          MaxTime,      \* bound: last clock tick
          MaxLag,       \* bound: ticks between a caller's time.Now() and its lock
          MaxFan,       \* bound: largest fan denominator of a kind
          MaxTracks     \* bound: published tracks

ASSUME RegistryAssumption ==
  /\ PubTrack \in Kinds
  /\ IsFiniteSet(Ids)
  /\ {Cap, SweepEvery, TTL, MaxExpected, MaxTime, MaxLag, MaxFan, MaxTracks}
       \subseteq Nat

VARIABLES now,          \* the wall clock
          lastSweep,    \* time of the last inline sweep of rtt
          rtt,          \* pending sends: <<kind, id>> -> deliverySend
          fanExpected,  \* receipts promised, per kind
          fanArrived,   \* receipts tallied, per kind
          lat,          \* lat["delivery."+kind]: RTT samples, per kind
          pubTracks     \* PubTrackSend records, with their caller's progress

registryVars == <<lastSweep, rtt, fanExpected, fanArrived, lat, pubTracks>>
vars == <<now, registryVars>>

Key == Kinds \X Ids   \* deliveryKey
NoTrack == 0          \* deliverySend.pt = nil
NoReceipt == -1       \* PubTrackSend.FirstReceiptMs before any receipt

\* deliverySend; pt is the position of its PubTrackSend in pubTracks.
Send == [at : Nat, expected : 1..MaxExpected, received : 0..MaxExpected,
         latched : BOOLEAN, pt : 0..MaxTracks]

\* PubTrackSend; `call` is how far the RecordPubTrackSend that made it has got.
Track == [sid : Ids, at : Nat, expected : 0..MaxExpected,
          receipts : 0..MaxExpected, first : Int,
          call : {"appended", "registered", "returned"}]

Stamps == {t \in 0..now : now - t <= MaxLag}

Init ==
  /\ now = 0
  /\ lastSweep = -(SweepEvery + 1)   \* the zero time: long before any stamp
  /\ rtt = <<>>
  /\ fanExpected = [kind \in Kinds |-> 0]
  /\ fanArrived = [kind \in Kinds |-> 0]
  /\ lat = [kind \in Kinds |-> <<>>]
  /\ pubTracks = <<>>

(***************************************************************************)
(* RecordSend: sweep first when a sweep is due, then drop or register.     *)
(***************************************************************************)
Stale(key, at) == rtt[key].at < at - TTL

SweepDue(at) == at - lastSweep > SweepEvery

\* The pending sends left once RecordSend has swept.
KeptMutant(at) == {key \in DOMAIN rtt : /\ ~(SweepDue(at) /\ Stale(key, at))
                                      /\ Cardinality(DOMAIN rtt) < Cap}
Kept(at) == {key \in DOMAIN rtt : ~(SweepDue(at) /\ Stale(key, at))}

FullMutant(at) == Cardinality(Kept(at)) > Cap
Full(at) == Cardinality(Kept(at)) >= Cap

\* Registers (or overwrites) the entry of key among the kept ones.
Registered(key, at, expected) ==
  [k \in Kept(at) \cup {key} |->
     IF k = key
       THEN [at |-> at, expected |-> expected, received |-> 0,
             latched |-> FALSE, pt |-> NoTrack]
       ELSE rtt[k]]

AwaitedMutant(expected) == expected >= 0
Awaited(expected) == expected > 0

RecordSend(kind, id, at, expected) ==
  /\ lastSweep' = IF SweepDue(at) THEN at ELSE lastSweep
  /\ \/ /\ Awaited(expected)
        /\ ~Full(at)
        /\ fanExpected[kind] + expected <= MaxFan
        /\ fanExpected' = [fanExpected EXCEPT ![kind] = @ + expected]
        /\ rtt' = Registered(<<kind, id>>, at, expected)
     \/ /\ ~Awaited(expected) \/ Full(at)
        /\ rtt' = Restrict(rtt, Kept(at))
        /\ UNCHANGED fanExpected
  /\ UNCHANGED <<fanArrived, lat>>

(***************************************************************************)
(* RecordRecv: tally a receipt of a pending send, latch the RTT sample on  *)
(* the first one, forget the entry on the last one.  A receipt of anything *)
(* else is dropped without a trace.                                        *)
(***************************************************************************)
CompletesMutant(send) == send.received > send.expected
Completes(send) == send.received >= send.expected

\* The entry after one more receipt.
ReceiptedMutant(key) == [rtt[key] EXCEPT !.received = @ + 1]
Receipted(key) == [rtt[key] EXCEPT !.received = @ + 1, !.latched = TRUE]

TrackReceipted(key, at) ==
  LET send == rtt[key] IN
  IF send.pt = NoTrack
    THEN pubTracks
    ELSE [pubTracks EXCEPT
            ![send.pt].receipts = send.received + 1,
            ![send.pt].first = IF send.latched THEN @ ELSE at - send.at]

RecordRecv(kind, id, at) ==
  LET key == <<kind, id>> IN
  \/ /\ key \notin DOMAIN rtt
     /\ UNCHANGED registryVars
  \/ /\ key \in DOMAIN rtt
     /\ rtt' = IF Completes(Receipted(key))
                 THEN Restrict(rtt, DOMAIN rtt \ {key})
                 ELSE [rtt EXCEPT ![key] = Receipted(key)]
     /\ fanArrived' = [fanArrived EXCEPT ![kind] = @ + 1]
     /\ lat' = IF rtt[key].latched
                 THEN lat
                 ELSE [lat EXCEPT ![kind] = Append(@, at - rtt[key].at)]
     /\ pubTracks' = TrackReceipted(key, at)
     /\ UNCHANGED <<lastSweep, fanExpected>>

(***************************************************************************)
(* RecordPubTrackSend takes the lock three times: to append its record, to *)
(* register the send (inside RecordSend), and to attach the record to the  *)
(* entry if the entry is still there.  LiveKit never repeats a track sid.  *)
(***************************************************************************)
AppendTrack(sid, at, expected) ==
  /\ Len(pubTracks) < MaxTracks
  /\ \A i \in DOMAIN pubTracks : pubTracks[i].sid # sid
  /\ pubTracks' = Append(pubTracks,
                         [sid |-> sid, at |-> at, expected |-> expected,
                          receipts |-> 0, first |-> NoReceipt,
                          call |-> "appended"])
  /\ UNCHANGED <<lastSweep, rtt, fanExpected, fanArrived, lat>>

RegisterTrack(i) ==
  LET track == pubTracks[i] IN
  /\ track.call = "appended"
  /\ RecordSend(PubTrack, track.sid, track.at, track.expected)
  /\ pubTracks' = [pubTracks EXCEPT ![i].call = "registered"]

AttachTrackMutant(i) ==
  LET key == <<PubTrack, pubTracks[i].sid>> IN
  /\ pubTracks[i].call = "registered"
  /\ rtt' = IF key \in DOMAIN rtt
              THEN [rtt EXCEPT ![key].pt = Len(pubTracks)]
              ELSE rtt
  /\ pubTracks' = [pubTracks EXCEPT ![i].call = "returned"]
  /\ UNCHANGED <<lastSweep, fanExpected, fanArrived, lat>>
AttachTrack(i) ==
  LET key == <<PubTrack, pubTracks[i].sid>> IN
  /\ pubTracks[i].call = "registered"
  /\ rtt' = IF key \in DOMAIN rtt THEN [rtt EXCEPT ![key].pt = i] ELSE rtt
  /\ pubTracks' = [pubTracks EXCEPT ![i].call = "returned"]
  /\ UNCHANGED <<lastSweep, fanExpected, fanArrived, lat>>

Tick == now < MaxTime /\ now' = now + 1 /\ UNCHANGED registryVars

Step ==
  \/ \E kind \in Kinds, id \in Ids, at \in Stamps : RecordRecv(kind, id, at)
  \/ \E kind \in Kinds \ {PubTrack}, id \in Ids, at \in Stamps,
        expected \in 0..MaxExpected :
       RecordSend(kind, id, at, expected) /\ UNCHANGED pubTracks
  \/ \E sid \in Ids, at \in Stamps, expected \in 0..MaxExpected :
       AppendTrack(sid, at, expected)
  \/ \E i \in DOMAIN pubTracks : RegisterTrack(i) \/ AttachTrack(i)

Next == Tick \/ (Step /\ UNCHANGED now)

Spec == Init /\ [][Next]_vars

-------------------------------------------------------------------------------
TypeOK ==
  /\ now \in 0..MaxTime
  /\ lastSweep \in Int
  /\ DOMAIN rtt \subseteq Key
  /\ rtt \in [DOMAIN rtt -> Send]
  /\ fanExpected \in [Kinds -> 0..MaxFan]
  /\ fanArrived \in [Kinds -> Nat]
  /\ lat \in [Kinds -> Seq(Int)]
  /\ pubTracks \in Seq(Track)
  /\ Len(pubTracks) <= MaxTracks

\* The receipts still owed to a kind: one slot per missing receipt of each of
\* its pending sends.
OpenSlots(kind) ==
  {slot \in Ids \X (1..MaxExpected) :
     /\ <<kind, slot[1]>> \in DOMAIN rtt
     /\ rtt[<<kind, slot[1]>>].received < slot[2]
     /\ slot[2] <= rtt[<<kind, slot[1]>>].expected}

(***************************************************************************)
(* The fan figure never exceeds 100%, and not only because receipts stop   *)
(* coming: every receipt still owed has its own place in the denominator.  *)
(* This is what RecordRecv's count-then-forget order, the forgetting sweep *)
(* and re-registration of an id must keep (report.go:325-332, 361-380).    *)
(***************************************************************************)
FanWithinExpected ==
  \A kind \in Kinds :
    Cardinality(OpenSlots(kind)) + fanArrived[kind] <= fanExpected[kind]

(***************************************************************************)
(* However many sends never complete, the registry holds at most Cap       *)
(* entries ("last-resort bound", report.go:97-104), the sweep of the same  *)
(* call counted.                                                           *)
(***************************************************************************)
RegistryBounded == Cardinality(DOMAIN rtt) <= Cap

(***************************************************************************)
(* A pending send is one that still waits for a receipt: a complete one is *)
(* never left behind, and its RTT sample is taken exactly when the first   *)
(* receipt is (report.go:362-380).                                         *)
(***************************************************************************)
PendingSendsWait ==
  \A key \in DOMAIN rtt :
    /\ rtt[key].received < rtt[key].expected
    /\ rtt[key].latched <=> rtt[key].received > 0

(***************************************************************************)
(* A track's summary record never credits more receipts than the track     *)
(* expected, although it is attached to its pending send in a later        *)
(* critical section than the one that registers it (report.go:337-355).    *)
(***************************************************************************)
TrackReceiptsBounded ==
  \A i \in DOMAIN pubTracks : pubTracks[i].receipts <= pubTracks[i].expected

(***************************************************************************)
(* The registry gives up on a pending send only when its last receipt      *)
(* arrives or when it is older than the TTL; never to make room            *)
(* (report.go:311-319, 325-329, 378-380).                                  *)
(***************************************************************************)
ForgetsOnlyDoneOrStale ==
  [][\A key \in DOMAIN rtt \ DOMAIN rtt' :
       \/ /\ rtt[key].received + 1 = rtt[key].expected
          /\ fanArrived'[key[1]] = fanArrived[key[1]] + 1
       \/ now - rtt[key].at > TTL]_vars

(***************************************************************************)
(* The comment of PubTrackSend (report.go:126-129): FirstReceiptMs stays   *)
(* -1 only if no receipt was ever recorded.                                *)
(***************************************************************************)
FirstReceiptReported ==
  \A i \in DOMAIN pubTracks :
    pubTracks[i].receipts > 0 => pubTracks[i].first # NoReceipt

Ledger == INSTANCE FanLedger WITH
            promised <- fanExpected, credited <- fanArrived,
            FanSizes <- 1..MaxExpected

\* The collector's accounting implements the ledger the summary promises.
ImplementsLedger == Ledger!Spec
===============================================================================
