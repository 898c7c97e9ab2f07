-------------------------------- MODULE Exchange --------------------------------
(***************************************************************************)
(* Private deliveries between the virtual users of this process and the    *)
(* foreign peers of their room (real users, or users of another load       *)
(* tester): the sync requests of the join (whiteboard and notepad), which  *)
(* their receiver answers from a goroutine of its own, echoing the         *)
(* request's id.  Both ends publish first and then enter the message in    *)
(* the delivery registry, or, if its receiver is foreign, in the foreign   *)
(* ledger.  The server delivers at least once.                             *)
(*                                                                         *)
(* An operator named ...Mutant is the operator after it as a plausible bug *)
(* would have it; the specification does not use it.                       *)
(***************************************************************************)
EXTENDS Integers, Sequences, FiniteSets, Functions

CONSTANTS Synthetic,     \* users of this process (isSyntheticID)
          Foreign,       \* the others
          Messages,      \* ids of the sync requests of the run
          From, To,      \* their sender and receiver
          Cap, SweepEvery, TTL,
          PendTTL,       \* foreignPendTTL, in clock ticks
          MaxTime,       \* bound: last clock tick
          MaxLag,        \* bound: ticks between a time.Now() and its lock
          MaxRedelivered \* bound: messages delivered again (ack lost)

ASSUME ExchangeAssumption ==
  /\ IsFiniteSet(Messages) /\ Synthetic \cap Foreign = {}
  /\ {From, To} \subseteq [Messages -> Synthetic \cup Foreign]
  /\ \A m \in Messages : From[m] \in Synthetic \/ To[m] \in Synthetic
  /\ {Cap, SweepEvery, TTL, PendTTL, MaxTime, MaxLag, MaxRedelivered} \subseteq Nat

Kinds == {"syncReq", "syncRes", "pubTrack"}

VARIABLES now, lastSweep, rtt, fanExpected, fanArrived, lat,
          foreignSends, foreignRecv, foreignRTT, foreignPend, foreignPendAt,
          sender,       \* each message's progress at its sender
          wire,         \* copies on their way: <<message, "to" or "back">>
          answering,    \* responder goroutines that have not published yet
          answered,     \* and those that have, but not yet entered the answer
          heard,        \* foreign answers receipted, their pending not yet taken
          measured,     \* and those whose trip is measured and not yet appended
          redelivered,  \* how often that happened
          early,        \* history: receipts tallied before their entry
          perKind       \* history: entries made for receivers of this process

registry == <<lastSweep, rtt, fanExpected, fanArrived, lat>>
ledger == <<foreignSends, foreignRecv, foreignRTT, foreignPend, foreignPendAt>>
traffic == <<sender, wire, answering, answered, heard, measured, redelivered>>
vars == <<now, registry, ledger, traffic, early, perKind>>

Reg == INSTANCE Registry WITH
         PubTrack <- "pubTrack", Ids <- Messages, MaxExpected <- 1,
         MaxFan <- 2 * Cardinality(Messages), MaxTracks <- 0, pubTracks <- <<>>
Led == INSTANCE ForeignLedger WITH Peers <- Foreign, TTL <- PendTTL

Init ==
  /\ Reg!Init /\ Led!Init
  /\ sender = [m \in Messages |-> "idle"]
  /\ wire = [c \in Messages \X {"to", "back"} |-> 0]
  /\ answering = [m \in Messages |-> 0] /\ answered = [m \in Messages |-> 0]
  /\ heard = {} /\ measured = <<>>
  /\ redelivered = 0 /\ early = 0
  /\ perKind = [kind \in Kinds |-> 0]

handler == <<heard, measured>>

Put(copy) == wire' = [wire EXCEPT ![copy] = @ + 1]

\* A copy arrives; it stays on its way if its Ack is lost.
Take(copy) ==
  /\ wire[copy] > 0
  /\ \/ wire' = [wire EXCEPT ![copy] = @ - 1] /\ UNCHANGED redelivered
     \/ /\ redelivered < MaxRedelivered /\ redelivered' = redelivered + 1
        /\ UNCHANGED wire

\* A user's handler takes one delivery after the other.
Idle(user) == \A m \in heard \cup DOMAIN measured : From[m] # user

(***************************************************************************)
(* Entering a message that was published: into the registry for a user of  *)
(* this process, into the ledger for a foreign one - with a pending if it  *)
(* is a request and not an answer.                                         *)
(***************************************************************************)
EnterMutant(kind, m, to, at) ==
  /\ Reg!RecordSend(kind, m, at, 1)
  /\ perKind' = IF to \in Synthetic THEN [perKind EXCEPT ![kind] = @ + 1] ELSE perKind
  /\ UNCHANGED ledger
Enter(kind, m, to, at) ==
  \/ /\ to \in Synthetic
     /\ Reg!RecordSend(kind, m, at, 1)
     /\ perKind' = [perKind EXCEPT ![kind] = @ + 1]
     /\ UNCHANGED ledger
  \/ /\ to \in Foreign
     /\ Led!RecordForeignSend(kind, to, at, kind = "syncReq")
     /\ UNCHANGED <<registry, perKind>>

(***************************************************************************)
(* whiteboardSyncRequest, notepadSyncRequest: sendPrivate, then the entry. *)
(* A foreign sender only sends.                                            *)
(***************************************************************************)
SendPrivate(m) ==
  /\ sender[m] = "idle"
  /\ sender' = [sender EXCEPT ![m] =
                  IF From[m] \in Synthetic THEN "published" ELSE "sent"]
  /\ Put(<<m, "to">>)
  /\ UNCHANGED <<now, registry, ledger, answering, answered, handler, redelivered,
                 early, perKind>>

EnterMessage(m, at) ==
  /\ sender[m] = "published"
  /\ Enter("syncReq", m, To[m], at)
  /\ sender' = [sender EXCEPT ![m] = "sent"]
  /\ UNCHANGED <<now, wire, answering, answered, handler, redelivered, early>>

(***************************************************************************)
(* onWhiteboardSyncRequest, onNotepadSyncRequest: tally the receipt and    *)
(* start a responder.                                                      *)
(***************************************************************************)
\* A receipt finds no entry although one is still to come.
TooEarly(kind, m, pending) ==
  early' = IF <<kind, m>> \notin DOMAIN rtt /\ pending THEN early + 1 ELSE early

OnMessage(m, at) ==
  /\ To[m] \in Synthetic /\ Idle(To[m])
  /\ Take(<<m, "to">>)
  /\ Reg!RecordRecv("syncReq", m, at)
  /\ TooEarly("syncReq", m, sender[m] = "published")
  /\ answering' = [answering EXCEPT ![m] = @ + 1]
  /\ UNCHANGED <<now, ledger, sender, answered, handler, perKind>>

(***************************************************************************)
(* wbSyncResponse, notepadSyncResponse: publish the answer under the       *)
(* request's id, then enter it.                                            *)
(***************************************************************************)
SendResponse(m) ==
  /\ answering[m] > 0
  /\ answering' = [answering EXCEPT ![m] = @ - 1]
  /\ \/ answered' = [answered EXCEPT ![m] = @ + 1] /\ Put(<<m, "back">>)
     \/ UNCHANGED <<answered, wire>>   \* the publish fails: counted, not entered
  /\ UNCHANGED <<now, registry, ledger, sender, handler, redelivered, early, perKind>>

EnterResponse(m, at) ==
  /\ answered[m] > 0
  /\ Enter("syncRes", m, From[m], at)
  /\ answered' = [answered EXCEPT ![m] = @ - 1]
  /\ UNCHANGED <<now, sender, wire, answering, handler, redelivered, early>>

\* A foreign peer receives a request, and answers it or not.
ForeignReceives(m) ==
  /\ To[m] \in Foreign /\ wire[<<m, "to">>] > 0
  /\ \E answer \in {0, 1} :
       wire' = [wire EXCEPT ![<<m, "to">>] = @ - 1, ![<<m, "back">>] = @ + answer]
  /\ UNCHANGED <<now, registry, ledger, sender, answering, answered, handler,
                 redelivered, early, perKind>>

(***************************************************************************)
(* onWhiteboardSyncResponse, onNotepadSyncResponse: tally the receipt and, *)
(* if the answer is a foreign peer's, take its pending, with a time stamp  *)
(* of its own, and append the trip under another lock.                     *)
(***************************************************************************)
OnResponse(m, at) ==
  /\ From[m] \in Synthetic /\ Idle(From[m])
  /\ Take(<<m, "back">>)
  /\ Reg!RecordRecv("syncRes", m, at)
  /\ TooEarly("syncRes", m, answered[m] > 0)
  /\ heard' = IF To[m] \in Foreign THEN heard \cup {m} ELSE heard
  /\ UNCHANGED <<now, ledger, sender, answering, answered, measured, perKind>>

ResolvePending(m, at) ==
  LET trip == Led!Trip("syncReq", To[m], at) IN
  /\ m \in heard
  /\ heard' = heard \ {m}
  /\ Led!RecordForeignRecv("syncRes", "syncReq", To[m])
  /\ measured' = [n \in DOMAIN measured \cup (IF trip = {} THEN {} ELSE {m}) |->
                    IF n = m THEN trip ELSE measured[n]]
  /\ UNCHANGED <<now, registry, sender, wire, answering, answered, redelivered,
                 early, perKind>>

AppendTrip(m) ==
  /\ m \in DOMAIN measured
  /\ \E trip \in measured[m] : Led!AppendTrip("syncReq", trip)
  /\ measured' = Restrict(measured, DOMAIN measured \ {m})
  /\ UNCHANGED <<now, registry, sender, wire, answering, answered, heard,
                 redelivered, early, perKind>>

Tick == Reg!Tick /\ UNCHANGED <<ledger, traffic, early, perKind>>

Next ==
  \/ \E m \in Messages : \/ SendPrivate(m) \/ SendResponse(m) \/ ForeignReceives(m)
                         \/ AppendTrip(m)
  \/ \E m \in Messages, at \in Reg!Stamps :
       EnterMessage(m, at) \/ OnMessage(m, at) \/ EnterResponse(m, at)
       \/ OnResponse(m, at) \/ ResolvePending(m, at)
  \/ Tick

Spec == Init /\ [][Next]_vars

-------------------------------------------------------------------------------
TypeOK ==
  /\ Reg!TypeOK /\ Led!TypeOK
  /\ \A m \in Messages : sender[m] \in {"idle", "published", "sent"}
  /\ \A c \in DOMAIN wire : wire[c] \in Nat
  /\ \A m \in Messages : answering[m] \in Nat /\ answered[m] \in Nat
  /\ heard \subseteq Messages /\ DOMAIN measured \subseteq Messages

\* No copy is on its way to a user of this process, and no call is under way.
Quiet ==
  /\ \A m \in Messages : /\ sender[m] # "published"
                         /\ answering[m] = 0 /\ answered[m] = 0
                         /\ To[m] \in Synthetic => wire[<<m, "to">>] = 0
                         /\ From[m] \in Synthetic => wire[<<m, "back">>] = 0

\* The registry had room for every entry so far.
EntriesFit == perKind["syncReq"] + perKind["syncRes"] <= Cap

(***************************************************************************)
(* "Foreign targets are OUTSIDE this run's fan/RTT registry" (report.go:   *)
(* 62-66): however many foreign peers are in the room, answering or not,   *)
(* the fan figures of the private kinds promise at most one receipt per    *)
(* message to a user of this process - exactly one, unless the registry    *)
(* ran full - and are complete once everything has arrived, if no receipt  *)
(* came before its entry, none came twice, and no entry got too old.       *)
(***************************************************************************)
ForeignPeersDoNotCount ==
  \A kind \in {"syncReq", "syncRes"} :
    /\ fanExpected[kind] <= perKind[kind]
    /\ EntriesFit =>
         /\ fanExpected[kind] = perKind[kind]
         /\ Quiet /\ early = 0 /\ redelivered = 0 /\ now <= TTL =>
              fanArrived[kind] = fanExpected[kind]

(***************************************************************************)
(* Direct round trips of foreign peers are not counted twice, although     *)
(* several users ask one peer and its answers may come more than once      *)
(* (report.go:385-388, 414-426).                                           *)
(***************************************************************************)
DirectTripsCountOnce == Led!NoDoubleCounting

(***************************************************************************)
(* The inline sweep keeps the pendings young: after each entry of a send   *)
(* to a foreign peer none is older than the TTL plus the sweep interval,   *)
(* if no time stamp waits longer than the TTL for its lock (report.go:     *)
(* 389-403).                                                               *)
(***************************************************************************)
PendingsExpire ==
  [][\A m \in Messages, at \in Reg!Stamps :
       \/ EnterMessage(m, at) /\ To[m] \in Foreign
       \/ EnterResponse(m, at) /\ From[m] \in Foreign
       => Led!SweptAt(at)]_vars
===============================================================================
