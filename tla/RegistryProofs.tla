---------------------------- MODULE RegistryProofs ----------------------------
(***************************************************************************)
(* What the delivery registry keeps for every value of its constants: for  *)
(* any number of kinds and ids, any cap, TTL and fan-out, and callers in   *)
(* any order.                                                              *)
(***************************************************************************)
EXTENDS Registry, FiniteSetTheorems, TLAPS

\* TypeOK is inductive only together with the fact that a pending send still
\* waits for a receipt: it is what bounds `received` and a track's `receipts`.
TypeInv == TypeOK /\ PendingSendsWait

-------------------------------------------------------------------------------
(* Facts about the operators the actions are built from.                   *)

\* The bounds are natural numbers.
LEMMA ConstantsAreNaturals ==
  /\ Cap \in Nat /\ SweepEvery \in Nat /\ TTL \in Nat /\ MaxExpected \in Nat
  /\ MaxTime \in Nat /\ MaxLag \in Nat /\ MaxFan \in Nat /\ MaxTracks \in Nat
  BY RegistryAssumption DEF RegistryAssumption

\* A pending send is a Send, with its fields in range.
LEMMA PendingSendIsSend ==
  ASSUME TypeOK, NEW key \in DOMAIN rtt
  PROVE  /\ rtt[key] \in Send
         /\ key \in Key
         /\ rtt[key].at \in Nat
         /\ rtt[key].expected \in 1..MaxExpected
         /\ rtt[key].received \in 0..MaxExpected
         /\ rtt[key].latched \in BOOLEAN
         /\ rtt[key].pt \in 0..MaxTracks
  BY DEF TypeOK, Send

\* The stamp of a caller is a time that has been.
LEMMA StampIsTime ==
  ASSUME TypeOK, NEW at \in Stamps
  PROVE  at \in Nat
  BY ConstantsAreNaturals DEF TypeOK, Stamps

\* The sweep only removes.
LEMMA KeptIsSubset ==
  ASSUME NEW at
  PROVE  Kept(at) \subseteq DOMAIN rtt
  BY DEF Kept

\* The two outcomes of RecordSend keep the registry well typed and waiting.
LEMMA RecordSendKeepsType ==
  ASSUME TypeInv, NEW kind \in Kinds, NEW id \in Ids, NEW at \in Nat,
         NEW expected \in 0..MaxExpected, RecordSend(kind, id, at, expected)
  PROVE  /\ lastSweep' \in Int
         /\ DOMAIN rtt' \subseteq Key
         /\ rtt' \in [DOMAIN rtt' -> Send]
         /\ fanExpected' \in [Kinds -> 0..MaxFan]
         /\ PendingSendsWait'
         /\ fanArrived' = fanArrived /\ lat' = lat
<1> USE ConstantsAreNaturals
<1>1. lastSweep' \in Int /\ fanArrived' = fanArrived /\ lat' = lat
  BY DEF TypeInv, TypeOK, RecordSend
<1>2. CASE /\ Awaited(expected) /\ ~Full(at)
           /\ fanExpected[kind] + expected <= MaxFan
           /\ fanExpected' = [fanExpected EXCEPT ![kind] = @ + expected]
           /\ rtt' = Registered(<<kind, id>>, at, expected)
  <2>1. expected \in 1..MaxExpected
    BY <1>2 DEF Awaited
  <2>2. DOMAIN rtt' = Kept(at) \cup {<<kind, id>>} /\ DOMAIN rtt' \subseteq Key
    BY <1>2, KeptIsSubset DEF Registered, Key, TypeInv, TypeOK
  <2>3. ASSUME NEW k \in DOMAIN rtt'
        PROVE  /\ rtt'[k] \in Send
               /\ rtt'[k].received < rtt'[k].expected
               /\ rtt'[k].latched <=> rtt'[k].received > 0
    <3>1. CASE k = <<kind, id>>
      <4>1. rtt'[k] = [at |-> at, expected |-> expected, received |-> 0,
                       latched |-> FALSE, pt |-> NoTrack]
        BY <1>2, <2>2, <3>1 DEF Registered
      <4> QED BY <4>1, <2>1 DEF Send, NoTrack
    <3>2. CASE k # <<kind, id>>
      <4>1. k \in DOMAIN rtt /\ rtt'[k] = rtt[k]
        BY <1>2, <2>2, <3>2, KeptIsSubset DEF Registered
      <4> QED BY <4>1, PendingSendIsSend DEF TypeInv, PendingSendsWait
    <3> QED BY <3>1, <3>2
  <2>4. rtt' \in [DOMAIN rtt' -> Send]
    BY <1>2, <2>3 DEF Registered
  <2>5. fanExpected' \in [Kinds -> 0..MaxFan]
    BY <1>2, <2>1 DEF TypeInv, TypeOK
  <2> QED BY <1>1, <2>2, <2>3, <2>4, <2>5 DEF PendingSendsWait
<1>3. CASE rtt' = Restrict(rtt, Kept(at)) /\ fanExpected' = fanExpected
  <2>1. DOMAIN rtt' = Kept(at) /\ \A k \in Kept(at) : rtt'[k] = rtt[k]
    BY <1>3 DEF Restrict
  <2>2. ASSUME NEW k \in DOMAIN rtt'
        PROVE  k \in DOMAIN rtt /\ rtt'[k] = rtt[k] /\ rtt[k] \in Send
    BY <2>1, KeptIsSubset, PendingSendIsSend DEF TypeInv
  <2>3. rtt' \in [DOMAIN rtt' -> Send]
    BY <1>3, <2>2 DEF Restrict
  <2> QED BY <1>1, <1>3, <2>1, <2>2, <2>3, KeptIsSubset
          DEF TypeInv, TypeOK, PendingSendsWait
<1> QED BY <1>2, <1>3 DEF RecordSend

\* One more receipt of a pending send is a Send again.
LEMMA ReceiptedIsSend ==
  ASSUME TypeInv, NEW key \in DOMAIN rtt
  PROVE  /\ Receipted(key) \in Send
         /\ Receipted(key).at = rtt[key].at
         /\ Receipted(key).expected = rtt[key].expected
         /\ Receipted(key).received = rtt[key].received + 1
         /\ Receipted(key).latched = TRUE
         /\ Receipted(key).pt = rtt[key].pt
<1>1. /\ rtt[key] \in Send /\ rtt[key].received < rtt[key].expected
      /\ rtt[key].expected \in 1..MaxExpected
      /\ rtt[key].received \in 0..MaxExpected
  BY PendingSendIsSend DEF TypeInv, PendingSendsWait
<1>2. rtt[key].received + 1 \in 0..MaxExpected
  BY <1>1, ConstantsAreNaturals
<1> QED BY <1>1, <1>2 DEF Receipted, Send

\* Attaching a track record touches nothing of a pending send but its `pt`.
LEMMA AttachTrackKeepsSends ==
  ASSUME TypeInv, NEW i \in DOMAIN pubTracks, AttachTrack(i)
  PROVE  /\ DOMAIN rtt' = DOMAIN rtt
         /\ rtt' \in [DOMAIN rtt' -> Send]
         /\ \A k \in DOMAIN rtt : /\ rtt'[k].received = rtt[k].received
                                  /\ rtt'[k].expected = rtt[k].expected
                                  /\ rtt'[k].latched = rtt[k].latched
<1>1. DOMAIN rtt' = DOMAIN rtt /\ rtt \in [DOMAIN rtt -> Send]
  BY DEF AttachTrack, TypeInv, TypeOK
<1>2. i \in 1..MaxTracks
  BY ConstantsAreNaturals DEF TypeInv, TypeOK
<1>3. ASSUME NEW k \in DOMAIN rtt
      PROVE  /\ rtt'[k] \in Send /\ rtt'[k].received = rtt[k].received
             /\ rtt'[k].expected = rtt[k].expected
             /\ rtt'[k].latched = rtt[k].latched
  <2>1. rtt[k] \in Send
    BY PendingSendIsSend DEF TypeInv
  <2>2. rtt'[k] = rtt[k] \/ rtt'[k] = [rtt[k] EXCEPT !.pt = i]
    BY <1>1 DEF AttachTrack
  <2> QED BY <1>2, <2>1, <2>2 DEF Send
<1> QED BY <1>1, <1>3 DEF AttachTrack

\* What a receipt does to the registry.
LEMMA RecordRecvCases ==
  ASSUME TypeInv, NEW kind \in Kinds, NEW id \in Ids, NEW at \in Nat,
         <<kind, id>> \in DOMAIN rtt, RecordRecv(kind, id, at)
  PROVE  \/ /\ rtt[<<kind, id>>].received + 1 = rtt[<<kind, id>>].expected
            /\ DOMAIN rtt' = DOMAIN rtt \ {<<kind, id>>}
            /\ \A k \in DOMAIN rtt' : rtt'[k] = rtt[k]
            /\ rtt' \in [DOMAIN rtt' -> Send]
         \/ /\ rtt[<<kind, id>>].received + 1 < rtt[<<kind, id>>].expected
            /\ DOMAIN rtt' = DOMAIN rtt
            /\ rtt'[<<kind, id>>] = Receipted(<<kind, id>>)
            /\ \A k \in DOMAIN rtt' \ {<<kind, id>>} : rtt'[k] = rtt[k]
            /\ rtt' \in [DOMAIN rtt' -> Send]
<1> DEFINE key == <<kind, id>>
<1>1. /\ rtt[key].received \in Nat /\ rtt[key].expected \in Nat
      /\ rtt[key].received < rtt[key].expected
  BY PendingSendIsSend, ConstantsAreNaturals DEF TypeInv, PendingSendsWait
<1>2. /\ rtt \in [DOMAIN rtt -> Send] /\ Receipted(key) \in Send
      /\ Receipted(key).received = rtt[key].received + 1
      /\ Receipted(key).expected = rtt[key].expected
  BY ReceiptedIsSend DEF TypeInv, TypeOK
<1>3. rtt' = IF Completes(Receipted(key))
               THEN Restrict(rtt, DOMAIN rtt \ {key})
               ELSE [rtt EXCEPT ![key] = Receipted(key)]
  BY DEF RecordRecv
<1>4. Completes(Receipted(key)) <=> rtt[key].received + 1 = rtt[key].expected
  BY <1>1, <1>2 DEF Completes
<1>5. CASE rtt[key].received + 1 = rtt[key].expected
  <2>1. rtt' = [k \in DOMAIN rtt \ {key} |-> rtt[k]]
    BY <1>3, <1>4, <1>5 DEF Restrict
  <2> QED BY <2>1, <1>2, <1>5
<1>6. CASE rtt[key].received + 1 # rtt[key].expected
  <2>1. rtt' = [rtt EXCEPT ![key] = Receipted(key)]
    BY <1>3, <1>4, <1>6
  <2> QED BY <2>1, <1>1, <1>2, <1>6
<1> QED BY <1>5, <1>6

\* A receipt keeps the track records well typed.
LEMMA TrackReceiptedIsTyped ==
  ASSUME TypeInv, NEW key \in DOMAIN rtt, NEW at \in Nat
  PROVE  /\ TrackReceipted(key, at) \in Seq(Track)
         /\ Len(TrackReceipted(key, at)) = Len(pubTracks)
<1> DEFINE send == rtt[key]
<1>1. CASE send.pt = NoTrack
  BY <1>1 DEF TypeInv, TypeOK, TrackReceipted
<1>2. CASE send.pt # NoTrack /\ send.pt \notin DOMAIN pubTracks
  <2>1. pubTracks \in [1..Len(pubTracks) -> Track] /\ pubTracks \in Seq(Track)
    BY DEF TypeInv, TypeOK
  <2>2. TrackReceipted(key, at) = pubTracks
    BY <1>2, <2>1 DEF TrackReceipted
  <2> QED BY <2>1, <2>2
<1>3. CASE send.pt # NoTrack /\ send.pt \in DOMAIN pubTracks
  <2> DEFINE old == pubTracks[send.pt]
             first == IF send.latched THEN old.first ELSE at - send.at
             new == [old EXCEPT !.receipts = send.received + 1, !.first = first]
  <2>1. old \in Track /\ DOMAIN pubTracks = 1..Len(pubTracks)
    BY <1>3 DEF TypeInv, TypeOK
  <2>2. /\ send.received + 1 \in 0..MaxExpected
        /\ at - send.at \in Int
    BY PendingSendIsSend, ConstantsAreNaturals DEF TypeInv, PendingSendsWait
  <2>3. old.first \in Int /\ first \in Int
    BY <2>1, <2>2 DEF Track
  <2>4. new \in Track
    BY <2>1, <2>2, <2>3 DEF Track
  <2>5. TrackReceipted(key, at) = [pubTracks EXCEPT ![send.pt] = new]
    BY <1>3, <2>1 DEF TrackReceipted, Track, TypeInv, TypeOK
  <2>6. pubTracks \in Seq(Track)
    BY DEF TypeInv, TypeOK
  <2> HIDE DEF new
  <2> QED BY <1>3, <2>1, <2>4, <2>5, <2>6
<1> QED BY <1>1, <1>2, <1>3

-------------------------------------------------------------------------------
(* Types.                                                                  *)

\* The registry starts well typed.
LEMMA TypeInvInit == Init => TypeInv
<1> SUFFICES ASSUME Init PROVE TypeInv
  OBVIOUS
<1>1. DOMAIN rtt = {} /\ rtt \in [DOMAIN rtt -> Send]
  BY DEF Init
<1>2. /\ fanExpected \in [Kinds -> 0..MaxFan]
      /\ fanArrived \in [Kinds -> Nat]
      /\ lat \in [Kinds -> Seq(Int)]
  BY ConstantsAreNaturals DEF Init
<1>3. /\ now \in 0..MaxTime /\ lastSweep \in Int
      /\ pubTracks \in Seq(Track) /\ Len(pubTracks) <= MaxTracks
  BY ConstantsAreNaturals DEF Init
<1> QED BY <1>1, <1>2, <1>3 DEF TypeInv, TypeOK, PendingSendsWait

\* Every step keeps it so.
LEMMA TypeInvStep == TypeInv /\ [Next]_vars => TypeInv'
<1> SUFFICES ASSUME TypeInv, [Next]_vars PROVE TypeInv'
  OBVIOUS
<1> USE ConstantsAreNaturals
<1>1. CASE Tick
  BY <1>1 DEF Tick, registryVars, TypeInv, TypeOK, PendingSendsWait
<1>2. ASSUME NEW kind \in Kinds, NEW id \in Ids, NEW at \in Stamps,
             NEW expected \in 0..MaxExpected,
             RecordSend(kind, id, at, expected), UNCHANGED <<now, pubTracks>>
      PROVE  TypeInv'
  <2>1. at \in Nat
    BY StampIsTime DEF TypeInv
  <2> QED BY <1>2, <2>1, RecordSendKeepsType DEF TypeInv, TypeOK
<1>3. ASSUME NEW kind \in Kinds, NEW id \in Ids, NEW at \in Stamps,
             RecordRecv(kind, id, at), UNCHANGED now
      PROVE  TypeInv'
  <2> DEFINE key == <<kind, id>>
  <2>1. at \in Nat
    BY StampIsTime DEF TypeInv
  <2>2. CASE key \notin DOMAIN rtt
    BY <1>3, <2>2 DEF RecordRecv, registryVars, TypeInv, TypeOK, PendingSendsWait
  <2>3. CASE key \in DOMAIN rtt
    <3>1. DOMAIN rtt' \subseteq Key /\ rtt' \in [DOMAIN rtt' -> Send]
      BY <1>3, <2>1, <2>3, RecordRecvCases DEF TypeInv, TypeOK
    <3>2. PendingSendsWait'
      <4>1. ASSUME NEW k \in DOMAIN rtt'
            PROVE  /\ rtt'[k].received < rtt'[k].expected
                   /\ rtt'[k].latched <=> rtt'[k].received > 0
        <5>1. CASE k # key
          <6>1. k \in DOMAIN rtt /\ rtt'[k] = rtt[k]
            BY <1>3, <2>1, <2>3, <4>1, <5>1, RecordRecvCases
          <6> QED BY <6>1 DEF TypeInv, PendingSendsWait
        <5>2. CASE k = key
          <6>1. /\ rtt'[k] = Receipted(key)
                /\ rtt[key].received + 1 < rtt[key].expected
            BY <1>3, <2>1, <2>3, <5>2, <4>1, RecordRecvCases
          <6>2. /\ Receipted(key).expected = rtt[key].expected
                /\ Receipted(key).received = rtt[key].received + 1
                /\ Receipted(key).latched = TRUE
            BY <2>3, ReceiptedIsSend
          <6>3. rtt[key].received \in Nat
            BY <2>3, PendingSendIsSend DEF TypeInv
          <6> QED BY <6>1, <6>2, <6>3
        <5> QED BY <5>1, <5>2
      <4> QED BY <4>1 DEF PendingSendsWait
    <3>3. fanArrived' \in [Kinds -> Nat]
      <4>1. fanArrived' = [fanArrived EXCEPT ![kind] = @ + 1]
        BY <1>3, <2>3 DEF RecordRecv
      <4> QED BY <4>1 DEF TypeInv, TypeOK
    <3>4. lat' \in [Kinds -> Seq(Int)]
      <4>1. lat \in [Kinds -> Seq(Int)]
        BY DEF TypeInv, TypeOK
      <4>2. lat[kind] \in Seq(Int)
        BY <4>1
      <4>3. rtt[key].at \in Nat
        BY <2>3, PendingSendIsSend DEF TypeInv
      <4>4. at - rtt[key].at \in Int
        BY <2>1, <4>3
      <4>5. Append(lat[kind], at - rtt[key].at) \in Seq(Int)
        BY <4>2, <4>4
      <4>6. lat' = lat \/ lat' = [lat EXCEPT ![kind] = Append(@, at - rtt[key].at)]
        BY <1>3, <2>3 DEF RecordRecv
      <4> QED BY <4>1, <4>5, <4>6
    <3>5. pubTracks' \in Seq(Track) /\ Len(pubTracks') <= MaxTracks
      <4>1. pubTracks' = TrackReceipted(key, at)
        BY <1>3, <2>3 DEF RecordRecv
      <4> QED BY <4>1, <2>1, <2>3, TrackReceiptedIsTyped DEF TypeInv, TypeOK
    <3>6. now' \in 0..MaxTime /\ lastSweep' \in Int /\ fanExpected' = fanExpected
      BY <1>3, <2>3 DEF RecordRecv, TypeInv, TypeOK
    <3> QED BY <3>1, <3>2, <3>3, <3>4, <3>5, <3>6 DEF TypeInv, TypeOK
  <2> QED BY <2>2, <2>3
<1>4. ASSUME NEW sid \in Ids, NEW at \in Stamps, NEW expected \in 0..MaxExpected,
             AppendTrack(sid, at, expected), UNCHANGED now
      PROVE  TypeInv'
  <2> DEFINE new == [sid |-> sid, at |-> at, expected |-> expected,
                     receipts |-> 0, first |-> NoReceipt, call |-> "appended"]
  <2>1. at \in Nat
    BY StampIsTime DEF TypeInv
  <2>2. new \in Track
    BY <2>1 DEF Track, NoReceipt
  <2>3. pubTracks' = Append(pubTracks, new) /\ Len(pubTracks) < MaxTracks
    BY <1>4 DEF AppendTrack
  <2>4. pubTracks \in Seq(Track)
    BY DEF TypeInv, TypeOK
  <2> HIDE DEF new
  <2>5. pubTracks' \in Seq(Track) /\ Len(pubTracks') <= MaxTracks
    BY <2>2, <2>3, <2>4
  <2> QED BY <1>4, <2>5 DEF AppendTrack, TypeInv, TypeOK, PendingSendsWait
<1>5. ASSUME NEW i \in DOMAIN pubTracks, RegisterTrack(i), UNCHANGED now
      PROVE  TypeInv'
  <2> DEFINE track == pubTracks[i]
  <2>1. /\ pubTracks \in Seq(Track) /\ Len(pubTracks) <= MaxTracks
        /\ track \in Track /\ PubTrack \in Kinds
    BY RegistryAssumption DEF TypeInv, TypeOK, RegistryAssumption
  <2>2. track.sid \in Ids /\ track.at \in Nat /\ track.expected \in 0..MaxExpected
    BY <2>1 DEF Track
  <2>3. RecordSend(PubTrack, track.sid, track.at, track.expected)
    BY <1>5 DEF RegisterTrack
  <2>4. [track EXCEPT !.call = "registered"] \in Track
    BY <2>1 DEF Track
  <2>5. pubTracks' = [pubTracks EXCEPT ![i] = [track EXCEPT !.call = "registered"]]
    BY <1>5 DEF RegisterTrack
  <2>6. pubTracks' \in Seq(Track) /\ Len(pubTracks') <= MaxTracks
    BY <2>1, <2>4, <2>5
  <2> QED BY <1>5, <2>1, <2>2, <2>3, <2>6, RecordSendKeepsType DEF TypeInv, TypeOK
<1>6. ASSUME NEW i \in DOMAIN pubTracks, AttachTrack(i), UNCHANGED now
      PROVE  TypeInv'
  <2> DEFINE key == <<PubTrack, pubTracks[i].sid>>
             track == pubTracks[i]
  <2>1. /\ pubTracks \in Seq(Track) /\ Len(pubTracks) <= MaxTracks
        /\ track \in Track
    BY DEF TypeInv, TypeOK
  <2>2. [track EXCEPT !.call = "returned"] \in Track
    BY <2>1 DEF Track
  <2>3. pubTracks' = [pubTracks EXCEPT ![i] = [track EXCEPT !.call = "returned"]]
    BY <1>6 DEF AttachTrack
  <2>4. pubTracks' \in Seq(Track) /\ Len(pubTracks') <= MaxTracks
    BY <2>1, <2>2, <2>3
  <2> QED BY <1>6, <2>4, AttachTrackKeepsSends
          DEF AttachTrack, TypeInv, TypeOK, PendingSendsWait
<1>7. CASE UNCHANGED vars
  BY <1>7 DEF vars, registryVars, TypeInv, TypeOK, PendingSendsWait
<1> QED BY <1>1, <1>2, <1>3, <1>4, <1>5, <1>6, <1>7 DEF Next, Step

(***************************************************************************)
(* The registry, the fan counters and the track records keep their types:  *)
(* in particular no entry and no track record ever counts more receipts    *)
(* than a send can expect (report.go:357-383).                             *)
(***************************************************************************)
THEOREM TypeCorrect == Spec => []TypeOK
<1>1. TypeInv => TypeOK
  BY DEF TypeInv
<1> QED BY <1>1, TypeInvInit, TypeInvStep, PTL DEF Spec

(***************************************************************************)
(* A pending send always still waits for a receipt, and is latched exactly *)
(* when it has had one (report.go:362-380).                                *)
(***************************************************************************)
THEOREM PendingSendsAlwaysWait == Spec => []PendingSendsWait
<1>1. TypeInv => PendingSendsWait
  BY DEF TypeInv
<1> QED BY <1>1, TypeInvInit, TypeInvStep, PTL DEF Spec

-------------------------------------------------------------------------------
(* The cap.                                                                *)

\* A cardinality says something of finite sets only.
BoundInv == IsFiniteSet(DOMAIN rtt) /\ RegistryBounded

\* RecordSend alone adds an entry, and only below the cap.
LEMMA BoundInvStep == TypeInv /\ BoundInv /\ [Next]_vars => BoundInv'
<1> SUFFICES ASSUME TypeInv, BoundInv, [Next]_vars PROVE BoundInv'
  OBVIOUS
<1> USE ConstantsAreNaturals
<1>1. ASSUME DOMAIN rtt' \subseteq DOMAIN rtt
      PROVE  BoundInv'
  <2>1. /\ IsFiniteSet(DOMAIN rtt')
        /\ Cardinality(DOMAIN rtt') <= Cardinality(DOMAIN rtt)
        /\ Cardinality(DOMAIN rtt') \in Nat /\ Cardinality(DOMAIN rtt) \in Nat
    BY <1>1, FS_Subset, FS_CardinalityType DEF BoundInv
  <2> QED BY <2>1 DEF BoundInv, RegistryBounded
<1>2. ASSUME NEW kind, NEW id, NEW at, NEW expected,
             RecordSend(kind, id, at, expected)
      PROVE  BoundInv'
  <2>1. CASE rtt' = Restrict(rtt, Kept(at))
    BY <1>1, <2>1, KeptIsSubset DEF Restrict
  <2>2. CASE ~Full(at) /\ rtt' = Registered(<<kind, id>>, at, expected)
    <3>1. DOMAIN rtt' = Kept(at) \cup {<<kind, id>>}
      BY <2>2 DEF Registered
    <3>2. IsFiniteSet(Kept(at)) /\ Cardinality(Kept(at)) \in Nat
      BY KeptIsSubset, FS_Subset, FS_CardinalityType DEF BoundInv
    <3>3. Cardinality(Kept(at)) + 1 <= Cap
      BY <2>2, <3>2 DEF Full
    <3>4. /\ IsFiniteSet(Kept(at) \cup {<<kind, id>>})
          /\ \/ Cardinality(Kept(at) \cup {<<kind, id>>}) = Cardinality(Kept(at))
             \/ Cardinality(Kept(at) \cup {<<kind, id>>}) = Cardinality(Kept(at)) + 1
      BY <3>2, FS_AddElement
    <3> QED BY <3>1, <3>2, <3>3, <3>4 DEF BoundInv, RegistryBounded
  <2> QED BY <1>2, <2>1, <2>2 DEF RecordSend
<1>3. ASSUME NEW kind, NEW id, NEW at, RecordRecv(kind, id, at)
      PROVE  BoundInv'
  <2>1. DOMAIN rtt' \subseteq DOMAIN rtt
    BY <1>3 DEF RecordRecv, registryVars, Restrict
  <2> QED BY <1>1, <2>1
<1>4. ASSUME NEW i \in DOMAIN pubTracks, AttachTrack(i)
      PROVE  BoundInv'
  <2>1. DOMAIN rtt' \subseteq DOMAIN rtt
    BY <1>4 DEF AttachTrack
  <2> QED BY <1>1, <2>1
<1>5. ASSUME NEW i \in DOMAIN pubTracks, RegisterTrack(i)
      PROVE  BoundInv'
  BY <1>2, <1>5 DEF RegisterTrack
<1>6. CASE UNCHANGED rtt
  BY <1>1, <1>6
<1>7. CASE Tick
  BY <1>6, <1>7 DEF Tick, registryVars
<1>8. CASE UNCHANGED vars
  BY <1>6, <1>8 DEF vars, registryVars
<1>9. ASSUME NEW sid, NEW at, NEW expected, AppendTrack(sid, at, expected)
      PROVE  BoundInv'
  BY <1>6, <1>9 DEF AppendTrack
<1> QED BY <1>2, <1>3, <1>4, <1>5, <1>7, <1>8, <1>9 DEF Next, Step

(***************************************************************************)
(* However many sends never complete, the registry never holds more than   *)
(* Cap of them (report.go:311-333).                                        *)
(***************************************************************************)
THEOREM RegistryAlwaysBounded == Spec => []RegistryBounded
<1>1. Init => BoundInv
  <2> SUFFICES ASSUME Init PROVE BoundInv
    OBVIOUS
  <2>1. DOMAIN rtt = {}
    BY DEF Init
  <2>2. IsFiniteSet({}) /\ Cardinality({}) = 0
    BY FS_EmptySet
  <2> QED BY <2>1, <2>2, ConstantsAreNaturals DEF BoundInv, RegistryBounded
<1>2. BoundInv => RegistryBounded
  BY DEF BoundInv
<1> QED BY <1>1, <1>2, TypeInvInit, TypeInvStep, BoundInvStep, PTL DEF Spec

-------------------------------------------------------------------------------
(* The fan figure.                                                         *)

\* A kind owes finitely many receipts.
LEMMA OpenSlotsFinite ==
  ASSUME NEW kind
  PROVE  IsFiniteSet(OpenSlots(kind)) /\ Cardinality(OpenSlots(kind)) \in Nat
<1>1. IsFiniteSet(Ids) /\ IsFiniteSet(1..MaxExpected)
  BY RegistryAssumption, ConstantsAreNaturals, FS_Interval DEF RegistryAssumption
<1>2. IsFiniteSet(Ids \X (1..MaxExpected))
  BY <1>1, FS_Product
<1>3. OpenSlots(kind) \subseteq Ids \X (1..MaxExpected)
  BY DEF OpenSlots
<1> QED BY <1>2, <1>3, FS_Subset, FS_CardinalityType

\* When what is owed grows by a set of n slots at most, its number grows by n
\* at most.
LEMMA OwedGrowsWithPromise ==
  ASSUME NEW owed, NEW added, NEW owedNext, NEW n \in Nat,
         NEW arrived \in Nat, NEW expected \in Nat,
         IsFiniteSet(owed), IsFiniteSet(added), Cardinality(added) = n,
         owedNext \subseteq owed \cup added,
         Cardinality(owed) + arrived <= expected
  PROVE  Cardinality(owedNext) + arrived <= expected + n
<1>1. /\ IsFiniteSet(owed \cup added)
      /\ Cardinality(owed \cup added)
           = Cardinality(owed) + n - Cardinality(owed \cap added)
  BY FS_Union
<1>2. /\ IsFiniteSet(owedNext)
      /\ Cardinality(owedNext) <= Cardinality(owed \cup added)
  BY <1>1, FS_Subset
<1>3. IsFiniteSet(owed \cap added)
  BY FS_Intersection
<1>4. /\ Cardinality(owed) \in Nat /\ Cardinality(owedNext) \in Nat
      /\ Cardinality(owed \cup added) \in Nat
      /\ Cardinality(owed \cap added) \in Nat
  BY <1>1, <1>2, <1>3, FS_CardinalityType
<1> QED BY <1>1, <1>2, <1>4

\* The three ways a step may touch what is owed: it closes slots (or nothing
\* happens to them), it promises n receipts of one send and opens at most their
\* n slots, or it credits a receipt and closes its slot.
OwesNoMore ==
  /\ UNCHANGED <<fanExpected, fanArrived>>
  /\ \A k \in Kinds : OpenSlots(k)' \subseteq OpenSlots(k)

Promises(kind, id, n) ==
  /\ fanExpected' = [fanExpected EXCEPT ![kind] = @ + n]
  /\ UNCHANGED fanArrived
  /\ \A k \in Kinds \ {kind} : OpenSlots(k)' \subseteq OpenSlots(k)
  /\ OpenSlots(kind)' \subseteq OpenSlots(kind) \cup ({id} \X (1..n))

Credits(kind, slot) ==
  /\ fanArrived' = [fanArrived EXCEPT ![kind] = @ + 1]
  /\ UNCHANGED fanExpected
  /\ \A k \in Kinds \ {kind} : OpenSlots(k)' \subseteq OpenSlots(k)
  /\ slot \in OpenSlots(kind)
  /\ OpenSlots(kind)' \subseteq OpenSlots(kind) \ {slot}

\* RecordSend opens slots of its own send only, and as many as it promises; the
\* sweep, the cap and the overwriting of an entry only close slots.
LEMMA RecordSendOpensWhatItPromises ==
  ASSUME TypeInv, NEW kind \in Kinds, NEW id \in Ids, NEW at \in Nat,
         NEW expected \in 0..MaxExpected, RecordSend(kind, id, at, expected)
  PROVE  \/ OwesNoMore
         \/ expected \in 1..MaxExpected /\ Promises(kind, id, expected)
<1>1. CASE rtt' = Restrict(rtt, Kept(at)) /\ fanExpected' = fanExpected
  <2>1. DOMAIN rtt' \subseteq DOMAIN rtt /\ \A key \in DOMAIN rtt' : rtt'[key] = rtt[key]
    BY <1>1, KeptIsSubset DEF Restrict
  <2>2. \A k \in Kinds : OpenSlots(k)' \subseteq OpenSlots(k)
    BY <2>1 DEF OpenSlots
  <2> QED BY <1>1, <2>2 DEF OwesNoMore, RecordSend
<1>2. CASE /\ Awaited(expected)
           /\ fanExpected' = [fanExpected EXCEPT ![kind] = @ + expected]
           /\ rtt' = Registered(<<kind, id>>, at, expected)
  <2>1. /\ DOMAIN rtt' = Kept(at) \cup {<<kind, id>>}
        /\ rtt'[<<kind, id>>].received = 0
        /\ rtt'[<<kind, id>>].expected = expected
        /\ \A key \in DOMAIN rtt' \ {<<kind, id>>} :
             key \in DOMAIN rtt /\ rtt'[key] = rtt[key]
    BY <1>2, KeptIsSubset DEF Registered
  <2>2. ASSUME NEW k \in Kinds \ {kind}
        PROVE  OpenSlots(k)' \subseteq OpenSlots(k)
    BY <2>1 DEF OpenSlots
  <2>3. ASSUME NEW slot \in OpenSlots(kind)', slot \notin OpenSlots(kind)
        PROVE  slot \in {id} \X (1..expected)
    <3>1. /\ slot \in Ids \X (1..MaxExpected)
          /\ <<kind, slot[1]>> \in DOMAIN rtt'
          /\ rtt'[<<kind, slot[1]>>].received < slot[2]
          /\ slot[2] <= rtt'[<<kind, slot[1]>>].expected
      BY <2>3 DEF OpenSlots
    <3>2. slot[1] = id
      BY <2>1, <2>3, <3>1 DEF OpenSlots
    <3>3. slot[2] \in 1..expected
      BY <2>1, <3>1, <3>2, ConstantsAreNaturals
    <3> QED BY <3>1, <3>2, <3>3
  <2>4. expected \in 1..MaxExpected /\ UNCHANGED fanArrived
    BY <1>2, ConstantsAreNaturals DEF Awaited, RecordSend
  <2> QED BY <1>2, <2>2, <2>3, <2>4 DEF Promises
<1> QED BY <1>1, <1>2 DEF RecordSend

\* RecordRecv of a pending send closes one slot of its kind.
LEMMA RecordRecvClosesASlot ==
  ASSUME TypeInv, NEW kind \in Kinds, NEW id \in Ids, NEW at \in Nat,
         <<kind, id>> \in DOMAIN rtt, RecordRecv(kind, id, at)
  PROVE  Credits(kind, <<id, rtt[<<kind, id>>].received + 1>>)
<1> DEFINE key == <<kind, id>>
           slot == <<id, rtt[key].received + 1>>
<1>1. /\ rtt[key].received \in Nat /\ rtt[key].expected \in 1..MaxExpected
      /\ rtt[key].received < rtt[key].expected
  BY PendingSendIsSend, ConstantsAreNaturals DEF TypeInv, PendingSendsWait
<1>2. slot \in OpenSlots(kind)
  BY <1>1, ConstantsAreNaturals DEF OpenSlots
<1>3. Receipted(key).received = rtt[key].received + 1
      /\ Receipted(key).expected = rtt[key].expected
  BY ReceiptedIsSend
<1>4. /\ DOMAIN rtt' \subseteq DOMAIN rtt
      /\ \A k \in DOMAIN rtt' \ {key} : rtt'[k] = rtt[k]
      /\ key \in DOMAIN rtt' => /\ rtt'[key].received = rtt[key].received + 1
                               /\ rtt'[key].expected = rtt[key].expected
  BY <1>3, RecordRecvCases
<1>5. ASSUME NEW k \in Kinds \ {kind}
      PROVE  OpenSlots(k)' \subseteq OpenSlots(k)
  BY <1>4 DEF OpenSlots
<1>6. ASSUME NEW s \in OpenSlots(kind)'
      PROVE  s \in OpenSlots(kind) \ {slot}
  <2>1. /\ s \in Ids \X (1..MaxExpected) /\ <<kind, s[1]>> \in DOMAIN rtt'
        /\ rtt'[<<kind, s[1]>>].received < s[2]
        /\ s[2] <= rtt'[<<kind, s[1]>>].expected
    BY <1>6 DEF OpenSlots
  <2>2. CASE s[1] = id
    <3>1. rtt[key].received + 1 < s[2] /\ s[2] <= rtt[key].expected
      BY <1>4, <2>1, <2>2
    <3> QED BY <1>1, <2>1, <2>2, <3>1, ConstantsAreNaturals DEF OpenSlots
  <2>3. CASE s[1] # id
    BY <1>4, <2>1, <2>3 DEF OpenSlots
  <2> QED BY <2>2, <2>3
<1> QED BY <1>2, <1>5, <1>6 DEF Credits, RecordRecv

\* Every step of the registry is one of the three.
LEMMA StepOwes ==
  ASSUME TypeInv, [Next]_vars
  PROVE  \/ OwesNoMore
         \/ \E kind \in Kinds, id \in Ids, n \in 1..MaxExpected : Promises(kind, id, n)
         \/ \E kind \in Kinds, slot \in Ids \X (1..MaxExpected) : Credits(kind, slot)
<1>1. ASSUME UNCHANGED <<rtt, fanExpected, fanArrived>>
      PROVE  OwesNoMore
  BY <1>1 DEF OwesNoMore, OpenSlots
<1>2. CASE Tick \/ UNCHANGED vars
  BY <1>1, <1>2 DEF Tick, vars, registryVars
<1>3. ASSUME NEW kind \in Kinds, NEW id \in Ids, NEW at \in Nat,
             NEW expected \in 0..MaxExpected, RecordSend(kind, id, at, expected)
      PROVE  \/ OwesNoMore
             \/ \E n \in 1..MaxExpected : Promises(kind, id, n)
  BY <1>3, RecordSendOpensWhatItPromises
<1>4. ASSUME NEW kind \in Kinds, NEW id \in Ids, NEW at \in Stamps,
             RecordRecv(kind, id, at)
      PROVE  OwesNoMore \/ \E slot \in Ids \X (1..MaxExpected) : Credits(kind, slot)
  <2>1. CASE <<kind, id>> \notin DOMAIN rtt
    BY <1>1, <1>4, <2>1 DEF RecordRecv, registryVars
  <2>2. CASE <<kind, id>> \in DOMAIN rtt
    <3>1. PICK slot : Credits(kind, slot)
      BY <1>4, <2>2, StampIsTime, RecordRecvClosesASlot DEF TypeInv
    <3>2. slot \in Ids \X (1..MaxExpected)
      BY <3>1 DEF Credits, OpenSlots
    <3> QED BY <3>1, <3>2
  <2> QED BY <2>1, <2>2
<1>5. ASSUME NEW sid, NEW at, NEW expected, AppendTrack(sid, at, expected)
      PROVE  OwesNoMore
  BY <1>1, <1>5 DEF AppendTrack
<1>6. ASSUME NEW i \in DOMAIN pubTracks, RegisterTrack(i)
      PROVE  \/ OwesNoMore
             \/ \E kind \in Kinds, id \in Ids, n \in 1..MaxExpected : Promises(kind, id, n)
  <2>1. pubTracks[i] \in Track /\ PubTrack \in Kinds
    BY RegistryAssumption DEF TypeInv, TypeOK, RegistryAssumption
  <2>2. /\ pubTracks[i].sid \in Ids /\ pubTracks[i].at \in Nat
        /\ pubTracks[i].expected \in 0..MaxExpected
    BY <2>1 DEF Track
  <2> QED BY <1>3, <1>6, <2>1, <2>2 DEF RegisterTrack
<1>7. ASSUME NEW i \in DOMAIN pubTracks, AttachTrack(i)
      PROVE  OwesNoMore
  <2>1. \A k \in Kinds : OpenSlots(k)' \subseteq OpenSlots(k)
    BY <1>7, AttachTrackKeepsSends DEF OpenSlots
  <2> QED BY <1>7, <2>1 DEF AttachTrack, OwesNoMore
<1> QED BY <1>2, <1>3, <1>4, <1>5, <1>6, <1>7, StampIsTime DEF Next, Step, TypeInv

\* A step that opens slots has promised as many; a receipt closes the slot it
\* counts, so the figure and what is still owed stay within the promise.
LEMMA FanInvStep == TypeInv /\ FanWithinExpected /\ [Next]_vars => FanWithinExpected'
<1> SUFFICES ASSUME TypeInv, FanWithinExpected, [Next]_vars, NEW k \in Kinds
             PROVE  Cardinality(OpenSlots(k)') + fanArrived'[k] <= fanExpected'[k]
  BY DEF FanWithinExpected
<1>1. /\ fanExpected \in [Kinds -> Nat] /\ fanArrived \in [Kinds -> Nat]
      /\ fanExpected[k] \in Nat /\ fanArrived[k] \in Nat
      /\ Cardinality(OpenSlots(k)) + fanArrived[k] <= fanExpected[k]
  BY ConstantsAreNaturals DEF TypeInv, TypeOK, FanWithinExpected
<1>2. IsFiniteSet(OpenSlots(k)) /\ Cardinality(OpenSlots(k)) \in Nat
  BY OpenSlotsFinite
<1>3. ASSUME OpenSlots(k)' \subseteq OpenSlots(k),
             fanExpected'[k] = fanExpected[k], fanArrived'[k] = fanArrived[k]
      PROVE  Cardinality(OpenSlots(k)') + fanArrived'[k] <= fanExpected'[k]
  <2>1. /\ Cardinality(OpenSlots(k)') <= Cardinality(OpenSlots(k))
        /\ Cardinality(OpenSlots(k)') \in Nat
    BY <1>2, <1>3, FS_Subset, FS_CardinalityType
  <2> QED BY <1>1, <1>2, <1>3, <2>1
<1>4. CASE OwesNoMore
  BY <1>3, <1>4 DEF OwesNoMore
<1>5. ASSUME NEW kind \in Kinds, NEW id \in Ids, NEW n \in 1..MaxExpected,
             Promises(kind, id, n)
      PROVE  Cardinality(OpenSlots(k)') + fanArrived'[k] <= fanExpected'[k]
  <2>1. CASE k # kind
    BY <1>1, <1>3, <1>5, <2>1 DEF Promises
  <2>2. CASE k = kind
    <3>1. /\ fanExpected'[k] = fanExpected[k] + n /\ fanArrived'[k] = fanArrived[k]
          /\ OpenSlots(k)' \subseteq OpenSlots(k) \cup ({id} \X (1..n))
      BY <1>1, <1>5, <2>2 DEF Promises
    <3>2. IsFiniteSet({id} \X (1..n)) /\ Cardinality({id} \X (1..n)) = n
      <4>1. IsFiniteSet({id}) /\ Cardinality({id}) = 1
        BY FS_Singleton
      <4>2. IsFiniteSet(1..n) /\ Cardinality(1..n) = n
        BY ConstantsAreNaturals, FS_Interval
      <4>3. /\ IsFiniteSet({id} \X (1..n))
            /\ Cardinality({id} \X (1..n)) = Cardinality({id}) * Cardinality(1..n)
        BY <4>1, <4>2, FS_Product
      <4>4. n \in Int /\ 1 * n = n
        BY ConstantsAreNaturals
      <4> QED BY <4>1, <4>2, <4>3, <4>4
    <3> QED BY <1>1, <1>2, <3>1, <3>2, OwedGrowsWithPromise, ConstantsAreNaturals
  <2> QED BY <2>1, <2>2
<1>6. ASSUME NEW kind \in Kinds, NEW slot, Credits(kind, slot)
      PROVE  Cardinality(OpenSlots(k)') + fanArrived'[k] <= fanExpected'[k]
  <2>1. CASE k # kind
    BY <1>1, <1>3, <1>6, <2>1 DEF Credits
  <2>2. CASE k = kind
    <3>1. /\ fanExpected'[k] = fanExpected[k] /\ fanArrived'[k] = fanArrived[k] + 1
          /\ slot \in OpenSlots(k) /\ OpenSlots(k)' \subseteq OpenSlots(k) \ {slot}
      BY <1>1, <1>6, <2>2 DEF Credits
    <3>2. /\ IsFiniteSet(OpenSlots(k) \ {slot})
          /\ Cardinality(OpenSlots(k) \ {slot}) = Cardinality(OpenSlots(k)) - 1
      BY <1>2, <3>1, FS_RemoveElement
    <3>3. /\ Cardinality(OpenSlots(k)') <= Cardinality(OpenSlots(k) \ {slot})
          /\ Cardinality(OpenSlots(k)') \in Nat
      BY <3>1, <3>2, FS_Subset, FS_CardinalityType
    <3> QED BY <1>1, <1>2, <3>1, <3>2, <3>3
  <2> QED BY <2>1, <2>2
<1> QED BY <1>4, <1>5, <1>6, StepOwes

\* At the start nothing is owed and nothing has arrived.
LEMMA FanInvInit == Init => FanWithinExpected
<1> SUFFICES ASSUME Init, NEW k \in Kinds
             PROVE  Cardinality(OpenSlots(k)) + fanArrived[k] <= fanExpected[k]
  BY DEF FanWithinExpected
<1>1. OpenSlots(k) = {} /\ fanArrived[k] = 0 /\ fanExpected[k] = 0
  BY DEF Init, OpenSlots
<1> QED BY <1>1, FS_EmptySet

(***************************************************************************)
(* The fan figure never exceeds 100%, for any callers: what has arrived    *)
(* and what is still owed together never exceed what was promised, so the  *)
(* sweep, the cap, re-registered ids and late receipts can only lower the  *)
(* figure (report.go:305-383).                                             *)
(***************************************************************************)
THEOREM FanAlwaysWithinExpected == Spec => []FanWithinExpected
  BY TypeInvInit, TypeInvStep, FanInvInit, FanInvStep, PTL DEF Spec

(***************************************************************************)
(* The collector's accounting implements the ledger: every step promises   *)
(* to at least one recipient, credits a receipt that was still owed, or    *)
(* leaves both figures alone (report.go:332-333, 366).                     *)
(***************************************************************************)
THEOREM RegistryImplementsLedger == Spec => ImplementsLedger
<1>1. Init => Ledger!Init
  BY DEF Init, Ledger!Init
<1>2. TypeInv /\ FanWithinExpected /\ [Next]_vars => [Ledger!Next]_Ledger!ledgerVars
  <2> SUFFICES ASSUME TypeInv, FanWithinExpected, [Next]_vars
               PROVE  [Ledger!Next]_Ledger!ledgerVars
    OBVIOUS
  <2>1. CASE OwesNoMore
    BY <2>1 DEF OwesNoMore, Ledger!ledgerVars
  <2>2. ASSUME NEW kind \in Kinds, NEW id, NEW n \in 1..MaxExpected,
               Promises(kind, id, n)
        PROVE  Ledger!Next
    BY <2>2 DEF Promises, Ledger!Next, Ledger!Promise
  <2>3. ASSUME NEW kind \in Kinds, NEW slot, Credits(kind, slot)
        PROVE  Ledger!Next
    <3>1. slot \in OpenSlots(kind)
      BY <2>3 DEF Credits
    <3>2. /\ IsFiniteSet(OpenSlots(kind)) /\ Cardinality(OpenSlots(kind)) \in Nat
          /\ Cardinality(OpenSlots(kind)) # 0
      BY <3>1, OpenSlotsFinite, FS_EmptySet
    <3>3. fanArrived[kind] < fanExpected[kind]
      BY <3>2, ConstantsAreNaturals DEF FanWithinExpected, TypeInv, TypeOK
    <3> QED BY <2>3, <3>3 DEF Credits, Ledger!Next, Ledger!Credit
  <2> QED BY <2>1, <2>2, <2>3, StepOwes
<1> QED BY <1>1, <1>2, TypeInvInit, TypeInvStep, FanInvInit, FanInvStep, PTL
        DEF Spec, ImplementsLedger, Ledger!Spec

-------------------------------------------------------------------------------
(* The track records.                                                      *)

\* A record is attached to the entry of its own track only, and that entry
\* expects what the record does; the first two parts make "its own" well defined
\* and keep the stamp of a record in the past.
TracksInv ==
  /\ \A i \in DOMAIN pubTracks : pubTracks[i].at <= now
  /\ \A i, j \in DOMAIN pubTracks : pubTracks[i].sid = pubTracks[j].sid => i = j
  /\ \A key \in DOMAIN rtt :
       key[1] = PubTrack =>
         \E i \in DOMAIN pubTracks : /\ pubTracks[i].sid = key[2]
                                     /\ pubTracks[i].expected = rtt[key].expected
  /\ \A key \in DOMAIN rtt :
       rtt[key].pt # NoTrack => /\ key[1] = PubTrack
                                /\ rtt[key].pt \in DOMAIN pubTracks
                                /\ pubTracks[rtt[key].pt].sid = key[2]
  /\ TrackReceiptsBounded

\* A receipt changes nothing of a record but its receipts and its first receipt.
LEMMA TrackReceiptedKeepsTrack ==
  ASSUME TypeInv, NEW key \in DOMAIN rtt, NEW at, NEW i \in DOMAIN pubTracks
  PROVE  /\ DOMAIN TrackReceipted(key, at) = DOMAIN pubTracks
         /\ TrackReceipted(key, at)[i].sid = pubTracks[i].sid
         /\ TrackReceipted(key, at)[i].at = pubTracks[i].at
         /\ TrackReceipted(key, at)[i].expected = pubTracks[i].expected
         /\ TrackReceipted(key, at)[i].receipts =
              IF rtt[key].pt = i THEN rtt[key].received + 1 ELSE pubTracks[i].receipts
<1>1. pubTracks[i] \in Track /\ i # NoTrack /\ DOMAIN pubTracks = 1..Len(pubTracks)
  BY DEF TypeInv, TypeOK, NoTrack
<1>2. CASE rtt[key].pt = NoTrack
  BY <1>1, <1>2 DEF TrackReceipted
<1>3. CASE rtt[key].pt # NoTrack
  BY <1>1, <1>3 DEF TrackReceipted, Track
<1> QED BY <1>2, <1>3

\* If the records keep their identity and the entries stay attached as they are
\* (or go, or are registered without a record), so does the invariant.
LEMMA TracksInvFrame ==
  ASSUME TracksInv, now' >= now, now \in Nat, now' \in Nat, TypeInv,
         DOMAIN pubTracks' = DOMAIN pubTracks,
         \A i \in DOMAIN pubTracks : /\ pubTracks'[i].sid = pubTracks[i].sid
                                     /\ pubTracks'[i].at = pubTracks[i].at
                                     /\ pubTracks'[i].expected = pubTracks[i].expected
                                     /\ pubTracks'[i].receipts <= pubTracks[i].expected,
         \A key \in DOMAIN rtt' :
           \/ /\ key \in DOMAIN rtt
              /\ rtt'[key].pt = rtt[key].pt /\ rtt'[key].expected = rtt[key].expected
           \/ /\ key \in DOMAIN rtt /\ rtt'[key].expected = rtt[key].expected
              /\ key[1] = PubTrack /\ rtt'[key].pt \in DOMAIN pubTracks
              /\ pubTracks[rtt'[key].pt].sid = key[2]
           \/ key[1] # PubTrack /\ rtt'[key].pt = NoTrack
           \/ /\ key[1] = PubTrack /\ rtt'[key].pt = NoTrack
              /\ \E i \in DOMAIN pubTracks :
                   /\ pubTracks[i].sid = key[2]
                   /\ pubTracks[i].expected = rtt'[key].expected
  PROVE  TracksInv'
<1>1. ASSUME NEW i \in DOMAIN pubTracks PROVE pubTracks[i].at \in Nat
  <2>1. pubTracks[i] \in Track
    BY DEF TypeInv, TypeOK
  <2> QED BY <2>1 DEF Track
<1>2. \A i \in DOMAIN pubTracks' : pubTracks'[i].at <= now'
  BY <1>1 DEF TracksInv
<1>3. \A i, j \in DOMAIN pubTracks' : pubTracks'[i].sid = pubTracks'[j].sid => i = j
  BY DEF TracksInv
<1>4. ASSUME NEW key \in DOMAIN rtt', key[1] = PubTrack
      PROVE  \E i \in DOMAIN pubTracks' : /\ pubTracks'[i].sid = key[2]
                                          /\ pubTracks'[i].expected = rtt'[key].expected
  BY <1>4 DEF TracksInv
<1>5. ASSUME NEW key \in DOMAIN rtt', rtt'[key].pt # NoTrack
      PROVE  /\ key[1] = PubTrack
             /\ rtt'[key].pt \in DOMAIN pubTracks'
             /\ pubTracks'[rtt'[key].pt].sid = key[2]
  BY <1>5 DEF TracksInv
<1>6. TrackReceiptsBounded'
  BY DEF TrackReceiptsBounded
<1> QED BY <1>2, <1>3, <1>4, <1>5, <1>6 DEF TracksInv

\* Every step keeps each track's receipts and its send's in step.
LEMMA TracksInvStep == TypeInv /\ TracksInv /\ [Next]_vars => TracksInv'
<1> SUFFICES ASSUME TypeInv, TracksInv, [Next]_vars PROVE TracksInv'
  OBVIOUS
<1>1. /\ now \in Nat /\ PubTrack \in Kinds
      /\ \A i \in DOMAIN pubTracks : pubTracks[i] \in Track
  BY ConstantsAreNaturals, RegistryAssumption DEF RegistryAssumption, TypeInv, TypeOK
<1>2. \A i \in DOMAIN pubTracks : pubTracks[i].receipts <= pubTracks[i].expected
  BY DEF TracksInv, TrackReceiptsBounded
<1>3. CASE Tick
  BY <1>1, <1>2, <1>3, TracksInvFrame DEF Tick, registryVars
<1>4. CASE UNCHANGED vars
  BY <1>1, <1>2, <1>4, TracksInvFrame DEF vars, registryVars
<1>5. ASSUME NEW kind \in Kinds, NEW id \in Ids, NEW at, NEW expected,
             RecordSend(kind, id, at, expected), NEW key \in DOMAIN rtt'
      PROVE  \/ /\ key \in DOMAIN rtt
                /\ rtt'[key].pt = rtt[key].pt /\ rtt'[key].expected = rtt[key].expected
             \/ /\ key = <<kind, id>> /\ rtt'[key].pt = NoTrack
                /\ rtt'[key].expected = expected
  BY <1>5, KeptIsSubset DEF RecordSend, Registered, Restrict
<1>6. ASSUME NEW kind \in Kinds \ {PubTrack}, NEW id \in Ids, NEW at, NEW expected,
             RecordSend(kind, id, at, expected), UNCHANGED <<now, pubTracks>>
      PROVE  TracksInv'
  BY <1>1, <1>2, <1>5, <1>6, TracksInvFrame
<1>7. ASSUME NEW i \in DOMAIN pubTracks, RegisterTrack(i), UNCHANGED now
      PROVE  TracksInv'
  <2> DEFINE track == pubTracks[i]
  <2>1. /\ track.sid \in Ids
        /\ RecordSend(PubTrack, track.sid, track.at, track.expected)
    BY <1>1, <1>7 DEF Track, RegisterTrack
  <2>2. ASSUME NEW j \in DOMAIN pubTracks
        PROVE  /\ pubTracks'[j].sid = pubTracks[j].sid
               /\ pubTracks'[j].at = pubTracks[j].at
               /\ pubTracks'[j].expected = pubTracks[j].expected
               /\ pubTracks'[j].receipts = pubTracks[j].receipts
    BY <1>1, <1>7 DEF RegisterTrack, Track
  <2>3. DOMAIN pubTracks' = DOMAIN pubTracks
    BY <1>7 DEF RegisterTrack
  <2> QED BY <1>1, <1>2, <1>5, <1>7, <2>1, <2>2, <2>3, TracksInvFrame
<1>8. ASSUME NEW i \in DOMAIN pubTracks, AttachTrack(i), UNCHANGED now
      PROVE  TracksInv'
  <2>1. ASSUME NEW j \in DOMAIN pubTracks
        PROVE  /\ pubTracks'[j].sid = pubTracks[j].sid
               /\ pubTracks'[j].at = pubTracks[j].at
               /\ pubTracks'[j].expected = pubTracks[j].expected
               /\ pubTracks'[j].receipts = pubTracks[j].receipts
    BY <1>1, <1>8 DEF AttachTrack, Track
  <2>2. DOMAIN pubTracks' = DOMAIN pubTracks
    BY <1>8 DEF AttachTrack
  <2>3. ASSUME NEW key \in DOMAIN rtt'
        PROVE  /\ key \in DOMAIN rtt /\ rtt'[key].expected = rtt[key].expected
               /\ \/ rtt'[key].pt = rtt[key].pt
                  \/ key = <<PubTrack, pubTracks[i].sid>> /\ rtt'[key].pt = i
    <3>1. key \in DOMAIN rtt /\ rtt'[key].expected = rtt[key].expected
      BY <1>8, AttachTrackKeepsSends
    <3>2. rtt[key] \in Send
      BY <3>1, PendingSendIsSend DEF TypeInv
    <3> QED BY <1>8, <3>1, <3>2 DEF AttachTrack, Send
  <2> QED BY <1>1, <1>2, <1>8, <2>1, <2>2, <2>3, TracksInvFrame
<1>9. ASSUME NEW kind \in Kinds, NEW id \in Ids, NEW at \in Nat,
             RecordRecv(kind, id, at), UNCHANGED now
      PROVE  TracksInv'
  <2> DEFINE key == <<kind, id>>
  <2>1. CASE key \notin DOMAIN rtt
    BY <1>1, <1>2, <1>9, <2>1, TracksInvFrame DEF RecordRecv, registryVars
  <2>2. CASE key \in DOMAIN rtt
    <3>1. pubTracks' = TrackReceipted(key, at)
      BY <1>9, <2>2 DEF RecordRecv
    <3>2. ASSUME NEW i \in DOMAIN pubTracks
          PROVE  /\ DOMAIN pubTracks' = DOMAIN pubTracks
                 /\ pubTracks'[i].sid = pubTracks[i].sid
                 /\ pubTracks'[i].at = pubTracks[i].at
                 /\ pubTracks'[i].expected = pubTracks[i].expected
                 /\ pubTracks'[i].receipts =
                      IF rtt[key].pt = i THEN rtt[key].received + 1
                                         ELSE pubTracks[i].receipts
      BY <2>2, <3>1, TrackReceiptedKeepsTrack
    <3>3. ASSUME NEW i \in DOMAIN pubTracks, rtt[key].pt = i
          PROVE  rtt[key].received + 1 <= pubTracks[i].expected
      <4>1. i # NoTrack
        BY <3>3 DEF NoTrack, TypeInv, TypeOK
      <4>2. key[1] = PubTrack /\ pubTracks[i].sid = key[2]
        BY <2>2, <3>3, <4>1 DEF TracksInv
      <4>3. pubTracks[i].expected = rtt[key].expected
        BY <2>2, <4>2 DEF TracksInv
      <4>4. /\ rtt[key].received < rtt[key].expected
            /\ rtt[key].received \in Nat /\ rtt[key].expected \in Nat
        BY <2>2, PendingSendIsSend, ConstantsAreNaturals DEF TypeInv, PendingSendsWait
      <4> QED BY <4>3, <4>4
    <3>4. DOMAIN pubTracks' = DOMAIN pubTracks
      BY <2>2, <3>1, TrackReceiptedIsTyped DEF TypeInv, TypeOK
    <3>5. /\ Receipted(key).pt = rtt[key].pt
          /\ Receipted(key).expected = rtt[key].expected
      BY <2>2, ReceiptedIsSend
    <3>6. ASSUME NEW k \in DOMAIN rtt'
          PROVE  /\ k \in DOMAIN rtt /\ rtt'[k].pt = rtt[k].pt
                 /\ rtt'[k].expected = rtt[k].expected
      BY <1>9, <2>2, <3>5, RecordRecvCases
    <3> QED BY <1>1, <1>2, <1>9, <3>2, <3>3, <3>4, <3>6, TracksInvFrame
  <2> QED BY <2>1, <2>2
<1>10. ASSUME NEW sid \in Ids, NEW at \in Stamps, NEW expected \in 0..MaxExpected,
              AppendTrack(sid, at, expected), UNCHANGED now
       PROVE  TracksInv'
  <2> DEFINE n == Len(pubTracks) + 1
             new == [sid |-> sid, at |-> at, expected |-> expected,
                     receipts |-> 0, first |-> NoReceipt, call |-> "appended"]
  <2>1. /\ pubTracks \in Seq(Track) /\ pubTracks' = Append(pubTracks, new)
        /\ \A i \in DOMAIN pubTracks : pubTracks[i].sid # sid
        /\ rtt' = rtt
    BY <1>10 DEF AppendTrack, TypeInv, TypeOK
  <2>2. at <= now /\ expected >= 0
    BY ConstantsAreNaturals DEF Stamps, TypeInv, TypeOK
  <2>3. /\ DOMAIN pubTracks' = DOMAIN pubTracks \cup {n}
        /\ n \notin DOMAIN pubTracks
        /\ \A i \in DOMAIN pubTracks : pubTracks'[i] = pubTracks[i]
        /\ pubTracks'[n] = new
    BY <2>1
  <2>4. \A i \in DOMAIN pubTracks' : pubTracks'[i].at <= now'
    BY <1>10, <2>2, <2>3 DEF TracksInv
  <2>5. \A i, j \in DOMAIN pubTracks' : pubTracks'[i].sid = pubTracks'[j].sid => i = j
    BY <2>1, <2>3 DEF TracksInv
  <2>6. TrackReceiptsBounded'
    BY <2>2, <2>3 DEF TracksInv, TrackReceiptsBounded
  <2>7. ASSUME NEW key \in DOMAIN rtt', key[1] = PubTrack
        PROVE  \E i \in DOMAIN pubTracks' :
                 /\ pubTracks'[i].sid = key[2]
                 /\ pubTracks'[i].expected = rtt'[key].expected
    BY <2>1, <2>3, <2>7 DEF TracksInv
  <2>8. ASSUME NEW key \in DOMAIN rtt', rtt'[key].pt # NoTrack
        PROVE  /\ key[1] = PubTrack
               /\ rtt'[key].pt \in DOMAIN pubTracks'
               /\ pubTracks'[rtt'[key].pt].sid = key[2]
    BY <2>1, <2>3, <2>8 DEF TracksInv
  <2> QED BY <2>4, <2>5, <2>6, <2>7, <2>8 DEF TracksInv
<1> QED BY <1>3, <1>4, <1>6, <1>7, <1>8, <1>9, <1>10, StampIsTime
        DEF Next, Step, TypeInv

\* There are no records at the start.
LEMMA TracksInvInit == Init => TracksInv
  BY DEF Init, TracksInv, TrackReceiptsBounded

(***************************************************************************)
(* A track's record never credits more receipts than its track expected,   *)
(* although it is attached to the pending send in a later critical section *)
(* than the one that registers it, and receipts, sweeps and other tracks'  *)
(* calls come in between (report.go:337-376).                              *)
(***************************************************************************)
THEOREM TrackReceiptsAlwaysBounded == Spec => []TrackReceiptsBounded
<1>1. TracksInv => TrackReceiptsBounded
  BY DEF TracksInv
<1> QED BY <1>1, TypeInvInit, TypeInvStep, TracksInvInit, TracksInvStep, PTL DEF Spec

-------------------------------------------------------------------------------
(* What the registry forgets.                                              *)

(***************************************************************************)
(* A pending send leaves the registry only with its last receipt, or once  *)
(* it is older than the TTL; the cap and the registration of other sends   *)
(* never evict one (report.go:305-333, 378-380).                           *)
(***************************************************************************)
THEOREM ForgetsOnlyDoneOrStaleSends == Spec => ForgetsOnlyDoneOrStale
<1> DEFINE Forgets == \A key \in DOMAIN rtt \ DOMAIN rtt' :
              \/ /\ rtt[key].received + 1 = rtt[key].expected
                 /\ fanArrived'[key[1]] = fanArrived[key[1]] + 1
              \/ now - rtt[key].at > TTL
<1>1. TypeInv /\ TracksInv /\ [Next]_vars => [Forgets]_vars
  <2> SUFFICES ASSUME TypeInv, TracksInv, Next, NEW key \in DOMAIN rtt \ DOMAIN rtt'
               PROVE  \/ /\ rtt[key].received + 1 = rtt[key].expected
                         /\ fanArrived'[key[1]] = fanArrived[key[1]] + 1
                      \/ now - rtt[key].at > TTL
    OBVIOUS
  <2>1. ~UNCHANGED rtt /\ ~Tick
    BY DEF Tick, registryVars
  <2>2. ASSUME NEW kind, NEW id, NEW at \in Nat, at <= now, NEW expected,
               RecordSend(kind, id, at, expected)
        PROVE  now - rtt[key].at > TTL
    <3>1. key \notin Kept(at)
      BY <2>2 DEF RecordSend, Registered, Restrict
    <3>2. rtt[key].at < at - TTL
      BY <3>1 DEF Kept, Stale
    <3> QED BY <2>2, <3>2, PendingSendIsSend, ConstantsAreNaturals DEF TypeInv, TypeOK
  <2>3. ASSUME NEW kind \in Kinds, NEW id \in Ids, NEW at \in Nat,
               RecordRecv(kind, id, at)
        PROVE  /\ rtt[key].received + 1 = rtt[key].expected
               /\ fanArrived'[key[1]] = fanArrived[key[1]] + 1
    <3>1. <<kind, id>> \in DOMAIN rtt
      BY <2>1, <2>3 DEF RecordRecv, registryVars
    <3>2. key = <<kind, id>> /\ rtt[key].received + 1 = rtt[key].expected
      BY <2>3, <3>1, RecordRecvCases
    <3>3. fanArrived' = [fanArrived EXCEPT ![kind] = @ + 1]
      BY <2>3, <3>1 DEF RecordRecv
    <3> QED BY <3>2, <3>3 DEF TypeInv, TypeOK
  <2>4. ASSUME NEW i \in DOMAIN pubTracks, RegisterTrack(i)
        PROVE  now - rtt[key].at > TTL
    <3>1. pubTracks[i].at \in Nat /\ pubTracks[i].at <= now
      <4>1. pubTracks[i] \in Track
        BY DEF TypeInv, TypeOK
      <4> QED BY <4>1 DEF TracksInv, Track
    <3> QED BY <2>2, <2>4, <3>1 DEF RegisterTrack
  <2>5. ASSUME NEW i \in DOMAIN pubTracks, AttachTrack(i)
        PROVE  FALSE
    BY <2>5 DEF AttachTrack
  <2>6. ASSUME NEW sid, NEW at, NEW expected, AppendTrack(sid, at, expected)
        PROVE  FALSE
    BY <2>6 DEF AppendTrack
  <2>7. \A at \in Stamps : at \in Nat /\ at <= now
    BY ConstantsAreNaturals DEF Stamps, TypeInv, TypeOK
  <2> QED BY <2>1, <2>2, <2>3, <2>4, <2>5, <2>6, <2>7 DEF Next, Step
<1> QED BY <1>1, TypeInvInit, TypeInvStep, TracksInvInit, TracksInvStep, PTL DEF Spec, ForgetsOnlyDoneOrStale

===============================================================================
