--------------------------------- MODULE Roster ---------------------------------
(***************************************************************************)
(* What one virtual user knows of its room: the peers and the donor it     *)
(* learns from users lists, whether it is presenter, and the latency of    *)
(* its own users-list requests, which is paired with the arriving chunks.  *)
(* The server answers a request with the chunks of a list, broadcasts      *)
(* lists unasked, and tells presenter switches in events; chunks of one    *)
(* list arrive in order, different lists and events interleave.            *)
(*                                                                         *)
(* An operator named ...Mutant is the operator after it as a plausible bug *)
(* would have it; the specification does not use it.                       *)
(***************************************************************************)
EXTENDS Integers, Sequences, FiniteSets, SequencesExt

CONSTANTS Self,         \* this user
          Others,       \* the other users of the room
          Bad,          \* a list entry that does not decode
          JoinedAt,     \* joinedAt of every user
          Lists,        \* the lists the server may send: sequences of pages,
                        \* a page being a sequence of users
          MaxSwitches   \* bound: presenter switches of the server

ASSUME RosterAssumption ==
  /\ Self \notin Others /\ Bad \notin Others \cup {Self}
  /\ JoinedAt \in [Others -> Nat]
  /\ Lists \subseteq Seq(Seq(Others \cup {Self, Bad})) \ {<<>>}
  /\ MaxSwitches \in Nat

VARIABLES armed,         \* ulSent is not zero
          ulNext,        \* the chunk expected next
          peers,         \* other user ids, in the order they were learned
          donor,         \* donorID; Self stands for ""
          selfPresenter, \* this user's presenter truth
          joinedSeen,    \* joins whose latency was recorded
          streams,       \* lists on their way
          updates,       \* presenter events on their way, oldest first
          presenter,     \* the server's presenter truth of this user
          switches,      \* used up of the bound
          sampled,       \* history: the last chunk recorded a latency
          disturbed      \* history: something else arrived during this round

pairing == <<armed, ulNext, sampled, disturbed>>
known == <<peers, donor>>
server == <<presenter, switches>>
vars == <<pairing, known, selfPresenter, joinedSeen, streams, updates, server>>

NoDonor == Self

\* A list on its way: its pages, the next chunk, the presenter bit it was built
\* with, and whether it answers the request that is armed ("own"), an older
\* request ("late") or none ("broadcast").
Stream(from, list) == [from |-> from, list |-> list, next |-> 0,
                       presenter |-> presenter]

Init ==
  /\ armed = FALSE /\ ulNext = 0 /\ sampled = FALSE /\ disturbed = FALSE
  /\ peers = <<>> /\ donor = NoDonor
  /\ selfPresenter = FALSE /\ presenter = FALSE /\ switches = 0
  /\ joinedSeen = {}
  /\ streams = {} /\ updates = <<>>

(***************************************************************************)
(* sendUsersList, and the join's first request: arm, then send.  Whatever  *)
(* is still on its way from then on answers an older request (bound: one   *)
(* older answer at a time, so none is more than a round late).             *)
(***************************************************************************)
Outdated(s) == [s EXCEPT !.from = IF @ = "own" THEN "late" ELSE @]
NoneLate == ~\E s \in streams : s.from = "late"

\* Own requests ask the server for a list this user is in itself.
OwnLists == {list \in Lists : \E page \in Range(list) :
               \E i \in DOMAIN page :
                 /\ page[i] = Self
                 /\ \A j \in 1..i : page[j] # Bad}

SendUsersList ==
  /\ NoneLate
  /\ armed' = TRUE /\ ulNext' = 0
  /\ sampled' = FALSE /\ disturbed' = (streams # {})
  /\ \E list \in OwnLists :
       streams' = {Outdated(s) : s \in streams} \cup {Stream("own", list)}
  /\ UNCHANGED <<known, selfPresenter, joinedSeen, updates, server>>

\* The request is armed but does not get out.
SendFails ==
  /\ NoneLate
  /\ armed' = TRUE /\ ulNext' = 0
  /\ sampled' = FALSE /\ disturbed' = (streams # {})
  /\ streams' = {Outdated(s) : s \in streams}
  /\ UNCHANGED <<known, selfPresenter, joinedSeen, updates, server>>

(***************************************************************************)
(* onUsersList: pair the chunk with the armed request, then take its users *)
(* up one by one until an entry does not decode.                           *)
(***************************************************************************)
IsLast(s) == s.next = Len(s.list) - 1
Continues(s) == armed /\ s.next = ulNext

\* The entries of a chunk that are reached.
Readable(s) ==
  LET page == s.list[s.next + 1]
      broken == {i \in DOMAIN page : page[i] = Bad}
  IN IF broken = {} THEN page
     ELSE SubSeq(page, 1, (CHOOSE i \in broken : \A j \in broken : i <= j) - 1)

Decodes(s) == Len(Readable(s)) = Len(s.list[s.next + 1])

Know(seen, u) ==
  IF u = Self \/ \E i \in DOMAIN seen : seen[i] = u
    THEN seen ELSE Append(seen, u)

EarlierMutant(best, u) == IF u = Self THEN best ELSE u
Earlier(best, u) ==
  IF u # Self /\ (best = NoDonor \/ JoinedAt[u] < JoinedAt[best])
    THEN u ELSE best

PairMutant(s) ==
  IF Continues(s) /\ IsLast(s)
    THEN armed' = FALSE /\ ulNext' = 0 /\ sampled' = Decodes(s)
    ELSE UNCHANGED <<armed, ulNext>> /\ sampled' = FALSE
Pair(s) ==
  IF Continues(s)
    THEN IF IsLast(s)
           THEN armed' = FALSE /\ ulNext' = 0 /\ sampled' = Decodes(s)
           ELSE armed' = armed /\ ulNext' = ulNext + 1 /\ sampled' = FALSE
    ELSE UNCHANGED <<armed, ulNext>> /\ sampled' = FALSE

TakePresenterMutant(s) ==
  IF Self \in Range(Readable(s)) /\ s.presenter
    THEN selfPresenter' = TRUE
    ELSE UNCHANGED selfPresenter
TakePresenter(s) ==
  IF Self \in Range(Readable(s))
    THEN selfPresenter' = s.presenter
    ELSE UNCHANGED selfPresenter

UsersList(s) ==
  /\ Pair(s)
  /\ peers' = FoldLeft(Know, peers, Readable(s))
  /\ donor' = FoldLeft(Earlier, donor, Readable(s))
  /\ TakePresenter(s)
  /\ disturbed' = (disturbed \/ s.from # "own" \/ ~Decodes(s))
  /\ streams' = (streams \ {s}) \cup
                (IF IsLast(s) THEN {} ELSE {[s EXCEPT !.next = @ + 1]})
  /\ UNCHANGED <<joinedSeen, updates, server>>

(***************************************************************************)
(* The other sources of the presenter truth: USER_METADATA_UPDATE and this *)
(* user's own USER_JOINED, and the initial data, which only ever promotes. *)
(***************************************************************************)
PresenterEvent ==
  /\ updates # <<>>
  /\ selfPresenter' = IF Head(updates).initial
                        THEN selfPresenter \/ Head(updates).presenter
                        ELSE Head(updates).presenter
  /\ updates' = Tail(updates)
  /\ sampled' = FALSE
  /\ UNCHANGED <<armed, ulNext, disturbed, known, joinedSeen, streams, server>>

\* USER_JOINED of another user: recorded once per join; it adds no peer.
UserJoined(u) ==
  /\ u \notin joinedSeen
  /\ joinedSeen' = joinedSeen \cup {u}
  /\ UNCHANGED <<pairing, known, selfPresenter, streams, updates, server>>

(***************************************************************************)
(* The server: it broadcasts lists, answers the initial request with a     *)
(* snapshot, and moves the presenter role.                                 *)
(***************************************************************************)
Broadcast ==
  /\ ~\E s \in streams : s.from = "broadcast"
  /\ \E list \in Lists : streams' = streams \cup {Stream("broadcast", list)}
  /\ UNCHANGED <<pairing, known, selfPresenter, joinedSeen, updates, server>>

SwitchPresenter ==
  /\ switches < MaxSwitches
  /\ switches' = switches + 1
  /\ presenter' = ~presenter
  /\ \E initial \in BOOLEAN :
       /\ initial => switches = 0
       /\ updates' = Append(updates, [initial |-> initial,
                                      presenter |-> ~presenter])
  /\ UNCHANGED <<pairing, known, selfPresenter, joinedSeen, streams>>

Next == \/ SendUsersList \/ SendFails
        \/ \E s \in streams : UsersList(s)
        \/ PresenterEvent
        \/ \E u \in Others : UserJoined(u)
        \/ Broadcast
        \/ SwitchPresenter

Spec == Init /\ [][Next]_vars

(***************************************************************************)
(* The reconciliation timer keeps firing (every 60 s), its requests do not *)
(* fail for ever, and what the server sends arrives.                       *)
(***************************************************************************)
Arrives(from) == \E s \in streams : s.from = from /\ UsersList(s)
FairSpec == /\ Spec
            /\ SF_vars(SendUsersList) /\ WF_vars(PresenterEvent)
            /\ \A from \in {"own", "late", "broadcast"} : WF_vars(Arrives(from))

-------------------------------------------------------------------------------
TypeOK ==
  /\ {armed, sampled, disturbed, selfPresenter, presenter} \subseteq BOOLEAN
  /\ ulNext \in Nat /\ switches \in 0..MaxSwitches
  /\ peers \in Seq(Others) /\ donor \in Others \cup {NoDonor}
  /\ joinedSeen \subseteq Others
  /\ streams \subseteq [from : {"own", "late", "broadcast"}, list : Lists,
                       next : Nat, presenter : BOOLEAN]
  /\ \A s \in streams : s.next < Len(s.list)
  /\ updates \in Seq([initial : BOOLEAN, presenter : BOOLEAN])

(***************************************************************************)
(* syncTargets: up to three other users, the donor first, each once.       *)
(***************************************************************************)
AddTargetMutant(out, id) ==
  IF id = NoDonor \/ Len(out) >= 3 THEN out ELSE Append(out, id)
AddTarget(out, id) ==
  IF id = NoDonor \/ Len(out) >= 3 \/ \E i \in DOMAIN out : out[i] = id
    THEN out ELSE Append(out, id)

SyncTargets == FoldLeft(AddTarget, <<>>, <<donor>> \o peers)

(***************************************************************************)
(* However often lists are sent again, interleaved or broken off, the      *)
(* user's donor is the earliest-joined of the other users it knows         *)
(* (user.go:560-566, 949-958).                                             *)
(***************************************************************************)
DonorIsEarliest ==
  /\ donor = NoDonor <=> peers = <<>>
  /\ donor # NoDonor =>
       /\ donor \in Range(peers)
       /\ \A p \in Range(peers) : JoinedAt[donor] <= JoinedAt[p]

(***************************************************************************)
(* The join-time sync asks the donor first and then other known users, as  *)
(* many as there are up to three, none of them twice, although the donor   *)
(* is one of the peers (user.go:591-614).                                  *)
(***************************************************************************)
AsksEachOnce ==
  /\ IsInjective(SyncTargets)
  /\ Len(SyncTargets) = (IF Cardinality(Range(peers)) < 3
                           THEN Cardinality(Range(peers)) ELSE 3)
  /\ peers # <<>> => Head(SyncTargets) = donor

(***************************************************************************)
(* When nothing but the answer arrives between a request and the last      *)
(* chunk of its answer, exactly that chunk records the request's latency   *)
(* (user.go:919-934, 962-964).                                             *)
(***************************************************************************)
AnswerIsSampled ==
  [][\A s \in streams :
       s.from = "own" /\ UsersList(s) /\ ~disturbed' =>
         (sampled' <=> IsLast(s))]_vars

(***************************************************************************)
(* Once the server stops moving the role, the user's own presenter flag    *)
(* agrees with it in the end, although lists built before the switch may   *)
(* arrive after the event that told it (user.go:775-799, 942-945).         *)
(***************************************************************************)
PresenterConverges == <>[](selfPresenter = presenter)

(***************************************************************************)
(* "unsolicited broadcast lists never enter the usersList latency series"  *)
(* (user.go:125-127).                                                      *)
(***************************************************************************)
SamplesAreOwn ==
  [][\A s \in streams :
       UsersList(s) /\ s.from = "broadcast" => ~sampled']_vars
===============================================================================
