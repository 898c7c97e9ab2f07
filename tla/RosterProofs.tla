------------------------------- MODULE RosterProofs -------------------------------
(***************************************************************************)
(* Proofs about what one user knows of its room, for every room, any lists *)
(* of the server, broken or not, and any interleaving of their chunks.     *)
(*                                                                         *)
(* The users of a chunk, and the targets of a sync request, are taken up   *)
(* one by one: the proofs follow the fold from entry to entry.             *)
(***************************************************************************)
EXTENDS Roster, SequenceTheorems, FiniteSetTheorems, WellFoundedInduction, TLAPS

Everyone == Others \cup {Self}
Candidates == Others \cup {NoDonor}

-------------------------------------------------------------------------------
(***************************************************************************)
(* Induction over the natural numbers, in two forms: a set of them has a   *)
(* least one, and a set that has 0 and, with each number, the next one has *)
(* them all.                                                               *)
(***************************************************************************)
LEMMA LeastOf ==
  ASSUME NEW S \in SUBSET Nat, S # {}
  PROVE  \E x \in S : \A y \in S : x <= y
<1>1. PICK x \in S : \A y \in S : ~(<<y, x>> \in OpToRel(<, Nat))
  BY NatLessThanWellFounded, WFMin
<1>2. \A y \in S : ~(y < x)
  BY <1>1 DEF OpToRel
<1> QED  BY <1>2

LEMMA SetInduction ==
  ASSUME NEW S \in SUBSET Nat, 0 \in S, \A k \in S : k + 1 \in S
  PROVE  S = Nat
<1> SUFFICES ASSUME Nat \ S # {}
             PROVE  FALSE
  OBVIOUS
<1> DEFINE left == Nat \ S
<1>1. PICK x \in left : \A y \in left : x <= y
  <2>1. left \in SUBSET Nat /\ left # {}
    OBVIOUS
  <2> HIDE DEF left
  <2> QED  BY <2>1, LeastOf
<1>2. x \in Nat /\ x # 0
  OBVIOUS
<1>3. x - 1 \in Nat /\ ~(x <= x - 1)
  BY <1>2
<1>4. x - 1 \in S
  BY <1>1, <1>3
<1>5. x - 1 + 1 \in S
  BY <1>4
<1> QED  BY <1>2, <1>5

(***************************************************************************)
(* The function by which FoldLeft takes up a sequence: its value at a set  *)
(* of positions is what the fold makes of the entries there.               *)
(***************************************************************************)
Folded(h, op(_, _), base, seq) ==
  h = [s \in SUBSET DOMAIN seq |->
         IF s = {} THEN base ELSE op(h[s \ {Max(s)}], seq[Max(s)])]

LEMMA TopOf ==
  ASSUME NEW k \in Nat, NEW s \in SUBSET (1..(k + 1)), k + 1 \in s
  PROVE  Max(s) = k + 1
<1>1. \A y \in s : k + 1 >= y
  OBVIOUS
<1>2. \A x \in s : (\A y \in s : x >= y) => x = k + 1
  OBVIOUS
<1>3. \E x \in s : \A y \in s : x >= y
  BY <1>1
<1>4. Max(s) \in s /\ \A y \in s : Max(s) >= y
  BY <1>3, Zenon DEF Max
<1> QED  BY <1>2, <1>4

(***************************************************************************)
(* There is such a function for every step F, and positions have a last.   *)
(***************************************************************************)
LEMMA FoldExists ==
  ASSUME NEW X, NEW Y, NEW F \in [X \X Y -> X], NEW base \in X, NEW seq \in Seq(Y)
  PROVE  /\ \E h \in [SUBSET DOMAIN seq -> X] :
              \A s \in SUBSET DOMAIN seq :
                h[s] = IF s = {} THEN base ELSE F[<<h[s \ {Max(s)}], seq[Max(s)]>>]
         /\ \A s \in SUBSET DOMAIN seq : s # {} => Max(s) \in s
<1> DEFINE Step(h, s) == IF s = {} THEN base ELSE F[<<h[s \ {Max(s)}], seq[Max(s)]>>]
           Upto(k, h) == /\ h \in [SUBSET (1..k) -> X]
                         /\ \A s \in SUBSET (1..k) : h[s] = Step(h, s)
           done == {k \in Nat : k <= Len(seq) =>
                      /\ \E h : Upto(k, h)
                      /\ \A s \in SUBSET (1..k) : s # {} => Max(s) \in s}
<1>0. Len(seq) \in Nat /\ DOMAIN seq = 1..Len(seq) /\ \A i \in 1..Len(seq) : seq[i] \in Y
  OBVIOUS
<1>1. 0 \in done
  <2> DEFINE h == [s \in SUBSET (1..0) |-> base]
  <2>1. 1..0 = {} /\ SUBSET (1..0) = {{}}
    OBVIOUS
  <2>2. Upto(0, h)
    BY <2>1
  <2> QED  BY <2>1, <2>2
<1>2. ASSUME NEW k \in done PROVE k + 1 \in done
  <2> SUFFICES ASSUME k + 1 <= Len(seq)
               PROVE  /\ \E h : Upto(k + 1, h)
                      /\ \A s \in SUBSET (1..(k + 1)) : s # {} => Max(s) \in s
    <3>1. k + 1 \in Nat
      OBVIOUS
    <3> HIDE DEF Upto
    <3> QED  BY <3>1
  <2>0. k \in Nat /\ k <= Len(seq) /\ k + 1 \in 1..Len(seq)
    BY <1>0
  <2>1. PICK g : Upto(k, g)
    BY <2>0
  <2>2. \A s \in SUBSET (1..k) : s # {} => Max(s) \in s
    BY <2>0
  <2>3. ASSUME NEW s \in SUBSET (1..(k + 1))
        PROVE  \/ s \in SUBSET (1..k)
               \/ k + 1 \in s /\ Max(s) = k + 1 /\ s \ {k + 1} \in SUBSET (1..k)
    <3>1. 1..(k + 1) = (1..k) \cup {k + 1}
      BY <2>0
    <3> QED  BY <2>0, <3>1, TopOf
  <2> DEFINE h == [s \in SUBSET (1..(k + 1)) |->
                     IF s \in SUBSET (1..k) THEN g[s]
                       ELSE F[<<g[s \ {k + 1}], seq[k + 1]>>]]
  <2>4. \A s \in SUBSET (1..k) : s \in SUBSET (1..(k + 1)) /\ h[s] = g[s] /\ g[s] \in X
    <3>1. 1..k \subseteq 1..(k + 1)
      BY <2>0
    <3> QED  BY <2>1, <3>1
  <2>5. ASSUME NEW s \in SUBSET (1..(k + 1)) PROVE h[s] \in X /\ h[s] = Step(h, s)
    <3>1. CASE s \in SUBSET (1..k)
      <4>1. g[s] = Step(g, s)
        BY <2>1, <3>1
      <4>2. s \ {Max(s)} \in SUBSET (1..k)
        BY <3>1
      <4>3. Step(g, s) = Step(h, s)
        BY <2>4, <4>2
      <4> QED  BY <2>4, <3>1, <4>1, <4>3
    <3>2. CASE s \notin SUBSET (1..k)
      <4>1. k + 1 \in s /\ Max(s) = k + 1 /\ s \ {k + 1} \in SUBSET (1..k)
        BY <2>3, <3>2
      <4>2. h[s] = F[<<g[s \ {k + 1}], seq[k + 1]>>]
        BY <3>2
      <4>3. h[s \ {k + 1}] = g[s \ {k + 1}] /\ g[s \ {k + 1}] \in X /\ s # {}
        BY <2>4, <4>1
      <4>4. seq[k + 1] \in Y
        BY <1>0, <2>0
      <4> QED  BY <4>1, <4>2, <4>3, <4>4
    <3> QED  BY <3>1, <3>2
  <2>6. Upto(k + 1, h)
    <3>1. h \in [SUBSET (1..(k + 1)) -> X]
      BY <2>5
    <3> QED  BY <2>5, <3>1
  <2>7. \E e : Upto(k + 1, e)
    <3> HIDE DEF Upto, h
    <3> QED  BY <2>6
  <2>8. ASSUME NEW s \in SUBSET (1..(k + 1)), s # {} PROVE Max(s) \in s
    <3>1. CASE s \in SUBSET (1..k)
      BY <2>2, <2>8, <3>1
    <3>2. CASE k + 1 \in s /\ Max(s) = k + 1
      BY <3>2
    <3> QED  BY <2>3, <3>1, <3>2
  <2> HIDE DEF Upto, h
  <2> QED  BY <2>7, <2>8
<1>3. done = Nat
  <2> HIDE DEF done
  <2>1. done \in SUBSET Nat
    BY DEF done
  <2> QED  BY <1>1, <1>2, <2>1, SetInduction
<1>4. Len(seq) \in done
  BY <1>0, <1>3
<1>5. /\ \E h : Upto(Len(seq), h)
      /\ \A s \in SUBSET (1..Len(seq)) : s # {} => Max(s) \in s
  <2> HIDE DEF Upto
  <2> QED  BY <1>0, <1>4
<1> QED  BY <1>0, <1>5
(***************************************************************************)
(* The values of such a function at the first i positions, one after the   *)
(* other.                                                                  *)
(***************************************************************************)
LEMMA FirstPositions ==
  ASSUME NEW i \in Nat, i # 0
  PROVE  1..i # {} /\ Max(1..i) = i /\ (1..i) \ {i} = 1..(i - 1)
<1>1. PICK k \in Nat : i = k + 1
  <2>1. i - 1 \in Nat /\ i = (i - 1) + 1
    OBVIOUS
  <2> QED  BY <2>1
<1>2. 1..i \in SUBSET (1..(k + 1)) /\ k + 1 \in 1..i
  BY <1>1
<1>3. Max(1..i) = k + 1
  BY <1>2, TopOf
<1>4. (1..i) \ {i} = 1..(i - 1)
  OBVIOUS
<1> QED  BY <1>1, <1>2, <1>3, <1>4

(***************************************************************************)
(* How the peers are learned from a chunk, entry by entry.                 *)
(***************************************************************************)
LEMMA PeersOneByOne ==
  ASSUME NEW base \in Seq(Others), NEW seq \in Seq(Everyone)
  PROVE  \E r : /\ r[0] = base
                /\ \A i \in 1..Len(seq) : r[i] = Know(r[i - 1], seq[i])
                /\ r[Len(seq)] = FoldLeft(Know, base, seq)
<1> DEFINE F == [x \in Seq(Others) \X Everyone |-> Know(x[1], x[2])]
           h == CHOOSE e : Folded(e, Know, base, seq)
           r == [i \in 0..Len(seq) |-> h[1..i]]
<1>0. /\ Len(seq) \in Nat /\ DOMAIN seq = 1..Len(seq)
      /\ \A i \in 1..Len(seq) : seq[i] \in Everyone
  OBVIOUS
<1>1. \A p \in Seq(Others), u \in Everyone : Know(p, u) \in Seq(Others)
  BY DEF Know, Everyone
<1>2. /\ F \in [Seq(Others) \X Everyone -> Seq(Others)]
      /\ \A p \in Seq(Others), u \in Everyone : F[<<p, u>>] = Know(p, u)
  BY <1>1
<1> HIDE DEF F
<1>3. /\ \E g \in [SUBSET DOMAIN seq -> Seq(Others)] :
           \A s \in SUBSET DOMAIN seq :
             g[s] = IF s = {} THEN base ELSE F[<<g[s \ {Max(s)}], seq[Max(s)]>>]
      /\ \A s \in SUBSET DOMAIN seq : s # {} => Max(s) \in s
  <2>1. F \in [Seq(Others) \X Everyone -> Seq(Others)]
    BY <1>2
  <2> HIDE DEF h, r
  <2> QED  BY <2>1, FoldExists, Zenon
<1>4. PICK g \in [SUBSET DOMAIN seq -> Seq(Others)] :
        \A s \in SUBSET DOMAIN seq :
          g[s] = IF s = {} THEN base ELSE F[<<g[s \ {Max(s)}], seq[Max(s)]>>]
  BY <1>3
<1>5. Folded(g, Know, base, seq)
  <2> DEFINE e == [s \in SUBSET DOMAIN seq |->
                     IF s = {} THEN base ELSE Know(g[s \ {Max(s)}], seq[Max(s)])]
  <2>1. ASSUME NEW s \in SUBSET DOMAIN seq PROVE g[s] = e[s]
    <3>1. CASE s # {}
      <4>1. seq[Max(s)] \in Everyone /\ g[s \ {Max(s)}] \in Seq(Others)
        BY <1>0, <1>3, <1>4, <3>1
      <4> QED  BY <1>2, <1>4, <3>1, <4>1
    <3> QED  BY <1>4, <3>1
  <2>2. g = e
    BY <2>1
  <2> QED  BY <2>2 DEF Folded
<1>6. Folded(h, Know, base, seq)
  BY <1>5, Zenon
<1>7. FoldLeft(Know, base, seq) = h[DOMAIN seq]
  BY Zenon DEF FoldLeft, MapThenFoldSet, Folded
<1> HIDE DEF h
<1>8. h[{}] = base
  BY <1>6 DEF Folded
<1>9. ASSUME NEW i \in 1..Len(seq) PROVE h[1..i] = Know(h[1..(i - 1)], seq[i])
  <2>1. 1..i \in SUBSET DOMAIN seq /\ i \in Nat /\ i # 0
    BY <1>0
  <2>2. 1..i # {} /\ Max(1..i) = i /\ (1..i) \ {i} = 1..(i - 1)
    BY <2>1, FirstPositions
  <2> QED  BY <1>6, <2>1, <2>2 DEF Folded
<1>10. r[0] = base
  BY <1>0, <1>8
<1>11. \A i \in 1..Len(seq) : r[i] = h[1..i] /\ r[i - 1] = h[1..(i - 1)]
  BY <1>0
<1>12. r[Len(seq)] = h[DOMAIN seq]
  BY <1>0
<1> HIDE DEF r
<1> QED  BY <1>7, <1>9, <1>10, <1>11, <1>12

(***************************************************************************)
(* How the donor is found among the users of a chunk.                      *)
(***************************************************************************)
LEMMA DonorOneByOne ==
  ASSUME NEW base \in Candidates, NEW seq \in Seq(Everyone)
  PROVE  \E r : /\ r[0] = base
                /\ \A i \in 1..Len(seq) : r[i] = Earlier(r[i - 1], seq[i])
                /\ r[Len(seq)] = FoldLeft(Earlier, base, seq)
<1> DEFINE F == [x \in Candidates \X Everyone |-> Earlier(x[1], x[2])]
           h == CHOOSE e : Folded(e, Earlier, base, seq)
           r == [i \in 0..Len(seq) |-> h[1..i]]
<1>0. /\ Len(seq) \in Nat /\ DOMAIN seq = 1..Len(seq)
      /\ \A i \in 1..Len(seq) : seq[i] \in Everyone
  OBVIOUS
<1>1. \A d \in Candidates, u \in Everyone : Earlier(d, u) \in Candidates
  BY DEF Earlier, Everyone, Candidates
<1>2. /\ F \in [Candidates \X Everyone -> Candidates]
      /\ \A d \in Candidates, u \in Everyone : F[<<d, u>>] = Earlier(d, u)
  BY <1>1
<1> HIDE DEF F
<1>3. /\ \E g \in [SUBSET DOMAIN seq -> Candidates] :
           \A s \in SUBSET DOMAIN seq :
             g[s] = IF s = {} THEN base ELSE F[<<g[s \ {Max(s)}], seq[Max(s)]>>]
      /\ \A s \in SUBSET DOMAIN seq : s # {} => Max(s) \in s
  <2>1. F \in [Candidates \X Everyone -> Candidates]
    BY <1>2
  <2> HIDE DEF h, r
  <2> QED  BY <2>1, FoldExists, Zenon
<1>4. PICK g \in [SUBSET DOMAIN seq -> Candidates] :
        \A s \in SUBSET DOMAIN seq :
          g[s] = IF s = {} THEN base ELSE F[<<g[s \ {Max(s)}], seq[Max(s)]>>]
  BY <1>3
<1>5. Folded(g, Earlier, base, seq)
  <2> DEFINE e == [s \in SUBSET DOMAIN seq |->
                     IF s = {} THEN base ELSE Earlier(g[s \ {Max(s)}], seq[Max(s)])]
  <2>1. ASSUME NEW s \in SUBSET DOMAIN seq PROVE g[s] = e[s]
    <3>1. CASE s # {}
      <4>1. seq[Max(s)] \in Everyone /\ g[s \ {Max(s)}] \in Candidates
        BY <1>0, <1>3, <1>4, <3>1
      <4> QED  BY <1>2, <1>4, <3>1, <4>1
    <3> QED  BY <1>4, <3>1
  <2>2. g = e
    BY <2>1
  <2> QED  BY <2>2 DEF Folded
<1>6. Folded(h, Earlier, base, seq)
  BY <1>5, Zenon
<1>7. FoldLeft(Earlier, base, seq) = h[DOMAIN seq]
  BY Zenon DEF FoldLeft, MapThenFoldSet, Folded
<1> HIDE DEF h
<1>8. h[{}] = base
  BY <1>6 DEF Folded
<1>9. ASSUME NEW i \in 1..Len(seq) PROVE h[1..i] = Earlier(h[1..(i - 1)], seq[i])
  <2>1. 1..i \in SUBSET DOMAIN seq /\ i \in Nat /\ i # 0
    BY <1>0
  <2>2. 1..i # {} /\ Max(1..i) = i /\ (1..i) \ {i} = 1..(i - 1)
    BY <2>1, FirstPositions
  <2> QED  BY <1>6, <2>1, <2>2 DEF Folded
<1>10. r[0] = base
  BY <1>0, <1>8
<1>11. \A i \in 1..Len(seq) : r[i] = h[1..i] /\ r[i - 1] = h[1..(i - 1)]
  BY <1>0
<1>12. r[Len(seq)] = h[DOMAIN seq]
  BY <1>0
<1> HIDE DEF r
<1> QED  BY <1>7, <1>9, <1>10, <1>11, <1>12

(***************************************************************************)
(* How the targets of a sync request are picked.                           *)
(***************************************************************************)
LEMMA TargetsOneByOne ==
  ASSUME NEW base \in Seq(Others), NEW seq \in Seq(Everyone)
  PROVE  \E r : /\ r[0] = base
                /\ \A i \in 1..Len(seq) : r[i] = AddTarget(r[i - 1], seq[i])
                /\ r[Len(seq)] = FoldLeft(AddTarget, base, seq)
<1> DEFINE F == [x \in Seq(Others) \X Everyone |-> AddTarget(x[1], x[2])]
           h == CHOOSE e : Folded(e, AddTarget, base, seq)
           r == [i \in 0..Len(seq) |-> h[1..i]]
<1>0. /\ Len(seq) \in Nat /\ DOMAIN seq = 1..Len(seq)
      /\ \A i \in 1..Len(seq) : seq[i] \in Everyone
  OBVIOUS
<1>1. \A p \in Seq(Others), u \in Everyone : AddTarget(p, u) \in Seq(Others)
  BY DEF AddTarget, Everyone, NoDonor
<1>2. /\ F \in [Seq(Others) \X Everyone -> Seq(Others)]
      /\ \A p \in Seq(Others), u \in Everyone : F[<<p, u>>] = AddTarget(p, u)
  BY <1>1
<1> HIDE DEF F
<1>3. /\ \E g \in [SUBSET DOMAIN seq -> Seq(Others)] :
           \A s \in SUBSET DOMAIN seq :
             g[s] = IF s = {} THEN base ELSE F[<<g[s \ {Max(s)}], seq[Max(s)]>>]
      /\ \A s \in SUBSET DOMAIN seq : s # {} => Max(s) \in s
  <2>1. F \in [Seq(Others) \X Everyone -> Seq(Others)]
    BY <1>2
  <2> HIDE DEF h, r
  <2> QED  BY <2>1, FoldExists, Zenon
<1>4. PICK g \in [SUBSET DOMAIN seq -> Seq(Others)] :
        \A s \in SUBSET DOMAIN seq :
          g[s] = IF s = {} THEN base ELSE F[<<g[s \ {Max(s)}], seq[Max(s)]>>]
  BY <1>3
<1>5. Folded(g, AddTarget, base, seq)
  <2> DEFINE e == [s \in SUBSET DOMAIN seq |->
                     IF s = {} THEN base ELSE AddTarget(g[s \ {Max(s)}], seq[Max(s)])]
  <2>1. ASSUME NEW s \in SUBSET DOMAIN seq PROVE g[s] = e[s]
    <3>1. CASE s # {}
      <4>1. seq[Max(s)] \in Everyone /\ g[s \ {Max(s)}] \in Seq(Others)
        BY <1>0, <1>3, <1>4, <3>1
      <4> QED  BY <1>2, <1>4, <3>1, <4>1
    <3> QED  BY <1>4, <3>1
  <2>2. g = e
    BY <2>1
  <2> QED  BY <2>2 DEF Folded
<1>6. Folded(h, AddTarget, base, seq)
  BY <1>5, Zenon
<1>7. FoldLeft(AddTarget, base, seq) = h[DOMAIN seq]
  BY Zenon DEF FoldLeft, MapThenFoldSet, Folded
<1> HIDE DEF h
<1>8. h[{}] = base
  BY <1>6 DEF Folded
<1>9. ASSUME NEW i \in 1..Len(seq) PROVE h[1..i] = AddTarget(h[1..(i - 1)], seq[i])
  <2>1. 1..i \in SUBSET DOMAIN seq /\ i \in Nat /\ i # 0
    BY <1>0
  <2>2. 1..i # {} /\ Max(1..i) = i /\ (1..i) \ {i} = 1..(i - 1)
    BY <2>1, FirstPositions
  <2> QED  BY <1>6, <2>1, <2>2 DEF Folded
<1>10. r[0] = base
  BY <1>0, <1>8
<1>11. \A i \in 1..Len(seq) : r[i] = h[1..i] /\ r[i - 1] = h[1..(i - 1)]
  BY <1>0
<1>12. r[Len(seq)] = h[DOMAIN seq]
  BY <1>0
<1> HIDE DEF r
<1> QED  BY <1>7, <1>9, <1>10, <1>11, <1>12

-------------------------------------------------------------------------------
(***************************************************************************)
(* What is learned: the donor is the earliest-joined of the peers, of whom *)
(* there are none as long as there is no donor.                            *)
(***************************************************************************)
Learned(p, d) ==
  /\ p \in Seq(Others) /\ d \in Candidates
  /\ d = NoDonor <=> p = <<>>
  /\ d # NoDonor => /\ d \in Range(p)
                    /\ \A q \in Range(p) : JoinedAt[d] <= JoinedAt[q]

LEMMA OthersOnly ==
  /\ NoDonor \notin Others
  /\ \A u \in Others : JoinedAt[u] \in Nat
BY RosterAssumption DEF NoDonor

LEMMA RangeOfAppend ==
  ASSUME NEW X, NEW seq \in Seq(X), NEW x \in X
  PROVE  Range(Append(seq, x)) = Range(seq) \cup {x}
<1> DEFINE longer == Append(seq, x)
<1>1. /\ Len(seq) \in Nat /\ DOMAIN seq = 1..Len(seq)
      /\ DOMAIN longer = 1..(Len(seq) + 1)
      /\ \A i \in 1..Len(seq) : longer[i] = seq[i]
      /\ longer[Len(seq) + 1] = x
  OBVIOUS
<1> HIDE DEF longer
<1>2. 1..(Len(seq) + 1) = (1..Len(seq)) \cup {Len(seq) + 1}
  BY <1>1
<1>3. Range(longer) \subseteq Range(seq) \cup {x}
  BY <1>1, <1>2 DEF Range
<1>4. Range(seq) \cup {x} \subseteq Range(longer)
  BY <1>1, <1>2 DEF Range
<1> QED  BY <1>3, <1>4 DEF longer

LEMMA LearnOne ==
  ASSUME NEW p, NEW d, Learned(p, d), NEW u \in Everyone
  PROVE  Learned(Know(p, u), Earlier(d, u))
<1> USE DEF Learned
<1>0. \A q \in Range(p) : q \in Others
  BY DEF Range
<1>1. CASE u = NoDonor
  BY <1>1 DEF Know, Earlier, NoDonor
<1>2. CASE u # NoDonor /\ u \in Range(p)
  <2>1. Know(p, u) = p
    BY <1>2 DEF Know, Range
  <2>2. d # NoDonor /\ d \in Others /\ u \in Others
    <3>1. p # <<>>
      BY <1>2 DEF Range
    <3> QED  BY <1>0, <1>2, <3>1 DEF Candidates
  <2>3. JoinedAt[d] <= JoinedAt[u] /\ JoinedAt[d] \in Nat /\ JoinedAt[u] \in Nat
    BY <1>2, <2>2, OthersOnly
  <2>4. Earlier(d, u) = d
    BY <2>2, <2>3 DEF Earlier
  <2> QED  BY <2>1, <2>4
<1>3. CASE u # NoDonor /\ u \notin Range(p)
  <2>0. u \in Others
    BY <1>3 DEF Everyone, NoDonor
  <2>1. Know(p, u) = Append(p, u)
    BY <1>3 DEF Know, Range, NoDonor
  <2>2. /\ Append(p, u) \in Seq(Others) /\ Append(p, u) # <<>>
        /\ Range(Append(p, u)) = Range(p) \cup {u}
    BY <2>0, RangeOfAppend
  <2>3. CASE d = NoDonor
    <3>1. Range(p) = {} /\ Earlier(d, u) = u
      BY <1>3, <2>3 DEF Range, Earlier, NoDonor
    <3>2. JoinedAt[u] <= JoinedAt[u]
      BY <2>0, OthersOnly
    <3>3. u \in Candidates
      BY <2>0 DEF Candidates
    <3> QED  BY <1>3, <2>1, <2>2, <3>1, <3>2, <3>3
  <2>4. CASE d # NoDonor
    <3>1. d \in Others /\ JoinedAt[d] \in Nat /\ JoinedAt[u] \in Nat
      BY <2>0, <2>4, OthersOnly DEF Candidates
    <3>2. \A q \in Range(p) : JoinedAt[q] \in Nat
      BY <1>0, OthersOnly
    <3>3. CASE JoinedAt[u] < JoinedAt[d]
      <4>1. Earlier(d, u) = u
        BY <1>3, <3>3 DEF Earlier, NoDonor
      <4>2. \A q \in Range(p) \cup {u} : JoinedAt[u] <= JoinedAt[q]
        BY <2>4, <3>1, <3>2, <3>3
      <4> QED  BY <1>3, <2>0, <2>1, <2>2, <4>1, <4>2 DEF Candidates
    <3>4. CASE ~(JoinedAt[u] < JoinedAt[d])
      <4>1. Earlier(d, u) = d
        BY <2>4, <3>4 DEF Earlier
      <4>2. \A q \in Range(p) \cup {u} : JoinedAt[d] <= JoinedAt[q]
        BY <2>4, <3>1, <3>2, <3>4
      <4> QED  BY <2>1, <2>2, <2>4, <4>1, <4>2
    <3> QED  BY <3>3, <3>4
  <2> QED  BY <2>3, <2>4
<1> QED  BY <1>1, <1>2, <1>3

(***************************************************************************)
(* Learning from a whole chunk, which changes peers and donor alike.       *)
(***************************************************************************)
LEMMA LearnAll ==
  ASSUME NEW p, NEW d, Learned(p, d), NEW seq \in Seq(Everyone)
  PROVE  Learned(FoldLeft(Know, p, seq), FoldLeft(Earlier, d, seq))
<1>0. /\ p \in Seq(Others) /\ d \in Candidates /\ Len(seq) \in Nat
      /\ \A i \in 1..Len(seq) : seq[i] \in Everyone
  BY DEF Learned
<1>1. PICK r : /\ r[0] = p
               /\ \A i \in 1..Len(seq) : r[i] = Know(r[i - 1], seq[i])
               /\ r[Len(seq)] = FoldLeft(Know, p, seq)
  BY <1>0, PeersOneByOne
<1>2. PICK e : /\ e[0] = d
               /\ \A i \in 1..Len(seq) : e[i] = Earlier(e[i - 1], seq[i])
               /\ e[Len(seq)] = FoldLeft(Earlier, d, seq)
  BY <1>0, DonorOneByOne
<1> DEFINE done == {k \in Nat : k <= Len(seq) => Learned(r[k], e[k])}
<1>3. 0 \in done
  BY <1>1, <1>2
<1>4. ASSUME NEW k \in done PROVE k + 1 \in done
  <2> SUFFICES ASSUME k + 1 <= Len(seq) PROVE Learned(r[k + 1], e[k + 1])
    OBVIOUS
  <2>1. PICK i \in 1..Len(seq) : i = k + 1 /\ i - 1 = k
    BY <1>0
  <2>2. Learned(r[k], e[k])
    BY <1>0
  <2>3. r[i] = Know(r[i - 1], seq[i]) /\ e[i] = Earlier(e[i - 1], seq[i])
    BY <1>1, <1>2
  <2>4. r[i] = Know(r[k], seq[i]) /\ e[i] = Earlier(e[k], seq[i])
    BY <2>1, <2>3
  <2>5. Learned(r[i], e[i])
    BY <1>0, <2>2, <2>4, LearnOne
  <2> QED  BY <2>1, <2>5
<1>5. done = Nat
  <2> HIDE DEF done
  <2>1. done \in SUBSET Nat
    BY DEF done
  <2> QED  BY <1>3, <1>4, <2>1, SetInduction
<1>6. Len(seq) \in done
  BY <1>0, <1>5
<1> QED  BY <1>0, <1>1, <1>2, <1>6

(***************************************************************************)
(* The entries of a chunk that are reached are users.                      *)
(***************************************************************************)
LEMMA ReadableUsers ==
  ASSUME NEW s, s.list \in Lists, s.next \in 0..(Len(s.list) - 1)
  PROVE  Readable(s) \in Seq(Everyone)
<1> DEFINE page == s.list[s.next + 1]
           broken == {i \in DOMAIN page : page[i] = Bad}
           first == CHOOSE i \in broken : \A j \in broken : i <= j
<1>1. page \in Seq(Everyone \cup {Bad})
  <2>1. s.list \in Seq(Seq(Others \cup {Self, Bad}))
    BY RosterAssumption
  <2>2. s.next + 1 \in 1..Len(s.list)
    BY <2>1
  <2>3. Others \cup {Self, Bad} = Everyone \cup {Bad}
    BY DEF Everyone
  <2> QED  BY <2>1, <2>2, <2>3
<1>2. /\ Len(page) \in Nat /\ DOMAIN page = 1..Len(page)
      /\ \A i \in 1..Len(page) : page[i] \in Everyone \cup {Bad}
  <2> HIDE DEF page
  <2> QED  BY <1>1
<1> HIDE DEF page
<1>3. CASE broken = {}
  <2>1. \A i \in 1..Len(page) : page[i] \in Everyone
    BY <1>2, <1>3
  <2>2. page \in Seq(Everyone)
    BY <1>1, <2>1
  <2>3. Readable(s) = page
    BY <1>3 DEF Readable, page
  <2> QED  BY <2>2, <2>3
<1>4. CASE broken # {}
  <2>1. first \in broken /\ \A j \in broken : first <= j
    <3>1. broken \in SUBSET Nat
      BY <1>2
    <3>2. \E i \in broken : \A j \in broken : i <= j
      <4> HIDE DEF broken
      <4> QED  BY <1>4, <3>1, LeastOf
    <3> HIDE DEF broken
    <3> QED  BY <3>2, Zenon
  <2>2. Readable(s) = SubSeq(page, 1, first - 1)
    BY <1>4 DEF Readable, page
  <2>3. first \in 1..Len(page) /\ \A i \in 1..(first - 1) : i \in 1..Len(page) /\ i \notin broken
    <3> HIDE DEF first
    <3>1. first \in 1..Len(page)
      BY <1>2, <2>1
    <3>2. \A i \in 1..(first - 1) : i \in 1..Len(page) /\ ~(first <= i)
      BY <1>2, <3>1
    <3> HIDE DEF broken
    <3> QED  BY <2>1, <3>1, <3>2
  <2>4. \A i \in 1..(first - 1) : page[i] \in Everyone
    <3> HIDE DEF first
    <3> QED  BY <1>2, <2>3
  <2> HIDE DEF first, broken
  <2>5. /\ SubSeq(page, 1, first - 1) \in Seq(Everyone \cup {Bad})
        /\ Len(SubSeq(page, 1, first - 1)) = first - 1
        /\ \A i \in 1..(first - 1) : SubSeq(page, 1, first - 1)[i] = page[i]
    BY <1>1, <1>2, <2>3
  <2> QED  BY <2>2, <2>4, <2>5
<1> QED  BY <1>3, <1>4

-------------------------------------------------------------------------------
(***************************************************************************)
(* Lists on their way, as they are sent, outdated and cut short.           *)
(***************************************************************************)
Sources == {"own", "late", "broadcast"}
Streams == [from : Sources, list : Lists, next : Nat, presenter : BOOLEAN]

LEMMA ListsArePages ==
  ASSUME NEW list \in Lists
  PROVE  /\ list \in Seq(Seq(Others \cup {Self, Bad}))
         /\ Len(list) \in Nat /\ Len(list) >= 1
<1>1. list \in Seq(Seq(Others \cup {Self, Bad})) /\ list # <<>>
  BY RosterAssumption
<1> QED  BY <1>1, EmptySeq

LEMMA StreamStarts ==
  ASSUME NEW list \in Lists, NEW from \in Sources, presenter \in BOOLEAN
  PROVE  /\ Stream(from, list) \in Streams
         /\ Stream(from, list).next = 0 /\ Stream(from, list).from = from
         /\ Stream(from, list).next < Len(Stream(from, list).list)
BY ListsArePages DEF Stream, Streams

LEMMA OutdatedStream ==
  ASSUME NEW s \in Streams
  PROVE  /\ Outdated(s) \in Streams /\ Outdated(s).from # "own"
         /\ Outdated(s).list = s.list /\ Outdated(s).next = s.next
BY DEF Streams, Sources, Outdated

LEMMA NextChunk ==
  ASSUME NEW s \in Streams, s.next < Len(s.list), ~IsLast(s)
  PROVE  LET t == [s EXCEPT !.next = @ + 1]
         IN /\ t \in Streams /\ t.next < Len(t.list)
            /\ t.next = s.next + 1 /\ t.from = s.from /\ t.list = s.list
<1>1. s.list \in Lists /\ s.next \in Nat /\ s.next + 1 \in Nat
  BY DEF Streams
<1>2. Len(s.list) \in Nat
  BY <1>1, ListsArePages
<1>3. s.next + 1 < Len(s.list)
  BY <1>1, <1>2 DEF IsLast
<1> QED  BY <1>1, <1>3 DEF Streams

(***************************************************************************)
(* What UsersList leaves on its way.                                       *)
(***************************************************************************)
LEMMA StreamsLeft ==
  ASSUME TypeOK, NEW s \in streams, UsersList(s), NEW t \in streams'
  PROVE  \/ t \in streams /\ t # s
         \/ /\ ~IsLast(s)
            /\ t \in Streams /\ t.next < Len(t.list)
            /\ t.next = s.next + 1 /\ t.from = s.from /\ t.list = s.list
<1>1. s \in Streams /\ s.next < Len(s.list)
  BY DEF TypeOK, Streams, Sources
<1>2. \/ t \in streams /\ t # s
      \/ ~IsLast(s) /\ t = [s EXCEPT !.next = @ + 1]
  BY DEF UsersList
<1> QED  BY <1>1, <1>2, NextChunk

(***************************************************************************)
(* The variables of the roster have their types.                           *)
(***************************************************************************)
LEMMA TypeStep ==
  ASSUME TypeOK, [Next]_vars, Learned(peers, donor)
  PROVE  TypeOK'
<1> DEFINE Fit(set) == set \subseteq Streams /\ \A s \in set : s.next < Len(s.list)
           Update == [initial : BOOLEAN, presenter : BOOLEAN]
<1>0. Fit(streams) /\ updates \in Seq(Update) /\ presenter \in BOOLEAN
  BY DEF TypeOK, Streams, Sources
<1>1. ASSUME Fit(streams') PROVE streams' \subseteq [from : {"own", "late", "broadcast"},
                                   list : Lists, next : Nat, presenter : BOOLEAN]
                                 /\ \A s \in streams' : s.next < Len(s.list)
  BY <1>1 DEF Streams, Sources
<1>2. CASE SendUsersList
  <2>1. PICK list \in Lists :
          streams' = {Outdated(s) : s \in streams} \cup {Stream("own", list)}
    BY <1>2 DEF SendUsersList, OwnLists
  <2>2. Fit(streams')
    BY <1>0, <2>1, StreamStarts, OutdatedStream DEF Sources
  <2> QED  BY <1>1, <1>2, <2>2 DEF SendUsersList, TypeOK, known, server
<1>3. CASE SendFails
  <2>1. Fit(streams')
    BY <1>0, <1>3, OutdatedStream DEF SendFails
  <2> QED  BY <1>1, <1>3, <2>1 DEF SendFails, TypeOK, known, server
<1>4. ASSUME NEW s \in streams, UsersList(s) PROVE TypeOK'
  <2>1. Fit(streams')
    BY <1>0, <1>4, StreamsLeft
  <2>2. s \in Streams /\ s.list \in Lists /\ s.next \in 0..(Len(s.list) - 1)
        /\ s.presenter \in BOOLEAN
    <3>1. s \in Streams /\ s.next < Len(s.list)
      BY <1>0
    <3>2. s.list \in Lists /\ s.next \in Nat /\ s.presenter \in BOOLEAN
      BY <3>1 DEF Streams
    <3>3. Len(s.list) \in Nat
      BY <3>2, ListsArePages
    <3> QED  BY <3>1, <3>2, <3>3
  <2>3. Learned(peers', donor')
    BY <1>4, <2>2, ReadableUsers, LearnAll DEF UsersList
  <2>4. peers' \in Seq(Others) /\ donor' \in Others \cup {NoDonor}
    BY <2>3 DEF Learned, Candidates
  <2>5. armed' \in BOOLEAN /\ sampled' \in BOOLEAN /\ ulNext' \in Nat
    <3>1. Decodes(s) \in BOOLEAN
      BY DEF Decodes
    <3>2. Pair(s)
      BY <1>4 DEF UsersList
    <3>3. armed \in BOOLEAN /\ ulNext \in Nat
      BY DEF TypeOK
    <3>4. CASE Continues(s) /\ IsLast(s)
      <4>1. armed' = FALSE /\ ulNext' = 0 /\ sampled' = Decodes(s)
        BY Zenon, <3>2, <3>4 DEF Pair
      <4>2. armed' \in BOOLEAN /\ sampled' \in BOOLEAN
        BY Zenon, <3>1, <4>1
      <4> QED  BY <4>1, <4>2
    <3>5. CASE ~(Continues(s) /\ IsLast(s))
      <4>1. sampled' = FALSE /\ armed' = armed /\ (ulNext' = ulNext \/ ulNext' = ulNext + 1)
        BY Zenon, <3>2, <3>5 DEF Pair
      <4>2. ulNext' \in Nat
        BY <3>3, <4>1
      <4> QED  BY <3>3, <4>1, <4>2
    <3> QED  BY <3>4, <3>5
  <2>6. selfPresenter' \in BOOLEAN
    BY <1>4, <2>2 DEF UsersList, TakePresenter, TypeOK
  <2>7. disturbed' \in BOOLEAN
    BY <1>4 DEF UsersList, TypeOK
  <2>8. UNCHANGED <<joinedSeen, updates, presenter, switches>>
    BY <1>4 DEF UsersList, server
  <2> QED  BY <1>1, <2>1, <2>4, <2>5, <2>6, <2>7, <2>8 DEF TypeOK
<1>5. CASE PresenterEvent
  <2>1. updates # <<>> /\ Head(updates) \in Update /\ Tail(updates) \in Seq(Update)
    <3>1. updates # <<>>
      BY <1>5 DEF PresenterEvent
    <3> HIDE DEF Update
    <3> QED  BY <1>0, <3>1
  <2>2. selfPresenter' \in BOOLEAN
    BY <1>5, <2>1 DEF PresenterEvent, TypeOK
  <2> QED  BY <1>5, <2>1, <2>2 DEF PresenterEvent, TypeOK, known, server
<1>6. ASSUME NEW u \in Others, UserJoined(u) PROVE TypeOK'
  BY <1>6 DEF UserJoined, TypeOK, pairing, known, server
<1>7. CASE Broadcast
  <2>1. PICK list \in Lists : streams' = streams \cup {Stream("broadcast", list)}
    BY <1>7 DEF Broadcast
  <2>2. Fit(streams')
    BY <1>0, <2>1, StreamStarts DEF Sources
  <2> QED  BY <1>1, <1>7, <2>2 DEF Broadcast, TypeOK, pairing, known, server
<1>8. CASE SwitchPresenter
  <2>1. \E initial \in BOOLEAN :
          updates' = Append(updates, [initial |-> initial, presenter |-> ~presenter])
    BY <1>8 DEF SwitchPresenter
  <2>2. updates' \in Seq(Update)
    BY <1>0, <2>1
  <2>3. switches' \in 0..MaxSwitches
    BY <1>8, RosterAssumption DEF SwitchPresenter, TypeOK
  <2>4. presenter' \in BOOLEAN
    BY <1>8 DEF SwitchPresenter
  <2> QED  BY <1>8, <2>2, <2>3, <2>4 DEF SwitchPresenter, TypeOK, pairing, known
<1>9. CASE UNCHANGED vars
  BY <1>9 DEF TypeOK, vars, pairing, known, server
<1> QED  BY <1>2, <1>3, <1>4, <1>5, <1>6, <1>7, <1>8, <1>9 DEF Next

LEMMA LearnedStep ==
  ASSUME TypeOK, [Next]_vars, Learned(peers, donor)
  PROVE  Learned(peers', donor')
<1>1. ASSUME NEW s \in streams, UsersList(s) PROVE Learned(peers', donor')
  <2>1. s.list \in Lists /\ s.next \in Nat /\ s.next < Len(s.list)
    BY DEF TypeOK
  <2>2. s.next \in 0..(Len(s.list) - 1)
    BY <2>1, ListsArePages
  <2> QED  BY <1>1, <2>1, <2>2, ReadableUsers, LearnAll DEF UsersList
<1>2. CASE ~\E s \in streams : UsersList(s)
  <2>1. UNCHANGED known
    BY <1>2 DEF Next, SendUsersList, SendFails, PresenterEvent, UserJoined, Broadcast,
                SwitchPresenter, vars
  <2> QED  BY <2>1 DEF known
<1> QED  BY <1>1, <1>2

(***************************************************************************)
(* The variables of the roster have their types.                           *)
(***************************************************************************)
THEOREM RosterTypeCorrect == Spec => [](TypeOK /\ Learned(peers, donor))
<1>1. Init => TypeOK /\ Learned(peers, donor)
  <2> SUFFICES ASSUME Init PROVE TypeOK /\ Learned(peers, donor)
    OBVIOUS
  <2>1. <<>> \in Seq(Others) /\ <<>> \in Seq([initial : BOOLEAN, presenter : BOOLEAN])
    OBVIOUS
  <2>2. Learned(peers, donor)
    BY <2>1 DEF Init, Learned, Candidates, NoDonor
  <2>3. 0 \in 0..MaxSwitches
    BY RosterAssumption
  <2>4. donor \in Others \cup {NoDonor}
    BY DEF Init
  <2> QED  BY <2>1, <2>2, <2>3, <2>4 DEF Init, TypeOK
<1>2. TypeOK /\ Learned(peers, donor) /\ [Next]_vars => TypeOK' /\ Learned(peers, donor)'
  BY TypeStep, LearnedStep
<1> QED  BY <1>1, <1>2, PTL DEF Spec

(***************************************************************************)
(* However often lists are sent again, interleaved or broken off, the      *)
(* user's donor is the earliest-joined of the other users it knows         *)
(* (onUsersList, updateDonorLocked).                                       *)
(***************************************************************************)
THEOREM DonorHolds == Spec => []DonorIsEarliest
<1>1. Learned(peers, donor) => DonorIsEarliest
  BY DEF Learned, DonorIsEarliest
<1> QED  BY <1>1, RosterTypeCorrect, PTL

-------------------------------------------------------------------------------
(***************************************************************************)
(* Targets picked out of a set of users: all of them, or three.            *)
(***************************************************************************)
Picked(out, from) ==
  /\ out \in Seq(Others) /\ Len(out) <= 3
  /\ IsInjective(out) /\ Cardinality(Range(out)) = Len(out)
  /\ Range(out) \subseteq from /\ IsFiniteSet(from)
  /\ Len(out) < 3 => Range(out) = from

LEMMA PickOne ==
  ASSUME NEW out, NEW from, Picked(out, from), NEW u \in Everyone
  PROVE  /\ Picked(AddTarget(out, u), from \cup ({u} \ {NoDonor}))
         /\ out # <<>> => /\ AddTarget(out, u) # <<>>
                          /\ AddTarget(out, u)[1] = out[1]
<1> USE DEF Picked
<1>0. /\ out \in Seq(Others) /\ Len(out) \in Nat /\ DOMAIN out = 1..Len(out)
      /\ IsFiniteSet(from \cup ({u} \ {NoDonor}))
  <2> DEFINE extra == {u} \ {NoDonor}
  <2>1. IsFiniteSet(extra)
    <3>1. extra = {} \/ extra = {u}
      OBVIOUS
    <3>2. IsFiniteSet({}) /\ IsFiniteSet({u})
      BY FS_EmptySet, FS_Singleton
    <3> QED  BY <3>1, <3>2
  <2> HIDE DEF extra
  <2>2. IsFiniteSet(from \cup extra)
    BY <2>1, FS_Union
  <2> QED  BY <2>2 DEF extra
<1>1. CASE u = NoDonor
  <2>1. AddTarget(out, u) = out /\ from \cup ({u} \ {NoDonor}) = from
    BY <1>1 DEF AddTarget
  <2> QED  BY <2>1
<1>2. CASE u # NoDonor /\ Len(out) >= 3
  <2>1. AddTarget(out, u) = out
    BY <1>2 DEF AddTarget
  <2> QED  BY <1>0, <1>2, <2>1
<1>3. CASE u # NoDonor /\ Len(out) < 3 /\ u \in Range(out)
  <2>1. AddTarget(out, u) = out
    BY <1>3 DEF AddTarget, Range
  <2>2. from \cup ({u} \ {NoDonor}) = from
    BY <1>3
  <2> QED  BY <2>1, <2>2
<1>4. CASE u # NoDonor /\ Len(out) < 3 /\ u \notin Range(out)
  <2> DEFINE longer == Append(out, u)
  <2>0. u \in Others /\ from \cup ({u} \ {NoDonor}) = from \cup {u}
    BY <1>4 DEF Everyone, NoDonor
  <2>1. AddTarget(out, u) = longer
    <3>1. ~(\E i \in DOMAIN out : out[i] = u)
      BY <1>4 DEF Range
    <3>2. ~(Len(out) >= 3)
      BY <1>0, <1>4
    <3> QED  BY <1>4, <3>1, <3>2 DEF AddTarget
  <2>2. /\ longer \in Seq(Others) /\ Len(longer) = Len(out) + 1
        /\ DOMAIN longer = 1..(Len(out) + 1) /\ longer # <<>>
        /\ \A i \in 1..Len(out) : longer[i] = out[i]
        /\ longer[Len(out) + 1] = u
    BY <1>0, <2>0
  <2>3. Range(longer) = Range(out) \cup {u}
    BY <1>0, <2>0, RangeOfAppend
  <2> HIDE DEF longer
  <2>4. Cardinality(Range(longer)) = Len(longer)
    <3>1. IsFiniteSet(Range(out))
      BY FS_Subset
    <3>2. Cardinality(Range(out) \cup {u}) = Cardinality(Range(out)) + 1
      BY <1>4, <3>1, FS_AddElement
    <3> QED  BY <2>2, <2>3, <3>2
  <2>5. IsInjective(longer)
    <3> SUFFICES ASSUME NEW i \in DOMAIN longer, NEW j \in DOMAIN longer,
                        longer[i] = longer[j]
                 PROVE  i = j
      BY DEF IsInjective
    <3>1. \A k \in DOMAIN longer : k \in DOMAIN out \/ k = Len(out) + 1
      BY <1>0, <2>2
    <3>2. \A k \in DOMAIN out : longer[k] = out[k] /\ out[k] # u
      BY <1>0, <1>4, <2>2 DEF Range
    <3>3. CASE i \in DOMAIN out /\ j \in DOMAIN out
      BY <3>2, <3>3 DEF IsInjective
    <3>4. CASE i = Len(out) + 1 \/ j = Len(out) + 1
      BY <2>2, <3>1, <3>2, <3>4
    <3> QED  BY <3>1, <3>3, <3>4
  <2>6. Range(longer) = from \cup {u} /\ Len(longer) <= 3
    BY <1>0, <1>4, <2>2, <2>3
  <2>7. out # <<>> => longer[1] = out[1]
    <3>1. out # <<>> => 1 \in 1..Len(out)
      BY <1>0, EmptySeq
    <3> QED  BY <2>2, <3>1
  <2> QED  BY <1>0, <2>0, <2>1, <2>2, <2>4, <2>5, <2>6, <2>7
<1> QED  BY <1>0, <1>1, <1>2, <1>3, <1>4

(***************************************************************************)
(* Picking from a whole sequence: the first of it comes first.             *)
(***************************************************************************)
LEMMA PickAll ==
  ASSUME NEW seq \in Seq(Everyone)
  PROVE  LET out == FoldLeft(AddTarget, <<>>, seq)
         IN  /\ Picked(out, Range(seq) \ {NoDonor})
             /\ seq # <<>> /\ seq[1] # NoDonor => out # <<>> /\ out[1] = seq[1]
<1>0. /\ Len(seq) \in Nat /\ DOMAIN seq = 1..Len(seq) /\ <<>> \in Seq(Others)
      /\ \A i \in 1..Len(seq) : seq[i] \in Everyone
  OBVIOUS
<1>1. PICK r : /\ r[0] = <<>>
               /\ \A i \in 1..Len(seq) : r[i] = AddTarget(r[i - 1], seq[i])
               /\ r[Len(seq)] = FoldLeft(AddTarget, <<>>, seq)
  BY <1>0, TargetsOneByOne
<1> DEFINE taken(k) == {seq[i] : i \in 1..k} \ {NoDonor}
           good(k) == /\ Picked(r[k], taken(k))
                      /\ k > 0 /\ seq[1] # NoDonor => r[k] # <<>> /\ r[k][1] = seq[1]
           done == {k \in Nat : k <= Len(seq) => good(k)}
<1>2. 0 \in done
  <2>1. taken(0) = {} /\ Range(<<>>) = {}
    BY DEF Range
  <2>2. Cardinality({}) = 0 /\ IsFiniteSet({}) /\ IsInjective(<<>>)
    BY FS_EmptySet DEF IsInjective
  <2>3. Picked(<<>>, taken(0))
    <3>1. Len(<<>>) = 0 /\ Cardinality(Range(<<>>)) = Len(<<>>)
      BY <2>1, <2>2
    <3>2. Range(<<>>) \subseteq taken(0) /\ IsFiniteSet(taken(0)) /\ Range(<<>>) = taken(0)
      BY <2>1, <2>2
    <3> HIDE DEF taken
    <3> QED  BY <1>0, <2>2, <3>1, <3>2 DEF Picked
  <2> QED  BY <1>1, <2>3
<1>3. ASSUME NEW k \in done PROVE k + 1 \in done
  <2> SUFFICES ASSUME k + 1 <= Len(seq) PROVE good(k + 1)
    <3>1. k + 1 \in Nat
      OBVIOUS
    <3> HIDE DEF good
    <3> QED  BY <3>1
  <2>1. PICK i \in 1..Len(seq) : i = k + 1 /\ i - 1 = k
    BY <1>0
  <2>2. good(k) /\ k \in Nat
    <3> HIDE DEF good
    <3> QED  BY <1>0
  <2>3. r[i] = AddTarget(r[i - 1], seq[i]) /\ seq[i] \in Everyone
    BY <1>0, <1>1
  <2>4. r[k + 1] = AddTarget(r[k], seq[k + 1]) /\ seq[k + 1] \in Everyone
    BY <2>1, <2>3
  <2>5. taken(k + 1) = taken(k) \cup ({seq[k + 1]} \ {NoDonor})
    <3>1. 1..(k + 1) = (1..k) \cup {k + 1}
      BY <2>2
    <3> QED  BY <3>1
  <2>6. Picked(r[k + 1], taken(k + 1))
        /\ (r[k] # <<>> => r[k + 1] # <<>> /\ r[k + 1][1] = r[k][1])
    <3>1. Picked(r[k], taken(k))
      BY <2>2
    <3> HIDE DEF taken
    <3> QED  BY <2>4, <2>5, <3>1, PickOne
  <2>7. ASSUME seq[1] # NoDonor PROVE r[k + 1] # <<>> /\ r[k + 1][1] = seq[1]
    <3>1. CASE k = 0
      <4>1. r[k + 1] = AddTarget(<<>>, seq[1]) /\ seq[1] \in Everyone
        BY <1>1, <2>4, <3>1
      <4>2. seq[1] \in Others
        BY <2>7, <4>1 DEF Everyone, NoDonor
      <4>3. AddTarget(<<>>, seq[1]) = Append(<<>>, seq[1])
        BY <2>7 DEF AddTarget
      <4> QED  BY <4>1, <4>2, <4>3
    <3>2. CASE k # 0
      BY <2>2, <2>6, <2>7, <3>2
    <3> QED  BY <3>1, <3>2
  <2> QED  BY <2>6, <2>7
<1>4. done = Nat
  <2> HIDE DEF done
  <2>1. done \in SUBSET Nat
    BY DEF done
  <2> QED  BY <1>2, <1>3, <2>1, SetInduction
<1>5. good(Len(seq))
  <2>1. Len(seq) \in done
    BY <1>0, <1>4
  <2> HIDE DEF good
  <2> QED  BY <1>0, <2>1
<1>6. taken(Len(seq)) = Range(seq) \ {NoDonor}
  BY <1>0 DEF Range
<1>7. seq # <<>> => Len(seq) > 0
  BY <1>0, EmptySeq
<1> HIDE DEF taken
<1> QED  BY <1>1, <1>5, <1>6, <1>7

(***************************************************************************)
(* The join-time sync asks the donor first and then other known users, as  *)
(* many as there are up to three, none of them twice (syncTargets).        *)
(***************************************************************************)
THEOREM AskedOnce == Spec => []AsksEachOnce
<1>1. Learned(peers, donor) => AsksEachOnce
  <2> SUFFICES ASSUME Learned(peers, donor) PROVE AsksEachOnce
    OBVIOUS
  <2> DEFINE seq == <<donor>> \o peers
  <2>1. /\ donor \in Candidates /\ peers \in Seq(Others)
        /\ Len(peers) \in Nat /\ DOMAIN peers = 1..Len(peers)
    BY DEF Learned
  <2>2. donor \in Everyone /\ <<donor>> \in Seq(Everyone) /\ peers \in Seq(Everyone)
    BY <2>1 DEF Everyone, Candidates, NoDonor
  <2>3. /\ seq \in Seq(Everyone) /\ Len(seq) = Len(peers) + 1
        /\ \A i \in 1..(Len(peers) + 1) :
             seq[i] = IF i <= 1 THEN donor ELSE peers[i - 1]
    BY <2>1, <2>2, ConcatProperties
  <2> HIDE DEF seq
  <2>4. seq # <<>> /\ seq[1] = donor
    BY <2>1, <2>3
  <2>5. Range(seq) = {donor} \cup Range(peers)
    <3>1. DOMAIN seq = 1..(Len(peers) + 1)
      BY <2>3
    <3>2. Range(seq) \subseteq {donor} \cup Range(peers)
      <4> SUFFICES ASSUME NEW i \in 1..(Len(peers) + 1), i > 1
                   PROVE  seq[i] \in Range(peers)
        BY <2>3, <3>1 DEF Range
      <4>1. i - 1 \in DOMAIN peers /\ seq[i] = peers[i - 1]
        BY <2>1, <2>3
      <4> QED  BY <4>1 DEF Range
    <3>3. ASSUME NEW j \in DOMAIN peers PROVE peers[j] \in Range(seq)
      <4>1. PICK i \in 1..(Len(peers) + 1) : i = j + 1
        BY <2>1
      <4>2. seq[i] = peers[i - 1] /\ i - 1 = j
        BY <2>1, <2>3, <4>1
      <4> QED  BY <3>1, <4>2 DEF Range
    <3>4. donor \in Range(seq)
      BY <2>1, <2>4, <3>1 DEF Range
    <3> QED  BY <3>2, <3>3, <3>4 DEF Range
  <2>6. Range(seq) \ {NoDonor} = Range(peers)
    <3>1. \A q \in Range(peers) : q # NoDonor
      BY <2>1, OthersOnly DEF Range
    <3>2. donor # NoDonor => donor \in Range(peers)
      BY DEF Learned
    <3> QED  BY <2>5, <3>1, <3>2
  <2>7. /\ Picked(SyncTargets, Range(peers))
        /\ donor # NoDonor => SyncTargets # <<>> /\ SyncTargets[1] = donor
    <3>1. SyncTargets = FoldLeft(AddTarget, <<>>, seq)
      BY DEF SyncTargets, seq
    <3> QED  BY <2>3, <2>4, <2>6, <3>1, PickAll
  <2>8. Len(SyncTargets) = IF Cardinality(Range(peers)) < 3
                             THEN Cardinality(Range(peers)) ELSE 3
    <3>1. /\ Len(SyncTargets) \in Nat /\ Len(SyncTargets) <= 3
          /\ Cardinality(Range(SyncTargets)) = Len(SyncTargets)
          /\ Range(SyncTargets) \subseteq Range(peers) /\ IsFiniteSet(Range(peers))
          /\ Len(SyncTargets) < 3 => Range(SyncTargets) = Range(peers)
      BY <2>7 DEF Picked
    <3>2. /\ Cardinality(Range(peers)) \in Nat
          /\ Cardinality(Range(SyncTargets)) <= Cardinality(Range(peers))
      BY <3>1, FS_CardinalityType, FS_Subset
    <3> QED  BY <3>1, <3>2
  <2>9. peers # <<>> => Head(SyncTargets) = donor
    <3>1. peers # <<>> => donor # NoDonor
      BY DEF Learned
    <3>2. SyncTargets \in Seq(Others)
      BY <2>7 DEF Picked
    <3> QED  BY <2>7, <3>1, <3>2
  <2> QED  BY <2>7, <2>8, <2>9 DEF AsksEachOnce, Picked
<1> QED  BY <1>1, RosterTypeCorrect, PTL

-------------------------------------------------------------------------------
(***************************************************************************)
(* A round that nothing disturbed has one answer on its way at most, and   *)
(* its next chunk is the one that the pairing waits for.                   *)
(***************************************************************************)
PairingInv ==
  ~disturbed => \A s \in streams : s.from = "own" => armed /\ s.next = ulNext

OneAnswer ==
  \A s, t \in streams : s.from = "own" /\ t.from = "own" => s = t

LEMMA OneAnswerStep ==
  ASSUME TypeOK, OneAnswer, [Next]_vars
  PROVE  OneAnswer'
<1>0. \A s \in streams : s \in Streams /\ s.next < Len(s.list)
  BY DEF TypeOK, Streams, Sources
<1>1. CASE SendUsersList
  <2>1. PICK list \in Lists :
          streams' = {Outdated(s) : s \in streams} \cup {Stream("own", list)}
    BY <1>1 DEF SendUsersList, OwnLists
  <2>2. \A s \in streams' : s.from = "own" => s = Stream("own", list)
    BY <1>0, <2>1, OutdatedStream
  <2> QED  BY <2>2 DEF OneAnswer
<1>2. CASE SendFails
  <2>1. \A s \in streams' : s.from # "own"
    BY <1>0, <1>2, OutdatedStream DEF SendFails
  <2> QED  BY <2>1 DEF OneAnswer
<1>3. ASSUME NEW s \in streams, UsersList(s) PROVE OneAnswer'
  <2> SUFFICES ASSUME NEW t \in streams', NEW e \in streams',
                      t.from = "own", e.from = "own"
               PROVE  t = e
    BY DEF OneAnswer
  <2>1. \A o \in streams' :
          \/ o \in streams /\ o # s
          \/ o = [s EXCEPT !.next = @ + 1] /\ o.from = s.from
    <3>1. [s EXCEPT !.next = @ + 1].from = s.from
      BY <1>0 DEF Streams
    <3> QED  BY <1>3, <3>1 DEF UsersList
  <2> QED  BY <2>1 DEF OneAnswer
<1>4. CASE Broadcast
  <2>1. PICK list \in Lists : streams' = streams \cup {Stream("broadcast", list)}
    BY <1>4 DEF Broadcast
  <2>2. Stream("broadcast", list).from # "own"
    BY DEF Stream
  <2> QED  BY <2>1, <2>2 DEF OneAnswer
<1>5. CASE UNCHANGED streams
  BY <1>5 DEF OneAnswer
<1> QED  BY <1>1, <1>2, <1>3, <1>4, <1>5 DEF Next, PresenterEvent, UserJoined, SwitchPresenter, vars

LEMMA PairingStep ==
  ASSUME TypeOK, OneAnswer, PairingInv, [Next]_vars
  PROVE  PairingInv'
<1>0. \A s \in streams : s \in Streams /\ s.next < Len(s.list)
  BY DEF TypeOK, Streams, Sources
<1>1. CASE SendUsersList
  <2>1. PICK list \in Lists :
          streams' = {Outdated(s) : s \in streams} \cup {Stream("own", list)}
    BY <1>1 DEF SendUsersList, OwnLists
  <2>2. armed' = TRUE /\ ulNext' = 0
    BY <1>1 DEF SendUsersList
  <2>3. \A s \in streams' : s.from = "own" => s.next = 0
    <3>1. Stream("own", list).next = 0
      BY DEF Stream
    <3> QED  BY <1>0, <2>1, <3>1, OutdatedStream
  <2> QED  BY <2>2, <2>3 DEF PairingInv
<1>2. CASE SendFails
  <2>1. \A s \in streams' : s.from # "own"
    BY <1>0, <1>2, OutdatedStream DEF SendFails
  <2> QED  BY <2>1 DEF PairingInv
<1>3. ASSUME NEW s \in streams, UsersList(s) PROVE PairingInv'
  <2> SUFFICES ASSUME ~disturbed', NEW t \in streams', t.from = "own"
               PROVE  armed' /\ t.next = ulNext'
    BY DEF PairingInv
  <2>1. ~disturbed /\ s.from = "own"
    BY <1>3 DEF UsersList
  <2>2. armed /\ s.next = ulNext
    BY <2>1 DEF PairingInv
  <2>3. ~IsLast(s) /\ t.next = s.next + 1
    <3>1. CASE t \in streams /\ t # s
      BY <2>1, <3>1 DEF OneAnswer
    <3> QED  BY <1>3, <3>1, StreamsLeft
  <2>4. armed' = armed /\ ulNext' = ulNext + 1
    BY <1>3, <2>2, <2>3 DEF UsersList, Pair, Continues
  <2> QED  BY <2>2, <2>3, <2>4
<1>4. CASE Broadcast
  <2>1. PICK list \in Lists : streams' = streams \cup {Stream("broadcast", list)}
    BY <1>4 DEF Broadcast
  <2>2. Stream("broadcast", list).from # "own"
    BY DEF Stream
  <2> QED  BY <1>4, <2>1, <2>2 DEF Broadcast, PairingInv, pairing
<1>5. CASE UNCHANGED <<streams, armed, ulNext, disturbed>>
  BY <1>5 DEF PairingInv
<1> QED  BY <1>1, <1>2, <1>3, <1>4, <1>5
         DEF Next, PresenterEvent, UserJoined, SwitchPresenter, vars, pairing

(***************************************************************************)
(* When nothing but the answer arrives between a request and the last      *)
(* chunk of its answer, exactly that chunk records the request's latency   *)
(* (sendUsersList, onUsersList).                                           *)
(***************************************************************************)
THEOREM AnswerSampled == Spec => AnswerIsSampled
<1> DEFINE Sampled == \A s \in streams :
                        s.from = "own" /\ UsersList(s) /\ ~disturbed' =>
                          (sampled' <=> IsLast(s))
<1>1. Init => OneAnswer /\ PairingInv
  BY DEF Init, OneAnswer, PairingInv
<1>2. TypeOK /\ OneAnswer /\ PairingInv /\ [Next]_vars => OneAnswer' /\ PairingInv'
  BY OneAnswerStep, PairingStep
<1>3. PairingInv => Sampled
  <2> SUFFICES ASSUME PairingInv, NEW s \in streams, s.from = "own",
                      UsersList(s), ~disturbed'
               PROVE  sampled' <=> IsLast(s)
    OBVIOUS
  <2>1. ~disturbed /\ Decodes(s) /\ Pair(s)
    BY DEF UsersList
  <2>2. Continues(s)
    BY <2>1 DEF PairingInv, Continues
  <2>3. CASE IsLast(s)
    <3>1. sampled' = Decodes(s)
      BY Zenon, <2>1, <2>2, <2>3 DEF Pair
    <3> QED  BY Zenon, <2>1, <2>3, <3>1
  <2>4. CASE ~IsLast(s)
    <3>1. sampled' = FALSE
      BY Zenon, <2>1, <2>2, <2>4 DEF Pair
    <3> QED  BY Zenon, <2>4, <3>1
  <2> QED  BY <2>3, <2>4
<1>4. Spec => []PairingInv
  BY <1>1, <1>2, RosterTypeCorrect, PTL DEF Spec
<1>5. Sampled => [Sampled]_vars
  OBVIOUS
<1> QED  BY <1>3, <1>4, <1>5, PTL DEF AnswerIsSampled
===============================================================================
