----------------------------- MODULE SamplerProofs -----------------------------
(***************************************************************************)
(* Proofs about the two samplers of a run, for every value of their        *)
(* constants.  They share no state, so each part is about one of them.     *)
(*                                                                         *)
(* The machine and process sampler: sums over processes and over names are *)
(* cardinalities of sets, so that facts about finite sets give the little  *)
(* arithmetic of sums that is needed.  The invariant keeps, besides what   *)
(* was credited, what the processes have grown by since they were last     *)
(* read, because this sample or the next may credit it.                    *)
(*                                                                         *)
(* The memory sampler: the picked points are in order, and the anchors,    *)
(* each put onto the nearest of them, keep them so; nothing is dropped as  *)
(* a duplicate then.  The first and the last slot hold the first and the   *)
(* last sample unless the peak has taken their place, which it does only   *)
(* from close by.                                                          *)
(***************************************************************************)
EXTENDS HostSampler, MemSampler,
        SequenceTheorems, FiniteSetTheorems, WellFoundedInduction, TLAPS

(***************************************************************************)
(* Induction over the numbers, from the well-foundedness of their order: a *)
(* set of them that is not empty has a least one, and one that has 0 and   *)
(* the successor of each of its members has all.                           *)
(***************************************************************************)
LEMMA LeastOf ==
  ASSUME NEW S \in SUBSET Nat, S # {}
  PROVE  \E x \in S : \A y \in S : x <= y
<1>1. PICK x \in S : \A y \in S : ~(<<y, x>> \in OpToRel(<, Nat))
  BY NatLessThanWellFounded, WFMin
<1>2. \A y \in S : ~(y < x)
  BY <1>1 DEF OpToRel
<1> QED  BY <1>2

LEMMA SetInduction ==
  ASSUME NEW S \in SUBSET Nat, 0 \in S, \A k \in S : k + 1 \in S
  PROVE  S = Nat
<1> SUFFICES ASSUME Nat \ S # {}
             PROVE  FALSE
  OBVIOUS
<1> DEFINE left == Nat \ S
<1>1. PICK x \in left : \A y \in left : ~(<<y, x>> \in OpToRel(<, Nat))
  <2>1. left \subseteq Nat /\ left # {}
    OBVIOUS
  <2> HIDE DEF left
  <2> QED  BY <2>1, NatLessThanWellFounded, WFMin
<1>2. x \in Nat /\ x # 0
  OBVIOUS
<1>3. x - 1 \in Nat /\ <<x - 1, x>> \in OpToRel(<, Nat)
  BY <1>2 DEF OpToRel
<1>4. x - 1 \in S
  BY <1>1, <1>3
<1>5. x - 1 + 1 \in S
  BY <1>4
<1> QED  BY <1>2, <1>5

(***************************************************************************)
(* Induction over a finite set: a set of its subsets that has the empty    *)
(* one and, with each, the one with an element more has the whole set.     *)
(***************************************************************************)
LEMMA FiniteInduction ==
  ASSUME NEW S, IsFiniteSet(S), NEW T \in SUBSET SUBSET S, {} \in T,
         \A s \in T : \A x \in S \ s : s \cup {x} \in T
  PROVE  S \in T
<1> DEFINE done == {k \in Nat : \A s \in SUBSET S : Cardinality(s) = k => s \in T}
<1>0. \A s \in SUBSET S : IsFiniteSet(s) /\ Cardinality(s) \in Nat
  BY FS_Subset, FS_CardinalityType
<1>1. 0 \in done
  BY <1>0, FS_EmptySet
<1>2. ASSUME NEW k \in done PROVE k + 1 \in done
  <2> SUFFICES ASSUME NEW s \in SUBSET S, Cardinality(s) = k + 1 PROVE s \in T
    OBVIOUS
  <2>1. s # {}
    <3>1. k + 1 # 0
      OBVIOUS
    <3> QED  BY <3>1, FS_EmptySet
  <2>2. PICK x \in s : TRUE
    BY <2>1
  <2>3. Cardinality(s \ {x}) = k
    BY <1>0, FS_RemoveElement
  <2>4. s \ {x} \in T /\ x \in S \ (s \ {x})
    BY <2>3
  <2>5. (s \ {x}) \cup {x} = s
    OBVIOUS
  <2>6. (s \ {x}) \cup {x} \in T
    BY <2>4
  <2> QED  BY <2>5, <2>6
<1>3. done = Nat
  <2> HIDE DEF done
  <2>1. done \in SUBSET Nat
    BY DEF done
  <2> QED  BY <1>1, <1>2, <2>1, SetInduction
<1>4. Cardinality(S) \in done
  <2> HIDE DEF done
  <2> QED  BY <1>0, <1>3
<1> QED  BY <1>4

(***************************************************************************)
(* A sum over a set, as MapThenSumSet adds it up, counts the elements of a *)
(* set: on each element x of it a pile of f[x].                            *)
(***************************************************************************)
Total(f, S) == MapThenSumSet(LAMBDA x : f[x], S)
Piles(f, S) == UNION {{x} \X (1..f[x]) : x \in S}
Natural(f, S) == IsFiniteSet(S) /\ \A x \in S : f[x] \in Nat

AnyOf(s) == CHOOSE x \in s : TRUE
Adds(h, f, S) ==
  h = [s \in SUBSET S |->
         IF s = {} THEN 0 ELSE f[AnyOf(s)] + h[s \ {AnyOf(s)}]]

LEMMA AnyIsOne == ASSUME NEW s, s # {} PROVE AnyOf(s) \in s
<1>1. \E x \in s : TRUE
  OBVIOUS
<1> QED  BY <1>1, Zenon DEF AnyOf

LEMMA PilesFinite ==
  ASSUME NEW S, NEW f, Natural(f, S)
  PROVE  \A s \in SUBSET S : IsFiniteSet(Piles(f, s))
<1> DEFINE T == {s \in SUBSET S : IsFiniteSet(Piles(f, s))}
<1>1. {} \in T
  <2>1. Piles(f, {}) = {}
    BY DEF Piles
  <2> QED  BY <2>1, FS_EmptySet
<1>2. ASSUME NEW s \in T, NEW x \in S \ s PROVE s \cup {x} \in T
  <2> DEFINE pile == {x} \X (1..f[x])
  <2>1. Piles(f, s \cup {x}) = Piles(f, s) \cup pile
    BY DEF Piles
  <2>2. IsFiniteSet(pile)
    <3>1. f[x] \in Nat
      BY DEF Natural
    <3>2. IsFiniteSet(1..f[x])
      BY <3>1, FS_Interval
    <3>3. IsFiniteSet({x})
      BY FS_Singleton
    <3> QED  BY <3>2, <3>3, FS_Product
  <2> HIDE DEF pile
  <2>3. IsFiniteSet(Piles(f, s) \cup pile)
    BY <2>2, FS_Union
  <2> QED  BY <2>1, <2>3
<1>3. S \in T
  <2>1. T \in SUBSET SUBSET S
    OBVIOUS
  <2> HIDE DEF T
  <2> QED  BY <1>1, <1>2, <2>1, FiniteInduction DEF Natural
<1>4. ASSUME NEW s \in SUBSET S PROVE IsFiniteSet(Piles(f, s))
  <2>1. Piles(f, s) \subseteq Piles(f, S)
    BY DEF Piles
  <2> QED  BY <1>3, <2>1, FS_Subset
<1> QED  BY <1>4

LEMMA PileStep ==
  ASSUME NEW S, NEW f, Natural(f, S), NEW s \in SUBSET S, NEW x \in s
  PROVE  Cardinality(Piles(f, s)) = f[x] + Cardinality(Piles(f, s \ {x}))
<1> DEFINE pile == {x} \X (1..f[x])
           rest == Piles(f, s \ {x})
<1>1. Piles(f, s) = pile \cup rest
  BY DEF Piles
<1>2. pile \cap rest = {}
  BY DEF Piles
<1>3. IsFiniteSet(rest) /\ Cardinality(rest) \in Nat
  BY PilesFinite, FS_CardinalityType
<1>4. IsFiniteSet(pile) /\ Cardinality(pile) = f[x]
  <2>1. f[x] \in Nat
    BY DEF Natural
  <2>2. IsFiniteSet({x}) /\ Cardinality({x}) = 1
    BY FS_Singleton
  <2>3. IsFiniteSet(1..f[x]) /\ Cardinality(1..f[x]) = f[x]
    BY <2>1, FS_Interval
  <2>4. IsFiniteSet(pile) /\ Cardinality(pile) = Cardinality({x}) * Cardinality(1..f[x])
    BY <2>2, <2>3, FS_Product
  <2> QED  BY <2>1, <2>2, <2>3, <2>4
<1> HIDE DEF pile, rest
<1>5. Cardinality(pile \cup rest) = Cardinality(pile) + Cardinality(rest) - Cardinality({})
  BY <1>2, <1>3, <1>4, FS_Union
<1>6. Cardinality({}) = 0 /\ f[x] \in Nat
  BY FS_EmptySet DEF Natural
<1> QED  BY <1>1, <1>3, <1>4, <1>5, <1>6 DEF rest

(***************************************************************************)
(* The one function that adds up.                                          *)
(***************************************************************************)
LEMMA AddsExist ==
  ASSUME NEW S, NEW f, Natural(f, S)
  PROVE  Adds([s \in SUBSET S |-> Cardinality(Piles(f, s))], f, S)
<1> DEFINE g == [s \in SUBSET S |-> Cardinality(Piles(f, s))]
           e == [s \in SUBSET S |->
                   IF s = {} THEN 0 ELSE f[AnyOf(s)] + g[s \ {AnyOf(s)}]]
<1>1. ASSUME NEW s \in SUBSET S PROVE g[s] = e[s]
  <2>1. CASE s = {}
    <3>1. Piles(f, s) = {}
      BY <2>1 DEF Piles
    <3> QED  BY <2>1, <3>1, FS_EmptySet
  <2>2. CASE s # {}
    <3>1. AnyOf(s) \in s /\ s \ {AnyOf(s)} \in SUBSET S
      BY <2>2, AnyIsOne
    <3>2. g[s] = f[AnyOf(s)] + Cardinality(Piles(f, s \ {AnyOf(s)}))
      BY <3>1, PileStep
    <3> QED  BY <2>2, <3>1, <3>2
  <2> QED  BY <2>1, <2>2
<1>2. g = e
  BY <1>1
<1> QED  BY <1>2 DEF Adds

LEMMA AddsOnce ==
  ASSUME NEW S, NEW f, Natural(f, S), NEW h, Adds(h, f, S)
  PROVE  h[S] = Cardinality(Piles(f, S))
<1> DEFINE done == {k \in Nat : \A s \in SUBSET S :
                      Cardinality(s) = k => h[s] = Cardinality(Piles(f, s))}
<1>0. \A s \in SUBSET S : IsFiniteSet(s) /\ Cardinality(s) \in Nat
  BY FS_Subset, FS_CardinalityType DEF Natural
<1>1. ASSUME NEW s \in SUBSET S
      PROVE h[s] = IF s = {} THEN 0 ELSE f[AnyOf(s)] + h[s \ {AnyOf(s)}]
  BY DEF Adds
<1>2. 0 \in done
  <2> SUFFICES ASSUME NEW s \in SUBSET S, Cardinality(s) = 0
               PROVE  h[s] = Cardinality(Piles(f, s))
    OBVIOUS
  <2>1. s = {}
    BY <1>0, FS_EmptySet
  <2>2. Piles(f, s) = {}
    BY <2>1 DEF Piles
  <2> QED  BY <1>1, <2>1, <2>2, FS_EmptySet
<1>3. ASSUME NEW k \in done PROVE k + 1 \in done
  <2> SUFFICES ASSUME NEW s \in SUBSET S, Cardinality(s) = k + 1
               PROVE  h[s] = Cardinality(Piles(f, s))
    OBVIOUS
  <2>1. s # {}
    <3>1. k + 1 # 0
      OBVIOUS
    <3> QED  BY <3>1, FS_EmptySet
  <2>2. AnyOf(s) \in s /\ s \ {AnyOf(s)} \in SUBSET S
    BY <2>1, AnyIsOne
  <2>3. Cardinality(s \ {AnyOf(s)}) = k
    <3>1. PICK x \in s : x = AnyOf(s)
      BY <2>2
    <3>2. Cardinality(s \ {x}) = Cardinality(s) - 1
      BY <1>0, FS_RemoveElement
    <3> QED  BY <3>1, <3>2
  <2>4. h[s \ {AnyOf(s)}] = Cardinality(Piles(f, s \ {AnyOf(s)}))
    BY <2>2, <2>3
  <2>5. h[s] = f[AnyOf(s)] + h[s \ {AnyOf(s)}]
    BY <1>1, <2>1
  <2>6. Cardinality(Piles(f, s)) = f[AnyOf(s)] + Cardinality(Piles(f, s \ {AnyOf(s)}))
    BY <2>2, PileStep
  <2> QED  BY <2>4, <2>5, <2>6
<1>4. done = Nat
  <2> HIDE DEF done
  <2>1. done \in SUBSET Nat
    BY DEF done
  <2> QED  BY <1>2, <1>3, <2>1, SetInduction
<1>5. Cardinality(S) \in done
  <2> HIDE DEF done
  <2> QED  BY <1>0, <1>4
<1> QED  BY <1>5

LEMMA TotalCounts ==
  ASSUME NEW S, NEW f, Natural(f, S)
  PROVE  Total(f, S) = Cardinality(Piles(f, S))
<1> DEFINE h == CHOOSE e : Adds(e, f, S)
<1>1. \E e : Adds(e, f, S)
  BY AddsExist
<1>2. Adds(h, f, S)
  BY <1>1, Zenon
<1>3. Total(f, S) = h[S]
  BY Zenon DEF Total, MapThenSumSet, MapThenFoldSet, Adds, AnyOf
<1> HIDE DEF h
<1> QED  BY <1>2, <1>3, AddsOnce

(***************************************************************************)
(* What is needed of sums: they are natural, an element can be taken out,  *)
(* and they grow with their parts.                                         *)
(***************************************************************************)
LEMMA TotalSteps ==
  ASSUME NEW S, NEW f, Natural(f, S)
  PROVE  /\ Total(f, S) \in Nat
         /\ S = {} => Total(f, S) = 0
         /\ \A x \in S : Total(f, S) = f[x] + Total(f, S \ {x})
<1>1. Total(f, S) \in Nat
  BY TotalCounts, PilesFinite, FS_CardinalityType
<1>2. S = {} => Total(f, S) = 0
  <2>1. S = {} => Piles(f, S) = {}
    BY DEF Piles
  <2> QED  BY <2>1, TotalCounts, FS_EmptySet
<1>3. ASSUME NEW x \in S PROVE Total(f, S) = f[x] + Total(f, S \ {x})
  <2>1. Natural(f, S \ {x})
    BY FS_Subset DEF Natural
  <2> QED  BY <2>1, TotalCounts, PileStep
<1> QED  BY <1>1, <1>2, <1>3

LEMMA TotalOfTwo ==
  ASSUME NEW S, NEW f, Natural(f, S), NEW g, Natural(g, S), NEW h, Natural(h, S),
         \A x \in S : h[x] <= f[x] + g[x]
  PROVE  Total(h, S) <= Total(f, S) + Total(g, S)
<1> DEFINE T == {s \in SUBSET S : Total(h, s) <= Total(f, s) + Total(g, s)}
<1>0. ASSUME NEW s \in SUBSET S PROVE Natural(f, s) /\ Natural(g, s) /\ Natural(h, s)
  BY FS_Subset DEF Natural
<1>1. {} \in T
  <2>1. Total(f, {}) = 0 /\ Total(g, {}) = 0 /\ Total(h, {}) = 0
    BY <1>0, TotalSteps
  <2> QED  BY <2>1
<1>2. ASSUME NEW s \in T, NEW x \in S \ s PROVE s \cup {x} \in T
  <2> DEFINE more == s \cup {x}
  <2>1. more \in SUBSET S /\ x \in more /\ more \ {x} = s
    OBVIOUS
  <2> HIDE DEF more
  <2>2. Natural(f, more) /\ Natural(g, more) /\ Natural(h, more)
    BY <1>0, <2>1
  <2>3. /\ Total(f, more) = f[x] + Total(f, s)
        /\ Total(g, more) = g[x] + Total(g, s)
        /\ Total(h, more) = h[x] + Total(h, s)
    BY <2>1, <2>2, TotalSteps
  <2>4. Natural(f, s) /\ Natural(g, s) /\ Natural(h, s)
    BY <1>0
  <2>5. Total(f, s) \in Nat /\ Total(g, s) \in Nat /\ Total(h, s) \in Nat
    BY <2>4, TotalSteps
  <2>6. f[x] \in Nat /\ g[x] \in Nat /\ h[x] \in Nat /\ h[x] <= f[x] + g[x]
    BY DEF Natural
  <2>7. Total(h, s) <= Total(f, s) + Total(g, s)
    OBVIOUS
  <2>8. Total(h, more) <= Total(f, more) + Total(g, more)
    BY <2>3, <2>5, <2>6, <2>7
  <2> QED  BY <2>1, <2>8 DEF more
<1>3. S \in T
  <2>1. T \in SUBSET SUBSET S
    OBVIOUS
  <2> HIDE DEF T
  <2> QED  BY <1>1, <1>2, <2>1, FiniteInduction DEF Natural
<1> QED  BY <1>3

LEMMA TotalOfParts ==
  ASSUME NEW S, NEW f, Natural(f, S), NEW g, Natural(g, S), NEW h, Natural(h, S),
         \A x \in S : f[x] + g[x] <= h[x]
  PROVE  Total(f, S) + Total(g, S) <= Total(h, S)
<1> DEFINE T == {s \in SUBSET S : Total(f, s) + Total(g, s) <= Total(h, s)}
<1>0. ASSUME NEW s \in SUBSET S PROVE Natural(f, s) /\ Natural(g, s) /\ Natural(h, s)
  BY FS_Subset DEF Natural
<1>1. {} \in T
  <2>1. Total(f, {}) = 0 /\ Total(g, {}) = 0 /\ Total(h, {}) = 0
    BY <1>0, TotalSteps
  <2> QED  BY <2>1
<1>2. ASSUME NEW s \in T, NEW x \in S \ s PROVE s \cup {x} \in T
  <2> DEFINE more == s \cup {x}
  <2>1. more \in SUBSET S /\ x \in more /\ more \ {x} = s
    OBVIOUS
  <2> HIDE DEF more
  <2>2. Natural(f, more) /\ Natural(g, more) /\ Natural(h, more)
    BY <1>0, <2>1
  <2>3. /\ Total(f, more) = f[x] + Total(f, s)
        /\ Total(g, more) = g[x] + Total(g, s)
        /\ Total(h, more) = h[x] + Total(h, s)
    BY <2>1, <2>2, TotalSteps
  <2>4. Natural(f, s) /\ Natural(g, s) /\ Natural(h, s)
    BY <1>0
  <2>5. Total(f, s) \in Nat /\ Total(g, s) \in Nat /\ Total(h, s) \in Nat
    BY <2>4, TotalSteps
  <2>6. f[x] \in Nat /\ g[x] \in Nat /\ h[x] \in Nat /\ f[x] + g[x] <= h[x]
    BY DEF Natural
  <2>7. Total(f, s) + Total(g, s) <= Total(h, s)
    OBVIOUS
  <2>8. Total(f, more) + Total(g, more) <= Total(h, more)
    BY <2>3, <2>5, <2>6, <2>7
  <2> QED  BY <2>1, <2>8 DEF more
<1>3. S \in T
  <2>1. T \in SUBSET SUBSET S
    OBVIOUS
  <2> HIDE DEF T
  <2> QED  BY <1>1, <1>2, <2>1, FiniteInduction DEF Natural
<1> QED  BY <1>3

LEMMA TotalZero ==
  ASSUME NEW S, NEW f, IsFiniteSet(S), \A x \in S : f[x] = 0
  PROVE  Total(f, S) = 0
<1>1. Natural(f, S)
  BY DEF Natural
<1>2. Piles(f, S) = {}
  BY DEF Piles
<1> QED  BY <1>1, <1>2, TotalCounts, FS_EmptySet

LEMMA TotalGrows ==
  ASSUME NEW S, NEW f, Natural(f, S), NEW h, Natural(h, S),
         \A x \in S : h[x] <= f[x]
  PROVE  Total(h, S) <= Total(f, S)
<1> DEFINE z == [x \in S |-> 0]
<1>1. Natural(z, S) /\ Total(z, S) = 0
  BY TotalZero DEF Natural
<1>2. \A x \in S : h[x] <= f[x] + z[x]
  BY DEF Natural
<1> HIDE DEF z
<1>3. Total(h, S) <= Total(f, S) + Total(z, S)
  BY <1>1, <1>2, TotalOfTwo
<1>4. Total(f, S) \in Nat /\ Total(h, S) \in Nat
  BY TotalSteps
<1> QED  BY <1>1, <1>3, <1>4

LEMMA TotalSplits ==
  ASSUME NEW S, NEW f, Natural(f, S), NEW A \in SUBSET S, NEW B \in SUBSET S,
         A \cap B = {}
  PROVE  Total(f, A \cup B) = Total(f, A) + Total(f, B)
<1>1. Natural(f, A) /\ Natural(f, B) /\ Natural(f, A \cup B)
  BY FS_Subset DEF Natural
<1>2. Piles(f, A \cup B) = Piles(f, A) \cup Piles(f, B)
  BY DEF Piles
<1>3. Piles(f, A) \cap Piles(f, B) = {}
  BY DEF Piles
<1>4. /\ IsFiniteSet(Piles(f, A)) /\ IsFiniteSet(Piles(f, B))
      /\ Cardinality(Piles(f, A)) \in Nat /\ Cardinality(Piles(f, B)) \in Nat
  BY PilesFinite, FS_CardinalityType
<1>5. Cardinality(Piles(f, A) \cup Piles(f, B))
        = Cardinality(Piles(f, A)) + Cardinality(Piles(f, B)) - Cardinality({})
  BY <1>3, <1>4, FS_Union
<1>6. Cardinality({}) = 0
  BY FS_EmptySet
<1>7. Total(f, A) = Cardinality(Piles(f, A)) /\ Total(f, B) = Cardinality(Piles(f, B))
  BY <1>1, TotalCounts
<1>8. Total(f, A \cup B) = Cardinality(Piles(f, A \cup B))
  BY <1>1, TotalCounts
<1>9. Cardinality(Piles(f, A) \cup Piles(f, B))
        = Cardinality(Piles(f, A)) + Cardinality(Piles(f, B))
  BY <1>4, <1>5, <1>6
<1>10. Cardinality(Piles(f, A \cup B)) = Cardinality(Piles(f, A) \cup Piles(f, B))
  BY <1>2
<1> QED  BY <1>7, <1>8, <1>9, <1>10

(***************************************************************************)
(* The growth of a process from one reading to another, whatever its name: *)
(* since the last sample read it, since this one did, and what is still to *)
(* be accounted for, of which this sample credits a part and leaves the    *)
(* rest to the next.                                                       *)
(***************************************************************************)
GrownSince(last, p) ==
  [pid \in Pids |->
     IF /\ p[pid] # Absent /\ last[pid] # Absent
        /\ p[pid].ticks >= last[pid].ticks
       THEN p[pid].ticks - last[pid].ticks ELSE 0]
SpentBy(last, read) ==
  [pid \in Pids |->
     IF /\ read[pid] # Absent /\ last[pid] # Absent
        /\ last[pid].name = read[pid].name
        /\ read[pid].ticks >= last[pid].ticks
       THEN read[pid].ticks - last[pid].ticks ELSE 0]
OwedBy(last, read, p) ==
  [pid \in Pids |->
     IF read[pid] = Absent THEN GrownSince(last, p)[pid]
       ELSE SpentBy(last, read)[pid] + GrownSince(read, p)[pid]]

SpentOf == SpentBy(lastPID, cur)
Late == GrownSince(cur, procs)
Owed == OwedBy(lastPID, cur, procs)

SpentAdds(h, S) ==
  h = [s \in SUBSET S |->
         IF s = {} THEN 0 ELSE Spent(AnyOf(s)) + h[s \ {AnyOf(s)}]]

LEMMA SpentTotal ==
  ASSUME NEW S \in SUBSET Pids, Natural(SpentOf, S)
  PROVE  MapThenSumSet(Spent, S) = Total(SpentOf, S)
<1> DEFINE h == CHOOSE e : SpentAdds(e, S)
<1>1. ASSUME NEW e PROVE SpentAdds(e, S) <=> Adds(e, SpentOf, S)
  <2> DEFINE a == [s \in SUBSET S |->
                     IF s = {} THEN 0 ELSE Spent(AnyOf(s)) + e[s \ {AnyOf(s)}]]
             b == [s \in SUBSET S |->
                     IF s = {} THEN 0 ELSE SpentOf[AnyOf(s)] + e[s \ {AnyOf(s)}]]
  <2>1. ASSUME NEW s \in SUBSET S PROVE a[s] = b[s]
    <3>1. CASE s = {}
      BY <3>1
    <3>2. CASE s # {}
      <4>1. AnyOf(s) \in Pids
        BY <3>2, AnyIsOne
      <4>2. SpentOf[AnyOf(s)] = Spent(AnyOf(s))
        BY <4>1 DEF SpentOf, SpentBy, Spent
      <4> QED  BY <4>2
    <3> QED  BY <3>1, <3>2
  <2>2. a = b
    BY <2>1
  <2> HIDE DEF a, b
  <2>3. (e = a) <=> (e = b)
    BY <2>2
  <2> QED  BY <2>3 DEF SpentAdds, Adds, a, b
<1>2. \E e : SpentAdds(e, S)
  BY <1>1, AddsExist
<1>3. SpentAdds(h, S)
  BY <1>2, Zenon
<1>4. MapThenSumSet(Spent, S) = h[S]
  BY Zenon DEF MapThenSumSet, MapThenFoldSet, SpentAdds, AnyOf
<1> HIDE DEF h
<1>5. Adds(h, SpentOf, S)
  BY <1>1, <1>3
<1>6. h[S] = Cardinality(Piles(SpentOf, S))
  BY <1>5, AddsOnce
<1> QED  BY <1>4, <1>6, TotalCounts


(***************************************************************************)
(* What the names are credited with, one name after the other, is what was *)
(* spent by the processes that were read.                                  *)
(***************************************************************************)
Readings == [Pids -> {Absent} \cup Process]
Processes == procs \in Readings /\ cur \in Readings /\ lastPID \in Readings

LEMMA GrownIsNatural ==
  ASSUME NEW p \in Readings, NEW last \in Readings
  PROVE  Natural(GrownSince(last, p), Pids)
<1>1. ASSUME NEW pid \in Pids PROVE GrownSince(last, p)[pid] \in Nat
  <2>1. p[pid] \in {Absent} \cup Process /\ last[pid] \in {Absent} \cup Process
    BY DEF Readings
  <2>2. p[pid] # Absent /\ last[pid] # Absent
          => p[pid].ticks \in Nat /\ last[pid].ticks \in Nat
    BY <2>1 DEF Process
  <2> QED  BY <2>2 DEF GrownSince
<1> QED  BY <1>1, HostSamplerAssumption DEF Natural

LEMMA SpentIsNatural ==
  ASSUME NEW last \in Readings, NEW read \in Readings
  PROVE  Natural(SpentBy(last, read), Pids)
<1>1. ASSUME NEW pid \in Pids PROVE SpentBy(last, read)[pid] \in Nat
  <2>1. read[pid] \in {Absent} \cup Process /\ last[pid] \in {Absent} \cup Process
    BY DEF Readings
  <2>2. read[pid] # Absent /\ last[pid] # Absent
          => read[pid].ticks \in Nat /\ last[pid].ticks \in Nat
    BY <2>1 DEF Process
  <2> QED  BY <2>2 DEF SpentBy
<1> QED  BY <1>1, HostSamplerAssumption DEF Natural

LEMMA OwedIsNatural ==
  ASSUME NEW last \in Readings, NEW read \in Readings, NEW p \in Readings
  PROVE  Natural(OwedBy(last, read, p), Pids)
<1>1. /\ Natural(GrownSince(last, p), Pids) /\ Natural(GrownSince(read, p), Pids)
      /\ Natural(SpentBy(last, read), Pids)
  BY GrownIsNatural, SpentIsNatural
<1>2. ASSUME NEW pid \in Pids PROVE OwedBy(last, read, p)[pid] \in Nat
  BY <1>1 DEF OwedBy, Natural
<1> QED  BY <1>2, HostSamplerAssumption DEF Natural

LEMMA DeltasAreSpent ==
  ASSUME Processes
  PROVE  /\ Natural(Deltas, Names)
         /\ Total(Deltas, Names) <= Total(SpentOf, Pids)
<1> DEFINE d == Deltas
           of(names) == {pid \in Seen : cur[pid].name \in names}
           T == {names \in SUBSET Names :
                   Natural(d, names) /\ Total(d, names) = Total(SpentOf, of(names))}
<1>0. Seen \in SUBSET Pids /\ Natural(SpentOf, Pids)
  BY SpentIsNatural DEF Seen, SpentOf, Processes
<1>1. ASSUME NEW s \in SUBSET Seen PROVE Natural(SpentOf, s) /\ s \in SUBSET Pids
  BY <1>0, FS_Subset DEF Natural
<1>2. {} \in T
  <2>1. of({}) = {}
    OBVIOUS
  <2>2. Natural(d, {}) /\ Natural(SpentOf, {})
    BY FS_EmptySet DEF Natural
  <2>3. Total(d, {}) = 0 /\ Total(SpentOf, {}) = 0
    BY <2>2, TotalSteps
  <2> QED  BY <2>1, <2>2, <2>3
<1>3. ASSUME NEW names \in T, NEW name \in Names \ names PROVE names \cup {name} \in T
  <2> DEFINE more == names \cup {name}
             mine == {pid \in Seen : cur[pid].name = name}
             theirs == of(names)
  <2>1. /\ of(more) = mine \cup theirs /\ mine \cap theirs = {}
        /\ mine \in SUBSET Seen /\ theirs \in SUBSET Seen
    OBVIOUS
  <2>2. d[name] = MapThenSumSet(Spent, mine)
    BY DEF Deltas
  <2>3. Natural(d, names) /\ Total(d, names) = Total(SpentOf, theirs)
    OBVIOUS
  <2>4. more \in SUBSET Names /\ name \in more /\ more \ {name} = names
    OBVIOUS
  <2>5. IsFiniteSet(more)
    BY <2>3, FS_AddElement DEF Natural
  <2>6. Total(SpentOf, of(more)) = Total(SpentOf, mine) + Total(SpentOf, theirs)
    <3> HIDE DEF more, mine, theirs, of
    <3>1. Natural(SpentOf, Seen)
      BY <1>1
    <3> QED  BY <2>1, <3>1, TotalSplits
  <2>7. d[name] = Total(SpentOf, mine) /\ d[name] \in Nat
    <3> HIDE DEF mine, d
    <3>1. Natural(SpentOf, mine) /\ mine \in SUBSET Pids
      BY <1>1, <2>1
    <3>2. Total(SpentOf, mine) \in Nat
      BY <3>1, TotalSteps
    <3> QED  BY <2>2, <3>1, <3>2, SpentTotal
  <2> HIDE DEF d, more, mine, theirs, of
  <2>8. Natural(d, more)
    BY <2>3, <2>4, <2>5, <2>7 DEF Natural, more
  <2>9. Total(d, more) = d[name] + Total(d, names)
    BY <2>4, <2>8, TotalSteps
  <2>10. Total(d, more) = Total(SpentOf, of(more))
    BY <2>3, <2>6, <2>7, <2>9
  <2>11. more \in T
    BY <2>4, <2>8, <2>10
  <2> QED  BY <2>11 DEF more
<1>4. Names \in T
  <2>1. T \in SUBSET SUBSET Names
    OBVIOUS
  <2> HIDE DEF T
  <2> QED  BY <1>2, <1>3, <2>1, FiniteInduction, HostSamplerAssumption
<1>5. Natural(d, Names) /\ Total(d, Names) = Total(SpentOf, of(Names))
  BY <1>4
<1> DEFINE read == of(Names)
           rest == Pids \ read
<1>6. /\ read \in SUBSET Pids /\ rest \in SUBSET Pids
      /\ read \cap rest = {} /\ read \cup rest = Pids
  BY <1>0
<1>7. Total(d, Names) = Total(SpentOf, read)
  BY <1>5
<1> HIDE DEF d, T, of, read, rest
<1>8. Natural(SpentOf, read) /\ Natural(SpentOf, rest)
  BY <1>0, <1>6, FS_Subset DEF Natural
<1>9. Total(SpentOf, read \cup rest) = Total(SpentOf, read) + Total(SpentOf, rest)
  BY <1>0, <1>6, TotalSplits
<1>10. Total(SpentOf, read) \in Nat /\ Total(SpentOf, rest) \in Nat
  BY <1>8, TotalSteps
<1>11. Total(SpentOf, Pids) = Total(SpentOf, read) + Total(SpentOf, rest)
  BY <1>6, <1>9
<1> QED  BY <1>5, <1>7, <1>10, <1>11 DEF d


-------------------------------------------------------------------------------
(***************************************************************************)
(* What the proof of WithinMachine carries from step to step: what is      *)
(* still to be accounted for the machine had the time for since the sample *)
(* before began, the part that grew since this sample read it since this   *)
(* one began, and what was credited and what is to be accounted for        *)
(* together since the first one began.                                     *)
(***************************************************************************)
RowFits == row.ticks <= (row.elapsed + row.walk) * Capacity

Walking ==
  /\ sampled = 0 => lastPID = Nothing /\ phase \in {"idle", "machine"}
  /\ phase = "machine" => sampled < MaxHostSamples
  /\ phase = "idle" => elapsed = 0
  /\ phase # "walk" => cur = Nothing /\ unread = {}
  /\ \A pid \in unread : cur[pid] = Absent

OwedInTime == Total(Owed, Pids) <= (elapsed + (time - prevTime)) * Capacity
LateInTime == Total(Late, Pids) <= (time - prevTime) * Capacity
CreditedInTime == Total(totalTick, Names) + Total(Owed, Pids) <= time * Capacity

HostInv ==
  /\ HostTypeOK /\ RowFits /\ Walking
  /\ OwedInTime /\ LateInTime /\ CreditedInTime

LEMMA HostFacts ==
  ASSUME HostInv
  PROVE  /\ Processes
         /\ Natural(Owed, Pids) /\ Natural(Late, Pids) /\ Natural(SpentOf, Pids)
         /\ Total(Owed, Pids) \in Nat /\ Total(Late, Pids) \in Nat
         /\ Total(SpentOf, Pids) \in Nat /\ Total(totalTick, Names) \in Nat
         /\ Natural(totalTick, Names)
         /\ time \in Nat /\ prevTime \in Nat /\ elapsed \in Nat /\ time - prevTime \in Nat
         /\ sampled \in Nat /\ Capacity \in Nat
<1>1. Processes
  BY DEF HostInv, HostTypeOK, Processes, Readings
<1>2. Natural(totalTick, Names)
  BY HostSamplerAssumption DEF HostInv, HostTypeOK, Natural
<1>3. /\ time \in Nat /\ prevTime \in Nat /\ elapsed \in Nat /\ time - prevTime \in Nat
      /\ sampled \in Nat /\ Capacity \in Nat
  BY HostSamplerAssumption DEF HostInv, HostTypeOK
<1>4. Natural(Owed, Pids) /\ Natural(Late, Pids) /\ Natural(SpentOf, Pids)
  BY <1>1, OwedIsNatural, GrownIsNatural, SpentIsNatural
     DEF Processes, Owed, Late, SpentOf
<1> QED  BY <1>1, <1>2, <1>3, <1>4, TotalSteps

\* A step that credits nothing, and after which no more is to be accounted for.
LEMMA OwesNoMore ==
  ASSUME HostInv, Processes',
         \A pid \in Pids : (Owed')[pid] <= Owed[pid] /\ (Late')[pid] <= Late[pid],
         UNCHANGED <<elapsed, time, prevTime, totalTick>>
  PROVE  OwedInTime' /\ LateInTime' /\ CreditedInTime'
<1>1. /\ Natural(Owed, Pids) /\ Natural(Owed', Pids)
      /\ Natural(Late, Pids) /\ Natural(Late', Pids)
  <2>1. Natural(Owed', Pids) /\ Natural(Late', Pids)
    BY OwedIsNatural, GrownIsNatural DEF Processes, Owed, Late
  <2> QED  BY <2>1, HostFacts
<1>2. Total(Owed', Pids) <= Total(Owed, Pids) /\ Total(Late', Pids) <= Total(Late, Pids)
  BY <1>1, TotalGrows
<1>3. Total(Owed', Pids) \in Nat /\ Total(Late', Pids) \in Nat
  BY <1>1, TotalSteps
<1>4. /\ (elapsed + (time - prevTime)) * Capacity \in Nat
      /\ (time - prevTime) * Capacity \in Nat /\ time * Capacity \in Nat
  BY HostFacts
<1>5. /\ Total(Owed, Pids) <= (elapsed + (time - prevTime)) * Capacity
      /\ Total(Late, Pids) <= (time - prevTime) * Capacity
      /\ Total(totalTick, Names) + Total(Owed, Pids) <= time * Capacity
  BY DEF HostInv, OwedInTime, LateInTime, CreditedInTime
<1>6. /\ Total(Owed', Pids) <= (elapsed + (time - prevTime)) * Capacity
      /\ Total(Late', Pids) <= (time - prevTime) * Capacity
      /\ Total(totalTick, Names) + Total(Owed', Pids) <= time * Capacity
  BY <1>2, <1>3, <1>4, <1>5, HostFacts
<1>7. elapsed' = elapsed /\ time' = time /\ prevTime' = prevTime /\ totalTick' = totalTick
  OBVIOUS
<1> QED  BY <1>6, <1>7 DEF OwedInTime, LateInTime, CreditedInTime

\* Nothing grew that has just been read, or that has no entry.
LEMMA NothingOwed ==
  ASSUME NEW last \in Readings, NEW p \in Readings, \A pid \in Pids : last[pid] = Absent
  PROVE  /\ Total(GrownSince(last, p), Pids) = 0
         /\ Total(OwedBy(last, Nothing, p), Pids) = 0
<1>1. ASSUME NEW pid \in Pids
      PROVE  GrownSince(last, p)[pid] = 0 /\ OwedBy(last, Nothing, p)[pid] = 0
  BY DEF GrownSince, OwedBy, Nothing
<1> QED  BY <1>1, TotalZero, HostSamplerAssumption

LEMMA NothingReads == Nothing \in Readings /\ \A pid \in Pids : Nothing[pid] = Absent
BY DEF Nothing, Readings

LEMMA HostInitHolds == ASSUME HostInit PROVE HostInv
<1>1. HostTypeOK
  <2>1. [name : Names, ticks : {1}] \subseteq Process
    BY DEF Process
  <2>2. procs \in [Pids -> {Absent} \cup Process]
    BY <2>1 DEF HostInit
  <2>3. /\ lastPID \in [Pids -> {Absent} \cup Process]
        /\ cur \in [Pids -> {Absent} \cup Process]
        /\ totalTick \in [Names -> Nat]
    BY DEF HostInit, Nothing
  <2>4. /\ time \in 0..MaxTime /\ sampled \in 0..MaxHostSamples
        /\ prevTime \in 0..time /\ prevMach \in -Uptime..time
    BY HostSamplerAssumption DEF HostInit
  <2> QED  BY <2>2, <2>3, <2>4 DEF HostInit, HostTypeOK
<1>2. RowFits /\ Walking
  BY HostSamplerAssumption DEF HostInit, RowFits, Walking, NoRow, Nothing
<1>3. Total(Late, Pids) = 0 /\ Total(Owed, Pids) = 0
  <2>1. lastPID = Nothing /\ cur = Nothing
    BY DEF HostInit
  <2>2. procs \in Readings
    BY <1>1 DEF HostTypeOK, Readings
  <2> QED  BY <2>1, <2>2, NothingReads, NothingOwed DEF Late, Owed
<1>4. Total(totalTick, Names) = 0
  BY HostSamplerAssumption, TotalZero DEF HostInit
<1>5. elapsed = 0 /\ prevTime = 0 /\ time = 0 /\ Capacity \in Nat
  BY HostSamplerAssumption DEF HostInit
<1> QED  BY <1>1, <1>2, <1>3, <1>4, <1>5
         DEF HostInv, OwedInTime, LateInTime, CreditedInTime

(***************************************************************************)
(* The machine.                                                            *)
(***************************************************************************)
LEMMA GrowsBySpent ==
  ASSUME NEW last \in Readings, NEW p \in Readings, NEW q \in Readings,
         NEW pid \in Pids, NEW more \in Nat,
         p[pid] = Absent => q[pid] = Absent,
         p[pid] # Absent /\ q[pid] # Absent => q[pid].ticks = p[pid].ticks + more
  PROVE  GrownSince(last, q)[pid] <= GrownSince(last, p)[pid] + more
<1>1. /\ last[pid] # Absent => last[pid].ticks \in Nat
      /\ p[pid] # Absent => p[pid].ticks \in Nat
  BY DEF Readings, Process
<1>2. CASE last[pid] = Absent \/ p[pid] = Absent
  BY <1>2 DEF GrownSince
<1>3. CASE last[pid] # Absent /\ p[pid] # Absent
  <2>1. CASE q[pid] = Absent
    BY <1>1, <1>3, <2>1 DEF GrownSince
  <2>2. CASE q[pid] # Absent
    BY <1>1, <1>3, <2>2 DEF GrownSince
  <2> QED  BY <2>1, <2>2
<1> QED  BY <1>2, <1>3

LEMMA SpendHolds ==
  ASSUME HostInv, Spend, UNCHANGED <<phase, begun, machine, walk, books, stopped>>
  PROVE  HostInv'
<1>1. PICK spent \in [Pids -> 0..Capacity] :
        /\ MapThenSumSet(LAMBDA pid : spent[pid], Pids) <= Capacity
        /\ \A pid \in Pids \ Alive : spent[pid] = 0
        /\ procs' = [pid \in Pids |->
                      IF pid \in Alive
                        THEN [procs[pid] EXCEPT !.ticks = @ + spent[pid]] ELSE Absent]
  BY DEF Spend
<1>2. /\ cur' = cur /\ lastPID' = lastPID /\ totalTick' = totalTick /\ elapsed' = elapsed
      /\ prevTime' = prevTime /\ row' = row /\ time' = time + 1 /\ time < MaxTime
      /\ UNCHANGED <<phase, prevMach, sampled, unread, stopped>>
  BY DEF Spend, begun, machine, walk, books
<1>3. Capacity \in Nat /\ IsFiniteSet(Pids)
  BY HostSamplerAssumption
<1>4. ASSUME NEW pid \in Pids
      PROVE  /\ spent[pid] \in Nat
             /\ procs'[pid] \in {Absent} \cup Process
             /\ procs[pid] = Absent => procs'[pid] = Absent
             /\ procs[pid] # Absent => procs'[pid].ticks = procs[pid].ticks + spent[pid]
  <2>1. spent[pid] \in Nat
    BY <1>3
  <2>2. CASE pid \in Alive
    <3>1. procs[pid] \in Process /\ procs[pid] # Absent
      BY <2>2 DEF Alive, HostInv, HostTypeOK
    <3>2. procs'[pid] = [procs[pid] EXCEPT !.ticks = @ + spent[pid]]
      BY <1>1, <2>2
    <3> QED  BY <2>1, <3>1, <3>2 DEF Process
  <2>3. CASE pid \notin Alive
    BY <1>1, <2>1, <2>3 DEF Alive
  <2> QED  BY <2>2, <2>3
<1>5. procs \in Readings /\ procs' \in Readings /\ cur \in Readings /\ lastPID \in Readings
  <2>1. procs' \in Readings
    BY <1>1, <1>4 DEF Readings
  <2> QED  BY <2>1, HostFacts DEF Processes
<1>6. HostTypeOK' /\ RowFits' /\ Walking'
  <2>1. time' \in 0..MaxTime /\ prevTime' \in 0..time' /\ prevMach' \in -Uptime..time'
    BY <1>2, HostSamplerAssumption DEF HostInv, HostTypeOK
  <2>2. HostTypeOK'
    BY <1>2, <1>5, <2>1 DEF HostInv, HostTypeOK, Readings
  <2>3. RowFits' /\ Walking'
    BY <1>2 DEF HostInv, RowFits, Walking
  <2> QED  BY <2>2, <2>3
<1>7. ASSUME NEW pid \in Pids
      PROVE  /\ (Late')[pid] <= Late[pid] + spent[pid]
             /\ (Owed')[pid] <= Owed[pid] + spent[pid]
  <2>1. /\ GrownSince(cur, procs')[pid] <= GrownSince(cur, procs)[pid] + spent[pid]
        /\ GrownSince(lastPID, procs')[pid] <= GrownSince(lastPID, procs)[pid] + spent[pid]
    BY <1>4, <1>5, GrowsBySpent
  <2>2. /\ GrownSince(cur, procs')[pid] \in Nat /\ GrownSince(cur, procs)[pid] \in Nat
        /\ GrownSince(lastPID, procs')[pid] \in Nat /\ GrownSince(lastPID, procs)[pid] \in Nat
        /\ SpentBy(lastPID, cur)[pid] \in Nat
    BY <1>5, GrownIsNatural, SpentIsNatural DEF Natural
  <2>3. (Late')[pid] <= Late[pid] + spent[pid]
    BY <1>2, <2>1 DEF Late
  <2>4. (Owed')[pid] = IF cur[pid] = Absent THEN GrownSince(lastPID, procs')[pid]
                         ELSE SpentBy(lastPID, cur)[pid] + GrownSince(cur, procs')[pid]
    BY <1>2 DEF Owed, OwedBy
  <2>5. Owed[pid] = IF cur[pid] = Absent THEN GrownSince(lastPID, procs)[pid]
                      ELSE SpentBy(lastPID, cur)[pid] + GrownSince(cur, procs)[pid]
    BY DEF Owed, OwedBy
  <2> QED  BY <1>4, <2>1, <2>2, <2>3, <2>4, <2>5
<1>8. /\ Natural(spent, Pids) /\ Natural(Late', Pids) /\ Natural(Owed', Pids)
  <2>1. Natural(spent, Pids)
    BY <1>3, <1>4 DEF Natural
  <2>2. Natural(Late', Pids) /\ Natural(Owed', Pids)
    BY <1>2, <1>5, OwedIsNatural, GrownIsNatural DEF Late, Owed
  <2> QED  BY <2>1, <2>2
<1>9. /\ Total(Late', Pids) <= Total(Late, Pids) + Total(spent, Pids)
      /\ Total(Owed', Pids) <= Total(Owed, Pids) + Total(spent, Pids)
  BY <1>7, <1>8, HostFacts, TotalOfTwo
<1>10. Total(spent, Pids) <= Capacity
  BY <1>1 DEF Total
<1>11. /\ Total(Late', Pids) \in Nat /\ Total(Owed', Pids) \in Nat
       /\ Total(spent, Pids) \in Nat
  BY <1>8, TotalSteps
<1>12. /\ Total(Owed, Pids) <= (elapsed + (time - prevTime)) * Capacity
       /\ Total(Late, Pids) <= (time - prevTime) * Capacity
       /\ Total(totalTick, Names) + Total(Owed, Pids) <= time * Capacity
  BY DEF HostInv, OwedInTime, LateInTime, CreditedInTime
<1>13. /\ (elapsed' + (time' - prevTime')) * Capacity
            = (elapsed + (time - prevTime)) * Capacity + Capacity
       /\ (time' - prevTime') * Capacity = (time - prevTime) * Capacity + Capacity
       /\ time' * Capacity = time * Capacity + Capacity
       /\ (elapsed + (time - prevTime)) * Capacity \in Nat
       /\ (time - prevTime) * Capacity \in Nat /\ time * Capacity \in Nat
  BY <1>2, HostFacts
<1>14. OwedInTime' /\ LateInTime' /\ CreditedInTime'
  <2>1. Total(totalTick', Names) = Total(totalTick, Names)
    BY <1>2
  <2> QED  BY <1>3, <1>9, <1>10, <1>11, <1>12, <1>13, <2>1, HostFacts
           DEF OwedInTime, LateInTime, CreditedInTime
<1> QED  BY <1>6, <1>14 DEF HostInv

\* The machine's steps that spend nothing.
LEMMA ProcessesChange ==
  ASSUME HostInv, NEW pid \in Pids, NEW p \in {Absent} \cup Process,
         procs' = [procs EXCEPT ![pid] = p],
         \/ p = Absent
         \/ procs[pid] = Absent /\ p.ticks = 0
         \/ procs[pid] # Absent /\ p.ticks = procs[pid].ticks,
         UNCHANGED <<time, phase, begun, machine, walk, books, stopped>>
  PROVE  HostInv'
<1>1. /\ procs \in Readings /\ cur \in Readings /\ lastPID \in Readings
      /\ cur' = cur /\ lastPID' = lastPID
      /\ UNCHANGED <<time, prevTime, elapsed, prevMach, sampled, phase, unread, totalTick,
                     row, stopped>>
  BY HostFacts DEF Processes, begun, machine, walk, books
<1>2. procs' \in Readings
  BY <1>1 DEF Readings
<1>3. HostTypeOK' /\ RowFits' /\ Walking'
  <2>1. HostTypeOK'
    BY <1>1, <1>2 DEF HostInv, HostTypeOK, Readings
  <2>2. RowFits' /\ Walking'
    BY <1>1 DEF HostInv, RowFits, Walking
  <2> QED  BY <2>1, <2>2
<1>4. ASSUME NEW last \in Readings, NEW q \in Pids
      PROVE  GrownSince(last, procs')[q] <= GrownSince(last, procs)[q]
  <2>1. last[q] # Absent => last[q].ticks \in Nat
    BY DEF Readings, Process
  <2>2. procs[q] # Absent => procs[q].ticks \in Nat
    BY <1>1 DEF Readings, Process
  <2>3. procs'[q] = IF q = pid THEN p ELSE procs[q]
    BY <1>1 DEF Readings
  <2> QED  BY <2>1, <2>2, <2>3 DEF GrownSince
<1>5. ASSUME NEW q \in Pids PROVE (Owed')[q] <= Owed[q] /\ (Late')[q] <= Late[q]
  <2>1. /\ GrownSince(cur, procs')[q] <= GrownSince(cur, procs)[q]
        /\ GrownSince(lastPID, procs')[q] <= GrownSince(lastPID, procs)[q]
    BY <1>1, <1>4
  <2>2. /\ GrownSince(cur, procs')[q] \in Nat /\ GrownSince(cur, procs)[q] \in Nat
        /\ SpentBy(lastPID, cur)[q] \in Nat
    BY <1>1, <1>2, GrownIsNatural, SpentIsNatural DEF Natural
  <2>3. (Late')[q] <= Late[q]
    BY <1>1, <2>1 DEF Late
  <2>4. (Owed')[q] = IF cur[q] = Absent THEN GrownSince(lastPID, procs')[q]
                       ELSE SpentBy(lastPID, cur)[q] + GrownSince(cur, procs')[q]
    BY <1>1 DEF Owed, OwedBy
  <2>5. Owed[q] = IF cur[q] = Absent THEN GrownSince(lastPID, procs)[q]
                    ELSE SpentBy(lastPID, cur)[q] + GrownSince(cur, procs)[q]
    BY DEF Owed, OwedBy
  <2> QED  BY <2>1, <2>2, <2>3, <2>4, <2>5
<1>6. OwedInTime' /\ LateInTime' /\ CreditedInTime'
  BY <1>1, <1>2, <1>5, OwesNoMore DEF Processes
<1> QED  BY <1>3, <1>6 DEF HostInv

LEMMA StartHolds ==
  ASSUME HostInv, NEW pid \in Pids, NEW name \in Names, StartProcess(pid, name),
         UNCHANGED <<phase, begun, machine, walk, books, stopped>>
  PROVE  HostInv'
<1> DEFINE p == [name |-> name, ticks |-> 0]
<1>1. p \in Process /\ p.ticks = 0
  BY DEF Process
<1>2. procs[pid] = Absent
  BY DEF StartProcess, Alive
<1> QED  BY <1>1, <1>2, ProcessesChange DEF StartProcess

LEMMA ExitHolds ==
  ASSUME HostInv, NEW pid \in Pids, ExitProcess(pid),
         UNCHANGED <<phase, begun, machine, walk, books, stopped>>
  PROVE  HostInv'
BY ProcessesChange DEF ExitProcess

LEMMA RenameHolds ==
  ASSUME HostInv, NEW pid \in Pids, NEW name \in Names, Rename(pid, name),
         UNCHANGED <<phase, begun, machine, walk, books, stopped>>
  PROVE  HostInv'
<1> DEFINE p == [procs[pid] EXCEPT !.name = name]
<1>1. procs[pid] \in Process /\ procs[pid] # Absent
  BY DEF HostInv, HostTypeOK, Rename, Alive
<1>2. p \in Process /\ p.ticks = procs[pid].ticks
  BY <1>1 DEF Process
<1>3. procs' = [procs EXCEPT ![pid] = p]
  BY DEF Rename
<1> HIDE DEF p
<1> QED  BY <1>1, <1>2, <1>3, ProcessesChange DEF Rename

LEMMA MachineHolds == ASSUME HostInv, Machine PROVE HostInv'
<1>1. UNCHANGED <<phase, begun, machine, walk, books, stopped>>
  BY DEF Machine
<1>2. CASE Spend
  BY <1>1, <1>2, SpendHolds
<1>3. CASE \E pid \in Pids, name \in Names : StartProcess(pid, name) \/ Rename(pid, name)
  BY <1>1, <1>3, StartHolds, RenameHolds
<1>4. CASE \E pid \in Pids : ExitProcess(pid)
  BY <1>1, <1>4, ExitHolds
<1> QED  BY <1>2, <1>3, <1>4 DEF Machine

(***************************************************************************)
(* The sampler.                                                            *)
(***************************************************************************)
LEMMA BeginHolds == ASSUME HostInv, BeginSample PROVE HostInv'
<1>1. /\ phase = "idle" /\ elapsed = 0 /\ cur = Nothing
      /\ elapsed' = (IF sampled > 0 THEN time - prevTime ELSE 0) /\ prevTime' = time
      /\ phase' = "machine" /\ sampled < MaxHostSamples
      /\ UNCHANGED <<procs, time, prevMach, sampled, tps, unread, cur, lastPID, totalTick,
                     row, stopped>>
  BY DEF BeginSample, HostInv, Walking, world, machine, walk, books
<1>2. HostTypeOK' /\ RowFits' /\ Walking'
  <2>1. elapsed' \in Nat /\ prevTime' \in 0..time'
    BY <1>1, HostFacts
  <2>2. HostTypeOK'
    BY <1>1, <2>1 DEF HostInv, HostTypeOK
  <2>3. RowFits' /\ Walking'
    BY <1>1 DEF HostInv, RowFits, Walking
  <2> QED  BY <2>2, <2>3
<1>3. Total(Late', Pids) = 0 /\ Total(Owed', Pids) = Total(Owed, Pids)
  <2>1. Late' = GrownSince(Nothing, procs) /\ Owed' = Owed
    BY <1>1 DEF Late, Owed
  <2>2. Total(GrownSince(Nothing, procs), Pids) = 0
    BY HostFacts, NothingReads, NothingOwed DEF Processes
  <2> QED  BY <2>1, <2>2
<1>4. OwedInTime'
  <2>1. CASE sampled = 0
    <3>1. lastPID = Nothing
      BY <2>1 DEF HostInv, Walking
    <3>2. Total(Owed, Pids) = 0
      BY <1>1, <3>1, HostFacts, NothingReads, NothingOwed DEF Processes, Owed
    <3> QED  BY <1>1, <1>3, <2>1, <3>2, HostFacts DEF OwedInTime
  <2>2. CASE sampled # 0
    <3>1. sampled > 0
      BY <2>2, HostFacts
    <3>2. elapsed' + (time' - prevTime') = elapsed + (time - prevTime)
      BY <1>1, <3>1, HostFacts
    <3> QED  BY <1>3, <3>2 DEF HostInv, OwedInTime
  <2> QED  BY <2>1, <2>2
<1>5. LateInTime' /\ CreditedInTime'
  <2>1. LateInTime'
    BY <1>1, <1>3, HostFacts DEF LateInTime
  <2>2. CreditedInTime'
    BY <1>1, <1>3 DEF HostInv, CreditedInTime
  <2> QED  BY <2>1, <2>2
<1> QED  BY <1>2, <1>4, <1>5 DEF HostInv

\* The steps of a sample that read no process, Stop, and none at all.
LEMMA HostStays ==
  ASSUME HostInv, UNCHANGED <<procs, time, prevTime, elapsed, cur, lastPID, totalTick, row>>,
         HostTypeOK', Walking'
  PROVE  HostInv'
<1>1. Owed' = Owed /\ Late' = Late
  BY DEF Owed, Late
<1>2. /\ Total(Owed', Pids) = Total(Owed, Pids) /\ Total(Late', Pids) = Total(Late, Pids)
      /\ Total(totalTick', Names) = Total(totalTick, Names)
  BY <1>1
<1>3. OwedInTime' /\ LateInTime' /\ CreditedInTime'
  BY <1>2 DEF HostInv, OwedInTime, LateInTime, CreditedInTime
<1> QED  BY <1>3 DEF HostInv, RowFits

LEMMA ReadMachineHolds == ASSUME HostInv, ReadMachine PROVE HostInv'
<1>1. PICK ok \in BOOLEAN : /\ tps' = Calibration(ok)
                            /\ prevMach' = IF ok THEN time ELSE prevMach
  BY DEF ReadMachine
<1>2. /\ UNCHANGED <<procs, time, prevTime, elapsed, unread, cur, lastPID, totalTick, row,
                     stopped>>
      /\ phase = "machine" /\ phase' = "list" /\ sampled' = sampled + 1
      /\ sampled < MaxHostSamples
  BY DEF ReadMachine, world, begun, walk, books, HostInv, Walking
<1>3. HostTypeOK'
  <2>1. prevMach' \in -Uptime..time'
    BY <1>1, <1>2, HostSamplerAssumption DEF HostInv, HostTypeOK
  <2>2. sampled' \in 0..MaxHostSamples
    BY <1>2, HostSamplerAssumption DEF HostInv, HostTypeOK
  <2> QED  BY <1>2, <2>1, <2>2 DEF HostInv, HostTypeOK
<1>4. Walking'
  BY <1>2, HostFacts DEF HostInv, Walking
<1> QED  BY <1>2, <1>3, <1>4, HostStays

LEMMA ListHolds == ASSUME HostInv, ListProcesses PROVE HostInv'
<1>1. /\ UNCHANGED <<procs, time, prevTime, elapsed, prevMach, sampled, cur, lastPID,
                     totalTick, row, stopped>>
      /\ phase = "list" /\ phase' = "walk" /\ unread' = Alive /\ cur = Nothing
  BY DEF ListProcesses, world, begun, machine, books, HostInv, Walking
<1>2. HostTypeOK'
  BY <1>1 DEF HostInv, HostTypeOK, Alive
<1>3. Walking'
  BY <1>1 DEF HostInv, Walking, Alive, Nothing
<1> QED  BY <1>1, <1>2, <1>3, HostStays

LEMMA ListFailsHolds == ASSUME HostInv, ListFails PROVE HostInv'
<1>1. /\ UNCHANGED <<procs, time, prevTime, prevMach, sampled, unread, cur,
                     totalTick, row, stopped>>
      /\ phase = "list" /\ phase' = "idle" /\ elapsed' = 0 /\ lastPID' = Nothing
      /\ cur = Nothing /\ unread = {}
  BY DEF ListFails, LoseProcesses, world, machine, walk, HostInv, Walking
<1>2. HostTypeOK'
  BY <1>1 DEF HostInv, HostTypeOK, Nothing
<1>3. RowFits' /\ Walking'
  BY <1>1 DEF HostInv, RowFits, Walking
<1>4. Total(Owed', Pids) = 0
  <2>1. Owed' = OwedBy(Nothing, Nothing, procs)
    BY <1>1 DEF Owed
  <2> QED  BY <2>1, HostFacts, NothingReads, NothingOwed DEF Processes
<1>5. OwedInTime' /\ CreditedInTime'
  <2>1. 0 <= (time - prevTime) * Capacity
    BY HostFacts
  <2>2. OwedInTime'
    BY <1>1, <1>4, <2>1, HostFacts DEF OwedInTime
  <2>3. Total(totalTick, Names) + Total(Owed, Pids) <= time * Capacity
    BY DEF HostInv, CreditedInTime
  <2>4. time * Capacity \in Nat
    BY HostFacts
  <2>5. Total(totalTick, Names) + 0 <= time * Capacity
    BY <2>3, <2>4, HostFacts
  <2>6. CreditedInTime'
    BY <1>1, <1>4, <2>5 DEF CreditedInTime
  <2> QED  BY <2>2, <2>6
<1>6. LateInTime'
  <2>1. Late' = Late
    BY <1>1 DEF Late
  <2>2. Total(Late', Pids) = Total(Late, Pids)
    BY <2>1
  <2> QED  BY <1>1, <2>2 DEF HostInv, LateInTime
<1> QED  BY <1>2, <1>3, <1>5, <1>6 DEF HostInv

\* What it has spent is credited, what it spends from now on is not yet.
LEMMA ReadProcessHolds ==
  ASSUME HostInv, NEW pid \in Pids, ReadProcess(pid) PROVE HostInv'
<1>1. /\ UNCHANGED <<procs, time, phase, prevTime, elapsed, prevMach, sampled, lastPID,
                     totalTick, row, stopped>>
      /\ phase = "walk" /\ pid \in unread /\ unread' = unread \ {pid}
      /\ cur[pid] = Absent
      /\ \/ cur' = [cur EXCEPT ![pid] = procs[pid]]
         \/ cur' = cur
  BY DEF ReadProcess, world, begun, machine, books, HostInv, Walking
<1>2. procs \in Readings /\ cur \in Readings /\ lastPID \in Readings
  BY HostFacts DEF Processes
<1>3. cur' \in Readings /\ \A q \in Pids : cur'[q] = cur[q] \/ (q = pid /\ cur'[q] = procs[q])
  BY <1>1, <1>2 DEF Readings
<1>4. HostTypeOK' /\ RowFits' /\ Walking'
  <2>1. HostTypeOK'
    BY <1>1, <1>3 DEF HostInv, HostTypeOK, Readings
  <2>2. RowFits' /\ Walking'
    BY <1>1, <1>3 DEF HostInv, HostTypeOK, RowFits, Walking
  <2> QED  BY <2>1, <2>2
<1>5. ASSUME NEW q \in Pids PROVE (Owed')[q] <= Owed[q] /\ (Late')[q] <= Late[q]
  <2>1. /\ GrownSince(cur, procs)[q] \in Nat /\ GrownSince(lastPID, procs)[q] \in Nat
        /\ SpentBy(lastPID, cur)[q] \in Nat
    BY <1>2, GrownIsNatural, SpentIsNatural DEF Natural
  <2>2. (Late')[q] = GrownSince(cur', procs)[q] /\ Late[q] = GrownSince(cur, procs)[q]
    BY <1>1 DEF Late
  <2>3. /\ (Owed')[q] = IF cur'[q] = Absent THEN GrownSince(lastPID, procs)[q]
                          ELSE SpentBy(lastPID, cur')[q] + GrownSince(cur', procs)[q]
        /\ Owed[q] = IF cur[q] = Absent THEN GrownSince(lastPID, procs)[q]
                       ELSE SpentBy(lastPID, cur)[q] + GrownSince(cur, procs)[q]
    BY <1>1 DEF Owed, OwedBy
  <2>4. CASE cur'[q] = cur[q]
    <3>1. GrownSince(cur', procs)[q] = GrownSince(cur, procs)[q]
      BY <2>4 DEF GrownSince
    <3>2. SpentBy(lastPID, cur')[q] = SpentBy(lastPID, cur)[q]
      BY <2>4 DEF SpentBy
    <3> QED  BY <2>1, <2>2, <2>3, <2>4, <3>1, <3>2
  <2>5. CASE q = pid /\ cur'[q] = procs[q] /\ procs[q] # Absent
    <3>1. procs[q].ticks \in Nat /\ (lastPID[q] # Absent => lastPID[q].ticks \in Nat)
      BY <1>2, <2>5 DEF Readings, Process
    <3>2. GrownSince(cur', procs)[q] = 0
      BY <2>5, <3>1 DEF GrownSince
    <3>3. \/ SpentBy(lastPID, cur')[q] = GrownSince(lastPID, procs)[q]
          \/ SpentBy(lastPID, cur')[q] = 0
      BY <2>5 DEF SpentBy, GrownSince
    <3> QED  BY <1>1, <2>1, <2>2, <2>3, <2>5, <3>2, <3>3
  <2> QED  BY <1>1, <1>3, <2>4, <2>5
<1>6. OwedInTime' /\ LateInTime' /\ CreditedInTime'
  BY <1>1, <1>2, <1>3, <1>5, OwesNoMore DEF Processes
<1> QED  BY <1>4, <1>6 DEF HostInv

LEMMA EndHolds == ASSUME HostInv, EndSample PROVE HostInv'
<1>1. /\ UNCHANGED <<procs, time, prevTime, prevMach, sampled, tps, unread, stopped>>
      /\ phase = "walk" /\ phase' = "idle" /\ unread = {} /\ elapsed' = 0
      /\ lastPID' = cur /\ cur' = Nothing
      /\ totalTick' = [name \in Names |-> totalTick[name] + Deltas[name]]
      /\ row' = Percentages(Deltas)
  BY DEF EndSample, world, machine
<1>2. procs \in Readings /\ cur \in Readings /\ lastPID \in Readings
  BY HostFacts DEF Processes
<1>3. /\ Natural(Deltas, Names) /\ Total(Deltas, Names) <= Total(SpentOf, Pids)
      /\ Total(Deltas, Names) \in Nat
  BY HostFacts, DeltasAreSpent, TotalSteps
<1>4. /\ HostTypeOK'
      /\ Natural(totalTick', Names)
  <2>1. totalTick' \in [Names -> Nat]
    BY <1>1, <1>3 DEF HostInv, HostTypeOK, Natural
  <2>2. HostTypeOK'
    BY <1>1, <1>2, <2>1 DEF HostInv, HostTypeOK, Readings, Nothing
  <2> QED  BY <2>1, <2>2, HostSamplerAssumption DEF Natural
<1>5. Walking'
  BY <1>1 DEF HostInv, Walking
<1>6. Total(Owed', Pids) = Total(Late, Pids)
  <2>1. OwedBy(cur, Nothing, procs) = GrownSince(cur, procs)
    BY DEF OwedBy, GrownSince, Nothing
  <2>2. Owed' = Late
    BY <1>1, <2>1 DEF Owed, Late
  <2> QED  BY <2>2
<1>7. Total(Late', Pids) = 0
  <2>1. Late' = GrownSince(Nothing, procs)
    BY <1>1 DEF Late
  <2> QED  BY <1>2, <2>1, NothingReads, NothingOwed
<1>8. Total(SpentOf, Pids) + Total(Late, Pids) <= Total(Owed, Pids)
  <2>1. ASSUME NEW pid \in Pids PROVE SpentOf[pid] + Late[pid] <= Owed[pid]
    <3>1. SpentOf[pid] \in Nat /\ Late[pid] \in Nat /\ Owed[pid] \in Nat
      BY HostFacts DEF Natural
    <3>2. CASE cur[pid] = Absent
      <4>1. SpentOf[pid] = 0 /\ Late[pid] = 0
        BY <3>2 DEF SpentOf, SpentBy, Late, GrownSince
      <4> QED  BY <3>1, <4>1
    <3>3. CASE cur[pid] # Absent
      <4>1. Owed[pid] = SpentOf[pid] + Late[pid]
        BY <3>3 DEF Owed, OwedBy, SpentOf, Late
      <4> QED  BY <3>1, <4>1
    <3> QED  BY <3>2, <3>3
  <2> QED  BY <2>1, HostFacts, TotalOfParts
<1>9. Total(totalTick', Names) <= Total(totalTick, Names) + Total(Deltas, Names)
  <2>1. \A name \in Names : totalTick'[name] <= totalTick[name] + Deltas[name]
    BY <1>1, <1>3, HostFacts DEF Natural
  <2> QED  BY <1>3, <1>4, <2>1, HostFacts, TotalOfTwo
<1>10. Total(totalTick', Names) \in Nat
  BY <1>4, TotalSteps
<1>11. /\ Total(Owed, Pids) <= (elapsed + (time - prevTime)) * Capacity
       /\ Total(Late, Pids) <= (time - prevTime) * Capacity
       /\ Total(totalTick, Names) + Total(Owed, Pids) <= time * Capacity
       /\ (elapsed + (time - prevTime)) * Capacity \in Nat
       /\ (time - prevTime) * Capacity \in Nat /\ time * Capacity \in Nat
  <2>1. /\ (elapsed + (time - prevTime)) * Capacity \in Nat
        /\ (time - prevTime) * Capacity \in Nat /\ time * Capacity \in Nat
    BY HostFacts
  <2> QED  BY <2>1 DEF HostInv, OwedInTime, LateInTime, CreditedInTime
<1>12. OwedInTime' /\ LateInTime' /\ CreditedInTime'
  <2>1. OwedInTime'
    BY <1>1, <1>6, <1>11, HostFacts DEF OwedInTime
  <2>2. LateInTime'
    BY <1>1, <1>7, <1>11, HostFacts DEF LateInTime
  <2>3. Total(totalTick', Names) + Total(Late, Pids) <= time * Capacity
    BY <1>3, <1>8, <1>9, <1>10, <1>11, HostFacts
  <2>4. CreditedInTime'
    BY <1>1, <1>6, <2>3 DEF CreditedInTime
  <2> QED  BY <2>1, <2>2, <2>4
<1>13. RowFits'
  <2>1. CASE tps = Uncalibrated
    BY <1>1, <2>1 DEF Percentages, RowFits, HostInv
  <2>2. CASE tps # Uncalibrated
    <3>1. row' = [ticks |-> Total(Deltas, Names), elapsed |-> elapsed,
                  walk |-> time - prevTime, tps |-> tps]
      BY <1>1, <2>2 DEF Percentages, Total
    <3>2. Total(Deltas, Names) <= (elapsed + (time - prevTime)) * Capacity
      BY <1>3, <1>8, <1>11, HostFacts
    <3> QED  BY <3>1, <3>2 DEF RowFits
  <2> QED  BY <2>1, <2>2
<1> QED  BY <1>4, <1>5, <1>12, <1>13 DEF HostInv

LEMMA HostStep == ASSUME HostInv, [HostNext]_hostVars PROVE HostInv'
<1>1. CASE Machine
  BY <1>1, MachineHolds
<1>2. CASE BeginSample \/ ReadMachine
  BY <1>2, BeginHolds, ReadMachineHolds
<1>3. CASE ListProcesses \/ ListFails
  BY <1>3, ListHolds, ListFailsHolds
<1>4. CASE \E pid \in Pids : ReadProcess(pid)
  BY <1>4, ReadProcessHolds
<1>5. CASE EndSample
  BY <1>5, EndHolds
<1>6. CASE StopHost \/ UNCHANGED hostVars
  <2>1. /\ UNCHANGED <<procs, time, phase, prevTime, elapsed, prevMach, sampled, unread, cur,
                       lastPID, totalTick, row>>
        /\ stopped' \in BOOLEAN
    BY <1>6 DEF StopHost, hostVars, world, begun, machine, walk, books, HostInv, HostTypeOK
  <2>2. HostTypeOK' /\ Walking'
    BY <2>1 DEF HostInv, HostTypeOK, Walking
  <2> QED  BY <2>1, <2>2, HostStays
<1> QED  BY <1>1, <1>2, <1>3, <1>4, <1>5, <1>6 DEF HostNext

(***************************************************************************)
(* The sampler's books are typed: what it credits to a name and what it    *)
(* remembers of a process are natural numbers of ticks, however counters   *)
(* go back and pids are used again.                                        *)
(***************************************************************************)
THEOREM HostTypeCorrect == HostSpec => []HostTypeOK
<1>1. HostInit => HostInv
  BY HostInitHolds
<1>2. HostInv /\ [HostNext]_hostVars => HostInv'
  BY HostStep
<1>3. HostInv => HostTypeOK
  BY DEF HostInv
<1> QED  BY <1>1, <1>2, <1>3, PTL DEF HostSpec

(***************************************************************************)
(* For any number of processes, names and samples, whichever reads fail    *)
(* and however long each of them takes, neither a sample nor the totals    *)
(* credit a tick twice or outside the time they stand for.                 *)
(***************************************************************************)
THEOREM WithinHolds == HostSpec => []WithinMachine
<1>1. HostInit => HostInv
  BY HostInitHolds
<1>2. HostInv /\ [HostNext]_hostVars => HostInv'
  BY HostStep
<1>3. HostInv => WithinMachine
  <2> SUFFICES ASSUME HostInv PROVE WithinMachine
    OBVIOUS
  <2>1. time * Capacity \in Nat
    BY HostFacts
  <2>2. Total(totalTick, Names) <= time * Capacity
    BY <2>1, HostFacts DEF HostInv, CreditedInTime
  <2> QED  BY <2>2 DEF HostInv, RowFits, WithinMachine, Total
<1> QED  BY <1>1, <1>2, <1>3, PTL DEF HostSpec

-------------------------------------------------------------------------------
(***************************************************************************)
(* The memory sampler.                                                     *)
(*                                                                         *)
(* Fractions: what the picked points at equal distances need of them.      *)
(***************************************************************************)
LEMMA DivBounds ==
  ASSUME NEW a \in Nat, NEW d \in Nat \ {0}
  PROVE  a \div d \in Nat /\ d * (a \div d) <= a /\ a < d * (a \div d) + d
OBVIOUS

LEMMA DivExact ==
  ASSUME NEW q \in Nat, NEW d \in Nat \ {0}
  PROVE  (d * q) \div d = q
<1> DEFINE p == (d * q) \div d
<1>1. p \in Nat /\ d * p <= d * q /\ d * q < d * p + d
  <2>1. d * q \in Nat
    OBVIOUS
  <2> QED  BY <2>1, DivBounds
<1> HIDE DEF p
<1>2. ASSUME p + 1 <= q PROVE FALSE
  <2>1. d * (p + 1) <= d * q
    BY <1>1, <1>2
  <2>2. d * (p + 1) = d * p + d
    BY <1>1
  <2> QED  BY <1>1, <2>1, <2>2
<1>3. ASSUME q + 1 <= p PROVE FALSE
  <2>1. d * (q + 1) <= d * p
    BY <1>1, <1>3
  <2>2. d * (q + 1) = d * q + d
    OBVIOUS
  <2> QED  BY <1>1, <2>1, <2>2
<1> QED  BY <1>1, <1>2, <1>3 DEF p

LEMMA DivGrows ==
  ASSUME NEW a \in Nat, NEW b \in Nat, NEW d \in Nat \ {0}, a + d <= b
  PROVE  a \div d < b \div d
<1> DEFINE p == a \div d
           q == b \div d
<1>1. /\ p \in Nat /\ d * p <= a
      /\ q \in Nat /\ b < d * q + d
  BY DivBounds
<1> HIDE DEF p, q
<1>2. ASSUME q <= p PROVE FALSE
  <2>1. d * q <= d * p
    BY <1>1, <1>2
  <2>2. d * q \in Nat /\ d * p \in Nat
    BY <1>1
  <2> QED  BY <1>1, <2>1, <2>2
<1>3. p < q
  BY <1>1, <1>2
<1> QED  BY <1>3 DEF p, q

-------------------------------------------------------------------------------
LastSample == n - 1
Top == MaxSeriesPoints - 1

LEMMA MemBounds == Top \in Nat \ {0} /\ Slots = 0..Top /\ 0 \in Slots /\ Top \in Slots
BY MemSamplerAssumption DEF Top, Slots

LEMMA SampleNumbers ==
  ASSUME samps \in Seq(Rss)
  PROVE  /\ n \in Nat /\ Samples = 0..LastSample /\ Samples \subseteq Nat
         /\ \A i \in Samples : Reading(i) \in Nat
         /\ n > 0 => LastSample \in Nat /\ 0 \in Samples /\ LastSample \in Samples
<1>1. n \in Nat
  BY DEF n
<1>2. ASSUME NEW i \in Samples PROVE Reading(i) \in Nat
  <2>1. i + 1 \in 1..Len(samps)
    BY <1>1 DEF Samples, n
  <2>2. samps[i + 1] \in Rss
    BY <2>1
  <2> QED  BY <2>2, MemSamplerAssumption DEF Reading
<1> QED  BY <1>1, <1>2 DEF Samples, LastSample

\* A series that is not empty has a first sample with the highest reading.
LEMMA PeakIsSample ==
  ASSUME samps \in Seq(Rss), n > 0
  PROVE  Peak \in Samples
<1> DEFINE highest(k) == \E i \in 0..k : \A j \in 0..k : Reading(j) <= Reading(i)
           done == {k \in Nat : k \in Samples => highest(k)}
<1>0. /\ n \in Nat /\ Samples = 0..LastSample /\ LastSample \in Nat /\ Samples \subseteq Nat
      /\ \A i \in Samples : Reading(i) \in Nat
  BY SampleNumbers
<1>1. 0 \in done
  <2>1. ASSUME 0 \in Samples PROVE highest(0)
    <3>1. 0 \in 0..0 /\ \A j \in 0..0 : j = 0
      OBVIOUS
    <3>2. Reading(0) <= Reading(0)
      BY <1>0, <2>1
    <3> QED  BY <3>1, <3>2
  <2> QED  BY <2>1
<1>2. ASSUME NEW k \in done PROVE k + 1 \in done
  <2> SUFFICES ASSUME k + 1 \in Samples PROVE highest(k + 1)
    OBVIOUS
  <2>1. k \in Nat /\ k \in Samples /\ \A j \in 0..(k + 1) : j \in Samples
    BY <1>0
  <2>2. PICK i \in 0..k : \A j \in 0..k : Reading(j) <= Reading(i)
    BY <2>1
  <2>3. i \in 0..(k + 1) /\ i \in Samples /\ \A j \in 0..(k + 1) : j \in 0..k \/ j = k + 1
    BY <2>1
  <2>4. Reading(i) \in Nat /\ Reading(k + 1) \in Nat /\ \A j \in 0..k : Reading(j) \in Nat
    BY <1>0, <2>1, <2>3
  <2>5. CASE Reading(k + 1) <= Reading(i)
    BY <2>2, <2>3, <2>5
  <2>6. CASE ~(Reading(k + 1) <= Reading(i))
    <3>1. \A j \in 0..k : Reading(j) <= Reading(k + 1)
      BY <2>2, <2>4, <2>6
    <3>2. Reading(k + 1) <= Reading(k + 1) /\ k + 1 \in 0..(k + 1)
      BY <2>1, <2>4
    <3> QED  BY <2>3, <3>1, <3>2
  <2> QED  BY <2>5, <2>6
<1>3. done = Nat
  <2> HIDE DEF done
  <2>1. done \in SUBSET Nat
    BY DEF done
  <2> QED  BY <1>1, <1>2, <2>1, SetInduction
<1>4. highest(LastSample)
  <2>1. LastSample \in Samples
    BY <1>0
  <2>2. LastSample \in done
    <3> HIDE DEF done
    <3> QED  BY <1>0, <1>3
  <2> QED  BY <2>1, <2>2
<1> DEFINE highs == {i \in Samples : \A j \in Samples : Reading(j) <= Reading(i)}
<1>5. highs \in SUBSET Nat /\ highs # {} /\ highs \in SUBSET Samples
  BY <1>0, <1>4
<1>6. Peak = CHOOSE x \in highs : \A y \in highs : x <= y
  BY Zenon DEF Peak, Min
<1> HIDE DEF highs
<1>7. \E x \in highs : \A y \in highs : x <= y
  BY <1>5, LeastOf
<1>8. Peak \in highs
  BY <1>6, <1>7, Zenon
<1> QED  BY <1>5, <1>8

-------------------------------------------------------------------------------
(***************************************************************************)
(* The nearest slot.  For picked points in order it is the slot that the   *)
(* sample falls to, so that they stay in order when it is put there.       *)
(***************************************************************************)
Ordered(p) == \A i, j \in Slots : i < j => p[i] < p[j]

LEMMA NearestIs ==
  ASSUME picks \in [Slots -> Nat], NEW k \in Nat
  PROVE  /\ Nearest(k) \in Slots
         /\ \A j \in Slots : Distance(picks[Nearest(k)], k) <= Distance(picks[j], k)
<1> DEFINE lengths == {Distance(picks[i], k) : i \in Slots}
           near == {i \in Slots : \A j \in Slots : Distance(picks[i], k) <= Distance(picks[j], k)}
<1>1. \A i \in Slots : Distance(picks[i], k) \in Nat
  BY DEF Distance
<1>2. lengths \in SUBSET Nat /\ lengths # {}
  BY <1>1, MemBounds
<1>3. PICK d \in lengths : \A e \in lengths : d <= e
  <2> HIDE DEF lengths
  <2> QED  BY <1>2, LeastOf
<1>4. PICK i \in Slots : d = Distance(picks[i], k)
  OBVIOUS
<1>5. i \in near
  BY <1>3, <1>4
<1>6. near \in SUBSET Nat /\ near # {} /\ near \in SUBSET Slots
  BY <1>5, MemBounds
<1>7. Nearest(k) = CHOOSE x \in near : \A y \in near : x <= y
  BY Zenon DEF Nearest, Min
<1>8. Nearest(k) \in near
  <2> HIDE DEF near
  <2>1. \E x \in near : \A y \in near : x <= y
    BY <1>6, LeastOf
  <2> QED  BY <1>7, <2>1, Zenon
<1> QED  BY <1>8

LEMMA AnchorFits ==
  ASSUME picks \in [Slots -> Nat], Ordered(picks), NEW k \in Nat
  PROVE  /\ \A j \in Slots : j < Nearest(k) => picks[j] < k
         /\ \A j \in Slots : Nearest(k) < j => k < picks[j]
         /\ Ordered([picks EXCEPT ![Nearest(k)] = k])
         /\ \A j \in Slots : picks[j] = k => Nearest(k) = j
<1> DEFINE s == Nearest(k)
<1>1. s \in Slots /\ \A j \in Slots : Distance(picks[s], k) <= Distance(picks[j], k)
  BY NearestIs
<1>2. Slots \subseteq Nat
  BY MemBounds
<1> HIDE DEF s
<1>3. ASSUME NEW j \in Slots, j < s PROVE picks[j] < k
  <2>1. picks[j] < picks[s] /\ picks[j] \in Nat /\ picks[s] \in Nat
    BY <1>1, <1>3 DEF Ordered
  <2>2. Distance(picks[s], k) <= Distance(picks[j], k)
    BY <1>1
  <2> QED  BY <2>1, <2>2 DEF Distance
<1>4. ASSUME NEW j \in Slots, s < j PROVE k < picks[j]
  <2>1. picks[s] < picks[j] /\ picks[j] \in Nat /\ picks[s] \in Nat
    BY <1>1, <1>4 DEF Ordered
  <2>2. Distance(picks[s], k) <= Distance(picks[j], k)
    BY <1>1
  <2> QED  BY <2>1, <2>2 DEF Distance
<1>5. Ordered([picks EXCEPT ![s] = k])
  <2> SUFFICES ASSUME NEW i \in Slots, NEW j \in Slots, i < j
               PROVE  [picks EXCEPT ![s] = k][i] < [picks EXCEPT ![s] = k][j]
    BY DEF Ordered
  <2>1. CASE i = s
    BY <1>2, <1>4, <2>1
  <2>2. CASE j = s
    BY <1>2, <1>3, <2>2
  <2>3. CASE i # s /\ j # s
    BY <2>3 DEF Ordered
  <2> QED  BY <2>1, <2>2, <2>3
<1>6. ASSUME NEW j \in Slots, picks[j] = k PROVE s = j
  <2>1. ~(picks[j] < k) /\ ~(k < picks[j])
    BY <1>6
  <2>2. s \in Nat /\ j \in Nat /\ ~(j < s) /\ ~(s < j)
    BY <1>1, <1>2, <1>3, <1>4, <2>1
  <2> QED  BY <2>2
<1> QED  BY <1>3, <1>4, <1>5, <1>6 DEF s

-------------------------------------------------------------------------------
(***************************************************************************)
(* The function by which FoldLeft takes up a sequence: its value at a set  *)
(* of positions is what the fold makes of the entries there.               *)
(***************************************************************************)
Folded(h, op(_, _), base, seq) ==
  h = [s \in SUBSET DOMAIN seq |->
         IF s = {} THEN base ELSE op(h[s \ {Max(s)}], seq[Max(s)])]

LEMMA TopOf ==
  ASSUME NEW k \in Nat, NEW s \in SUBSET (1..(k + 1)), k + 1 \in s
  PROVE  Max(s) = k + 1
<1>1. \A y \in s : k + 1 >= y
  OBVIOUS
<1>2. \A x \in s : (\A y \in s : x >= y) => x = k + 1
  OBVIOUS
<1>3. \E x \in s : \A y \in s : x >= y
  BY <1>1
<1>4. Max(s) \in s /\ \A y \in s : Max(s) >= y
  BY <1>3, Zenon DEF Max
<1> QED  BY <1>2, <1>4

(***************************************************************************)
(* There is such a function for every step F, and positions have a last.   *)
(***************************************************************************)
LEMMA FoldExists ==
  ASSUME NEW X, NEW Y, NEW F \in [X \X Y -> X], NEW base \in X, NEW seq \in Seq(Y)
  PROVE  /\ \E h \in [SUBSET DOMAIN seq -> X] :
              \A s \in SUBSET DOMAIN seq :
                h[s] = IF s = {} THEN base ELSE F[<<h[s \ {Max(s)}], seq[Max(s)]>>]
         /\ \A s \in SUBSET DOMAIN seq : s # {} => Max(s) \in s
<1> DEFINE Step(h, s) == IF s = {} THEN base ELSE F[<<h[s \ {Max(s)}], seq[Max(s)]>>]
           Upto(k, h) == /\ h \in [SUBSET (1..k) -> X]
                         /\ \A s \in SUBSET (1..k) : h[s] = Step(h, s)
           done == {k \in Nat : k <= Len(seq) =>
                      /\ \E h : Upto(k, h)
                      /\ \A s \in SUBSET (1..k) : s # {} => Max(s) \in s}
<1>0. Len(seq) \in Nat /\ DOMAIN seq = 1..Len(seq) /\ \A i \in 1..Len(seq) : seq[i] \in Y
  OBVIOUS
<1>1. 0 \in done
  <2> DEFINE h == [s \in SUBSET (1..0) |-> base]
  <2>1. 1..0 = {} /\ SUBSET (1..0) = {{}}
    OBVIOUS
  <2>2. Upto(0, h)
    BY <2>1
  <2> QED  BY <2>1, <2>2
<1>2. ASSUME NEW k \in done PROVE k + 1 \in done
  <2> SUFFICES ASSUME k + 1 <= Len(seq)
               PROVE  /\ \E h : Upto(k + 1, h)
                      /\ \A s \in SUBSET (1..(k + 1)) : s # {} => Max(s) \in s
    <3>1. k + 1 \in Nat
      OBVIOUS
    <3> HIDE DEF Upto
    <3> QED  BY <3>1
  <2>0. k \in Nat /\ k <= Len(seq) /\ k + 1 \in 1..Len(seq)
    BY <1>0
  <2>1. PICK g : Upto(k, g)
    BY <2>0
  <2>2. \A s \in SUBSET (1..k) : s # {} => Max(s) \in s
    BY <2>0
  <2>3. ASSUME NEW s \in SUBSET (1..(k + 1))
        PROVE  \/ s \in SUBSET (1..k)
               \/ k + 1 \in s /\ Max(s) = k + 1 /\ s \ {k + 1} \in SUBSET (1..k)
    <3>1. 1..(k + 1) = (1..k) \cup {k + 1}
      BY <2>0
    <3> QED  BY <2>0, <3>1, TopOf
  <2> DEFINE h == [s \in SUBSET (1..(k + 1)) |->
                     IF s \in SUBSET (1..k) THEN g[s]
                       ELSE F[<<g[s \ {k + 1}], seq[k + 1]>>]]
  <2>4. \A s \in SUBSET (1..k) : s \in SUBSET (1..(k + 1)) /\ h[s] = g[s] /\ g[s] \in X
    <3>1. 1..k \subseteq 1..(k + 1)
      BY <2>0
    <3> QED  BY <2>1, <3>1
  <2>5. ASSUME NEW s \in SUBSET (1..(k + 1)) PROVE h[s] \in X /\ h[s] = Step(h, s)
    <3>1. CASE s \in SUBSET (1..k)
      <4>1. g[s] = Step(g, s)
        BY <2>1, <3>1
      <4>2. s \ {Max(s)} \in SUBSET (1..k)
        BY <3>1
      <4>3. Step(g, s) = Step(h, s)
        BY <2>4, <4>2
      <4> QED  BY <2>4, <3>1, <4>1, <4>3
    <3>2. CASE s \notin SUBSET (1..k)
      <4>1. k + 1 \in s /\ Max(s) = k + 1 /\ s \ {k + 1} \in SUBSET (1..k)
        BY <2>3, <3>2
      <4>2. h[s] = F[<<g[s \ {k + 1}], seq[k + 1]>>]
        BY <3>2
      <4>3. h[s \ {k + 1}] = g[s \ {k + 1}] /\ g[s \ {k + 1}] \in X /\ s # {}
        BY <2>4, <4>1
      <4>4. seq[k + 1] \in Y
        BY <1>0, <2>0
      <4> QED  BY <4>1, <4>2, <4>3, <4>4
    <3> QED  BY <3>1, <3>2
  <2>6. Upto(k + 1, h)
    <3>1. h \in [SUBSET (1..(k + 1)) -> X]
      BY <2>5
    <3> QED  BY <2>5, <3>1
  <2>7. \E e : Upto(k + 1, e)
    <3> HIDE DEF Upto, h
    <3> QED  BY <2>6
  <2>8. ASSUME NEW s \in SUBSET (1..(k + 1)), s # {} PROVE Max(s) \in s
    <3>1. CASE s \in SUBSET (1..k)
      BY <2>2, <2>8, <3>1
    <3>2. CASE k + 1 \in s /\ Max(s) = k + 1
      BY <3>2
    <3> QED  BY <2>3, <3>1, <3>2
  <2> HIDE DEF Upto, h
  <2> QED  BY <2>7, <2>8
<1>3. done = Nat
  <2> HIDE DEF done
  <2>1. done \in SUBSET Nat
    BY DEF done
  <2> QED  BY <1>1, <1>2, <2>1, SetInduction
<1>4. Len(seq) \in done
  BY <1>0, <1>3
<1>5. /\ \E h : Upto(Len(seq), h)
      /\ \A s \in SUBSET (1..Len(seq)) : s # {} => Max(s) \in s
  <2> HIDE DEF Upto
  <2> QED  BY <1>0, <1>4
<1> QED  BY <1>0, <1>5
(***************************************************************************)
(* The values of such a function at the first i positions, one after the   *)
(* other.                                                                  *)
(***************************************************************************)
LEMMA FirstPositions ==
  ASSUME NEW i \in Nat, i # 0
  PROVE  1..i # {} /\ Max(1..i) = i /\ (1..i) \ {i} = 1..(i - 1)
<1>1. PICK k \in Nat : i = k + 1
  <2>1. i - 1 \in Nat /\ i = (i - 1) + 1
    OBVIOUS
  <2> QED  BY <2>1
<1>2. 1..i \in SUBSET (1..(k + 1)) /\ k + 1 \in 1..i
  BY <1>1
<1>3. Max(1..i) = k + 1
  BY <1>2, TopOf
<1>4. (1..i) \ {i} = 1..(i - 1)
  OBVIOUS
<1> QED  BY <1>1, <1>2, <1>3, <1>4

(***************************************************************************)
(* What DropDuplicates makes of the picked points, one after the other: of *)
(* points that are in order it drops none.                                 *)
(***************************************************************************)
LEMMA UnseenOneByOne ==
  ASSUME NEW base \in Seq(Nat), NEW seq \in Seq(Nat)
  PROVE  \E r : /\ r[0] = base
                /\ \A i \in 1..Len(seq) : r[i] = Unseen(r[i - 1], seq[i])
                /\ r[Len(seq)] = FoldLeft(Unseen, base, seq)
<1> DEFINE F == [x \in Seq(Nat) \X Nat |-> Unseen(x[1], x[2])]
           h == CHOOSE e : Folded(e, Unseen, base, seq)
           r == [i \in 0..Len(seq) |-> h[1..i]]
<1>0. /\ Len(seq) \in Nat /\ DOMAIN seq = 1..Len(seq)
      /\ \A i \in 1..Len(seq) : seq[i] \in Nat
  OBVIOUS
<1>1. \A p \in Seq(Nat), u \in Nat : Unseen(p, u) \in Seq(Nat)
  BY DEF Unseen
<1>2. /\ F \in [Seq(Nat) \X Nat -> Seq(Nat)]
      /\ \A p \in Seq(Nat), u \in Nat : F[<<p, u>>] = Unseen(p, u)
  BY <1>1
<1> HIDE DEF F
<1>3. /\ \E g \in [SUBSET DOMAIN seq -> Seq(Nat)] :
           \A s \in SUBSET DOMAIN seq :
             g[s] = IF s = {} THEN base ELSE F[<<g[s \ {Max(s)}], seq[Max(s)]>>]
      /\ \A s \in SUBSET DOMAIN seq : s # {} => Max(s) \in s
  <2>1. F \in [Seq(Nat) \X Nat -> Seq(Nat)]
    BY <1>2
  <2> DEFINE X == Seq(Nat)
  <2>2. F \in [X \X Nat -> X] /\ base \in X
    BY <2>1
  <2>3. seq \in Seq(Nat)
    OBVIOUS
  <2> HIDE DEF h, r, X
  <2>4. /\ \E g \in [SUBSET DOMAIN seq -> X] :
             \A s \in SUBSET DOMAIN seq :
               g[s] = IF s = {} THEN base ELSE F[<<g[s \ {Max(s)}], seq[Max(s)]>>]
        /\ \A s \in SUBSET DOMAIN seq : s # {} => Max(s) \in s
    BY <2>2, <2>3, FoldExists, Zenon
  <2> QED  BY <2>4 DEF X
<1>4. PICK g \in [SUBSET DOMAIN seq -> Seq(Nat)] :
        \A s \in SUBSET DOMAIN seq :
          g[s] = IF s = {} THEN base ELSE F[<<g[s \ {Max(s)}], seq[Max(s)]>>]
  BY <1>3
<1>5. Folded(g, Unseen, base, seq)
  <2> DEFINE e == [s \in SUBSET DOMAIN seq |->
                     IF s = {} THEN base ELSE Unseen(g[s \ {Max(s)}], seq[Max(s)])]
  <2>1. ASSUME NEW s \in SUBSET DOMAIN seq PROVE g[s] = e[s]
    <3>1. CASE s # {}
      <4>1. seq[Max(s)] \in Nat /\ g[s \ {Max(s)}] \in Seq(Nat)
        BY <1>0, <1>3, <1>4, <3>1
      <4> QED  BY <1>2, <1>4, <3>1, <4>1
    <3> QED  BY <1>4, <3>1
  <2>2. g = e
    BY <2>1
  <2> QED  BY <2>2 DEF Folded
<1>6. Folded(h, Unseen, base, seq)
  BY <1>5, Zenon
<1>7. FoldLeft(Unseen, base, seq) = h[DOMAIN seq]
  BY Zenon DEF FoldLeft, MapThenFoldSet, Folded
<1> HIDE DEF h
<1>8. h[{}] = base
  BY <1>6 DEF Folded
<1>9. ASSUME NEW i \in 1..Len(seq) PROVE h[1..i] = Unseen(h[1..(i - 1)], seq[i])
  <2>1. 1..i \in SUBSET DOMAIN seq /\ i \in Nat /\ i # 0
    BY <1>0
  <2>2. 1..i # {} /\ Max(1..i) = i /\ (1..i) \ {i} = 1..(i - 1)
    BY <2>1, FirstPositions
  <2> QED  BY <1>6, <2>1, <2>2 DEF Folded
<1>10. r[0] = base
  BY <1>0, <1>8
<1>11. \A i \in 1..Len(seq) : r[i] = h[1..i] /\ r[i - 1] = h[1..(i - 1)]
  BY <1>0
<1>12. r[Len(seq)] = h[DOMAIN seq]
  BY <1>0
<1> HIDE DEF r
<1> QED  BY <1>7, <1>9, <1>10, <1>11, <1>12

LEMMA NothingDropped ==
  ASSUME NEW seq \in Seq(Nat),
         \A i, j \in 1..Len(seq) : i < j => seq[i] < seq[j]
  PROVE  FoldLeft(Unseen, <<>>, seq) = seq
<1>0. Len(seq) \in Nat /\ \A i \in 1..Len(seq) : seq[i] \in Nat
  OBVIOUS
<1>1. <<>> \in Seq(Nat)
  OBVIOUS
<1>2. PICK r : /\ r[0] = <<>>
               /\ \A i \in 1..Len(seq) : r[i] = Unseen(r[i - 1], seq[i])
               /\ r[Len(seq)] = FoldLeft(Unseen, <<>>, seq)
  BY <1>1, UnseenOneByOne
<1> DEFINE Prefix(k) == /\ r[k] \in Seq(Nat) /\ Len(r[k]) = k
                       /\ \A i \in 1..k : r[k][i] = seq[i]
           good == {k \in Nat : k <= Len(seq) => Prefix(k)}
<1>3. 0 \in good
  <2>1. Prefix(0)
    BY <1>2
  <2> QED  BY <2>1
<1>4. ASSUME NEW k \in good PROVE k + 1 \in good
  <2> SUFFICES ASSUME k + 1 <= Len(seq) PROVE Prefix(k + 1)
    OBVIOUS
  <2>1. /\ k \in Nat /\ k + 1 \in 1..Len(seq)
        /\ r[k] \in Seq(Nat) /\ Len(r[k]) = k /\ \A i \in 1..k : r[k][i] = seq[i]
    BY <1>0
  <2>2. PICK i \in 1..Len(seq) : i = k + 1
    BY <2>1
  <2>3. r[i] = Unseen(r[i - 1], seq[i])
    BY <1>2
  <2>4. i - 1 = k
    BY <2>1, <2>2
  <2>5. DOMAIN r[k] = 1..k
    BY <2>1
  <2>6. ASSUME NEW j \in 1..k PROVE r[k][j] # seq[i]
    <3>1. j \in 1..Len(seq) /\ j < i
      BY <1>0, <2>1, <2>2
    <3>2. seq[j] < seq[i] /\ seq[j] \in Nat /\ seq[i] \in Nat
      BY <1>0, <3>1
    <3>3. r[k][j] = seq[j]
      BY <2>1
    <3> QED  BY <3>2, <3>3
  <2>7. r[i] = Append(r[k], seq[i])
    BY <2>3, <2>4, <2>5, <2>6 DEF Unseen
  <2>8. seq[i] \in Nat
    BY <1>0
  <2>9. /\ Append(r[k], seq[i]) \in Seq(Nat) /\ Len(Append(r[k], seq[i])) = k + 1
        /\ \A j \in 1..(k + 1) : Append(r[k], seq[i])[j] = seq[j]
    BY <2>1, <2>2, <2>8
  <2> QED  BY <2>2, <2>7, <2>9
<1>5. good = Nat
  <2> HIDE DEF good
  <2>1. good \in SUBSET Nat
    BY DEF good
  <2> QED  BY <1>3, <1>4, <2>1, SetInduction
<1>6. Prefix(Len(seq))
  <2>1. Len(seq) \in good
    BY <1>0, <1>5
  <2> QED  BY <1>0, <2>1
<1>7. r[Len(seq)] = seq
  <2>1. /\ r[Len(seq)] \in Seq(Nat) /\ Len(r[Len(seq)]) = Len(seq)
        /\ \A i \in 1..Len(seq) : r[Len(seq)][i] = seq[i]
    BY <1>6
  <2>2. PICK out : out = r[Len(seq)]
    OBVIOUS
  <2>3. out \in Seq(Nat) /\ Len(out) = Len(seq) /\ \A i \in 1..Len(out) : out[i] = seq[i]
    BY <1>0, <2>1, <2>2
  <2> HIDE DEF Prefix, good
  <2>4. out = seq
    BY <2>3, SeqEqual
  <2> QED  BY <2>2, <2>4
<1> QED  BY <1>2, <1>7

-------------------------------------------------------------------------------
(***************************************************************************)
(* Points at equal distances of more samples than there are slots.         *)
(***************************************************************************)
LEMMA EqualDistancesFit ==
  ASSUME n \in Nat, n > MaxSeriesPoints
  PROVE  /\ EqualDistances \in [Slots -> 0..LastSample]
         /\ Ordered(EqualDistances)
         /\ EqualDistances[0] = 0 /\ EqualDistances[Top] = LastSample
         /\ LastSample \in Nat /\ Top < LastSample
<1>1. Top \in Nat \ {0} /\ Slots = 0..Top /\ 0 \in Slots /\ Top \in Slots
  BY MemBounds
<1>2. LastSample \in Nat /\ Top < LastSample
  BY MemSamplerAssumption DEF LastSample, Top
<1>3. \A i \in Slots : EqualDistances[i] = (i * LastSample) \div Top
  BY DEF EqualDistances, LastSample, Top
<1>4. ASSUME NEW i \in Slots PROVE i * LastSample \in Nat
  BY <1>1, <1>2
<1>5. EqualDistances[0] = 0 /\ EqualDistances[Top] = LastSample
  <2>1. (Top * 0) \div Top = 0 /\ (Top * LastSample) \div Top = LastSample
    BY <1>1, <1>2, DivExact
  <2>2. 0 * LastSample = Top * 0
    BY <1>1, <1>2
  <2> QED  BY <1>1, <1>3, <2>1, <2>2
<1>6. Ordered(EqualDistances)
  <2> SUFFICES ASSUME NEW i \in Slots, NEW j \in Slots, i < j
               PROVE  EqualDistances[i] < EqualDistances[j]
    BY DEF Ordered
  <2>1. i * LastSample + Top <= j * LastSample
    <3>1. i \in Nat /\ j \in Nat /\ i + 1 <= j
      BY <1>1
    <3>2. (i + 1) * LastSample <= j * LastSample
      BY <1>2, <3>1
    <3>3. (i + 1) * LastSample = i * LastSample + LastSample
      BY <1>2, <3>1
    <3>4. i * LastSample \in Nat /\ j * LastSample \in Nat
      BY <1>4
    <3> QED  BY <1>1, <1>2, <3>2, <3>3, <3>4
  <2>2. (i * LastSample) \div Top < (j * LastSample) \div Top
    BY <1>1, <1>4, <2>1, DivGrows
  <2> QED  BY <1>3, <2>2
<1>7. ASSUME NEW i \in Slots PROVE EqualDistances[i] \in 0..LastSample
  <2>1. EqualDistances[i] \in Nat
    BY <1>1, <1>3, <1>4, DivBounds
  <2>2. CASE i = Top
    BY <1>2, <1>5, <2>2
  <2>3. CASE i # Top
    <3>1. i < Top
      BY <1>1, <2>3
    <3>2. EqualDistances[i] < EqualDistances[Top]
      BY <1>1, <1>6, <3>1 DEF Ordered
    <3> QED  BY <1>2, <1>5, <2>1, <3>2
  <2> QED  BY <2>2, <2>3
<1>8. EqualDistances \in [Slots -> 0..LastSample]
  <2>1. EqualDistances = [i \in Slots |-> EqualDistances[i]]
    BY DEF EqualDistances
  <2> QED  BY <1>7, <2>1
<1> QED  BY <1>2, <1>5, <1>6, <1>8

\* A peak that is close neither to the first nor to the last sample falls to a
\* slot between the first and the last.
LEMMA PeakFallsBetween ==
  ASSUME n \in Nat, n > MaxSeriesPoints, picks = EqualDistances,
         NEW k \in 0..LastSample, k # 0, k # LastSample, ~Close(0, k), ~Close(k, LastSample)
  PROVE  Nearest(k) # 0 /\ Nearest(k) # Top
<1>0. /\ Top \in Nat \ {0} /\ Slots = 0..Top /\ 0 \in Slots /\ Top \in Slots
      /\ LastSample \in Nat /\ Top < LastSample
  BY MemBounds, EqualDistancesFit
<1>1. /\ picks \in [Slots -> Nat] /\ Ordered(picks)
      /\ picks[0] = 0 /\ picks[Top] = LastSample
  BY EqualDistancesFit
<1>2. \A j \in Slots : Distance(picks[Nearest(k)], k) <= Distance(picks[j], k)
  BY <1>1, NearestIs
<1>3. k \in Nat /\ k < LastSample /\ 0 < k
  BY <1>0
<1>4. /\ LastSample + MaxSeriesPoints < 2 * k * Top
      /\ LastSample + MaxSeriesPoints < 2 * (LastSample - k) * Top
  <2>1. /\ ~(2 * Distance(0, k) * Top <= LastSample + MaxSeriesPoints)
        /\ ~(2 * Distance(k, LastSample) * Top <= LastSample + MaxSeriesPoints)
    BY DEF Close, LastSample, Top
  <2>2. Distance(0, k) = k /\ Distance(k, LastSample) = LastSample - k
    BY <1>0, <1>3 DEF Distance
  <2>3. 2 * k * Top \in Nat /\ 2 * (LastSample - k) * Top \in Nat /\ LastSample + MaxSeriesPoints \in Nat
    BY <1>0, <1>3, MemSamplerAssumption
  <2> QED  BY <2>1, <2>2, <2>3
<1>5. Top # 1
  BY <1>0, <1>3, <1>4, MemSamplerAssumption
<1>6. 1 \in Slots /\ Top - 1 \in Slots
  BY <1>0, <1>5
<1>7. picks[1] = LastSample \div Top /\ picks[Top - 1] = ((Top - 1) * LastSample) \div Top
  BY <1>0, <1>6 DEF EqualDistances, LastSample, Top
<1>8. Nearest(k) # 0
  <2> DEFINE e == LastSample \div Top
  <2>1. e \in Nat /\ Top * e <= LastSample
    BY <1>0, DivBounds
  <2>2. 0 < e
    BY <1>0, <1>1, <1>6, <1>7 DEF Ordered
  <2> HIDE DEF e
  <2>3. e < 2 * k
    <3>1. ASSUME 2 * k <= e PROVE FALSE
      <4>1. Top * (2 * k) <= Top * e
        BY <1>0, <1>3, <2>1, <3>1
      <4>2. Top * (2 * k) = 2 * k * Top /\ Top * (2 * k) \in Nat /\ Top * e \in Nat
        BY <1>0, <1>3, <2>1
      <4>3. 0 <= MaxSeriesPoints /\ MaxSeriesPoints \in Nat
        BY MemSamplerAssumption
      <4>4. Top * (2 * k) <= LastSample
        BY <1>0, <2>1, <4>1, <4>2
      <4> QED  BY <1>0, <1>4, <4>2, <4>3, <4>4
    <3> QED  BY <1>3, <2>1, <3>1
  <2>4. Distance(e, k) < Distance(0, k)
    BY <1>3, <2>1, <2>2, <2>3 DEF Distance
  <2>5. Distance(picks[1], k) < Distance(picks[0], k)
    BY <1>1, <1>7, <2>4 DEF e
  <2>6. Distance(picks[1], k) \in Nat /\ Distance(picks[0], k) \in Nat
    BY <1>0, <1>1, <1>3, <1>6 DEF Distance
  <2>7. ASSUME Nearest(k) = 0 PROVE FALSE
    <3>1. Distance(picks[0], k) <= Distance(picks[1], k)
      BY <1>2, <1>6, <2>7
    <3> QED  BY <2>5, <2>6, <3>1
  <2> QED  BY <2>7
<1>9. Nearest(k) # Top
  <2> DEFINE e == ((Top - 1) * LastSample) \div Top
  <2>1. (Top - 1) * LastSample \in Nat
    BY <1>0
  <2>2. e \in Nat /\ (Top - 1) * LastSample < Top * e + Top
    BY <1>0, <2>1, DivBounds
  <2>3. e < LastSample
    BY <1>0, <1>1, <1>6, <1>7 DEF Ordered
  <2> HIDE DEF e
  <2>4. LastSample - e < 2 * (LastSample - k)
    <3>1. ASSUME 2 * (LastSample - k) <= LastSample - e PROVE FALSE
      <4>1. Top * (2 * (LastSample - k)) <= Top * (LastSample - e)
        <5>1. 2 * (LastSample - k) \in Nat /\ LastSample - e \in Nat
          BY <1>0, <1>3, <2>2, <2>3
        <5> QED  BY <1>0, <3>1, <5>1
      <4>2. Top * (2 * (LastSample - k)) = 2 * (LastSample - k) * Top
        BY <1>0, <1>3
      <4>3. Top * (LastSample - e) = Top * LastSample - Top * e /\ (Top - 1) * LastSample = Top * LastSample - LastSample
        BY <1>0, <2>2
      <4>4. Top * LastSample \in Nat /\ Top * e \in Nat /\ 2 * (LastSample - k) * Top \in Nat
        BY <1>0, <1>3, <2>2
      <4>5. Top < MaxSeriesPoints /\ MaxSeriesPoints \in Nat
        BY MemSamplerAssumption DEF Top
      <4> QED  BY <1>0, <1>4, <2>2, <4>1, <4>2, <4>3, <4>4, <4>5
    <3> QED  BY <1>0, <1>3, <2>2, <2>3, <3>1
  <2>5. Distance(e, k) < Distance(LastSample, k)
    BY <1>0, <1>3, <2>2, <2>3, <2>4 DEF Distance
  <2>6. Distance(picks[Top - 1], k) < Distance(picks[Top], k)
    BY <1>1, <1>7, <2>5 DEF e
  <2>7. Distance(picks[Top - 1], k) \in Nat /\ Distance(picks[Top], k) \in Nat
    BY <1>0, <1>1, <1>3, <1>6 DEF Distance
  <2>8. ASSUME Nearest(k) = Top PROVE FALSE
    <3>1. Distance(picks[Top], k) <= Distance(picks[Top - 1], k)
      BY <1>2, <1>6, <2>8
    <3> QED  BY <2>6, <2>7, <3>1
  <2> QED  BY <2>8
<1> QED  BY <1>8, <1>9

-------------------------------------------------------------------------------
(***************************************************************************)
(* The invariant.  While the anchors are placed the picked points are in   *)
(* order, the first and the last slot hold the first and the last sample   *)
(* or the peak, and anchors that are apart from each other do not touch    *)
(* what another one has.                                                   *)
(***************************************************************************)
Apart == \A k, l \in Anchors : k # l => ~Close(k, l)

EndsHeld == picks[0] \in {0, Peak} /\ picks[Top] \in {LastSample, Peak}

Untouched ==
  Apart /\ Peak \notin {0, LastSample} =>
    /\ picks[0] = 0 /\ picks[Top] = LastSample
    /\ Peak \in anchors => picks = EqualDistances
    /\ Peak \notin anchors => \E i \in Slots : picks[i] = Peak

Placing ==
  /\ n > MaxSeriesPoints /\ anchors \subseteq Anchors
  /\ Ordered(picks) /\ EndsHeld /\ Untouched

MemInv ==
  /\ TypeOK
  /\ pc = "placing" => Placing
  /\ SeriesInOrder /\ DistantAnchorsKept

LEMMA TickHolds == ASSUME MemInv, Tick PROVE MemInv'
<1>1. PICK rss \in Rss : samps' = Append(samps, rss)
  BY DEF Tick
<1>2. /\ pc = "sampling" /\ n < MaxSamples
      /\ UNCHANGED <<pc, picks, anchors, series>>
  BY DEF Tick
<1>3. samps \in Seq(Rss) /\ anchors \subseteq Samples /\ series \in Seq(Samples)
  BY DEF MemInv, TypeOK
<1>4. samps' \in Seq(Rss) /\ n' = n + 1 /\ n \in Nat
  BY <1>1, <1>3 DEF n
<1>5. Samples \subseteq Samples'
  BY <1>4 DEF Samples
<1>6. anchors' \subseteq Samples' /\ series' \in Seq(Samples')
  BY <1>2, <1>3, <1>5
<1>7. n' <= MaxSamples
  BY <1>2, <1>4, MemSamplerAssumption
<1> QED  BY <1>2, <1>4, <1>6, <1>7 DEF MemInv, TypeOK, SeriesInOrder, DistantAnchorsKept

LEMMA AnchorsAreSamples ==
  ASSUME samps \in Seq(Rss), n > 0
  PROVE  /\ Anchors = {0, LastSample, Peak} /\ Anchors \subseteq Samples
         /\ IsFiniteSet(Anchors) /\ Cardinality(Anchors) \in Nat
<1>1. Anchors = {0, LastSample, Peak} /\ Anchors \subseteq Samples
  BY SampleNumbers, PeakIsSample DEF Anchors, LastSample
<1>2. IsFiniteSet({0}) /\ IsFiniteSet({LastSample}) /\ IsFiniteSet({Peak})
  BY FS_Singleton
<1>3. IsFiniteSet({0} \cup {LastSample})
  BY <1>2, FS_Union
<1>4. IsFiniteSet(({0} \cup {LastSample}) \cup {Peak})
  BY <1>2, <1>3, FS_Union
<1>5. Anchors = ({0} \cup {LastSample}) \cup {Peak}
  BY <1>1
<1> QED  BY <1>1, <1>4, <1>5, FS_CardinalityType

\* A set of which at most one element is missing.
LEMMA OneMissing ==
  ASSUME NEW S, IsFiniteSet(S), NEW T \in SUBSET S, NEW x, S \ {x} \subseteq T
  PROVE  Cardinality(T) >= Cardinality(S) - 1
<1>1. Cardinality(S) \in Nat /\ IsFiniteSet(T) /\ Cardinality(T) \in Nat
  BY FS_Subset, FS_CardinalityType
<1>2. CASE x \in S
  <2>1. IsFiniteSet(S \ {x}) /\ Cardinality(S \ {x}) = Cardinality(S) - 1
    BY <1>2, FS_RemoveElement
  <2>2. Cardinality(S \ {x}) <= Cardinality(T)
    BY <1>1, FS_Subset
  <2> QED  BY <1>1, <2>1, <2>2
<1>3. CASE x \notin S
  <2>1. T = S
    BY <1>3
  <2> QED  BY <1>1, <2>1
<1> QED  BY <1>2, <1>3

LEMMA StopShortHolds == ASSUME MemInv, StopShort PROVE MemInv'
<1>1. /\ pc = "sampling" /\ n <= MaxSeriesPoints /\ pc' = "stopped"
      /\ series' = [i \in 1..n |-> i - 1]
      /\ UNCHANGED <<samps, picks, anchors>>
  BY DEF StopShort
<1>2. samps \in Seq(Rss) /\ n <= MaxSamples /\ anchors \subseteq Samples
  BY DEF MemInv, TypeOK
<1>3. n \in Nat /\ Samples = 0..LastSample /\ LastSample = n - 1
  BY <1>2, SampleNumbers DEF LastSample
<1>4. n' = n /\ Samples' = Samples /\ Peak' = Peak /\ Anchors' = Anchors
  BY <1>1 DEF n, Samples, Reading, Peak, Anchors
<1>5. /\ series' \in Seq(Samples) /\ Len(series') = n
      /\ DOMAIN series' = 1..n /\ \A i \in 1..n : series'[i] = i - 1
  <2>1. \A i \in 1..n : i - 1 \in Samples
    BY <1>3
  <2>2. [i \in 1..n |-> i - 1] \in Seq(Samples)
    BY <1>3, <2>1
  <2> QED  BY <1>1, <1>3, <2>2
<1>6. TypeOK'
  BY <1>1, <1>2, <1>4, <1>5 DEF TypeOK
<1>7. SeriesInOrder'
  <2>1. Len(series') = IF n < MaxSeriesPoints THEN n ELSE MaxSeriesPoints
    BY <1>1, <1>3, <1>5, MemSamplerAssumption
  <2>2. \A i \in 1..n : series'[i] \in Samples
    BY <1>3, <1>5
  <2>3. \A i, j \in 1..n : i < j => series'[i] < series'[j]
    BY <1>3, <1>5
  <2> QED  BY <1>4, <1>5, <2>1, <2>2, <2>3 DEF SeriesInOrder
<1>8. DistantAnchorsKept'
  <2> SUFFICES ASSUME n > 0
               PROVE  /\ Cardinality(Kept') >= Cardinality(Anchors) - 1
                      /\ Kept' = Anchors
    BY <1>4 DEF DistantAnchorsKept
  <2>1. ASSUME NEW k \in Samples PROVE k \in Range(series')
    <3>1. PICK i \in 1..n : i = k + 1
      BY <1>3
    <3>2. series'[i] = i - 1 /\ i - 1 = k
      BY <1>3, <1>5, <3>1
    <3> QED  BY <1>5, <3>2 DEF Range
  <2>2. Anchors \subseteq Samples /\ Cardinality(Anchors) \in Nat
    BY <1>2, AnchorsAreSamples
  <2>3. Kept' = Anchors
    BY <1>4, <2>1, <2>2 DEF Kept
  <2> QED  BY <2>2, <2>3
<1> QED  BY <1>1, <1>6, <1>7, <1>8 DEF MemInv

LEMMA StopLongHolds == ASSUME MemInv, StopLong PROVE MemInv'
<1>1. /\ pc = "sampling" /\ n > MaxSeriesPoints /\ pc' = "placing"
      /\ picks' = EqualDistances /\ anchors' = {0, n - 1, Peak}
      /\ UNCHANGED <<samps, series>>
  BY DEF StopLong
<1>2. /\ samps \in Seq(Rss) /\ n <= MaxSamples /\ series \in Seq(Samples)
      /\ n \in Nat /\ n > 0 /\ Samples = 0..LastSample
  <2>1. samps \in Seq(Rss) /\ n <= MaxSamples /\ series \in Seq(Samples)
    BY DEF MemInv, TypeOK
  <2> QED  BY <1>1, <2>1, SampleNumbers, MemSamplerAssumption
<1>3. /\ n' = n /\ Samples' = Samples /\ Peak' = Peak /\ Anchors' = Anchors
      /\ LastSample' = LastSample /\ EqualDistances' = EqualDistances
  BY <1>1 DEF n, Samples, Reading, Peak, Anchors, LastSample, EqualDistances
<1>4. /\ EqualDistances \in [Slots -> Samples] /\ Ordered(EqualDistances)
      /\ EqualDistances[0] = 0 /\ EqualDistances[Top] = LastSample
  BY <1>1, <1>2, EqualDistancesFit
<1>5. Anchors = {0, LastSample, Peak} /\ anchors' = Anchors /\ Anchors \subseteq Samples
  BY <1>1, <1>2, AnchorsAreSamples DEF Anchors
<1>6. TypeOK'
  BY <1>1, <1>2, <1>3, <1>4, <1>5 DEF TypeOK
<1>7. Placing'
  <2>1. EndsHeld'
    BY <1>1, <1>3, <1>4 DEF EndsHeld
  <2>2. Untouched'
    <3>1. Peak' \in anchors'
      BY <1>3, <1>5
    <3> QED  BY <1>1, <1>3, <1>4, <3>1 DEF Untouched
  <2>3. Ordered(picks')
    BY <1>1, <1>4
  <2> QED  BY <1>1, <1>3, <1>5, <2>1, <2>2, <2>3 DEF Placing
<1> QED  BY <1>1, <1>6, <1>7 DEF MemInv, SeriesInOrder, DistantAnchorsKept

LEMMA PlaceAnchorHolds ==
  ASSUME MemInv, NEW k \in anchors, PlaceAnchor(k)
  PROVE  MemInv'
<1> DEFINE s == Nearest(k)
<1>1. /\ pc = "placing" /\ pc' = pc
      /\ picks' = [picks EXCEPT ![s] = k] /\ anchors' = anchors \ {k}
      /\ UNCHANGED <<samps, series>>
  BY DEF PlaceAnchor
<1>2. /\ samps \in Seq(Rss) /\ n <= MaxSamples /\ series \in Seq(Samples)
      /\ picks \in [Slots -> Samples] /\ anchors \subseteq Samples
  BY <1>1 DEF MemInv, TypeOK
<1>3. /\ n > MaxSeriesPoints /\ anchors \subseteq Anchors
      /\ Ordered(picks) /\ EndsHeld /\ Untouched
  BY <1>1 DEF MemInv, Placing
<1>4. /\ n \in Nat /\ n > 0 /\ Samples = 0..LastSample /\ Samples \subseteq Nat
      /\ LastSample \in Nat /\ k \in Samples
  BY <1>2, <1>3, SampleNumbers, MemSamplerAssumption
<1>5. /\ n' = n /\ Samples' = Samples /\ Peak' = Peak /\ Anchors' = Anchors
      /\ LastSample' = LastSample /\ EqualDistances' = EqualDistances
  BY <1>1 DEF n, Samples, Reading, Peak, Anchors, LastSample, EqualDistances
<1>6. Apart' <=> Apart
  BY <1>5 DEF Apart, Close
<1>7. /\ Top \in Nat \ {0} /\ Slots = 0..Top /\ 0 \in Slots /\ Top \in Slots
  BY MemBounds
<1>8. picks \in [Slots -> Nat] /\ k \in Nat
  BY <1>2, <1>4
<1>9. /\ s \in Slots
      /\ \A j \in Slots : j < s => picks[j] < k
      /\ \A j \in Slots : s < j => k < picks[j]
      /\ Ordered([picks EXCEPT ![s] = k])
      /\ \A j \in Slots : picks[j] = k => s = j
  BY <1>3, <1>8, NearestIs, AnchorFits
<1> HIDE DEF s
<1>10. k = 0 \/ k = LastSample \/ k = Peak
  BY <1>2, <1>3, <1>4, AnchorsAreSamples
<1>11. picks' \in [Slots -> Samples] /\ anchors' \subseteq Samples
  BY <1>1, <1>2, <1>4, <1>9
<1>12. TypeOK'
  BY <1>1, <1>2, <1>5, <1>11 DEF TypeOK
<1>13. k = 0 => s = 0
  BY <1>4, <1>7, <1>8, <1>9
<1>14. k = LastSample => s = Top
  <2>1. ASSUME k = LastSample, s < Top PROVE FALSE
    <3>1. k < picks[Top] /\ picks[Top] \in 0..LastSample
      BY <1>2, <1>4, <1>7, <1>9, <2>1
    <3> QED  BY <1>4, <2>1, <3>1
  <2> QED  BY <1>7, <1>9, <2>1
<1>15. EndsHeld'
  <2>1. picks'[0] = picks[0] \/ (s = 0 /\ picks'[0] = k)
    BY <1>1, <1>2, <1>7
  <2>2. picks'[Top] = picks[Top] \/ (s = Top /\ picks'[Top] = k)
    BY <1>1, <1>2, <1>7
  <2>3. picks[0] \in {0, Peak} /\ picks[Top] \in {LastSample, Peak}
    BY <1>3 DEF EndsHeld
  <2>4. picks'[0] \in {0, Peak}
    BY <1>7, <1>10, <1>14, <2>1, <2>3
  <2>5. picks'[Top] \in {LastSample, Peak}
    BY <1>7, <1>10, <1>13, <2>2, <2>3
  <2> QED  BY <1>5, <2>4, <2>5 DEF EndsHeld
<1>16. Untouched'
  <2> SUFFICES ASSUME Apart, Peak # 0, Peak # LastSample
               PROVE  /\ picks'[0] = 0 /\ picks'[Top] = LastSample
                      /\ Peak \in anchors' => picks' = EqualDistances
                      /\ Peak \notin anchors' => \E i \in Slots : picks'[i] = Peak
    BY <1>5, <1>6 DEF Untouched
  <2>1. /\ picks[0] = 0 /\ picks[Top] = LastSample
        /\ Peak \in anchors => picks = EqualDistances
        /\ Peak \notin anchors => \E i \in Slots : picks[i] = Peak
    BY <1>3 DEF Untouched
  <2>2. CASE k # Peak
    <3>1. picks' = picks
      <4>1. picks[s] = k
        BY <1>10, <1>13, <1>14, <2>1, <2>2
      <4> QED  BY <1>1, <1>2, <1>9, <4>1
    <3> QED  BY <1>1, <2>1, <2>2, <3>1
  <2>3. CASE k = Peak
    <3>1. picks = EqualDistances
      BY <2>1, <2>3
    <3>2. /\ 0 \in Anchors /\ LastSample \in Anchors /\ k \in Anchors
      BY <1>2, <1>4, <2>3, AnchorsAreSamples
    <3>3. ~Close(0, k) /\ ~Close(k, LastSample)
      BY <2>3, <3>2 DEF Apart
    <3>4. s # 0 /\ s # Top
      BY <1>3, <1>4, <2>3, <3>1, <3>3, PeakFallsBetween DEF s
    <3>5. picks'[0] = 0 /\ picks'[Top] = LastSample /\ picks'[s] = k
      BY <1>1, <1>2, <1>7, <1>9, <2>1, <3>4
    <3> QED  BY <1>1, <1>9, <2>3, <3>5
  <2> QED  BY <2>2, <2>3
<1>17. Placing'
  BY <1>1, <1>3, <1>5, <1>9, <1>15, <1>16 DEF Placing
<1> QED  BY <1>1, <1>12, <1>17 DEF MemInv, SeriesInOrder, DistantAnchorsKept

LEMMA DropDuplicatesHolds == ASSUME MemInv, DropDuplicates PROVE MemInv'
<1> DEFINE seq == [i \in 1..MaxSeriesPoints |-> picks[i - 1]]
<1>1. /\ pc = "placing" /\ pc' = "stopped" /\ anchors = {}
      /\ series' = FoldLeft(Unseen, <<>>, seq)
      /\ UNCHANGED <<samps, picks, anchors>>
  BY DEF DropDuplicates
<1>2. /\ samps \in Seq(Rss) /\ n <= MaxSamples
      /\ picks \in [Slots -> Samples] /\ anchors \subseteq Samples
  BY <1>1 DEF MemInv, TypeOK
<1>3. /\ n > MaxSeriesPoints /\ Ordered(picks) /\ EndsHeld /\ Untouched
  BY <1>1 DEF MemInv, Placing
<1>4. /\ n \in Nat /\ n > 0 /\ Samples = 0..LastSample /\ Samples \subseteq Nat
      /\ MaxSeriesPoints \in Nat /\ Top = MaxSeriesPoints - 1
  BY <1>2, <1>3, SampleNumbers, MemSamplerAssumption DEF Top
<1>5. /\ n' = n /\ Samples' = Samples /\ Peak' = Peak /\ Anchors' = Anchors
  BY <1>1 DEF n, Samples, Reading, Peak, Anchors
<1>6. /\ Top \in Nat \ {0} /\ Slots = 0..Top /\ 0 \in Slots /\ Top \in Slots
  BY MemBounds
<1>7. \A i \in 1..MaxSeriesPoints : i - 1 \in Slots /\ seq[i] = picks[i - 1]
  BY <1>4, <1>6
<1>8. /\ seq \in Seq(Samples) /\ seq \in Seq(Nat) /\ Len(seq) = MaxSeriesPoints
      /\ DOMAIN seq = 1..MaxSeriesPoints
  BY <1>2, <1>4, <1>7
<1> HIDE DEF seq
<1>9. \A i, j \in 1..MaxSeriesPoints : i < j => seq[i] < seq[j]
  <2> SUFFICES ASSUME NEW i \in 1..MaxSeriesPoints, NEW j \in 1..MaxSeriesPoints, i < j
               PROVE  picks[i - 1] < picks[j - 1]
    BY <1>7
  <2>1. i - 1 \in Slots /\ j - 1 \in Slots
    BY <1>7
  <2>2. i - 1 < j - 1
    BY <1>4
  <2> QED  BY <1>3, <2>1, <2>2 DEF Ordered
<1>10. series' = seq
  BY <1>1, <1>8, <1>9, NothingDropped
<1>11. TypeOK'
  BY <1>1, <1>2, <1>5, <1>8, <1>10 DEF TypeOK
<1>12. SeriesInOrder'
  <2>1. \A i \in 1..MaxSeriesPoints : seq[i] \in Samples
    BY <1>2, <1>7
  <2>2. Len(seq) = IF n < MaxSeriesPoints THEN n ELSE MaxSeriesPoints
    BY <1>3, <1>4, <1>8
  <2> QED  BY <1>5, <1>8, <1>9, <1>10, <2>1, <2>2 DEF SeriesInOrder
<1>13. ASSUME NEW i \in Slots PROVE picks[i] \in Range(seq)
  <2>1. PICK j \in 1..MaxSeriesPoints : j = i + 1
    BY <1>4, <1>6
  <2>2. j - 1 = i
    BY <1>6, <2>1
  <2>3. seq[j] = picks[i]
    BY <1>7, <2>2
  <2> QED  BY <1>8, <2>3 DEF Range
<1>14. picks[0] \in Range(seq) /\ picks[Top] \in Range(seq) /\ picks[0] < picks[Top]
  BY <1>3, <1>6, <1>13 DEF Ordered
<1>15. picks[0] \in {0, Peak} /\ picks[Top] \in {LastSample, Peak}
  BY <1>3 DEF EndsHeld
<1>16. /\ Anchors = {0, LastSample, Peak} /\ Anchors \subseteq Samples
       /\ IsFiniteSet(Anchors) /\ Cardinality(Anchors) \in Nat
  BY <1>2, <1>4, AnchorsAreSamples
<1>17. Kept' = Anchors \cap Range(seq)
  BY <1>5, <1>10 DEF Kept
<1>18. picks[0] # picks[Top]
  BY <1>2, <1>4, <1>6, <1>14
<1>19. Cardinality(Kept') >= Cardinality(Anchors) - 1
  <2> DEFINE kept == Anchors \cap Range(seq)
  <2>1. \E x : Anchors \ {x} \subseteq kept
    <3>1. CASE picks[0] = Peak
      BY <1>14, <1>15, <1>16, <1>18, <3>1
    <3>2. CASE picks[0] = 0 /\ picks[Top] = Peak
      BY <1>14, <1>16, <3>2
    <3>3. CASE picks[0] = 0 /\ picks[Top] = LastSample
      BY <1>14, <1>16, <3>3
    <3> QED  BY <1>15, <3>1, <3>2, <3>3
  <2>2. kept \in SUBSET Anchors
    OBVIOUS
  <2> HIDE DEF kept
  <2>3. Cardinality(kept) >= Cardinality(Anchors) - 1
    BY <1>16, <2>1, <2>2, OneMissing
  <2> QED  BY <1>17, <2>3 DEF kept
<1>20. ASSUME Apart PROVE Kept' = Anchors
  <2>1. CASE Peak = 0
    <3>1. picks[0] = 0 /\ picks[Top] = LastSample
      BY <1>15, <1>18, <2>1
    <3> QED  BY <1>14, <1>16, <1>17, <2>1, <3>1
  <2>2. CASE Peak = LastSample
    <3>1. picks[0] = 0 /\ picks[Top] = LastSample
      BY <1>15, <1>18, <2>2
    <3> QED  BY <1>14, <1>16, <1>17, <2>2, <3>1
  <2>3. CASE Peak # 0 /\ Peak # LastSample
    <3>1. /\ picks[0] = 0 /\ picks[Top] = LastSample
          /\ \E i \in Slots : picks[i] = Peak
      BY <1>1, <1>3, <1>20, <2>3 DEF Untouched
    <3>2. Peak \in Range(seq)
      BY <1>13, <3>1
    <3> QED  BY <1>14, <1>16, <1>17, <3>1, <3>2
  <2> QED  BY <2>1, <2>2, <2>3
<1>21. Apart' <=> Apart
  BY <1>5 DEF Apart, Close
<1>22. DistantAnchorsKept'
  BY <1>5, <1>19, <1>20, <1>21 DEF DistantAnchorsKept, Apart
<1> QED  BY <1>1, <1>11, <1>12, <1>22 DEF MemInv

LEMMA MemInductive ==
  /\ Init => MemInv
  /\ MemInv /\ [Next]_vars => MemInv'
<1>1. ASSUME Init PROVE MemInv
  <2>1. samps = <<>> /\ pc = "sampling" /\ anchors = {} /\ series = <<>>
    BY <1>1 DEF Init
  <2>2. samps \in Seq(Rss) /\ n = 0 /\ series \in Seq(Samples)
    BY <2>1 DEF n
  <2> QED  BY <2>1, <2>2, MemSamplerAssumption
             DEF MemInv, TypeOK, SeriesInOrder, DistantAnchorsKept
<1>2. ASSUME MemInv, [Next]_vars PROVE MemInv'
  <2>1. CASE Tick
    BY <1>2, <2>1, TickHolds
  <2>2. CASE StopShort
    BY <1>2, <2>2, StopShortHolds
  <2>3. CASE StopLong
    BY <1>2, <2>3, StopLongHolds
  <2>4. CASE \E k \in anchors : PlaceAnchor(k)
    BY <1>2, <2>4, PlaceAnchorHolds
  <2>5. CASE DropDuplicates
    BY <1>2, <2>5, DropDuplicatesHolds
  <2>6. CASE UNCHANGED vars
    <3>1. UNCHANGED <<samps, pc, picks, anchors, series>>
      BY <2>6 DEF vars
    <3>2. /\ n' = n /\ Samples' = Samples /\ Peak' = Peak /\ Anchors' = Anchors
          /\ LastSample' = LastSample /\ EqualDistances' = EqualDistances
      BY <3>1 DEF n, Samples, Reading, Peak, Anchors, LastSample, EqualDistances
    <3>3. (Apart' <=> Apart) /\ Kept' = Kept
      BY <3>1, <3>2 DEF Apart, Close, Kept
    <3>4. TypeOK'
      BY <1>2, <3>1, <3>2 DEF MemInv, TypeOK
    <3>5. pc' = "placing" => Placing'
      <4>1. pc = "placing" => Placing
        BY <1>2 DEF MemInv
      <4>2. EndsHeld => EndsHeld'
        BY <3>1, <3>2 DEF EndsHeld
      <4>3. Untouched => Untouched'
        BY <3>1, <3>2, <3>3 DEF Untouched
      <4> QED  BY <3>1, <3>2, <4>1, <4>2, <4>3 DEF Placing
    <3>6. SeriesInOrder'
      BY <1>2, <3>1, <3>2 DEF MemInv, SeriesInOrder
    <3>7. DistantAnchorsKept'
      BY <1>2, <3>1, <3>2, <3>3 DEF MemInv, DistantAnchorsKept, Apart
    <3> QED  BY <3>4, <3>5, <3>6, <3>7 DEF MemInv
  <2> QED  BY <1>2, <2>1, <2>2, <2>3, <2>4, <2>5, <2>6 DEF Next
<1> QED  BY <1>1, <1>2

(***************************************************************************)
(* The series is typed: every picked point and every point of the reduced  *)
(* series is the number of a sample that was taken.                        *)
(***************************************************************************)
THEOREM MemTypeCorrect == Spec => []TypeOK
<1>1. MemInv => TypeOK
  BY DEF MemInv
<1> QED  BY <1>1, MemInductive, PTL DEF Spec

(***************************************************************************)
(* For any number of samples and of points, any readings and any order of  *)
(* the anchors the reduced series is full and in the order of the samples. *)
(***************************************************************************)
THEOREM SeriesHolds == Spec => []SeriesInOrder
<1>1. MemInv => SeriesInOrder
  BY DEF MemInv
<1> QED  BY <1>1, MemInductive, PTL DEF Spec

(***************************************************************************)
(* At most one of the first, the last and the peak sample is missing from  *)
(* the reduced series, and none if they are apart from each other.         *)
(***************************************************************************)
THEOREM AnchorsHold == Spec => []DistantAnchorsKept
<1>1. MemInv => DistantAnchorsKept
  BY DEF MemInv
<1> QED  BY <1>1, MemInductive, PTL DEF Spec
================================================================================
