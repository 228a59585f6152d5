----------------------------- MODULE RoomProofs ------------------------------
(***************************************************************************)
(* Proofs about the inside of a room, for every map, set of players, spawn *)
(* data and range: no monster is lost or doubled (PopulationKept), no two  *)
(* creatures walk into one another or into a wall (CreaturesApart), a      *)
(* monster beyond its leash chases nobody (LeashHolds), and the way of a   *)
(* monster leads as near as it can get (PathsSound).  The second and the   *)
(* last rest on what FindPath returns, so the heap and the search come     *)
(* first: whatever the heap makes of equal distances, nothing is missed.   *)
(***************************************************************************)
EXTENDS RoomSimulation, FiniteSetTheorems, SequenceTheorems, WellFoundedInduction, TLAPS

LEMMA LeastExists ==
  ASSUME NEW S \in SUBSET Nat, S # {}
  PROVE  \E n \in S : \A k \in S : n <= k
<1>1. \E n \in S : \A k \in S : ~(<<k, n>> \in OpToRel(<, Nat))
  BY NatLessThanWellFounded, WFMin
<1>2. PICK n \in S : \A k \in S : ~(<<k, n>> \in OpToRel(<, Nat))
  BY <1>1
<1>3. \A k \in S : ~(k < n)
  BY <1>2 DEF OpToRel
<1>4. \A k \in S : n <= k
  BY <1>3
<1>5. QED
  BY <1>4

LEMMA LeastIn ==
  ASSUME NEW S \in SUBSET Nat, S # {}
  PROVE  Least(S) \in S
BY LeastExists DEF Least

-----------------------------------------------------------------------------
(* The heap: its cells are in order, and sifting keeps them and their order *)

Points == Nat \X Nat

\* No cell is nearer than its parent.
Ordered(heap, dest) ==
  \A i \in 2..Len(heap) : Dist(heap[i \div 2], dest) <= Dist(heap[i], dest)

LEMMA Half ==
  ASSUME NEW i \in Nat, i >= 2
  PROVE  /\ i \div 2 \in Nat /\ i \div 2 >= 1 /\ i \div 2 < i
         /\ i = 2 * (i \div 2) \/ i = 2 * (i \div 2) + 1
OBVIOUS

LEMMA HalfOf ==
  ASSUME NEW i \in Nat, i >= 1, NEW j \in {2 * i, 2 * i + 1}
  PROVE  j \in Nat /\ j >= 2 /\ j > i /\ j \div 2 = i
OBVIOUS

LEMMA DistNat ==
  ASSUME NEW a \in Points, NEW b \in Points
  PROVE  Dist(a, b) \in Nat
BY DEF Dist, Abs, Points

\* v is the function visited of HeapPush, far the places farther than what is pushed.
IsVisited(v, last, far) ==
  v = [i \in 1..last |->
         i = last \/ (i \in far /\ \E j \in {2 * i, 2 * i + 1} \cap 1..last : v[j])]

\* v is the function hole of HeapPop, nearer the places nearer than their siblings.
IsHole(v, size, nearer) ==
  v = [i \in 1..size |-> i = 1 \/ (v[i \div 2] /\ i \in nearer)]

\* There is such a function: it is the least set with the last place
\* and, of a visited place, the parent if it is farther.
LEMMA VisitedExists ==
  ASSUME NEW last \in Nat, NEW far
  PROVE  \E v : IsVisited(v, last, far)
<1> DEFINE Up(Q, i) == i = last \/ (i \in far /\ \E j \in {2 * i, 2 * i + 1} \cap 1..last : j \in Q)
           Closed(Q) == \A i \in 1..last : Up(Q, i) => i \in Q
           P == {i \in 1..last : \A Q \in SUBSET (1..last) : Closed(Q) => i \in Q}
           v == [i \in 1..last |-> i \in P]
<1>1. ASSUME NEW i \in 1..last, Up(P, i) PROVE i \in P
  <2>1. ASSUME NEW Q \in SUBSET (1..last), Closed(Q) PROVE i \in Q
    <3>1. P \subseteq Q
      BY <2>1
    <3>2. Up(Q, i)
      BY <1>1, <3>1
    <3>3. QED
      BY <2>1, <3>2
  <2>2. QED
    BY <2>1
<1>2. ASSUME NEW i \in P PROVE Up(P, i)
  <2>1. SUFFICES ASSUME ~Up(P, i) PROVE FALSE
    OBVIOUS
  <2> DEFINE Q == P \ {i}
  <2>2. ASSUME NEW k \in 1..last, Up(Q, k) PROVE k \in Q
    <3>1. Up(P, k)
      BY <2>2
    <3>2. k \in P
      BY <1>1, <3>1
    <3>3. k # i
      BY <2>1, <3>1
    <3>4. QED
      BY <3>2, <3>3
  <2> HIDE DEF Up
  <2>3. Closed(Q) /\ Q \in SUBSET (1..last)
    BY <2>2
  <2>4. i \in Q
    BY <2>3
  <2>5. QED
    BY <2>4
<1> HIDE DEF P
<1>3. \A i \in 1..last : (i \in P) = Up(P, i)
  <2>1. \A i \in 1..last : (i \in P) <=> Up(P, i)
    BY <1>1, <1>2
  <2>2. QED
    BY <2>1
<1>4. \A i \in 1..last : v[i] = (i \in P)
  OBVIOUS
<1>5. \A i \in 1..last :
        (\E j \in {2 * i, 2 * i + 1} \cap 1..last : j \in P)
          <=> (\E j \in {2 * i, 2 * i + 1} \cap 1..last : v[j])
  BY <1>4
<1>6. \A i \in 1..last :
        v[i] = (i = last \/ (i \in far /\ \E j \in {2 * i, 2 * i + 1} \cap 1..last : v[j]))
  BY <1>3, <1>4, <1>5
<1>7. v = [i \in 1..last |->
             i = last \/ (i \in far /\ \E j \in {2 * i, 2 * i + 1} \cap 1..last : v[j])]
  <2>1. v = [i \in 1..last |-> v[i]]
    OBVIOUS
  <2> HIDE DEF v
  <2>2. QED
    BY <1>6, <2>1
<1>8. QED
  BY <1>7 DEF IsVisited

\* And such a function, in the same way.
LEMMA HoleExists ==
  ASSUME NEW size \in Nat, NEW nearer
  PROVE  \E v : IsHole(v, size, nearer)
<1> DEFINE Down(Q, i) == i = 1 \/ (i \div 2 \in Q /\ i \in nearer)
           Closed(Q) == \A i \in 1..size : Down(Q, i) => i \in Q
           P == {i \in 1..size : \A Q \in SUBSET (1..size) : Closed(Q) => i \in Q}
           v == [i \in 1..size |-> i \in P]
<1>1. ASSUME NEW i \in 1..size, Down(P, i) PROVE i \in P
  <2>1. ASSUME NEW Q \in SUBSET (1..size), Closed(Q) PROVE i \in Q
    <3>1. P \subseteq Q
      BY <2>1
    <3>2. Down(Q, i)
      BY <1>1, <3>1
    <3>3. QED
      BY <2>1, <3>2
  <2>2. QED
    BY <2>1
<1>2. ASSUME NEW i \in P PROVE Down(P, i)
  <2>1. SUFFICES ASSUME ~Down(P, i) PROVE FALSE
    OBVIOUS
  <2> DEFINE Q == P \ {i}
  <2>2. ASSUME NEW k \in 1..size, Down(Q, k) PROVE k \in Q
    <3>1. Down(P, k)
      BY <2>2
    <3>2. k \in P
      BY <1>1, <3>1
    <3>3. k # i
      BY <2>1, <3>1
    <3>4. QED
      BY <3>2, <3>3
  <2> HIDE DEF Down
  <2>3. Closed(Q) /\ Q \in SUBSET (1..size)
    BY <2>2
  <2>4. i \in Q
    BY <2>3
  <2>5. QED
    BY <2>4
<1> HIDE DEF P
<1>3. \A i \in 1..size : (i \in P) <=> (i = 1 \/ (i \div 2 \in P /\ i \in nearer))
  BY <1>1, <1>2
<1>4. \A i \in 1..size : v[i] = (i \in P)
  OBVIOUS
<1>5. \A i \in 1..size : i # 1 => (v[i \div 2] <=> i \div 2 \in P)
  <2>1. \A i \in 1..size : i # 1 => i \div 2 \in 1..size
    BY Half
  <2>2. QED
    BY <1>4, <2>1
<1>6. ASSUME NEW i \in 1..size PROVE v[i] = (i = 1 \/ (v[i \div 2] /\ i \in nearer))
  <2>1. v[i] = (i \in P)
    BY <1>4
  <2>2. i \in P <=> (i = 1 \/ (v[i \div 2] /\ i \in nearer))
    <3>1. CASE i = 1
      BY <1>3, <3>1
    <3>2. CASE i # 1
      BY <1>3, <1>5, <3>2
    <3>3. QED
      BY <3>1, <3>2
  <2> HIDE DEF v
  <2>3. QED
    BY <2>1, <2>2
<1>7. v = [i \in 1..size |-> i = 1 \/ (v[i \div 2] /\ i \in nearer)]
  <2>1. v = [i \in 1..size |-> v[i]]
    OBVIOUS
  <2> HIDE DEF v
  <2>2. QED
    BY <1>6, <2>1
<1>8. QED
  BY <1>7 DEF IsHole


LEMMA OrderedAt ==
  ASSUME NEW heap, NEW dest, Ordered(heap, dest), Len(heap) \in Nat,
         NEW i \in Nat, i >= 2, i <= Len(heap)
  PROVE  Dist(heap[i \div 2], dest) <= Dist(heap[i], dest)
BY DEF Ordered

\* What is pushed and what was there is there, and nothing else, in order.
LEMMA HeapPushSound ==
  ASSUME NEW S \in SUBSET Points, NEW heap \in Seq(S), NEW c \in S, NEW dest \in Points,
         Ordered(heap, dest)
  PROVE  LET pushed == HeapPush(heap, c, dest)
         IN  /\ pushed \in Seq(S) /\ Len(pushed) = Len(heap) + 1
             /\ Ordered(pushed, dest)
             /\ Range(heap) \cup {c} \subseteq Range(pushed)
<1> DEFINE last == Len(heap) + 1
           Visits(v) ==
             v = [i \in 1..last |->
                    \/ i = last
                    \/ /\ Dist(heap[i], dest) > Dist(c, dest)
                       /\ \E j \in {2 * i, 2 * i + 1} \cap 1..last : v[j]]
           v == CHOOSE w : Visits(w)
           V == {i \in 1..last : v[i]}
           d(i) == Dist(heap[i], dest)
           new == [i \in 1..last |->
                     IF ~v[i] THEN heap[i]
                     ELSE IF i > 1 /\ v[i \div 2] THEN heap[i \div 2] ELSE c]
<1>1. HeapPush(heap, c, dest) = new
  BY ZenonT(60) DEF HeapPush
<1>2. /\ last \in Nat /\ last >= 1 /\ Len(heap) = last - 1
      /\ \A i \in 1..(last - 1) : heap[i] \in S
  OBVIOUS
<1>3. \E w : Visits(w)
  <2> DEFINE far == {i \in 1..last : Dist(heap[i], dest) > Dist(c, dest)}
  <2>1. \A i \in 1..last : i \in far <=> Dist(heap[i], dest) > Dist(c, dest)
    OBVIOUS
  <2> HIDE DEF far, last
  <2>2. PICK w : IsVisited(w, last, far)
    BY <1>2, VisitedExists
  <2>3. Visits(w)
    BY <2>1, <2>2 DEF IsVisited
  <2>4. QED
    BY <2>3
<1>4. Visits(v)
  BY <1>3
<1>5. \A i \in 1..last :
        i \in V <=> \/ i = last
                    \/ /\ d(i) > Dist(c, dest)
                       /\ \E j \in {2 * i, 2 * i + 1} \cap 1..last : j \in V
  <2> HIDE DEF v
  <2>1. \A i \in 1..last : v[i] <=> \/ i = last
                                     \/ /\ d(i) > Dist(c, dest)
                                        /\ \E j \in {2 * i, 2 * i + 1} \cap 1..last : v[j]
    BY <1>4
  <2>2. QED
    BY <2>1
<1>6. \A i \in 1..last :
        /\ i \notin V => new[i] = heap[i]
        /\ i \in V /\ i > 1 /\ i \div 2 \in V => new[i] = heap[i \div 2]
        /\ i \in V /\ ~(i > 1 /\ i \div 2 \in V) => new[i] = c
  <2> HIDE DEF v
  <2>1. \A i \in 1..last : i > 1 => i \div 2 \in 1..last
    BY <1>2, Half
  <2>2. QED
    BY <2>1
<1>7. DOMAIN new = 1..last
  OBVIOUS
<1>8. \A i \in 1..(last - 1) : d(i) \in Nat
  BY <1>2, DistNat
<1>9. Dist(c, dest) \in Nat
  BY DistNat
<1>10. \A i \in 1..(last - 1) : i > 1 => d(i \div 2) <= d(i)
  BY <1>2, OrderedAt
<1>11. V \subseteq 1..last /\ last \in V /\ \A i \in V : i # last => d(i) > Dist(c, dest)
  <2>1. V \subseteq 1..last
    OBVIOUS
  <2> HIDE DEF V
  <2>2. QED
    BY <1>2, <1>5, <2>1
<1> HIDE DEF last, V, v, new, d
<1>12. \A i \in 2..last : /\ i \div 2 \in 1..(last - 1)
                          /\ i \in {2 * (i \div 2), 2 * (i \div 2) + 1}
  BY <1>2, Half
<1>13. ASSUME NEW i \in 1..last PROVE new[i] \in S
  <2>1. CASE i \notin V
    <3>1. i \in 1..(last - 1)
      BY <1>2, <1>11, <2>1
    <3>2. QED
      BY <1>2, <1>6, <2>1, <3>1
  <2>2. CASE i \in V /\ i > 1 /\ i \div 2 \in V
    <3>1. i \div 2 \in 1..(last - 1)
      BY <1>12, <2>2
    <3>2. QED
      BY <1>2, <1>6, <2>2, <3>1
  <2>3. CASE i \in V /\ ~(i > 1 /\ i \div 2 \in V)
    BY <1>6, <2>3
  <2>4. QED
    BY <2>1, <2>2, <2>3
<1>14. new \in Seq(S) /\ Len(new) = last
  <2>1. new \in [1..last -> S]
    BY <1>7, <1>13 DEF new
  <2>2. QED
    BY <1>2, <2>1
<1>15. \A i \in 1..last : i \in Nat /\ i >= 1 /\ i <= last
  BY <1>2
<1>16. ASSUME NEW i \in 2..last
       PROVE  Dist(new[i \div 2], dest) <= Dist(new[i], dest)
  <2> DEFINE p == i \div 2
  <2>1. /\ p \in 1..(last - 1) /\ p \in 1..last /\ i \in 1..last /\ i > 1
        /\ i \in {2 * p, 2 * p + 1} /\ p # last
    BY <1>2, <1>12
  <2> HIDE DEF p
  <2>2. CASE i \notin V
    <3>1. i \in 1..(last - 1) /\ new[i] = heap[i]
      BY <1>6, <1>11, <1>2, <2>1, <2>2
    <3>2. d(p) <= d(i) /\ d(p) \in Nat /\ d(i) \in Nat
      BY <1>8, <1>10, <2>1, <3>1 DEF p
    <3>3. Dist(new[p], dest) <= d(p)
      <4>1. CASE p \notin V
        BY <1>6, <2>1, <3>2, <4>1 DEF d
      <4>2. CASE p \in V /\ p > 1 /\ p \div 2 \in V
        <5>1. new[p] = heap[p \div 2] /\ d(p \div 2) <= d(p)
          BY <1>6, <1>10, <2>1, <4>2
        <5>2. QED
          BY <5>1 DEF d
      <4>3. CASE p \in V /\ ~(p > 1 /\ p \div 2 \in V)
        <5>1. new[p] = c /\ d(p) > Dist(c, dest)
          BY <1>6, <1>11, <2>1, <4>3
        <5>2. QED
          BY <1>9, <3>2, <5>1
      <4>4. QED
        BY <4>1, <4>2, <4>3
    <3>4. Dist(new[p], dest) \in Nat
      BY <1>13, <2>1, DistNat
    <3>5. Dist(new[p], dest) <= d(i)
      BY <3>2, <3>3, <3>4
    <3>6. QED
      BY <3>1, <3>5 DEF d, p
  <2>3. CASE i \in V /\ p \notin V
    <3>1. new[i] = c /\ new[p] = heap[p]
      BY <1>6, <2>1, <2>3 DEF p
    <3>2. ~(d(p) > Dist(c, dest))
      <4>1. i \in {2 * p, 2 * p + 1} \cap 1..last
        BY <2>1
      <4>2. QED
        BY <1>5, <2>1, <2>3, <4>1
    <3>3. d(p) <= Dist(c, dest)
      BY <1>8, <1>9, <2>1, <3>2
    <3>4. QED
      BY <3>1, <3>3 DEF d, p
  <2>4. CASE i \in V /\ p \in V
    <3>1. new[i] = heap[p] /\ d(p) > Dist(c, dest) /\ d(p) \in Nat
      BY <1>6, <1>8, <1>11, <2>1, <2>4 DEF p
    <3>2. CASE p > 1 /\ p \div 2 \in V
      <4>1. new[p] = heap[p \div 2] /\ d(p \div 2) <= d(p)
        BY <1>6, <1>10, <2>1, <2>4, <3>2
      <4>2. QED
        BY <3>1, <4>1 DEF d, p
    <3>3. CASE ~(p > 1 /\ p \div 2 \in V)
      <4>1. new[p] = c
        BY <1>6, <2>1, <2>4, <3>3
      <4>2. Dist(c, dest) <= d(p)
        BY <1>9, <3>1
      <4>3. QED
        BY <3>1, <4>1, <4>2 DEF d, p
    <3>4. QED
      BY <3>2, <3>3
  <2>5. QED
    BY <2>2, <2>3, <2>4
<1>17. Ordered(new, dest)
  BY <1>14, <1>16 DEF Ordered
<1>18. c \in Range(new)
  <2>1. V \in SUBSET Nat /\ V # {}
    BY <1>11
  <2>2. PICK i \in V : \A k \in V : i <= k
    BY <2>1, LeastExists
  <2>3. i \in 1..last /\ i \in Nat
    BY <1>11
  <2>4. ~(i > 1 /\ i \div 2 \in V)
    <3>1. i > 1 => i \div 2 \in Nat /\ i \div 2 < i
      BY <2>3, Half
    <3>2. QED
      BY <2>2, <2>3, <3>1
  <2>5. new[i] = c
    BY <1>6, <2>3, <2>4
  <2>6. QED
    BY <1>7, <2>3, <2>5 DEF Range
<1>19. ASSUME NEW k \in 1..(last - 1) PROVE heap[k] \in Range(new)
  <2>1. k \in 1..last /\ k # last /\ k \in Nat /\ k >= 1
    BY <1>2
  <2>2. CASE k \notin V
    BY <1>6, <1>7, <2>1, <2>2 DEF Range
  <2>3. CASE k \in V
    <3>1. PICK j \in {2 * k, 2 * k + 1} \cap 1..last : j \in V
      BY <1>5, <2>1, <2>3
    <3>2. j > 1 /\ j \div 2 = k
      BY <2>1, HalfOf
    <3>3. new[j] = heap[k]
      BY <1>6, <2>3, <3>1, <3>2
    <3>4. QED
      BY <1>7, <3>1, <3>3 DEF Range
  <2>4. QED
    BY <2>2, <2>3
<1>20. Range(heap) \subseteq Range(new)
  <2>1. DOMAIN heap = 1..(last - 1)
    BY DEF last
  <2>2. QED
    BY <1>19, <2>1 DEF Range
<1>21. QED
  BY <1>1, <1>14, <1>17, <1>18, <1>20 DEF last


\* What is popped was there, all but the first is left, in order.
LEMMA HeapPopSound ==
  ASSUME NEW S \in SUBSET Points, NEW heap \in Seq(S), heap # <<>>, NEW dest \in Points,
         Ordered(heap, dest)
  PROVE  LET popped == HeapPop(heap, dest)
         IN  /\ popped \in Seq(S) /\ Len(popped) = Len(heap) - 1
             /\ Ordered(popped, dest)
             /\ Range(heap) \subseteq Range(popped) \cup {Head(heap)}
<1> DEFINE size == Len(heap) - 1
           last == heap[size + 1]
           d(i) == Dist(heap[i], dest)
           l == Dist(last, dest)
           chosen(i) == IF i % 2 = 0 THEN i = size \/ d(i + 1) > d(i)
                                     ELSE d(i) <= d(i - 1)
           Holes(v) == v = [i \in 1..size |-> i = 1 \/ (v[i \div 2] /\ chosen(i))]
           hole == CHOOSE v : Holes(v)
           moves(i) == hole[i] /\ (i = 1 \/ d(i) <= l)
           up(i) == {j \in {2 * i, 2 * i + 1} \cap 1..size : moves(j)}
           new == [i \in 1..size |->
                     IF ~hole[i] THEN heap[i]
                     ELSE IF up(i) # {} THEN heap[CHOOSE j \in up(i) : TRUE]
                     ELSE IF moves(i) THEN last ELSE heap[i]]
           H == {i \in 1..size : hole[i]}
           M == {i \in H : i = 1 \/ d(i) <= l}
           C == {i \in 1..size : chosen(i)}
<1>1. HeapPop(heap, dest) = new
  BY SMTT(40) DEF HeapPop
<1>2. /\ size \in Nat /\ Len(heap) = size + 1 /\ last \in S
      /\ \A i \in 1..(size + 1) : heap[i] \in S
  OBVIOUS
<1>3. l \in Nat /\ \A i \in 1..size : d(i) \in Nat
  <2>1. \A i \in 1..size : heap[i] \in Points
    BY <1>2
  <2>2. \A i \in 1..size : d(i) \in Nat
    BY <2>1, DistNat
  <2>3. l \in Nat
    <3>1. last \in Points
      BY <1>2
    <3> HIDE DEF last
    <3>2. QED
      BY <3>1, DistNat
  <2>4. QED
    BY <2>2, <2>3
<1>4. \A i \in 1..size : i > 1 => d(i \div 2) <= d(i)
  BY <1>2, OrderedAt
<1>5. \A i \in 2..size : /\ i \div 2 \in 1..size
                         /\ i = 2 * (i \div 2) \/ i = 2 * (i \div 2) + 1
  BY <1>2, Half
<1>6. \A i \in 1..size : i \in H <=> i = 1 \/ (i \div 2 \in H /\ i \in C)
  <2>1. PICK v : IsHole(v, size, C)
    <3> HIDE DEF C, size
    <3>1. QED
      BY <1>2, HoleExists
  <2>2. Holes(v)
    BY <2>1 DEF IsHole
  <2>3. Holes(hole)
    BY <2>2
  <2> HIDE DEF hole
  <2>4. \A i \in 1..size : hole[i] <=> i = 1 \/ (hole[i \div 2] /\ i \in C)
    BY <2>3
  <2>5. \A i \in 1..size : i # 1 => i \in 2..size
    BY <1>2
  <2>6. \A i \in 1..size : i \in H <=> hole[i]
    OBVIOUS
  <2> HIDE DEF H, C, chosen
  <2>7. ASSUME NEW i \in 1..size PROVE i \in H <=> i = 1 \/ (i \div 2 \in H /\ i \in C)
    <3>1. CASE i = 1
      BY <2>4, <2>6, <3>1
    <3>2. CASE i # 1
      <4>1. i \div 2 \in 1..size
        BY <1>5, <2>5, <3>2
      <4>2. QED
        BY <2>4, <2>6, <3>2, <4>1
    <3>3. QED
      BY <3>1, <3>2
  <2>8. QED
    BY <2>7
<1>7. \A i \in 1..size :
        /\ up(i) = {2 * i, 2 * i + 1} \cap M
        /\ i \notin H => new[i] = heap[i]
        /\ i \in H /\ {2 * i, 2 * i + 1} \cap M = {} /\ i \in M => new[i] = last
        /\ i \in H /\ {2 * i, 2 * i + 1} \cap M = {} /\ i \notin M => new[i] = heap[i]
        /\ i \in H /\ {2 * i, 2 * i + 1} \cap M # {} =>
             \E j \in {2 * i, 2 * i + 1} \cap M : new[i] = heap[j]
  <2> HIDE DEF hole
  <2>1. \A i \in 1..size : up(i) = {2 * i, 2 * i + 1} \cap M
    OBVIOUS
  <2>2. \A i \in 1..size : (i \in H <=> hole[i]) /\ (i \in M <=> moves(i))
    OBVIOUS
  <2>3. \A i \in 1..size :
          new[i] = IF ~hole[i] THEN heap[i]
                   ELSE IF up(i) # {} THEN heap[CHOOSE j \in up(i) : TRUE]
                   ELSE IF moves(i) THEN last ELSE heap[i]
    OBVIOUS
  <2> HIDE DEF H, M, up, moves, new, last
  <2>4. ASSUME NEW i \in 1..size, i \in H, up(i) # {} PROVE \E j \in up(i) : new[i] = heap[j]
    BY <2>2, <2>3, <2>4
  <2>5. QED
    BY <2>1, <2>2, <2>3, <2>4
<1>8. DOMAIN new = 1..size
  OBVIOUS
<1>9. \A i \in 1..size :
        i \in C <=> IF i % 2 = 0 THEN i = size \/ d(i + 1) > d(i) ELSE d(i) <= d(i - 1)
  OBVIOUS
<1>10. /\ M \subseteq H /\ H \subseteq 1..size
       /\ \A i \in H : i \in M <=> i = 1 \/ d(i) <= l
  OBVIOUS
<1> HIDE DEF hole, new, H, M, C, chosen, up, moves
<1>11. \A i \in 1..size : i \in Nat /\ i >= 1 /\ i <= size
  BY <1>2
\* Of two siblings one is chosen.
<1>12. ASSUME NEW p \in 1..size, 2 * p + 1 \in 1..size
       PROVE  /\ ~(2 * p \in C /\ 2 * p + 1 \in C) /\ (2 * p \in C \/ 2 * p + 1 \in C)
              /\ 2 * p \in C => d(2 * p) <= d(2 * p + 1)
              /\ 2 * p + 1 \in C => d(2 * p + 1) <= d(2 * p)
  <2>1. /\ 2 * p \in 1..size /\ 2 * p # size /\ (2 * p) % 2 = 0
        /\ (2 * p + 1) % 2 # 0 /\ (2 * p + 1) - 1 = 2 * p
    BY <1>11, <1>12
  <2>2. d(2 * p) \in Nat /\ d(2 * p + 1) \in Nat
    BY <1>3, <1>12, <2>1
  <2>3. 2 * p \in C <=> d(2 * p + 1) > d(2 * p)
    BY <1>9, <2>1
  <2>4. 2 * p + 1 \in C <=> d(2 * p + 1) <= d(2 * p)
    BY <1>9, <1>12, <2>1
  <2> HIDE DEF d
  <2>5. QED
    BY <2>2, <2>3, <2>4
<1>13. ASSUME NEW i \in 2..size, NEW j \in 2..size, i # j, i \div 2 = j \div 2, j \in C
       PROVE  i \notin C /\ d(j) <= d(i)
  <2> DEFINE p == i \div 2
  <2>1. /\ p \in 1..size /\ i \in {2 * p, 2 * p + 1} /\ j \in {2 * p, 2 * p + 1}
        /\ i \in 1..size /\ j \in 1..size
    BY <1>2, <1>5, <1>13
  <2> HIDE DEF p, d
  <2>2. CASE i = 2 * p /\ j = 2 * p + 1
    BY <1>12, <1>13, <2>1, <2>2
  <2>3. CASE j = 2 * p /\ i = 2 * p + 1
    BY <1>12, <1>13, <2>1, <2>3
  <2>4. QED
    BY <1>13, <2>1, <2>2, <2>3
<1>14. \A i \in 2..size : i \in H <=> (i \div 2 \in H /\ i \in C)
  BY <1>2, <1>6
\* The hole takes one way.
<1>15. \A i \in 2..size, j \in 2..size : i \in H /\ j \in H /\ i \div 2 = j \div 2 => i = j
  BY <1>13, <1>14
<1>16. \A i \in 2..size : i \in M => i \div 2 \in M
  <2>1. ASSUME NEW i \in 2..size, i \in M PROVE i \div 2 \in M
    <3>1. i \in 1..size /\ i > 1 /\ i # 1 /\ i \div 2 \in 1..size
      BY <1>2, <1>5
    <3>2. i \div 2 \in H /\ d(i) <= l /\ d(i \div 2) <= d(i)
      BY <1>4, <1>10, <1>14, <2>1, <3>1
    <3>3. d(i \div 2) \in Nat /\ d(i) \in Nat
      BY <1>3, <3>1
    <3> HIDE DEF d, l
    <3>4. d(i \div 2) <= l
      BY <1>3, <3>2, <3>3
    <3>5. QED
      BY <1>10, <3>2, <3>4
  <2>2. QED
    BY <2>1
<1>17. \A i \in 1..size : \A j \in {2 * i, 2 * i + 1} \cap M : j \in 2..size /\ j \div 2 = i
  <2>1. ASSUME NEW i \in 1..size, NEW j \in {2 * i, 2 * i + 1} \cap M
        PROVE  j \in 2..size /\ j \div 2 = i
    <3>1. i \in Nat /\ i >= 1 /\ j \in 1..size
      BY <1>10, <1>11
    <3>2. j \in Nat /\ j >= 2 /\ j \div 2 = i
      BY <3>1, HalfOf
    <3>3. QED
      BY <1>11, <3>1, <3>2
  <2>2. QED
    BY <2>1
\* Where what is at i goes: nowhere, or to its parent.
<1>18. ASSUME NEW i \in 1..size, i \notin M PROVE new[i] = heap[i]
  <2>1. {2 * i, 2 * i + 1} \cap M = {}
    <3>1. ASSUME NEW j \in {2 * i, 2 * i + 1} \cap M PROVE FALSE
      <4>1. j \in 2..size /\ j \div 2 = i /\ j \in M
        BY <1>17
      <4>2. i \in M
        BY <1>16, <4>1
      <4>3. QED
        BY <1>18, <4>2
    <3>2. QED
      BY <3>1
  <2>2. QED
    BY <1>7, <1>18, <2>1
<1>19. ASSUME NEW j \in M, j # 1 PROVE j \div 2 \in M /\ new[j \div 2] = heap[j]
  <2> DEFINE p == j \div 2
  <2>1. j \in 2..size /\ p \in 1..size /\ j \in {2 * p, 2 * p + 1}
    <3>1. j \in 1..size /\ j \in 2..size
      BY <1>2, <1>10, <1>11, <1>19
    <3>2. QED
      BY <1>5, <3>1
  <2>2. p \in M /\ p \in H
    BY <1>10, <1>16, <2>1
  <2>3. {2 * p, 2 * p + 1} \cap M # {}
    BY <2>1
  <2> HIDE DEF p
  <2>4. PICK k \in {2 * p, 2 * p + 1} \cap M : new[p] = heap[k]
    BY <1>7, <2>1, <2>2, <2>3
  <2>5. k = j
    <3>1. k \in 2..size /\ k \div 2 = p /\ k \in H
      BY <1>10, <1>17, <2>1, <2>4
    <3>2. j \in H /\ j \div 2 = p
      BY <1>10 DEF p
    <3>3. QED
      BY <1>15, <2>1, <3>1, <3>2
  <2>6. QED
    BY <2>2, <2>4, <2>5 DEF p
<1>20. ASSUME NEW i \in M
       PROVE  \/ new[i] = last
              \/ \E j \in M : j \in 2..size /\ j \div 2 = i /\ new[i] = heap[j]
  <2>1. i \in 1..size /\ i \in H
    BY <1>10
  <2>2. CASE {2 * i, 2 * i + 1} \cap M = {}
    BY <1>7, <2>1, <2>2
  <2>3. CASE {2 * i, 2 * i + 1} \cap M # {}
    <3>1. PICK j \in {2 * i, 2 * i + 1} \cap M : new[i] = heap[j]
      BY <1>7, <2>1, <2>3
    <3>2. QED
      BY <1>17, <2>1, <3>1
  <2>4. QED
    BY <2>2, <2>3
<1>21. ASSUME NEW i \in 1..size PROVE new[i] \in S
  <2>1. CASE i \notin M
    BY <1>2, <1>11, <1>18, <2>1
  <2>2. CASE i \in M
    <3>1. \A j \in M : heap[j] \in S
      BY <1>2, <1>10, <1>11
    <3>2. QED
      BY <1>2, <1>20, <2>2, <3>1
  <2>3. QED
    BY <2>1, <2>2
<1> HIDE DEF size, last
<1>22. new \in Seq(S) /\ Len(new) = size
  <2>1. new \in [1..size -> S]
    BY <1>8, <1>21 DEF new
  <2>2. QED
    BY <1>2, <2>1
\* Nothing but the first is lost.
<1>23. ASSUME NEW k \in 2..(size + 1) PROVE heap[k] \in Range(new)
  <2>1. CASE k # size + 1
    <3>1. k \in 1..size /\ k \in 2..size
      BY <1>2, <1>23, <2>1
    <3>2. CASE k \in M
      <4>1. k # 1
        BY <1>23
      <4>2. k \div 2 \in 1..size /\ new[k \div 2] = heap[k]
        BY <1>10, <1>19, <3>2, <4>1
      <4>3. QED
        BY <1>8, <4>2 DEF Range
    <3>3. CASE k \notin M
      BY <1>8, <1>18, <3>1, <3>3 DEF Range
    <3>4. QED
      BY <3>2, <3>3
  <2>2. CASE k = size + 1
    <3>1. 1 \in 1..size
      BY <1>2, <2>2
    <3>2. 1 \in M
      BY <1>6, <1>10, <3>1
    <3> DEFINE T == {size - i : i \in M}
    <3>3. T \in SUBSET Nat /\ T # {}
      BY <1>2, <1>10, <1>11, <3>2
    <3> HIDE DEF T
    <3>4. PICK t \in T : \A u \in T : t <= u
      BY <3>3, LeastExists
    <3>5. PICK i \in M : t = size - i
      BY DEF T
    <3>6. \A j \in M : j <= i
      <4>1. ASSUME NEW j \in M PROVE j <= i
        <5>1. t <= size - j
          BY <3>4 DEF T
        <5>2. QED
          BY <1>2, <1>10, <1>11, <3>5, <5>1
      <4>2. QED
        BY <4>1
    <3>7. i \in 1..size /\ ~\E j \in M : j \in 2..size /\ j \div 2 = i
      <4>1. ASSUME NEW j \in M, j \in 2..size, j \div 2 = i PROVE FALSE
        <5>1. j \in Nat /\ j >= 2
          BY <1>2, <4>1
        <5>2. i < j /\ j <= i /\ i \in Nat
          BY <3>6, <4>1, <5>1, Half
        <5>3. QED
          BY <5>1, <5>2
      <4>2. QED
        BY <1>10, <4>1
    <3>8. new[i] = last
      BY <1>20, <3>7
    <3>9. QED
      BY <1>8, <2>2, <3>7, <3>8 DEF Range, last
  <2>3. QED
    BY <2>1, <2>2
<1>24. Range(heap) \subseteq Range(new) \cup {Head(heap)}
  <2>1. DOMAIN heap = 1..(size + 1) /\ Head(heap) = heap[1]
    BY DEF size
  <2>2. \A k \in 1..(size + 1) : k = 1 \/ k \in 2..(size + 1)
    BY <1>2
  <2>3. QED
    BY <1>23, <2>1, <2>2 DEF Range
\* A place and its parent are in order, whether what is at each has moved or not.
<1>25. ASSUME NEW i \in 2..size PROVE Dist(new[i \div 2], dest) <= Dist(new[i], dest)
  <2> DEFINE p == i \div 2
  <2>1. /\ p \in 1..size /\ i \in 1..size /\ i > 1 /\ i # 1
        /\ i \in {2 * p, 2 * p + 1}
    BY <1>2, <1>5
  <2>2. d(p) <= d(i) /\ d(p) \in Nat /\ d(i) \in Nat
    BY <1>3, <1>4, <2>1
  <2> HIDE DEF p
  <2>3. CASE p \notin M
    <3>1. i \notin M
      BY <1>16, <2>3 DEF p
    <3>2. new[p] = heap[p] /\ new[i] = heap[i]
      BY <1>18, <2>1, <2>3, <3>1
    <3>3. QED
      BY <2>2, <3>2 DEF p
  <2>4. CASE p \in M /\ i \in M
    <3>1. new[p] = heap[i]
      BY <1>19, <2>1, <2>4 DEF p
    <3>2. CASE new[i] = last
      BY <1>10, <2>1, <2>4, <3>1, <3>2 DEF p
    <3>3. CASE \E j \in M : j \in 2..size /\ j \div 2 = i /\ new[i] = heap[j]
      <4>1. PICK j \in M : j \in 2..size /\ j \div 2 = i /\ new[i] = heap[j]
        BY <3>3
      <4>2. j \in 1..size /\ j > 1
        BY <1>2, <4>1
      <4>3. d(i) <= d(j)
        BY <1>4, <4>1, <4>2
      <4>4. QED
        BY <3>1, <4>1, <4>3 DEF p
    <3>4. QED
      BY <1>20, <2>4, <3>2, <3>3
  <2>5. CASE p \in M /\ i \notin M
    <3>1. new[i] = heap[i]
      BY <1>18, <2>1, <2>5
    <3>2. p \in H
      BY <1>10, <2>5
    <3>3. CASE \E j \in M : j \in 2..size /\ j \div 2 = p /\ new[p] = heap[j]
      <4>1. PICK j \in M : j \in 2..size /\ j \div 2 = p /\ new[p] = heap[j]
        BY <3>3
      <4>2. j \in C /\ j # i
        BY <1>10, <1>14, <2>5, <4>1
      <4>3. d(j) <= d(i)
        BY <1>13, <4>1, <4>2 DEF p
      <4>4. QED
        BY <3>1, <4>1, <4>3 DEF p
    <3>4. CASE new[p] = last /\ ~\E j \in M : j \in 2..size /\ j \div 2 = p
      <4>1. CASE i \in H
        <5>1. ~(d(i) <= l)
          BY <1>10, <2>1, <2>5, <4>1
        <5>2. l <= d(i)
          BY <1>3, <2>2, <5>1
        <5>3. QED
          BY <3>1, <3>4, <5>2 DEF p
      <4>2. CASE i \notin H
        <5>1. i \notin C
          BY <1>14, <3>2, <4>2 DEF p
        <5>2. PICK s \in 2..size : s \in C /\ s \div 2 = p /\ d(s) <= d(i)
          <6>1. CASE i = 2 * p + 1
            <7>1. 2 * p \in C /\ d(2 * p) <= d(i)
              BY <1>12, <2>1, <5>1, <6>1
            <7>2. p \in Nat /\ p >= 1
              BY <1>11, <2>1
            <7>3. 2 * p \in 2..size /\ (2 * p) \div 2 = p
              BY <1>2, <2>1, <6>1, <7>2
            <7>4. QED
              BY <7>1, <7>3
          <6>2. CASE i = 2 * p
            <7>1. p \in Nat /\ p >= 1
              BY <1>11, <2>1
            <7>2. i # size
              BY <1>9, <2>1, <5>1, <6>2, <7>1
            <7>3. 2 * p + 1 \in 1..size /\ 2 * p + 1 \in 2..size
              BY <1>2, <2>1, <6>2, <7>1, <7>2
            <7>4. 2 * p + 1 \in C /\ d(2 * p + 1) <= d(i)
              BY <1>12, <2>1, <5>1, <6>2, <7>3
            <7>5. (2 * p + 1) \div 2 = p
              BY <7>1, HalfOf
            <7>6. QED
              BY <7>3, <7>4, <7>5
          <6>3. QED
            BY <2>1, <6>1, <6>2
        <5>3. s \in H /\ s \notin M
          BY <1>14, <3>2, <3>4, <5>2
        <5>4. s \in 1..size /\ s # 1
          BY <1>2
        <5>5. ~(d(s) <= l) /\ d(s) \in Nat
          BY <1>3, <1>10, <5>3, <5>4
        <5>6. l <= d(i)
          BY <1>3, <2>2, <5>2, <5>5
        <5>7. QED
          BY <3>1, <3>4, <5>6 DEF p
      <4>3. QED
        BY <4>1, <4>2
    <3>5. QED
      <4>1. CASE \E j \in M : j \in 2..size /\ j \div 2 = p
        <5>1. PICK j \in M : j \in 2..size /\ j \div 2 = p
          BY <4>1
        <5>2. j # 1
          BY <1>2, <5>1
        <5>3. new[p] = heap[j]
          BY <1>19, <5>1, <5>2
        <5>4. QED
          BY <3>3, <5>1, <5>3
      <4>2. CASE ~\E j \in M : j \in 2..size /\ j \div 2 = p
        BY <1>20, <2>5, <3>4, <4>2
      <4>3. QED
        BY <4>1, <4>2
  <2>6. QED
    BY <2>3, <2>4, <2>5
<1>26. Ordered(new, dest)
  BY <1>22, <1>25 DEF Ordered
<1>27. QED
  BY <1>1, <1>22, <1>24, <1>26 DEF size

-----------------------------------------------------------------------------
(* The paths *)

\* p is the function path of FindPath, for what the search has entered.
IsPaths(p, parent) ==
  p = [c \in DOMAIN parent |->
         IF parent[c] = c THEN <<c>> ELSE Append(p[parent[c]], c)]

\* s goes from src to c over the cells in D, from neighbour to free neighbour,
\* nowhere twice.
Way(s, D, free, src, c) ==
  /\ s \in Seq(D) /\ s # <<>>
  /\ s[1] = src /\ s[Len(s)] = c
  /\ \A i \in 1..(Len(s) - 1) : s[i + 1] \in free \cap Neighbours(s[i])
  /\ \A i, j \in 1..Len(s) : s[i] = s[j] => i = j

\* What parent is good for.
Leads(parent, free, src) ==
  /\ src \in DOMAIN parent /\ DOMAIN parent \subseteq free \cup {src}
  /\ \A c \in DOMAIN parent : parent[c] \in DOMAIN parent
  /\ \E p : IsPaths(p, parent)
  /\ \A p : IsPaths(p, parent) =>
       \A c \in DOMAIN parent : Way(p[c], DOMAIN parent, free, src, c)

LEMMA LongerWay ==
  ASSUME NEW free, NEW src, NEW D, NEW node, NEW s, Way(s, D, free, src, node),
         NEW c \in free \cap Neighbours(node), c \notin D
  PROVE  Way(Append(s, c), D \cup {c}, free, src, c)
<1> DEFINE t == Append(s, c)
           n == Len(s)
<1>1. /\ s \in Seq(D \cup {c}) /\ n \in Nat /\ n >= 1
      /\ \A i \in 1..n : s[i] \in D
  BY DEF Way
<1>2. /\ t \in Seq(D \cup {c}) /\ Len(t) = n + 1 /\ t[n + 1] = c
      /\ \A i \in 1..n : t[i] = s[i]
  BY <1>1, AppendProperties
<1> HIDE DEF t, n
<1>3. t # <<>> /\ t[1] = src
  BY <1>1, <1>2 DEF Way
<1>4. ASSUME NEW i \in 1..n PROVE t[i + 1] \in free \cap Neighbours(t[i])
  <2>1. CASE i = n
    <3>1. s[n] = node
      BY DEF Way, n
    <3>2. QED
      BY <1>2, <2>1, <3>1
  <2>2. CASE i # n
    <3>1. i \in 1..(n - 1) /\ i + 1 \in 1..n
      BY <1>1, <2>2
    <3>2. s[i + 1] \in free \cap Neighbours(s[i])
      BY <3>1 DEF Way, n
    <3>3. QED
      BY <1>2, <3>1, <3>2
  <2>3. QED
    BY <2>1, <2>2
<1>5. ASSUME NEW i \in 1..(n + 1), NEW j \in 1..(n + 1), t[i] = t[j] PROVE i = j
  <2>1. \A k \in 1..(n + 1) : k = n + 1 \/ k \in 1..n
    BY <1>1
  <2>2. \A k \in 1..n : t[k] \in D
    BY <1>1, <1>2
  <2>3. CASE i \in 1..n /\ j \in 1..n
    <3>1. s[i] = s[j]
      BY <1>2, <1>5, <2>3
    <3>2. QED
      BY <2>3, <3>1 DEF Way, n
  <2>4. QED
    BY <1>2, <1>5, <2>1, <2>2, <2>3
<1>6. (n + 1) - 1 = n
  BY <1>1
<1>7. QED
  BY <1>2, <1>3, <1>4, <1>5, <1>6 DEF Way, t

\* One cell more is entered from a neighbour that is.
LEMMA LeadsOn ==
  ASSUME NEW free, NEW src, NEW parent, Leads(parent, free, src),
         NEW node \in DOMAIN parent,
         NEW c \in free \cap Neighbours(node), c \notin DOMAIN parent
  PROVE  Leads(With(parent, c, node), free, src)
<1> DEFINE more == With(parent, c, node)
           D == DOMAIN parent
<1>1. /\ DOMAIN more = D \cup {c} /\ more[c] = node /\ node # c
      /\ \A x \in D : more[x] = parent[x] /\ parent[x] \in D /\ x # c
  BY DEF With, Leads
<1> HIDE DEF more
<1>2. \E q : IsPaths(q, more)
  <2>1. PICK p : IsPaths(p, parent)
    BY DEF Leads
  <2> DEFINE q == [x \in D \cup {c} |-> IF x = c THEN Append(p[node], c) ELSE p[x]]
  <2>2. p = [x \in D |-> IF parent[x] = x THEN <<x>> ELSE Append(p[parent[x]], x)]
    BY <2>1 DEF IsPaths
  <2>3. \A x \in D : q[x] = p[x]
    BY <1>1
  <2>4. \A x \in D : p[x] = IF parent[x] = x THEN <<x>> ELSE Append(p[parent[x]], x)
    BY <2>2
  <2>5. q[c] = Append(q[node], c)
    BY <1>1, <2>3
  <2>6. DOMAIN q = D \cup {c} /\ q = [x \in D \cup {c} |-> q[x]]
    OBVIOUS
  <2> HIDE DEF q
  <2>7. \A x \in D \cup {c} :
          q[x] = IF more[x] = x THEN <<x>> ELSE Append(q[more[x]], x)
    BY ZenonT(60), <1>1, <2>3, <2>4, <2>5
  <2>8. IsPaths(q, more)
    BY <1>1, <2>6, <2>7 DEF IsPaths
  <2>9. QED
    BY <2>8
<1>3. ASSUME NEW q, IsPaths(q, more)
      PROVE  \A x \in D \cup {c} : Way(q[x], D \cup {c}, free, src, x)
  <2> DEFINE p == [x \in D |-> q[x]]
  <2>1. \A x \in D \cup {c} :
          q[x] = IF more[x] = x THEN <<x>> ELSE Append(q[more[x]], x)
    BY <1>1, <1>3 DEF IsPaths
  <2>2. \A x \in D : p[x] = q[x]
    OBVIOUS
  <2>3. DOMAIN p = D /\ p = [x \in D |-> p[x]]
    OBVIOUS
  <2> HIDE DEF p
  <2>4. \A x \in D : p[x] = IF parent[x] = x THEN <<x>> ELSE Append(p[parent[x]], x)
    BY ZenonT(60), <1>1, <2>1, <2>2
  <2>5. IsPaths(p, parent)
    BY <2>3, <2>4 DEF IsPaths
  <2>6. \A x \in D : Way(q[x], D, free, src, x)
    BY <2>2, <2>5 DEF Leads
  <2>7. q[c] = Append(q[node], c)
    BY <1>1, <2>1
  <2>8. Way(q[c], D \cup {c}, free, src, c)
    BY <2>6, <2>7, LongerWay
  <2>9. ASSUME NEW x \in D PROVE Way(q[x], D \cup {c}, free, src, x)
    <3>1. Way(q[x], D, free, src, x)
      BY <2>6
    <3>2. q[x] \in Seq(D \cup {c})
      BY <3>1 DEF Way
    <3>3. QED
      BY <3>1, <3>2 DEF Way
  <2>10. QED
    BY <2>8, <2>9
<1>4. \A x \in DOMAIN more : more[x] \in DOMAIN more
  BY <1>1
<1>5. QED
  BY <1>1, <1>2, <1>3, <1>4 DEF Leads, more

-----------------------------------------------------------------------------
(* The search *)

\* Only what has been entered waits in the heap, the nearest first, and paths lead
\* to it.
SoundSearch(s, free, src, dest) ==
  /\ s.heap \in Seq(DOMAIN s.parent) /\ Ordered(s.heap, dest)
  /\ Leads(s.parent, free, src)

\* From what has left the heap, but for the cell at, all has been entered that is
\* next to it.
Expanded(s, within, at) ==
  \A c \in DOMAIN s.parent :
    c \in Range(s.heap) \/ c \in at \/ Neighbours(c) \cap within \subseteq DOMAIN s.parent

\* n cells have left the heap.
Taken(s, n) == Len(s.heap) + n = Cardinality(DOMAIN s.parent)

\* The cells one may enter.
Within(free, src, maxDepth) == {c \in free : Dist(src, c) < maxDepth}

\* Enter of Turn.
Entering(s, node, i, free, src, dest, maxDepth) ==
  LET c == Plus(node, DirectionOrder[i])
  IN  IF /\ c \in free
         /\ Dist(src, c) < maxDepth
         /\ c \notin DOMAIN s.parent
      THEN [heap |-> HeapPush(s.heap, c, dest), parent |-> With(s.parent, c, node)]
      ELSE s

\* f is the function after of Searched, up to the n-th turn.
IsSearch(f, n, free, src, dest, maxDepth) ==
  f = [k \in 0..n |->
         IF k = 0 THEN Opening(src)
         ELSE IF Over(f[k - 1], dest) THEN f[k - 1]
         ELSE Turn(f[k - 1], free, src, dest, maxDepth)]

LEMMA NeighboursAre ==
  ASSUME NEW c
  PROVE  Neighbours(c) = {Plus(c, DirectionOrder[i]) : i \in 1..4}
<1>1. DOMAIN DirectionOrder = 1..4
  BY DEF DirectionOrder
<1> HIDE DEF DirectionOrder
<1>2. QED
  BY <1>1 DEF Neighbours, Directions, Range

LEMMA NeighboursBoth ==
  ASSUME NEW a \in Points, NEW b \in Points, a \in Neighbours(b)
  PROVE  b \in Neighbours(a)
<1>1. PICK i \in 1..4 : a = Plus(b, DirectionOrder[i])
  BY NeighboursAre
<1>2. b = <<b[1], b[2]>> /\ b[1] \in Nat /\ b[2] \in Nat
  BY DEF Points
<1>3. \/ a = <<b[1], b[2] - 1>> \/ a = <<b[1], b[2] + 1>>
      \/ a = <<b[1] - 1, b[2]>> \/ a = <<b[1] + 1, b[2]>>
  BY <1>1, <1>2 DEF Plus, DirectionOrder
<1>4. /\ Plus(a, DirectionOrder[1]) = <<a[1], a[2] - 1>>
      /\ Plus(a, DirectionOrder[2]) = <<a[1], a[2] + 1>>
      /\ Plus(a, DirectionOrder[3]) = <<a[1] - 1, a[2]>>
      /\ Plus(a, DirectionOrder[4]) = <<a[1] + 1, a[2]>>
  <2>1. a[1] \in Nat /\ a[2] \in Nat
    BY DEF Points
  <2>2. QED
    BY <2>1 DEF Plus, DirectionOrder
<1>5. \E j \in 1..4 : b = Plus(a, DirectionOrder[j])
  <2>1. CASE a = <<b[1], b[2] - 1>>
    <3>1. b = Plus(a, DirectionOrder[2])
      BY <1>2, <1>4, <2>1
    <3>2. QED
      BY <3>1
  <2>2. CASE a = <<b[1], b[2] + 1>>
    <3>1. b = Plus(a, DirectionOrder[1])
      BY <1>2, <1>4, <2>2
    <3>2. QED
      BY <3>1
  <2>3. CASE a = <<b[1] - 1, b[2]>>
    <3>1. b = Plus(a, DirectionOrder[4])
      BY <1>2, <1>4, <2>3
    <3>2. QED
      BY <3>1
  <2>4. CASE a = <<b[1] + 1, b[2]>>
    <3>1. b = Plus(a, DirectionOrder[3])
      BY <1>2, <1>4, <2>4
    <3>2. QED
      BY <3>1
  <2>5. QED
    BY <1>3, <2>1, <2>2, <2>3, <2>4
<1>6. QED
  BY <1>5, NeighboursAre

LEMMA OpeningSound ==
  ASSUME NEW free, NEW src, NEW dest, NEW within
  PROVE  /\ SoundSearch(Opening(src), free, src, dest)
         /\ Expanded(Opening(src), within, {}) /\ Taken(Opening(src), 0)
<1> DEFINE parent == [c \in {src} |-> src]
           p == [c \in {src} |-> <<c>>]
<1>1. Opening(src).heap = <<src>> /\ Opening(src).parent = parent
  BY DEF Opening
<1>2. DOMAIN parent = {src} /\ parent[src] = src
  OBVIOUS
<1> HIDE DEF parent
<1>3. IsPaths(p, parent)
  BY <1>2 DEF IsPaths
<1>4. ASSUME NEW q, IsPaths(q, parent) PROVE Way(q[src], {src}, free, src, src)
  <2>1. q[src] = <<src>>
    BY <1>2, <1>4 DEF IsPaths
  <2>2. QED
    BY <2>1 DEF Way
<1>5. Leads(parent, free, src)
  BY <1>2, <1>3, <1>4 DEF Leads
<1>6. <<src>> \in Seq({src}) /\ Ordered(<<src>>, dest) /\ src \in Range(<<src>>)
  BY DEF Ordered, Range
<1>7. Len(<<src>>) + 0 = Cardinality({src})
  BY FS_Singleton
<1>8. QED
  BY <1>1, <1>2, <1>5, <1>6, <1>7 DEF SoundSearch, Expanded, Taken

LEMMA EnteringSound ==
  ASSUME NEW free \in SUBSET Points, IsFiniteSet(free), NEW src \in Points,
         NEW dest \in Points, NEW maxDepth, NEW i \in 1..4, NEW n \in Nat,
         NEW s, SoundSearch(s, free, src, dest), Taken(s, n),
         NEW node \in DOMAIN s.parent,
         Expanded(s, Within(free, src, maxDepth), {node})
  PROVE  LET t == Entering(s, node, i, free, src, dest, maxDepth)
             c == Plus(node, DirectionOrder[i])
         IN  /\ SoundSearch(t, free, src, dest) /\ Taken(t, n)
             /\ Expanded(t, Within(free, src, maxDepth), {node})
             /\ DOMAIN s.parent \subseteq DOMAIN t.parent
             /\ c \in Within(free, src, maxDepth) => c \in DOMAIN t.parent
<1> DEFINE c == Plus(node, DirectionOrder[i])
           t == Entering(s, node, i, free, src, dest, maxDepth)
           D == DOMAIN s.parent
           parent == With(s.parent, c, node)
           heap == HeapPush(s.heap, c, dest)
           within == Within(free, src, maxDepth)
<1>1. CASE ~(c \in within /\ c \notin D)
  <2>1. t = s
    BY <1>1 DEF Entering, Within
  <2> HIDE DEF t, c, within
  <2>2. QED
    BY <1>1, <2>1 DEF t, c, within
<1>2. CASE c \in within /\ c \notin D
  <2>1. t = [heap |-> heap, parent |-> parent]
    BY <1>2 DEF Entering, Within
  <2>2. t.heap = heap /\ t.parent = parent
    BY <2>1
  <2>3. DOMAIN parent = D \cup {c}
    BY DEF With
  <2>4. c \in free /\ c \in Neighbours(node)
    BY <1>2, NeighboursAre DEF Within
  <2> HIDE DEF c, t, parent, within
  <2>5. /\ D \subseteq free \cup {src} /\ s.heap \in Seq(D) /\ Ordered(s.heap, dest)
        /\ Leads(s.parent, free, src)
    BY DEF SoundSearch, Leads
  <2>6. DOMAIN parent \in SUBSET Points /\ c \in DOMAIN parent
    BY <2>3, <2>4, <2>5
  <2>7. s.heap \in Seq(DOMAIN parent)
    BY <2>3, <2>5
  <2>8. /\ heap \in Seq(DOMAIN parent) /\ Len(heap) = Len(s.heap) + 1
        /\ Ordered(heap, dest) /\ Range(s.heap) \cup {c} \subseteq Range(heap)
    BY <2>5, <2>6, <2>7, HeapPushSound
  <2> HIDE DEF heap
  <2>9. Leads(parent, free, src)
    BY <1>2, <2>4, <2>5, LeadsOn DEF parent
  <2>10. SoundSearch(t, free, src, dest)
    BY <2>2, <2>8, <2>9 DEF SoundSearch
  <2>11. Taken(t, n)
    <3>1. IsFiniteSet(D)
      <4>1. IsFiniteSet(free \cup {src})
        BY FS_AddElement
      <4>2. QED
        BY <2>5, <4>1, FS_Subset
    <3>2. Len(s.heap) \in Nat /\ Len(s.heap) + n = Cardinality(D)
      BY <2>5 DEF Taken
    <3> HIDE DEF D
    <3>3. Cardinality(D \cup {c}) = Cardinality(D) + 1
      BY <1>2, <3>1, FS_AddElement
    <3>4. QED
      BY <2>2, <2>3, <2>8, <3>2, <3>3 DEF Taken
  <2>12. Expanded(t, within, {node})
    <3>1. ASSUME NEW x \in D \cup {c}
          PROVE  x \in Range(heap) \/ x \in {node} \/ Neighbours(x) \cap within \subseteq D \cup {c}
      <4>1. CASE x = c
        BY <2>8, <4>1
      <4>2. CASE x \in D
        BY <2>8, <4>2 DEF Expanded, within
      <4>3. QED
        BY <4>1, <4>2
    <3>2. QED
      BY <2>2, <2>3, <3>1 DEF Expanded
  <2>13. QED
    BY <2>2, <2>3, <2>10, <2>11, <2>12 DEF t, c, within
<1>3. QED
  BY <1>1, <1>2

LEMMA TurnSound ==
  ASSUME NEW free \in SUBSET Points, IsFiniteSet(free), NEW src \in Points,
         NEW dest \in Points, NEW maxDepth, NEW n \in Nat,
         NEW s, SoundSearch(s, free, src, dest), Taken(s, n), ~Over(s, dest),
         Expanded(s, Within(free, src, maxDepth), {})
  PROVE  LET t == Turn(s, free, src, dest, maxDepth)
         IN  /\ SoundSearch(t, free, src, dest) /\ Taken(t, n + 1)
             /\ Expanded(t, Within(free, src, maxDepth), {})
<1> DEFINE node == Head(s.heap)
           popped == [heap |-> HeapPop(s.heap, dest), parent |-> s.parent]
           within == Within(free, src, maxDepth)
           Enter(t, i) == Entering(t, node, i, free, src, dest, maxDepth)
           c(i) == Plus(node, DirectionOrder[i])
           Good(t) == /\ SoundSearch(t, free, src, dest) /\ Taken(t, n + 1)
                      /\ Expanded(t, within, {node}) /\ node \in DOMAIN t.parent
           Has(t, i) == c(i) \in within => c(i) \in DOMAIN t.parent
           t1 == Enter(popped, 1)
           t2 == Enter(t1, 2)
           t3 == Enter(t2, 3)
           t4 == Enter(t3, 4)
<1>1. Turn(s, free, src, dest, maxDepth) = t4
  BY DEF Turn, Entering
<1>2. Good(popped)
  <2>1. s.heap \in Seq(DOMAIN s.parent) /\ s.heap # <<>> /\ Ordered(s.heap, dest)
    BY DEF SoundSearch, Over
  <2>2. node \in DOMAIN s.parent
    BY <2>1
  <2>3. DOMAIN s.parent \in SUBSET Points
    BY DEF SoundSearch, Leads
  <2>4. popped.heap = HeapPop(s.heap, dest) /\ popped.parent = s.parent
    OBVIOUS
  <2> HIDE DEF popped
  <2>5. /\ popped.heap \in Seq(DOMAIN s.parent) /\ Len(popped.heap) = Len(s.heap) - 1
        /\ Ordered(popped.heap, dest) /\ Range(s.heap) \subseteq Range(popped.heap) \cup {node}
    BY <2>1, <2>3, <2>4, HeapPopSound
  <2>6. SoundSearch(popped, free, src, dest)
    BY <2>4, <2>5 DEF SoundSearch
  <2>7. Taken(popped, n + 1)
    <3>1. Len(s.heap) \in Nat /\ Len(s.heap) + n = Cardinality(DOMAIN s.parent)
      BY <2>1 DEF Taken
    <3> DEFINE a == Len(s.heap)
               b == Len(popped.heap)
    <3>2. b = a - 1 /\ a \in Nat
      BY <2>5, <3>1
    <3> HIDE DEF a, b
    <3>3. b + (n + 1) = a + n
      BY <3>2
    <3>4. QED
      BY <2>4, <3>1, <3>3 DEF Taken, a, b
  <2>8. Expanded(popped, within, {node})
    BY <2>4, <2>5 DEF Expanded
  <2>9. QED
    BY <2>2, <2>4, <2>6, <2>7, <2>8
<1>3. ASSUME NEW t, NEW i \in 1..4, Good(t)
      PROVE  /\ Good(Enter(t, i)) /\ Has(Enter(t, i), i)
             /\ DOMAIN t.parent \subseteq DOMAIN Enter(t, i).parent
  <2>1. /\ n + 1 \in Nat /\ SoundSearch(t, free, src, dest) /\ Taken(t, n + 1)
        /\ Expanded(t, Within(free, src, maxDepth), {node}) /\ node \in DOMAIN t.parent
    BY <1>3
  <2> HIDE DEF node
  <2>2. LET u == Entering(t, node, i, free, src, dest, maxDepth)
            x == Plus(node, DirectionOrder[i])
        IN  /\ SoundSearch(u, free, src, dest) /\ Taken(u, n + 1)
            /\ Expanded(u, Within(free, src, maxDepth), {node})
            /\ DOMAIN t.parent \subseteq DOMAIN u.parent
            /\ x \in Within(free, src, maxDepth) => x \in DOMAIN u.parent
    BY <2>1, EnteringSound
  <2>3. QED
    BY <2>1, <2>2
<1> HIDE DEF Good, Enter, popped, c, within
<1>4. Good(t1) /\ Has(t1, 1)
  BY <1>2, <1>3
<1>5. Good(t2) /\ Has(t2, 2) /\ Has(t2, 1)
  BY <1>3, <1>4
<1>6. Good(t3) /\ Has(t3, 3) /\ Has(t3, 2) /\ Has(t3, 1)
  BY <1>3, <1>5
<1>7. Good(t4) /\ Has(t4, 4) /\ Has(t4, 3) /\ Has(t4, 2) /\ Has(t4, 1)
  BY <1>3, <1>6
<1> HIDE DEF t4
<1>8. Neighbours(node) \cap within \subseteq DOMAIN t4.parent
  <2>1. \A i \in 1..4 : Has(t4, i)
    BY <1>7
  <2>2. \A x \in Neighbours(node) : \E i \in 1..4 : x = c(i)
    BY NeighboursAre DEF c
  <2>3. QED
    BY <2>1, <2>2
<1>9. Expanded(t4, within, {})
  BY <1>7, <1>8 DEF Good, Expanded
<1>10. QED
  BY <1>1, <1>7, <1>9 DEF Good, within

\* The function after exists, whatever the number of turns.
LEMMA SearchExists ==
  ASSUME NEW free, NEW src, NEW dest, NEW maxDepth, NEW n \in Nat
  PROVE  \E f : IsSearch(f, n, free, src, dest, maxDepth)
<1> DEFINE Is(f, k) == IsSearch(f, k, free, src, dest, maxDepth)
           After(s) == IF Over(s, dest) THEN s ELSE Turn(s, free, src, dest, maxDepth)
           Bad == {k \in Nat : ~\E f : Is(f, k)}
<1>1. \A f, k : Is(f, k) <=>
                  f = [j \in 0..k |-> IF j = 0 THEN Opening(src) ELSE After(f[j - 1])]
  BY DEF IsSearch
<1> HIDE DEF Is, After
<1>2. \E f : Is(f, 0)
  <2> DEFINE f == [j \in 0..0 |-> Opening(src)]
  <2>1. f = [j \in 0..0 |-> IF j = 0 THEN Opening(src) ELSE After(f[j - 1])]
    OBVIOUS
  <2>2. QED
    BY <1>1, <2>1
<1>3. ASSUME NEW k \in Nat, \E f : Is(f, k) PROVE \E f : Is(f, k + 1)
  <2>1. PICK f : Is(f, k)
    BY <1>3
  <2> DEFINE g == [j \in 0..(k + 1) |-> IF j = k + 1 THEN After(f[k]) ELSE f[j]]
  <2>2. /\ g[0] = f[0] /\ g[k + 1] = After(g[k])
        /\ \A j \in 0..k : g[j] = f[j]
    OBVIOUS
  <2>3. /\ f[0] = Opening(src)
        /\ \A j \in 1..k : f[j] = After(f[j - 1])
    BY <1>1, <2>1
  <2>4. g = [j \in 0..(k + 1) |-> g[j]]
    OBVIOUS
  <2> HIDE DEF g
  <2>5. ASSUME NEW j \in 0..(k + 1)
        PROVE  g[j] = IF j = 0 THEN Opening(src) ELSE After(g[j - 1])
    <3>1. CASE j = 0
      BY <2>2, <2>3, <3>1
    <3>2. CASE j = k + 1
      BY <2>2, <3>2
    <3>3. CASE j \in 1..k
      <4>1. j - 1 \in 0..k /\ j \in 0..k
        BY <3>3
      <4>2. QED
        BY <2>2, <2>3, <3>3, <4>1
    <3>4. QED
      BY <3>1, <3>2, <3>3
  <2>6. g = [j \in 0..(k + 1) |-> IF j = 0 THEN Opening(src) ELSE After(g[j - 1])]
    BY <2>4, <2>5
  <2>7. QED
    BY <1>1, <2>6
<1>4. Bad = {}
  <2>1. SUFFICES ASSUME Bad # {} PROVE FALSE
    OBVIOUS
  <2>2. PICK k \in Bad : \A j \in Bad : k <= j
    BY <2>1, LeastExists
  <2>3. k # 0
    BY <1>2
  <2>4. k - 1 \in Nat /\ k - 1 \notin Bad /\ (k - 1) + 1 = k
    BY <2>2, <2>3
  <2>5. \E f : Is(f, k - 1)
    BY <2>4
  <2>6. \E f : Is(f, k)
    BY <1>3, <2>4, <2>5
  <2>7. QED
    BY <2>6
<1>5. \E f : Is(f, n)
  BY <1>4
<1>6. QED
  BY <1>5 DEF Is


\* When the turns are over the search is: a turn takes one cell from the heap, and no
\* cell enters it twice.
LEMMA SearchSound ==
  ASSUME NEW free \in SUBSET Points, IsFiniteSet(free), NEW src \in Points,
         NEW dest \in Points, NEW maxDepth
  PROVE  LET s == Searched(free, src, dest, maxDepth)
         IN  /\ SoundSearch(s, free, src, dest) /\ Over(s, dest)
             /\ Expanded(s, Within(free, src, maxDepth), {})
<1> DEFINE turns == Cardinality(free) + 1
           f == CHOOSE g : IsSearch(g, turns, free, src, dest, maxDepth)
           within == Within(free, src, maxDepth)
           Good(k) == /\ SoundSearch(f[k], free, src, dest)
                      /\ Expanded(f[k], within, {})
                      /\ Over(f[k], dest) \/ Taken(f[k], k)
           Bad == {k \in 0..turns : ~Good(k)}
<1>1. Searched(free, src, dest, maxDepth) = f[turns]
  BY DEF Searched, IsSearch
<1>2. Cardinality(free) \in Nat /\ turns \in Nat
  BY FS_CardinalityType
<1> HIDE DEF turns
<1>3. IsSearch(f, turns, free, src, dest, maxDepth)
  BY <1>2, SearchExists
<1> HIDE DEF f
<1>4. \A k \in 0..turns :
        f[k] = IF k = 0 THEN Opening(src)
               ELSE IF Over(f[k - 1], dest) THEN f[k - 1]
               ELSE Turn(f[k - 1], free, src, dest, maxDepth)
  BY <1>3 DEF IsSearch
<1>5. Good(0)
  <2>1. f[0] = Opening(src)
    BY <1>2, <1>4
  <2> HIDE DEF within
  <2>2. QED
    BY <2>1, OpeningSound
<1>6. ASSUME NEW k \in Nat, k + 1 \in 0..turns, Good(k) PROVE Good(k + 1)
  <2>1. f[k + 1] = IF Over(f[k], dest) THEN f[k] ELSE Turn(f[k], free, src, dest, maxDepth)
    <3>1. k + 1 # 0 /\ (k + 1) - 1 = k
      OBVIOUS
    <3>2. QED
      BY <1>4, <1>6, <3>1
  <2>2. CASE Over(f[k], dest)
    BY <1>6, <2>1, <2>2
  <2>3. CASE ~Over(f[k], dest)
    <3>1. f[k + 1] = Turn(f[k], free, src, dest, maxDepth)
      BY <2>1, <2>3
    <3>2. QED
      BY <1>6, <2>3, <3>1, TurnSound
  <2>4. QED
    BY <2>2, <2>3
<1> HIDE DEF Good
<1>7. Bad = {}
  <2>1. SUFFICES ASSUME Bad # {} PROVE FALSE
    OBVIOUS
  <2>2. PICK k \in Bad : \A j \in Bad : k <= j
    <3>1. Bad \in SUBSET Nat
      BY <1>2
    <3> HIDE DEF Bad
    <3>2. QED
      BY <2>1, <3>1, LeastExists
  <2>3. k # 0 /\ k \in Nat
    BY <1>2, <1>5
  <2>4. k - 1 \in 0..turns /\ k - 1 \notin Bad /\ k - 1 \in Nat /\ (k - 1) + 1 = k
    BY <1>2, <2>2, <2>3
  <2>5. Good(k - 1)
    BY <2>4
  <2>6. Good(k)
    BY <1>6, <2>4, <2>5
  <2>7. QED
    BY <2>6
<1>8. Good(turns)
  BY <1>2, <1>7
<1>9. Over(f[turns], dest)
  <2>1. SUFFICES ASSUME Taken(f[turns], turns) PROVE f[turns].heap = <<>>
    BY <1>8 DEF Good, Over
  <2> DEFINE s == f[turns]
             D == DOMAIN s.parent
  <2>2. D \subseteq free \cup {src} /\ s.heap \in Seq(D)
    BY <1>8 DEF Good, SoundSearch, Leads
  <2> HIDE DEF s, D
  <2>3. IsFiniteSet(free \cup {src}) /\ Cardinality(free \cup {src}) <= Cardinality(free) + 1
    <3>1. CASE src \in free
      <4>1. free \cup {src} = free
        BY <3>1
      <4>2. QED
        BY <1>2, <4>1
    <3>2. CASE src \notin free
      <4>1. Cardinality(free \cup {src}) = Cardinality(free) + 1 /\ IsFiniteSet(free \cup {src})
        BY <3>2, FS_AddElement
      <4>2. QED
        BY <1>2, <4>1
    <3>3. QED
      BY <3>1, <3>2
  <2>4. /\ Cardinality(D) <= Cardinality(free \cup {src})
        /\ Cardinality(D) \in Nat /\ Cardinality(free \cup {src}) \in Nat
    BY <2>2, <2>3, FS_Subset, FS_CardinalityType
  <2>5. Len(s.heap) + turns = Cardinality(D) /\ Len(s.heap) \in Nat
    BY <2>1, <2>2 DEF Taken, s, D
  <2>6. Len(s.heap) = 0
    BY <1>2, <2>3, <2>4, <2>5 DEF turns
  <2>7. QED
    BY <2>2, <2>6 DEF s
<1>10. QED
  BY <1>1, <1>8, <1>9 DEF Good

-----------------------------------------------------------------------------
(* The end of the path *)

LEMMA LeastBy ==
  ASSUME NEW S, S # {}, NEW f \in [S -> Nat]
  PROVE  \E a \in S : \A b \in S : f[a] <= f[b]
<1> DEFINE V == {f[a] : a \in S}
<1>1. V \in SUBSET Nat /\ V # {}
  OBVIOUS
<1>2. PICK n \in V : \A k \in V : n <= k
  BY <1>1, LeastExists
<1>3. PICK a \in S : f[a] = n
  OBVIOUS
<1>4. \A b \in S : f[a] <= f[b]
  BY <1>2, <1>3
<1>5. QED
  BY <1>4

\* Of a set of cells one is preferred to all: PathEnd is one of them.
LEMMA PathEndIn ==
  ASSUME NEW S \in SUBSET Points, S # {}, NEW src \in Points,
         NEW dest \in Points
  PROVE  /\ PathEnd(S, src, dest) \in S
         /\ \A b \in S : Preferred(PathEnd(S, src, dest), b, src, dest)
<1>1. \A a \in S : Dist(a, dest) \in Nat /\ Dist(a, src) \in Nat
  BY DistNat
<1>2. \A a \in S : Dist(a, dest) \in Nat /\ Dist(a, src) \in Nat /\ a[1] \in Nat /\ a[2] \in Nat
  BY <1>1 DEF Points
<1> DEFINE S1 == {a \in S : \A b \in S : Dist(a, dest) <= Dist(b, dest)}
           S2 == {a \in S1 : \A b \in S1 : Dist(a, src) <= Dist(b, src)}
           S3 == {a \in S2 : \A b \in S2 : a[1] <= b[1]}
<1>3. S1 # {}
  <2>1. [a \in S |-> Dist(a, dest)] \in [S -> Nat]
    BY <1>2
  <2>2. \E a \in S : \A b \in S :
           [x \in S |-> Dist(x, dest)][a] <= [x \in S |-> Dist(x, dest)][b]
    BY <2>1, LeastBy
  <2>3. QED
    BY <2>2
<1>4. S2 # {}
  <2> HIDE DEF S1
  <2>1. S1 \subseteq S
    BY DEF S1
  <2>2. [a \in S1 |-> Dist(a, src)] \in [S1 -> Nat]
    BY <1>2, <2>1
  <2>3. \E a \in S1 : \A b \in S1 :
           [x \in S1 |-> Dist(x, src)][a] <= [x \in S1 |-> Dist(x, src)][b]
    BY <1>3, <2>2, LeastBy
  <2>4. QED
    BY <2>3
<1>5. S3 # {}
  <2>1. S2 \subseteq S
    OBVIOUS
  <2> HIDE DEF S2
  <2>2. [a \in S2 |-> a[1]] \in [S2 -> Nat]
    BY <1>2, <2>1
  <2>3. \E a \in S2 : \A b \in S2 : [x \in S2 |-> x[1]][a] <= [x \in S2 |-> x[1]][b]
    BY <1>4, <2>2, LeastBy
  <2>4. QED
    BY <2>3
<1>6. \E a \in S3 : \A b \in S3 : a[2] <= b[2]
  <2>1. S3 \subseteq S
    OBVIOUS
  <2> HIDE DEF S3
  <2>2. [a \in S3 |-> a[2]] \in [S3 -> Nat]
    BY <1>2, <2>1
  <2>3. \E a \in S3 : \A b \in S3 : [x \in S3 |-> x[2]][a] <= [x \in S3 |-> x[2]][b]
    BY <1>5, <2>2, LeastBy
  <2>4. QED
    BY <2>3
<1>7. PICK a \in S3 : \A b \in S3 : a[2] <= b[2]
  BY <1>6
<1>8. a \in S
  OBVIOUS
<1>9. ASSUME NEW b \in S PROVE Preferred(a, b, src, dest)
  <2>1. Dist(a, dest) <= Dist(b, dest)
    BY <1>7
  <2>2. Dist(a, dest) = Dist(b, dest) => b \in S1
    OBVIOUS
  <2>3. b \in S1 => Dist(a, src) <= Dist(b, src)
    BY <1>7
  <2>4. b \in S1 /\ Dist(a, src) = Dist(b, src) => b \in S2
    OBVIOUS
  <2>5. b \in S2 => a[1] <= b[1]
    BY <1>7
  <2>6. b \in S2 /\ a[1] = b[1] => b \in S3
    OBVIOUS
  <2>7. b \in S3 => a[2] <= b[2]
    BY <1>7
  <2>8. Preferred(a, b, src, dest) <=>
          \/ Dist(a, dest) < Dist(b, dest)
          \/ /\ Dist(a, dest) = Dist(b, dest)
             /\ \/ Dist(a, src) < Dist(b, src)
                \/ /\ Dist(a, src) = Dist(b, src)
                   /\ (a[1] < b[1] \/ (a[1] = b[1] /\ a[2] <= b[2]))
    BY DEF Preferred
  <2> HIDE DEF S1, S2, S3
  <2>9. QED
    BY <1>2, <1>8, <2>1, <2>2, <2>3, <2>4, <2>5, <2>6, <2>7, <2>8
<1>10. QED
  BY <1>8, <1>9 DEF PathEnd

\* reached is the function of Reachable, up to n steps.
IsReached(f, n, src, within) ==
  f = [k \in 0..n |->
         IF k = 0 THEN {src}
         ELSE f[k - 1] \cup {c \in within : Neighbours(c) \cap f[k - 1] # {}}]

\* That function exists, whatever the number of steps.
LEMMA ReachedExists ==
  ASSUME NEW src, NEW within, NEW n \in Nat
  PROVE  \E f : IsReached(f, n, src, within)
<1> DEFINE Is(f, k) == IsReached(f, k, src, within)
           After(R) == R \cup {c \in within : Neighbours(c) \cap R # {}}
           Bad == {k \in Nat : ~\E f : Is(f, k)}
<1>1. \A f, k : Is(f, k) <=>
                  f = [j \in 0..k |-> IF j = 0 THEN {src} ELSE After(f[j - 1])]
  BY DEF IsReached
<1> HIDE DEF Is, After
<1>2. \E f : Is(f, 0)
  <2> DEFINE f == [j \in 0..0 |-> {src}]
  <2>1. f = [j \in 0..0 |-> IF j = 0 THEN {src} ELSE After(f[j - 1])]
    OBVIOUS
  <2>2. QED
    BY <1>1, <2>1
<1>3. ASSUME NEW k \in Nat, \E f : Is(f, k) PROVE \E f : Is(f, k + 1)
  <2>1. PICK f : Is(f, k)
    BY <1>3
  <2> DEFINE g == [j \in 0..(k + 1) |-> IF j = k + 1 THEN After(f[k]) ELSE f[j]]
  <2>2. /\ g[0] = f[0] /\ g[k + 1] = After(g[k])
        /\ \A j \in 0..k : g[j] = f[j]
    OBVIOUS
  <2>3. /\ f[0] = {src}
        /\ \A j \in 1..k : f[j] = After(f[j - 1])
    BY <1>1, <2>1
  <2>4. g = [j \in 0..(k + 1) |-> g[j]]
    OBVIOUS
  <2> HIDE DEF g
  <2>5. ASSUME NEW j \in 0..(k + 1)
        PROVE  g[j] = IF j = 0 THEN {src} ELSE After(g[j - 1])
    <3>1. CASE j = 0
      BY <2>2, <2>3, <3>1
    <3>2. CASE j = k + 1
      BY <2>2, <3>2
    <3>3. CASE j \in 1..k
      <4>1. j - 1 \in 0..k /\ j \in 0..k
        BY <3>3
      <4>2. QED
        BY <2>2, <2>3, <3>3, <4>1
    <3>4. QED
      BY <3>1, <3>2, <3>3
  <2>6. g = [j \in 0..(k + 1) |-> IF j = 0 THEN {src} ELSE After(g[j - 1])]
    BY <2>4, <2>5
  <2>7. QED
    BY <1>1, <2>6
<1>4. Bad = {}
  <2>1. SUFFICES ASSUME Bad # {} PROVE FALSE
    OBVIOUS
  <2>2. PICK k \in Bad : \A j \in Bad : k <= j
    BY <2>1, LeastExists
  <2>3. k # 0
    BY <1>2
  <2>4. k - 1 \in Nat /\ k - 1 \notin Bad /\ (k - 1) + 1 = k
    BY <2>2, <2>3
  <2>5. \E f : Is(f, k - 1)
    BY <2>4
  <2>6. \E f : Is(f, k)
    BY <1>3, <2>4, <2>5
  <2>7. QED
    BY <2>6
<1>5. \E f : Is(f, n)
  BY <1>4
<1>6. QED
  BY <1>5 DEF Is

\* What holds src and all that one may enter next to it holds all within reach.
LEMMA ReachedIn ==
  ASSUME NEW free \in SUBSET Points, IsFiniteSet(free), NEW src, NEW maxDepth,
         NEW D \in SUBSET Points, src \in D,
         \A c \in D : Neighbours(c) \cap Within(free, src, maxDepth) \subseteq D
  PROVE  Reachable(free, src, maxDepth) \subseteq D
<1> DEFINE within == Within(free, src, maxDepth)
           steps == Cardinality(within)
           f == CHOOSE g : IsReached(g, steps, src, within)
           Bad == {k \in 0..steps : ~(f[k] \subseteq D)}
<1>1. Reachable(free, src, maxDepth) = f[steps]
  BY DEF Reachable, IsReached, Within
<1>2. within \in SUBSET Points /\ steps \in Nat
  <2>1. within \subseteq free
    BY DEF Within
  <2>2. QED
    BY <2>1, FS_Subset, FS_CardinalityType
<1>3. \A c \in D : Neighbours(c) \cap within \subseteq D
  OBVIOUS
<1> HIDE DEF within, steps
<1>4. IsReached(f, steps, src, within)
  BY <1>2, ReachedExists
<1> HIDE DEF f
<1>5. \A k \in 0..steps :
        f[k] = IF k = 0 THEN {src}
               ELSE f[k - 1] \cup {c \in within : Neighbours(c) \cap f[k - 1] # {}}
  BY <1>4 DEF IsReached
<1>6. f[0] \subseteq D
  <2>1. 0 \in 0..steps
    BY <1>2
  <2>2. f[0] = {src}
    BY <1>5, <2>1
  <2>3. QED
    BY <2>2
<1>7. ASSUME NEW R \in SUBSET D
      PROVE  R \cup {c \in within : Neighbours(c) \cap R # {}} \subseteq D
  <2>1. ASSUME NEW c \in within, NEW b \in Neighbours(c) \cap R PROVE c \in D
    <3>1. c \in Points /\ b \in Points /\ b \in D
      BY <1>2
    <3>2. c \in Neighbours(b)
      BY <3>1, NeighboursBoth
    <3>3. QED
      BY <1>3, <3>1, <3>2
  <2>2. QED
    BY <2>1
<1>8. Bad = {}
  <2>1. SUFFICES ASSUME Bad # {} PROVE FALSE
    OBVIOUS
  <2>2. PICK k \in Bad : \A j \in Bad : k <= j
    <3>1. Bad \in SUBSET Nat
      BY <1>2
    <3> HIDE DEF Bad
    <3>2. QED
      BY <2>1, <3>1, LeastExists
  <2>3. k # 0 /\ k \in Nat
    BY <1>2, <1>6
  <2>4. k - 1 \in 0..steps /\ k - 1 \notin Bad
    BY <1>2, <2>2, <2>3
  <2>5. f[k - 1] \in SUBSET D
    BY <2>4
  <2>6. f[k] \subseteq D
    <3>1. f[k] = f[k - 1] \cup {c \in within : Neighbours(c) \cap f[k - 1] # {}}
      BY <1>5, <2>3
    <3>2. QED
      BY <1>7, <2>5, <3>1
  <2>7. QED
    BY <2>6
<1>9. QED
  BY <1>1, <1>2, <1>8

LEMMA DistZero ==
  ASSUME NEW a \in Points, NEW b \in Points, Dist(a, b) = 0
  PROVE  a = b
<1>1. /\ a = <<a[1], a[2]>> /\ a[1] \in Nat /\ a[2] \in Nat
      /\ b = <<b[1], b[2]>> /\ b[1] \in Nat /\ b[2] \in Nat
  BY DEF Points
<1>2. a[1] = b[1] /\ a[2] = b[2]
  BY <1>1 DEF Dist, Abs
<1>3. QED
  BY <1>1, <1>2

\* A path is sound whatever the map: it leads on over free cells, and if the
\* destination was not entered, everything within reach was.
LEMMA FindPathSound ==
  ASSUME NEW free \in SUBSET Points, IsFiniteSet(free), NEW src \in Points,
         NEW dest \in Points, NEW maxDepth
  PROVE  /\ SoundPath(free, src, dest, maxDepth)
         /\ Len(FindPath(free, src, dest, maxDepth)) \in Nat
<1> DEFINE found == FindPath(free, src, dest, maxDepth)
<1>1. SUFFICES ASSUME ~(Dist(src, dest) >= maxDepth)
               PROVE  SoundPath(free, src, dest, maxDepth) /\ Len(found) \in Nat
  BY DEF FindPath, SoundPath
<1> DEFINE s == Searched(free, src, dest, maxDepth)
           D == DOMAIN s.parent
           p == CHOOSE q : IsPaths(q, s.parent)
           end == PathEnd(D, src, dest)
<1>2. found = p[end]
  BY <1>1 DEF FindPath, IsPaths
<1>3. /\ SoundSearch(s, free, src, dest) /\ Over(s, dest)
      /\ Expanded(s, Within(free, src, maxDepth), {})
  BY SearchSound
<1> HIDE DEF s, found
<1>4. /\ Leads(s.parent, free, src) /\ src \in D
      /\ D \in SUBSET Points /\ s.heap \in Seq(D)
  BY <1>3 DEF SoundSearch, Leads
<1> HIDE DEF D
<1>5. end \in D /\ \A b \in D : Preferred(end, b, src, dest)
  BY <1>4, PathEndIn
<1>6. IsPaths(p, s.parent)
  BY <1>4 DEF Leads
<1> HIDE DEF p, end
<1>7. Way(found, D, free, src, end)
  BY <1>2, <1>4, <1>5, <1>6 DEF Leads, D
<1>8. /\ end \in Points
      /\ \A b \in D : /\ Dist(end, dest) \in Nat /\ Dist(b, dest) \in Nat
                      /\ Dist(end, src) \in Nat /\ Dist(b, src) \in Nat
  BY <1>4, <1>5, DistNat
<1>9. \A b \in D : \/ Dist(end, dest) < Dist(b, dest)
                   \/ Dist(end, dest) = Dist(b, dest) /\ Dist(end, src) <= Dist(b, src)
  BY <1>5, <1>8 DEF Preferred
<1>10. Reachable(free, src, maxDepth) \subseteq Points
  <2>1. \A c \in Points : Neighbours(c) \cap Within(free, src, maxDepth) \subseteq Points
    BY DEF Within
  <2>2. QED
    BY <2>1, ReachedIn
<1>11. ASSUME NEW c \in Reachable(free, src, maxDepth)
       PROVE  \/ Dist(end, dest) < Dist(c, dest)
              \/ Dist(end, dest) = Dist(c, dest) /\ Dist(end, src) <= Dist(c, src)
  <2>1. CASE s.heap = <<>>
    <3>1. \A x \in D : Neighbours(x) \cap Within(free, src, maxDepth) \subseteq D
      <4>1. Range(s.heap) = {}
        BY <2>1 DEF Range
      <4>2. QED
        BY <1>3, <4>1 DEF Expanded, D
    <3>2. c \in D
      BY <1>4, <3>1, ReachedIn
    <3>3. QED
      BY <1>9, <3>2
  <2>2. CASE s.heap # <<>>
    <3>1. dest \in D
      BY <1>3, <1>4, <2>2 DEF Over
    <3>2. Dist(dest, dest) = 0
      BY DEF Dist, Abs, Points
    <3>3. Dist(end, dest) = 0
      BY <1>8, <1>9, <3>1, <3>2
    <3>4. end = dest
      BY <1>8, <3>3, DistZero
    <3>5. c \in Points /\ Dist(c, dest) \in Nat /\ Dist(c, src) \in Nat
      BY <1>10, DistNat
    <3>6. CASE Dist(c, dest) = 0
      <4>1. c = end
        BY <3>4, <3>5, <3>6, DistZero
      <4>2. QED
        BY <3>5, <4>1
    <3>7. CASE Dist(c, dest) # 0
      BY <3>3, <3>5, <3>7
    <3>8. QED
      BY <3>6, <3>7
  <2>3. QED
    BY <2>1, <2>2
<1>12. /\ found \in Seq(D) /\ found # <<>> /\ Len(found) \in Nat
       /\ Last(found) = end /\ DOMAIN found = 1..Len(found)
  <2>1. found \in Seq(D) /\ found # <<>> /\ found[Len(found)] = end
    BY <1>7 DEF Way
  <2>2. QED
    BY <2>1 DEF Last
<1>13. QED
  BY <1>7, <1>11, <1>12 DEF SoundPath, Way, found

-----------------------------------------------------------------------------
(* The room *)

\* No monster is lost or doubled.
Counted == Cardinality(DOMAIN monsters) + Len(respawnQueue) = Len(Spawns)

\* Between ticks nothing is left to update.
AllUpdated == ~stepping => todo = {}

IInv ==
  /\ TypeOK
  /\ Counted
  /\ CreaturesApart
  /\ LeashHolds
  /\ AllUpdated

LEMMA CellsArePoints ==
  /\ Cells \subseteq Points
  /\ \A S \in SUBSET Cells : IsFiniteSet(S)
<1>1. IsFiniteSet(Cells)
  <2>1. 0 \in Int /\ Width - 1 \in Int /\ Height - 1 \in Int
    BY RoomAssumption
  <2>2. IsFiniteSet(0..(Width - 1)) /\ IsFiniteSet(0..(Height - 1))
    BY <2>1, FS_Interval
  <2>3. QED
    BY <2>2, FS_Product DEF Cells
<1>2. \A S \in SUBSET Cells : IsFiniteSet(S)
  BY <1>1, FS_Subset
<1>3. Cells \subseteq Points
  BY RoomAssumption DEF Cells, Points
<1>4. QED
  BY <1>2, <1>3

\* Where a monster goes that looks for a path: nowhere, or where it CanGo.
LEMMA NextCellFree ==
  ASSUME NEW from \in Cells, NEW to \in Points
  PROVE  /\ NextCell(from, to) \in Cells
         /\ NextCell(from, to) = from \/ CanGo(NextCell(from, to))
<1> DEFINE free == {c \in Cells : CanGo(c)}
           path == FindPath(free, from, to, MaxDepth)
<1>1. NextCell(from, to) = IF Len(path) > 1 THEN path[2] ELSE from
  BY DEF NextCell
<1>2. /\ free \in SUBSET Points /\ IsFiniteSet(free)
      /\ from \in Points /\ to \in Points
  BY CellsArePoints
<1> HIDE DEF path
<1>3. SoundPath(free, from, to, MaxDepth) /\ Len(path) \in Nat
  BY <1>2, FindPathSound DEF path
<1>4. ASSUME Len(path) > 1 PROVE path[2] \in free
  <2>1. path # <<>>
    BY <1>4
  <2>2. path[1 + 1] \in free \cap Neighbours(path[1])
    <3>1. 1 \in 1..(Len(path) - 1)
      BY <1>3, <1>4
    <3>2. QED
      BY <1>3, <2>1, <3>1 DEF SoundPath, path
  <2>3. QED
    BY <2>2
<1>5. QED
  BY <1>1, <1>4

LEMMA MonsterIs ==
  ASSUME TypeOK, NEW m \in DOMAIN monsters
  PROVE  /\ monsters[m] \in Monster /\ m \in Nat /\ m # nextId
         /\ monsters[m].cell \in Cells /\ monsters[m].home \in Cells
         /\ monsters[m].target \in Players \cup {NoPlayer}
         /\ monsters[m].waiting \in BOOLEAN
<1>1. monsters[m] \in Monster /\ m \in Ids /\ nextId \in Nat
  BY DEF TypeOK
<1>2. m \in Nat /\ m # nextId
  BY <1>1 DEF Ids
<1>3. QED
  BY <1>1, <1>2 DEF Monster

\* The ids in use are finitely many, and the next one is not in use.
LEMMA MonstersFinite ==
  ASSUME TypeOK
  PROVE  /\ IsFiniteSet(DOMAIN monsters) /\ Cardinality(DOMAIN monsters) \in Nat
         /\ DOMAIN monsters \subseteq Nat /\ DOMAIN arrows \subseteq Nat
         /\ nextId \notin DOMAIN monsters /\ nextId \notin DOMAIN arrows
<1>1. nextId \in Nat /\ 1 \in Int /\ nextId - 1 \in Int
  BY DEF TypeOK
<1>2. IsFiniteSet(Ids)
  BY <1>1, FS_Interval DEF Ids
<1>3. IsFiniteSet(DOMAIN monsters) /\ Cardinality(DOMAIN monsters) \in Nat
  BY <1>2, FS_Subset, FS_CardinalityType DEF TypeOK
<1>4. Ids \subseteq Nat /\ nextId \notin Ids
  BY <1>1 DEF Ids
<1>5. QED
  BY <1>3, <1>4 DEF TypeOK

-----------------------------------------------------------------------------
(* Players *)

\* A player in the room strayed there, or entered, or was where it is, or walked
\* where nobody was.
MayStand(p) ==
  \/ p \in strayed'
  \/ cell'[p] = Entry
  \/ where[p] = "room" /\ p \notin strayed /\ cell'[p] = cell[p]
  \/ CanGo(cell'[p])

LEMMA PeopleKeep ==
  ASSUME IInv, UNCHANGED <<monsters, arrows, nextId, respawnQueue, tick>>,
         packets' \in [Players -> Nat],
         where' \in [Players -> {"room", "away", "gone"}], cell' \in [Players -> Points],
         strayed' \subseteq Players,
         \A p \in Players : where[p] = "gone" => where'[p] = "gone",
         \A p \in Players : where'[p] = "room" => MayStand(p)
  PROVE  IInv'
<1> USE DEF IInv
<1>1. TypeOK'
  <2>1. UNCHANGED <<monsters, arrows, nextId, respawnQueue, stepping, todo>>
    BY DEF tick
  <2>2. QED
    BY <2>1 DEF TypeOK, Ids, Points
<1>2. Counted'
  BY DEF Counted
<1>3. CreaturesApart'
  <2>1. \A c : IsBlockedByWall(c)' = IsBlockedByWall(c)
    BY DEF IsBlockedByWall
  <2>2. ASSUME NEW p \in InRoom' \ strayed', cell'[p] # Entry
        PROVE  /\ ~IsBlockedByWall(cell'[p])
               /\ \A m \in DOMAIN monsters : monsters[m].cell # cell'[p]
    <3>1. p \in Players /\ where'[p] = "room"
      BY <2>2 DEF InRoom
    <3>2. CASE where[p] = "room" /\ p \notin strayed /\ cell'[p] = cell[p]
      <4>1. p \in InRoom \ strayed
        BY <3>1, <3>2 DEF InRoom
      <4>2. QED
        BY <2>2, <3>2, <4>1 DEF CreaturesApart
    <3>3. CASE CanGo(cell'[p])
      BY <3>3 DEF CanGo, Occupied
    <3>4. QED
      BY <2>2, <3>1, <3>2, <3>3 DEF MayStand
  <2>3. QED
    BY <2>1, <2>2 DEF CreaturesApart
<1>4. LeashHolds'
  <2>1. ASSUME NEW m \in DOMAIN monsters, Target(m) = NoPlayer PROVE Target(m)' = NoPlayer
    <3>1. monsters[m].target \in Players \cup {NoPlayer}
      BY MonsterIs
    <3>2. QED
      BY <2>1, <3>1, RoomAssumption DEF Target
  <2>2. QED
    BY <2>1 DEF LeashHolds
<1>5. AllUpdated'
  BY DEF AllUpdated, tick
<1>6. QED
  BY <1>1, <1>2, <1>3, <1>4, <1>5

\* One that stays may stand where it is.
LEMMA StaysMayStand ==
  ASSUME NEW p \in Players, where[p] = "room", cell'[p] = cell[p],
         p \in strayed => p \in strayed'
  PROVE  MayStand(p)
BY DEF MayStand

LEMMA PeopleAre ==
  ASSUME TypeOK
  PROVE  /\ where \in [Players -> {"room", "away", "gone"}]
         /\ cell \in [Players -> Points] /\ strayed \subseteq Players
         /\ packets \in [Players -> Nat]
BY DEF TypeOK, Points

\* EnterRoom of this room or of another one.
LEMMA EnterRoomInv ==
  ASSUME IInv, NEW p \in Players, EnterRoom(p) \/ Arrive(p)
  PROVE  IInv'
<1>1. /\ where[p] # "gone" /\ \E w \in {where[p], "room"} : where' = [where EXCEPT ![p] = w]
      /\ cell' = [cell EXCEPT ![p] = Entry] /\ strayed' = strayed \ {p}
      /\ UNCHANGED <<monsters, arrows, nextId, respawnQueue, tick, packets>>
  <2>1. where \in [Players -> {"room", "away", "gone"}]
    BY PeopleAre DEF IInv
  <2>2. CASE EnterRoom(p)
    BY <2>2 DEF EnterRoom, Job, PutOnEntry
  <2>3. CASE Arrive(p)
    BY <2>1, <2>3 DEF Arrive, Job, PutOnEntry
  <2>4. QED
    BY <2>2, <2>3
<1>2. /\ where \in [Players -> {"room", "away", "gone"}] /\ cell \in [Players -> Points]
      /\ packets \in [Players -> Nat] /\ strayed \subseteq Players
  BY PeopleAre DEF IInv
<1>3. ASSUME NEW q \in Players, where'[q] = "room" PROVE MayStand(q)
  <2>1. CASE q = p
    BY <1>1, <1>2, <2>1 DEF MayStand
  <2>2. CASE q # p
    <3>1. where[q] = "room" /\ cell'[q] = cell[q] /\ (q \in strayed => q \in strayed')
      BY <1>1, <1>2, <1>3, <2>2
    <3>2. QED
      BY <3>1, StaysMayStand
  <2>3. QED
    BY <2>1, <2>2
<1>4. /\ where' \in [Players -> {"room", "away", "gone"}] /\ cell' \in [Players -> Points]
      /\ strayed' \subseteq Players
      /\ \A q \in Players : where[q] = "gone" => where'[q] = "gone"
  BY <1>1, <1>2, RoomAssumption DEF Points
<1>5. QED
  BY <1>1, <1>2, <1>3, <1>4, PeopleKeep

\* Leave, Vanish, and the death of players by the sword: nobody comes.
LEMMA LeavingInv ==
  ASSUME IInv, UNCHANGED <<cell, strayed, monsters, arrows, nextId, respawnQueue, tick>>,
         packets' \in [Players -> Nat],
         where' \in [Players -> {"room", "away", "gone"}],
         \A p \in Players : where[p] = "gone" => where'[p] = "gone",
         \A p \in Players : where'[p] = "room" => where[p] = "room"
  PROVE  IInv'
<1>1. cell' \in [Players -> Points] /\ strayed' \subseteq Players
  BY PeopleAre DEF IInv
<1>2. \A p \in Players : where'[p] = "room" => MayStand(p)
  BY StaysMayStand
<1>3. QED
  BY <1>1, <1>2, PeopleKeep

LEMMA LeaveInv ==
  ASSUME IInv, NEW p \in Players, Leave(p) \/ Vanish(p)
  PROVE  IInv'
<1>1. /\ where[p] # "gone" /\ \E s \in {"away", "gone"} : where' = [where EXCEPT ![p] = s]
      /\ UNCHANGED <<cell, strayed, monsters, arrows, nextId, respawnQueue, tick, packets>>
  <2>1. CASE Leave(p)
    BY <2>1 DEF Leave, Job
  <2>2. CASE Vanish(p)
    BY <2>2 DEF Vanish, Job
  <2>3. QED
    BY <2>1, <2>2
<1>2. where \in [Players -> {"room", "away", "gone"}] /\ packets \in [Players -> Nat]
  BY PeopleAre DEF IInv
<1>3. /\ where' \in [Players -> {"room", "away", "gone"}] /\ packets' \in [Players -> Nat]
      /\ \A q \in Players : where[q] = "gone" => where'[q] = "gone"
      /\ \A q \in Players : where'[q] = "room" => where[q] = "room"
  BY <1>1, <1>2
<1>4. QED
  BY <1>1, <1>3, LeavingInv

LEMMA PacketIs ==
  ASSUME IInv, NEW p \in Players, Packet(p)
  PROVE  /\ ~stepping /\ todo = {} /\ UNCHANGED tick /\ where[p] # "gone"
         /\ packets' \in [Players -> Nat]
<1>1. packets \in [Players -> Nat]
  BY PeopleAre DEF IInv
<1>2. QED
  BY <1>1 DEF Packet, Job, IInv, AllUpdated

LEMMA MoveInv ==
  ASSUME IInv, NEW p \in Players, Move(p)
  PROVE  IInv'
<1>1. PICK next : /\ Walk(p, next) \/ Stray(p, next)
                  /\ cell' = [cell EXCEPT ![p] = next]
  BY DEF Move
<1>2. /\ UNCHANGED <<where, monsters, arrows, nextId, respawnQueue, tick>>
      /\ packets' \in [Players -> Nat]
  BY PacketIs DEF Move
<1>3. /\ where \in [Players -> {"room", "away", "gone"}] /\ cell \in [Players -> Points]
      /\ strayed \subseteq Players
  BY PeopleAre DEF IInv
<1>4. /\ next \in Points
      /\ CanGo(next) \/ p \in strayed'
      /\ strayed' \subseteq Players /\ strayed \subseteq strayed' \cup {p}
  <2>1. CASE Walk(p, next)
    <3>1. next \in Cells
      BY <2>1 DEF Walk, CanGo, IsBlockedByWall
    <3>2. QED
      BY <1>3, <2>1, <3>1, CellsArePoints DEF Walk
  <2>2. CASE Stray(p, next)
    BY <1>3, <2>2 DEF Stray, Points
  <2>3. QED
    BY <1>1, <2>1, <2>2
<1>5. ASSUME NEW q \in Players, where'[q] = "room" PROVE MayStand(q)
  <2>1. CASE q = p
    BY <1>1, <1>3, <1>4, <2>1 DEF MayStand
  <2>2. CASE q # p
    BY <1>1, <1>2, <1>3, <1>4, <1>5, <2>2, StaysMayStand
  <2>3. QED
    BY <2>1, <2>2
<1>6. cell' \in [Players -> Points]
  BY <1>1, <1>3, <1>4
<1>7. QED
  BY <1>2, <1>3, <1>4, <1>5, <1>6, PeopleKeep

-----------------------------------------------------------------------------
(* Blows, arrows and the ends of a tick: no monster comes or moves *)

LEMMA NextIdIs ==
  ASSUME TypeOK
  PROVE  nextId \in Nat /\ nextId >= 1
BY DEF TypeOK

LEMMA MoreIds ==
  ASSUME NEW a \in Nat, NEW b \in Nat, b >= a
  PROVE  1..(a - 1) \subseteq 1..(b - 1)
OBVIOUS

LEMMA NobodyNew ==
  ASSUME IInv, UNCHANGED people,
         DOMAIN monsters' \subseteq DOMAIN monsters,
         \A m \in DOMAIN monsters' : monsters'[m] = monsters[m],
         Counted', respawnQueue' \in Seq(Cells),
         nextId' \in Nat, nextId' >= nextId,
         DOMAIN arrows' \subseteq Ids', DOMAIN monsters \cap DOMAIN arrows' = {},
         \A a \in DOMAIN arrows' : arrows'[a] \in Arrow,
         stepping' \in BOOLEAN, todo' \subseteq DOMAIN monsters' \cup DOMAIN arrows',
         AllUpdated', packets' \in [Players -> Nat]
  PROVE  IInv'
<1>1. UNCHANGED where /\ UNCHANGED cell /\ UNCHANGED strayed
  BY DEF people
<1>2. DOMAIN monsters \subseteq Ids'
  <2>1. DOMAIN monsters \subseteq Ids /\ nextId \in Nat
    BY DEF IInv, TypeOK
  <2>2. Ids \subseteq Ids'
    <3>1. nextId' \in Nat /\ nextId' >= nextId
      OBVIOUS
    <3>2. Ids = 1..(nextId - 1) /\ Ids' = 1..(nextId' - 1)
      BY DEF Ids
    <3>3. QED
      BY <2>1, <3>1, <3>2, MoreIds
  <2>3. QED
    BY <2>1, <2>2
<1>3. TypeOK'
  <2>1. \A m \in DOMAIN monsters' : monsters'[m] \in Monster
    BY DEF IInv, TypeOK
  <2>2. /\ where' \in [Players -> {"room", "away", "gone"}] /\ cell' \in [Players -> Points]
        /\ strayed' \subseteq Players
    BY <1>1, PeopleAre DEF IInv
  <2>3. DOMAIN monsters' \subseteq Ids' /\ DOMAIN monsters' \cap DOMAIN arrows' = {}
    BY <1>2
  <2>4. nextId' \in Nat \ {0}
    <3>1. nextId \in Nat /\ nextId >= 1 /\ nextId' \in Nat /\ nextId' >= nextId
      BY NextIdIs DEF IInv
    <3>2. QED
      BY <3>1
  <2>5. QED
    BY <2>1, <2>2, <2>3, <2>4 DEF TypeOK, Points
<1>4. CreaturesApart'
  BY <1>1 DEF IInv, CreaturesApart, InRoom, IsBlockedByWall
<1>5. LeashHolds'
  <2>1. \A m \in DOMAIN monsters' : Target(m)' = Target(m)
    BY <1>1 DEF Target
  <2>2. QED
    BY <2>1 DEF IInv, LeashHolds
<1>6. QED
  BY <1>3, <1>4, <1>5 DEF IInv

LEMMA StateIs ==
  ASSUME IInv
  PROVE  /\ Counted /\ respawnQueue \in Seq(Cells) /\ nextId \in Nat /\ nextId >= 1
         /\ DOMAIN arrows \subseteq Ids /\ DOMAIN monsters \cap DOMAIN arrows = {}
         /\ \A a \in DOMAIN arrows : arrows[a] \in Arrow
         /\ stepping \in BOOLEAN /\ todo \subseteq DOMAIN monsters \cup DOMAIN arrows
         /\ AllUpdated /\ packets \in [Players -> Nat]
BY DEF IInv, TypeOK

\* Who dies is reserved, each once.
LEMMA DieShape ==
  ASSUME IInv, NEW dead \in SUBSET DOMAIN monsters, Die(dead)
  PROVE  /\ DOMAIN monsters' = DOMAIN monsters \ dead
         /\ \A m \in DOMAIN monsters' : monsters'[m] = monsters[m]
         /\ Counted' /\ respawnQueue' \in Seq(Cells)
<1>1. /\ IsFiniteSet(DOMAIN monsters) /\ Cardinality(DOMAIN monsters) \in Nat
      /\ respawnQueue \in Seq(Cells) /\ Counted
  BY MonstersFinite, StateIs DEF IInv
<1>2. /\ DOMAIN monsters' = DOMAIN monsters \ dead
      /\ \A m \in DOMAIN monsters' : monsters'[m] = monsters[m]
  BY DEF Die, Without, Restrict
<1>3. IsFiniteSet(dead) /\ Cardinality(dead) \in Nat
  BY <1>1, FS_Subset, FS_CardinalityType
<1>4. PICK order \in SetToSeqs(dead) :
        respawnQueue' = respawnQueue \o [i \in DOMAIN order |-> monsters[order[i]].home]
  BY DEF Die
<1> DEFINE n == Cardinality(dead)
           homes == [i \in DOMAIN order |-> monsters[order[i]].home]
<1>5. order \in [1..n -> dead]
  BY <1>4 DEF SetToSeqs
<1> HIDE DEF n
<1>6. homes \in [1..n -> Cells]
  <2>1. DOMAIN order = 1..n /\ \A i \in 1..n : order[i] \in DOMAIN monsters
    BY <1>5
  <2>2. \A m \in DOMAIN monsters : monsters[m].home \in Cells
    BY MonsterIs DEF IInv
  <2>3. QED
    BY <2>1, <2>2
<1>7. n \in Nat
  BY <1>3 DEF n
<1> HIDE DEF homes
<1>8. homes \in Seq(Cells) /\ Len(homes) = n
  BY <1>6, <1>7
<1>9. respawnQueue' \in Seq(Cells) /\ Len(respawnQueue') = Len(respawnQueue) + n
  <2>1. respawnQueue' = respawnQueue \o homes
    BY <1>4 DEF homes
  <2>2. QED
    BY <1>1, <1>8, <2>1, ConcatProperties
<1>10. Cardinality(DOMAIN monsters') = Cardinality(DOMAIN monsters) - n
  <2>1. DOMAIN monsters \cap dead = dead
    OBVIOUS
  <2>2. QED
    BY <1>1, <1>2, <2>1, FS_Difference DEF n
<1>11. Counted'
  <2>1. Len(respawnQueue) \in Nat
    BY <1>1
  <2>2. QED
    BY <1>1, <1>7, <1>9, <1>10, <2>1 DEF Counted
<1>12. QED
  BY <1>2, <1>9, <1>11

\* A blow between ticks.
LEMMA BlowInv ==
  ASSUME IInv, NEW p \in Players, Packet(p), NEW dead \in SUBSET DOMAIN monsters,
         Die(dead), UNCHANGED <<people, arrows, nextId>>
  PROVE  IInv'
<1>1. /\ DOMAIN monsters' \subseteq DOMAIN monsters
      /\ \A m \in DOMAIN monsters' : monsters'[m] = monsters[m]
      /\ Counted' /\ respawnQueue' \in Seq(Cells)
  BY DieShape
<1>2. /\ todo' = {} /\ ~stepping' /\ packets' \in [Players -> Nat]
  BY PacketIs DEF tick
<1>3. /\ nextId' \in Nat /\ nextId' >= nextId /\ UNCHANGED people
      /\ DOMAIN arrows' \subseteq Ids' /\ DOMAIN monsters \cap DOMAIN arrows' = {}
      /\ \A a \in DOMAIN arrows' : arrows'[a] \in Arrow
  BY StateIs DEF Ids
<1>4. AllUpdated' /\ stepping' \in BOOLEAN /\ todo' \subseteq DOMAIN monsters' \cup DOMAIN arrows'
  <2>1. stepping' \in BOOLEAN
    BY PacketIs, StateIs DEF tick
  <2>2. QED
    BY <1>2, <2>1 DEF AllUpdated
<1>5. QED
  BY <1>1, <1>2, <1>3, <1>4, NobodyNew

LEMMA SwordAttackInv ==
  ASSUME IInv, NEW p \in Players, SwordAttack(p)
  PROVE  IInv'
<1>1. Packet(p) /\ UNCHANGED <<cell, strayed, arrows, nextId>>
  BY DEF SwordAttack
<1>2. CASE /\ \E q \in InRoom, left \in {"away", "gone"} : where' = [where EXCEPT ![q] = left]
           /\ UNCHANGED <<monsters, respawnQueue>>
  <2>1. PICK q \in Players, left \in {"away", "gone"} :
          where[q] = "room" /\ where' = [where EXCEPT ![q] = left]
    BY <1>2 DEF InRoom
  <2>2. where \in [Players -> {"room", "away", "gone"}]
    BY PeopleAre DEF IInv
  <2>3. /\ where' \in [Players -> {"room", "away", "gone"}]
        /\ \A r \in Players : where[r] = "gone" => where'[r] = "gone"
        /\ \A r \in Players : where'[r] = "room" => where[r] = "room"
    BY <2>1, <2>2
  <2>4. packets' \in [Players -> Nat] /\ UNCHANGED tick
    BY <1>1, PacketIs
  <2>5. QED
    BY <1>1, <1>2, <2>3, <2>4, LeavingInv
<1>3. CASE UNCHANGED where /\ \E m \in DOMAIN monsters : Die({m})
  <2>1. PICK m \in DOMAIN monsters : Die({m})
    BY <1>3
  <2>2. {m} \in SUBSET DOMAIN monsters /\ UNCHANGED <<people, arrows, nextId>>
    BY <1>1, <1>3 DEF people
  <2>3. QED
    BY <1>1, <2>1, <2>2, BlowInv
<1>4. QED
  BY <1>2, <1>3 DEF SwordAttack

LEMMA StaffAttackInv ==
  ASSUME IInv, NEW p \in Players, StaffAttack(p)
  PROVE  IInv'
<1>1. PICK dead \in SUBSET DOMAIN monsters : Die(dead)
  BY DEF StaffAttack
<1>2. Packet(p) /\ UNCHANGED <<people, arrows, nextId>>
  BY DEF StaffAttack
<1>3. QED
  BY <1>1, <1>2, BlowInv

LEMMA BowAttackInv ==
  ASSUME IInv, NEW p \in Players, BowAttack(p)
  PROVE  IInv'
<1>1. PICK d \in Directions : arrows' = With(arrows, nextId, NewArrow(cell[p], d, p))
  BY DEF BowAttack
<1>2. /\ Packet(p) /\ nextId' = nextId + 1
      /\ UNCHANGED <<people, monsters, respawnQueue>>
  BY DEF BowAttack
<1>3. todo' = {} /\ ~stepping' /\ stepping' \in BOOLEAN /\ packets' \in [Players -> Nat]
  BY <1>2, PacketIs, StateIs DEF tick
<1>4. NewArrow(cell[p], d, p) \in Arrow
  <2>1. cell[p] \in Points
    BY PeopleAre DEF IInv
  <2>2. QED
    BY <2>1 DEF NewArrow, Arrow, Points
<1>5. /\ DOMAIN arrows' = DOMAIN arrows \cup {nextId}
      /\ \A a \in DOMAIN arrows' : arrows'[a] \in Arrow
  <2>1. \A a \in DOMAIN arrows : arrows[a] \in Arrow
    BY StateIs
  <2>2. QED
    BY <1>1, <1>4, <2>1 DEF With
<1>6. /\ nextId' \in Nat /\ nextId' >= nextId
      /\ DOMAIN arrows' \subseteq Ids' /\ DOMAIN monsters \cap DOMAIN arrows' = {}
  <2>1. /\ nextId \in Nat /\ nextId \notin DOMAIN monsters /\ DOMAIN arrows \subseteq Ids
        /\ DOMAIN monsters \cap DOMAIN arrows = {}
    BY StateIs, MonstersFinite DEF IInv
  <2>2. nextId >= 1
    BY StateIs
  <2>3. nextId' \in Nat /\ nextId' >= nextId /\ nextId \in 1..(nextId' - 1)
    BY <1>2, <2>1, <2>2
  <2>4. Ids = 1..(nextId - 1) /\ Ids' = 1..(nextId' - 1)
    BY DEF Ids
  <2>5. Ids \subseteq Ids'
    BY <2>1, <2>3, <2>4, MoreIds
  <2>6. QED
    BY <1>5, <2>1, <2>3, <2>4, <2>5
<1>7. /\ Counted' /\ respawnQueue' \in Seq(Cells) /\ UNCHANGED <<people, monsters>>
      /\ DOMAIN monsters' \subseteq DOMAIN monsters
      /\ \A m \in DOMAIN monsters' : monsters'[m] = monsters[m]
  BY <1>2, StateIs DEF Counted
<1>8. AllUpdated' /\ todo' \subseteq DOMAIN monsters' \cup DOMAIN arrows'
  BY <1>3 DEF AllUpdated
<1>9. QED
  BY <1>3, <1>5, <1>6, <1>7, <1>8, NobodyNew

LEMMA StepEndsInv ==
  ASSUME IInv, BeginStep \/ EndStep
  PROVE  IInv'
<1>1. UNCHANGED <<people, monsters, arrows, nextId, respawnQueue, packets>>
  BY DEF BeginStep, EndStep
<1>2. /\ stepping' \in BOOLEAN /\ todo' \subseteq DOMAIN monsters \cup DOMAIN arrows
      /\ ~stepping' => todo' = {}
  <2>1. CASE BeginStep
    BY <2>1 DEF BeginStep
  <2>2. CASE EndStep
    BY <2>2 DEF EndStep
  <2>3. QED
    BY <2>1, <2>2
<1>3. /\ Counted' /\ respawnQueue' \in Seq(Cells) /\ UNCHANGED people
      /\ DOMAIN monsters' \subseteq DOMAIN monsters
      /\ \A m \in DOMAIN monsters' : monsters'[m] = monsters[m]
  BY <1>1, StateIs DEF Counted
<1>4. /\ nextId' \in Nat /\ nextId' >= nextId
      /\ DOMAIN arrows' \subseteq Ids' /\ DOMAIN monsters \cap DOMAIN arrows' = {}
      /\ \A a \in DOMAIN arrows' : arrows'[a] \in Arrow /\ packets' \in [Players -> Nat]
  BY <1>1, StateIs DEF Ids
<1>5. packets' \in [Players -> Nat] /\ AllUpdated'
      /\ todo' \subseteq DOMAIN monsters' \cup DOMAIN arrows'
  BY <1>1, <1>2, StateIs DEF AllUpdated
<1>6. QED
  BY <1>2, <1>3, <1>4, <1>5, NobodyNew

\* Arrows are updated once no monster is left to update.
LEMMA UpdateArrowIs ==
  ASSUME IInv, NEW a, UpdateArrow(a)
  PROVE  /\ a \in DOMAIN arrows /\ stepping' = TRUE /\ UNCHANGED <<people, nextId, packets>>
         /\ todo' \subseteq DOMAIN arrows \ {a} /\ arrows[a] \in Arrow
<1>1. /\ a \in todo /\ a \in DOMAIN arrows /\ Update(a) /\ UNCHANGED <<people, nextId, packets>>
  BY DEF UpdateArrow
<1>2. /\ stepping \in BOOLEAN /\ todo \subseteq DOMAIN monsters \cup DOMAIN arrows
      /\ DOMAIN monsters \cap DOMAIN arrows = {} /\ arrows[a] \in Arrow
  BY <1>1, StateIs
<1>3. /\ stepping /\ stepping' = stepping /\ todo' = todo \ {a}
      /\ todo \cap DOMAIN monsters # {} => a = Least(todo \cap DOMAIN monsters)
  BY <1>1 DEF Update
<1>4. todo \cap DOMAIN monsters = {}
  <2>1. todo \cap DOMAIN monsters \in SUBSET Nat
    BY MonstersFinite DEF IInv
  <2>2. todo \cap DOMAIN monsters # {} => a \in DOMAIN monsters
    BY <1>3, <2>1, LeastIn
  <2>3. QED
    BY <1>1, <1>2, <2>2
<1>5. QED
  BY <1>1, <1>2, <1>3, <1>4

\* What the update of an arrow leaves to be shown.
LEMMA ArrowInv ==
  ASSUME IInv, NEW a, UpdateArrow(a),
         DOMAIN arrows' \subseteq DOMAIN arrows,
         DOMAIN arrows \ {a} \subseteq DOMAIN arrows',
         \A b \in DOMAIN arrows' : arrows'[b] \in Arrow,
         \/ UNCHANGED <<monsters, respawnQueue>>
         \/ \E m \in DOMAIN monsters : Die({m})
  PROVE  IInv'
<1>1. /\ stepping' = TRUE /\ UNCHANGED <<people, nextId, packets>>
      /\ todo' \subseteq DOMAIN arrows'
  BY UpdateArrowIs
<1>2. /\ DOMAIN monsters' \subseteq DOMAIN monsters
      /\ \A m \in DOMAIN monsters' : monsters'[m] = monsters[m]
      /\ Counted' /\ respawnQueue' \in Seq(Cells)
  <2>1. CASE UNCHANGED <<monsters, respawnQueue>>
    BY <2>1, StateIs DEF Counted
  <2>2. CASE \E m \in DOMAIN monsters : Die({m})
    <3>1. PICK m \in DOMAIN monsters : Die({m})
      BY <2>2
    <3>2. {m} \in SUBSET DOMAIN monsters
      OBVIOUS
    <3>3. QED
      BY <3>1, <3>2, DieShape
  <2>3. QED
    BY <2>1, <2>2
<1>3. /\ nextId' \in Nat /\ nextId' >= nextId /\ UNCHANGED people
      /\ DOMAIN arrows' \subseteq Ids' /\ DOMAIN monsters \cap DOMAIN arrows' = {}
      /\ packets' \in [Players -> Nat]
  <2>1. /\ nextId \in Nat /\ DOMAIN arrows \subseteq Ids /\ packets \in [Players -> Nat]
        /\ DOMAIN monsters \cap DOMAIN arrows = {}
    BY StateIs
  <2>2. Ids' = Ids
    BY <1>1 DEF Ids
  <2>3. QED
    BY <1>1, <2>1, <2>2
<1>4. stepping' \in BOOLEAN /\ AllUpdated' /\ todo' \subseteq DOMAIN monsters' \cup DOMAIN arrows'
  BY <1>1 DEF AllUpdated
<1>5. QED
  BY <1>2, <1>3, <1>4, NobodyNew

LEMMA RemoveArrowShape ==
  ASSUME IInv, NEW a, RemoveArrow(a)
  PROVE  /\ DOMAIN arrows' \subseteq DOMAIN arrows
         /\ DOMAIN arrows \ {a} \subseteq DOMAIN arrows'
         /\ \A b \in DOMAIN arrows' : arrows'[b] \in Arrow
<1>1. \A b \in DOMAIN arrows : arrows[b] \in Arrow
  BY StateIs
<1>2. QED
  BY <1>1 DEF RemoveArrow, Without, Restrict

LEMMA ArrowWaitsInv ==
  ASSUME IInv, NEW a \in DOMAIN arrows, ArrowWaits(a)
  PROVE  IInv'
<1>1. PICK waiting \in BOOLEAN : arrows' = [arrows EXCEPT ![a].waiting = waiting]
  BY DEF ArrowWaits
<1>2. UpdateArrow(a) /\ UNCHANGED <<monsters, respawnQueue>>
  BY DEF ArrowWaits
<1>3. \A b \in DOMAIN arrows : arrows[b] \in Arrow
  BY StateIs
<1>4. [arrows[a] EXCEPT !.waiting = waiting] \in Arrow
  BY <1>3 DEF Arrow
<1>5. /\ DOMAIN arrows' = DOMAIN arrows
      /\ \A b \in DOMAIN arrows' : arrows'[b] \in Arrow
  BY <1>1, <1>3, <1>4
<1>6. QED
  BY <1>2, <1>5, ArrowInv

LEMMA ArrowExpiresInv ==
  ASSUME IInv, NEW a \in DOMAIN arrows, ArrowExpires(a)
  PROVE  IInv'
<1>1. UpdateArrow(a) /\ RemoveArrow(a) /\ UNCHANGED <<monsters, respawnQueue>>
  BY DEF ArrowExpires
<1>2. QED
  BY <1>1, RemoveArrowShape, ArrowInv

LEMMA ArrowFliesInv ==
  ASSUME IInv, NEW a \in DOMAIN arrows, ArrowFlies(a)
  PROVE  IInv'
<1>1. UpdateArrow(a)
  BY DEF ArrowFlies
<1>2. CASE RemoveArrow(a) /\ UNCHANGED <<monsters, respawnQueue>>
  BY <1>1, <1>2, RemoveArrowShape, ArrowInv
<1>3. CASE RemoveArrow(a) /\ \E m \in MonstersAhead(a) : Die({m})
  <2>1. \E m \in DOMAIN monsters : Die({m})
    BY <1>3 DEF MonstersAhead
  <2>2. QED
    BY <1>1, <1>3, <2>1, RemoveArrowShape, ArrowInv
<1>4. CASE /\ ~IsBlockedByWall(Ahead(a)) /\ UNCHANGED <<monsters, respawnQueue>>
           /\ arrows' = [arrows EXCEPT ![a].cell = Ahead(a), ![a].waiting = TRUE,
                                       ![a].spawned = TRUE]
  <2>1. \A b \in DOMAIN arrows : arrows[b] \in Arrow
    BY StateIs
  <2>2. Ahead(a) \in Points
    BY <1>4, CellsArePoints DEF IsBlockedByWall
  <2> DEFINE flown == [arrows[a] EXCEPT !.cell = Ahead(a), !.waiting = TRUE, !.spawned = TRUE]
  <2>3. flown \in Arrow
    BY <2>1, <2>2 DEF Arrow, Points
  <2>4. arrows' = [arrows EXCEPT ![a] = flown]
    BY <1>4
  <2> HIDE DEF flown
  <2>5. /\ DOMAIN arrows' = DOMAIN arrows
        /\ \A b \in DOMAIN arrows' : arrows'[b] \in Arrow
    BY <2>1, <2>3, <2>4
  <2>6. QED
    BY <1>1, <1>4, <2>5, ArrowInv
<1>5. QED
  BY <1>2, <1>3, <1>4 DEF ArrowFlies

-----------------------------------------------------------------------------
(* Monsters *)

\* There is nobody to chase.
NoTarget(monster) == monster.target = NoPlayer \/ where[monster.target] = "gone"

\* What an update may make of a monster.
MayBecome(monster, next) ==
  /\ next \in Monster
  /\ next.cell = monster.cell \/ CanGo(next.cell)
  /\ Dist(next.cell, next.home) > LeashRange => NoTarget(next)

LEMMA TargetIs ==
  ASSUME IInv, NEW m \in DOMAIN monsters
  PROVE  /\ Target(m) \in Players \cup {NoPlayer}
         /\ Target(m) = NoPlayer <=> NoTarget(monsters[m])
         /\ Target(m) # NoPlayer => Target(m) = monsters[m].target
<1>1. monsters[m].target \in Players \cup {NoPlayer}
  BY MonsterIs DEF IInv
<1>2. QED
  BY <1>1, RoomAssumption DEF Target, NoTarget

LEMMA BecomesInv ==
  ASSUME IInv, NEW m, NEW next,
         \A n \in next : m \in DOMAIN monsters => MayBecome(monsters[m], n),
         MonsterBecomes(m, next)
  PROVE  IInv'
<1>1. PICK n \in next : monsters' = [monsters EXCEPT ![m] = n]
  BY DEF MonsterBecomes
<1>2. /\ m \in DOMAIN monsters /\ stepping' = stepping /\ stepping /\ todo' = todo \ {m}
      /\ UNCHANGED <<where, cell, strayed, arrows, nextId, respawnQueue, packets>>
  BY DEF MonsterBecomes, Update, people
<1>3. /\ n \in Monster
      /\ n.cell = monsters[m].cell \/ CanGo(n.cell)
      /\ Dist(n.cell, n.home) > LeashRange => NoTarget(n)
  BY <1>2 DEF MayBecome
<1>4. /\ DOMAIN monsters' = DOMAIN monsters /\ monsters'[m] = n
      /\ \A k \in DOMAIN monsters : k # m => monsters'[k] = monsters[k]
  BY <1>1, <1>2
<1>5. TypeOK'
  <2>1. \A k \in DOMAIN monsters' : monsters'[k] \in Monster
    <3>1. \A k \in DOMAIN monsters : monsters[k] \in Monster
      BY DEF IInv, TypeOK
    <3>2. n \in Monster
      BY <1>3
    <3>3. QED
      BY <1>4, <3>1, <3>2
  <2>2. todo' \subseteq DOMAIN monsters' \cup DOMAIN arrows' /\ stepping' \in BOOLEAN
    BY <1>2, <1>4, StateIs
  <2>3. Ids' = Ids
    BY <1>2 DEF Ids
  <2>4. QED
    BY <1>2, <1>4, <2>1, <2>2, <2>3 DEF IInv, TypeOK
<1>6. Counted' /\ AllUpdated'
  BY <1>2, <1>4 DEF IInv, Counted, AllUpdated
<1>7. CreaturesApart'
  <2>1. InRoom' = InRoom /\ \A c : IsBlockedByWall(c)' = IsBlockedByWall(c)
    BY <1>2 DEF InRoom, IsBlockedByWall
  <2>2. \A k \in DOMAIN monsters : ~IsBlockedByWall(monsters'[k].cell)
    BY <1>2, <1>3, <1>4 DEF IInv, CreaturesApart, CanGo
  <2>3. ASSUME NEW k \in DOMAIN monsters, k # m PROVE monsters'[k].cell # monsters'[m].cell
    <3>1. monsters[k].cell # monsters[m].cell
      BY <1>2, <2>3 DEF IInv, CreaturesApart
    <3>2. CanGo(n.cell) => monsters[k].cell # n.cell
      BY DEF CanGo, Occupied
    <3>3. QED
      BY <1>3, <1>4, <2>3, <3>1, <3>2
  <2>4. \A k, l \in DOMAIN monsters : monsters'[k].cell = monsters'[l].cell => k = l
    <3>1. ASSUME NEW k \in DOMAIN monsters, NEW l \in DOMAIN monsters, k # m, l # m,
                 monsters'[k].cell = monsters'[l].cell
          PROVE  k = l
      BY <1>4, <3>1 DEF IInv, CreaturesApart
    <3>2. QED
      BY <2>3, <3>1
  <2>5. ASSUME NEW k \in DOMAIN monsters, NEW p \in InRoom \ strayed, cell[p] # Entry
        PROVE  monsters'[k].cell # cell[p]
    <3>1. monsters[k].cell # cell[p]
      BY <2>5 DEF IInv, CreaturesApart
    <3>2. CanGo(n.cell) => n.cell # cell[p]
      BY DEF CanGo, Occupied
    <3>3. QED
      BY <1>3, <1>4, <3>1, <3>2
  <2>6. \A p \in InRoom \ strayed : cell[p] # Entry => ~IsBlockedByWall(cell[p])
    BY DEF IInv, CreaturesApart
  <2>7. QED
    BY <1>2, <1>4, <2>1, <2>2, <2>4, <2>5, <2>6 DEF CreaturesApart
<1>8. LeashHolds'
  <2>1. ASSUME NEW k \in DOMAIN monsters,
               Dist(monsters'[k].cell, monsters'[k].home) > LeashRange
        PROVE  Target(k)' = NoPlayer
    <3>1. CASE k = m
      <4>1. n.target = NoPlayer \/ where[n.target] = "gone"
        BY <1>3, <1>4, <2>1, <3>1 DEF NoTarget
      <4>2. QED
        BY <1>2, <1>4, <3>1, <4>1 DEF Target
    <3>2. CASE k # m
      <4>1. Target(k)' = Target(k) /\ monsters'[k] = monsters[k]
        BY <1>2, <1>4, <3>2 DEF Target
      <4>2. QED
        BY <2>1, <4>1 DEF IInv, LeashHolds
    <3>3. QED
      BY <3>1, <3>2
  <2>2. QED
    BY <1>4, <2>1 DEF LeashHolds
<1>9. QED
  BY <1>5, <1>6, <1>7, <1>8 DEF IInv

LEMMA WaitInv ==
  ASSUME IInv, NEW m \in DOMAIN monsters, Wait(m)
  PROVE  IInv'
<1> DEFINE woken == [monsters[m] EXCEPT !.waiting = FALSE]
<1>1. monsters[m] \in Monster
  BY MonsterIs DEF IInv
<1>2. /\ woken \in Monster /\ woken.cell = monsters[m].cell
      /\ woken.home = monsters[m].home /\ woken.target = monsters[m].target
  BY <1>1 DEF Monster
<1>3. Dist(monsters[m].cell, monsters[m].home) > LeashRange => NoTarget(monsters[m])
  BY TargetIs DEF IInv, LeashHolds
<1> HIDE DEF woken
<1>4. \A n \in {monsters[m], woken} : MayBecome(monsters[m], n)
  BY <1>1, <1>2, <1>3 DEF MayBecome, NoTarget
<1>5. MonsterBecomes(m, {monsters[m], woken})
  BY DEF Wait, woken
<1>6. QED
  BY <1>4, <1>5, BecomesInv

LEMMA StepsToIs ==
  ASSUME NEW monster \in Monster, NEW next \in Cells
  PROVE  LET n == StepsTo(monster, next)
         IN  /\ n \in Monster /\ n.cell = next
             /\ n.home = monster.home /\ n.target = monster.target
<1>1. CASE next = monster.cell
  BY <1>1 DEF StepsTo
<1>2. CASE next # monster.cell
  <2>1. StepsTo(monster, next) = [monster EXCEPT !.cell = next, !.waiting = TRUE]
    BY <1>2 DEF StepsTo
  <2>2. QED
    BY <2>1 DEF Monster
<1>3. QED
  BY <1>1, <1>2

\* The monster, knowing of somebody or of nobody, where it was.
LEMMA AwareIs ==
  ASSUME IInv, NEW m \in DOMAIN monsters, NEW t \in Players \cup {NoPlayer}
  PROVE  LET n == [monsters[m] EXCEPT !.target = t]
         IN  /\ n \in Monster /\ n.cell = monsters[m].cell
             /\ n.home = monsters[m].home /\ n.target = t
BY MonsterIs DEF IInv, Monster

LEMMA TowardsHomeMay ==
  ASSUME IInv, NEW m \in DOMAIN monsters, NEW monster \in Monster,
         monster.cell = monsters[m].cell, NoTarget(monster),
         NEW n \in TowardsHome(monster)
  PROVE  MayBecome(monsters[m], n)
<1> DEFINE next == NextCell(monster.cell, monster.home)
<1>1. n = StepsTo(monster, next)
  BY DEF TowardsHome
<1>2. monster.cell \in Cells /\ monster.home \in Points
  BY CellsArePoints DEF Monster
<1>3. next \in Cells /\ (next = monster.cell \/ CanGo(next))
  BY <1>2, NextCellFree
<1> HIDE DEF next
<1>4. n \in Monster /\ n.cell = next /\ n.target = monster.target
  BY <1>1, <1>3, StepsToIs
<1>5. NoTarget(n)
  BY <1>4 DEF NoTarget
<1>6. QED
  BY <1>3, <1>4, <1>5 DEF MayBecome

LEMMA ReturnHomeInv ==
  ASSUME IInv, NEW m \in DOMAIN monsters, ReturnHome(m)
  PROVE  IInv'
<1> DEFINE alone == [monsters[m] EXCEPT !.target = NoPlayer]
<1>1. MonsterBecomes(m, TowardsHome(alone))
  BY DEF ReturnHome
<1>2. /\ alone \in Monster /\ alone.cell = monsters[m].cell
      /\ alone.target = NoPlayer
  BY AwareIs
<1> HIDE DEF alone
<1>3. NoTarget(alone)
  BY <1>2 DEF NoTarget
<1>4. \A n \in TowardsHome(alone) : MayBecome(monsters[m], n)
  BY <1>2, <1>3, TowardsHomeMay
<1>5. QED
  BY <1>1, <1>4, BecomesInv

\* A step beyond the leash is not taken.
LEMMA ChaseMay ==
  ASSUME IInv, NEW m \in DOMAIN monsters, NEW monster \in Monster,
         monster.cell = monsters[m].cell,
         ~(Dist(monster.cell, monster.home) > LeashRange),
         NEW t \in Players, NEW n \in Chase(monster, t)
  PROVE  MayBecome(monsters[m], n)
<1> DEFINE next == NextCell(monster.cell, cell[t])
<1>1. n = IF next # monster.cell /\ Dist(next, monster.home) > LeashRange
          THEN [monster EXCEPT !.target = NoPlayer]
          ELSE StepsTo(monster, next)
  BY DEF Chase
<1>2. monster.cell \in Cells /\ cell[t] \in Points
  BY PeopleAre DEF Monster, IInv
<1>3. next \in Cells /\ (next = monster.cell \/ CanGo(next))
  BY <1>2, NextCellFree
<1> HIDE DEF next
<1>4. CASE next # monster.cell /\ Dist(next, monster.home) > LeashRange
  <2>1. n = [monster EXCEPT !.target = NoPlayer]
    BY <1>1, <1>4
  <2>2. n \in Monster /\ n.cell = monster.cell /\ n.target = NoPlayer
    BY <2>1 DEF Monster
  <2>3. QED
    BY <2>2 DEF MayBecome, NoTarget
<1>5. CASE ~(next # monster.cell /\ Dist(next, monster.home) > LeashRange)
  <2>1. n \in Monster /\ n.cell = next /\ n.home = monster.home
    BY <1>1, <1>3, <1>5, StepsToIs
  <2>2. ~(Dist(n.cell, n.home) > LeashRange)
    BY <1>5, <2>1
  <2>3. QED
    BY <1>3, <2>1, <2>2 DEF MayBecome
<1>6. QED
  BY <1>4, <1>5

LEMMA RetargetIs ==
  ASSUME IInv, NEW m \in DOMAIN monsters, NEW t \in Retarget(m)
  PROVE  /\ t \in Players \cup {NoPlayer}
         /\ t = NoPlayer => NoTarget(monsters[m])
<1>1. t = Target(m) \/ t \in Players
  BY DEF Retarget, ClosestPlayers, InRoom
<1>2. QED
  BY <1>1, TargetIs, RoomAssumption

LEMMA UpdateIdleInv ==
  ASSUME IInv, NEW m \in DOMAIN monsters, UpdateIdle(m)
  PROVE  IInv'
<1>1. PICK t \in Retarget(m) : MonsterBecomes(m, Pursue(monsters[m], t))
  BY DEF UpdateIdle
<1>2. t \in Players \cup {NoPlayer} /\ (t = NoPlayer => NoTarget(monsters[m]))
  BY RetargetIs
<1> DEFINE aware == [monsters[m] EXCEPT !.target = t]
           alone == [monsters[m] EXCEPT !.target = NoPlayer]
           idle == [aware EXCEPT !.waiting = TRUE]
<1>3. ~(Dist(monsters[m].cell, monsters[m].home) > LeashRange)
  <2>1. Dist(monsters[m].cell, monsters[m].home) <= LeashRange
    BY DEF UpdateIdle
  <2>2. monsters[m].cell \in Points /\ monsters[m].home \in Points
    BY MonsterIs, CellsArePoints DEF IInv
  <2>3. Dist(monsters[m].cell, monsters[m].home) \in Nat /\ LeashRange \in Nat
    BY <2>2, DistNat, RoomAssumption
  <2>4. QED
    BY <2>1, <2>3
<1>4. /\ aware \in Monster /\ aware.cell = monsters[m].cell
      /\ aware.home = monsters[m].home /\ aware.target = t
  BY <1>2, AwareIs
<1>5. alone \in Monster /\ alone.cell = monsters[m].cell /\ alone.target = NoPlayer
  BY AwareIs
<1>6. monsters[m] \in Monster
  BY MonsterIs DEF IInv
<1>7. \A n \in Pursue(monsters[m], t) :
        \/ NoTarget(monsters[m]) /\ n \in TowardsHome(monsters[m])
        \/ n \in TowardsHome(alone)
        \/ n = idle
        \/ t \in Players /\ n \in Chase(aware, t)
  BY <1>2 DEF Pursue
<1> HIDE DEF aware, alone
<1>8. MayBecome(monsters[m], idle)
  <2>1. idle \in Monster /\ idle.cell = aware.cell /\ idle.home = aware.home
    BY <1>4 DEF Monster
  <2>2. QED
    BY <1>3, <1>4, <2>1 DEF MayBecome
<1> HIDE DEF idle
<1>9. \A n \in TowardsHome(alone) : MayBecome(monsters[m], n)
  <2>1. NoTarget(alone)
    BY <1>5 DEF NoTarget
  <2>2. QED
    BY <1>5, <2>1, TowardsHomeMay
<1>10. NoTarget(monsters[m]) =>
         \A n \in TowardsHome(monsters[m]) : MayBecome(monsters[m], n)
  BY <1>6, TowardsHomeMay
<1>11. t \in Players => \A n \in Chase(aware, t) : MayBecome(monsters[m], n)
  BY <1>3, <1>4, ChaseMay
<1>12. \A n \in Pursue(monsters[m], t) : MayBecome(monsters[m], n)
  BY <1>7, <1>8, <1>9, <1>10, <1>11
<1>13. QED
  BY <1>1, <1>12, BecomesInv

-----------------------------------------------------------------------------
(* Respawning *)

\* One comes, where nobody is.
LEMMA ProcessRespawnInv ==
  ASSUME IInv, ProcessRespawn
  PROVE  IInv'
<1>1. respawnQueue # <<>> /\ respawnQueue \in Seq(Cells) /\ Len(respawnQueue) \in Nat
  BY StateIs DEF ProcessRespawn
<1>2. Head(respawnQueue) \in Cells
  BY <1>1
<1>3. PICK pos : /\ pos \in Cells /\ CanGo(pos)
                 /\ monsters' = With(monsters, nextId, NewMonster(pos))
  BY <1>2 DEF ProcessRespawn
<1>4. /\ nextId' = nextId + 1 /\ respawnQueue' = Tail(respawnQueue) /\ stepping /\ todo = {}
      /\ UNCHANGED <<where, cell, strayed, arrows, stepping, todo, packets>>
  BY DEF ProcessRespawn, people, tick
<1>5. /\ nextId \in Nat /\ nextId >= 1 /\ nextId \notin DOMAIN monsters
      /\ nextId \notin DOMAIN arrows
  BY StateIs, MonstersFinite DEF IInv
<1> DEFINE new == NewMonster(pos)
<1>6. /\ new \in Monster /\ new.cell = pos /\ new.home = pos /\ new.target = NoPlayer
  BY <1>3 DEF NewMonster, Monster
<1>7. /\ DOMAIN monsters' = DOMAIN monsters \cup {nextId} /\ monsters'[nextId] = new
      /\ \A k \in DOMAIN monsters : monsters'[k] = monsters[k]
  BY <1>3, <1>5 DEF With
<1> HIDE DEF new
<1>8. TypeOK'
  <2>1. \A k \in DOMAIN monsters' : monsters'[k] \in Monster
    <3>1. \A k \in DOMAIN monsters : monsters[k] \in Monster
      BY DEF IInv, TypeOK
    <3>2. QED
      BY <1>6, <1>7, <3>1
  <2>2. /\ DOMAIN monsters' \subseteq Ids' /\ DOMAIN arrows' \subseteq Ids'
        /\ nextId' \in Nat \ {0}
    <3>1. nextId' \in Nat /\ nextId' >= nextId /\ nextId \in 1..(nextId' - 1) /\ nextId' # 0
      BY <1>4, <1>5
    <3>2. Ids = 1..(nextId - 1) /\ Ids' = 1..(nextId' - 1)
      BY DEF Ids
    <3>3. Ids \subseteq Ids'
      BY <1>5, <3>1, <3>2, MoreIds
    <3>4. DOMAIN monsters \subseteq Ids /\ DOMAIN arrows \subseteq Ids
      BY DEF IInv, TypeOK
    <3>5. QED
      BY <1>4, <1>7, <3>1, <3>2, <3>3, <3>4
  <2>3. DOMAIN monsters' \cap DOMAIN arrows' = {}
    BY <1>4, <1>5, <1>7, StateIs
  <2>4. respawnQueue' \in Seq(Cells)
    BY <1>1, <1>4
  <2>5. /\ \A a \in DOMAIN arrows' : arrows'[a] \in Arrow
        /\ stepping' \in BOOLEAN /\ packets' \in [Players -> Nat]
        /\ todo' \subseteq DOMAIN monsters' \cup DOMAIN arrows'
    BY <1>4, StateIs
  <2>6. /\ where' \in [Players -> {"room", "away", "gone"}] /\ cell' \in [Players -> Points]
        /\ strayed' \subseteq Players
    BY <1>4, PeopleAre DEF IInv
  <2>7. QED
    BY <2>1, <2>2, <2>3, <2>4, <2>5, <2>6 DEF TypeOK, Points
<1>9. Counted'
  <2>1. IsFiniteSet(DOMAIN monsters) /\ Cardinality(DOMAIN monsters) \in Nat
    BY MonstersFinite DEF IInv
  <2>2. Cardinality(DOMAIN monsters') = Cardinality(DOMAIN monsters) + 1
    BY <1>5, <1>7, <2>1, FS_AddElement
  <2>3. Len(respawnQueue') = Len(respawnQueue) - 1
    BY <1>1, <1>4
  <2>4. QED
    BY <1>1, <2>1, <2>2, <2>3 DEF IInv, Counted
<1>10. CreaturesApart'
  <2>1. InRoom' = InRoom /\ \A c : IsBlockedByWall(c)' = IsBlockedByWall(c)
    BY <1>4 DEF InRoom, IsBlockedByWall
  <2>2. ~IsBlockedByWall(pos) /\ (\A k \in DOMAIN monsters : monsters[k].cell # pos)
    BY <1>3 DEF CanGo, Occupied
  <2>3. \A p \in InRoom : cell[p] # pos
    BY <1>3 DEF CanGo, Occupied
  <2>4. \A k, l \in DOMAIN monsters' : monsters'[k].cell = monsters'[l].cell => k = l
    BY <1>6, <1>7, <2>2 DEF IInv, CreaturesApart
  <2>5. \A k \in DOMAIN monsters' : \A p \in InRoom \ strayed :
          cell[p] # Entry => monsters'[k].cell # cell[p]
    BY <1>6, <1>7, <2>3 DEF IInv, CreaturesApart
  <2>6. \A k \in DOMAIN monsters' : ~IsBlockedByWall(monsters'[k].cell)
    BY <1>6, <1>7, <2>2 DEF IInv, CreaturesApart
  <2>7. \A p \in InRoom \ strayed : cell[p] # Entry => ~IsBlockedByWall(cell[p])
    BY DEF IInv, CreaturesApart
  <2>8. QED
    BY <1>4, <2>1, <2>4, <2>5, <2>6, <2>7 DEF CreaturesApart
<1>11. LeashHolds'
  <2>1. \A k \in DOMAIN monsters : Target(k)' = Target(k)
    BY <1>4, <1>7 DEF Target
  <2>2. ASSUME NEW k, k = nextId PROVE Target(k)' = NoPlayer
    BY <1>6, <1>7, <2>2 DEF Target
  <2>3. ASSUME NEW k \in DOMAIN monsters',
               Dist(monsters'[k].cell, monsters'[k].home) > LeashRange
        PROVE  Target(k)' = NoPlayer
    <3>1. CASE k \in DOMAIN monsters
      BY <1>7, <2>1, <2>3, <3>1 DEF IInv, LeashHolds
    <3>2. CASE k = nextId
      BY <2>2, <3>2
    <3>3. QED
      BY <1>7, <3>1, <3>2
  <2>4. QED
    BY <2>3 DEF LeashHolds
<1>12. AllUpdated'
  BY <1>4 DEF AllUpdated
<1>13. QED
  BY <1>8, <1>9, <1>10, <1>11, <1>12 DEF IInv

-----------------------------------------------------------------------------
(* The theorems *)

LEMMA InitInv ==
  ASSUME Init
  PROVE  IInv
<1> USE DEF Init
<1>1. /\ Spawns \in Seq(Cells \ Walls) /\ Len(Spawns) \in Nat /\ DOMAIN Spawns = 1..Len(Spawns)
      /\ \A i \in DOMAIN Spawns : Spawns[i] \in Cells \ Walls
  BY RoomAssumption
<1>2. /\ DOMAIN monsters = 1..Len(Spawns)
      /\ \A i \in DOMAIN monsters : monsters[i] = NewMonster(Spawns[i])
  BY <1>1
<1>3. \A c \in Cells : NewMonster(c) \in Monster /\ NewMonster(c).cell = c
                         /\ NewMonster(c).target = NoPlayer
  BY DEF NewMonster, Monster
<1>4. DOMAIN arrows = {} /\ todo = {} /\ InRoom = {} /\ Len(respawnQueue) = 0
  BY DEF InRoom
<1>5. TypeOK
  <2>1. nextId \in Nat \ {0} /\ Ids = 1..Len(Spawns)
    BY <1>1 DEF Ids
  <2>2. /\ cell \in [Players -> Points] /\ where \in [Players -> {"room", "away", "gone"}]
        /\ strayed \subseteq Players
    BY RoomAssumption DEF Points
  <2>3. packets \in [Players -> Nat]
    OBVIOUS
  <2>4. respawnQueue \in Seq(Cells) /\ stepping \in BOOLEAN
    <3>1. respawnQueue \in Seq(Cells)
      OBVIOUS
    <3>2. stepping = FALSE
      OBVIOUS
    <3>3. QED
      BY <3>1, <3>2
  <2>5. \A m \in DOMAIN monsters : monsters[m] \in Monster
    BY <1>1, <1>2, <1>3
  <2>6. QED
    BY <1>2, <1>4, <2>1, <2>2, <2>3, <2>4, <2>5 DEF TypeOK, Points
<1>6. Counted
  <2>1. \A n \in Nat : Cardinality(1..n) = n
    <3>1. ASSUME NEW n \in Nat PROVE Cardinality(1..n) = n
      <4>1. 1 \in Int /\ n \in Int
        OBVIOUS
      <4>2. Cardinality(1..n) = IF 1 > n THEN 0 ELSE n - 1 + 1
        BY <4>1, FS_Interval
      <4>3. QED
        BY <4>2
    <3>2. QED
      BY <3>1
  <2>2. Cardinality(1..Len(Spawns)) = Len(Spawns)
    BY <1>1, <2>1
  <2>3. QED
    BY <1>1, <1>2, <1>4, <2>2 DEF Counted
<1>7. CreaturesApart
  <2>1. \A m \in DOMAIN monsters :
          monsters[m].cell = Spawns[m] /\ ~IsBlockedByWall(monsters[m].cell)
    BY <1>1, <1>2, <1>3 DEF IsBlockedByWall
  <2>2. \A i, j \in DOMAIN Spawns : Spawns[i] = Spawns[j] => i = j
    BY RoomAssumption
  <2>3. QED
    BY <1>1, <1>2, <1>4, <2>1, <2>2 DEF CreaturesApart
<1>8. LeashHolds
  BY <1>1, <1>2, <1>3 DEF LeashHolds, Target
<1>9. AllUpdated
  BY <1>4 DEF AllUpdated
<1>10. QED
  BY <1>5, <1>6, <1>7, <1>8, <1>9 DEF IInv

LEMMA StutterInv ==
  ASSUME IInv, UNCHANGED vars
  PROVE  IInv'
<1>1. /\ UNCHANGED <<people, monsters, arrows, nextId, respawnQueue, tick, packets>>
      /\ UNCHANGED <<where, cell, strayed>>
  BY DEF vars, people
<1>2. packets' \in [Players -> Nat] /\ where' \in [Players -> {"room", "away", "gone"}]
  BY <1>1, PeopleAre DEF IInv
<1>3. QED
  BY <1>1, <1>2, LeavingInv

LEMMA NextInv ==
  ASSUME IInv, [Next]_vars
  PROVE  IInv'
<1>1. CASE UNCHANGED vars
  BY <1>1, StutterInv
<1>2. ASSUME NEW p \in Players, PlayerJob(p) PROVE IInv'
  BY <1>2, EnterRoomInv, LeaveInv, MoveInv, SwordAttackInv, BowAttackInv,
     StaffAttackInv DEF PlayerJob
<1>3. CASE BeginStep \/ EndStep
  BY <1>3, StepEndsInv
<1>4. CASE ProcessRespawn
  BY <1>4, ProcessRespawnInv
<1>5. ASSUME NEW m \in DOMAIN monsters, Wait(m) \/ ReturnHome(m) \/ UpdateIdle(m)
      PROVE  IInv'
  BY <1>5, WaitInv, ReturnHomeInv, UpdateIdleInv
<1>6. ASSUME NEW a \in DOMAIN arrows, ArrowWaits(a) \/ ArrowExpires(a) \/ ArrowFlies(a)
      PROVE  IInv'
  BY <1>6, ArrowWaitsInv, ArrowExpiresInv, ArrowFliesInv
<1>7. QED
  BY <1>1, <1>2, <1>3, <1>4, <1>5, <1>6 DEF Next, Step

\* Whatever players and the tick do in whatever order, every monster of the spawn
\* data is alive or reserved once (RemoveObject, ReserveRespawn, ProcessRespawn).
THEOREM MonstersAreKept == Spec => []PopulationKept
<1>1. IInv => PopulationKept
  BY DEF IInv, Counted, PopulationKept
<1>2. QED
  BY InitInv, NextInv, <1>1, PTL DEF Spec

\* CanGo, asked by whoever walks or respawns and by every step of FindPath, keeps
\* creatures out of walls and of each other, but for players that stand where they
\* entered (a wall or not) or where the CanGo of another room let them go.
THEOREM CreaturesKeepApart == Spec => []CreaturesApart
<1>1. IInv => CreaturesApart
  BY DEF IInv
<1>2. QED
  BY InitInv, NextInv, <1>1, PTL DEF Spec

\* Monster::UpdateIdle gives up its target before a step beyond the leash, so one
\* that is beyond it has none, however players and paths went.
THEOREM NoChaseBeyondLeash == Spec => []LeashHolds
<1>1. IInv => LeashHolds
  BY DEF IInv
<1>2. QED
  BY InitInv, NextInv, <1>1, PTL DEF Spec

\* Whatever stands where, FindPath leads the monster whose turn it is over free and
\* connected cells, as near to its home or to a player as it can get: a search that
\* goes by the distance to the destination alone misses nothing within reach.
THEOREM PathsStaySound == Spec => []PathsSound
<1>1. IInv => PathsSound
  <2> SUFFICES ASSUME IInv PROVE PathsSound
    OBVIOUS
  <2> DEFINE free == {c \in Cells : CanGo(c)}
             next == todo \cap DOMAIN monsters
             m == monsters[Least(next)]
  <2>1. free \in SUBSET Points /\ IsFiniteSet(free)
    BY CellsArePoints
  <2>2. ASSUME next # {}
        PROVE  \A to \in {m.home} \cup {cell[p] : p \in InRoom} :
                 SoundPath(free, m.cell, to, MaxDepth)
    <3>1. next \in SUBSET Nat
      BY MonsterIs DEF IInv
    <3>2. Least(next) \in DOMAIN monsters
      <4>1. Least(next) \in next
        <5> HIDE DEF next
        <5>1. QED
          BY <2>2, <3>1, LeastIn
      <4>2. QED
        BY <4>1
    <3> HIDE DEF next, free
    <3>3. m.cell \in Points /\ m.home \in Points
      BY <3>2, MonsterIs, CellsArePoints DEF IInv
    <3>4. \A p \in InRoom : cell[p] \in Points
      BY PeopleAre DEF IInv, InRoom
    <3> HIDE DEF m
    <3>5. QED
      BY <2>1, <3>3, <3>4, FindPathSound
  <2>3. QED
    BY <2>2 DEF PathsSound
<1>2. QED
  BY InitInv, NextInv, <1>1, PTL DEF Spec
=============================================================================
