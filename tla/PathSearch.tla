----------------------------- MODULE PathSearch ------------------------------
(***************************************************************************)
(* GameRoom::FindPath (Server/GameRoom.cpp) as operators: a greedy         *)
(* best-first search.  The open cells are taken in the order of their      *)
(* distance to the destination alone, whatever the way so far.  Which of   *)
(* two cells at the same distance comes first is up to the binary heap of  *)
(* std::priority_queue, and decides which path comes out, so the heap is   *)
(* modelled: as a sequence of cells, the nearest first.                    *)
(*                                                                         *)
(* A cell other than the destination has one cost, so it is entered once,  *)
(* and the entered cells (best) are the domain of parent.  The destination *)
(* ends the search as soon as it is entered: nothing is nearer.            *)
(***************************************************************************)
EXTENDS Integers, Sequences, FiniteSets, SequencesExt

\* The order of front[4].
DirectionOrder == <<<<0, -1>>, <<0, 1>>, <<-1, 0>>, <<1, 0>>>>
Directions == Range(DirectionOrder)

Plus(a, b) == <<a[1] + b[1], a[2] + b[2]>>
Abs(n) == IF n < 0 THEN -n ELSE n
Dist(a, b) == Abs(a[1] - b[1]) + Abs(a[2] - b[2])
Neighbours(c) == {Plus(c, d) : d \in Directions}

\* The map f with the value v for the key k.
With(f, k, v) == [x \in DOMAIN f \cup {k} |-> IF x = k THEN v ELSE f[x]]

-----------------------------------------------------------------------------
(* std::priority_queue of cells, for the destination dest *)

\* push: the cell rises from the last place past all that are farther.
HeapPush(heap, c, dest) ==
  LET last == Len(heap) + 1
      visited[i \in 1..last] ==
        \/ i = last
        \/ /\ Dist(heap[i], dest) > Dist(c, dest)
           /\ \E j \in {2 * i, 2 * i + 1} \cap 1..last : visited[j]
  IN  [i \in 1..last |->
         IF ~visited[i] THEN heap[i]
         ELSE IF i > 1 /\ visited[i \div 2] THEN heap[i \div 2] ELSE c]

\* pop: the hole at the front goes down to a leaf, the nearer child moving up,
\* the second if they are equal; there the last cell enters and rises.
HeapPop(heap, dest) ==
  LET size == Len(heap) - 1
      last == heap[size + 1]
      cost(i) == Dist(heap[i], dest)
      chosen(i) == IF i % 2 = 0 THEN i = size \/ cost(i + 1) > cost(i)
                                ELSE cost(i) <= cost(i - 1)
      hole[i \in 1..size] == i = 1 \/ (hole[i \div 2] /\ chosen(i))
      moves(i) == hole[i] /\ (i = 1 \/ cost(i) <= Dist(last, dest))
      up(i) == {j \in {2 * i, 2 * i + 1} \cap 1..size : moves(j)}
  IN  [i \in 1..size |->
         IF ~hole[i] THEN heap[i]
         ELSE IF up(i) # {} THEN heap[CHOOSE j \in up(i) : TRUE]
         ELSE IF moves(i) THEN last ELSE heap[i]]

-----------------------------------------------------------------------------
(* The search *)

Opening(src) == [heap |-> <<src>>, parent |-> [c \in {src} |-> src]]

Over(search, dest) == search.heap = <<>> \/ Head(search.heap) = dest

\* One turn of the loop, and in it one of the loop over front; free are the cells
\* one CanGo to.
Turn(search, free, src, dest, maxDepth) ==
  LET node == Head(search.heap)
      Enter(s, i) ==
        LET c == Plus(node, DirectionOrder[i])
        IN  IF /\ c \in free
               /\ Dist(src, c) < maxDepth
               /\ c \notin DOMAIN s.parent
            THEN [heap |-> HeapPush(s.heap, c, dest), parent |-> With(s.parent, c, node)]
            ELSE s
      popped == [heap |-> HeapPop(search.heap, dest), parent |-> search.parent]
  IN  Enter(Enter(Enter(Enter(popped, 1), 2), 3), 4)

\* Every turn but the last takes a cell from the heap, which each enters once.
Searched(free, src, dest, maxDepth) ==
  LET turns == Cardinality(free) + 1
      after[n \in 0..turns] ==
        IF n = 0 THEN Opening(src)
        ELSE LET search == after[n - 1]
             IN  IF Over(search, dest) THEN search
                 ELSE Turn(search, free, src, dest, maxDepth)
  IN  after[turns]

\* Variant: of equal ones the first in the order of the map.
PreferredByScore(a, b, src, dest) ==
  \/ Dist(a, dest) < Dist(b, dest)
  \/ /\ Dist(a, dest) = Dist(b, dest)
     /\ a[1] < b[1] \/ (a[1] = b[1] /\ a[2] <= b[2])

\* a comes before b when the map is searched for the least score; of equal ones
\* the nearer to src, then the first in the order of the map.
Preferred(a, b, src, dest) ==
  \/ Dist(a, dest) < Dist(b, dest)
  \/ /\ Dist(a, dest) = Dist(b, dest)
     /\ \/ Dist(a, src) < Dist(b, src)
        \/ /\ Dist(a, src) = Dist(b, src)
           /\ a[1] < b[1] \/ (a[1] = b[1] /\ a[2] <= b[2])

\* The entered cell the path leads to: the destination, or the nearest.
PathEnd(entered, src, dest) ==
  CHOOSE a \in entered : \A b \in entered : Preferred(a, b, src, dest)

\* The path from src, or <<>> for the return value false.
FindPath(free, src, dest, maxDepth) ==
  IF Dist(src, dest) >= maxDepth THEN <<>>
  ELSE LET parent == Searched(free, src, dest, maxDepth).parent
           path[c \in DOMAIN parent] ==
             IF parent[c] = c THEN <<c>> ELSE Append(path[parent[c]], c)
       IN  path[PathEnd(DOMAIN parent, src, dest)]

-----------------------------------------------------------------------------
(* Properties *)

\* What can be reached over free cells less than maxDepth from src.
Reachable(free, src, maxDepth) ==
  LET within == {c \in free : Dist(src, c) < maxDepth}
      steps == Cardinality(within)
      reached[n \in 0..steps] ==
        IF n = 0 THEN {src}
        ELSE LET before == reached[n - 1]
             IN  before \cup {c \in within : Neighbours(c) \cap before # {}}
  IN  reached[steps]

\* A path goes from src over free cells from neighbour to neighbour, nowhere
\* twice, and ends at the destination or, of all cells within reach, at one as near
\* to it as any, and then as near to src as any: the search misses none although it
\* never looks back at the length of the way.
SoundPath(free, src, dest, maxDepth) ==
  LET path == FindPath(free, src, dest, maxDepth)
      end == Last(path)
  IN  path = <<>> \/
      /\ path[1] = src
      /\ \A i \in 1..(Len(path) - 1) : path[i + 1] \in free \cap Neighbours(path[i])
      /\ \A i, j \in DOMAIN path : path[i] = path[j] => i = j
      /\ \A c \in Reachable(free, src, maxDepth) :
           \/ Dist(end, dest) < Dist(c, dest)
           \/ Dist(end, dest) = Dist(c, dest) /\ Dist(end, src) <= Dist(c, src)
=============================================================================
