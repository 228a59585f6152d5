------------------------------ MODULE Homeward -------------------------------
(***************************************************************************)
(* A monster walks home and nobody is near or in the way: UpdateIdle and   *)
(* UpdateMove of Server/Monster.cpp.  Each step asks FindPath anew.        *)
(***************************************************************************)
EXTENDS PathSearch

CONSTANTS
  Grid,                \* the tiles of the map without its walls
  MaxDepth             \* of FindPath

VARIABLES
  at,                  \* where the monster is
  home,                \* _homePos
  waiting              \* its state is MOVE

vars == <<at, home, waiting>>

Path == FindPath(Grid \ {at}, at, home, MaxDepth)

Init ==
  /\ at \in Grid /\ home \in Grid
  /\ waiting = FALSE

CanWalk == ~waiting /\ Len(Path) > 1

Walk ==
  /\ CanWalk
  /\ at' = Path[2]
  /\ waiting' = TRUE
  /\ UNCHANGED home

\* UpdateMove
WaitOver ==
  /\ waiting /\ waiting' = FALSE
  /\ UNCHANGED <<at, home>>

Next == Walk \/ WaitOver

\* The tick updates the monster again and again.  The second conjunct is
\* WF_vars(Walk), with CanWalk written for ENABLED <<Walk>>_vars.
Fairness ==
  /\ WF_vars(WaitOver)
  /\ []<>~CanWalk \/ []<><<Walk>>_vars

Spec == Init /\ [][Next]_vars /\ Fairness

-----------------------------------------------------------------------------
(* Properties *)

\* A monster with a free way home, and nobody in it, gets there: the A* that
\* src/README.md:178 names finds a shortest way, and its rest is a step shorter.
ComesHome ==
  home \in Reachable(Grid, at, MaxDepth) ~> at = home
=============================================================================
