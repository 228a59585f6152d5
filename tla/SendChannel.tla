---------------------------- MODULE SendChannel ----------------------------
(***************************************************************************)
(* What Session::Send promises to its callers, with no thread, lock, event *)
(* or completion in it: buffers leave for the socket in the order in which *)
(* Send accepted them, each at most once, in batches that are never empty; *)
(* a batch may be lost as a whole, never a buffer out of its middle.       *)
(***************************************************************************)
EXTENDS Naturals, Sequences

CONSTANT MaxSends      \* buffers are the numbers 1..MaxSends, in acceptance order

VARIABLES
  accepted,            \* number of buffers accepted so far
  pending,             \* accepted, neither handed to the socket nor lost
  wire,                \* handed to the socket, in order
  lost                 \* dropped by a send that failed at once

channelVars == <<accepted, pending, wire, lost>>

Init ==
  /\ accepted = 0
  /\ pending = <<>>
  /\ wire = <<>>
  /\ lost = {}

Accept ==
  /\ accepted < MaxSends
  /\ accepted' = accepted + 1
  /\ pending' = Append(pending, accepted')
  /\ UNCHANGED <<wire, lost>>

\* The first n pending buffers leave together.
Take(n) ==
  /\ pending' = SubSeq(pending, n + 1, Len(pending))
  /\ UNCHANGED accepted

Transmit ==
  \E n \in 1..Len(pending) :
    /\ Take(n)
    /\ wire' = wire \o SubSeq(pending, 1, n)
    /\ UNCHANGED lost

Drop ==
  \E n \in 1..Len(pending) :
    /\ Take(n)
    /\ lost' = lost \cup {pending[i] : i \in 1..n}
    /\ UNCHANGED wire

Next == Accept \/ Transmit \/ Drop

Spec == Init /\ [][Next]_channelVars
============================================================================
