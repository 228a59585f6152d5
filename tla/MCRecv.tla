------------------------------- MODULE MCRecv -------------------------------
(* The 64 KB of the code scaled to 5 bytes: packets of 2 to 4 bytes after a  *)
(* header of 2, a buffer of 15, and streams of five packets, so that the     *)
(* cursors reach the last third of the buffer and both branches of Clean are *)
(* taken.                                                                    *)
EXTENDS RecvStream, SequencesExt

MCPacketSizes == {2, 3, 4}

Packet(size) == [i \in 1..size |-> IF i = 1 THEN size ELSE 0]

MCStreams ==
  {FlattenSeq([k \in DOMAIN sizes |-> Packet(sizes[k])]) : sizes \in [1..5 -> MCPacketSizes]}
=============================================================================
