----------------------------- MODULE RecvProofs -----------------------------
(***************************************************************************)
(* Proofs about the receive path, for every stream of framed packets, every *)
(* way it is cut into chunks, and every buffer as large as                  *)
(* RecvAssumption says.                                                     *)
(***************************************************************************)
EXTENDS RecvStream, SequenceTheorems, TLAPS

\* Bytes in the buffer that no packet of the running loop has taken yet.
Rest == DataSize - processLen

\* The cursors bound each other, and a local is 0 where the code does not use it.
CursorsApart ==
  /\ Rest >= 0
  /\ writePos + numOfBytes <= Capacity
  /\ processLen # 0 => phase \in {"frame", "read"}
  /\ numOfBytes # 0 => phase = "process"

\* What is unread, with what the kernel has just written, is the stream from where
\* the deliveries stand.
BytesInOrder ==
  /\ arrived = delivered + Rest + numOfBytes
  /\ \A i \in 0..(Rest + numOfBytes - 1) :
       buffer[readPos + processLen + i] = delivered + 1 + i

\* The loop leaves less than a packet, so Clean has to move less than BufferSize,
\* and leaves room for as much.
LessThanAPacket == phase \in {"read", "clean"} => Rest < BufferSize
RoomAfterClean == phase \in {"register", "posted"} => FreeSize >= BufferSize

IInv ==
  /\ TypeOK
  /\ CursorsApart
  /\ BytesInOrder
  /\ FramedAsSent
  /\ LessThanAPacket
  /\ RoomAfterClean
  /\ NeverOverflows

-----------------------------------------------------------------------------
\* The first unread byte is the header of the next packet: its size is one the
\* peer writes, and it ends where another begins or the stream does.
LEMMA HeaderOfNextPacket ==
  ASSUME IInv, phase = "frame", Rest > 0
  PROVE  /\ Header = stream[delivered + 1]
         /\ Header \in HeaderSize..MaxPacket
         /\ delivered + Header <= Len(stream)
         /\ delivered + Header < Len(stream) => stream[delivered + Header + 1] > 0
<1> USE RecvAssumption DEF IInv, TypeOK
<1>1. numOfBytes = 0 /\ Rest \in Nat
  BY DEF CursorsApart, Rest, DataSize
<1>2. delivered < arrived /\ delivered + 1 \in 1..Len(stream)
  BY <1>1 DEF BytesInOrder
<1>3. Header = stream[delivered + 1]
  <2>1. 0 \in 0..(Rest + numOfBytes - 1)
    BY <1>1
  <2>2. buffer[readPos + processLen + 0] = delivered + 1 + 0
    BY <2>1 DEF BytesInOrder
  <2>3. readPos + processLen + 0 = readPos + processLen /\ delivered + 1 + 0 = delivered + 1
    OBVIOUS
  <2>4. QED
    BY <2>2, <2>3 DEF Header
<1>4. stream[delivered + 1] > 0
  BY <1>2 DEF FramedAsSent
<1>5. stream[delivered + 1] \in PacketSizes
  BY <1>2, <1>4, ElementOfSeq DEF Framed
<1>6. Header \in HeaderSize..MaxPacket /\ Header \in Nat
  <2> HIDE DEF IInv, TypeOK, Header
  <2>1. Header \in PacketSizes
    BY <1>3, <1>5
  <2>2. QED
    BY <2>1
<1>7. /\ delivered + 1 + stream[delivered + 1] <= Len(stream) + 1
      /\ delivered + 1 + stream[delivered + 1] <= Len(stream)
           => stream[delivered + 1 + stream[delivered + 1]] > 0
  BY <1>2, <1>4 DEF Framed
<1>8. Len(stream) \in Nat
  BY <1>2
<1>9. delivered + 1 + Header = delivered + Header + 1
  BY <1>6
<1>10. QED
  BY SMTT(40), <1>3, <1>6, <1>7, <1>8, <1>9

LEMMA RecvInit == Init => IInv
<1> SUFFICES ASSUME Init PROVE IInv
  OBVIOUS
<1> USE RecvAssumption DEF Init
<1>1. Framed(stream)
  OBVIOUS
<1>2. Len(stream) \in Nat
  BY <1>1
<1>3. TypeOK
  <2>1. buffer \in [Cells -> 0..Len(stream)]
    BY <1>2
  <2>2. connected \in BOOLEAN /\ overflow \in BOOLEAN /\ phase \in Phases
    BY DEF Phases
  <2>3. 0 \in 0..Capacity /\ 0 \in 0..Len(stream)
    BY <1>2
  <2>4. /\ readPos \in 0..Capacity /\ writePos \in 0..Capacity
        /\ numOfBytes \in 0..Capacity /\ processLen \in 0..Capacity
        /\ arrived \in 0..Len(stream) /\ delivered \in 0..Len(stream)
    BY <2>3
  <2> HIDE DEF Init
  <2>5. QED
    BY <1>1, <2>1, <2>2, <2>4 DEF TypeOK
<1>4. CursorsApart /\ BytesInOrder
  BY DEF CursorsApart, BytesInOrder, Rest, DataSize
<1>5. FramedAsSent
  BY <1>1, <1>2 DEF Framed, FramedAsSent
<1>6. LessThanAPacket /\ RoomAfterClean /\ NeverOverflows
  BY DEF LessThanAPacket, RoomAfterClean, NeverOverflows, FreeSize
<1>7. QED
  BY <1>3, <1>4, <1>5, <1>6 DEF IInv

-----------------------------------------------------------------------------
(* The kernel *)

LEMMA RecvCompletesInv ==
  ASSUME IInv, NEW n \in 1..Capacity, RecvCompletes(n)
  PROVE  IInv'
<1> USE RecvAssumption DEF IInv, RecvCompletes, DataSize, FreeSize
<1>1. Len(stream) \in Nat
  OBVIOUS
<1>2. numOfBytes = 0 /\ processLen = 0
  BY DEF CursorsApart
<1>3. TypeOK'
  <2>1. \A c \in Cells : buffer'[c] \in 0..Len(stream)
    BY <1>1 DEF TypeOK
  <2>2. buffer' \in [Cells -> 0..Len(stream)]
    BY <2>1
  <2>3. QED
    BY <1>1, <2>2 DEF TypeOK, Phases
<1>4. CursorsApart'
  BY <1>2 DEF CursorsApart, TypeOK, Rest
<1>5. BytesInOrder'
  <2>1. Rest' = Rest /\ Rest \in Nat
    BY DEF Rest, CursorsApart, TypeOK
  <2>2. arrived' = delivered' + Rest' + numOfBytes'
    BY <1>2, <2>1 DEF BytesInOrder, TypeOK
  <2>3. ASSUME NEW i \in 0..(Rest + n - 1)
        PROVE  buffer'[readPos + i] = delivered + 1 + i
    <3>1. readPos + i \in Cells
      BY <1>2 DEF TypeOK, Rest, Cells
    <3>2. CASE i < Rest
      <4>1. readPos + i \notin writePos..(writePos + n - 1)
        BY <3>2, <1>2 DEF TypeOK, Rest
      <4>2. buffer[readPos + processLen + i] = delivered + 1 + i
        BY <1>2, <2>1, <3>2 DEF BytesInOrder
      <4>3. buffer'[readPos + i] = buffer[readPos + i]
        BY <3>1, <4>1
      <4>4. readPos + processLen + i = readPos + i
        BY <1>2 DEF TypeOK
      <4>5. QED
        BY <4>2, <4>3, <4>4
    <3>3. CASE i >= Rest
      <4>1. readPos + i \in writePos..(writePos + n - 1)
        BY <3>3, <1>2, <2>1 DEF TypeOK, Rest
      <4>2. buffer'[readPos + i] = arrived + 1 + (readPos + i - writePos)
        BY <3>1, <4>1 DEF TypeOK
      <4>3. QED
        BY <1>2, <2>1, <4>2 DEF BytesInOrder, TypeOK, Rest
    <3>4. QED
      BY <2>1, <3>2, <3>3
  <2>4. /\ readPos' = readPos /\ processLen' = 0 /\ delivered' = delivered
        /\ Rest' + numOfBytes' - 1 = Rest + n - 1
        /\ \A i \in Int : readPos + 0 + i = readPos + i
    BY <1>2, <2>1 DEF TypeOK
  <2> HIDE DEF IInv, RecvCompletes
  <2>5. QED
    BY <2>2, <2>3, <2>4 DEF BytesInOrder
<1>6. FramedAsSent'
  BY DEF FramedAsSent, TypeOK
<1>7. (LessThanAPacket /\ RoomAfterClean /\ NeverOverflows)'
  BY DEF LessThanAPacket, RoomAfterClean, NeverOverflows
<1>8. QED
  BY <1>3, <1>4, <1>5, <1>6, <1>7

-----------------------------------------------------------------------------
(* The worker *)

LEMMA ProcessRecvInv ==
  ASSUME IInv, ProcessRecv
  PROVE  IInv'
<1> USE RecvAssumption DEF IInv, ProcessRecv, DataSize, FreeSize
<1>1. numOfBytes <= FreeSize /\ processLen = 0 /\ processLen' = 0
  BY DEF CursorsApart, TypeOK
<1>2. TypeOK'
  <2>1. CASE numOfBytes = 0
    BY <1>1, <2>1 DEF TypeOK, Phases
  <2>2. CASE numOfBytes # 0
    <3>1. /\ writePos' = writePos + numOfBytes /\ UNCHANGED <<connected, overflow>>
          /\ phase' = "frame"
      BY <1>1, <2>2 DEF TypeOK
    <3>2. writePos' \in 0..Capacity
      BY <1>1, <3>1 DEF TypeOK
    <3>3. QED
      BY <1>1, <3>1, <3>2 DEF TypeOK, Phases
  <2>3. QED
    BY <2>1, <2>2
<1>3. writePos' = writePos + numOfBytes
  BY <1>1 DEF TypeOK
<1>4. (Rest + numOfBytes)' = Rest + numOfBytes
  BY <1>1, <1>3 DEF TypeOK, Rest
<1>5. CursorsApart'
  BY <1>1, <1>3 DEF CursorsApart, TypeOK, Rest
<1>6. BytesInOrder'
  BY <1>1, <1>3, <1>4 DEF BytesInOrder, TypeOK, Rest
<1>7. (FramedAsSent /\ LessThanAPacket /\ RoomAfterClean /\ NeverOverflows)'
  <2>1. ~(numOfBytes > FreeSize)
    BY <1>1 DEF TypeOK
  <2>2. phase' \in {"stopped", "frame"} /\ overflow' = overflow
        /\ UNCHANGED <<stream, arrived, delivered>>
    BY <2>1 DEF TypeOK
  <2>3. QED
    BY <2>2 DEF FramedAsSent, LessThanAPacket, RoomAfterClean, NeverOverflows
<1>8. QED
  BY <1>2, <1>5, <1>6, <1>7

LEMMA DeliverPacketInv ==
  ASSUME IInv, DeliverPacket
  PROVE  IInv'
<1> USE RecvAssumption DEF IInv, DeliverPacket
<1>1. numOfBytes = 0 /\ Rest > 0
  BY DEF CursorsApart, WholePacket, Rest, TypeOK, DataSize
<1>2. /\ Header \in HeaderSize..MaxPacket
      /\ delivered + Header <= Len(stream)
      /\ delivered + Header < Len(stream) => stream[delivered + Header + 1] > 0
  BY <1>1, HeaderOfNextPacket
<1> HIDE DEF Header
<1>3. Header <= Rest
  BY DEF WholePacket, Rest
<1>4. Rest' = Rest - Header
  BY <1>2 DEF Rest, DataSize, TypeOK
<1>5. TypeOK'
  BY <1>2, <1>3 DEF TypeOK, Rest, DataSize
<1>6. CursorsApart'
  BY <1>2, <1>3, <1>4 DEF CursorsApart, TypeOK, Rest, DataSize
<1>7. BytesInOrder'
  <2>1. arrived' = delivered' + Rest' + numOfBytes'
    BY <1>2, <1>4 DEF BytesInOrder, TypeOK, Rest, DataSize
  <2>2. ASSUME NEW i \in 0..(Rest' + numOfBytes' - 1)
        PROVE  buffer[readPos + processLen' + i] = delivered' + 1 + i
    <3>1. Header + i \in 0..(Rest + numOfBytes - 1)
      BY <1>1, <1>2, <1>4 DEF Rest, DataSize, TypeOK
    <3>2. buffer[readPos + processLen + (Header + i)] = delivered + 1 + (Header + i)
      BY <3>1 DEF BytesInOrder
    <3>3. QED
      BY <3>2, <1>2 DEF TypeOK
  <2>3. QED
    BY <2>1, <2>2 DEF BytesInOrder
<1>8. FramedAsSent'
  BY <1>1, <1>2, <1>3 DEF FramedAsSent, BytesInOrder, TypeOK, Rest, DataSize
<1>9. (LessThanAPacket /\ RoomAfterClean /\ NeverOverflows)'
  BY DEF LessThanAPacket, RoomAfterClean, NeverOverflows
<1>10. QED
  BY <1>5, <1>6, <1>7, <1>8, <1>9

LEMMA LeaveLoopInv ==
  ASSUME IInv, LeaveLoop
  PROVE  IInv'
<1> USE RecvAssumption DEF IInv, LeaveLoop
<1>1. TypeOK'
  BY DEF TypeOK, Phases
<1>2. (CursorsApart /\ BytesInOrder /\ FramedAsSent /\ RoomAfterClean /\ NeverOverflows)'
  BY DEF CursorsApart, BytesInOrder, FramedAsSent, RoomAfterClean, NeverOverflows, Rest,
         DataSize
<1>3. Rest < BufferSize
  <2>1. CASE Rest <= 0
    BY <2>1 DEF TypeOK, Rest, DataSize
  <2>2. CASE Rest > 0
    <3>1. Header \in HeaderSize..MaxPacket
      BY <2>2, HeaderOfNextPacket
    <3>2. QED
      BY <3>1 DEF WholePacket, Rest, DataSize, TypeOK
  <2>3. QED
    BY <2>1, <2>2 DEF Rest, DataSize, TypeOK
<1>4. LessThanAPacket'
  BY <1>3 DEF LessThanAPacket, Rest, DataSize
<1>5. QED
  BY <1>1, <1>2, <1>4

LEMMA OnReadInv ==
  ASSUME IInv, OnRead
  PROVE  IInv'
<1> USE RecvAssumption DEF IInv, OnRead, DataSize
<1>1. processLen <= DataSize
  BY DEF CursorsApart, Rest, TypeOK
<1>2. readPos' = readPos + processLen /\ phase' = "clean"
  BY <1>1 DEF TypeOK
<1>3. TypeOK'
  BY <1>1, <1>2 DEF TypeOK, Phases
<1>4. Rest' = Rest /\ readPos' + processLen' = readPos + processLen
  BY <1>2 DEF Rest, TypeOK
<1>5. (CursorsApart /\ BytesInOrder /\ LessThanAPacket)'
  BY <1>2, <1>4 DEF CursorsApart, BytesInOrder, LessThanAPacket
<1>6. (FramedAsSent /\ RoomAfterClean /\ NeverOverflows)'
  BY <1>1, <1>2 DEF FramedAsSent, RoomAfterClean, NeverOverflows
<1>7. QED
  BY <1>3, <1>5, <1>6

\* Here the bound on what is unread pays: there is room for a whole receive, and
\* the memcpy does not overlap.
LEMMA CleanInv ==
  ASSUME IInv, Clean
  PROVE  IInv'
<1> USE RecvAssumption DEF IInv, Clean, DataSize, FreeSize
<1>1. numOfBytes = 0 /\ processLen = 0 /\ Rest = writePos - readPos /\ Rest \in Nat
      /\ Rest < BufferSize
  BY DEF CursorsApart, LessThanAPacket, Rest, TypeOK
<1>2. /\ processLen' = 0 /\ numOfBytes' = 0 /\ delivered' = delivered
      /\ stream' = stream /\ arrived' = arrived /\ phase' = "register"
  BY <1>1
<1>3. CASE Rest = 0
  <2>1. readPos' = 0 /\ writePos' = 0 /\ buffer' = buffer
    BY <1>1, <1>3
  <2>2. QED
    BY <1>1, <1>2, <1>3, <2>1
       DEF TypeOK, Phases, CursorsApart, BytesInOrder, FramedAsSent, LessThanAPacket,
           RoomAfterClean, NeverOverflows, Rest
<1>4. CASE Rest # 0 /\ ~CompactionDue
  <2>1. UNCHANGED <<buffer, readPos, writePos>>
    BY <1>1, <1>4
  <2>2. QED
    BY <1>1, <1>2, <1>4, <2>1
       DEF TypeOK, Phases, CursorsApart, BytesInOrder, FramedAsSent, LessThanAPacket,
           RoomAfterClean, NeverOverflows, Rest, CompactionDue
<1>5. CASE Rest # 0 /\ CompactionDue
  <2>1. /\ buffer' = [c \in Cells |-> IF c < writePos - readPos THEN buffer[readPos + c]
                                      ELSE buffer[c]]
        /\ readPos' = 0 /\ writePos' = writePos - readPos
    BY <1>1, <1>5 DEF Compact
  <2>2. \A c \in Cells : c < writePos - readPos => readPos + c \in Cells
    BY DEF TypeOK, Cells
  <2>3. TypeOK'
    <3>1. buffer' \in [Cells -> 0..Len(stream)]
      BY <2>1, <2>2 DEF TypeOK
    <3>2. QED
      BY <1>1, <1>2, <2>1, <3>1 DEF TypeOK, Phases
  <2>4. Rest' = Rest
    BY <1>1, <1>2, <2>1 DEF Rest
  <2>5. BytesInOrder'
    <3>1. ASSUME NEW i \in 0..(Rest - 1)
          PROVE  buffer'[i] = delivered + 1 + i
      <4>1. i \in Cells /\ i < writePos - readPos
        BY <1>1 DEF Cells
      <4>2. buffer[readPos + processLen + i] = delivered + 1 + i
        BY <1>1 DEF BytesInOrder
      <4>3. QED
        BY <1>1, <2>1, <4>1, <4>2 DEF TypeOK
    <3>2. QED
      BY <1>1, <1>2, <2>1, <2>4, <3>1 DEF BytesInOrder
  <2>6. QED
    BY <1>1, <1>2, <2>1, <2>3, <2>4, <2>5
       DEF CursorsApart, FramedAsSent, LessThanAPacket, RoomAfterClean, NeverOverflows
<1>6. QED
  BY <1>3, <1>4, <1>5

-----------------------------------------------------------------------------
LEMMA RecvStep == IInv /\ [Next]_vars => IInv'
<1> SUFFICES ASSUME IInv, [Next]_vars PROVE IInv'
  OBVIOUS
<1> USE DEF IInv
<1>1. CASE Kernel
  BY <1>1, RecvCompletesInv DEF Kernel
<1>2. CASE RecvCompletesEmpty \/ RegisterRecv \/ RegisterRecvFails \/ Disconnect
  <2>1. /\ numOfBytes' = numOfBytes
        /\ UNCHANGED <<stream, arrived, buffer, readPos, writePos, processLen, delivered,
                       overflow>>
        /\ phase' \in Phases /\ connected' \in BOOLEAN
        /\ phase' \in {"frame", "read", "clean"} => phase' = phase
        /\ phase' \in {"register", "posted"} => phase \in {"register", "posted"}
        /\ phase \in {"frame", "read", "process"} => phase' = phase
    BY <1>2
       DEF RecvCompletesEmpty, RegisterRecv, RegisterRecvFails, Disconnect, CursorsApart,
           TypeOK, Phases
  <2>2. QED
    BY <2>1
       DEF TypeOK, CursorsApart, BytesInOrder, FramedAsSent, LessThanAPacket,
           RoomAfterClean, NeverOverflows, Rest, DataSize, FreeSize
<1>3. CASE ProcessRecv \/ DeliverPacket \/ LeaveLoop \/ OnRead \/ Clean
  BY <1>3, ProcessRecvInv, DeliverPacketInv, LeaveLoopInv, OnReadInv, CleanInv
<1>4. CASE UNCHANGED vars
  BY <1>4
     DEF vars, TypeOK, CursorsApart, BytesInOrder, FramedAsSent, LessThanAPacket,
         RoomAfterClean, NeverOverflows, Rest, DataSize, FreeSize
<1>5. QED
  BY <1>1, <1>2, <1>3, <1>4 DEF Next, Worker

LEMMA RecvInvariant == Spec => []IInv
BY RecvInit, RecvStep, PTL DEF Spec

\* However TCP cuts the stream, between receives the buffer holds, in order, the
\* bytes that arrived and were not delivered (RecvBuffer with OnWrite, OnRead, Clean).
THEOREM RecvStreamStaysIntact == Spec => []StreamIntact
<1>1. IInv => StreamIntact
  <2> SUFFICES ASSUME IInv PROVE StreamIntact
    OBVIOUS
  <2> USE DEF IInv, StreamIntact, LoopOffset
  <2>1. Rest + numOfBytes >= Rest
    BY DEF TypeOK, Rest, DataSize
  <2>2. phase # "process" => numOfBytes = 0
    BY DEF CursorsApart
  <2>3. Rest = DataSize - processLen /\ Rest \in Int /\ numOfBytes \in Nat
    BY DEF TypeOK, Rest, DataSize
  <2>4. phase # "process" => arrived = delivered + Rest
    BY <2>2, <2>3 DEF BytesInOrder, TypeOK
  <2>5. ASSUME NEW i \in 0..(Rest - 1)
        PROVE  buffer[readPos + processLen + i] = delivered + 1 + i
    <3>1. i \in 0..(Rest + numOfBytes - 1)
      BY <2>1, <2>3
    <3>2. QED
      BY <3>1 DEF BytesInOrder
  <2> HIDE DEF IInv
  <2>6. TypeOK
    BY DEF IInv
  <2>7. QED
    BY <2>3, <2>4, <2>5, <2>6
<1>2. QED
  BY <1>1, RecvInvariant, PTL

\* OnRecvPacket gets whole packets, cut where the peer cut them.
THEOREM RecvFramesAsSent == Spec => []FramedAsSent
<1>1. IInv => FramedAsSent
  BY DEF IInv
<1>2. QED
  BY <1>1, RecvInvariant, PTL

\* RegisterRecv always has at least BUFFER_SIZE to offer.
THEOREM RecvHasRoom == Spec => []RoomToReceive
<1>1. IInv => RoomToReceive
  BY DEF IInv, RoomAfterClean, RoomToReceive
<1>2. QED
  BY <1>1, RecvInvariant, PTL

\* Clean's memcpy never has overlapping ranges.
THEOREM RecvCleansApart == Spec => []CleanNeverOverlaps
<1>1. IInv => CleanNeverOverlaps
  <2> USE RecvAssumption DEF IInv, CleanNeverOverlaps
  <2>1. QED
    BY DEF LessThanAPacket, CursorsApart, CompactionDue, TypeOK, Rest, DataSize, FreeSize
<1>2. QED
  BY <1>1, RecvInvariant, PTL

\* The overflow exits of OnWrite and OnRead are never taken.
THEOREM RecvNeverOverflows == Spec => []NeverOverflows
<1>1. IInv => NeverOverflows
  BY DEF IInv
<1>2. QED
  BY <1>1, RecvInvariant, PTL
=============================================================================
