----------------------------- MODULE RecvStream -----------------------------
(***************************************************************************)
(* The receive path of one PacketSession: WSARecv into the RecvBuffer,     *)
(* ProcessRecv, the framing loop of PacketSession::OnRecv and the cursor   *)
(* clean-up (ServerCore/Session.cpp, RecvBuffer.cpp).                      *)
(*                                                                         *)
(* The peer writes whole packets; TCP hands them over in arbitrary chunks, *)
(* at any time.  A byte is identified by its offset in the peer's stream,  *)
(* so the buffer holds offsets; the header of a packet is known at its     *)
(* first byte.  Only one receive is outstanding, so the path has a single  *)
(* thread of control, `phase'; another thread may disconnect the session   *)
(* at any time.                                                            *)
(***************************************************************************)
EXTENDS Integers, Sequences

CONSTANTS
  HeaderSize,          \* sizeof(PacketHeader)
  PacketSizes,         \* values header.size takes: payload plus header
  MaxPacket,           \* largest of them
  BufferSize,          \* Session::BUFFER_SIZE
  Capacity,            \* BUFFER_SIZE * RecvBuffer::BUFFER_COUNT
  Streams              \* what the peer may write: see Framed

\* A stream is cut into packets: at the first byte of each stands its size, at
\* every other byte 0, and where a packet ends the next one starts.
Framed(s) ==
  /\ s \in Seq(PacketSizes \cup {0})
  /\ Len(s) >= 1 => s[1] > 0
  /\ \A i \in 1..Len(s) :
       s[i] > 0 => /\ i + s[i] <= Len(s) + 1
                   /\ i + s[i] <= Len(s) => s[i + s[i]] > 0

\* Any 16-bit header.size is below the 64 KB of BUFFER_SIZE; the buffer is at
\* least three of them long (ten in the code).
ASSUME RecvAssumption ==
  /\ HeaderSize \in Nat \ {0}
  /\ MaxPacket \in Nat
  /\ PacketSizes \subseteq HeaderSize..MaxPacket
  /\ BufferSize \in Nat /\ MaxPacket < BufferSize
  /\ Capacity \in Nat /\ 3 * BufferSize <= Capacity
  /\ \A s \in Streams : Framed(s)

VARIABLES
  stream,              \* the bytes the peer writes
  arrived,             \* bytes the kernel has put into the buffer
  buffer,              \* _buffer: stream offset of the byte in each cell
  readPos,             \* _readPos
  writePos,            \* _writePos
  numOfBytes,          \* argument of ProcessRecv
  processLen,          \* local of OnRecv
  delivered,           \* history: stream offset up to which packets were delivered
  connected,           \* _connected
  overflow,            \* history: the session was closed by "OnWrite/OnRead Overflow"
  phase

vars == <<stream, arrived, buffer, readPos, writePos, numOfBytes,
          processLen, delivered, connected, overflow, phase>>

Cells == 0..(Capacity - 1)
Phases ==
  {"register", "posted", "process", "frame", "read", "clean", "stopped", "deaf"}

Init ==
  /\ stream \in Streams
  /\ arrived = 0
  /\ buffer = [c \in Cells |-> 0]
  /\ readPos = 0
  /\ writePos = 0
  /\ numOfBytes = 0
  /\ processLen = 0
  /\ delivered = 0
  /\ connected = TRUE
  /\ overflow = FALSE
  /\ phase = "register"

DataSize == writePos - readPos      \* RecvBuffer::DataSize
FreeSize == Capacity - writePos     \* RecvBuffer::FreeSize

-----------------------------------------------------------------------------
(* The peer and the kernel *)

\* The outstanding receive completes with n bytes, written at WritePos().
RecvCompletes(n) ==
  /\ phase = "posted"
  /\ n <= FreeSize /\ n <= Len(stream) - arrived
  /\ buffer' = [c \in Cells |->
                 IF c \in writePos..(writePos + n - 1) THEN arrived + 1 + (c - writePos)
                 ELSE buffer[c]]
  /\ arrived' = arrived + n
  /\ numOfBytes' = n
  /\ phase' = "process"
  /\ UNCHANGED <<stream, readPos, writePos, processLen, delivered, connected, overflow>>

\* End of stream, an aborted receive, or one that was posted with no room:
\* 0 bytes.
RecvCompletesEmpty ==
  /\ phase = "posted"
  /\ numOfBytes' = 0
  /\ phase' = "process"
  /\ UNCHANGED <<stream, arrived, buffer, readPos, writePos, processLen,
                 delivered, connected, overflow>>

-----------------------------------------------------------------------------
(* Session::RegisterRecv *)

RegisterRecv ==
  /\ phase = "register"
  /\ phase' = IF connected THEN "posted" ELSE "stopped"
  /\ UNCHANGED <<stream, arrived, buffer, readPos, writePos, numOfBytes,
                 processLen, delivered, connected, overflow>>

\* WSARecv fails at once, and no receive is ever posted again.  HandleError
\* disconnects on the three reset codes only.
RegisterRecvFails ==
  /\ phase = "register"
  /\ connected
  /\ phase' = "deaf"
  /\ connected' \in BOOLEAN
  /\ UNCHANGED <<stream, arrived, buffer, readPos, writePos, numOfBytes,
                 processLen, delivered, overflow>>

-----------------------------------------------------------------------------
(* Session::ProcessRecv *)

\* 0 bytes: Disconnect.  Else OnWrite, then the framing loop over DataSize bytes.
ProcessRecv ==
  /\ phase = "process"
  /\ IF numOfBytes = 0 \/ numOfBytes > FreeSize
       THEN /\ connected' = FALSE
            /\ overflow' = (overflow \/ numOfBytes > FreeSize)
            /\ phase' = "stopped"
            /\ UNCHANGED <<writePos, processLen>>
       ELSE /\ writePos' = writePos + numOfBytes
            /\ processLen' = 0
            /\ phase' = "frame"
            /\ UNCHANGED <<connected, overflow>>
  /\ numOfBytes' = 0
  /\ UNCHANGED <<stream, arrived, buffer, readPos, delivered>>

(* PacketSession::OnRecv *)

\* header.size at the loop's current position.
Header == stream[buffer[readPos + processLen]]

\* Variant: the header alone decides, the payload may still be missing.
WholePacketByHeader ==
  DataSize - processLen >= HeaderSize

\* Variant: < became <= in the size test.
WholePacketStrict ==
  /\ DataSize - processLen >= HeaderSize
  /\ DataSize - processLen > Header

WholePacket ==
  /\ DataSize - processLen >= HeaderSize
  /\ DataSize - processLen >= Header

\* One turn of the loop: OnRecvPacket(&buffer[processLen], header.size).
DeliverPacket ==
  /\ phase = "frame"
  /\ WholePacket
  /\ processLen' = processLen + Header
  /\ delivered' = delivered + Header
  /\ UNCHANGED <<stream, arrived, buffer, readPos, writePos, numOfBytes,
                 connected, overflow, phase>>

LeaveLoop ==
  /\ phase = "frame"
  /\ ~WholePacket
  /\ phase' = "read"
  /\ UNCHANGED <<stream, arrived, buffer, readPos, writePos, numOfBytes,
                 processLen, delivered, connected, overflow>>

(* RecvBuffer::OnRead *)
OnRead ==
  /\ phase = "read"
  /\ IF processLen > DataSize
       THEN /\ connected' = FALSE
            /\ overflow' = TRUE
            /\ phase' = "stopped"
            /\ UNCHANGED readPos
       ELSE /\ readPos' = readPos + processLen
            /\ phase' = "clean"
            /\ UNCHANGED <<connected, overflow>>
  /\ processLen' = 0
  /\ UNCHANGED <<stream, arrived, buffer, writePos, numOfBytes, delivered>>

(* RecvBuffer::Clean *)

\* Variant: the cursors move, the bytes do not.
CompactCursorsOnly ==
  /\ UNCHANGED buffer
  /\ readPos' = 0
  /\ writePos' = DataSize

\* memcpy of the unread bytes to the front, cursors behind them.
Compact ==
  /\ buffer' = [c \in Cells |-> IF c < DataSize THEN buffer[readPos + c] ELSE buffer[c]]
  /\ readPos' = 0
  /\ writePos' = DataSize

\* Variant: unread bytes stay where they are.
CleanOnlyEmpty ==
  /\ phase = "clean"
  /\ phase' = "register"
  /\ IF DataSize = 0 THEN readPos' = 0 /\ writePos' = 0
                     ELSE UNCHANGED <<readPos, writePos>>
  /\ UNCHANGED <<stream, arrived, buffer, numOfBytes, processLen, delivered,
                 connected, overflow>>

\* Variant: unread bytes are moved to the front after every receive.
CompactionDueAlways == TRUE

CompactionDue == FreeSize < BufferSize

Clean ==
  /\ phase = "clean"
  /\ phase' = "register"
  /\ \/ DataSize = 0 /\ readPos' = 0 /\ writePos' = 0 /\ UNCHANGED buffer
     \/ DataSize # 0 /\ CompactionDue /\ Compact
     \/ DataSize # 0 /\ ~CompactionDue /\ UNCHANGED <<buffer, readPos, writePos>>
  /\ UNCHANGED <<stream, arrived, numOfBytes, processLen, delivered, connected,
                 overflow>>

-----------------------------------------------------------------------------
(* Session::Disconnect by another thread, a handler or the send path *)

Disconnect ==
  /\ connected
  /\ connected' = FALSE
  /\ UNCHANGED <<stream, arrived, buffer, readPos, writePos, numOfBytes,
                 processLen, delivered, overflow, phase>>

Kernel == \E n \in 1..Capacity : RecvCompletes(n)

Worker == RegisterRecv \/ ProcessRecv \/ DeliverPacket \/ LeaveLoop \/ OnRead \/ Clean

Next ==
  \/ Kernel
  \/ RecvCompletesEmpty
  \/ RegisterRecvFails
  \/ Worker
  \/ Disconnect

\* Bytes that were sent reach a posted receive; a worker finishes its handler.
Fairness == WF_vars(Kernel) /\ WF_vars(Worker)

Spec == Init /\ [][Next]_vars /\ Fairness

-----------------------------------------------------------------------------
(* Properties *)

TypeOK ==
  /\ Framed(stream)
  /\ arrived \in 0..Len(stream)
  /\ buffer \in [Cells -> 0..Len(stream)]
  /\ readPos \in 0..Capacity
  /\ writePos \in 0..Capacity
  /\ numOfBytes \in 0..Capacity
  /\ processLen \in 0..Capacity
  /\ delivered \in 0..Len(stream)
  /\ connected \in BOOLEAN
  /\ overflow \in BOOLEAN
  /\ phase \in Phases

\* Bytes of delivered packets that OnRead has not yet accounted for.
LoopOffset == processLen

\* Between receives the buffer holds, in order, exactly the bytes that arrived
\* and were not delivered, whatever the chunks and the compactions were.
StreamIntact ==
  /\ TypeOK
  /\ phase \in {"register", "posted", "frame", "read", "clean"} =>
       arrived = delivered + (DataSize - LoopOffset)
  /\ \A i \in 0..(DataSize - LoopOffset - 1) :
       buffer[readPos + LoopOffset + i] = delivered + 1 + i

\* Packets are delivered whole and cut where the peer cut them.
FramedAsSent ==
  /\ delivered <= arrived
  /\ delivered < Len(stream) => stream[delivered + 1] > 0

\* A receive is never posted without room: it would complete with 0 bytes,
\* which ProcessRecv takes for the end of the stream.
RoomToReceive == phase = "posted" => FreeSize >= BufferSize

\* The ranges of Clean's memcpy do not overlap (memcpy leaves that undefined).
CleanNeverOverlaps ==
  phase = "clean" /\ DataSize # 0 /\ CompactionDue => readPos >= DataSize

\* The two overflow checks never fire: they guard against nothing a peer that
\* frames its packets can cause.
NeverOverflows == ~overflow

\* Every packet the peer wrote is delivered, unless the session closes or a
\* receive could not be posted: then a session that stays connected hears no more.
EveryPacketDelivered ==
  <>(delivered = Len(stream) \/ ~connected \/ phase = "deaf")
=============================================================================
