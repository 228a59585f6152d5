CONSTANTS
  HeaderSize = 2
  PacketSizes <- MCPacketSizes
  MaxPacket = 4
  BufferSize = 5
  Capacity = 15
  Streams <- MCStreams
SPECIFICATION Spec
INVARIANTS
  StreamIntact
  FramedAsSent
  RoomToReceive
  CleanNeverOverlaps
  NeverOverflows
PROPERTIES
  EveryPacketDelivered
CHECK_DEADLOCK FALSE
