CONSTANTS
  MaxSize = 6
  Packets = 3
  Sizes = {2, 3}
  HeaderSize = 2
  Projects <- TheProjects
  Roles <- eRole
  DescFiles = {"Enum", "Login", "PacketId", "Struct"}
  Messages <- LoginProto
  PacketIds <- ServerPacketId
  Services <- ServerServices
  Agreeing <- TheAgreeing
SPECIFICATION Spec
INVARIANTS TypeOK RingIsAQueue UnreadIsStream InOrder CaughtUp
CHECK_DEADLOCK FALSE
