CONSTANTS
  Size = 4
  NoByte = NoByte
  Bytes <- MCBytes
  Packets <- MCPackets
  MaxPackets = 3
SPECIFICATION MsSpec
INVARIANTS PacketsAreReported ButtonsAgree
PROPERTIES QueueSpec CatchesUp
CHECK_DEADLOCK FALSE
