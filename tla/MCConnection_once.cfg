CONSTANTS
  p1 = p1 p2 = p2 p3 = p3 p4 = p4
  Packet <- MCPacket
  Body <- MCBody
  Base = 16
SPECIFICATION Spec
INVARIANT WrittenOnce
CHECK_DEADLOCK FALSE
