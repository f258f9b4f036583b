CONSTANTS
  request = request response = response ignored = ignored
  k1 = k1 k2 = k2 k3 = k3
  Pkg = {k1, k2, k3}
  Packet = {request, response, ignored}
  Args <- MCArgs
  Response = {response}
  Unread = {ignored}
  Base = 8
  WordBytes = 2
  MaxLength = 8
  MaxValues = 3
  Kinds = {"unsigned", "signed", "enum", "uenum", "fixed", "string", "bytes", "wstring", "float"}
  Values <- MCValues
  Host = {h1, h2}
  None = None
  Numbers <- MCNumbers
  Elem = {0, 1}
  MaxLen = 4
  MaxWrite = 2
  Old <- MCOld
  MaxSize = 7
  MaxDist = 8
  SizeWidth = 4
SPECIFICATION Spec
SYMMETRY Symmetry
INVARIANTS TypeOK InStep ReaderRight NumberKept SequencesRight
PROPERTY DeviceIsFile
CHECK_DEADLOCK FALSE
