CONSTANTS
  WriteSizes <- EightByte
  LogicalSize = 8
  BackingSize = 48
  SectorSize = 24
  ByteLimit = 64
  WordLimit = 16384
  Requests <- MCRequests
  NoData = NoData
SPECIFICATION Spec
PROPERTY ReadsLatest
