CONSTANTS
  WriteSizes <- TwoByte
  LogicalSize = 8
  BackingSize = 32
  SectorSize = 32
  ByteLimit = 0
  WordLimit = 16384
  Requests <- MCRequests
  NoData = NoData
SPECIFICATION Spec
PROPERTY ReadsLatest
