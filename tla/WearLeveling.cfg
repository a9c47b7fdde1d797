CONSTANTS
  WriteSizes <- AllSizes
  LogicalSize = 8
  BackingSize = 24
  SectorSize = 8
  ByteLimit = 64
  WordLimit = 16384
  Requests <- MCRequests
  NoData = NoData
SPECIFICATION Spec
INVARIANT TypeOK
INVARIANT RestErased
PROPERTY Persistent
