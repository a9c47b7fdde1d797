CONSTANTS
  a = a  b = b  p = p  s = s
  Key = {a, b, p}
  NoKey = NoKey
  Builds <- ModTapBuilds
  TappingTerm = 3
  QuickTapTerm = 2
  BufferSize = 5
  MaxTap = 2
  TimeMod = 8
  MaxGap = 1
  Overtaking = FALSE
SPECIFICATION FairSpec
INVARIANT TypeOK
INVARIANT OneAction
INVARIANT NeverCancelled
INVARIANT NoneInBuffer
PROPERTY Delivers
PROPERTY Settles
PROPERTY WorksOff
