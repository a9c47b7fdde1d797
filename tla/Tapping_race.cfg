CONSTANTS
  a = a  b = b  p = p  s = s
  Key = {a, b, p}
  NoKey = NoKey
  Builds <- DefaultBuilds
  TappingTerm = 3
  QuickTapTerm = 2
  BufferSize = 5
  MaxTap = 2
  TimeMod = 7
  MaxGap = 1
  Overtaking = TRUE
SPECIFICATION Spec
PROPERTY Delivers
