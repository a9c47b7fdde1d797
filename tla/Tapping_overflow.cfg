CONSTANTS
  a = a  b = b  p = p  s = s
  Key = {a, b, p, s}
  NoKey = NoKey
  Builds <- LayerBuilds
  TappingTerm = 3
  QuickTapTerm = 2
  BufferSize = 4
  MaxTap = 2
  TimeMod = 9
  MaxGap = 1
  Overtaking = TRUE
SPECIFICATION Spec
PROPERTY OverflowClearsAll
