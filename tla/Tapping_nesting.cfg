CONSTANTS
  a = a  b = b  p = p  s = s
  Key = {a, b, s}
  NoKey = NoKey
  Builds <- NestingBuilds
  TappingTerm = 3
  QuickTapTerm = 2
  BufferSize = 12
  MaxTap = 2
  TimeMod = 15
  MaxGap = 1
  Overtaking = FALSE
SPECIFICATION Spec
INVARIANT NothingStuck
