CONSTANTS
  TimeMod = 16 MaxGap = 1 NumSlots = 2 TokenMod = 4 MaxDelay = 2 MaxLag = 1
  x = x y = y NoDance = NoDance Dance = {x, y} Keymaps <- DanceKeymaps
  Pools = {1, 2} DanceTerm = 1 DanceGap = 1 MaxChanges = 2 CountMod = 3
  k1 = k1 k2 = k2 k3 = k3 k4 = k4 k5 = k5 ComboKey = {k1, k2, k3, k4} ComboKeys <- NestedCombos
  ComboTerm = 1 ComboGap = 1 MaxMoves = 2 KeyBufferLength = 4 ComboBufferLength = 4 ZeroReads = FALSE
  UsbQueueSize = 4
  none = none m1 = m1 m2 = m2 bad = bad NoKeys = none Image = {none, m1, m2} Garbled = {bad} Crc <- Collisions
  MaxErrors = 2 ErrorsMax = 3 Retries = 2 SyncThrottle = 3 CheckTimeout = 2 SplitGap = 1
  EncoderQueue = 4 MaxTurns = 4
SPECIFICATION Spec
INVARIANT TypesOK
INVARIANT UniqueTokens
INVARIANT NoneMissed
INVARIANT NoOrphan
INVARIANT DanceLetsGo
INVARIANT ModsReturn
INVARIANT ComboKeysReturn
INVARIANT HeldBackBriefly
INVARIANT DeviceMatches
INVARIANT LightsBack
INVARIANT LostHalfLetsGo
INVARIANT ForcedSync
INVARIANT TurnOnce
PROPERTY NotEarly
PROPERTY FreshWaits
PROPERTY DanceEnds
PROPERTY OneOfOverlapping
PROPERTY NoPressLost
PROPERTY HeldThroughErrors
