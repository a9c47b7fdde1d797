CONSTANTS
  k1 = k1 k2 = k2 k3 = k3 k4 = k4 k5 = k5 ComboKey = {k1, k2, k3, k4, k5} ComboKeys <- ApartCombos
  ComboTerm = 1 ComboGap = 1 MaxMoves = 2 KeyBufferLength = 8 ComboBufferLength = 4 ZeroReads = FALSE
SPECIFICATION ComboSpec
PROPERTY NoPressLost
