CONSTANTS TimeMod = 16 MaxGap = 1 NumSlots = 2 TokenMod = 4 MaxDelay = 2 MaxLag = 1
SPECIFICATION DeferredSpec
PROPERTY OwnEntryOnly
