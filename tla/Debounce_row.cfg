CONSTANTS
  x = x  y = y  c1 = c1  c2 = c2
  Unit = {x, y}
  RowValue <- MCRowValue
  Open = {}
  DEBOUNCE = 2
  CounterMax = 2
  TimerMod = 6
  MaxGap = 3
SPECIFICATION Spec
PROPERTY RowStable
