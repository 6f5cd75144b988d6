CONSTANTS
  m = m
  a = a
  b = b
  c = c
  Thread = {m, a, b, c}
  Main = m
  Idle = idle
  Sem = {s1, s2}
  TimeSlice = 2
  StaleId = {0}
  MaxInit = 1
  MaxVal = 1
  MaxSleep = 3
SPECIFICATION Spec
SYMMETRY Symmetry
INVARIANT TypeOK
INVARIANT OnePlace
INVARIANT ValueCountsWaiters
INVARIANT NoThreadLost
PROPERTY ImplementsAlarmClock
