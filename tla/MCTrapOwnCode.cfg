CONSTANTS
  m = m
  a = a
  b = b
  Thread = {m, a, b}
  Main = m
  Idle = idle
  Sem = {s1}
  TimeSlice = 2
  StaleId = {0}
  MaxInit = 1
  MaxVal = 1
  MaxSleep = 2
SPECIFICATION TrapSpec
INVARIANT OwnCode
