CONSTANTS
  m = m
  a = a
  Thread = {m, a}
  Main = m
  Idle = idle
  Sem = {s1}
  TimeSlice = 2
  StaleId = {0}
  MaxInit = 1
  MaxVal = 1
  MaxSleep = 2
SPECIFICATION TrapSpec
INVARIANT TrapTypeOK
INVARIANT IdleIntact
 
