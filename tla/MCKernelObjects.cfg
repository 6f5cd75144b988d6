CONSTANTS
  t0 = t0
  t1 = t1
  t2 = t2
  Thread = {t0, t1, t2}
  Main = t0
  Idle = idle
  Null = null
  Sem = {s1}
  TimeSlice = 2
  StaleId = {0}
  MaxInit = 1
  MaxVal = 1
  MaxSleep = 2
SPECIFICATION ObjectsFairSpec
INVARIANT ObjectsTypeOK
INVARIANT ListsSpelled
INVARIANT RestartCutsBehind
PROPERTY WaitResult
PROPERTY ReadyRuns
PROPERTY SleeperWakes
