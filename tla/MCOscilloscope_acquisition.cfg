SPECIFICATION ScopeSpec
CONSTANTS
  SinWave = SinWave
  SquareWave = SquareWave
  c1 = c1
  c2 = c2
  cs = cs
  Machines <- BothWaves
  Async <- BothWaves
  Callers <- Clients12
  Destroyer = cs
  Orderly = TRUE
  Requests <- Commands
  DelegateOutcomes <- RuntimeErrors
  PushOutcomes <- NoException
  MaxCalls = 2
  Writes <- DecimationWrite
  Width = 4
  MaxPushes = 2
  StartFails = TRUE
  NoThread = NoThread
  NoMachine = NoMachine
  NoTransition = NoTransition
INVARIANTS StartFindsNoWorker AcquiresWhileRunning RunIsItsOwn NoTerminate
 
