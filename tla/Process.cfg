\* three calls; a signal, a kill or a failure of Serve
SPECIFICATION Spec
CONSTANTS
  Call = {k1, k2, k3}
  Config <- MCConfig
  Name = {n1}
  Account = {a1}
  MaxSignals = 1
  MaxKills = 1
CHECK_DEADLOCK FALSE
INVARIANT SocketFitsProcess
PROPERTIES SignalEnds Recovers LostOnlyIfForced DiesOnlyOfOverlap
