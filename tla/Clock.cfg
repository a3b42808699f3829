CONSTANTS
  p1 = p1
  p2 = p2
  none = none
  Procs <- TwoProcs
  NoMarker = none
  NoClock = none
  NoCall = none
  Ticks <- MCTicks
  Minutes <- MCMinutes
  MaxRevision = 3
  MaxFaults = 1
SYMMETRY Symmetry
SPECIFICATION Spec
INVARIANTS TypeOK OneIdentity CalendarAgrees
PROPERTIES MarkerLast ClockAdvances
