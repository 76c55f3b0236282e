CONSTANTS
  Players = {p1, p2, p3}
  p1 = p1
  p2 = p2
  p3 = p3
  NoVerdict = NoVerdict
  Tie = Tie
  MaxReconnects = 2
  MaxWire = 2
  MaxFaults = 3
  MaxChurn = 2
SPECIFICATION Spec
SYMMETRY Symmetry
INVARIANT TypeOK
INVARIANT LastPlayerStands
INVARIANT EndingIsExplained
INVARIANT VerdictIsFinal
INVARIANT DisconnectsAreAccounted
PROPERTY StaleDisconnectsNeverKill
PROPERTY RefinesElimination
\* The game is over for good after its ending event.
CHECK_DEADLOCK FALSE
