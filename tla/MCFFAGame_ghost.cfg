CONSTANTS
  Players = {p1, p2}
  p1 = p1
  p2 = p2
  NoVerdict = NoVerdict
  Tie = Tie
  MaxReconnects = 1
  MaxWire = 1
  MaxFaults = 0
  MaxChurn = 1
SPECIFICATION Spec
SYMMETRY Symmetry
INVARIANT NoGhostPlayer
\* The game is over for good after its ending event.
CHECK_DEADLOCK FALSE
