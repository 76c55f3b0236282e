CONSTANTS
  Players = {p1, p2}
  p1 = p1
  p2 = p2
  NoVerdict = NoVerdict
  Tie = Tie
  MaxReconnects = 3
  MaxWire = 1
  MaxFaults = 4
  MaxChurn = 2
SPECIFICATION FairSpec
PROPERTY EndsWhenToldTo
\* The game is over for good after its ending event.
CHECK_DEADLOCK FALSE
