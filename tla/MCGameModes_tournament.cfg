CONSTANTS
  None = None
  Tie = Tie
  NumTeams = 2
  Size <- MCSize
  Games = {"tournament"}
  Modes = {"teams"}
  Clock = 2
  MinRounds = 3
  MaxRounds = 6
  MaxField = 2
SPECIFICATION Spec
CHECK_DEADLOCK FALSE
INVARIANT
  LosersAreEliminated
