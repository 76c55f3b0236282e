CONSTANTS
  None = None
  Tie = Tie
  NumTeams = 2
  Size <- MCSize
  Games = {"sides", "zombie", "fight_club", "tournament"}
  Modes = {"teams", "random_teams", "traitor", "swapper", "werewolf"}
  Clock = 2
  MinRounds = 3
  MaxRounds = 6
  MaxField = 16
SPECIFICATION Spec
CHECK_DEADLOCK FALSE
INVARIANTS
  TypeOK
  VerdictsAgree
  SomebodySurvives
  LightsTellWhoPlays
  SwappersComeBack
  ZombiesComeBack
  HumansAreHuman
  EveryPlayerHasOnePlace
  RoundsSettleOnce
  SomebodyWatchesTheRound
  BracketIsFair
PROPERTIES
  ForcedGamesEnd
  TimeEndsTheGame
