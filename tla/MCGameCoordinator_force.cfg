CONSTANTS
  MaxGames = 1
  MaxForces = 1
SPECIFICATION FairSpec
PROPERTY ForcedGameEnds
\* No more games are started once MaxGames have been.
CHECK_DEADLOCK FALSE
