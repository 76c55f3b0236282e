CONSTANTS
  MaxGames = 1
  MaxForces = 0
SPECIFICATION FairSpec
PROPERTY StarterHearsTheEnd
\* No more games are started once MaxGames have been.
CHECK_DEADLOCK FALSE
