CONSTANTS
  MaxGames = 2
  MaxForces = 2
SPECIFICATION FairSpec
INVARIANT TypeOK
INVARIANT NoPhantomGame
INVARIANT SoloGameIsSound
INVARIANT StarterHearsOwnEnd
PROPERTY StartingSettles
\* No more games are started once MaxGames have been.
CHECK_DEADLOCK FALSE
