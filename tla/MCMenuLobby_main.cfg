CONSTANTS
  s1 = s1
  s2 = s2
  s3 = s3
  Serials = {s1, s2, s3}
  Starts <- MCStarts
  Tasks = {t1, t2, t3}
  None = None
SPECIFICATION FairSpec
INVARIANT TypeOK
INVARIANT SomebodyBringsTheLobbyBack
INVARIANT ControllersStartOneGame
INVARIANT GhostsDoNotStay
INVARIANT SleepersWakeTogether
PROPERTY LobbyComesBack
\* With no controller left and no disturbance, nothing more happens.
CHECK_DEADLOCK FALSE
