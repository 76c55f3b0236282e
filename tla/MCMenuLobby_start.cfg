CONSTANTS
  s1 = s1
  s2 = s2
  s3 = s3
  Serials = {s1, s2}
  Tasks = {t1, t2}
  None = None
  Starts <- MCFewStarts
SPECIFICATION FairSpec
PROPERTY AllReadyStartsGame
\* With no controller left and no disturbance, nothing more happens.
CHECK_DEADLOCK FALSE
