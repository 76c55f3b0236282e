SPECIFICATION Spec
CONSTANTS
  Parts = {"lights", "backend", "hid", "discovery", "audio"}
  None = None
  Serials = {s1}
  Readers = {menu, game}
  Colours = {lobby, player}
  Tasks = {t1, t2, t3}
  MaxCommands = 3
  Adapters = {adapter1, adapter2}
  Preferences = {None, adapter1}
  MaxPipe = 1
  MaxOutputs = 2
  MaxFaults = 1
  Implementations = {"rust", "python"}
  Paths = {d1, d2}
  Links = {l1, l2, l3, l4, l5}
  MaxFeed = 1
  MaxRequests = 1
  MaxMishaps = 1
  Controllers = {c1, c2}
  Buttons = {trigger}
  Streams = {menu}
  MaxQueue = 2
  MaxNews = 4
  Channels = {1}
  Voices = {v1, v2}
  Patterns = {lobbySong, gameSong, missing}
  Playable = {lobbySong, gameSong}
  Requests = {q1, q2}
  Fades = {f1, f2}
  MaxCalls = 3
  MaxCrashes = 1
INVARIANTS
  TypeOK
  ColoursSettle
  EffectsLetGo
  ReadersKnowWhoIsThere
  ChannelsAreHonest
  TempoStaysWithTheTrack
PROPERTIES
  ControllersConverge
  NewestTrackIsHeard
CHECK_DEADLOCK FALSE
