SPECIFICATION Spec
CONSTANTS
  t1 = t1  t2 = t2  Targets = {t1, t2}
  MaxConcurrency = 3
  BaseInterval = 0  MinRlStep = 1  MaxInterval = 4  Full = 4
  Texts <- TwoTexts  PathOf <- TwoPaths  MoreTexts <- SomeTexts  Agents = {Anyone, "me"}  Paths <- SomePaths
  RobotsMayFail = TRUE  Ttl = 2
  OwnDelays = {1}  RlBound = 1
  MayCrash = TRUE  NoGov = NoGov  NoRobots = NoRobots
  Anyone = Anyone  NoNumber = NoNumber  NoDelay = NoDelay
INVARIANTS WaitersAreWoken RobotsReadAsWritten
PROPERTIES GrantsSpaced RestartRemembers HostRecovers
