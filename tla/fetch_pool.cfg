SPECIFICATION FairSpec
CONSTANTS
  Workers <- MCWorkers
  w1 = w1
  w2 = w2
  Pages <- MCPages
  Origins = {"https"}
  Hosts = {"host"}
  OriginOf <- MCOriginOf
  HostOf <- MCHostOf
  PathOf <- MCPathOf
  QueryOf <- MCQueryOf
  RobotsFile <- MCRobotsFile
  Token <- MCToken
  Rate = 1
  MaxRetries = 2
  MaxRedirects = 2
  BaseBackoff = 1
  MaxBackoff = 2
  RetryAfters = {1}
  CachedRobots = {"nil", "file"}
INVARIANT TypeOK
INVARIANT RateHeld
INVARIANT PaceHeld
INVARIANT ForbiddenOnlyBlind
INVARIANT HitsBounded
PROPERTY GetsEnd
CHECK_DEADLOCK FALSE
