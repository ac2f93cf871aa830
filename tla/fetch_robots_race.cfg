SPECIFICATION Spec
CONSTANTS
  Workers <- MCWorkers
  w1 = w1
  w2 = w2
  Pages <- MCMorePages
  Origins = {"https"}
  Hosts = {"host"}
  OriginOf <- MCOriginOf
  HostOf <- MCHostOf
  PathOf <- MCPathOf
  QueryOf <- MCQueryOf
  RobotsFile <- MCRobotsFile
  Token <- MCToken
  Rate = 1
  MaxRetries = 2
  MaxRedirects = 2
  BaseBackoff = 1
  MaxBackoff = 2
  RetryAfters = {0, 2}
  CachedRobots = {}
INVARIANT OnceReadObeyed
CHECK_DEADLOCK FALSE
