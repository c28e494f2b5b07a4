SPECIFICATION MCSpec
CONSTANTS
  Targets = {t1, t2}
  connRateBurst = 2
  Cost = 2
  connRateGCEvery = 2
  connRateMaxIdle = 4
  Conns = {c1}
  Associator = c1
  Sources = {"s1", "s2"}
  Keys = {"k1", "k2"}
  MaxRelays = 2
  Callers = {l1, l2}
  Hosts = {"h1", "h2"}
  Override = FALSE
  Pushed <- OnePushed
  QTypes = {"A", "AAAA"}
  dnsCacheMaxEntries = 1
  evictSample = 2
  Names = {"q", "a", "b"}
  MaxRecords = 3
  MaxFlights = 2
INVARIANTS
  HandlerLeavesNothing
  RegisteredWhilePumping
  DenialIsFinal
  CacheSound
  ResponsesReadRight
PROPERTIES
  ImplementsTokenBucket
  HandlersEnd
  
