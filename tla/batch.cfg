SPECIFICATION BatchSpec
CONSTANTS
  P = P  Q = Q  ap = ap  bq = bq  cr = cr  sp = sp  S1 = S1  S2 = S2
  NoUrl = NoUrl  NoText = NoText  NoBatch = NoBatch  Waiting = Waiting  Failed = Failed
  Canon <- SomeCanon
  HostOf <- SomeHosts
  Slop = {sp}
  MinWords = 2  MaxLinks = 3  Near = 20  MinHosts = 3  MaxHosts = 4
  Window = 0  MaxEntries = 4
  Batches <- SomeBatches
  Pages <- SomePages
  Feeds <- SomeFeeds
  Summaries <- SomeSummaries
  Denied = {cr}
  MaxTime = 1
INVARIANTS SourcesAreMerged FetchesBounded
PROPERTIES CorroboratedByHosts
