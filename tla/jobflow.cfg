SPECIFICATION Spec
CONSTANTS
  j1 = j1  j2 = j2
  Jobs = {j1, j2}
  Starts <- SomeStarts  NoJob <- NotAJob  Fragments <- SomeFragments
  Map = Map  Var = Var  Unbuildable = Unbuildable  Raised = Raised
  None = None  Odd = Odd  NoColumns = NoColumns
  Tokens <- TokensOf
  Retries = 1  SpoolMax = 2  Inferred = TRUE
  MaxPolls = 2  MayCrash = TRUE
  Selectors = {s1, s2, s3}  Watched = {s1, s2}  Contents = {Empty, x, y}  Empty = Empty
  s1 = s1  s2 = s2  s3 = s3  x = x  y = y  Places <- InOrder  Snapshots <- SomePages
  NoPrev = NoPrev  NoTag = NoTag  NoPoll = NoPoll  MaxEdits = 3
  p1 = p1  p2 = p2  Products = {p1, p2}  Searches <- TwoSearches  MaxResults = 2  Ttl = 2
  Bare = Bare  NoPage = NoPage  NoSweep = NoSweep  NoRows = NoRows
  w1 = w1  w2 = w2  w3 = w3  Words = {w1, w2, w3}  Bank = {w1}  Draw = 1  PerPoll = 2  MaxPool = 2
  NoTerms = NoTerms  Titles <- SomeTitles
INVARIANTS PlanLoadsAsWritten NothingLost NoticesAreExact HarvestedOnce
PROPERTIES NewItemsGoOutOnce BacklogFlushes DetailsFetchedOncePerTtl
CHECK_DEADLOCK FALSE
