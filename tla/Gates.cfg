SPECIFICATION Spec
CONSTANTS
  p = p  q = q  g = g  x = x  y = y
  Text = {x, y}
  Keep = Keep
  File = {p, q, g}
  Nowhere = Nowhere
  Graded = {p, q, g}
  Generated = {g}
  WINDOW = 2
  Trees <- AllTrees
  Branches <- AllBranches
  Domains <- AllDomains
  Expressible = {q, g}
  Runs <- AllRuns
  Mutants <- AllMutants
  MaxMutants = 2
  Floors <- SomeFloors
  c1 = c1  c2 = c2  c3 = c3  n1 = n1  n2 = n2  n3 = n3
  Case = {c1, c2, c3}
  Behaviour = {1, 2}
  Lists <- AllLists
  Namings <- AllNamings
  Normalisers <- AllNormalisers
  Matrices <- AllMatrices
  Unusable = Unusable
  Whole = Whole
  Torn = Torn
  MaxEdits = 1
  MaxDeaths = 1
  Limiters <- AllLimiters
  BOUND = 3
  Started = {"child", "other"}
  MaxSaid = 1
  ATTEMPTS = 2
  MaxStarts = 2
  Heirs = {"bash", "redis-server"}
  pa = pa  pb = pb
  Path = {pa, pb}
  Malformed = Malformed
  Tables <- AllRouteTables
  Waivings <- AllWaivings
  MaxRequests = 4
  MaxRestarts = 1
  ENOUGH_FAILURES = 2
  MaxAsked = 2
  NoCommit = NoCommit  NoSnapshot = NoSnapshot  NotRoutes = NotRoutes
  Commits <- AllCommits
  Hatches <- AllHatches
  Checkouts = {"found", "ref"}
  t1 = t1  t2 = t2  t3 = t3  t4 = t4
  Night = {t1, t2, t3, t4}
INVARIANTS CleanMeansNone EachReportHolds GreenMeansGraded GreenIsPinned PassesWhatPromises ProbeVerdictStands RunsUnderARoot GreenMeansReached RoutesOutlive
PROPERTIES ProbeAnswers OneIssueTells
