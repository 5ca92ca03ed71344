SPECIFICATION FairClientSpec
CONSTANTS
  Nil = Nil
  Blank = Blank
  Malformed = Malformed
  TopicRoot = root
  root = root
  t1 = t1
  d1 = d1
  s1 = s1
  r1 = r1
  Ids = {root, t1}
  Details = {d1}
  Dates = {r1}
  Slugs = {s1}
  SentSlugs = {Blank}
  SubtopicLists <- NoSubtopics
  Seed <- SeedPair
  Missing = {}
  Unpublished = {t1}
  Requests = {q1, q2}
  Targets = {t1}
  Serial = FALSE
  Readers = {c1}
  PrivateReaders = {}
  ReadFailures = TRUE
  PutRequests <- Calls
  EnablePermissionsAuth = TRUE
  MaxAttempts = 2
INVARIANTS
  ClientTypeOK
PROPERTIES
  ReportedIsApplied
  RefusalsChangeNothing
  ReturnedWasServed
  CallsEnd
