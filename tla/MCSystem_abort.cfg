SPECIFICATION SystemSpec
CONSTANTS
  Nil = Nil
  Blank = Blank
  Malformed = Malformed
  TopicRoot = root
  root = root
  t1 = t1
  t2 = t2
  t3 = t3
  d1 = d1
  s1 = s1
  MaxSeen = 3
  r1 = r1
  Ids = {root, t1, t2}
  Details = {d1}
  Dates = {r1}
  Slugs = {s1}
  SentSlugs = {Blank}
  SubtopicLists <- Listings
  Seed <- SeedTree
  Missing = {}
  Unpublished = {t1}
  Requests = {q1}
  Serial = TRUE
  Targets = {root, t1, t2}
  Readers = {c1}
  PrivateReaders = {}
  ReadFailures = FALSE
CONSTRAINT
  Bound
INVARIANT
  NeverAborts
