SPECIFICATION FairScriptsSpec
CONSTANTS
  Nil = Nil
  Blank = Blank
  Malformed = Malformed
  TopicRoot = root
  root = root
  t = t
  ts = ts
  r1 = r1
  n = n
  d1 = d1
  none = none
  st = st
  sts = sts
  Ids = {root, t, ts, n}
  Details = {d1}
  Dates = {r1}
  Slugs = {none, st, sts}
  SentSlugs = {Blank}
  SubtopicLists <- NoSubtopics
  Seed <- SeedTree
  Missing = {t, ts, n}
  Unpublished = {}
  Requests = {q1}
  Targets = {root}
  Serial = FALSE
  SeedTopics <- SeedData
  AddTopics <- AddData
  MaxRuns = 2
INVARIANTS
  ScriptTypeOK
  LivePublished
  LinksMatchSubtopics
  ListedExist
  ListedOnce
  OrphansWereCut
  OneDocumentPerId
PROPERTIES
  LiveIsExplained
  AcknowledgedIsApplied
  ScriptsEnd
