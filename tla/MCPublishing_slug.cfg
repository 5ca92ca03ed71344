SPECIFICATION Spec
CONSTANTS
  Nil = Nil
  Blank = Blank
  Malformed = Malformed
  TopicRoot = root
  root = root
  t1 = t1
  t2 = t2
  d1 = d1
  d2 = d2
  s1 = s1
  s2 = s2
  q1 = q1
  q2 = q2
  Ids = {t1}
  Details = {d1}
  Dates = {r1}
  Slugs = {s1, s2}
  SentSlugs <- OtherSlug
  SubtopicLists <- NoSubtopics
  Seed <- SeedOne
  Missing = {}
  Unpublished = {t1}
  Requests = {q1}
  Serial = TRUE
  Targets = {t1}
PROPERTY UpdateSetsSlug
