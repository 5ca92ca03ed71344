SPECIFICATION Spec
CONSTANTS
  Nil = Nil
  Blank = Blank
  t1 = t1
  a = a
  b = b
  c1 = c1
  c2 = c2
  Ids = {t1}
  HRefs = {1, 2}
  Titles = {a, b}
  LinkLists <- Lists
  Documents <- FewDocuments
  Clients = {c1, c2}
  Editors = {c2}
INVARIANT
  TypeOK
PROPERTIES
  ContentIsComplete
  NotFoundHasNone
  ContentOfKnownTopic
