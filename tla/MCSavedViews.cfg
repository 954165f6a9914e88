\* Two requests at a time on one id, the retention, a restart, Postgres failing anywhere.
SPECIFICATION ViewsSpec
CONSTANTS
  t1 = t1  t2 = t2  a = a
  NoView = NoView
  Thread = {t1, t2}
  ViewId = {a}
  View <- MCView
  Cutoffs = {2}
  Private = TRUE
  MaxRestarts = 1
SYMMETRY Symmetric
INVARIANTS
  ListsWhatWasSaved
