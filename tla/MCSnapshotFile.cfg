SPECIFICATION Spec
CONSTANTS
  here = here
  there = there
  c1 = c1
  c2 = c2
  reader = reader
  table = table
  old = old
  new = new
  NoFile = NoFile
  Absent = absent
  Paths = {here, there}
  Collectors = {c1, c2}
  Readers = {reader}
  Objects = {table}
  Configs = {old, new}
  Scope <- MCScope
  Nested = {table}
  Varying = {table}
  Older <- MCOlder
  Growing = {table}
  Builds <- MCBuilds
  Parts = 2
  MaxChanges = 1
SYMMETRY Symmetry
INVARIANTS TypeOK LoadsWhatWasSaved DiffIsEarned
CHECK_DEADLOCK FALSE
