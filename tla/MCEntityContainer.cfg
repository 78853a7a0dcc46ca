SPECIFICATION Spec
CONSTANTS
  Indexes = {1, 2}
  Classes = {pawn, rules, spark}
  Tracked = {pawn, rules}
  pawn = pawn
  rules = rules
  spark = spark
  Fields = {f, g}
  f = f
  g = g
  Values = {0, 1}
  Baseline <- MCBaseline
  Absent = Absent
  MayReuse = FALSE
INVARIANTS TypeOK InStep TrackedIsCurrent NothingStale
PROPERTY VisitorSeesGame
