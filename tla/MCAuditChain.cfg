\* Two writers whose clocks differ; two rows are damaged.
SPECIFICATION Spec
CONSTANTS
  w1 = w1
  w2 = w2
  c1 = c1
  c2 = c2
  Writers = {w1, w2}
  Skew <- TwoClocks
  Contents = {c1, c2}
  MaxId = 4
  NoWriter = NoWriter
  MaxTime = 4
  MaxDamage = 2
SYMMETRY Symmetry
CHECK_DEADLOCK FALSE
INVARIANTS
  TipIsTheHistory
  IntactChainVerifies
  VerifiedIsAPrefix
  ReportPinpoints
