CONSTANTS
  MaxU64 = 63
  Times = {0, 1, 2, 3, 4, 5, 7, 8, 9, 12, 15, 16, 17, 31, 32, 33, 63}
  Difficulties = {1, 2, 3, 4, 5, 7, 15, 16, 17, 63}
  Base = 4
  Digits = 4
  Leaves = {t1, t2, t3, t4}
SPECIFICATION AlgorithmsSpec
INVARIANTS
  RetargetClamped
  RetargetMonotone
  TargetIsQuotient
  RootsDiffer
