SPECIFICATION Spec
CONSTANTS
  Threads = {t1, t2}
  MaxEvents = 1
  EntryBytes = 4
  MaxBytes = 4
  None = None
SYMMETRY CacheSymmetry
INVARIANTS HitIsOfItsTexts OneCompileOfAKey AskedIsWalked WaitersHaveAHolder
