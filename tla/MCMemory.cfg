CONSTANTS
  Threads = {t1, t2}
  MaxObjects = 2
  Sizes = {3}
  Null = Null
SYMMETRY Symmetry
SPECIFICATION Spec
INVARIANTS AssertionsHold FreedWhenUnreferenced LocksHeld
CHECK_DEADLOCK FALSE
