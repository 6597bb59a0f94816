SPECIFICATION Spec
CONSTANTS
  Made = {m1, m2, m3}
  Derived = {}
  Async = {a1}
  None = None
  Foreign = Foreign
SYMMETRY Symmetry
PROPERTY OnlyParkedNow
