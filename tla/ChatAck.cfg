SPECIFICATION Spec
CONSTANTS
  Users = {u1}
  Dummies = {d1}
  System = System
  Times = {1, 2}
  MaxOwn = 2
  MaxRows = 2
  MaxMessages = 3
INVARIANT
  AcksOwn
