SPECIFICATION FairSpec
CONSTANTS
  Users = {u1}
  Dummies = {d1}
  System = System
  Times = {1, 2}
  MaxOwn = 2
  MaxRows = 2
  MaxMessages = 3
INVARIANTS
  TypeOK
  InServerOrder
  RowsAreAnswers
PROPERTY
  AnswersReachAll
\* When all is said there is nothing left to do.
CHECK_DEADLOCK FALSE
