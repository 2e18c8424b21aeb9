SPECIFICATION FairSpec
CONSTANTS
  Items <- MCItems
  Timeout <- MCTimeout
INVARIANTS
  TypeOK
  Exclusive
  OnCourse
PROPERTIES
  PayloadStable
  Transactions
  ComesBack
