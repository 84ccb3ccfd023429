CONSTANTS
  t1 = t1
  t2 = t2
  n1 = n1
  Transfers = {t1, t2}
  Names = {n1}
  Name <- OneName
  Size <- TwoAndNothing
  MaxChunk = 1
  Free = Free
SPECIFICATION Spec
INVARIANTS PublishedIsWhole NothingLeaks CatalogAgrees
PROPERTIES ImplementsLibrary ClosedIsReleased CommitEnds
CHECK_DEADLOCK FALSE
