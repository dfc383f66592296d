SPECIFICATION Spec
CONSTANTS
  Replica = {0, 1, 2}
  BaseLen = 1
  MaxOps = 3
  MaxInsert = 1
  MaxBatch = 2
INVARIANTS
    ObservedIsApplied
    OrderAgrees
    VisibleIsDerived
    Converged
    DeferredNotReady
