\* Every handler, three requests at a time.
SPECIFICATION Spec
CONSTANTS
  r1 = r1
  r2 = r2
  r3 = r3
  Requests = {r1, r2, r3}
  Handlers <- AllHandlers
INVARIANTS
  TypeOK
  DeadlocksMixOrders
SYMMETRY Symmetry
