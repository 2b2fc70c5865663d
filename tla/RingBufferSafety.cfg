SPECIFICATION Spec
CONSTANTS
  Item = {a, b, c}
  Undefined = Undefined
  MinCapacity = 2
  Capacities = {0, 2, 3}
  MaxLength = 5
INVARIANTS TypeOK OnlyUsedSlotsHoldItems
PROPERTY ImplementsDeque
