SPECIFICATION Spec
CONSTANTS
  a = a
  b = b
  Paths = {a, b}
  MaxSize = 3
  MaxOrder = 3
  MaxPlayable = 3
INVARIANTS OrdersArePermutation PlayableNeverTooLow
PROPERTY ImplementsPlayOrder
SYMMETRY Interchangeable
