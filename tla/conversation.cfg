SPECIFICATION Spec
CONSTANTS
    Senders = {a, b}
    MaxId = 6
    MaxIter = 3
    Cap = 2
    Silent = Silent
SYMMETRY Symmetry
INVARIANTS TypeOK IdsAreDense
PROPERTIES OnlySeenChanges SeenInOrder
