SPECIFICATION Spec
CONSTANTS
    Plan = {p1}
    Section <- Nested
    NoSection = "none"
    Super <- NestedSuper
    Above <- NestedAbove
    Named = {}
    Name = {ann}
    NoName = NoName
    NoRow = NoRow
    Worker = {w1, w2}
    OptionalAtFirst <- OneTop
    RepeatableAtFirst <- OneTop
    Editable = {}
    Deletable = {p1}
    MaxSerial = 2
INVARIANTS
PROPERTIES
    FixLeavesOrder
SYMMETRY WorkerSymmetry
