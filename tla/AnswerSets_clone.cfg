SPECIFICATION Spec
CONSTANTS
    Plan = {p1, p2}
    Section <- Nested
    NoSection = "none"
    Super <- NestedSuper
    Above <- NestedAbove
    Named <- OneTop
    Name = {ann}
    NoName = NoName
    NoRow = NoRow
    Worker = {w1}
    OptionalAtFirst <- OneTop
    RepeatableAtFirst <- OneTop
    Editable = {}
    Deletable = {}
    MaxSerial = 2
INVARIANTS
    TreeConsistent
SYMMETRY PlanSymmetry
