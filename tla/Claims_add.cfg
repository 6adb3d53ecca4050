SPECIFICATION Spec
CONSTANTS
    Plan = {p1}
    Section <- Nested
    NoSection = "none"
    Super <- NestedSuper
    Above <- NestedAbove
    Named = {}
    Name = {ann}
    NoName = NoName
    NoRow = NoRow
    Worker = {w1}
    OptionalAtFirst <- OneTop
    RepeatableAtFirst <- OneTop
    Editable = {}
    Deletable = {}
    MaxSerial = 4
PROPERTIES
    AddIsNotRefused
