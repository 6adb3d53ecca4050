SPECIFICATION Spec
CONSTANTS
    Plan = {p1}
    Section <- Nested
    NoSection = "none"
    Super <- NestedSuper
    Above <- NestedAbove
    Named = {}
    Name = {ann}
    NoName = NoName
    NoRow = NoRow
    Worker = {w1}
    OptionalAtFirst <- OneTop
    RepeatableAtFirst <- OneTop
    Editable <- OneTop
    Deletable = {}
    MaxSerial = 3
INVARIANTS
    TypeOK
    OnlyOptionalSkipped
    SkippedHoldsNoAnswers
    SingletonHasOneRow
    SectionsKeepRows
PROPERTIES
    AnswersLostOnlyOnRequest
