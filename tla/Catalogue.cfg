SPECIFICATION Spec
CONSTANTS
    Key = {"k1", "k2"}
    MaxRows = 2
    Section = {"a", "b", "c", "d"}
    NoSection = "none"
    FirstPlaces <- TwoBelowOne
    Designer = {"d1", "d2"}
    Does <- OneMovesOnly
    Requests <- OneAndTwo
    MaxPosition = 12
    Importer = {i1, i2}
    i1 = i1
    i2 = i2
    TemplateExport <- TemplateExports
    PlanExport <- PlanExports
    NoUuid = "none"
    HereUuid = "u0"
    MaxKey <- MaxKeys
    Document <- Documents
    MaxImports = 2
    MaxEdits = 2
    SectionsInTemplate = 3
    QuestionsAsked = 2
    DesignedTemplates <- Designs
    NewSection = 9
    NewQuestion = 9
    MaxDesignChanges = 1
    PlanTemplates <- Forms
    Names = {"n"}
    FirstRows <- Firsts
    MaxPlanEdits = 4
    Databases <- SomeDatabases
    WrittenPlans <- PlansToShow
    View = {"summary", "text"}
    MaxPages = 2
    MaxRequests = 2
SYMMETRY Importers
INVARIANTS
    AcceptedIsValid
    AcceptedIsKept
    OnlyBlanksFail
    MoveDoesAsAsked
    RoundTrip
    AskedInOwnSection
    ExportIsWhole
    AnswerIsTold
    ArrivesAsSent
    PageIsWhole
PROPERTIES
    OrderLeftAlone
    RepeatedOnlyUnseen
    WalkIsStraight
CHECK_DEADLOCK FALSE
