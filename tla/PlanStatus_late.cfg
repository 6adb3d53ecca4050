SPECIFICATION Spec
CONSTANTS
    Plan = {p1, p2}
    NoPlan = NoPlan
    NoRow = NoRow
    User = {u1}
    NoUser = NoUser
    Superuser = {}
    Worker = {"w1", "w2"}
    Serves <- StatusAndLate
    Content = {blank, full}
    Blank = blank
    Complete = {full}
    NoContent = NoContent
INVARIANTS
    PublishedIsLocked
    VersionsFollow
    DeletedLeavesNothing
PROPERTIES
    StatusLostOnlyToLateSave
SYMMETRY Symmetry
CHECK_DEADLOCK FALSE
