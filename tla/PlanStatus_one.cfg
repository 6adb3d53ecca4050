SPECIFICATION Spec
CONSTANTS
    Plan = {p1, p2}
    NoPlan = NoPlan
    NoRow = NoRow
    User = {u1, u2}
    NoUser = NoUser
    Superuser = {}
    Worker = {"w1"}
    Serves <- Alone
    Content = {blank, full}
    Blank = blank
    Complete = {full}
    NoContent = NoContent
INVARIANTS
PROPERTIES
    PublicForGood
SYMMETRY Symmetry
CHECK_DEADLOCK FALSE
