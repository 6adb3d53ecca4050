SPECIFICATION Spec
CONSTANTS
    User = {u1, u2}
    NoUser = NoUser
    Superuser = {}
    Adder = u1
    Invitation = {i1}
    NoInv = NoInv
    NoRow = NoRow
    Never = Never
    Worker = {"w1", "w2"}
    Serves <- AllAndLate
    TTL = 1
    ListDays = 1
    MaxClock = 2
    MaxSerial = 3
INVARIANTS
    OutOfDateTogether
PROPERTIES
    InvitationLostOnlyToLateStep
    RightsChangeHands
    PlanKeepsEditor
CHECK_DEADLOCK FALSE
