SPECIFICATION Spec
CONSTANTS
    c1 = c1  c2 = c2  k1 = k1  k2 = k2  k3 = k3  k4 = k4
    Clients = {c1, c2}
    Entries = {1}
    Texts = {"plain", "private"}
    Sensitive = {"private"}
    NoText = NoText
    Fields = {"all"}
    NoFields = NoFields
    Keys = {k1, k2, k3, k4}
    NoKey = NoKey
    NoEntry = NoEntry
    Capacity = 1
    Offers <- Everyone
    Ending = {"own", "native"}
    MaxVersion = 4
    MaxLink = 3
    MaxAsks = 4
SYMMETRY Symmetry
CHECK_DEADLOCK FALSE
INVARIANTS AppliedOnce ReadsAreApproved
