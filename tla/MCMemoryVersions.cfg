SPECIFICATION Spec
CONSTANTS
    f = f  c1 = c1  c2 = c2
    Memories = {1, 2, 3}
    Facts = {f}
    NoFact = NoFact
    Keys = {"k1", "k2", "k3"}
    Requests <- MCRequests
    Clients = {c1, c2}
    MaxVersion = 3
    MaxRequests = 4
SYMMETRY Symmetry
CHECK_DEADLOCK FALSE
INVARIANTS OneActiveFact CorrectionsInOrder ErasedStays AnswersRecorded
