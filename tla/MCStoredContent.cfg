SPECIFICATION Spec
CONSTANTS
    f1 = f1  r1 = r1  r2 = r2  b1 = b1  b2 = b2  w1 = w1  w2 = w2
    Files = {f1}
    Records = {r1, r2}
    Bodies = {b1, b2}
    Writers = {w1, w2}
    Savers = {"s1"}
    Deleters = {"user", "cleanup"}
    NoFile = NoFile
    NoBody = NoBody
    SourceSize = 1
    ParsedSizes = {1}
    MaxParsed = 2
    Quota = 3
    MaxWrites = 2
    MaxFaults = 1
SYMMETRY Symmetry
CHECK_DEADLOCK FALSE
INVARIANTS ReadyIsStored DeletedInTimeIsGone BodyReadable
