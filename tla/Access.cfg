\* Every configuration of three sources, and every request.
SPECIFICATION Spec
CONSTANTS
    x = x
    y = y
    Secret = {x, y}
    None = None
    Empty = Empty
    Missing = Missing
    Broken = Broken
    FileContents <- Files
INVARIANTS AsConfigured Inv
