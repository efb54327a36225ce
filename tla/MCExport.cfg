SPECIFICATION Spec
CONSTANTS
    root = root
    sub = sub
    leaf = leaf
    File = {root, sub, leaf}
    Missing = missing
    Root = root
    Library <- MCLibrary
    Address <- MCAddress
    MaxDepth = 3
CHECK_DEADLOCK FALSE
INVARIANTS
    InvalidIffBadFile
    ExportIsFlattening
    BenchmarkUnlessShifted
