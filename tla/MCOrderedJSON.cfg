SPECIFICATION Spec
CONSTANTS
    Pieces <- McPieces
    MaxPieces = 5
    Written <- JSONString
INVARIANT NoImpossibleState
INVARIANT ReadsByGrammar
INVARIANT WrittenIsReadBack
PROPERTY EveryCharIsDealtWith
CHECK_DEADLOCK FALSE
