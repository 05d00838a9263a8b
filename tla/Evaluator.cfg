CONSTANTS
    Compound = {"list", "for", "while", "if", "function", "case", "eval", "source"}
    Programs = {}
    MaxCount = 2
    MaxDepth = 7
SPECIFICATION Spec
INVARIANTS TypeOK LevelCounts NothingRunsPending
PROPERTY Unwinds
