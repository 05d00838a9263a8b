CONSTANTS
    Compound = {"list", "while", "until", "select", "forexpr"}
    Programs = {"earlyExit"}
    MaxCount = 1
    MaxDepth = 5
SPECIFICATION Spec
PROPERTY Unwinds
