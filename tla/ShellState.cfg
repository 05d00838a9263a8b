CONSTANTS
  Names = {"x"}
  Values = {"a", "b"}
  Args = {"a"}
  Null = Null
  Param = Param
  Risky = {}
  MaxTables = 3
  MaxLowered = 2
  Regular = {"f"}
  Device = "tty"
  Redirs <- MCRedirs
  Reckless = {}
  MaxDescriptor = 14
  MaxFrames = 2
  MaxExecs = 1
  Signals = {1, 2}
  Touchy = {}
  MaxActive = 3
  Commands <- MCCommands
  HISTSIZE = 3
  HISTFILESIZE = 3
  Hasty = {}
  MaxEntries = 4
  Dirs = {"a", "b"}
  Rash = {}
  MaxNodes = 4
  EnteredLines <- MCEntered
  TypedLines <- MCTyped
  Chars = {"a"}
  Patterns <- MCPatterns
  Clumsy = {}
  MaxLine = 6
  MaxKeys = 3
  MaxPids = 4
  JobSize = 2
  MAX_JOBS = 3
  Lapses = {}
SPECIFICATION Spec
INVARIANT TypeOK
INVARIANT FewLost
INVARIANT OutputKept
INVARIANT AllOrNothing
INVARIANT NeverRecursive
INVARIANT NothingOwed
INVARIANT RightTrap
INVARIANT UnsavedKnown
INVARIANT AsManual
INVARIANT AsTyped
INVARIANT TableKept
PROPERTY Scoped
PROPERTY StreamsReturn
PROPERTY NothingForgotten
