CONSTANTS
  Numbers = {0, 2}
  IntBits = 10
  MAXOPSTACK = 8
  Sloppy = {}
  Strings = {"", "1"}
  MAXTESTSTACK = 8
  Terse = {}
  Loose = {}
  WordParts <- MCWordParts
  WordEnds <- MCWordEnds
  Envs <- MCEnvs
  Cramped = {}
  Offhand = {}
  Spellings <- MCSpellings
  Eager = {}
  Histories <- MCHistories
  Modifiers <- MCModifiers
  Pieces <- MCPieces
  MAX_ALIASES = 3
  Fickle = {}
  AliasCalls <- MCAliasCalls
  AliasLines <- MCAliasLines
SPECIFICATION Spec
INVARIANT AsWritten
INVARIANT AsDocumented
INVARIANT AsMeant
INVARIANT AsStructured
INVARIANT AsReferred
CHECK_DEADLOCK FALSE
