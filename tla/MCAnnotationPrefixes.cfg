CONSTANTS
  CommandLines <- MCCommandLines
  Collations <- MCCollations
SPECIFICATION PrefixSpec
INVARIANTS
  TypeOK
  OnlyCleanAtomsWritten
  ExitTellsOfBrokenFiles
  OldLevelsFit
  OutputsWritten
  PrefixesFit
PROPERTY ToolReturns
