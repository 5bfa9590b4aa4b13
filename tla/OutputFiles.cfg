SPECIFICATION OutputSpec
CONSTANTS
  Programs <- MCPrograms
  Output <- MCOutput
  Executable <- MCExecutable
  Directory <- MCDirectory
  Iterations = 2
  Present <- MCPresent
  Intruders <- MCIntruders
PROPERTIES
  ReportsKept
