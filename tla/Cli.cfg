SPECIFICATION Spec
CONSTANTS
  NoEntry = NoEntry
  NoAction = NoAction
  Primes <- MCPrimes
  Pieces <- MCPieces
  CommandLines <- MCCommandLines
  Environments <- MCEnvironments
  MinCommands = 1
  MaxErrors = 3
  SyntaxSize = 9
  StaticSize = 6
  SmallAppend = 10
  FirstAppend = 20
INVARIANTS
  ParsedAsMeant
  ArmedAsMeant
  OutputFits
  CommandsAreListed
PROPERTIES
  CommandEnds
CHECK_DEADLOCK FALSE
