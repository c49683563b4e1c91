SPECIFICATION ProgramsSpec
CONSTANTS
  MaxNumCount = 5
  MaxThreadCount = 3
  IntLimit = 5
  Numbers = {0, 1}
  Unset <- MCUnset
  CellBytes = {0, 1}
  Hole = hole
  Sources <- MCSources
  Replacements <- MCReplacements
  MaxVersions = 2
  CopyBuffer = 2
  Inputs <- MCInputs
  BlockSize = 3
  MaxMemory = 5
  MaxFaults = 1
  AddressCount = 2
  HttpBytes = {0, 1, 2, 3}
  RequestBytes <- MCRequestBytes
  Answers <- MCAnswers
  StatusLine = 1
  RecvBuffer = 2
  SieveSize = 25
  Requests <- MCRequests
  MaxAsked = 2
INVARIANTS
  ProgramsTypeOK
  TotalIsSum
  ChunksApart
  ReadsFilled
  CopyIsExact
  ReportIsTrue
  OnlyWhatWasThere
  OutputSorted
  WithinMemory
  SortedUnlessLost
  SavedAsSent
  AnswersArePrimes
  BrokenBySignalOnly
PROPERTIES
  ProgramsEnd
  NobodyHangs
CHECK_DEADLOCK FALSE
