SPECIFICATION FairSpec
CONSTANTS
  Text = 2
  Room <- MCRoom
  Chunk = 1
  Char <- MCChar
  MaxOut <- MCMaxOut
  ExitCode = {0}
INVARIANTS
  OutputWhole
  InputWhole

  
CHECK_DEADLOCK FALSE
