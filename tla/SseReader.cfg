SPECIFICATION ReaderSpec
CONSTANTS
  Lines <- MCLines
  MaxLines = 5
INVARIANTS
  
  EndTold
