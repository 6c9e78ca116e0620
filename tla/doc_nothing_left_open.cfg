\* The reader logs a line while the slot thread polls the kill flag.
SPECIFICATION Spec
CONSTANTS
  r1 = r1
  Runs = {r1}
  Windows = FALSE
  LastChat = 1
  MaxTurns = 2
  MaxLines = 1
INVARIANTS NothingLeftOpen
