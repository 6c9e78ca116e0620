\* One agent run, two messages for it, a lost acknowledgement, a kill, a CLI
\* that may hang, drop its output, leave a tool behind or die.
SPECIFICATION FairSpec
CONSTANTS
  r1 = r1
  Runs = {r1}
  Windows = FALSE
  LastChat = 2
  MaxTurns = 4
  MaxLines = 1
INVARIANTS DeliveredWasWritten TypedOrder OnlyAbortLeavesAgent
PROPERTIES OnlyChatHoldsOpen ClosesWhenAnswered RunsReturn
