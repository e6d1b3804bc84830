CONSTANTS
  Job = {j1}
  Step = 3
  ChanSize = 1
  MaxLines = 2
SPECIFICATION Spec
CHECK_DEADLOCK FALSE
INVARIANT EachLineOnce
