CONSTANTS
  Job = {j1, j2}
  Step = 1
  ChanSize = 1
  MaxLines = 2
SPECIFICATION FairSpec
CHECK_DEADLOCK FALSE
INVARIANTS TypeOK EachLineOnce OneHandler
PROPERTY PostsAndLinesEnd
