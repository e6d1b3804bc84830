CONSTANTS
  Handler = {h1}
  Check = check
  Boot = boot
  Retry = 1
  MaxDeploy = 2
  MaxPid = 2
SPECIFICATION FairSpec
INVARIANTS TypeOK NoStrayExporter 
PROPERTY DeadIsRestarted
