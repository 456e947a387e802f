SPECIFICATION FairSpec
CONSTANTS
  MaxPid = 4
  MAX_PROCESSES = 4
  Groups = {{2, 3}}
  Loads <- MCLoads
INVARIANTS WaiterMissesNothing NoOrphans LiveTasksSound
PROPERTIES DeadStayDead WaitReturns
