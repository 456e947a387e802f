SPECIFICATION Spec
CONSTANTS
  MaxPid = 4
  MAX_PROCESSES = 4
  Groups = {{2, 3}}
  Loads <- ThreadLoads
INVARIANT MemoryIntact
