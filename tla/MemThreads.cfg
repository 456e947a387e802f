SPECIFICATION Spec
CONSTANTS
  Tasks = {1, 2}
  MMAP_FREE_MAX = 2
  VMA_CAPACITY = 7
  Memfds = {1}
  MEMFD_PAGES_MAX = 2
  Loads <- ThreadLoads
INVARIANT NoDoubleMap
