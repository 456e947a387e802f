SPECIFICATION Spec
CONSTANTS
  PAGE_SIZE = 3
  PMM_MAX_PAGES = 4
  MAX_REFCOUNT = 2
  Usable <- MCUsable
  Reserved <- MCReserved
  KVA_BASE = 1
  KVA_FREE_MAX = 2
  MaxAlloc = 3
  KvaPages = 8
  VMA_CAPACITY = 4
  MaxVa = 4
  Prots = {1, 3}
  Types = {"mmap", "shared"}
INVARIANTS BootMapExact CountsOwners NoOverlap NothingForgotten ShowsPages
CHECK_DEADLOCK FALSE
