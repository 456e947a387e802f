SPECIFICATION NetSpec
CONSTANTS
  UProc = {"srv", "c1", "c2"}
  UServer = "srv"
  UOwner = "c1"
  UNIX_SOCK_MAX = 5
  UNIX_BUF_SIZE = 4
  BACKLOG = 2
  UNIX_PASSED_FD_MAX = 2
  MaxFiles = 2
  IProc = {"srv", "c1", "c2"}
  SOCK_TABLE_SIZE = 4
  TCP_MAX_CONNS = 4
  TCP_RBUF_SIZE = 4
  LO_RING_SIZE = 2
  UDP_RX_SLOTS = 3
  ACCEPT_SLOTS = 2
  TCP_RTO_INITIAL = 1
  TCP_RTO_MAX = 2
  TCP_RETRANSMIT_MAX = 2
  TCP_TIMEWAIT_TICKS = 2
  SeqMod = 16
  FirstTick = 13
  EThread = {"t1", "t2"}
  EFd = {0, 1}
  EPOLL_MAX_INSTANCES = 1
  EPOLL_MAX_WATCHES = 2
INVARIANTS NetStreams NetNobodyForgotten NetTables
PROPERTIES NetReturns
CHECK_DEADLOCK FALSE
