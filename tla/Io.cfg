SPECIFICATION IoSpec
CONSTANTS
  XProc = {"p","q"}
  NBlocks = 4
  NInodes = 4
  BlockSize = 4
  NDirect = 2
  EXT2_FD_POOL = 2
  SYMLINK_MAX_DEPTH = 2
  NameLen <- Len_
  YProc = {"m","s","r"}
  PTY_MAX_PAIRS = 2
  PTY_BUF_SIZE = 4
  LINEBUF = 2
  XHCI_MAX_SLOTS = 4
  XHCI_MAX_PORTS = 2
  XHCI_CMD_RING_SIZE = 4
  XHCI_EVT_RING_SIZE = 5
  XHCI_TRANSFER_RING_SIZE = 9
  MOUSE_BUF_SIZE = 3
  NProc = {"p", "q"}
  VIRTQ_SIZE = 2
  ARP_TABLE_SIZE = 2
  ArpRounds = 2
  TCP_RETRANSMIT_MAX = 1
  NestMax = 2
  CACHE_SLOTS = 2
  BLKDEV_MAX = 4
  NVME_IO_QUEUE_DEPTH = 3
  XFER = 2
  AgeLimit = 99
  ESP_ALIGN = 6
  ESP_SIZE = 2
INVARIANTS IoIntact IoTables IoNobodyForgotten
PROPERTIES IoReturns
CHECK_DEADLOCK FALSE
