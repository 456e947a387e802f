SPECIFICATION IpcSpec
CONSTANTS
  User = {p1, p2}
  Idle = Idle
  Sentinel = Sentinel
  NULL = NULL
  Master = Master
  MaxSleep = 2
  p1 = p1
  p2 = p2
  p3 = p3
  Proc = {p1, p2, p3}
  IdleTask = IdleTask
  NoTask = NoTask
  Creator = p1
  Loads <- ExitLoads
  Actions <- MCActions
  PIPE_BUF_SIZE = 2
  Mod = 3
  MaxHold = 2
  Masks = {{"CHLD"}, {"KILL", "INT", "CHLD", "STOP"}}
  MaxDepth = 2
INVARIANTS NeverHangs
