SPECIFICATION FairSpec
CONSTANTS
  net = net  c1 = c1  NoTask = NoTask
  Tasks = {net}
  Contexts = {c1}
  RequestIds = {1, 2}
  CtrlQueueLen = 1
  DataQueueLen = 1
  RespBufferLen = 1
  ModuleQueueLen = 1
  MaxWaiting = 2
  Faults = {"flow", "header", "garbled", "transfer"}
INVARIANTS
  RequestFindsContext
  AnswerMatches
  OnlyResetForgets
PROPERTIES
  QueuedRequestLeaves
