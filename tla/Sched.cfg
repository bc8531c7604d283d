SPECIFICATION Spec
CONSTANTS
  NULL = NULL
  serv_read = serv_read
  D_readev = dispread
  D_writeev = dispwrite
  w_readev = winread
  w_telconnev = wintel
  serv_select = serv_select
  w_destroyev = windestroy
  Events <- MCEvents
  Fd <- MCFd
  Prio <- MCPrio
  InitType <- MCInitType
  AltType <- MCAltType
  Conditional <- MCConditional
  InitQueue <- MCInitQueue
  MayEnq <- MCMayEnq
  MayDeq <- MCMayDeq
  MaxOps = 3
INVARIANTS
  TypeOK
  QueueOK
  CursorSafe
  PollArrayFits
  RoundComplete
  DispatchExact
