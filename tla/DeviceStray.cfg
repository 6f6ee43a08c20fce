SPECIFICATION Spec
CONSTANTS
  ro = ro
  wo = wo
  blk = blk
  None = None
  Obj <- MCObj
  Access <- MCAccess
  Block = {blk}
  DeviceList <- MCDeviceList
  DescrList <- MCDescrList
  ReadLists <- MCReadLists
  Settings <- MCSettings
  MaxTotal = 2
  MaxChunk = 1
  MaxInbox = 1
INVARIANTS
  ShownIsRequested
CHECK_DEADLOCK FALSE
