SPECIFICATION Spec
CONSTANTS
  Destinations = {"d1", "d2"}
  Channels <- MCChannels
  EvtCh = "evtCh"
  Into <- MCInto
  Work <- MCWork
  ChannelOf <- MCChannelOf
  ObjType <- MCObjType
  Key <- MCKey
  StatusType <- MCStatusType
  Needs <- MCNeeds
  DestinationOf <- MCDestinationOf
  MayHang <- MCWork
  MayPanic <- MCWork
  NoDestination = ""
  NoEvent = "none"
INVARIANTS
  TypeOK
  StatusExact
  ResultExact
PROPERTIES
  Ends
