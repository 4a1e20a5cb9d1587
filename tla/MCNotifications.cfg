CONSTANTS
  Notif <- MCNotif
  Kind <- MCKind
  Side <- MCSide
  Buffer = 2
  MaxSends = 2
  MaxFaults = 1
SPECIFICATION FairSpec
INVARIANTS TypeOK DisabledIsClosed LogIsWhatCame AnswerOnItsSocket
PROPERTY PromiseSpec BothDrained
