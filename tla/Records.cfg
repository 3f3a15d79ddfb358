SPECIFICATION Spec
CONSTANTS
  Names <- WordNames
  Reads <- SurrealQL
  Random = {"r"}
  Fields = {"k"}
  Contents <- AllContents
  EdgeContents <- OneEdge
  Requests <- AllRequests
  Others <- AllOthers
  MaxRecords = 2
  Stored <- StoredContent
  Shown <- ShownContent
  Fatal <- FatalContent
  Received <- ReceivedContent
  NanosPerSec = 2
  MaxSecs = 1
  IntRange = 2
CONSTRAINT OneOfAKind
INVARIANTS
  TypeOK
  WriteBackKeeps
  RpcWriteBackSettles
PROPERTIES
  KeepsStore
