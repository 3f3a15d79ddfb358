SPECIFICATION Spec
CONSTANTS
  Names <- AnyNames
  Reads <- SurrealQL
  Random = {"r"}
  Fields = {"k"}
  Contents <- FewContents
  EdgeContents = {}
  Requests = {}
  Others = {}
  MaxRecords = 2
  Stored <- StoredContent
  Shown <- ShownContent
  Fatal <- FatalContent
  Received <- ReceivedContent
  NanosPerSec = 2
  MaxSecs = 1
  IntRange = 2
PROPERTIES
  FoundByName
