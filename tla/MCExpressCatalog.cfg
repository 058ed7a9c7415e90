CONSTANTS
  Requests <- MCRequests
  WellNamed <- MCWellNamed
  Fingerprint <- MCFingerprint
SPECIFICATION Spec
INVARIANTS
  TypeOK
  MetricsOfFilesRead
  HashesDistinct
  BrokenFileTold
PROPERTY ImplementsContract
