CONSTANTS
  Requests <- MCRequests
  WellNamed <- MCWellNamed
  Fingerprint <- MCFingerprint
SPECIFICATION Spec
INVARIANT ReadsRecursively
