CONSTANTS
  MaxExtensions = 1
  Messages <- MCMessages
SPECIFICATION Spec
INVARIANT EnumsAreInts
