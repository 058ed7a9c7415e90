CONSTANTS
  MaxExtensions = 3
  Messages <- MCMessages
SPECIFICATION Spec
INVARIANTS
  TypeOK
  OrderIndependent
  ErrorsAddUp
  AnnotationsFoundByPosition
  NonChainedCallsChained
PROPERTIES
  ImplementsContract
  NothingTakenBack
