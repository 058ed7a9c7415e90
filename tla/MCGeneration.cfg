CONSTANTS
  MaxExtensions = 2
  Messages <- MCGenerationMessages
SPECIFICATION Spec
INVARIANTS
  WritersTakeCollated
  QLoggerSignatures
  RestrictedRequiresU
  EventsAnnotated
  VendorAtomsAgree
  OverloadsDistinct
  CallsResolve
  ConstantsDefined
