CONSTANT
  Calls <- MCCalls
SPECIFICATION Spec
INVARIANTS
  IInv
  BufferTiled
  InBuffer
  SentWhenItFits
  ReadBack
