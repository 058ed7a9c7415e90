CONSTANT
  Atoms <- MCAtoms
SPECIFICATION Spec
INVARIANT SuggestedNumberIsPosition
