CONSTANT
  Atoms <- MCAtoms
SPECIFICATION Spec
INVARIANTS
  TypeOK
  IInv
  ReturnsCollatedAtom
  OneErrorPerMisplacedField
  PrimaryKeyAgrees
  StateBelongsToExclusiveField
PROPERTY ImplementsContract
