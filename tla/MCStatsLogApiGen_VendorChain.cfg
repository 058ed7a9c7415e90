CONSTANTS
  CommandLines <- MCCommandLines
  Collations <- MCCollations
SPECIFICATION Spec
INVARIANT VendorChainFound
