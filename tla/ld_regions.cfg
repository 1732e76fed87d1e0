CONSTANTS
  ServerArgs <- MCServerArgs
  Lower <- MCLower
  None = None
SPECIFICATION Spec
INVARIANTS
  TypeOK
  RegionsDisjointInAddressSpace
  HeaderIndependentOfOrder
