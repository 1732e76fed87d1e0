CONSTANTS
  ServerArgs <- MCServerArgsMore
  Lower <- MCLowerMore
  None = None
SPECIFICATION Spec
INVARIANTS
  RegionsDisjointInAddressSpace
