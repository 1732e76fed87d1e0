CONSTANTS
  Programs <- MCProgramsDistinctNames
  Upper <- MCUpper
  TypeLayout <- MCTypeLayout
  None = None
  AnyFields = AnyFields
  NoRets = NoRets
  Scalar = Scalar
  Absent = Absent
  Stale = Stale
  Truncated = Truncated

SPECIFICATION Spec

INVARIANT AcceptedIdlWellFormed
