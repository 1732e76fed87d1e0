CONSTANTS
  Names <- MCNames
  Data <- MCData
  NameChars <- MCNameChars
  ExprLists <- MCExprLists
  MaxSrcs = 2
  Missing = Missing
  Dir = Dir
  None = None
SPECIFICATION Spec
PROPERTY RmAsPosix
