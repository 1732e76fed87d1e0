CONSTANTS
  NmFiles <- MCNmFiles
  Images <- MCImages
  BadAddr = BadAddr
  DottedNames = {".L0"}
  START_LEN = 22
  END_LEN = 20
  None = None
SPECIFICATION Spec
INVARIANTS
  TypeOK
  TableMatchesNm
