CONSTANTS
  Chars <- PlainChars
  Encoding <- MCEncodingPlain
  Texts <- PlainTexts
  CR = "CR"
  LF = "LF"
  Absent = Absent
  Invalid = Invalid
  MaxChanges = 1
  MaxCrashes = 2
SPECIFICATION FairSpec
PROPERTIES
  Repaired
