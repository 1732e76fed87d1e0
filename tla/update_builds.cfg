CONSTANTS
  Chars <- MixedChars
  Encoding <- MCEncodingMixed
  Texts <- MixedTexts
  CR = "CR"
  LF = "LF"
  Absent = Absent
  Invalid = Invalid
  MaxChanges = 1
  MaxCrashes = 2
SPECIFICATION FairSpec
INVARIANT TypeOK
PROPERTIES
  UntouchedWhenCurrent
