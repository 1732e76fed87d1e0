CONSTANTS
  Chars <- CrChars
  Encoding <- MCEncodingCr
  Texts <- CrTexts
  CR = "CR"
  LF = "LF"
  Absent = Absent
  Invalid = Invalid
  MaxChanges = 1
  MaxCrashes = 2
SPECIFICATION FairSpec
PROPERTIES
  UntouchedWhenCurrent
