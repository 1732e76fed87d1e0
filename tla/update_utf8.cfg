CONSTANTS
  Chars <- Utf8Chars
  Encoding <- MCEncodingUtf8
  Texts <- Utf8Texts
  CR = "CR"
  LF = "LF"
  Absent = Absent
  Invalid = Invalid
  MaxChanges = 1
  MaxCrashes = 2
SPECIFICATION FairSpec
PROPERTIES
  Repaired
