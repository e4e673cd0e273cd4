\* Short texts of every kind of structured field.
SPECIFICATION Spec
CONSTANTS
  Digit = {"0", "1"}
  Lcalpha = {"a", "b"}
  Ucalpha = {"A", "B"}
  Tchar = {"!", "_", "-", "."}
  Base64Sign = {"+"}
  Printable <- MCPrintable
  Ascii <- MCAscii
  Tab = "tab"
  IntDigits = 3
  WholeDigits = 2
  FractionDigits = 2
  DecimalChars = 5
  Cleared <- MCCleared
  Limit <- MCLimit
INVARIANT AcceptsTheGrammar
INVARIANT CanonicalKeepsValue
INVARIANT ReadsAsMerge
CHECK_DEADLOCK FALSE
