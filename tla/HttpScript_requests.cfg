SPECIFICATION Spec
CONSTANTS
  Variables = {"v"}
  Headers = {"Accept", "Cookie"}
  NoKey = "none"
  Alphabets <- MCAlphabets
  MaxLines = 5
INVARIANTS SendsAsWritten RoundTrips
CHECK_DEADLOCK FALSE
