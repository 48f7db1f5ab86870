CONSTANTS
  block_rows = 2
  block_cols = 2
  CsrMatrices <- MCCsrMatrices
  MaxConversions = 2
SPECIFICATION Spec
INVARIANTS
  Converted
  WarpsStayApart
  RoundTrip
