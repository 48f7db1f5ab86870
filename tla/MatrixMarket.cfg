CONSTANT Files <- MCFiles
SPECIFICATION Spec
INVARIANTS
  Loaded
  ReadingsAgree
