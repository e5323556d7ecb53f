\* Reading, editing, writing and reading back: every family of files, one edit.
SPECIFICATION Spec
CONSTANTS
  Refused = Refused
  MaxNesting = 3
  MaxEdits = 1
  SourceFiles <- Files
INVARIANTS
  TypeOK
  WriterAcceptsReader
  RoundTrip
  WriteStable
  WrittenFileHolds
  OwnershipSound
CHECK_DEADLOCK FALSE
