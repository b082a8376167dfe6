\* Error documents of both layouts in pieces of every size, cut anywhere.
SPECIFICATION ResponseSpec
CONSTANTS
  Chunks <- ChunkSizes
  Pieces <- PieceSizes
  MaxBody = 40
  Texts <- AllTexts
  Written <- WrittenDocs
  Messages <- MessageDocs
  Error <- ErrorName
  Message <- MessageName
INVARIANTS ResponseTypeOK InBounds BodyExact ParsesTheBody MessageExact
  ReadsAsWritten TreeIsInText NothingElseLeaks
PROPERTIES Advances ReportedUnlessChildless
\* A null pointer ends the process.
CHECK_DEADLOCK FALSE
