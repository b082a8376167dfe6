\* Error documents of both layouts in pieces of every size, cut anywhere.
SPECIFICATION ResponseSpec
CONSTANTS
  Chunks <- ChunkSizes
  Pieces <- PieceSizes
  MaxBody = 40
  Texts <- AllTexts
  Written <- WrittenDocs
  Messages <- MessageDocs
  Error <- ErrorName
  Message <- MessageName
PROPERTY ErrorIsReported
\* A null pointer ends the process.
CHECK_DEADLOCK FALSE
