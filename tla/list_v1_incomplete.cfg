\* A page of directories only ends a version 1 listing.
SPECIFICATION Spec
CONSTANTS
  MaxName = 3
  Kind <- DirKind
  Versions <- Version1
  PageSizes <- PagesOfOne
  MaxWrites = 0
  Unparsable = FALSE
INVARIANTS ListComplete
