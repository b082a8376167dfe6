\* Listings of up to six entries in blocks of two, over any number of pages.
SPECIFICATION Spec
CONSTANTS
  PoolSize = 2
  Blocks = {b1, b2, b3}
  Strings = {s1, s2, s3, s4, s5, s6}
  MaxEntries = 6
  NULL = NULL
  Wild = Wild
SYMMETRY Symmetry
INVARIANTS FreshElements ListIsChain NothingLeaks
\* A handle that was given to ms3_deinit() does nothing any more.
CHECK_DEADLOCK FALSE
