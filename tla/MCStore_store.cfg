SPECIFICATION Spec
CONSTANTS
  Address <- SomeAddresses
  MaxMem = 30
  n = n
  m = m
  s = s
  t = t
  Names <- TwoNames
  Strings <- TwoStrings
  Files = {"h"}
  TableStep = 1
  BufferSize = 4
  BufferStep = 3
  Pieces = {2, 5}
  Failures = {"node", "table", "list"}
  MaxCalls = 6
  MaxNamed = 3
  StoreRules = {"table_kept", "one_dictionary", "no_exact_fit", "closed_first", "one_buffer"}
INVARIANTS
  MemoryAccounted
  FoundByName
  OutlineReadBack
  BufferKept
SYMMETRY Symmetry
CHECK_DEADLOCK FALSE
