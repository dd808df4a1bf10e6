SPECIFICATION RSpec
CONSTANTS
  MaxScopes = 20
  MaxGState = 2
  MaxPages = 2
  MaxOpens = 1
  Outputs = {"buffer"}
  ClientRules = {"open_first", "header_first", "page_between", "balance", "levels"}
  Slots = 1
  Address <- TwoAddresses
  MaxObjects = 3
  ResourceRules = {"font_kept", "templates_kept", "ended_first", "local", "reusable"}
INVARIANTS
  OwnedOnce
  HandlesDenote
  FontBeingDefined
  PlacedAsMeant
CHECK_DEADLOCK FALSE
