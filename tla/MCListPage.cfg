CONSTANTS
  Item = {i1, i2}
  PageSize = 1
  MaxPending = 1
  MaxOffset = 2
  Connection = {c1, c2}
  i1 = i1 i2 = i2 c1 = c1 c2 = c2
SPECIFICATION ListSpec
INVARIANT ListTypeOK
INVARIANT OffsetCountsRows
INVARIANT PagesFollow
INVARIANT NothingOutOfReach
INVARIANT OneHandlerPerButton
PROPERTY ConfirmedDisappear
CHECK_DEADLOCK FALSE
