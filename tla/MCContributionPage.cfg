CONSTANTS
  Connection = {c1, c2}
  Label = {l1, l2}
  Value = {a, b}
  FieldId = {f1, f2}
  IdOf <- MCIdOf
  Selectable = {f1}
  Matches <- MCMatches
  Stored <- MCStored
  Reviewed <- MCReviewed
  l1 = l1 l2 = l2 a = a b = b f1 = f1 f2 = f2 c1 = c1 c2 = c2
SPECIFICATION PageSpec
INVARIANT PageTypeOK
INVARIANT UniqueIds
INVARIANT NoEditionForgotten
PROPERTY ManageBoxCatchesUp
CHECK_DEADLOCK FALSE
