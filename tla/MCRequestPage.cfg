CONSTANTS
  Connection = {c1, c2}
  Locale = {en}
  Value = {a, b}
  Rejected = {b}
  MaxRendering = 1
  en = en a = a b = b c1 = c1 c2 = c2
SPECIFICATION Spec
INVARIANT TypeOK
INVARIANT PreviousWasOnServer
INVARIANT QuietFieldsAreSaved
PROPERTY IndicatorsEnd
CHECK_DEADLOCK FALSE
