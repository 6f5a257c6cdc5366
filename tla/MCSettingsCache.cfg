CONSTANTS
  user = user authentication = authentication
  Key = {user, authentication}
  GetOrder <- MCGetOrder
  SetOrder <- MCSetOrder
  Value = {v1, v2}
  v1 = v1 v2 = v2
  Saved <- MCSaved
  NoValue = NoValue
  NotCached = NotCached
  Handler = {h1, h2}
SPECIFICATION SettingsSpec
INVARIANT QuietSettingsAreFresh
INVARIANT CachedWereStored
PROPERTY StaleEntriesExpire
CHECK_DEADLOCK FALSE
