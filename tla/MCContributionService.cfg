CONSTANTS
  Key = {k1, k2, k3}
  Locale = {en, fr}
  Bundle = {b, c}
  Text = {x, y}
  k1 = k1 k2 = k2 k3 = k3 b = b c = c en = en fr = fr x = x y = y
  h1 = h1 h2 = h2
  Blank = Blank
  NoValue = NoValue
  DefaultLocale = en
  BundleOf <- MCBundleOf
  GroupLocales <- MCGroupLocales
  Author <- MCAuthors
  Developers = Developers
  SourceMaps <- MCSourceMaps
  MaxRevision = 3
  Handler = {h1, h2}
  MaxContribution = 1
  Proposals <- MCProposals
SPECIFICATION Spec
INVARIANT TypeOK
INVARIANT HandlersKnow
INVARIANT MailsTellTheStatus
INVARIANT AcceptedVersionIsOwnRevision
INVARIANT PostedLabelsReachSource
INVARIANT PostTouchesOnlyItsLabels
SYMMETRY HandlerSymmetry
CHECK_DEADLOCK FALSE
