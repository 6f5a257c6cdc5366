CONSTANTS
  Entry = {e1, e2, e3}
  TypeOf <- MCTypeOf
  Controlled = {e2}
  Language = {en, fr}
  Menu = {m1, m2}
  Section = {s1, s2, s3}
  Account = {ann, bob}
  Text = {t1, t2, t3}
  Empty = none
  Malformed = {t3}
  Found <- MCFound
  Query = {q1, q2}
  en = en fr = fr e1 = e1 e2 = e2 e3 = e3 m1 = m1 m2 = m2 s1 = s1 s2 = s2 s3 = s3
  ann = ann bob = bob t1 = t1 t2 = t2 t3 = t3 none = none q1 = q1 q2 = q2
  n1 = n1 n2 = n2 c1 = c1 c2 = c2 c3 = c3
  MaxOpenings = 2
  MaxPosts = 1
  Name = {n1, n2}
  NoName = none
  Choice = {c1, c2, c3}
  Unconfigured = {c1}
  Lenient = {c2}
  Nested = {c3}
  l1 = l1 p1 = p1 p2 = p2
  Login = {l1}
  Password = {p1, p2}
  Untyped = none
  Lang = {en, fr}
  MaxCalls = 1
  Program <- MCProgram
  Nesting <- MCNesting
  PageValue <- MCPageValue
  PageTemplate <- MCTemplates
  PageContext <- MCContexts
  Catalogue = {"known", "request.status.known"}
  Special = {"<"}
SPECIFICATION MCSpec
INVARIANT DeletedStayHidden
INVARIANT NothingHiddenWithoutFilter
INVARIANT OneMenuOpen
INVARIANT OneSectionShown
INVARIANT MenuCanBeUsed
INVARIANT PostsWhatIsShown
INVARIANT PasswordsConfirmed
INVARIANT RendersTheTemplate
PROPERTY ChoiceIsDisplayed
CHECK_DEADLOCK FALSE
