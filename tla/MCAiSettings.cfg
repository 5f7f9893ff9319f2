\* HR and a test, or two of either, at once, over the end of a month.
SPECIFICATION Spec
CONSTANTS
  Keep = Keep
  NoKey = NoKey
  deepseek = deepseek
  custom = custom
  fast = fast
  private = private
  other = other
  m1 = m1
  m2 = m2
  k1 = k1
  k2 = k2
  assistant = assistant
  c1 = c1
  c2 = c2
  Provider = {deepseek, custom}
  DefaultProvider = deepseek
  Custom = custom
  Url = {fast, private, other}
  BaseUrl <- BaseUrls
  CustomUrl = {private}
  GatewayUrl = {fast, private}
  Model = {m1, m2}
  DefaultModel = m1
  Key = {k1, k2}
  Feature = {assistant}
  Caller = {c1, c2}
  Update <- Updates
  Usage = {0, 2}
  LastMonth = 2
  MaxTests = 3
  MaxFaults = 1
INVARIANTS ConsentForProvider VerifiedUnlessOvertaken CountersFollowLog ActiveOnlyWhenAllowed
SYMMETRY SymmetricCallers
