SPECIFICATION AccessSpec
CONSTANTS
  MaxTime = 6
  Second = 2
  Usernames = {n1, n2}
  Emails = {e1, e2}
  Passwords = {w1}
  Registrars = {g1, g2}
  NoAccount = NoAccount
  AccessTTL = 3
  RefreshTTL = 5
  MaxTokens = 3
  Keys = {k1}
  Limit = 2
  Interval = 2
CHECK_DEADLOCK FALSE
SYMMETRY Symmetry
INVARIANTS SessionsTypeOK RateLimiterTypeOK RegistrationHolds TokensLastAsPromised NeverTwiceTheLimit RefusedOnlyAtLimit
