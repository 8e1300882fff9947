SPECIFICATION Spec
CONSTANTS
  Request = {r1, r2}
  UserId = {u1}
  Seeded = {u1}
  Address = {ada}
  Ada = ada
  AdaTyped = ADA
  Lower <- MCLower
  Password = {p1, p2}
  VerifyLink = {}
  ResetLink = {t1}
  Jti = {j1, j2}
  LoginMaxAttempts = 2
  Ops = {"login", "refresh", "logout", "forgot", "reset", "key.expire", "disable"}
  Faults = TRUE
  Gate = {g1}
  NoUser = NoUser
  NoAddress = NoAddress
  NoPassword = NoPassword
  NoToken = NoToken
SYMMETRY Symmetry
INVARIANT RevokedStayDead
INVARIANT UsedLinkDead
INVARIANT OldSessionsEnd
INVARIANT SessionsIndexed
 
PROPERTY TokensLive
INVARIANT BanTakesHold
