SPECIFICATION Spec
CONSTANTS
  Request = {r1, r2}
  UserId = {u1, u2}
  Seeded = {}
  Address = {ada, ADA}
  Ada = ada
  AdaTyped = ADA
  Lower <- MCLower
  Password = {p1}
  VerifyLink = {v1, v2}
  ResetLink = {}
  Jti = {j1, j2}
  LoginMaxAttempts = 2
  Ops = {"register", "verify", "login", "refresh", "delete", "key.expire", "jwt.expire", "lock.expire"}
  Faults = TRUE
  Gate = {}
  NoUser = NoUser
  NoAddress = NoAddress
  NoPassword = NoPassword
  NoToken = NoToken
SYMMETRY Symmetry
INVARIANT TypeOK
INVARIANT EmailUnique
INVARIANT PendingHasOwner
INVARIANT MailAfterCommit
INVARIANT VerifiedThroughMail
INVARIANT OnlyVerifiedHoldSessions
INVARIANT UsedLinkDead
