SPECIFICATION Spec
CONSTANTS
  Request = {r1, r2}
  UserId = {u1}
  Seeded = {u1}
  Address = {ada}
  Ada = ada
  AdaTyped = ADA
  Lower <- MCLower
  Password = {p1, p2}
  VerifyLink = {}
  ResetLink = {}
  Jti = {j1, j2}
  LoginMaxAttempts = 2
  Ops = {"login", "lock.expire", "attempts.expire"}
  Faults = FALSE
  Gate = {}
  NoUser = NoUser
  NoAddress = NoAddress
  NoPassword = NoPassword
  NoToken = NoToken
PROPERTY LockRunsItsCourse
