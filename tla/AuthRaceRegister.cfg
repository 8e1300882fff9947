SPECIFICATION Spec
CONSTANTS
  Request = {r1, r2}
  UserId = {u1, u2}
  Seeded = {}
  Address = {ada}
  Ada = ada
  AdaTyped = ADA
  Lower <- MCLower
  Password = {p1}
  VerifyLink = {v1, v2}
  ResetLink = {}
  Jti = {}
  LoginMaxAttempts = 2
  Ops = {"register"}
  Faults = FALSE
  Gate = {}
  NoUser = NoUser
  NoAddress = NoAddress
  NoPassword = NoPassword
  NoToken = NoToken
INVARIANT NoUnhandledException
