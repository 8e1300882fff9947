SPECIFICATION FairSpec
CONSTANTS
  Request = {r1, r2, r3}
  UserId = {u1}
  Seeded = {u1}
  Address = {ada}
  Ada = ada
  AdaTyped = ADA
  Lower <- MCLower
  Password = {p1, p2}
  VerifyLink = {}
  ResetLink = {}
  Jti = {j1, j2, j3}
  LoginMaxAttempts = 2
  Ops = {"login", "attempts.expire"}
  Faults = FALSE
  Gate = {}
  NoUser = NoUser
  NoAddress = NoAddress
  NoPassword = NoPassword
  NoToken = NoToken
INVARIANT CounterBounded
INVARIANT LateChecksBounded
PROPERTY FailuresForgotten
