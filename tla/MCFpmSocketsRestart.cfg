CONSTANTS
  m1 = m1
  m2 = m2
  inet = inet
  unix = unix
  comma = comma
  s1 = s1
  s2 = s2
  s3 = s3
  s4 = s4
  s5 = s5
  Master = {m1, m2}
  Inet = {inet}
  Unix = {unix, comma}
  Comma = {comma}
  Sock = {s1, s2, s3, s4, s5}
  Config <- MCConfig
  RestartWaitsFor = "pid_file"
SPECIFICATION Spec
SYMMETRY MCSymmetry
INVARIANTS
  PoolsReachable
