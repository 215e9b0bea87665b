SPECIFICATION Spec
CONSTANTS
  ann = ann  bob = bob  k1 = k1  k2 = k2  r1 = r1  r2 = r2
  User = {ann, bob}  Key = {k1, k2}  Request = {r1, r2}
  Form = {"publish"}
  Nobody = Nobody  Idle = Idle
  TTL = 1  Window = 2  MaxAttempts = 2  Capacity = 1
  MaxTime = 3  MaxLogins = 2  MaxRestarts = 1
SYMMETRY Symmetry
\* Time and logins are bounded.
CHECK_DEADLOCK FALSE
INVARIANTS LoginsBounded ActsWereAuthenticated
