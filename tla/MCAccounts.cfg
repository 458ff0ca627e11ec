CONSTANTS
  c1 = c1 c2 = c2 i1 = i1 i2 = i2
  admin = admin guest = guest
  p0 = p0 p1 = p1 p2 = p2 p3 = p3
  None = None
  Clients = {c1, c2} Ids = {i1, i2} Names = {admin, guest}
  Passwords = {p0, p1, p2, p3} WebPasswords = {p3}
  Selectors <- Asks
  Login <- Logins NewPassword <- News Initial <- Initials
SPECIFICATION Spec
INVARIANTS TypeOK RefusedLeavesPassword RefusalIsReported
PROPERTIES RotatedOutStaysOut RightAccount
CHECK_DEADLOCK FALSE
