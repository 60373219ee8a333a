SPECIFICATION Spec
CONSTANTS
  UserIds = {"root", "u1", "u2"}
  Root = "root"
  Procs = {p, q}
  Subjects = {"kim", "lee"}
  Claims <- MCClaims
  Edits <- MCEdits
  NewUsers <- MCNewUsers
  Seeds <- MCSeeds
  Names = {"ann", "root"}
  Emails = {"e1", "e2"}
  Passwords = {"w1", "w2"}
  Blobs = {"b"}
  AutoProvision = {TRUE, FALSE}
  MailPolicy = TRUE
  MaxRequests = 3
INVARIANTS SessionsFollowPassword OneAccountPerPerson
SYMMETRY RequestSymmetry
CHECK_DEADLOCK FALSE
