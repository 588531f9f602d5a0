CONSTANTS
  Seats = {1, 2, 3, 4, 5, 6, 7}
  Replacements = {11, 14, 17}
  Guardian = 8
  Nobody = 9
  Pids = {1, 2, 3, 4, 5, 6}
  RemovalQuorum = 5
  Users = {"admin", "nobody", "ana", "pedro", "carlos", "bea", "diego", "manager", "owner", "readonly", "service", "plain", "reviewer", "v1", "v2", "v3", "v4"}
  Granted <- MCGranted
  Listings = {1, 2, 3}
  Deals = {1, 2, 3, 4, 5, 6}
  Drafts = {1, 2, 3}
  CaseIds = {1, 2}
  RetentionFloor = 90
  LastDay = 1
CHECK_DEADLOCK FALSE
SPECIFICATION Spec
INVARIANTS TypeOK Answered AcceptedOnce SeatsKeepOneKey
PROPERTIES Constitutional
