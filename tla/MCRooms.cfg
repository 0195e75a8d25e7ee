SPECIFICATION FairSpec
CONSTANTS
  c1 = c1
  c2 = c2
  u1 = u1
  Anonymous = Anonymous
  Conns = {c1, c2}
  Rooms = {"chat", "log"}
  Users = {u1}
  Tokens = {"none", "valid", "deleted_user", "expired", "malformed"}
  Methods = {"chat", "dance"}
  Capacity = 2
  MaxPosts = 3
INVARIANTS TypeOK  ChatIsSigned
PROPERTY EveryoneCatchesUp
CHECK_DEADLOCK FALSE
