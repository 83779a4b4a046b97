CONSTANTS
  Bases = {"a", "b", "private"}
  Blocked = {"private"}
  MaxSlashes = 2
  Requests = {r1, r2, r3, r4}
  MaxLosses = 1
SPECIFICATION FairSpec
INVARIANTS TypeOK OneFeedPerResource PostsAgree AcknowledgedIsKept FailsOnlyUnderDelete
PROPERTY RequestsEnd
CHECK_DEADLOCK FALSE
