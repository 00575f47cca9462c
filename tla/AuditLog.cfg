SPECIFICATION FairSpec
CONSTANTS
  Tenants = {"a", "b"}
  Payloads = {"scheduled", "released"}
  Followers = {"fa"}
  TenantOf <- MCTenantOf
  Limits = {0, 2}
  PageMax = 500
  None = None
  MaxEvents = 2
  MaxBatch = 2
  MaxLost = 1
  MaxTampering = 2
INVARIANTS
  ChainHolds
  KeptHashVouches
  CopyIsPrefix
PROPERTY FollowersCatchUp
CHECK_DEADLOCK FALSE
