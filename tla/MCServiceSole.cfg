\* One process, restarted twice, with more users than slots.
CONSTANTS
  c1 = c1
  Word = 16
  Ttl = 1
  Clients = {c1}
  UserIds <- MCUserIds
  GroupIds <- MCGroupIds
  Names <- MCNames
  NoDisplay = NoDisplay
  UserRecs <- ThreeUsers
  GroupRecs <- NoRecs
  Hash <- MCHash
  UidMin = 2
  UidSize = 2
  GidMin = 1
  GidSize = 2
  LongNames = {"dev"}
  Policy <- CachedStatus
  Calls = {"user_by_name", "user_by_uid", "list_users"}
  DirectoryChanges = TRUE
  ScimFails = FALSE
  DbFails = TRUE
  MaxRestarts = 2
SPECIFICATION Spec
INVARIANTS ResolvedUidFree StableUntilRestart
PROPERTIES ExhaustedOnlyWhenFull RefinesAllocator
