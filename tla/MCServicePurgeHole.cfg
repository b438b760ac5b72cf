\* One process, restarted once: the purge leaves a hole.
CONSTANTS
  c1 = c1
  Word = 16
  Ttl = 1
  Clients = {c1}
  UserIds <- MCUserIds
  GroupIds <- MCGroupIds
  Names <- MCNames
  NoDisplay = NoDisplay
  UserRecs <- TwoUsers
  GroupRecs <- NoRecs
  Hash <- MCHash
  UidMin = 2
  UidSize = 3
  GidMin = 1
  GidSize = 3
  LongNames = {}
  Policy <- CachedStatus
  Calls = {"user_by_name"}
  DirectoryChanges = FALSE
  ScimFails = FALSE
  DbFails = FALSE
  MaxRestarts = 1
SPECIFICATION Spec
INVARIANT CachedIdReturned
