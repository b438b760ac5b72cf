\* Two processes share the database: users; the directory comes and goes.
CONSTANTS
  c1 = c1
  c2 = c2
  Word = 16
  Ttl = 1
  Clients = {c1, c2}
  UserIds <- MCUserIds
  GroupIds <- MCGroupIds
  Names <- TwoNames
  NoDisplay = NoDisplay
  UserRecs <- OneName
  GroupRecs <- NoRecs
  Hash <- MCHash
  UidMin = 2
  UidSize = 1
  GidMin = 1
  GidSize = 1
  LongNames = {}
  Policy <- OneDenies
  Calls = {"check_active", "list_users"}
  DirectoryChanges = TRUE
  ScimFails = TRUE
  DbFails = TRUE
  MaxRestarts = 1
SPECIFICATION FairSpec
PROPERTIES CallsReturn DeactivationTakesEffect
