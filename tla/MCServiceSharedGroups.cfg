\* Two processes share the database: groups; statements fail, a process restarts.
CONSTANTS
  c1 = c1
  c2 = c2
  Word = 16
  Ttl = 1
  Clients = {c1, c2}
  UserIds <- MCUserIds
  GroupIds <- MCGroupIds
  Names <- TwoNames
  NoDisplay = NoDisplay
  UserRecs <- NoRecs
  GroupRecs <- PrivateGroups
  Hash <- MCHash
  UidMin = 2
  UidSize = 2
  GidMin = 1
  GidSize = 2
  LongNames = {}
  Policy <- CachedStatus
  Calls = {"group_by_name", "list_groups"}
  DirectoryChanges = FALSE
  ScimFails = FALSE
  DbFails = TRUE
  MaxRestarts = 1
SPECIFICATION Spec
SYMMETRY ClientSymmetry
INVARIANTS TypeOK MembersHaveGroup
