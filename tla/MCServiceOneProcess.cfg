\* One process: access checks and groups; accounts and groups change, the directory is often unreachable.
CONSTANTS
  c1 = c1
  Word = 16
  Ttl = 1
  Clients = {c1}
  UserIds <- MCUserIds
  GroupIds <- MCGroupIds
  Names <- TwoNames
  NoDisplay = NoDisplay
  UserRecs <- EditedUsers
  GroupRecs <- EditedGroups
  Hash <- MCHash
  UidMin = 2
  UidSize = 3
  GidMin = 1
  GidSize = 3
  LongNames = {}
  Policy <- CachedStatus
  Calls = {"check_active", "list_users", "groups_for_user", "group_by_name", "list_groups",
           "group_by_gid"}
  DirectoryChanges = TRUE
  ScimFails = TRUE
  DbFails = FALSE
  MaxRestarts = 0
SPECIFICATION Spec
INVARIANTS GrantedAsReported GroupsStableUntilRestart
PROPERTIES GroupStoredWhole
