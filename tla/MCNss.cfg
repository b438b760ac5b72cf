SPECIFICATION FairSpec
CONSTANTS
  Threads = {"t1", "t2"}
  Entries = {"ann", "bob"}
  Strings <- MCStrings
  Lists <- MCLists
  BufLens <- MCBufLens
  Gids = {1, 2, 3, 4}
  Primary = 1
  GidLists <- MCGidLists
  Sizes = {1, 2, 3}
  Hosts <- MCHosts
  Workloads <- MCWorkloads
INVARIANTS
  NssTypeOK
  ReadyIsPrivate
  EnumerationExact
  FilledIfItFits
  ArrayNotOverrun
  GroupsExact
PROPERTIES
  MutexReleased
