SPECIFICATION Spec
VIEW LiveView
CONSTANTS
  t1 = t1
  t2 = t2
  conversation = conversation
  user = user
  Turns <- MCTurns
  Scopes <- MCScopes
  Providers <- MCProviders
  SavesAfter <- MCSavesAfter
  OwnSaves <- MCOwnSaves
  Edits = 1
  Disk = Disk
  None = None
INVARIANTS
  TypeOK
  TagsGuardWrites
  NoDirtyRead
  SavedMeansStored
CHECK_DEADLOCK FALSE
