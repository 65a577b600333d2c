SPECIFICATION FairSpec
CONSTANTS
  flow = flow
  ask = ask
  sub = sub
  steps = steps
  form = form
  page = page
  Waterfalls <- MCWaterfalls
  Prompts <- MCPrompts
  Components <- MCComponents
  Members <- MCMembers
  RootMembers <- MCRootMembers
  RootDialog = flow
  InitialDialog <- MCInitialDialog
  StepCount <- MCStepCount
  Uses <- MCUses
  Help <- MCHelp
  Interceptors <- MCInterceptors
  ErrorHandlers <- MCErrorHandlers
  Depth <- MCDepth
  ExpireAfter = 2
  MaxTurns = 3
  MaxBegins = 6
  MaxTime = 1
  None = None
INVARIANTS
  TypeOK
  EndedOnce
  WaitingIsHeard
PROPERTY TurnsEnd
CHECK_DEADLOCK FALSE
