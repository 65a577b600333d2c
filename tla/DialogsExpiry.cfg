SPECIFICATION Spec
CONSTANTS
  flow = flow
  ask = ask
  sub = sub
  steps = steps
  form = form
  page = page
  Waterfalls <- MCWaterfalls
  Prompts <- MCPrompts
  Components <- MCComponents
  Members <- MCMembers
  RootMembers <- MCRootMembers
  RootDialog = flow
  InitialDialog <- MCInitialDialog
  StepCount <- MCStepCount
  Uses <- MCUses
  Help <- MCHelp
  Interceptors <- MCInterceptors
  ErrorHandlers <- MCErrorHandlers
  Depth <- MCDepth
  ExpireAfter = 2
  MaxTurns = 3
  MaxBegins = 6
  MaxTime = 2
  None = None
INVARIANT ActiveIsKept
CHECK_DEADLOCK FALSE
