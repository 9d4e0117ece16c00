SPECIFICATION FairSpec
INVARIANTS
  NothingLeftBehind
  UnreadyAfterRun
  StopIsReported
  GracefulExit
PROPERTY ServeReturns
