SPECIFICATION ClusterFairSpec
CONSTANTS
  Handlers = {h1, h2}
CHECK_DEADLOCK FALSE
INVARIANTS
  NoSendOnClosedChannel
  ServeErrorReported
  NothingRunsAfterShutdown
  ExitCodeIsTrue
  PanicOnlyWhenForced
PROPERTIES
  ShutdownEnds
  GatewayEnds
  StoppedServiceFreesRequests
