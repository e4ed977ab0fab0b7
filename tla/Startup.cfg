CONSTANTS
  Main = main
  Poller = poller
  Goroutine = {main, poller}
  NoGoroutine = NoGoroutine
  Margin = 1
  Lifetime = {1, 2}
  MaxTime = 2
  Gauges = 2
  MaxStatistics = 1
  Environments <- Variations
SPECIFICATION MCSpec
INVARIANTS
  StartupInv
  TokenOutlivesTheCheck
  ConfiguredRunPanicsOnCallsOnly
  OnlyConfiguredRunsGetAToken
PROPERTIES
  FreshTokenIsKept
  RequestsEnd
  GaugesCatchUp
CHECK_DEADLOCK FALSE
