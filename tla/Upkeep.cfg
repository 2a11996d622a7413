\* Migrations, tool calls and the idle server, one workload per behaviour.
SPECIFICATION Spec
CONSTANTS
  Runners = {"r1", "r2"}
  HttpClients = {"web1", "web2"}
  CliClients = {"shell"}
  Requests <- MCRequests
  Workloads <- MCWorkloads
  MaxAge = 5
  NULL = NULL
INVARIANTS
  RecordedIsApplied
  NoScriptIsPassedOver
  CycleReturns
  ChangesAreLogged
  WriteAnswersAreLogged
  ErrorsChangeNothing
  ChangesAreAuthorized
PROPERTIES
  StopsOnlyWhenIdle
  IdleServersStop
  CallsAreAnswered
  ImplementsToolRuntime
CHECK_DEADLOCK FALSE
