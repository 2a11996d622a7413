\* One run of the migrations at a time, killed and repeated.
SPECIFICATION Safety
CONSTANTS
  Runners = {"r1", "r2"}
  HttpClients = {"web1", "web2"}
  CliClients = {"shell"}
  Requests <- MCRequests
  Workloads <- LoneWorkloads
  MaxAge = 5
  NULL = NULL
INVARIANTS
  RetriesGoThrough
CHECK_DEADLOCK FALSE
