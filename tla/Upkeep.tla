------------------------------- MODULE Upkeep -------------------------------
(***************************************************************************)
(* The runtime around the tools: migrations run against a database while   *)
(* a server, which stops when it is idle, and the CLI call tools on it.    *)
(***************************************************************************)
EXTENDS Migrations, ToolRuntime, IdleShutdown

CONSTANT Workloads   \* what each behaviour is about: scripts already there, runs, calls, the idle period

ASSUME WorkloadsAssumption ==
  \A w \in Workloads :
    /\ w.from \in 0..Len(Forward) /\ w.runs \subseteq Runners /\ w.http \cup w.cli \subseteq Requests
    /\ w.idle \in Int

VARIABLE workload

upkeepVars == <<migrationVars, runtimeVars, idleVars, workload>>

Init ==
  /\ workload \in Workloads
  /\ MigrationInit(workload.from, workload.checks)
  /\ RuntimeInit
  /\ IdleInit(workload.idle)

----------------------------------------------------------------------------
\* log_event names columns that 0008 adds: without them every insert raises.
LogReady ==
  {<<"event_log", part>> : part \in {"table", "actor_id", "authn_method", "authorization_result", "violation_code"}}
    \subseteq schema

OnlyMigrations == UNCHANGED <<runtimeVars, idleVars, workload>>
OnlyRuntime == UNCHANGED <<migrationVars, idleVars, workload>>
OnlyIdle == UNCHANGED <<migrationVars, runtimeVars, workload>>

MigrationRuns == \E r \in workload.runs : (RunStarts(r) \/ RunStep(r) \/ RunIsKilled(r)) /\ OnlyMigrations
CycleChecks == CycleStep /\ OnlyMigrations

Serving == \E c \in HttpClients : InHand(c)

\* run_tool does not wait between the body and the reply: one request at a time goes through it.
Alone(c) == \A d \in HttpClients \ {c} : ~(InHand(d) /\ call[d].phase # "gate")

HttpArrives(c, q) ==
  c \in HttpClients /\ Alone(c) /\ RequestTruncates /\ Calls(c, q) /\ UNCHANGED <<migrationVars, workload>>
Touches == RequestStamps /\ OnlyIdle
HttpSteps(c) ==
  /\ c \in HttpClients /\ server # "down" /\ ~touching /\ Alone(c)
  /\ GateStep(c, LogReady) \/ ExecuteStep(c, LogReady)
  /\ OnlyRuntime

CliArrives(c, q) == c \in CliClients /\ (Calls(c, q) \/ CliRefuses(c, q)) /\ OnlyRuntime
CliSteps(c) == c \in CliClients /\ ExecuteStep(c, LogReady) /\ OnlyRuntime
\* Bug form: a kill comes between the commit of the change and that of its event.
CliIsKilled_HalfDone(c) ==
  /\ c \in CliClients /\ Dispatching(c) /\ Answers(c, "cut")
  /\ effect' = [effect EXCEPT ![c] = TRUE] /\ UNCHANGED events /\ OnlyRuntime
CliIsKilled(c) == c \in CliClients /\ InHand(c) /\ Cut({c}) /\ OnlyRuntime

----------------------------------------------------------------------------
\* The server's thread ends when its last request is answered.
ServerLeaves == Stopping /\ ~Serving /\ Leaves /\ OnlyIdle
\* join(timeout=5) gives up, and the daemon thread dies with the process.
JoinTimesOut == Stopping /\ Serving /\ Leaves /\ Cut(HttpClients) /\ UNCHANGED <<migrationVars, workload>>
ServerIsKilled == server # "down" /\ Leaves /\ Cut(HttpClients) /\ UNCHANGED <<migrationVars, workload>>

ServerSteps == ((workload.http # {} /\ ServerStarts) \/ Ticks \/ Check \/ Signal) /\ OnlyIdle

Next ==
  \/ MigrationRuns \/ CycleChecks
  \/ \E c \in workload.clients :
                        \/ \E q \in workload.http : HttpArrives(c, q)
                        \/ \E q \in workload.cli : CliArrives(c, q)
                        \/ HttpSteps(c) \/ CliSteps(c) \/ CliIsKilled(c)
  \/ Touches
  \/ ServerSteps \/ ServerLeaves \/ JoinTimesOut \/ ServerIsKilled

Safety == Init /\ [][Next]_upkeepVars

\* The server and the CLI go on as long as they can: calls once their body has arrived, the clock, the
\* check and the end of a server that was asked to stop.  Calls over HTTP are served in turn, the event
\* loop's queue being first in, first out, so none is overtaken for ever: that is the strong fairness.
\* Nothing need arrive, start, fail or be killed.
Fairness ==
  /\ \A c \in Clients : SF_upkeepVars(HttpSteps(c)) /\ WF_upkeepVars(CliSteps(c))
  /\ WF_upkeepVars(Touches)
  /\ WF_upkeepVars(Ticks /\ OnlyIdle) /\ WF_upkeepVars(Check /\ OnlyIdle)
  /\ WF_upkeepVars(ServerLeaves \/ JoinTimesOut)

Spec == Safety /\ Fairness

----------------------------------------------------------------------------
\* Every step of the composition is a step of the calls by themselves, or leaves them alone: what is
\* proved of ToolRuntime holds here.
ImplementsToolRuntime == RuntimeSpec

\* Every call over HTTP or the CLI is answered, cut off or given up, whatever the log, the migrations and the idle
\* check do meanwhile: errors of the error log itself lead to an answer too (execute_tool.py:161-172).
CallsAreAnswered == \A c \in Clients : InHand(c) ~> ~InHand(c)
=============================================================================
