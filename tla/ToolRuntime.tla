---------------------------- MODULE ToolRuntime ----------------------------
(***************************************************************************)
(* A tool call from its client to its reply: the HTTP route (api/app.py),  *)
(* the CLI command (cli/tool.py), authentication and authorization, and    *)
(* execute_tool (runtime/execute_tool.py) with its fail-closed logging.    *)
(*                                                                         *)
(* What a handler does to the tables is the matter of TransactionGate and  *)
(* RegistryTools; here it is one transaction that holds its effect and its *)
(* "ok" event.  The log of a client is kept for its last call only.        *)
(***************************************************************************)
EXTENDS Naturals, FiniteSets

CONSTANTS HttpClients, CliClients,
          Requests,   \* what clients send: tool, token, header, body, input, output
          NULL

ASSUME ClientsAreDistinct == HttpClients \cap CliClients = {}
ASSUME NullIsNoRequest == NULL \notin Requests

Clients == HttpClients \cup CliClients

VARIABLES call,     \* call[c]: the request in hand, where it is, and the answer it gets or will get
          effect,   \* effect[c]: the call's changes are committed
          events    \* events[c]: the rows of event_log about the call

runtimeVars == <<call, effect, events>>

----------------------------------------------------------------------------
WRITE_TOOLS ==
  {"create_account", "update_account_metadata", "update_account_profile", "record_transaction_bundle",
   "record_balance_snapshot", "create_or_update_obligation", "fulfill_obligation",
   "approve_proposed_transaction", "reject_proposed_transaction", "propose_config_change",
   "approve_config_change", "close_period", "lock_period"}

READ_TOOLS ==
  {"compute_capital_posture", "compute_consolidated_posture", "simulate_spend", "analyze_debt",
   "list_accounts", "get_account_tree", "get_account_balances", "list_transactions",
   "get_transaction_by_external_id", "list_obligations", "list_proposals", "get_proposal", "get_config",
   "reconcile_account"}

TOOL_HANDLERS == WRITE_TOOLS \cup READ_TOOLS

\* DEFAULT_TOOL_CAPABILITIES and DEFAULT_TOKEN_IDENTITIES.
ToolCapability(tool) ==
  CASE tool \in {"approve_proposed_transaction", "reject_proposed_transaction"} -> "tools:approve"
    [] tool \in {"propose_config_change", "approve_config_change"} -> "tools:admin"
    [] tool \in {"create_account", "update_account_metadata", "update_account_profile", "record_transaction_bundle",
                "record_balance_snapshot", "create_or_update_obligation", "fulfill_obligation",
                "close_period", "lock_period"} -> "tools:write"
    [] OTHER -> "tools:read"

TokenIdentities ==
  [admin |-> [actor |-> "actor-admin",
              capabilities |-> {"tools:read", "tools:write", "tools:approve", "tools:admin"}],
   reader |-> [actor |-> "actor-reader", capabilities |-> {"tools:read"}]]

Known(q) == q.token \in DOMAIN TokenIdentities

\* Bug form: any capability of the identity will do.
Authorized_AnyCapability(q) == TokenIdentities[q.token].capabilities # {}
Authorized(q) == ToolCapability(q.tool) \in TokenIdentities[q.token].capabilities

\* update_account_profile takes its correlation id in a header as well.
HeaderFits(q) == q.tool = "update_account_profile" => q.header = "match"

Actor(c, q) == IF c \in CliClients THEN "local-cli" ELSE IF Known(q) THEN TokenIdentities[q.token].actor ELSE NULL

----------------------------------------------------------------------------
Actors == {"actor-admin", "actor-reader", "local-cli", NULL}
Phases == {"idle", "gate", "refuse", "dispatch", "log", "reply", "answered"}
Statuses == {"ok", "unknown_tool", "auth_error", "authz_denied", "header_error", "validation_error",
             "error", "event_log_failure", "unreadable", "cut"}
Event(status, actor) == [status |-> status, actor |-> actor]

\* In the hands of the process that serves it, between two of the process's own waits.
InHand(c) == call[c].phase \in Phases \ {"idle", "answered"}

Call == [phase : Phases, request : Requests \cup {NULL}, reply : Statuses \cup {NULL}]

RuntimeTypeOK ==
  /\ call \in [Clients -> Call]
  /\ effect \in [Clients -> BOOLEAN]
  /\ events \in [Clients -> SUBSET [status : Statuses, actor : Actors]]
  /\ \A c \in Clients : call[c].phase # "idle" => call[c].request # NULL

RuntimeInit ==
  /\ call = [c \in Clients |-> [phase |-> "idle", request |-> NULL, reply |-> NULL]]
  /\ effect = [c \in Clients |-> FALSE]
  /\ events = [c \in Clients |-> {}]

Moves(c, phase, reply) ==
  call' = [call EXCEPT ![c] = [phase |-> phase, request |-> call[c].request, reply |-> reply]]
Answers(c, status) == Moves(c, "answered", status)
Silent == UNCHANGED <<effect, events>>

\* A call arrives at the route, or the CLI has read its payload.
Calls(c, q) ==
  /\ ~InHand(c) /\ (c \in CliClients => q.body # "unreadable")
  /\ call' = [call EXCEPT ![c] = [phase |-> IF c \in HttpClients THEN "gate" ELSE "dispatch",
                                  request |-> q, reply |-> NULL]]
  /\ effect' = [effect EXCEPT ![c] = FALSE]
  /\ events' = [events EXCEPT ![c] = {}]

\* The CLI exits on a payload it cannot read, before the runtime sees it.
CliRefuses(c, q) ==
  /\ c \in CliClients /\ ~InHand(c) /\ q.body = "unreadable"
  /\ call' = [call EXCEPT ![c] = [phase |-> "answered", request |-> q, reply |-> "unreadable"]]
  /\ effect' = [effect EXCEPT ![c] = FALSE]
  /\ events' = [events EXCEPT ![c] = {}]

----------------------------------------------------------------------------
\* run_tool: the tool's name, the body, the token, the capability, the header, in that order.
GateVerdict(q) ==
  CASE q.tool \notin TOOL_HANDLERS -> "unknown_tool"
    [] q.body = "unreadable" -> "unreadable"
    [] ~Known(q) -> "auth_error"
    [] ~Authorized(q) -> "authz_denied"
    [] ~HeaderFits(q) -> "header_error"
    [] OTHER -> "ok"

Passes(c) == call[c].phase = "gate" /\ GateVerdict(call[c].request) = "ok" /\ Moves(c, "dispatch", NULL) /\ Silent

\* An unknown tool and an unreadable body are answered without an event.
TurnsAway(c) ==
  LET verdict == GateVerdict(call[c].request) IN
  /\ call[c].phase = "gate" /\ verdict \in {"unknown_tool", "unreadable"}
  /\ Answers(c, verdict) /\ Silent

Refuses(c) ==
  LET verdict == GateVerdict(call[c].request) IN
  /\ call[c].phase = "gate" /\ verdict \in {"auth_error", "authz_denied", "header_error"}
  /\ Moves(c, "refuse", verdict) /\ Silent

RefusalEvent(c) ==
  Event(IF call[c].reply = "header_error" THEN "validation_error" ELSE call[c].reply, Actor(c, call[c].request))

\* _emit_event never fails the call: the refusal is answered whether its event is stored or not.
EmitsRefusal(c) ==
  /\ call[c].phase = "refuse" /\ Answers(c, call[c].reply)
  /\ events' = [events EXCEPT ![c] = @ \cup {RefusalEvent(c)}]
  /\ UNCHANGED effect
DropsRefusalEvent(c) == call[c].phase = "refuse" /\ Answers(c, call[c].reply) /\ Silent

----------------------------------------------------------------------------
\* execute_tool.  "ready": event_log is there with all its columns.  A transaction may still fail on a lock.
Dispatching(c) == call[c].phase = "dispatch"

LooksUpNothing(c) ==
  /\ Dispatching(c) /\ call[c].request.tool \notin TOOL_HANDLERS
  /\ Answers(c, "unknown_tool") /\ Silent

Refusable(q) == q.body = "no_correlation_id" \/ q.input = "invalid"
RejectsPayload(c) ==
  /\ Dispatching(c) /\ call[c].request.tool \in TOOL_HANDLERS
  /\ Refusable(call[c].request)
  /\ Moves(c, "log", "validation_error") /\ Silent

\* Bug form: what the handler has written before it raises stays.
RolledBack_KeepsWrites(c) == effect' = [effect EXCEPT ![c] = call[c].request.tool \in WRITE_TOOLS]
RolledBack(c) == UNCHANGED effect

\* The handler raises, or its event does not get stored: its transaction rolls back.
HandlerFails(c) ==
  /\ Dispatching(c) /\ call[c].request.tool \in TOOL_HANDLERS
  /\ ~Refusable(call[c].request)
  /\ Moves(c, "log", "error") /\ RolledBack(c) /\ UNCHANGED events

HandlerEvent(c, ready) == IF ready THEN {Event("ok", Actor(c, call[c].request))} ELSE {}

\* Bug form: a handler that goes on when its event cannot be stored.
MayCommit_Unlogged(ready) == TRUE
MayCommit(ready) == ready

\* The commit comes before the output schema: a response that does not fit it becomes an error answer.
AfterCommit(c) ==
  IF call[c].request.output = "fits" THEN Moves(c, "reply", "ok") ELSE Moves(c, "log", "validation_error")

HandlerCommits(c, ready) ==
  /\ Dispatching(c) /\ call[c].request.tool \in TOOL_HANDLERS
  /\ ~Refusable(call[c].request) /\ call[c].request.input = "valid"
  /\ MayCommit(ready)
  /\ effect' = [effect EXCEPT ![c] = call[c].request.tool \in WRITE_TOOLS]
  /\ events' = [events EXCEPT ![c] = @ \cup HandlerEvent(c, ready)]
  /\ AfterCommit(c)

Delivers(c) == call[c].phase = "reply" /\ Answers(c, call[c].reply) /\ Silent

LogsError(c, ready) ==
  /\ call[c].phase = "log" /\ ready
  /\ events' = [events EXCEPT ![c] = @ \cup {Event(call[c].reply, Actor(c, call[c].request))}]
  /\ Answers(c, call[c].reply) /\ UNCHANGED effect

\* Bug form: no call is fail-closed.
FailClosed_Never(c) == call[c].reply
FailClosed(c) == IF call[c].request.tool \in WRITE_TOOLS THEN "event_log_failure" ELSE call[c].reply
\* Bug form: the event of an error is waited for.
LosesErrorEvent_Waits(c) == FALSE
LosesErrorEvent(c) == call[c].phase = "log" /\ Answers(c, FailClosed(c)) /\ Silent

\* The process is killed, or the server's main thread stops waiting for it: its clients get no reply.
Cut(clients) ==
  /\ call' = [c \in Clients |-> IF c \in clients /\ InHand(c)
                                THEN [phase |-> "answered", request |-> call[c].request, reply |-> "cut"]
                                ELSE call[c]]
  /\ Silent

GateStep(c, ready) ==
  Passes(c) \/ TurnsAway(c) \/ Refuses(c) \/ (ready /\ EmitsRefusal(c)) \/ DropsRefusalEvent(c)

ExecuteStep(c, ready) ==
  \/ LooksUpNothing(c) \/ RejectsPayload(c) \/ HandlerFails(c) \/ HandlerCommits(c, ready)
  \/ Delivers(c) \/ LogsError(c, ready) \/ LosesErrorEvent(c)

\* Calls by themselves, whatever becomes of the database and of the processes.
RuntimeNext ==
  \/ \E c \in Clients : \/ \E q \in Requests : Calls(c, q) \/ CliRefuses(c, q)
                        \/ \E ready \in BOOLEAN : GateStep(c, ready) \/ ExecuteStep(c, ready)
  \/ \E clients \in SUBSET Clients : Cut(clients)
RuntimeSpec == RuntimeInit /\ [][RuntimeNext]_runtimeVars

----------------------------------------------------------------------------
\* "Write tools are fail-closed: if event-log persistence fails, rollback the write transaction."
\* (project-context.md:93): a change is in the tables only with its "ok" event, which names the caller,
\* after a crash, a lock timeout and a missing event_log too.
ChangesAreLogged == \A c \in Clients : effect[c] => Event("ok", Actor(c, call[c].request)) \in events[c]

\* Every answer of execute_tool to a write tool is in the log, an error included; when it is not, the
\* client is told event_log_failure instead.
WriteAnswersAreLogged ==
  \A c \in Clients :
    /\ call[c].phase = "answered" /\ call[c].reply \in {"ok", "validation_error", "error"}
    /\ call[c].request.tool \in WRITE_TOOLS
    => Event(call[c].reply, Actor(c, call[c].request)) \in events[c]

\* A client that is answered an error may try again: nothing was changed, except by a response that
\* does not fit its schema, or by a call that was cut off.
ErrorsChangeNothing ==
  \A c \in Clients :
    effect[c] => \/ call[c].reply \in {"ok", "cut"}
                 \/ call[c].request.output # "fits"

\* The reader token, which holds tools:read only, changes nothing: the capabilities of config.py:23-51
\* agree with the write tools of execute_tool.py:64-78, and the gate comes before every handler.  A
\* profile changes only under the header that repeats its correlation id (api/app.py:127-182).
ChangesAreAuthorized ==
  \A c \in HttpClients :
    effect[c] => /\ call[c].request.token = "admin"
                 /\ call[c].request.tool = "update_account_profile" => call[c].request.header = "match"
=============================================================================
