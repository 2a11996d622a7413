---------------------------- MODULE Upkeep_proofs ----------------------------
(***************************************************************************)
(* Proofs about ToolRuntime and about Upkeep, for any clients, requests,   *)
(* runs and workloads.                                                     *)
(*                                                                         *)
(* Of the calls by themselves: Sound(c, k, e, l) says of one client what   *)
(* its call k, its effect e and its part l of the log have to do with each *)
(* other in every phase.  Each action gives one client new, sound values;  *)
(* only Cut is about several.                                              *)
(*                                                                         *)
(* The composition implements ToolRuntime, so what is proved of the calls  *)
(* holds next to migrations, an idle server and kills.  Of the migrations: *)
(* they are recorded in order, and what is recorded is applied, whatever   *)
(* runs at once or is killed.  Of the server: it stops only when idle.     *)
(***************************************************************************)
EXTENDS Upkeep, TLAPS

----------------------------------------------------------------------------
(* The calls: the inductive invariant of ToolRuntime. *)

EventRows == [status : Statuses, actor : Actors]

TypedValues(k, e, l) == k \in Call /\ e \in BOOLEAN /\ l \in SUBSET EventRows

\* Where the call stands, and what it will answer.
PhaseSound(c, k, l) ==
  /\ k.phase # "idle" => k.request # NULL
  /\ k.phase = "refuse" => k.reply \in {"auth_error", "authz_denied", "header_error"}
  /\ k.phase = "log" => k.reply \in {"validation_error", "error"}
  /\ k.phase = "reply" => k.reply = "ok" /\ Event("ok", Actor(c, k.request)) \in l
  /\ k.phase = "dispatch" /\ c \in HttpClients => GateVerdict(k.request) = "ok"

AnswerSound(c, k, l) ==
  /\ k.phase = "answered" /\ k.reply \in {"ok", "validation_error", "error"}
  /\ k.request.tool \in WRITE_TOOLS
  => Event(k.reply, Actor(c, k.request)) \in l

\* A committed change is logged, was let in, and is followed by an answer that is no error.
EffectSound(c, k, e, l) ==
  e => /\ Event("ok", Actor(c, k.request)) \in l
       /\ k.phase \in {"reply", "log", "answered"}
       /\ k.reply \in {"ok", "cut"} \/ k.request.output # "fits"
       /\ c \in HttpClients =>
            /\ k.request.token = "admin"
            /\ k.request.tool = "update_account_profile" => k.request.header = "match"

Sound(c, k, e, l) == TypedValues(k, e, l) /\ PhaseSound(c, k, l) /\ AnswerSound(c, k, l) /\ EffectSound(c, k, e, l)

IInv ==
  /\ call \in [Clients -> Call]
  /\ effect \in [Clients -> BOOLEAN]
  /\ events \in [Clients -> SUBSET EventRows]
  /\ \A c \in Clients : Sound(c, call[c], effect[c], events[c])

Becomes(c, k, e, l) ==
  /\ call' = [call EXCEPT ![c] = k]
  /\ effect' = [effect EXCEPT ![c] = e]
  /\ events' = [events EXCEPT ![c] = l]

\* The call of c in another phase, with another reply.
Moved(c, phase, reply) == [phase |-> phase, request |-> call[c].request, reply |-> reply]

----------------------------------------------------------------------------
\* New values of one client that are sound keep the invariant.
LEMMA OneClient ==
  ASSUME IInv, NEW c \in Clients, NEW k, NEW e, NEW l, Becomes(c, k, e, l), Sound(c, k, e, l)
  PROVE  IInv'
<1>1. k \in Call /\ e \in BOOLEAN /\ l \in SUBSET EventRows
  BY DEF Sound, TypedValues
<1>2. /\ call' \in [Clients -> Call]
      /\ effect' \in [Clients -> BOOLEAN]
      /\ events' \in [Clients -> SUBSET EventRows]
  BY <1>1 DEF IInv, Becomes
<1>3. ASSUME NEW d \in Clients
      PROVE  Sound(d, call'[d], effect'[d], events'[d])
  <2>1. CASE d = c
    <3>1. call'[d] = k /\ effect'[d] = e /\ events'[d] = l
      BY <2>1 DEF IInv, Becomes
    <3> QED BY <2>1, <3>1
  <2>2. CASE d # c
    <3>1. call'[d] = call[d] /\ effect'[d] = effect[d] /\ events'[d] = events[d]
      BY <2>2 DEF IInv, Becomes
    <3> QED BY <3>1 DEF IInv
  <2> QED BY <2>1, <2>2
<1> QED BY <1>2, <1>3 DEF IInv

\* What a step leaves alone can be written as a change of its client to the same value.
LEMMA Stays ==
  ASSUME IInv, NEW c \in Clients
  PROVE  /\ effect = [effect EXCEPT ![c] = effect[c]]
         /\ events = [events EXCEPT ![c] = events[c]]
         /\ Sound(c, call[c], effect[c], events[c])
         /\ call[c] \in Call /\ effect[c] \in BOOLEAN /\ events[c] \in SUBSET EventRows
BY DEF IInv

\* A call that changes only its phase and its reply.
LEMMA SilentMove ==
  ASSUME IInv, NEW c \in Clients, NEW phase, NEW reply,
         Moves(c, phase, reply), Silent,
         Sound(c, Moved(c, phase, reply), effect[c], events[c])
  PROVE  IInv'
<1>1. Becomes(c, Moved(c, phase, reply), effect[c], events[c])
  BY Stays DEF Moves, Silent, Becomes, Moved
<1> QED BY <1>1, OneClient

\* The name in an event is one of the actors.
LEMMA ActorType == \A c, q : Actor(c, q) \in Actors
BY DEF Actor, Actors, Known, TokenIdentities

LEMMA EventType ==
  ASSUME NEW status \in Statuses, NEW c, NEW q
  PROVE  Event(status, Actor(c, q)) \in EventRows
BY ActorType DEF Event, EventRows

\* The two tables of the code agree: the reader's capability opens no write tool.
LEMMA ReaderOpensNoWrite ==
  ASSUME NEW q, GateVerdict(q) = "ok", q.tool \in WRITE_TOOLS
  PROVE  /\ q.token = "admin"
         /\ q.tool = "update_account_profile" => q.header = "match"
<1>1. Known(q) /\ Authorized(q) /\ HeaderFits(q)
  BY DEF GateVerdict
<1>2. ToolCapability(q.tool) # "tools:read"
  BY DEF WRITE_TOOLS, READ_TOOLS, ToolCapability
<1>3. q.token \in {"admin", "reader"}
  BY <1>1 DEF Known, TokenIdentities
<1>4. q.token # "reader"
  BY <1>1, <1>2 DEF Authorized, TokenIdentities
<1> QED BY <1>1, <1>3, <1>4 DEF HeaderFits

----------------------------------------------------------------------------
\* A new call starts with nothing changed and nothing logged.
LEMMA CallsSound ==
  ASSUME IInv, NEW c \in Clients, NEW q \in Requests, Calls(c, q) \/ CliRefuses(c, q)
  PROVE  IInv'
<1>1. CASE Calls(c, q)
  <2> DEFINE k == [phase |-> IF c \in HttpClients THEN "gate" ELSE "dispatch", request |-> q, reply |-> NULL]
  <2>1. Becomes(c, k, FALSE, {})
    BY <1>1 DEF Calls, Becomes
  <2>2. Sound(c, k, FALSE, {})
    BY NullIsNoRequest DEF Sound, TypedValues, PhaseSound, AnswerSound, EffectSound, Call, Phases, Statuses
  <2> QED BY <2>1, <2>2, OneClient
<1>2. CASE CliRefuses(c, q)
  <2> DEFINE k == [phase |-> "answered", request |-> q, reply |-> "unreadable"]
  <2>1. Becomes(c, k, FALSE, {})
    BY <1>2 DEF CliRefuses, Becomes
  <2>2. Sound(c, k, FALSE, {})
    BY NullIsNoRequest DEF Sound, TypedValues, PhaseSound, AnswerSound, EffectSound, Call, Phases, Statuses
  <2> QED BY <2>1, <2>2, OneClient
<1> QED BY <1>1, <1>2

\* The gate lets a call through, turns it away, or refuses it with or without an event.
LEMMA GateSound ==
  ASSUME IInv, NEW c \in Clients, NEW ready \in BOOLEAN, GateStep(c, ready)
  PROVE  IInv'
<1> USE DEF Sound, TypedValues, PhaseSound, AnswerSound, EffectSound, Call, Phases, Statuses, Moved
<1>1. CASE Passes(c)
  BY <1>1, Stays, SilentMove DEF Passes
<1>2. CASE TurnsAway(c)
  BY <1>2, Stays, SilentMove DEF TurnsAway, Answers
<1>3. CASE Refuses(c)
  BY <1>3, Stays, SilentMove DEF Refuses
<1>4. CASE EmitsRefusal(c)
  <2> DEFINE k == Moved(c, "answered", call[c].reply)
             l == events[c] \cup {RefusalEvent(c)}
  <2>1. Becomes(c, k, effect[c], l)
    BY <1>4, Stays DEF EmitsRefusal, Answers, Moves, Becomes
  <2>2. call[c].reply \in {"auth_error", "authz_denied", "header_error"} /\ call[c].request # NULL
    BY <1>4, Stays DEF EmitsRefusal
  <2>3. RefusalEvent(c) \in EventRows
    BY <2>2, EventType DEF RefusalEvent
  <2>4. Sound(c, k, effect[c], l)
    BY <1>4, <2>2, <2>3, Stays DEF EmitsRefusal
  <2> QED BY <2>1, <2>4, OneClient
<1>5. CASE DropsRefusalEvent(c)
  BY <1>5, Stays, SilentMove DEF DropsRefusalEvent, Answers
<1> QED BY <1>1, <1>2, <1>3, <1>4, <1>5 DEF GateStep

\* execute_tool and its handler.
LEMMA ExecuteSound ==
  ASSUME IInv, NEW c \in Clients, NEW ready \in BOOLEAN, ExecuteStep(c, ready)
  PROVE  IInv'
<1> USE DEF Sound, TypedValues, PhaseSound, AnswerSound, EffectSound, Call, Phases, Statuses, Moved
<1>1. CASE LooksUpNothing(c)
  BY <1>1, Stays, SilentMove DEF LooksUpNothing, Answers, Dispatching
<1>2. CASE RejectsPayload(c)
  BY <1>2, Stays, SilentMove DEF RejectsPayload, Dispatching
<1>3. CASE HandlerFails(c)
  BY <1>3, Stays, SilentMove DEF HandlerFails, Dispatching, RolledBack, Silent
<1>4. CASE HandlerCommits(c, ready)
  <2> DEFINE e == call[c].request.tool \in WRITE_TOOLS
             l == events[c] \cup {Event("ok", Actor(c, call[c].request))}
             k == IF call[c].request.output = "fits" THEN Moved(c, "reply", "ok")
                                                     ELSE Moved(c, "log", "validation_error")
  <2>1. Becomes(c, k, e, l)
    BY <1>4 DEF HandlerCommits, HandlerEvent, MayCommit, AfterCommit, Moves, Becomes
  <2>2. Event("ok", Actor(c, call[c].request)) \in EventRows
    BY EventType
  <2>3. e /\ c \in HttpClients =>
          /\ call[c].request.token = "admin"
          /\ call[c].request.tool = "update_account_profile" => call[c].request.header = "match"
    BY <1>4, Stays, ReaderOpensNoWrite DEF HandlerCommits, Dispatching
  <2>4. Sound(c, k, e, l)
    BY <1>4, <2>2, <2>3, Stays DEF HandlerCommits, Dispatching
  <2> HIDE DEF e, k, l, Sound
  <2> QED BY <2>1, <2>4, OneClient
<1>5. CASE Delivers(c)
  BY <1>5, Stays, SilentMove DEF Delivers, Answers
<1>6. CASE LogsError(c, ready)
  <2> DEFINE k == Moved(c, "answered", call[c].reply)
             l == events[c] \cup {Event(call[c].reply, Actor(c, call[c].request))}
  <2>1. Becomes(c, k, effect[c], l)
    BY <1>6, Stays DEF LogsError, Answers, Moves, Becomes
  <2>2. call[c].reply \in {"validation_error", "error"} /\ call[c].request # NULL
    BY <1>6, Stays DEF LogsError
  <2>3. Event(call[c].reply, Actor(c, call[c].request)) \in EventRows
    BY <2>2, EventType
  <2>4. Sound(c, k, effect[c], l)
    BY <1>6, <2>2, <2>3, Stays DEF LogsError
  <2> QED BY <2>1, <2>4, OneClient
<1>7. CASE LosesErrorEvent(c)
  BY <1>7, Stays, SilentMove DEF LosesErrorEvent, Answers, FailClosed
<1> QED BY <1>1, <1>2, <1>3, <1>4, <1>5, <1>6, <1>7 DEF ExecuteStep

\* Clients that are cut off keep what was committed and logged.
LEMMA CutSound ==
  ASSUME IInv, NEW clients \in SUBSET Clients, Cut(clients)
  PROVE  IInv'
<1> USE DEF Sound, TypedValues, PhaseSound, AnswerSound, EffectSound, Call, Phases, Statuses
<1>1. ASSUME NEW c \in Clients
      PROVE  call'[c] \in Call /\ Sound(c, call'[c], effect'[c], events'[c])
  <2>1. effect'[c] = effect[c] /\ events'[c] = events[c]
    BY DEF Cut, Silent
  <2>2. CASE c \in clients /\ InHand(c)
    <3>1. call'[c] = Moved(c, "answered", "cut")
      BY <2>2, Stays DEF Cut, Moved
    <3>2. call[c].request # NULL
      BY <2>2, Stays DEF InHand
    <3> QED BY <2>1, <3>1, <3>2, Stays DEF Moved
  <2>3. CASE ~(c \in clients /\ InHand(c))
    BY <2>1, <2>3, Stays DEF Cut
  <2> QED BY <2>2, <2>3
<1>2. call' \in [Clients -> Call]
  BY <1>1 DEF Cut
<1> QED BY <1>1, <1>2 DEF IInv, Cut, Silent

----------------------------------------------------------------------------
\* The invariant holds at the start and is kept by every step.
LEMMA Inductive == RuntimeSpec => []IInv
<1>1. RuntimeInit => IInv
  BY DEF RuntimeInit, IInv, Sound, TypedValues, PhaseSound, AnswerSound, EffectSound, Call, Phases, Statuses
<1>2. IInv /\ [RuntimeNext]_runtimeVars => IInv'
  <2> SUFFICES ASSUME IInv, [RuntimeNext]_runtimeVars
               PROVE  IInv'
    OBVIOUS
  <2>1. CASE UNCHANGED runtimeVars
    BY <2>1 DEF runtimeVars, IInv
  <2>2. ASSUME NEW c \in Clients, NEW q \in Requests, Calls(c, q) \/ CliRefuses(c, q)
        PROVE  IInv'
    BY <2>2, CallsSound
  <2>3. ASSUME NEW c \in Clients, NEW ready \in BOOLEAN, GateStep(c, ready) \/ ExecuteStep(c, ready)
        PROVE  IInv'
    BY <2>3, GateSound, ExecuteSound
  <2>4. ASSUME NEW clients \in SUBSET Clients, Cut(clients)
        PROVE  IInv'
    BY <2>4, CutSound
  <2> QED BY <2>1, <2>2, <2>3, <2>4 DEF RuntimeNext
<1> QED BY <1>1, <1>2, PTL DEF RuntimeSpec

\* Calls, effects and events keep their types, whoever calls what (runtime/execute_tool.py).
THEOREM RuntimeTypeCorrect == RuntimeSpec => []RuntimeTypeOK
<1>1. IInv => RuntimeTypeOK
  BY DEF IInv, RuntimeTypeOK, EventRows, Sound, PhaseSound
<1> QED BY <1>1, Inductive, PTL

\* No change without its event, whatever fails between the handler and the reply: the fail-closed
\* rule of project-context.md:93 over execute_tool.py:254-319.
THEOREM ChangesAreLoggedHolds == RuntimeSpec => []ChangesAreLogged
<1>1. IInv => ChangesAreLogged
  BY DEF IInv, ChangesAreLogged, Sound, EffectSound
<1> QED BY <1>1, Inductive, PTL

\* An answer about a write tool that is not event_log_failure has its event (execute_tool.py:267-319).
THEOREM WriteAnswersAreLoggedHolds == RuntimeSpec => []WriteAnswersAreLogged
<1>1. IInv => WriteAnswersAreLogged
  BY DEF IInv, WriteAnswersAreLogged, Sound, AnswerSound
<1> QED BY <1>1, Inductive, PTL

\* An error answer leaves no change, but for a response that does not fit its schema (execute_tool.py:255-260).
THEOREM ErrorsChangeNothingHolds == RuntimeSpec => []ErrorsChangeNothing
<1>1. IInv => ErrorsChangeNothing
  BY DEF IInv, ErrorsChangeNothing, Sound, EffectSound
<1> QED BY <1>1, Inductive, PTL

\* The gate and the two tables of tools let no reader change anything (api/app.py:90-182).
THEOREM ChangesAreAuthorizedHolds == RuntimeSpec => []ChangesAreAuthorized
<1>1. IInv => ChangesAreAuthorized
  BY DEF IInv, ChangesAreAuthorized, Sound, EffectSound, Clients
<1> QED BY <1>1, Inductive, PTL

\* The steps that a call in hand may still take.
CallLeft(k) ==
  CASE k.phase = "gate" -> 3
    [] k.phase = "dispatch" -> 2
    [] k.phase \in {"refuse", "log", "reply"} -> 1
    [] OTHER -> 0

\* A call in hand stays what it is until a step brings it nearer to its answer: no error of an error
\* sends it back, and no other call takes its place (api/app.py:90-182, runtime/execute_tool.py:110-319).
CallAdvances(c) ==
  InHand(c) => \/ call'[c] = call[c]
               \/ call'[c].request = call[c].request /\ CallLeft(call'[c]) < CallLeft(call[c])
CallsGoOn == \A c \in Clients : CallAdvances(c)
CallsAdvance == [][CallsGoOn]_runtimeVars

LEMMA OthersAreLeftAlone ==
  ASSUME call \in [Clients -> Call], NEW c \in Clients, NEW k, call' = [call EXCEPT ![c] = k], CallAdvances(c),
         NEW d \in Clients
  PROVE  CallAdvances(d)
BY DEF CallAdvances

LEMMA MoveAdvances ==
  ASSUME call \in [Clients -> Call], NEW c \in Clients, NEW phase, NEW reply, Moves(c, phase, reply),
         CallLeft([phase |-> phase, request |-> call[c].request, reply |-> reply]) < CallLeft(call[c]),
         NEW d \in Clients
  PROVE  CallAdvances(d)
<1>1. PICK k : k = [phase |-> phase, request |-> call[c].request, reply |-> reply]
  OBVIOUS
<1>2. call' = [call EXCEPT ![c] = k] /\ k.request = call[c].request
  BY <1>1 DEF Moves
<1>3. CallAdvances(c)
  BY <1>1, <1>2 DEF CallAdvances
<1> QED BY <1>2, <1>3, OthersAreLeftAlone

LEMMA ServiceAdvances ==
  ASSUME call \in [Clients -> Call], NEW c \in Clients, NEW ready \in BOOLEAN,
         GateStep(c, ready) \/ ExecuteStep(c, ready), NEW d \in Clients
  PROVE  CallAdvances(d)
<1>1. CASE GateStep(c, ready)
  <2>1. PICK phase, reply : /\ Moves(c, phase, reply)
                            /\ \/ call[c].phase = "gate" /\ phase \in {"dispatch", "refuse", "answered"}
                               \/ call[c].phase = "refuse" /\ phase = "answered"
    BY <1>1 DEF GateStep, Passes, TurnsAway, Refuses, EmitsRefusal, DropsRefusalEvent, Answers
  <2> QED BY <2>1, MoveAdvances DEF CallLeft
<1>2. CASE ExecuteStep(c, ready)
  <2>1. PICK phase, reply : /\ Moves(c, phase, reply)
                            /\ \/ call[c].phase = "dispatch" /\ phase \in {"log", "reply", "answered"}
                               \/ call[c].phase \in {"log", "reply"} /\ phase = "answered"
    BY <1>2 DEF ExecuteStep, LooksUpNothing, RejectsPayload, HandlerFails, HandlerCommits, AfterCommit, Dispatching,
                Delivers, LogsError, LosesErrorEvent, Answers
  <2> QED BY <2>1, MoveAdvances DEF CallLeft
<1> QED BY <1>1, <1>2

\* What CallsAreAnswered rests on beside fairness, for any number of clients.
THEOREM CallsAdvanceHolds == RuntimeSpec => CallsAdvance
<1>1. ASSUME IInv, [RuntimeNext]_runtimeVars, NEW d \in Clients PROVE CallAdvances(d)
  <2>1. call \in [Clients -> Call]
    BY <1>1 DEF IInv
  <2>2. ASSUME NEW c \in Clients, NEW q, Calls(c, q) \/ CliRefuses(c, q) PROVE CallAdvances(d)
    <3>1. CallAdvances(c) /\ \E k : call' = [call EXCEPT ![c] = k]
      BY <2>2 DEF Calls, CliRefuses, CallAdvances
    <3> QED BY <2>1, <3>1, OthersAreLeftAlone
  <2>3. ASSUME NEW clients \in SUBSET Clients, Cut(clients) PROVE CallAdvances(d)
    <3>1. \/ call'[d] = call[d]
          \/ call'[d] = [phase |-> "answered", request |-> call[d].request, reply |-> "cut"]
      BY <2>3 DEF Cut
    <3>2. InHand(d) => CallLeft(call[d]) > 0 /\ CallLeft(call[d]) \in Nat
      BY DEF InHand, Phases, CallLeft
    <3>3. CallLeft([phase |-> "answered", request |-> call[d].request, reply |-> "cut"]) = 0
      BY DEF CallLeft
    <3> QED BY <3>1, <3>2, <3>3 DEF CallAdvances
  <2>4. CASE UNCHANGED runtimeVars
    BY <2>4 DEF runtimeVars, CallAdvances
  <2> QED BY <1>1, <2>1, <2>2, <2>3, <2>4, ServiceAdvances DEF RuntimeNext
<1>2. IInv /\ [RuntimeNext]_runtimeVars => CallsGoOn
  BY <1>1 DEF CallsGoOn
<1> QED BY <1>2, Inductive, PTL DEF RuntimeSpec, CallsAdvance

----------------------------------------------------------------------------
(* The composition. *)

\* The workload stays what it was at the start.
LEMMA WorkloadStays == Safety => [](workload \in Workloads)
<1>1. Init => workload \in Workloads
  BY DEF Init
<1>2. workload \in Workloads /\ [Next]_upkeepVars => (workload \in Workloads)'
  BY DEF Next, upkeepVars, MigrationRuns, CycleChecks, HttpArrives, CliArrives, HttpSteps, CliSteps, CliIsKilled,
         Touches, ServerSteps, ServerLeaves, JoinTimesOut, ServerIsKilled, OnlyMigrations, OnlyRuntime, OnlyIdle
<1> QED BY <1>1, <1>2, PTL DEF Safety

\* A call that arrives is one of the requests of the runtime.
LEMMA ArrivalRefines ==
  ASSUME workload \in Workloads, NEW c,
         NEW q \in workload.http \cup workload.cli, HttpArrives(c, q) \/ CliArrives(c, q)
  PROVE  RuntimeNext
<1>1. q \in Requests
  BY WorkloadsAssumption
<1>2. c \in Clients /\ (Calls(c, q) \/ CliRefuses(c, q))
  BY DEF HttpArrives, CliArrives, Clients
<1> QED BY <1>1, <1>2 DEF RuntimeNext

\* A step of a call uses one state of the log: there with its columns, or not.
LEMMA ServiceRefines ==
  ASSUME NEW c, HttpSteps(c) \/ CliSteps(c)
  PROVE  RuntimeNext
<1>1. LogReady \in BOOLEAN
  BY DEF LogReady
<1>2. c \in Clients /\ (GateStep(c, LogReady) \/ ExecuteStep(c, LogReady))
  BY DEF HttpSteps, CliSteps, Clients
<1> QED BY <1>1, <1>2 DEF RuntimeNext

\* A killed CLI cuts itself off, a server that ends cuts off its clients.
LEMMA KillRefines ==
  ASSUME NEW c, CliIsKilled(c) \/ JoinTimesOut \/ ServerIsKilled
  PROVE  RuntimeNext
<1>1. CASE CliIsKilled(c)
  <2>1. {c} \in SUBSET Clients /\ Cut({c})
    BY <1>1 DEF CliIsKilled, Clients
  <2> QED BY <2>1 DEF RuntimeNext
<1>2. CASE JoinTimesOut \/ ServerIsKilled
  <2>1. HttpClients \in SUBSET Clients /\ Cut(HttpClients)
    BY <1>2 DEF JoinTimesOut, ServerIsKilled, Clients
  <2> QED BY <2>1 DEF RuntimeNext
<1> QED BY <1>1, <1>2

\* Each action is a step of the calls by themselves, or leaves them alone.
LEMMA StepRefines ==
  ASSUME workload \in Workloads, [Next]_upkeepVars
  PROVE  [RuntimeNext]_runtimeVars
<1>1. CASE UNCHANGED upkeepVars
  BY <1>1 DEF upkeepVars
<1>2. CASE MigrationRuns \/ CycleChecks \/ Touches \/ ServerSteps \/ ServerLeaves
  BY <1>2 DEF MigrationRuns, CycleChecks, Touches, ServerSteps, ServerLeaves, OnlyMigrations, OnlyIdle
<1>3. CASE \E c \in workload.clients : \/ \E q \in workload.http : HttpArrives(c, q)
                                       \/ \E q \in workload.cli : CliArrives(c, q)
  BY <1>3, ArrivalRefines
<1>4. CASE \E c \in workload.clients : HttpSteps(c) \/ CliSteps(c)
  BY <1>4, ServiceRefines
<1>5. CASE (\E c \in workload.clients : CliIsKilled(c)) \/ JoinTimesOut \/ ServerIsKilled
  BY <1>5, KillRefines
<1> QED BY <1>1, <1>2, <1>3, <1>4, <1>5 DEF Next

\* The whole implements the calls by themselves: migrations, the idle check and kills do to a call only
\* what ToolRuntime allows (api/app.py, cli/tool.py, runtime/execute_tool.py, serve_with_idle_shutdown.py).
THEOREM UpkeepImplementsToolRuntime == Safety => ImplementsToolRuntime
<1>1. Init => RuntimeInit
  BY DEF Init
<1> QED BY <1>1, WorkloadStays, StepRefines, PTL DEF Safety, ImplementsToolRuntime, RuntimeSpec

\* Fail-closed logging and authorization hold in the whole: across kills, a server cut off by its idle
\* check, and an event_log the migrations have not finished (project-context.md:93).
THEOREM UpkeepKeepsCallsSound ==
  Safety => [](ChangesAreLogged /\ WriteAnswersAreLogged /\ ErrorsChangeNothing /\ ChangesAreAuthorized)
BY UpkeepImplementsToolRuntime, ChangesAreLoggedHolds, WriteAnswersAreLoggedHolds, ErrorsChangeNothingHolds,
   ChangesAreAuthorizedHolds, PTL DEF ImplementsToolRuntime

----------------------------------------------------------------------------
(* What CallsAreAnswered rests on beside fairness, in the whole: no call goes back, and none waits for a *)
(* process that is gone or for a turn that nobody has.                                                   *)

\* Calls advance next to migrations, an idle server and kills.
THEOREM UpkeepAdvancesCalls == Safety => CallsAdvance
BY UpkeepImplementsToolRuntime, CallsAdvanceHolds, PTL DEF ImplementsToolRuntime

\* A call over HTTP whose body has arrived.
PastGate(c) == InHand(c) /\ call[c].phase # "gate"

ServedInv ==
  /\ touching => server # "down"
  /\ \A c \in HttpClients : InHand(c) => server # "down"
  /\ \A c, d \in HttpClients : PastGate(c) /\ PastGate(d) => c = d

\* No call over HTTP outlives the process that serves it, and it is always the turn of one of them
\* (api/app.py:127-182, scripts/serve_with_idle_shutdown.py:84-104).
RequestsAreServed ==
  \A c \in HttpClients : InHand(c) => server # "down" /\ \E d \in HttpClients : InHand(d) /\ Alone(d)

\* Calls of the CLI leave those of the server alone.
LEMMA CliLeavesHttp ==
  ASSUME call \in [Clients -> Call], NEW c \in CliClients, \E k : call' = [call EXCEPT ![c] = k],
         UNCHANGED <<server, touching>>, ServedInv
  PROVE  ServedInv'
<1>1. \A d \in HttpClients : call'[d] = call[d]
  BY ClientsAreDistinct DEF Clients
<1> QED BY <1>1 DEF ServedInv, PastGate, InHand

\* A call whose turn it is goes on, or arrives.
LEMMA TurnIsKept ==
  ASSUME call \in [Clients -> Call], NEW c \in HttpClients, Alone(c), \E k : call' = [call EXCEPT ![c] = k],
         server # "down", server' = server, ServedInv
  PROVE  ServedInv'
<1>1. \A d \in HttpClients \ {c} : call'[d] = call[d] /\ ~PastGate(d)
  BY DEF Clients, Alone, PastGate
<1>2. \A d \in HttpClients \ {c} : ~(PastGate(d))'
  BY <1>1 DEF PastGate, InHand
<1> QED BY <1>2 DEF ServedInv

\* The server's process ends, and takes with it what it has not answered.
LEMMA NothingIsLeft ==
  ASSUME Leaves, \A c \in HttpClients : ~(InHand(c))'
  PROVE  ServedInv'
BY DEF Leaves, ServedInv, PastGate

\* A step that serves a call changes no other call.
LEMMA ServiceMovesOne ==
  ASSUME NEW c, NEW ready, GateStep(c, ready) \/ ExecuteStep(c, ready)
  PROVE  \E k : call' = [call EXCEPT ![c] = k]
BY DEF GateStep, ExecuteStep, Passes, TurnsAway, Refuses, EmitsRefusal, DropsRefusalEvent, LooksUpNothing,
       RejectsPayload, HandlerFails, HandlerCommits, AfterCommit, Delivers, LogsError, LosesErrorEvent, Answers, Moves

\* The process may end at any time, and calls may come at any time: still every call is in a process's hands.
THEOREM RequestsAreServedHolds == Safety => []RequestsAreServed
<1>1. Init => ServedInv
  BY DEF Init, RuntimeInit, IdleInit, ServedInv, PastGate, InHand, Clients
<1>2. workload \in Workloads /\ IInv /\ ServedInv /\ [Next]_upkeepVars => ServedInv'
  <2> SUFFICES ASSUME workload \in Workloads, IInv, ServedInv, [Next]_upkeepVars
               PROVE  ServedInv'
    OBVIOUS
  <2>1. call \in [Clients -> Call]
    BY DEF IInv
  <2>2. CASE call' = call /\ server' # "down" /\ (touching' => touching \/ server' # "down")
    BY <2>2 DEF ServedInv, PastGate, InHand
  <2>3. CASE UNCHANGED <<call, server, touching>>
    BY <2>3 DEF ServedInv, PastGate, InHand
  <2>4. CASE MigrationRuns \/ CycleChecks
    BY <2>3, <2>4 DEF MigrationRuns, CycleChecks, OnlyMigrations, runtimeVars, idleVars, fileVars
  <2>5. CASE \E c \in workload.clients : \/ \E q \in workload.http : HttpArrives(c, q)
                                         \/ HttpSteps(c)
    <3>1. PICK c \in HttpClients : /\ Alone(c) /\ server # "down" /\ server' = server
                                   /\ \E k : call' = [call EXCEPT ![c] = k]
      BY <2>5, ServiceMovesOne DEF HttpArrives, HttpSteps, OnlyRuntime, idleVars, RequestTruncates, Calls
    <3> QED BY <2>1, <3>1, TurnIsKept
  <2>6. CASE \E c \in workload.clients : \/ \E q \in workload.cli : CliArrives(c, q)
                                         \/ CliSteps(c)
    <3>1. PICK c \in CliClients : /\ UNCHANGED <<server, touching>>
                                  /\ \E k : call' = [call EXCEPT ![c] = k]
      BY <2>6, ServiceMovesOne DEF CliArrives, CliSteps, OnlyRuntime, idleVars, fileVars, Calls, CliRefuses
    <3> QED BY <2>1, <3>1, CliLeavesHttp
  <2>7. CASE \E c \in workload.clients : CliIsKilled(c)
    <3>1. PICK c \in CliClients : Cut({c}) /\ UNCHANGED <<server, touching>>
      BY <2>7 DEF CliIsKilled, OnlyRuntime, idleVars, fileVars
    <3>2. \A d \in HttpClients : call'[d] = call[d]
      BY <3>1, ClientsAreDistinct DEF Cut, Clients
    <3> QED BY <3>1, <3>2 DEF ServedInv, PastGate, InHand
  <2>8. CASE Touches \/ ServerSteps
    BY <2>2, <2>3, <2>8 DEF Touches, ServerSteps, OnlyIdle, runtimeVars, RequestStamps, ServerStarts, Ticks, Check,
                           CheckReads, CheckCompares, CheckStops, fileVars, Signal, ServedInv
  <2>9. CASE ServerLeaves
    BY <2>9, NothingIsLeft DEF ServerLeaves, Serving, OnlyIdle, runtimeVars, InHand
  <2>10. CASE JoinTimesOut \/ ServerIsKilled
    <3>1. \A c \in HttpClients : call'[c].phase \in {"idle", "answered"} \/ call'[c].phase \notin Phases
      BY <2>10 DEF JoinTimesOut, ServerIsKilled, Cut, Clients, InHand
    <3> QED BY <2>10, <3>1, NothingIsLeft DEF JoinTimesOut, ServerIsKilled, InHand
  <2> QED BY <2>3, <2>4, <2>5, <2>6, <2>7, <2>8, <2>9, <2>10 DEF Next, upkeepVars, runtimeVars, idleVars, fileVars
<1>3. ServedInv => RequestsAreServed
  BY DEF ServedInv, RequestsAreServed, Alone, PastGate
<1>4. Safety => []IInv
  BY UpkeepImplementsToolRuntime, Inductive, PTL DEF ImplementsToolRuntime
<1> QED BY <1>1, <1>2, <1>3, <1>4, WorkloadStays, PTL DEF Safety

----------------------------------------------------------------------------
\* Every script before a number is recorded.
UpTo(at) == \A m \in Nat : 0 < m /\ m < at => m \in recorded

Under == {"look", "script", "record"}
Places == {"idle", "done", "failed"} \cup Under

\* A run stands at a number, and every script before it is recorded.
RunsAreInOrder ==
  /\ recorded \subseteq Nat
  /\ runner \in [Runners -> [pc : Places, at : Nat, stmt : Nat]]
  /\ \A r \in Runners : runner[r].pc \in Under => UpTo(runner[r].at)

OrderInv == RunsAreInOrder /\ \A m \in recorded : UpTo(m)

\* A run goes to another place of the same or the next script.
LEMMA RunMoves ==
  ASSUME OrderInv, NEW r \in Runners, NEW pc \in Places, NEW at \in Nat, NEW stmt \in Nat,
         RunGoes(r, pc, at, stmt), recorded' = recorded, pc \in Under => UpTo(at)
  PROVE  OrderInv'
<1>1. runner' \in [Runners -> [pc : Places, at : Nat, stmt : Nat]]
  BY DEF OrderInv, RunsAreInOrder, RunGoes
<1>2. ASSUME NEW q \in Runners, runner'[q].pc \in Under
      PROVE  UpTo(runner'[q].at)
  BY <1>2 DEF OrderInv, RunsAreInOrder, RunGoes
<1> QED BY <1>1, <1>2 DEF OrderInv, RunsAreInOrder, UpTo

\* One step of a run, or its kill.
LEMMA RunKeepsOrder ==
  ASSUME OrderInv, NEW r \in Runners, RunStarts(r) \/ RunStep(r) \/ RunIsKilled(r)
  PROVE  OrderInv'
<1>0. /\ runner[r].at \in Nat /\ runner[r].at + 1 \in Nat
      /\ runner[r].stmt \in Nat /\ runner[r].stmt + 1 \in Nat
      /\ recorded \subseteq Nat
      /\ runner[r].pc \in Under => UpTo(runner[r].at)
  BY DEF OrderInv, RunsAreInOrder
<1>1. CASE RunStarts(r) \/ RunIsKilled(r)
  <2>1. UpTo(1)
    BY DEF UpTo
  <2>2. recorded' = recorded /\ (RunGoes(r, "look", 1, 1) \/ RunGoes(r, "idle", 1, 1))
    BY <1>1 DEF RunStarts, RunIsKilled
  <2>3. "look" \in Places /\ "idle" \in Places \ Under
    BY DEF Places, Under
  <2> QED BY <2>1, <2>2, <2>3, RunMoves
<1>2. CASE RunLooks(r)
  <2>1. UpTo(runner[r].at) /\ recorded' = recorded
    BY <1>0, <1>2 DEF RunLooks, At, Under
  <2>2. CASE runner[r].at \in recorded
    <3>1. UpTo(runner[r].at + 1)
      BY <1>0, <2>1, <2>2 DEF UpTo
    <3>2. RunGoes(r, "look", runner[r].at + 1, 1)
      BY <1>2, <2>2 DEF RunLooks, NextScript
    <3>3. "look" \in Places
      BY DEF Places, Under
    <3> QED BY <1>0, <2>1, <3>1, <3>2, <3>3, RunMoves
  <2>3. CASE runner[r].at \notin recorded
    <3>1. RunGoes(r, "script", runner[r].at, 1)
      BY <1>2, <2>3 DEF RunLooks, NextScript
    <3>2. "script" \in Places
      BY DEF Places, Under
    <3> QED BY <1>0, <2>1, <3>1, <3>2, RunMoves
  <2> QED BY <2>2, <2>3
<1>3. CASE RunEnds(r) \/ RunRaises(r) \/ RunLosesRecord(r)
  <2>1. recorded' = recorded /\ (RunGoes(r, "done", runner[r].at, 1) \/ RunGoes(r, "failed", runner[r].at, 1))
    BY <1>3 DEF RunEnds, RunRaises, AfterRefusal, RunLosesRecord
  <2>2. {"done", "failed"} \subseteq Places \ Under
    BY DEF Places, Under
  <2> QED BY <1>0, <2>1, <2>2, RunMoves
<1>4. CASE RunExecutes(r)
  <2>1. UpTo(runner[r].at) /\ recorded' = recorded
    BY <1>0, <1>4 DEF RunExecutes, At, Under
  <2>2. RunGoes(r, "record", runner[r].at, 1) \/ RunGoes(r, "script", runner[r].at, runner[r].stmt + 1)
    BY <1>4 DEF RunExecutes
  <2>3. {"record", "script"} \subseteq Places
    BY DEF Places, Under
  <2> QED BY <1>0, <2>1, <2>2, <2>3, RunMoves
<1>5. CASE RunRecords(r)
  <2> DEFINE at == runner[r].at
  <2>1. UpTo(at) /\ recorded' = recorded \cup {at}
    BY <1>0, <1>5 DEF RunRecords, At, Under
  <2>2. runner' = [runner EXCEPT ![r] = [pc |-> "look", at |-> at + 1, stmt |-> 1]]
    BY <1>5 DEF RunRecords, RunGoes
  <2>3. recorded' \subseteq Nat /\ \A m \in recorded' : \A n \in Nat : 0 < n /\ n < m => n \in recorded'
    BY <1>0, <2>1 DEF OrderInv, UpTo
  <2>4. runner' \in [Runners -> [pc : Places, at : Nat, stmt : Nat]]
    BY <1>0, <2>2 DEF OrderInv, RunsAreInOrder, Places, Under
  <2>5. ASSUME NEW q \in Runners, runner'[q].pc \in Under
        PROVE  \A n \in Nat : 0 < n /\ n < runner'[q].at => n \in recorded'
    <3>1. CASE q = r
      <4>1. runner'[q].at = at + 1
        BY <2>2, <3>1 DEF OrderInv, RunsAreInOrder
      <4> QED BY <1>0, <2>1, <4>1 DEF UpTo
    <3>2. CASE q # r
      <4>1. runner'[q] = runner[q]
        BY <2>2, <3>2 DEF OrderInv, RunsAreInOrder
      <4> QED BY <2>1, <2>5, <4>1 DEF OrderInv, RunsAreInOrder, UpTo
    <3> QED BY <3>1, <3>2
  <2> QED BY <2>3, <2>4, <2>5 DEF OrderInv, RunsAreInOrder, UpTo
<1> QED BY <1>1, <1>2, <1>3, <1>4, <1>5 DEF RunStep

\* Only the runs and the cycle check touch what migrations keep, and the check nothing but its own.
LEMMA OtherStepsLeaveMigrations ==
  ASSUME [Next]_upkeepVars, ~MigrationRuns
  PROVE  UNCHANGED <<schema, recorded, runner>>
BY DEF Next, upkeepVars, migrationVars, CycleChecks, CycleStep, HttpArrives, CliArrives, HttpSteps, CliSteps,
       CliIsKilled, Touches, ServerSteps, ServerLeaves, JoinTimesOut, ServerIsKilled, OnlyRuntime, OnlyIdle

\* Order holds at the start and is kept.
LEMMA OrderInductive == Safety => []OrderInv
<1>1. Init => OrderInv
  <2> SUFFICES ASSUME Init PROVE OrderInv
    OBVIOUS
  <2>1. PICK k \in Nat : recorded = 1..k
    BY WorkloadsAssumption DEF Init, MigrationInit
  <2>2. RunsAreInOrder
    BY <2>1 DEF Init, MigrationInit, RunsAreInOrder, Places, Under
  <2> QED BY <2>1, <2>2 DEF OrderInv, UpTo
<1>2. workload \in Workloads /\ OrderInv /\ [Next]_upkeepVars => OrderInv'
  <2> SUFFICES ASSUME workload \in Workloads, OrderInv, [Next]_upkeepVars
               PROVE  OrderInv'
    OBVIOUS
  <2>1. CASE UNCHANGED <<recorded, runner>>
    BY <2>1 DEF OrderInv, RunsAreInOrder, UpTo
  <2>2. CASE MigrationRuns
    BY <2>2, RunKeepsOrder, WorkloadsAssumption DEF MigrationRuns
  <2>3. ~MigrationRuns => UNCHANGED <<recorded, runner>>
    BY OtherStepsLeaveMigrations DEF migrationVars
  <2> QED BY <2>1, <2>2, <2>3
<1> QED BY <1>1, <1>2, WorkloadStays, PTL DEF Safety

\* Scripts are recorded in order, with any number of runs at once, scripts that raise, records that are
\* refused and kills at any statement (db/migrations.py:59-85).
THEOREM NoScriptIsPassedOverHolds == Safety => []NoScriptIsPassedOver
<1>1. OrderInv => NoScriptIsPassedOver
  BY DEF OrderInv, RunsAreInOrder, UpTo, NoScriptIsPassedOver
<1> QED BY <1>1, OrderInductive, PTL

\* Where a run is within one script: it looks for the record, executes, records.
PlaceInScript(pc) == CASE pc = "look" -> 1 [] pc = "script" -> 2 [] OTHER -> 3

\* A run ends, or goes through a script from its look to its record, a statement at a time, and on to the
\* next one only when this one is recorded: it never goes back (db/migrations.py:59-85).
RunAdvances(r) ==
  runner[r].pc \in Under =>
    \/ runner'[r] = runner[r] \/ runner'[r].pc \notin Under
    \/ runner'[r].at = runner[r].at + 1 /\ runner[r].at \in recorded'
    \/ /\ runner'[r].at = runner[r].at
       /\ \/ PlaceInScript(runner'[r].pc) > PlaceInScript(runner[r].pc)
          \/ runner'[r].pc = runner[r].pc /\ runner'[r].stmt = runner[r].stmt + 1
RunsGoOn == \A r \in Runners : RunAdvances(r)
RunsAdvance == [][RunsGoOn]_migrationVars

\* Any number of runs at once do: each start is followed by an end, a refusal or a kill.
THEOREM RunsAdvanceHolds == Safety => RunsAdvance
<1>1. workload \in Workloads /\ OrderInv /\ [Next]_upkeepVars => RunsGoOn
  <2> SUFFICES ASSUME workload \in Workloads, OrderInv, [Next]_upkeepVars, NEW q \in Runners
               PROVE  RunAdvances(q)
    BY DEF RunsGoOn
  <2>0. runner \in [Runners -> [pc : Places, at : Nat, stmt : Nat]]
    BY DEF OrderInv, RunsAreInOrder
  <2>1. CASE runner' = runner
    BY <2>1 DEF RunAdvances
  <2>2. CASE MigrationRuns
    <3>1. PICK r \in Runners : RunStarts(r) \/ RunStep(r) \/ RunIsKilled(r)
      BY <2>2, WorkloadsAssumption DEF MigrationRuns
    <3>2. \E pc, at, stmt : RunGoes(r, pc, at, stmt)
      BY <3>1 DEF RunStarts, RunStep, RunIsKilled, RunLooks, RunEnds, RunExecutes, RunRaises, AfterRefusal,
                  RunRecords, RunLosesRecord
    <3>3. CASE q # r
      <4>1. runner'[q] = runner[q]
        BY <2>0, <3>2, <3>3 DEF RunGoes
      <4> QED BY <4>1 DEF RunAdvances
    <3>4. CASE RunLooks(r)
      <4>1. RunGoes(r, NextScript(r), IF runner[r].at \in recorded THEN runner[r].at + 1 ELSE runner[r].at, 1)
            /\ runner[r].pc = "look" /\ recorded' = recorded
        BY <3>4 DEF RunLooks, At
      <4>2. \/ runner[r].at \in recorded' /\ runner'[r].at = runner[r].at + 1
            \/ runner'[r].at = runner[r].at /\ runner'[r].pc = "script"
        BY <2>0, <4>1 DEF RunGoes, NextScript
      <4> QED BY <3>3, <4>1, <4>2 DEF RunAdvances, PlaceInScript
    <3>5. CASE RunExecutes(r)
      <4>1. \/ runner'[r] = [pc |-> "record", at |-> runner[r].at, stmt |-> 1]
            \/ runner'[r] = [pc |-> "script", at |-> runner[r].at, stmt |-> runner[r].stmt + 1]
        BY <2>0, <3>5 DEF RunExecutes, RunGoes
      <4>2. runner[r].pc = "script"
        BY <3>5 DEF RunExecutes, At
      <4> QED BY <3>3, <4>1, <4>2 DEF RunAdvances, PlaceInScript
    <3>6. CASE RunRecords(r)
      <4>1. runner'[r].at = runner[r].at + 1 /\ runner[r].at \in recorded'
        BY <2>0, <3>6 DEF RunRecords, RunGoes
      <4> QED BY <3>3, <4>1 DEF RunAdvances
    <3>7. CASE RunStarts(r) \/ RunEnds(r) \/ RunRaises(r) \/ RunLosesRecord(r) \/ RunIsKilled(r)
      <4>1. runner[r].pc \notin Under \/ runner'[r].pc \in {"done", "failed", "idle"}
        BY <2>0, <3>7 DEF RunStarts, RunEnds, RunRaises, AfterRefusal, RunLosesRecord, RunIsKilled, RunGoes, Under
      <4> QED BY <3>3, <4>1 DEF RunAdvances, Under
    <3> QED BY <3>1, <3>4, <3>5, <3>6, <3>7 DEF RunStep
  <2> QED BY <2>1, <2>2, OtherStepsLeaveMigrations
<1>2. workload \in Workloads /\ OrderInv /\ [Next]_upkeepVars => [RunsGoOn]_migrationVars
  BY <1>1
<1> QED BY <1>2, OrderInductive, WorkloadStays, PTL DEF Safety, RunsAdvance

----------------------------------------------------------------------------
\* What the statements of a script before a number leave for good is there.
Through(m, stmt) == \A i \in 1..stmt - 1 : \A o \in Brings(Forward[m][i]) : Kept(o) => o \in schema

\* A run in a script has gone through the statements before its own, a run that records through all.
RunsAreThrough ==
  /\ runner \in [Runners -> [pc : Places, at : Nat, stmt : Nat]]
  /\ \A r \in Runners :
       /\ runner[r].pc \in Under => runner[r].at \in 1..Len(Forward) + 1
       /\ runner[r].pc = "script" => /\ runner[r].at \in DOMAIN Forward
                                     /\ runner[r].stmt \in DOMAIN Forward[runner[r].at]
                                     /\ Through(runner[r].at, runner[r].stmt)
       /\ runner[r].pc = "record" => runner[r].at \in DOMAIN Forward /\ LeftBy[runner[r].at] \subseteq schema

AppliedInv == RunsAreThrough /\ recorded \subseteq DOMAIN Forward /\ RecordedIsApplied

\* A statement of a script keeps what the scripts leave for good, and adds its own.
LEMMA StatementKeeps ==
  ASSUME NEW m \in DOMAIN Forward, NEW i \in DOMAIN Forward[m], NEW db
  PROVE  /\ \A o \in db : Kept(o) => o \in After(db, Forward[m][i])
         /\ Brings(Forward[m][i]) \subseteq After(db, Forward[m][i])
<1>1. Forward[m][i] \in ToSet(Forward[m])
  BY DEF ToSet
<1> QED BY <1>1 DEF After, Kept

\* A place of one run that is sound, and a schema and a record that keep what is left for good, keep the invariant.
LEMMA OneRun ==
  ASSUME AppliedInv, NEW r \in Runners, NEW pc \in Places, NEW at \in Nat, NEW stmt \in Nat,
         RunGoes(r, pc, at, stmt),
         \A o \in schema : Kept(o) => o \in schema',
         recorded' \subseteq DOMAIN Forward,
         \A m \in recorded' : LeftBy[m] \subseteq schema',
         pc \in Under => at \in 1..Len(Forward) + 1,
         pc = "script" => /\ at \in DOMAIN Forward /\ stmt \in DOMAIN Forward[at]
                          /\ \A i \in 1..stmt - 1 : \A o \in Brings(Forward[at][i]) : Kept(o) => o \in schema',
         pc = "record" => at \in DOMAIN Forward /\ LeftBy[at] \subseteq schema'
  PROVE  AppliedInv'
<1>1. runner' \in [Runners -> [pc : Places, at : Nat, stmt : Nat]]
  BY DEF AppliedInv, RunsAreThrough, RunGoes
<1>2. ASSUME NEW q \in Runners
      PROVE  /\ runner'[q].pc \in Under => runner'[q].at \in 1..Len(Forward) + 1
             /\ runner'[q].pc = "script" =>
                  /\ runner'[q].at \in DOMAIN Forward
                  /\ runner'[q].stmt \in DOMAIN Forward[runner'[q].at]
                  /\ \A i \in 1..runner'[q].stmt - 1 :
                       \A o \in Brings(Forward[runner'[q].at][i]) : Kept(o) => o \in schema'
             /\ runner'[q].pc = "record" =>
                  runner'[q].at \in DOMAIN Forward /\ LeftBy[runner'[q].at] \subseteq schema'
  <2>1. CASE q = r
    <3>1. runner'[q].pc = pc /\ runner'[q].at = at /\ runner'[q].stmt = stmt
      BY <2>1 DEF AppliedInv, RunsAreThrough, RunGoes
    <3> QED BY <3>1
  <2>2. CASE q # r
    <3>1. runner'[q] = runner[q]
      BY <2>2 DEF AppliedInv, RunsAreThrough, RunGoes
    <3>2. \A m \in DOMAIN Forward : LeftBy[m] \subseteq schema => LeftBy[m] \subseteq schema'
      BY DEF LeftBy
    <3> QED BY <3>1, <3>2 DEF AppliedInv, RunsAreThrough, Through
  <2> QED BY <2>1, <2>2
<1> QED BY <1>1, <1>2 DEF AppliedInv, RunsAreThrough, Through, RecordedIsApplied

\* One step of a run, or its kill.
LEMMA RunKeepsApplied ==
  ASSUME AppliedInv, NEW r \in Runners, RunStarts(r) \/ RunStep(r) \/ RunIsKilled(r)
  PROVE  AppliedInv'
<1>0. /\ runner[r].at \in Nat /\ runner[r].at + 1 \in Nat
      /\ runner[r].stmt \in Nat /\ runner[r].stmt + 1 \in Nat
      /\ recorded \subseteq DOMAIN Forward /\ (\A m \in recorded : LeftBy[m] \subseteq schema)
      /\ runner[r].pc \in Under => runner[r].at \in 1..Len(Forward) + 1
      /\ runner[r].pc = "script" => /\ runner[r].at \in DOMAIN Forward
                                    /\ runner[r].stmt \in DOMAIN Forward[runner[r].at]
                                    /\ Through(runner[r].at, runner[r].stmt)
      /\ runner[r].pc = "record" => runner[r].at \in DOMAIN Forward /\ LeftBy[runner[r].at] \subseteq schema
      /\ Len(Forward) \in Nat
  BY ScriptsAreSequences DEF AppliedInv, RunsAreThrough, RecordedIsApplied
<1>1. CASE RunStarts(r) \/ RunIsKilled(r)
  <2>1. UNCHANGED <<schema, recorded>> /\ (RunGoes(r, "look", 1, 1) \/ RunGoes(r, "idle", 1, 1))
    BY <1>1 DEF RunStarts, RunIsKilled
  <2>2. "look" \in Places /\ "idle" \in Places \ Under /\ 1 \in 1..Len(Forward) + 1
    BY <1>0 DEF Places, Under
  <2> QED BY <1>0, <2>1, <2>2, OneRun
<1>2. CASE RunLooks(r)
  <2>1. runner[r].at \in 1..Len(Forward) /\ UNCHANGED <<schema, recorded>>
    BY <1>0, <1>2 DEF RunLooks, At, Under, ScriptsLeft
  <2>2. "look" \in Places /\ "script" \in Places
    BY DEF Places, Under
  <2>3. CASE runner[r].at \in recorded
    <3>1. RunGoes(r, "look", runner[r].at + 1, 1) /\ runner[r].at + 1 \in 1..Len(Forward) + 1
      BY <1>0, <1>2, <2>1, <2>3 DEF RunLooks, NextScript
    <3> QED BY <1>0, <2>1, <2>2, <3>1, OneRun
  <2>4. CASE runner[r].at \notin recorded
    <3>1. RunGoes(r, "script", runner[r].at, 1) /\ runner[r].at \in 1..Len(Forward) + 1
      BY <1>0, <1>2, <2>1, <2>4 DEF RunLooks, NextScript
    <3>2. runner[r].at \in DOMAIN Forward /\ 1 \in DOMAIN Forward[runner[r].at]
      BY <2>1, ScriptsAreSequences
    <3>3. 1..1 - 1 = {}
      OBVIOUS
    <3> QED BY <1>0, <2>1, <2>2, <3>1, <3>2, <3>3, OneRun
  <2> QED BY <2>3, <2>4
<1>3. CASE RunEnds(r) \/ RunRaises(r) \/ RunLosesRecord(r)
  <2>1. UNCHANGED <<schema, recorded>> /\ (RunGoes(r, "done", runner[r].at, 1) \/ RunGoes(r, "failed", runner[r].at, 1))
    BY <1>3 DEF RunEnds, RunRaises, AfterRefusal, RunLosesRecord
  <2>2. {"done", "failed"} \subseteq Places \ Under
    BY DEF Places, Under
  <2>3. "script" \in Under /\ "record" \in Under
    BY DEF Under
  <2> QED BY <1>0, <2>1, <2>2, <2>3, OneRun
<1>4. CASE RunExecutes(r)
  <2> DEFINE at == runner[r].at
             stmt == runner[r].stmt
  <2>1. /\ at \in DOMAIN Forward /\ stmt \in DOMAIN Forward[at] /\ Through(at, stmt)
        /\ schema' = After(schema, Forward[at][stmt]) /\ recorded' = recorded
    BY <1>0, <1>4 DEF RunExecutes, At, RunStmt
  <2>2. /\ \A o \in schema : Kept(o) => o \in schema'
        /\ Brings(Forward[at][stmt]) \subseteq schema'
    BY <2>1, StatementKeeps
  <2>3. \A m \in recorded' : LeftBy[m] \subseteq schema'
    BY <1>0, <2>1, <2>2 DEF LeftBy
  <2>4. at \in 1..Len(Forward) + 1 /\ DOMAIN Forward[at] = 1..Len(Forward[at]) /\ Len(Forward[at]) \in Nat
    BY <1>0, <2>1, ScriptsAreSequences
  <2>5. \A i \in 1..stmt : \A o \in Brings(Forward[at][i]) : Kept(o) => o \in schema'
    <3> SUFFICES ASSUME NEW i \in 1..stmt, NEW o \in Brings(Forward[at][i]), Kept(o)
                 PROVE  o \in schema'
      OBVIOUS
    <3>1. CASE i = stmt
      BY <2>2, <3>1
    <3>2. CASE i # stmt
      <4>1. i \in 1..stmt - 1
        BY <1>0, <3>2
      <4> QED BY <2>1, <2>2, <4>1 DEF Through
    <3> QED BY <3>1, <3>2
  <2>6. CASE stmt = Len(Forward[at])
    <3>1. RunGoes(r, "record", at, 1)
      BY <1>4, <2>6 DEF RunExecutes, ScriptOver
    <3>2. ASSUME NEW o \in LeftBy[at]
          PROVE  o \in schema'
      <4>1. PICK s \in ToSet(Forward[at]) : o \in Brings(s) /\ Kept(o)
        BY <2>1, <3>2 DEF LeftBy
      <4>2. PICK i \in 1..stmt : s = Forward[at][i]
        BY <2>4, <2>6 DEF ToSet
      <4> QED BY <2>5, <4>1, <4>2
    <3>3. "record" \in Places
      BY DEF Places, Under
    <3> QED BY <1>0, <2>1, <2>2, <2>3, <2>4, <3>1, <3>2, <3>3, OneRun
  <2>7. CASE stmt # Len(Forward[at])
    <3>1. RunGoes(r, "script", at, stmt + 1)
      BY <1>4, <2>7 DEF RunExecutes, ScriptOver
    <3>2. stmt + 1 \in DOMAIN Forward[at] /\ 1..(stmt + 1) - 1 = 1..stmt
      <4>1. stmt \in Nat /\ stmt + 1 \in DOMAIN Forward[at]
        BY <1>0, <2>1, <2>4, <2>7
      <4>2. (stmt + 1) - 1 = stmt
        BY <4>1
      <4> QED BY <4>1, <4>2
    <3>3. "script" \in Places
      BY DEF Places, Under
    <3> QED BY <1>0, <2>1, <2>2, <2>3, <2>4, <2>5, <3>1, <3>2, <3>3, OneRun
  <2> QED BY <2>6, <2>7
<1>5. CASE RunRecords(r)
  <2>1. /\ runner[r].at \in DOMAIN Forward /\ LeftBy[runner[r].at] \subseteq schema
        /\ recorded' = recorded \cup {runner[r].at} /\ schema' = schema
        /\ RunGoes(r, "look", runner[r].at + 1, 1)
    BY <1>0, <1>5 DEF RunRecords, At
  <2>2. runner[r].at + 1 \in 1..Len(Forward) + 1 /\ "look" \in Places
    BY <1>0, <2>1, ScriptsAreSequences DEF Places, Under
  <2>3. recorded' \subseteq DOMAIN Forward /\ \A m \in recorded' : LeftBy[m] \subseteq schema'
    BY <1>0, <2>1
  <2> QED BY <1>0, <2>1, <2>2, <2>3, OneRun
<1> QED BY <1>1, <1>2, <1>3, <1>4, <1>5 DEF RunStep

\* From any number of recorded scripts on, a recorded script has gone through to its last statement,
\* with any number of runs at once, scripts that raise and kills at any statement
\* (db/migrations.py:61-80): what it leaves for good is there, though the script and its record are
\* not one transaction.
THEOREM RecordedIsAppliedHolds == Safety => []RecordedIsApplied
<1>1. Init => AppliedInv
  <2> SUFFICES ASSUME Init PROVE AppliedInv
    OBVIOUS
  <2>1. PICK k \in 0..Len(Forward) : recorded = 1..k /\ schema = SchemaAt(k)
    BY WorkloadsAssumption DEF Init, MigrationInit
  <2>2. Len(Forward) \in Nat /\ DOMAIN Forward = 1..Len(Forward)
    BY ScriptsAreSequences
  <2>3. recorded \subseteq DOMAIN Forward /\ RecordedIsApplied
    BY <2>1, <2>2, ScriptsBuildUp DEF RecordedIsApplied
  <2>4. RunsAreThrough
    BY DEF Init, MigrationInit, RunsAreThrough, Places, Under
  <2> QED BY <2>3, <2>4 DEF AppliedInv
<1>2. workload \in Workloads /\ AppliedInv /\ [Next]_upkeepVars => AppliedInv'
  <2> SUFFICES ASSUME workload \in Workloads, AppliedInv, [Next]_upkeepVars
               PROVE  AppliedInv'
    OBVIOUS
  <2>1. CASE UNCHANGED <<schema, recorded, runner>>
    BY <2>1 DEF AppliedInv, RunsAreThrough, Through, RecordedIsApplied
  <2>2. CASE MigrationRuns
    BY <2>2, RunKeepsApplied, WorkloadsAssumption DEF MigrationRuns
  <2> QED BY <2>1, <2>2, OtherStepsLeaveMigrations
<1>3. AppliedInv => RecordedIsApplied
  BY DEF AppliedInv
<1> QED BY <1>1, <1>2, <1>3, WorkloadStays, PTL DEF Safety

----------------------------------------------------------------------------
(* The idle server. *)

\* The time in the file is no older than the last request, but for the fraction of a second that it
\* was written without; so is the time the check has read, and what it found idle had been so.
IdleInv ==
  /\ idleTicks \in Int /\ half \in 0..1 /\ quiet \in 0..MaxAge /\ stamp \in 0..Empty
  /\ stamp = Empty \/ stamp <= quiet + 1
  /\ checker \in {"sleeps", "read", "stops"} /\ lull \in 0..MaxAge /\ read \in 0..Empty
  /\ read = Empty \/ read <= lull + 1
  /\ checker # "read" => read = Empty
  /\ checker # "sleeps" => idleTicks > 0
  /\ checker = "stops" => lull + 1 >= idleTicks

\* What a step of the composition does to the idle server.
IdleStep ==
  \/ ServerStarts \/ Ticks \/ RequestTruncates \/ RequestStamps \/ Check \/ Signal \/ Leaves
  \/ UNCHANGED idleVars

LEMMA IdleSteps ==
  ASSUME [Next]_upkeepVars
  PROVE  IdleStep
BY DEF IdleStep, Next, upkeepVars, MigrationRuns, CycleChecks, HttpArrives, CliArrives, HttpSteps, CliSteps,
       CliIsKilled, Touches, ServerSteps, ServerLeaves, JoinTimesOut, ServerIsKilled, OnlyMigrations, OnlyRuntime,
       OnlyIdle

LEMMA IdleInvNext ==
  ASSUME IdleInv, IdleStep
  PROVE  IdleInv'
<1> USE AgeAssumption DEF IdleInv, Empty
<1>1. CASE ServerStarts
  BY <1>1 DEF ServerStarts, Now, Sleeps
<1>2. CASE RequestStamps
  BY <1>2 DEF RequestStamps, Now, checkVars
<1>3. CASE Ticks
  BY <1>3 DEF Ticks, Older
<1>4. CASE RequestTruncates
  BY <1>4 DEF RequestTruncates, checkVars
<1>5. CASE CheckReads
  BY <1>5 DEF CheckReads, fileVars
<1>6. CASE CheckCompares
  BY <1>6 DEF CheckCompares, IsIdle, SecondsSinceTouch, Sleeps, fileVars
<1>7. CASE CheckStops \/ Signal \/ Leaves
  BY <1>7 DEF CheckStops, Signal, Leaves, Sleeps, fileVars
<1>8. CASE UNCHANGED idleVars
  BY <1>8 DEF idleVars, fileVars, checkVars
<1> QED BY <1>1, <1>2, <1>3, <1>4, <1>5, <1>6, <1>7, <1>8 DEF IdleStep, Check

\* The check stops a server only when an idle period is set and had passed without a request when the
\* check read the file, up to its comparison and but for the fraction of a second the file drops; also
\* while a request rewrites the file.
THEOREM StopsOnlyWhenIdleHolds == Safety => StopsOnlyWhenIdle
<1>1. Init => IdleInv
  BY WorkloadsAssumption, AgeAssumption DEF Init, IdleInit, IdleInv, Empty
<1>2. IdleInv /\ [Next]_upkeepVars => IdleInv'
  BY IdleSteps, IdleInvNext
<1>3. ASSUME IdleInv, [Next]_upkeepVars
      PROVE  [server = "up" /\ server' = "idle" => idleTicks > 0 /\ lull + 1 >= idleTicks]_idleVars
  <2>1. SUFFICES ASSUME server = "up", server' = "idle" PROVE idleTicks > 0 /\ lull + 1 >= idleTicks
    OBVIOUS
  <2>2. CheckStops
    BY <1>3, <2>1, IdleSteps DEF IdleStep, ServerStarts, Ticks, RequestTruncates, RequestStamps, Check, CheckReads,
       CheckCompares, Signal, Leaves, idleVars
  <2> QED BY <1>3, <2>2 DEF CheckStops, IdleInv
<1> QED BY <1>1, <1>2, <1>3, PTL DEF Safety, StopsOnlyWhenIdle
=============================================================================
