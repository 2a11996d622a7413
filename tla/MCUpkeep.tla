------------------------------ MODULE MCUpkeep ------------------------------
(***************************************************************************)
(* Upkeep on small workloads, one of them per behaviour.                   *)
(***************************************************************************)
EXTENDS Upkeep

Ask(tool, token, header, body, input, output) ==
  [tool |-> tool, token |-> token, header |-> header, body |-> body, input |-> input, output |-> output]
Plain(tool, token) == Ask(tool, token, "none", "read", "valid", "fits")

Snapshot == Plain("record_balance_snapshot", "admin")
Listing == Plain("list_accounts", "reader")
Rejection == Ask("reject_proposed_transaction", "admin", "none", "read", "valid", "misfit")

\* One request for each way through the gate and the dispatcher.
GateRequests ==
  {Snapshot, Listing, Rejection, Plain("no_such_tool", "admin"),
   Plain("close_period", "reader"), Plain("approve_config_change", "reader"), Plain("lock_period", "stranger"),
   Plain("update_account_profile", "admin"),
   Ask("update_account_profile", "admin", "match", "read", "valid", "fits"),
   Ask("update_account_profile", "admin", "other", "read", "valid", "fits"),
   Ask("fulfill_obligation", "admin", "none", "no_correlation_id", "valid", "fits"),
   Ask("create_account", "admin", "none", "read", "invalid", "fits"),
   Ask("record_transaction_bundle", "admin", "none", "read", "refused", "fits"),
   Ask("list_obligations", "reader", "none", "unreadable", "valid", "fits"),
   Ask("get_proposal", "reader", "none", "read", "refused", "fits")}

CliRequests ==
  {Plain("close_period", "none"), Plain("get_config", "none"), Plain("no_such_tool", "none"),
   Ask("propose_config_change", "none", "none", "unreadable", "valid", "fits"),
   Ask("create_account", "none", "none", "read", "invalid", "fits"),
   Ask("reject_proposed_transaction", "none", "none", "read", "valid", "misfit")}

MCRequests == GateRequests \cup CliRequests

Work(from, runs, checks, clients, http, cli, idle) ==
  [from |-> from, runs |-> runs, checks |-> checks, clients |-> clients, http |-> http, cli |-> cli, idle |-> idle]

\* One run on a new database; two at once from 0004 on, which both can go through, to 0005, which only
\* one can; one run while tools are called on a database without 0008; the cycle check; every request
\* through the route and through the CLI; two clients of one server; two, and one that writes, of a
\* server that idles.
MCWorkloads ==
  {Work(0, {"r1"}, FALSE, {}, {}, {}, 0),
   Work(3, Runners, FALSE, {}, {}, {}, 0),
   Work(0, {}, TRUE, {}, {}, {}, 0),
   Work(7, {"r1"}, FALSE, {"web1"}, {Snapshot, Listing}, {}, 0),
   Work(10, {}, FALSE, {"web1"}, GateRequests, {}, 0),
   Work(10, {}, FALSE, {"shell"}, {}, CliRequests, 0),
   Work(10, {}, FALSE, {"web1", "web2"}, {Snapshot, Plain("lock_period", "stranger")}, {}, 0),
   Work(10, {}, FALSE, {"web1", "web2"}, {Plain("lock_period", "stranger")}, {}, 4),
   Work(10, {}, FALSE, {"web1"}, {Snapshot}, {}, 4)}

\* One run at a time on a new database.
LoneWorkloads == {Work(0, {"r1"}, FALSE, {}, {}, {}, 0)}
=============================================================================
