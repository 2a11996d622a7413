------------------------- MODULE AccountingPeriods -------------------------
(***************************************************************************)
(* close_period and lock_period (domain/periods/service.py).  Both read    *)
(* the period's row, then insert or update it.  No code inserts an "open"  *)
(* row, so a period has no row until it is closed or locked.               *)
(***************************************************************************)
EXTENDS CapitalDb

PeriodTool(status) == IF status = "closed" THEN CloseTool ELSE LockTool

\* The row already says what the call asks for: already_locked, already_closed.
AlreadyThere(p, status) == periods[p].status \in {"locked", status}

\* _fetch_period, and the early returns of _upsert_period_status (lines 34-44, 63-69).
ReadPeriod(s, p, actor, status) ==
  LET call == [period |-> p, actor |-> actor, status |-> status]
  IN  /\ pc[s] = "idle"
      /\ \/ /\ periods[p] = NULL
            /\ Begin(s, call, "insert_period")
            /\ UNCHANGED db
         \/ /\ periods[p] # NULL
            /\ AlreadyThere(p, status)
            /\ OnlyLog(PeriodTool(status), call)
            /\ UNCHANGED <<answers, pc, arg, seen>>
         \/ /\ periods[p] # NULL
            /\ ~AlreadyThere(p, status)
            /\ Begin(s, call, "update_period")
            /\ UNCHANGED db

\* The write section of either tool, with its event; the bug form logs nothing.
WritePeriod_NoEvent(s) ==
  /\ periods' = [periods EXCEPT ![arg[s].period] =
                   [status |-> arg[s].status, actor |-> arg[s].actor]]
  /\ End(s)
  /\ UNCHANGED <<ledger, proposals, decisions, events, answers>>
WritePeriod(s) ==
  /\ periods' = [periods EXCEPT ![arg[s].period] =
                   [status |-> arg[s].status, actor |-> arg[s].actor]]
  /\ events' = Logged(PeriodTool(arg[s].status), arg[s])
  /\ End(s)
  /\ UNCHANGED <<ledger, proposals, decisions, answers>>

\* INSERT (lines 45-61): UNIQUE (period_key, entity_id) refuses a second
\* row and the foreign key an unknown entity.  The bug form is an
\* INSERT OR REPLACE.
InsertPeriod_OrReplace(s) == pc[s] = "insert_period" /\ WritePeriod(s)
InsertPeriod(s) ==
  /\ pc[s] = "insert_period"
  /\ periods[arg[s].period] = NULL /\ arg[s].period[2] \in Entities
  /\ WritePeriod(s)

InsertPeriodFails(s) ==
  /\ pc[s] = "insert_period"
  /\ ~(periods[arg[s].period] = NULL /\ arg[s].period[2] \in Entities)
  /\ Rollback(s)

\* UPDATE by period_id (lines 71-89), with no condition on the status that was read.
UpdatePeriod(s) ==
  /\ pc[s] = "update_period"
  /\ WritePeriod(s)

PeriodStep(s) ==
  \/ InsertPeriod(s)
  \/ InsertPeriodFails(s)
  \/ UpdatePeriod(s)
=============================================================================
