---------------------------- MODULE RecordBundle ----------------------------
(***************************************************************************)
(* record_transaction_bundle (domain/ledger/service.py) and the reads it   *)
(* makes of the accounting periods, the policy rules and the ledger.       *)
(***************************************************************************)
EXTENDS CapitalDb

----------------------------------------------------------------------------
\* A rule's column is empty or equal to the payload's.
Allows(column, value) == column = NULL \/ column = value

\* The part of _rule_matches that reads no table.
StaticMatch(b, r) ==
  /\ Allows(r.tool, RecordTool)
  /\ Allows(r.entity, b.entity)
  /\ Allows(r.category, b.category)
  /\ Allows(r.risk, b.risk)

\* Bug form: rules counted from zero.
NextRule_ZeroBased(b, i) == i - 1

\* The first rule from i on that may match; one past the last when there is none.
NextRule(b, i) ==
  CHOOSE j \in i..(Len(Rules) + 1) :
    /\ j <= Len(Rules) => StaticMatch(b, Rules[j])
    /\ \A m \in i..(j - 1) : ~StaticMatch(b, Rules[m])

HasVelocity(r) == r.limit # NULL

\* Rows of the payload's source and entity, of all time and of the window that ends at its date.
SourceRows(b) ==
  {i \in DOMAIN ledger : /\ ledger[i].bundle.key[1] = b.key[1]
                         /\ ledger[i].bundle.entity = b.entity}
WindowRows(b, r) ==
  {i \in SourceRows(b) : ledger[i].bundle.date \in (b.date - r.window)..b.date}

\* enforce_period_write_constraints: does the period raise, and does it force an approval?
\* Bug form of the first: either flag opens a period of either status.
PeriodRaises_EitherFlag(b) ==
  periods[PeriodOf(b)] # NULL /\ ~b.adjusting /\ ~b.override
PeriodRaises(b) ==
  LET p == periods[PeriodOf(b)]
  IN  /\ p # NULL
      /\ \/ p.status = "closed" /\ ~b.adjusting
         \/ p.status = "locked" /\ ~b.override
PeriodForces(b) == periods[PeriodOf(b)] # NULL

\* find_duplicate_risk_matches: rows of the same date that contain every leg of the bundle.
LegsOf(row) == {<<row.legs[i].account, row.legs[i].amount>> : i \in DOMAIN row.legs}
DuplicateOf(b, row) == row.bundle.date = b.date /\ MatchKeys(b.postings) \subseteq LegsOf(row)
\* Bug form of the matches: the search looks at the bundle's own key.
DuplicateMatches_SameKeyOnly(b) ==
  {i \in RowsOf(b.key) : DuplicateOf(b, ledger[i])}
DuplicateMatches(b) == {i \in DOMAIN ledger : DuplicateOf(b, ledger[i])}

----------------------------------------------------------------------------
\* The answer of a replay names the key's row.
ReplayAnswer(b) == answers' = answers \union {<<b.key, TxOf(b.key)>>}

\* A stored proposal response names a transaction only when the proposal is committed.
StoredResponse(k) ==
  answers' = IF proposals[k].status = "committed"
               THEN answers \union {<<k, proposals[k].tx>>} ELSE answers

\* Validation, which reads nothing, and the replay read (lines 138-161).
ResolveReplay(s, b) ==
  /\ pc[s] = "idle"
  /\ ensure_balanced(b.postings)
  /\ IF Committed(b.key)
       THEN /\ ReplayAnswer(b)
            /\ OnlyLog(RecordTool, b)
            /\ UNCHANGED <<pc, arg, seen>>
       ELSE /\ Begin(s, b, "period")
            /\ UNCHANGED db

\* The read of the accounting period (line 165).
EnforcePeriod(s) ==
  LET b == arg[s]
  IN  /\ pc[s] = "period"
      /\ UNCHANGED db
      /\ IF PeriodRaises(b)
           THEN End(s)
           ELSE /\ Goto(s, "policy")
                /\ seen' = [seen EXCEPT ![s].force = PeriodForces(b),
                                        ![s].rule = NextRule(b, 1)]
                /\ UNCHANGED arg

\* evaluate_transaction_policy has its rule: gate the bundle, then look for duplicates.
Decide(s, gated, required) ==
  /\ Goto(s, "duplicates")
  /\ seen' = [seen EXCEPT ![s].gated = (seen[s].force \/ gated), ![s].required = required]
  /\ UNCHANGED arg

\* Bug form: the limit itself is still allowed.
LimitReached_Above(r, count) == count > r.limit
LimitReached(r, count) == count >= r.limit

\* A velocity count either settles the rule or leaves it for the next one.
\* Bug form: a limit that is not reached lets the bundle through.
CountReaches_OrPasses(s, r, count) == Decide(s, LimitReached(r, count), r.required)
CountReaches(s, r, count) ==
  IF LimitReached(r, count)
    THEN Decide(s, TRUE, r.required)
    ELSE /\ Goto(s, "policy")
         /\ seen' = [seen EXCEPT ![s].rule = NextRule(arg[s], seen[s].rule + 1)]
         /\ UNCHANGED arg

OverThreshold(b, threshold) == transaction_impact_amount(b.postings) > threshold

\* One rule, or the fallback policy after the last (policy/service.py).
EvaluateRule(s) ==
  LET b == arg[s]
      i == seen[s].rule
  IN  /\ pc[s] = "policy"
      /\ UNCHANGED db
      /\ \/ /\ i > Len(Rules)
            /\ Decide(s, OverThreshold(b, Threshold), 1)
         \/ /\ i <= Len(Rules)
            /\ ~HasVelocity(Rules[i])
            /\ Decide(s, OverThreshold(b, Rules[i].threshold), Rules[i].required)
         \/ /\ i <= Len(Rules)
            /\ HasVelocity(Rules[i])
            /\ WindowRows(b, Rules[i]) # {}
            /\ CountReaches(s, Rules[i], Cardinality(WindowRows(b, Rules[i])))
         \/ /\ i <= Len(Rules)
            /\ HasVelocity(Rules[i])
            /\ WindowRows(b, Rules[i]) = {}
            /\ Goto(s, "all_time_velocity")
            /\ UNCHANGED <<arg, seen>>

\* With no row in the window, the rule counts the rows of all time.
AllTimeVelocity(s) ==
  LET r == Rules[seen[s].rule]
  IN  /\ pc[s] = "all_time_velocity"
      /\ CountReaches(s, r, Cardinality(SourceRows(arg[s])))
      /\ UNCHANGED db

\* The duplicate search decides between the two write paths (lines 173-180).
FindDuplicates(s) ==
  /\ pc[s] = "duplicates"
  /\ Goto(s, IF seen[s].gated \/ DuplicateMatches(arg[s]) # {}
               THEN "fetch_proposal" ELSE "insert_ledger")
  /\ UNCHANGED <<ledger, proposals, decisions, periods, events, answers, arg, seen>>

\* A proposal of the key answers with its stored response, whatever its status (lines 181-237).
FetchProposal(s) ==
  LET b == arg[s]
  IN  /\ pc[s] = "fetch_proposal"
      /\ IF proposals[b.key] # NULL
           THEN /\ End(s)
                /\ OnlyLog(RecordTool, b)
                /\ StoredResponse(b.key)
           ELSE /\ Goto(s, "insert_proposal")
                /\ UNCHANGED <<ledger, proposals, decisions, periods, events, answers, arg, seen>>

\* The write section of a gated bundle: the proposal, its response and the event (lines 188-237).
InsertProposal(s) ==
  LET b == arg[s]
  IN  /\ pc[s] = "insert_proposal"
      /\ proposals[b.key] = NULL /\ b.entity \in Entities
      /\ proposals' = [proposals EXCEPT ![b.key] =
             [request |-> b, status |-> "proposed", required |-> seen[s].required, tx |-> 0]]
      /\ events' = Logged(RecordTool, b)
      /\ End(s)
      /\ UNCHANGED <<ledger, decisions, periods, answers>>

\* The write section of an ungated bundle: row, postings, response and event (lines 239-259).
InsertLedger(s) ==
  LET b == arg[s]
  IN  /\ pc[s] = "insert_ledger"
      /\ KeyFree(b) /\ ReferencesExist(b)
      /\ InsertRow(b, TRUE)
      /\ events' = Logged(RecordTool, b)
      /\ answers' = answers \union {<<b.key, Len(ledger) + 1>>}
      /\ End(s)
      /\ UNCHANGED <<proposals, decisions, periods>>

\* A UNIQUE or FOREIGN KEY constraint fails: roll back and resolve it afresh (line 260).
\* Bug forms: the re-read skips the ledger; the write is retried as it was.
IntegrityErrorRecovery_ProposalsOnly == "conflict_proposal"
IntegrityErrorRecovery_Retry == "insert_ledger"
IntegrityErrorRecovery == "conflict_replay"
IntegrityError(s) ==
  /\ \/ pc[s] = "insert_proposal" /\ ~(proposals[arg[s].key] = NULL /\ arg[s].entity \in Entities)
     \/ pc[s] = "insert_ledger" /\ ~(KeyFree(arg[s]) /\ ReferencesExist(arg[s]))
  /\ Goto(s, IntegrityErrorRecovery)
  /\ UNCHANGED <<ledger, proposals, decisions, periods, events, answers, arg, seen>>

\* The second transaction: the key's row first (lines 261-276) ...
ConflictReplay(s) ==
  LET b == arg[s]
  IN  /\ pc[s] = "conflict_replay"
      /\ IF Committed(b.key)
           THEN /\ End(s)
                /\ OnlyLog(RecordTool, b)
                /\ ReplayAnswer(b)
           ELSE /\ Goto(s, "conflict_proposal")
                /\ UNCHANGED <<ledger, proposals, decisions, periods, events, answers, arg, seen>>

\* ... then its proposal; with neither, the IntegrityError goes to the client (lines 278-319).
ConflictProposal(s) ==
  LET b == arg[s]
  IN  /\ pc[s] = "conflict_proposal"
      /\ End(s)
      /\ IF proposals[b.key] # NULL
           THEN OnlyLog(RecordTool, b) /\ StoredResponse(b.key)
           ELSE UNCHANGED db

RecordStep(s) ==
  \/ EnforcePeriod(s)
  \/ EvaluateRule(s)
  \/ AllTimeVelocity(s)
  \/ FindDuplicates(s)
  \/ FetchProposal(s)
  \/ InsertProposal(s)
  \/ InsertLedger(s)
  \/ IntegrityError(s)
  \/ ConflictReplay(s)
  \/ ConflictProposal(s)
=============================================================================
