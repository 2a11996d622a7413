-------------------------- MODULE Registry_proofs --------------------------
(***************************************************************************)
(* What the tools beside the ledger tell their clients, and what stands in *)
(* their tables: identifier history, obligations, balance snapshots and    *)
(* config changes, under every interleaving of their calls; and that walks *)
(* over their listings miss nothing.                                       *)
(***************************************************************************)
EXTENDS AccountTree_proofs

----------------------------------------------------------------------------
(* The invariant. *)

\* What a client was told is what stands in the row of its key.
Answered(t) ==
  /\ t.call.tool = "update_account_profile" =>
       t.call.key \in Existing(profiles) /\ profiles[t.call.key] = t.answer
  /\ t.call.tool = "create_or_update_obligation" =>
       t.call.key \in Existing(obligations) /\ obligations[t.call.key].id = t.answer
  /\ t.call.tool = "record_balance_snapshot" =>
       t.call.key \in Existing(snapshots) /\ snapshots[t.call.key].id = t.answer
  /\ t.call.tool = "propose_config_change" =>
       t.call.key \in Existing(changes) /\ changes[t.call.key].id = t.answer

\* A table of finitely many rows.
TableOf(K, S, table) == table \in [K -> S \union {NULL}] /\ IsFiniteSet(Existing(table))

\* The rows of each table, every one with the calls that made it what it is.
ProfilesFit ==
  /\ TableOf(ProfileKeys, StoredResponse, profiles)
  /\ \A k \in Existing(profiles) : \E e \in events :
       e.tool = "update_account_profile" /\ e.key = k /\ e.account = profiles[k].account

ObligationIsLogged(k) ==
  LET row == obligations[k]
      fulfilled == \E e \in events : e.tool = "fulfill_obligation" /\ e.key = k /\ e.by = row.by
  IN  /\ \E e \in events : e.tool = "create_or_update_obligation" /\ e.key = k /\ e.due = row.due
      /\ row.by # NULL => fulfilled
      /\ ~row.active => \/ fulfilled
                        \/ \E e \in events : e.tool = "create_or_update_obligation" /\ e.key = k /\ ~e.active
ObligationsFit ==
  /\ TableOf(ObligationKeys, StoredObligation, obligations)
  /\ \A k \in Existing(obligations) : ObligationIsLogged(k)

SnapshotsFit ==
  /\ TableOf(SnapshotKeys, StoredSnapshot, snapshots)
  /\ \A k \in Existing(snapshots) : \E e \in events :
       /\ e.tool = "record_balance_snapshot" /\ e.key = k
       /\ snapshots[k].balance = normalize_amount(e.balance)

ChangeIsLogged(k) ==
  /\ \E e \in events : e.tool = "propose_config_change" /\ e.key = k
  /\ changes[k].status = "committed" =>
       /\ \E e \in events : e.tool = "approve_config_change" /\ e.key = k
       /\ \E v \in verdicts : v.key = k /\ v.action = "approve"
  /\ changes[k].status = "rejected" =>
       /\ \E e \in events : e.tool = "reject_proposed_transaction" /\ e.key = k
       /\ \E v \in verdicts : v.key = k /\ v.action = "reject"
ChangesFit ==
  /\ TableOf(ChangeKeys, StoredChange, changes)
  /\ \A k \in Existing(changes) : ChangeIsLogged(k)

\* The identifier history: row i opens at instant i, belongs to a stored response, and closes at the
\* next row of its account and source.
Identifiers == [account: AccountIds, source: {k[1] : k \in ProfileKeys}, ext: {k[2] : k \in ProfileKeys},
                suffix: OptionalText, from: Nat, to: Nat \union {NULL}]
Later(h, i) == {j \in DOMAIN h : h[j].account = h[i].account /\ h[j].source = h[i].source /\ j > i}
Linked(h) ==
  \A i \in DOMAIN h :
    \/ h[i].to = NULL /\ Later(h, i) = {}
    \/ h[i].to \in Later(h, i) /\ \A j \in Later(h, i) : h[i].to <= j
RowOf(h, i, k, response) ==
  h[i].account = response.account /\ <<h[i].source, h[i].ext>> = k /\ h[i].suffix = response.suffix
HistoryFits ==
  /\ history \in Seq(Identifiers)
  /\ Len(history) = Cardinality(Existing(profiles))
  /\ \A i \in DOMAIN history : history[i].from = i /\ <<history[i].source, history[i].ext>> \in Existing(profiles)
  /\ Linked(history)
  /\ \A k \in Existing(profiles) : \E i \in DOMAIN history : RowOf(history, i, k, profiles[k])

\* What a call in flight has seen of these tables and relies on.
RowIsThere(s) ==
  /\ pc[s] \in {"insert_obligation", "update_obligation"} => arg[s].tool = "create_or_update_obligation"
  /\ pc[s] = "update_obligation" => arg[s].key \in Existing(obligations)
  /\ pc[s] = "fulfil" => arg[s].tool = "fulfill_obligation" /\ arg[s].key \in Existing(obligations)
  /\ pc[s] \in {"insert_snapshot", "update_snapshot"} => arg[s].tool = "record_balance_snapshot"
  /\ pc[s] = "update_snapshot" => arg[s].key \in Existing(snapshots)
  /\ pc[s] = "propose" => arg[s].tool = "propose_config_change"
  /\ pc[s] \in {"approver", "apply", "apply_again"} =>
       arg[s].tool = "approve_config_change" /\ arg[s].key \in Existing(changes)
  /\ pc[s] = "apply_again" => Verdict(arg[s], "approve") \in verdicts
  /\ pc[s] = "reject" => arg[s].tool = "reject_proposed_transaction" /\ arg[s].key \in Existing(changes)

RInv ==
  /\ AInv
  /\ ProfilesFit /\ HistoryFits /\ ObligationsFit /\ SnapshotsFit /\ ChangesFit
  /\ \A t \in told : Answered(t)
  /\ \A s \in Sessions : RowIsThere(s)

----------------------------------------------------------------------------
(* What every step leaves in place. *)

\* No row is deleted, a stored response is never rewritten, and no row gets another id.
IdsStay(table, new) == \A k \in Existing(table) : k \in Existing(new) /\ new[k].id = table[k].id
RowsStay ==
  /\ \A k \in Existing(profiles) : k \in Existing(profiles') /\ profiles'[k] = profiles[k]
  /\ IdsStay(obligations, obligations') /\ IdsStay(snapshots, snapshots') /\ IdsStay(changes, changes')
  /\ verdicts \subseteq verdicts'

LEMMA SameRowsStay ==
  ASSUME UNCHANGED <<profiles, obligations, snapshots, changes, verdicts>>
  PROVE  RowsStay
BY DEF RowsStay, IdsStay

LEMMA AnswersStay ==
  ASSUME RowsStay, NEW t, Answered(t)
  PROVE  Answered(t)'
BY DEF RowsStay, IdsStay, Answered

LEMMA OthersFindTheirRows ==
  ASSUME NEW o, RowsStay, RowIsThere(o), pc'[o] = pc[o], arg'[o] = arg[o]
  PROVE  RowIsThere(o)'
BY DEF RowsStay, IdsStay, RowIsThere, Verdict

\* A part whose tables a step leaves alone still fits: the log only grows.
LEMMA ProfilesStay ==
  ASSUME ProfilesFit, HistoryFits, UNCHANGED <<profiles, history>>, events \subseteq events'
  PROVE  ProfilesFit' /\ HistoryFits'
<1>1. ProfilesFit'
  BY DEF ProfilesFit
<1>2. HistoryFits'
  BY DEF HistoryFits
<1> QED BY <1>1, <1>2

LEMMA ObligationsStay ==
  ASSUME ObligationsFit, obligations' = obligations, events \subseteq events'
  PROVE  ObligationsFit'
<1>1. ASSUME NEW k, ObligationIsLogged(k) PROVE ObligationIsLogged(k)'
  BY <1>1 DEF ObligationIsLogged
<1> QED BY <1>1 DEF ObligationsFit

LEMMA SnapshotsStay ==
  ASSUME SnapshotsFit, snapshots' = snapshots, events \subseteq events'
  PROVE  SnapshotsFit'
BY DEF SnapshotsFit

LEMMA ChangesStay ==
  ASSUME ChangesFit, UNCHANGED <<changes, verdicts>>, events \subseteq events'
  PROVE  ChangesFit'
<1>1. ASSUME NEW k, ChangeIsLogged(k) PROVE ChangeIsLogged(k)'
  BY <1>1 DEF ChangeIsLogged
<1> QED BY <1>1 DEF ChangesFit

\* One step, whatever it writes, of one session.
LEMMA StepKeepsRest ==
  ASSUME RInv, AInv', NEW s \in Sessions, Alone(s), RowsStay,
         ProfilesFit', HistoryFits', ObligationsFit', SnapshotsFit', ChangesFit',
         \A t \in told' : t \in told \/ Answered(t)',
         RowIsThere(s)'
  PROVE  RInv'
<1>1. ASSUME NEW o \in Sessions PROVE RowIsThere(o)'
  <2>1. CASE o = s
    BY <2>1
  <2>2. CASE o # s
    BY <2>2, OthersFindTheirRows DEF Alone, RInv
  <2> QED BY <2>1, <2>2
<1>2. ASSUME NEW t \in told' PROVE Answered(t)'
  <2>1. CASE t \in told
    BY <2>1, AnswersStay DEF RInv
  <2> QED BY <1>2, <2>1
<1> QED BY <1>1, <1>2 DEF RInv

\* A step that writes to none of these tables.
LEMMA StepElsewhere ==
  ASSUME RInv, AInv', NEW s \in Sessions, Alone(s),
         UNCHANGED <<profiles, history, obligations, snapshots, changes, verdicts>>,
         events \subseteq events', \A t \in told' : t \in told \/ Answered(t),
         RowIsThere(s)'
  PROVE  RInv'
<1>1. RowsStay
  BY SameRowsStay
<1>2. ProfilesFit' /\ HistoryFits' /\ ObligationsFit' /\ SnapshotsFit' /\ ChangesFit'
  BY ProfilesStay, ObligationsStay, SnapshotsStay, ChangesStay DEF RInv
<1>3. \A t \in told' : t \in told \/ Answered(t)'
  BY <1>1, AnswersStay
<1> QED BY <1>1, <1>2, <1>3, StepKeepsRest

\* A row is put in a table, in the place of the one with its key.
Puts(table, k, row, new) ==
  /\ new[k] = row /\ k \in Existing(new)
  /\ \A x \in Existing(new) : x = k \/ (x \in Existing(table) /\ new[x] = table[x])
  /\ \A x \in Existing(table) : x \in Existing(new) /\ (x = k \/ new[x] = table[x])
  /\ k \notin Existing(table) => Cardinality(Existing(new)) = Cardinality(Existing(table)) + 1

LEMMA RowPut ==
  ASSUME NEW K, NEW S, NULL \notin S, NEW table, TableOf(K, S, table), NEW k \in K, NEW row \in S,
         NEW new, new = [table EXCEPT ![k] = row]
  PROVE  TableOf(K, S, new) /\ Puts(table, k, row, new)
<1>1. new \in [K -> S \union {NULL}] /\ new[k] = row /\ \A x \in K : x # k => new[x] = table[x]
  BY DEF TableOf
<1>2. Existing(new) = Existing(table) \union {k}
  BY <1>1 DEF Existing, TableOf
<1>3. IsFiniteSet(Existing(table) \union {k})
  BY FS_AddElement DEF TableOf
<1>4. k \notin Existing(table) => Cardinality(Existing(table) \union {k}) = Cardinality(Existing(table)) + 1
  BY FS_AddElement DEF TableOf
<1>5. Existing(table) \subseteq K
  BY DEF Existing, TableOf
<1> QED BY <1>1, <1>2, <1>3, <1>4, <1>5 DEF TableOf, Puts

LEMMA PutKeepsIds ==
  ASSUME NEW table, NEW k, NEW row, NEW new, Puts(table, k, row, new),
         k \in Existing(table) => table[k].id = row.id
  PROVE  IdsStay(table, new)
BY DEF Puts, IdsStay

\* The shapes of the steps that write to none of these tables.
LEMMA ReadsKeep ==
  ASSUME RInv, AInv', NEW s \in Sessions, NEW c, NEW step, NEW value, Reads(s, c, step, value),
         RowIsThere(s)'
  PROVE  RInv'
<1>1. Alone(s)
  BY ReadsMoves DEF RInv, AInv
<1>2. UNCHANGED <<profiles, history, obligations, snapshots, changes, verdicts, events, told>>
  BY DEF Reads, tables
<1> QED BY <1>1, <1>2, StepElsewhere

LEMMA IdleFindsItsRow ==
  ASSUME NEW s, pc'[s] = "idle"
  PROVE  RowIsThere(s)'
BY DEF RowIsThere

LEMMA FailsKeep ==
  ASSUME RInv, AInv', NEW s \in Sessions, Fails(s)
  PROVE  RInv'
<1>1. Alone(s) /\ pc'[s] = "idle"
  BY FailsMoves DEF RInv, AInv
<1>2. UNCHANGED <<profiles, history, obligations, snapshots, changes, verdicts, events, told>>
  BY DEF Fails, tables
<1> QED BY <1>1, <1>2, IdleFindsItsRow, StepElsewhere

\* A call that is answered without a write, and moves nothing but the log.
LEMMA ReplayKeeps ==
  ASSUME RInv, AInv', UNCHANGED <<work, pc, arg, seen>>,
         UNCHANGED <<profiles, history, obligations, snapshots, changes, verdicts>>,
         events \subseteq events', \A t \in told' : t \in told \/ Answered(t),
         NEW s \in Sessions
  PROVE  RInv'
<1>1. Alone(s)
  BY DEF Alone, SessionsExist, RInv, AInv
<1>2. RowIsThere(s)'
  BY OthersFindTheirRows, SameRowsStay DEF RInv
<1> QED BY <1>1, <1>2, StepElsewhere

\* A write section that ends its call and writes to the accounts only.
LEMMA AccountWriteKeeps ==
  ASSUME RInv, AInv', NEW s \in Sessions, Ends(s),
         UNCHANGED <<profiles, history, obligations, snapshots, changes, verdicts>>,
         events \subseteq events', \A t \in told' : t \in told \/ Answered(t)
  PROVE  RInv'
<1>1. Alone(s) /\ pc'[s] = "idle"
  BY EndsMoves DEF RInv, AInv
<1> QED BY <1>1, IdleFindsItsRow, StepElsewhere

----------------------------------------------------------------------------
(* The import and the listings. *)

LEMMA ImportStepKeepsRows ==
  ASSUME RInv, AInv', NEW s \in Sessions, ImportStep(s)
  PROVE  RInv'
<1>1. ASSUME NEW c \in work.calls, ImportReads(s, c) PROVE RInv'
  <2>1. Reads(s, c, "import", [existing |-> ExistingIds, next |-> 1])
    BY <1>1 DEF ImportReads
  <2>2. pc'[s] = "import"
    BY <2>1, ReadsMoves DEF RInv, AInv
  <2>3. RowIsThere(s)'
    BY <2>2 DEF RowIsThere
  <2> QED BY <2>1, <2>3, ReadsKeep
<1>2. CASE ImportSkips(s) \/ ImportDecides(s)
  <2>1. /\ UNCHANGED <<profiles, history, obligations, snapshots, changes, verdicts, events, told, work, arg>>
        /\ \E value : seen' = [seen EXCEPT ![s] = value]
        /\ pc' = pc \/ pc' = [pc EXCEPT ![s] = "import_write"]
        /\ pc[s] = "import"
    BY <1>2 DEF ImportSkips, ImportDecides, ImportMore, At, tables
  <2>2. SessionsExist
    BY DEF RInv, AInv
  <2>3. Alone(s) /\ pc'[s] \in {"import", "import_write"}
    BY <2>1, <2>2 DEF Alone, SessionsExist
  <2>4. RowIsThere(s)'
    BY <2>3 DEF RowIsThere
  <2> QED BY <2>1, <2>3, <2>4, StepElsewhere
<1>3. CASE ImportWrites(s)
  BY <1>3, AccountWriteKeeps DEF ImportWrites, OnlyImport, OnlyAccounts
<1>4. CASE ImportFails(s) \/ ImportEnds(s)
  BY <1>4, FailsKeep DEF ImportFails, ImportEnds
<1> QED BY <1>1, <1>2, <1>3, <1>4 DEF ImportStep

LEMMA ListingStepKeepsRows ==
  ASSUME RInv, AInv', NEW s \in Sessions, ListingStep(s)
  PROVE  RInv'
<1>1. ASSUME NEW c, NEW held, Reads(s, c, PageStep(held), held) PROVE RInv'
  <2>1. pc'[s] \in {"listed", "page"}
    BY <1>1, ReadsMoves DEF RInv, AInv, PageStep
  <2>2. RowIsThere(s)'
    BY <2>1 DEF RowIsThere
  <2> QED BY <1>1, <2>2, ReadsKeep
<1>2. ASSUME NEW c \in work.calls, ListStarts(s, c) PROVE RInv'
  <2> DEFINE held == AfterPage(c, NULL, {}, Rows(c))
  <2>1. Reads(s, c, PageStep(held), held)
    BY <1>2 DEF ListStarts
  <2> HIDE DEF held
  <2> QED BY <1>1, <2>1
<1>3. CASE ListContinues(s)
  <2> DEFINE held == AfterPage(arg[s], seen[s].cursor, seen[s].got, seen[s].stayed)
  <2>1. Reads(s, arg[s], PageStep(held), held)
    BY <1>3 DEF ListContinues
  <2> HIDE DEF held
  <2> QED BY <1>1, <2>1
<1>4. CASE ListEnds(s)
  BY <1>4, FailsKeep DEF ListEnds
<1> QED BY <1>2, <1>3, <1>4 DEF ListingStep

----------------------------------------------------------------------------
(* Obligations. *)

\* The call of a session in flight.
LEMMA CallInFlight ==
  ASSUME RInv, NEW s \in Sessions, pc[s] # "idle"
  PROVE  arg[s] \in work.calls /\ CallFits(arg[s]) /\ arg[s] \in CallsOf(arg[s].tool)
<1>1. arg[s] \in work.calls
  BY DEF RInv, AInv, CallIsPlaced
<1> QED BY <1>1, CallsFit DEF RInv, AInv

\* One obligation is written, with the event that says why.
LEMMA ObligationWriteKeeps ==
  ASSUME RInv, AInv', NEW s \in Sessions, Ends(s),
         UNCHANGED <<profiles, history, snapshots, changes, verdicts>>, events \subseteq events',
         NEW k \in ObligationKeys, NEW row \in StoredObligation,
         obligations' = [obligations EXCEPT ![k] = row],
         k \in Existing(obligations) => obligations[k].id = row.id,
         ObligationIsLogged(k)',
         \A t \in told' : t \in told \/ Answered(t)'
  PROVE  RInv'
<1>1. TableOf(ObligationKeys, StoredObligation, obligations) /\ NULL \notin StoredObligation
  BY NullAssumption DEF RInv, ObligationsFit
<1>2. TableOf(ObligationKeys, StoredObligation, obligations') /\ Puts(obligations, k, row, obligations')
  BY <1>1, RowPut
<1>3. ASSUME NEW x \in Existing(obligations') PROVE ObligationIsLogged(x)'
  <2>1. CASE x = k
    BY <2>1
  <2>2. CASE x # k
    <3>1. x \in Existing(obligations) /\ obligations'[x] = obligations[x]
      BY <1>2, <2>2 DEF Puts
    <3>2. ObligationIsLogged(x)
      BY <3>1 DEF RInv, ObligationsFit
    <3> QED BY <3>1, <3>2 DEF ObligationIsLogged
  <2> QED BY <2>1, <2>2
<1>4. ObligationsFit'
  BY <1>2, <1>3 DEF ObligationsFit
<1>5. IdsStay(obligations, obligations')
  BY <1>2, PutKeepsIds
<1>6. RowsStay
  BY <1>5 DEF RowsStay, IdsStay
<1>7. Alone(s) /\ pc'[s] = "idle"
  BY EndsMoves DEF RInv, AInv
<1>8. ProfilesFit' /\ HistoryFits' /\ SnapshotsFit' /\ ChangesFit'
  BY ProfilesStay, SnapshotsStay, ChangesStay DEF RInv
<1> QED BY <1>4, <1>6, <1>7, <1>8, IdleFindsItsRow, StepKeepsRest

\* The n-th row of a table.
LEMMA RowIdsAreNumbers ==
  ASSUME NEW table, IsFiniteSet(Existing(table))
  PROVE  NextRowId(table) \in Nat
<1>1. Cardinality(Existing(table)) \in Nat
  BY FS_CardinalityType
<1> QED BY <1>1 DEF NextRowId, Existing

LEMMA ObligationInsertKeeps ==
  ASSUME RInv, AInv', NEW s \in Sessions, ObligationInserts(s)
  PROVE  RInv'
<1>0. PICK c, id, row : /\ c = arg[s] /\ id = NextRowId(obligations)
                        /\ row = [id |-> id, due |-> c.due, active |-> c.active, by |-> NULL]
  OBVIOUS
<1>1. /\ pc[s] = "insert_obligation" /\ obligations[c.key] = NULL
      /\ obligations' = [obligations EXCEPT ![c.key] = row]
      /\ told' = told \union {[call |-> c, answer |-> id]} /\ events' = events \union {c} /\ Ends(s)
      /\ UNCHANGED <<profiles, history, snapshots, changes, verdicts>>
  BY <1>0 DEF ObligationInserts, At, ObligationFits, Tells, Logs, OnlyObligations
<1>2. c.tool = "create_or_update_obligation"
  BY <1>0, <1>1 DEF RInv, RowIsThere
<1>3. CallFits(c) /\ c.key \in ObligationKeys
  BY <1>0, <1>1, <1>2, CallInFlight DEF ObligationKeys
<1>4. id \in Nat
  BY <1>0, RowIdsAreNumbers DEF RInv, ObligationsFit, TableOf
<1>5. row \in StoredObligation
  BY <1>0, <1>2, <1>3, <1>4 DEF CallFits, StoredObligation, OptionalText
<1>6. obligations'[c.key] = row /\ c.key \in Existing(obligations')
  BY <1>1, <1>3, <1>5, NullAssumption DEF RInv, ObligationsFit, TableOf, Existing
<1>7. ObligationIsLogged(c.key)'
  <2>1. c \in events'
    BY <1>1
  <2> QED BY <1>0, <1>2, <1>6, <2>1 DEF ObligationIsLogged
<1>8. \A t \in told' : t \in told \/ Answered(t)'
  <2>1. Answered([call |-> c, answer |-> id])'
    BY <1>0, <1>2, <1>6 DEF Answered
  <2> QED BY <1>1, <2>1
<1>9. c.key \notin Existing(obligations)
  BY <1>1 DEF Existing
<1>10. events \subseteq events'
  BY <1>1
<1> QED BY <1>1, <1>3, <1>5, <1>7, <1>8, <1>9, <1>10, ObligationWriteKeeps

LEMMA ObligationUpdateKeeps ==
  ASSUME RInv, AInv', NEW s \in Sessions, ObligationUpdates(s)
  PROVE  RInv'
<1>0. PICK c, old, row : /\ c = arg[s] /\ old = obligations[c.key]
                         /\ row = [old EXCEPT !.due = c.due, !.active = c.active]
  OBVIOUS
<1>1. /\ pc[s] = "update_obligation"
      /\ obligations' = [obligations EXCEPT ![c.key] = row]
      /\ told' = told \union {[call |-> c, answer |-> old.id]} /\ events' = events \union {c} /\ Ends(s)
      /\ UNCHANGED <<profiles, history, snapshots, changes, verdicts>>
  BY <1>0 DEF ObligationUpdates, UpdatedObligation, At, Tells, Logs, OnlyObligations
<1>2. c.tool = "create_or_update_obligation" /\ c.key \in Existing(obligations)
  BY <1>0, <1>1 DEF RInv, RowIsThere
<1>3. CallFits(c)
  BY <1>0, <1>1, CallInFlight
<1>4. c.key \in ObligationKeys /\ old \in StoredObligation /\ ObligationIsLogged(c.key)
  BY <1>0, <1>2 DEF RInv, ObligationsFit, TableOf, Existing
<1>5. row \in StoredObligation /\ row.id = old.id /\ row.due = c.due /\ row.active = c.active /\ row.by = old.by
  BY <1>0, <1>2, <1>3, <1>4 DEF CallFits, StoredObligation
<1>6. obligations'[c.key] = row /\ c.key \in Existing(obligations')
  BY <1>1, <1>4, <1>5, NullAssumption DEF RInv, ObligationsFit, TableOf, Existing
<1>7. ObligationIsLogged(c.key)'
  <2>1. c \in events' /\ events \subseteq events'
    BY <1>1
  <2> QED BY <1>0, <1>2, <1>4, <1>5, <1>6, <2>1 DEF ObligationIsLogged
<1>8. \A t \in told' : t \in told \/ Answered(t)'
  <2>1. Answered([call |-> c, answer |-> old.id])'
    BY <1>2, <1>5, <1>6 DEF Answered
  <2> QED BY <1>1, <2>1
<1>9. c.key \in Existing(obligations) => obligations[c.key].id = row.id
  BY <1>0, <1>5
<1>10. events \subseteq events'
  BY <1>1
<1> QED BY <1>1, <1>4, <1>5, <1>7, <1>8, <1>9, <1>10, ObligationWriteKeeps

LEMMA FulfilmentKeeps ==
  ASSUME RInv, AInv', NEW s \in Sessions, FulfilWrites(s)
  PROVE  RInv'
<1>0. PICK c, old, row : /\ c = arg[s] /\ old = obligations[c.key]
                         /\ row = [old EXCEPT !.active = FALSE, !.by = c.by]
  OBVIOUS
<1>1. /\ pc[s] = "fulfil"
      /\ obligations' = [obligations EXCEPT ![c.key] = row]
      /\ told' = told /\ events' = events \union {c} /\ Ends(s)
      /\ UNCHANGED <<profiles, history, snapshots, changes, verdicts>>
  BY <1>0 DEF FulfilWrites, Fulfilled, At, Keeps, Logs, OnlyObligations
<1>2. c.tool = "fulfill_obligation" /\ c.key \in Existing(obligations)
  BY <1>0, <1>1 DEF RInv, RowIsThere
<1>3. CallFits(c)
  BY <1>0, <1>1, CallInFlight
<1>4. c.key \in ObligationKeys /\ old \in StoredObligation /\ ObligationIsLogged(c.key)
  BY <1>0, <1>2 DEF RInv, ObligationsFit, TableOf, Existing
<1>5. row \in StoredObligation /\ row.id = old.id /\ row.due = old.due /\ row.active = FALSE /\ row.by = c.by
  BY <1>0, <1>2, <1>3, <1>4 DEF CallFits, StoredObligation
<1>6. obligations'[c.key] = row
  BY <1>1, <1>4 DEF RInv, ObligationsFit, TableOf
<1>7. ObligationIsLogged(c.key)'
  <2>1. c \in events' /\ events \subseteq events'
    BY <1>1
  <2> QED BY <1>0, <1>2, <1>4, <1>5, <1>6, <2>1 DEF ObligationIsLogged
<1>8. c.key \in Existing(obligations) => obligations[c.key].id = row.id
  BY <1>0, <1>5
<1>9. events \subseteq events' /\ \A t \in told' : t \in told \/ Answered(t)'
  BY <1>1
<1> QED BY <1>1, <1>4, <1>5, <1>7, <1>8, <1>9, ObligationWriteKeeps

----------------------------------------------------------------------------
(* Balance snapshots. *)

\* One snapshot is written, with its event, and its caller is told the id.
LEMMA SnapshotWriteKeeps ==
  ASSUME RInv, AInv', NEW s \in Sessions, Ends(s),
         UNCHANGED <<profiles, history, obligations, changes, verdicts>>,
         NEW c, c.tool = "record_balance_snapshot", c.key \in SnapshotKeys, events' = events \union {c},
         NEW row \in StoredSnapshot, row.balance = normalize_amount(c.balance),
         snapshots' = [snapshots EXCEPT ![c.key] = row],
         c.key \in Existing(snapshots) => snapshots[c.key].id = row.id,
         told' = told \union {[call |-> c, answer |-> row.id]}
  PROVE  RInv'
<1>1. TableOf(SnapshotKeys, StoredSnapshot, snapshots) /\ NULL \notin StoredSnapshot
  BY NullAssumption DEF RInv, SnapshotsFit
<1>2. TableOf(SnapshotKeys, StoredSnapshot, snapshots') /\ Puts(snapshots, c.key, row, snapshots')
  BY <1>1, RowPut
<1>3. SnapshotsFit'
  <2>1. ASSUME NEW x \in Existing(snapshots')
        PROVE  \E e \in events' : /\ e.tool = "record_balance_snapshot" /\ e.key = x
                                  /\ snapshots'[x].balance = normalize_amount(e.balance)
    <3>1. CASE x = c.key
      <4>1. snapshots'[x] = row /\ c \in events'
        BY <1>2, <3>1 DEF Puts
      <4> QED BY <3>1, <4>1
    <3>2. CASE x # c.key
      <4>1. x \in Existing(snapshots) /\ snapshots'[x] = snapshots[x]
        BY <1>2, <3>2 DEF Puts
      <4> QED BY <4>1 DEF RInv, SnapshotsFit
    <3> QED BY <3>1, <3>2
  <2> QED BY <1>2, <2>1 DEF SnapshotsFit
<1>4. IdsStay(snapshots, snapshots')
  BY <1>2, PutKeepsIds
<1>5. RowsStay
  BY <1>4 DEF RowsStay, IdsStay
<1>6. Alone(s) /\ pc'[s] = "idle"
  BY EndsMoves DEF RInv, AInv
<1>7. ProfilesFit' /\ HistoryFits' /\ ObligationsFit' /\ ChangesFit'
  BY ProfilesStay, ObligationsStay, ChangesStay DEF RInv
<1>8. \A t \in told' : t \in told \/ Answered(t)'
  <2>1. Answered([call |-> c, answer |-> row.id])'
    BY <1>2 DEF Answered, Puts
  <2> QED BY <2>1
<1> QED BY <1>3, <1>5, <1>6, <1>7, <1>8, IdleFindsItsRow, StepKeepsRest

LEMMA SnapshotWritesKeep ==
  ASSUME RInv, AInv', NEW s \in Sessions, SnapshotInserts(s) \/ SnapshotUpdates(s)
  PROVE  RInv'
<1>1. PICK c : c = arg[s]
  OBVIOUS
<1>2. pc[s] \in {"insert_snapshot", "update_snapshot"} /\ Ends(s) /\ events' = events \union {c}
      /\ UNCHANGED <<profiles, history, obligations, changes, verdicts>>
  BY <1>1 DEF SnapshotInserts, SnapshotUpdates, At, Logs, OnlySnapshots
<1>3. c.tool = "record_balance_snapshot"
  BY <1>1, <1>2 DEF RInv, RowIsThere
<1>4. CallFits(c) /\ c.key \in SnapshotKeys
  BY <1>1, <1>2, <1>3, CallInFlight DEF SnapshotKeys
<1>5. normalize_amount(c.balance) \in Int
  <2>1. c.balance \in Int
    BY <1>3, <1>4 DEF CallFits
  <2> QED BY <2>1 DEF normalize_amount, RoundHalfEven, RawPerQuantum
<1>6. CASE SnapshotInserts(s)
  <2>1. PICK id, row : id = NextRowId(snapshots) /\ row = [id |-> id, balance |-> normalize_amount(c.balance)]
    OBVIOUS
  <2>2. /\ snapshots' = [snapshots EXCEPT ![c.key] = row] /\ snapshots[c.key] = NULL
        /\ told' = told \union {[call |-> c, answer |-> id]}
    BY <1>1, <1>6, <2>1 DEF SnapshotInserts, SnapshotFits, Tells
  <2>3. id \in Nat
    BY <2>1, RowIdsAreNumbers DEF RInv, SnapshotsFit, TableOf
  <2>4. row \in StoredSnapshot /\ row.id = id /\ row.balance = normalize_amount(c.balance)
    BY <1>5, <2>1, <2>3 DEF StoredSnapshot
  <2>5. c.key \notin Existing(snapshots)
    BY <2>2 DEF Existing
  <2> QED BY <1>2, <1>3, <1>4, <2>2, <2>4, <2>5, SnapshotWriteKeeps
<1>7. CASE SnapshotUpdates(s)
  <2>1. PICK old, row : old = snapshots[c.key] /\ row = [old EXCEPT !.balance = normalize_amount(c.balance)]
    OBVIOUS
  <2>2. /\ snapshots' = [snapshots EXCEPT ![c.key] = row]
        /\ told' = told \union {[call |-> c, answer |-> old.id]}
    BY <1>1, <1>7, <2>1 DEF SnapshotUpdates, Tells
  <2>3. c.key \in Existing(snapshots)
    BY <1>1, <1>7 DEF SnapshotUpdates, At, RInv, RowIsThere
  <2>4. old \in StoredSnapshot
    BY <2>1, <2>3 DEF RInv, SnapshotsFit, TableOf, Existing
  <2>5. row \in StoredSnapshot /\ row.id = old.id /\ row.balance = normalize_amount(c.balance)
    BY <1>5, <2>1, <2>4 DEF StoredSnapshot
  <2> QED BY <1>2, <1>3, <1>4, <2>1, <2>2, <2>5, SnapshotWriteKeeps
<1> QED BY <1>6, <1>7

LEMMA ObligationStepKeepsRows ==
  ASSUME RInv, AInv', NEW s \in Sessions, ObligationStep(s)
  PROVE  RInv'
<1>1. ASSUME NEW c \in work.calls, ObligationReads(s, c) PROVE RInv'
  <2>1. PICK step : /\ step = IF obligations[c.key] = NULL THEN "insert_obligation" ELSE "update_obligation"
                    /\ c.tool = "create_or_update_obligation" /\ Reads(s, c, step, NULL)
    BY <1>1 DEF ObligationReads, Starts
  <2>2. pc'[s] = step /\ arg'[s] = c /\ obligations' = obligations
    BY <2>1, ReadsMoves DEF RInv, AInv, Reads, tables
  <2>3. c.key \in ObligationKeys
    BY <2>1, CallsFit DEF ObligationKeys, RInv, AInv
  <2>4. step = "update_obligation" => c.key \in Existing(obligations')
    BY <2>1, <2>2, <2>3 DEF RInv, ObligationsFit, TableOf, Existing
  <2>5. RowIsThere(s)'
    BY <2>1, <2>2, <2>4 DEF RowIsThere
  <2> QED BY <2>1, <2>5, ReadsKeep
<1>2. ASSUME NEW c \in work.calls, SnapshotReads(s, c) PROVE RInv'
  <2>1. PICK step : /\ step = IF snapshots[c.key] = NULL THEN "insert_snapshot" ELSE "update_snapshot"
                    /\ c.tool = "record_balance_snapshot" /\ Reads(s, c, step, NULL)
    BY <1>2 DEF SnapshotReads, Starts
  <2>2. pc'[s] = step /\ arg'[s] = c /\ snapshots' = snapshots
    BY <2>1, ReadsMoves DEF RInv, AInv, Reads, tables
  <2>3. c.key \in SnapshotKeys
    BY <2>1, CallsFit DEF SnapshotKeys, RInv, AInv
  <2>4. step = "update_snapshot" => c.key \in Existing(snapshots')
    BY <2>1, <2>2, <2>3 DEF RInv, SnapshotsFit, TableOf, Existing
  <2>5. RowIsThere(s)'
    BY <2>1, <2>2, <2>4 DEF RowIsThere
  <2> QED BY <2>1, <2>5, ReadsKeep
<1>3. ASSUME NEW c \in work.calls, FulfilReads(s, c) PROVE RInv'
  <2>1. c.tool = "fulfill_obligation" /\ Reads(s, c, "fulfil", NULL) /\ obligations[c.key] # NULL
    BY <1>3 DEF FulfilReads, Starts
  <2>2. pc'[s] = "fulfil" /\ arg'[s] = c /\ obligations' = obligations
    BY <2>1, ReadsMoves DEF RInv, AInv, Reads, tables
  <2>3. c.key \in ObligationKeys
    BY <2>1, CallsFit DEF CallFits, RInv, AInv
  <2>4. c.key \in Existing(obligations')
    BY <2>1, <2>2, <2>3 DEF RInv, ObligationsFit, TableOf, Existing
  <2>5. RowIsThere(s)'
    BY <2>1, <2>2, <2>4 DEF RowIsThere
  <2> QED BY <2>1, <2>5, ReadsKeep
<1>4. ASSUME NEW c \in work.calls, FulfilReplays(s, c) PROVE RInv'
  BY <1>4, ReplayKeeps DEF FulfilReplays, OnlyObligations, Logs, Keeps
<1>5. CASE ObligationFails(s) \/ SnapshotFails(s)
  BY <1>5, FailsKeep DEF ObligationFails, SnapshotFails
<1> QED BY <1>1, <1>2, <1>3, <1>4, <1>5, ObligationInsertKeeps, ObligationUpdateKeeps, FulfilmentKeeps,
           SnapshotWritesKeep DEF ObligationStep

----------------------------------------------------------------------------
(* Config changes. *)

\* One change is written; the verdicts, like the log, only grow.
LEMMA ChangeWriteKeeps ==
  ASSUME RInv, AInv', NEW s \in Sessions, Ends(s),
         UNCHANGED <<profiles, history, obligations, snapshots>>, events \subseteq events', verdicts \subseteq verdicts',
         NEW k \in ChangeKeys, NEW row \in StoredChange, changes' = [changes EXCEPT ![k] = row],
         k \in Existing(changes) => changes[k].id = row.id,
         ChangeIsLogged(k)',
         \A t \in told' : t \in told \/ Answered(t)'
  PROVE  RInv'
<1>1. TableOf(ChangeKeys, StoredChange, changes) /\ NULL \notin StoredChange
  BY NullAssumption DEF RInv, ChangesFit
<1>2. TableOf(ChangeKeys, StoredChange, changes') /\ Puts(changes, k, row, changes')
  BY <1>1, RowPut
<1>3. ASSUME NEW x \in Existing(changes') PROVE ChangeIsLogged(x)'
  <2>1. CASE x = k
    BY <2>1
  <2>2. CASE x # k
    <3>1. x \in Existing(changes) /\ changes'[x] = changes[x]
      BY <1>2, <2>2 DEF Puts
    <3>2. ChangeIsLogged(x)
      BY <3>1 DEF RInv, ChangesFit
    <3> QED BY <3>1, <3>2 DEF ChangeIsLogged
  <2> QED BY <2>1, <2>2
<1>4. ChangesFit'
  BY <1>2, <1>3 DEF ChangesFit
<1>5. IdsStay(changes, changes')
  BY <1>2, PutKeepsIds
<1>6. RowsStay
  BY <1>5 DEF RowsStay, IdsStay
<1>7. Alone(s) /\ pc'[s] = "idle"
  BY EndsMoves DEF RInv, AInv
<1>8. ProfilesFit' /\ HistoryFits' /\ ObligationsFit' /\ SnapshotsFit'
  BY ProfilesStay, ObligationsStay, SnapshotsStay DEF RInv
<1> QED BY <1>4, <1>6, <1>7, <1>8, IdleFindsItsRow, StepKeepsRest

LEMMA ProposalKeeps ==
  ASSUME RInv, AInv', NEW s \in Sessions, ProposeInserts(s)
  PROVE  RInv'
<1>1. PICK c, created : c = arg[s] /\ created = CreatedAt
  OBVIOUS
<1>2. PICK id \in ChangeIds : told' = told \union {[call |-> c, answer |-> id]}
                  /\ changes' = [changes EXCEPT ![c.key] = [id |-> id, status |-> "proposed", created |-> created]]
  BY <1>1 DEF ProposeInserts, Tells
<1>3. /\ pc[s] = "propose" /\ changes[c.key] = NULL /\ Ends(s) /\ events' = events \union {c}
      /\ UNCHANGED <<profiles, history, obligations, snapshots, verdicts>>
  BY <1>1 DEF ProposeInserts, At, ChangeKeyFree, Logs, OnlyChanges
<1>4. PICK row : row = [id |-> id, status |-> "proposed", created |-> created]
  OBVIOUS
<1>5. c.tool = "propose_config_change"
  BY <1>1, <1>3 DEF RInv, RowIsThere
<1>6. c.key \in ChangeKeys
  BY <1>1, <1>3, <1>5, CallInFlight DEF ChangeKeys
<1>7. created \in Nat
  <2>1. CreatedAt = Cardinality(Existing(changes)) \div 2
    BY DEF CreatedAt, Existing, RInv, ChangesFit, TableOf
  <2>2. Cardinality(Existing(changes)) \in Nat
    BY FS_CardinalityType DEF RInv, ChangesFit, TableOf
  <2> QED BY <1>1, <2>1, <2>2
<1>8. row \in StoredChange /\ row.id = id /\ row.status = "proposed"
  BY <1>4, <1>7 DEF StoredChange
<1>9. changes' = [changes EXCEPT ![c.key] = row]
  BY <1>2, <1>4
<1>10. TableOf(ChangeKeys, StoredChange, changes) /\ NULL \notin StoredChange
  BY NullAssumption DEF RInv, ChangesFit
<1>11. changes'[c.key] = row /\ c.key \in Existing(changes')
  BY <1>6, <1>8, <1>9, <1>10 DEF TableOf, Existing
<1>12. ChangeIsLogged(c.key)'
  <2>1. c \in events'
    BY <1>3
  <2> QED BY <1>5, <1>8, <1>11, <2>1 DEF ChangeIsLogged
<1>13. \A t \in told' : t \in told \/ Answered(t)'
  <2>1. Answered([call |-> c, answer |-> id])'
    BY <1>5, <1>8, <1>11 DEF Answered
  <2> QED BY <1>2, <2>1
<1>14. c.key \notin Existing(changes)
  BY <1>3 DEF Existing
<1>15. events \subseteq events' /\ verdicts \subseteq verdicts'
  BY <1>3
<1> QED BY <1>3, <1>6, <1>8, <1>9, <1>12, <1>13, <1>14, <1>15, ChangeWriteKeeps

\* An approval or a rejection, with its verdict on record.
LEMMA DecisionKeeps ==
  ASSUME RInv, AInv', NEW s \in Sessions, Ends(s),
         UNCHANGED <<profiles, history, obligations, snapshots, told>>,
         NEW c, c.key \in Existing(changes), events' = events \union {c},
         NEW status, NEW action,
         \/ status = "committed" /\ action = "approve" /\ c.tool = "approve_config_change"
         \/ status = "rejected" /\ action = "reject" /\ c.tool = "reject_proposed_transaction",
         changes' = Persisted(c.key, status),
         verdicts \subseteq verdicts', Verdict(c, action) \in verdicts'
  PROVE  RInv'
<1>1. TableOf(ChangeKeys, StoredChange, changes)
  BY DEF RInv, ChangesFit
<1>2. PICK old, row : old = changes[c.key] /\ row = [old EXCEPT !.status = status]
  OBVIOUS
<1>3. c.key \in ChangeKeys /\ old \in StoredChange /\ ChangeIsLogged(c.key)
  BY <1>1, <1>2 DEF TableOf, Existing, RInv, ChangesFit
<1>4. row \in StoredChange /\ row.id = old.id /\ row.status = status
  BY <1>2, <1>3 DEF StoredChange
<1>5. changes' = [changes EXCEPT ![c.key] = row]
  BY <1>2 DEF Persisted
<1>6. changes'[c.key] = row
  BY <1>1, <1>3, <1>5 DEF TableOf
<1>7. ChangeIsLogged(c.key)'
  <2>1. c \in events' /\ events \subseteq events'
    OBVIOUS
  <2>2. \E v \in verdicts' : v.key = c.key /\ v.action = action
    BY DEF Verdict
  <2> QED BY <1>3, <1>4, <1>6, <2>1, <2>2 DEF ChangeIsLogged
<1> QED BY <1>2, <1>3, <1>4, <1>5, <1>7, ChangeWriteKeeps

LEMMA DecisionsKeep ==
  ASSUME RInv, AInv', NEW s \in Sessions, ApplyChange(s) \/ ApplyAgain(s) \/ RejectChange(s)
  PROVE  RInv'
<1>1. PICK c : c = arg[s]
  OBVIOUS
<1>2. CASE ApplyChange(s) \/ ApplyAgain(s)
  <2>1. /\ pc[s] \in {"apply", "apply_again"} /\ Ends(s) /\ events' = events \union {c}
        /\ UNCHANGED <<profiles, history, obligations, snapshots, told>> /\ changes' = Persisted(c.key, "committed")
        /\ \/ verdicts' = verdicts \union {Verdict(c, "approve")}
           \/ verdicts' = verdicts /\ pc[s] = "apply_again"
    BY <1>1, <1>2 DEF ApplyChange, ApplyAgain, Applies, At, Logs, Keeps, OnlyChanges
  <2>2. c.tool = "approve_config_change" /\ c.key \in Existing(changes)
    BY <1>1, <2>1 DEF RInv, RowIsThere
  <2>3. verdicts \subseteq verdicts' /\ Verdict(c, "approve") \in verdicts'
    BY <1>1, <2>1 DEF RInv, RowIsThere
  <2> QED BY <2>1, <2>2, <2>3, DecisionKeeps
<1>3. CASE RejectChange(s)
  <2>1. /\ pc[s] = "reject" /\ Ends(s) /\ events' = events \union {c}
        /\ UNCHANGED <<profiles, history, obligations, snapshots, told>> /\ changes' = Persisted(c.key, "rejected")
        /\ verdicts' = verdicts \union {Verdict(c, "reject")}
    BY <1>1, <1>3 DEF RejectChange, At, Logs, Keeps, OnlyChanges
  <2>2. c.tool = "reject_proposed_transaction" /\ c.key \in Existing(changes)
    BY <1>1, <2>1 DEF RInv, RowIsThere
  <2>3. verdicts \subseteq verdicts' /\ Verdict(c, "reject") \in verdicts'
    BY <2>1
  <2> QED BY <2>1, <2>2, <2>3, DecisionKeeps
<1> QED BY <1>2, <1>3

LEMMA ConfigStepKeepsRows ==
  ASSUME RInv, AInv', NEW s \in Sessions, ConfigStep(s)
  PROVE  RInv'
<1>1. ASSUME NEW c \in work.calls, ProposeReads(s, c) PROVE RInv'
  <2>1. c.tool = "propose_config_change" /\ Reads(s, c, "propose", NULL)
    BY <1>1 DEF ProposeReads, Starts
  <2>2. pc'[s] = "propose" /\ arg'[s] = c
    BY <2>1, ReadsMoves DEF RInv, AInv
  <2>3. RowIsThere(s)'
    BY <2>1, <2>2 DEF RowIsThere
  <2> QED BY <2>1, <2>3, ReadsKeep
<1>2. ASSUME NEW c \in work.calls, ApproveReads(s, c) \/ RejectReads(s, c) PROVE RInv'
  <2>1. PICK step : /\ Reads(s, c, step, NULL) /\ changes[c.key] # NULL
                    /\ \/ c.tool = "approve_config_change" /\ step = "approver"
                       \/ c.tool = "reject_proposed_transaction" /\ step = "reject"
    BY <1>2 DEF ApproveReads, RejectReads, Starts
  <2>2. pc'[s] = step /\ arg'[s] = c /\ changes' = changes
    BY <2>1, ReadsMoves DEF RInv, AInv, Reads, tables
  <2>3. c.key \in ChangeKeys
    BY <2>1, CallsFit DEF CallFits, RInv, AInv
  <2>4. c.key \in Existing(changes')
    BY <2>1, <2>2, <2>3 DEF RInv, ChangesFit, TableOf, Existing
  <2>5. RowIsThere(s)'
    BY <2>1, <2>2, <2>4 DEF RowIsThere
  <2> QED BY <2>1, <2>5, ReadsKeep
<1>3. ASSUME NEW c \in work.calls, ProposeReplays(s, c) PROVE RInv'
  <2>1. c.tool = "propose_config_change" /\ c \in CallsOf(c.tool) /\ changes[c.key] # NULL
    BY <1>3, CallsFit DEF ProposeReplays, Starts, RInv, AInv
  <2>2. c.key \in Existing(changes)
    BY <2>1 DEF ChangeKeys, RInv, ChangesFit, TableOf, Existing
  <2>3. Answered([call |-> c, answer |-> changes[c.key].id])
    BY <2>1, <2>2 DEF Answered
  <2> QED BY <1>3, <2>3, ReplayKeeps DEF ProposeReplays, OnlyChanges, Logs, Tells
<1>4. ASSUME NEW c \in work.calls, ApproveReplays(s, c) \/ RejectReplays(s, c) PROVE RInv'
  BY <1>4, ReplayKeeps DEF ApproveReplays, RejectReplays, OnlyChanges, Logs, Keeps
<1>5. CASE ApproverReads(s)
  <2>1. PICK step : /\ step = IF HasDecision(arg[s]) THEN "apply_again" ELSE "apply"
                    /\ pc[s] = "approver" /\ Reads(s, arg[s], step, NULL)
    BY <1>5 DEF ApproverReads, At
  <2>2. pc'[s] = step /\ arg'[s] = arg[s] /\ changes' = changes /\ verdicts' = verdicts
    BY <2>1, ReadsMoves DEF RInv, AInv, Reads, tables
  <2>3. RowIsThere(s)
    BY DEF RInv
  <2>4. RowIsThere(s)'
    BY <2>1, <2>2, <2>3 DEF RowIsThere, HasDecision, Verdict
  <2> QED BY <2>1, <2>4, ReadsKeep
<1>6. CASE ProposeFails(s) \/ ApplyFails(s) \/ RejectFails(s)
  BY <1>6, FailsKeep DEF ProposeFails, ApplyFails, RejectFails
<1> QED BY <1>1, <1>2, <1>3, <1>4, <1>5, <1>6, ProposalKeeps, DecisionsKeep DEF ConfigStep

----------------------------------------------------------------------------
(* The identifier history. *)

\* History h with one more row.
Extended(h, new, grown) ==
  /\ grown \in Seq(Identifiers) /\ Len(grown) = Len(h) + 1 /\ Linked(grown) /\ grown[Len(h) + 1] = new
  /\ \A i \in DOMAIN h :
       /\ i \in DOMAIN grown /\ grown[i].from = i /\ grown[i].account = h[i].account
       /\ grown[i].source = h[i].source /\ grown[i].ext = h[i].ext /\ grown[i].suffix = h[i].suffix

\* A new identifier closes the open row of its account and source, and nothing else changes hands.
LEMMA HistoryGrows ==
  ASSUME NEW h \in Seq(Identifiers), \A i \in DOMAIN h : h[i].from = i, Linked(h),
         NEW new \in Identifiers, new.from = Len(h) + 1, new.to = NULL,
         NEW grown, grown = Append(Closed(h, new.account, new.source), new)
  PROVE  Extended(h, new, grown)
<1> DEFINE n == Len(h)
           closed == Closed(h, new.account, new.source)
           Matches(i) == h[i].account = new.account /\ h[i].source = new.source
<1>1. n \in Nat /\ DOMAIN h = 1..n /\ \A i \in 1..n : h[i] \in Identifiers
  OBVIOUS
<1>2. NULL \notin Nat
  BY NullAssumption
<1>3. ASSUME NEW i \in 1..n
      PROVE  closed[i] = IF Matches(i) /\ h[i].to = NULL THEN [h[i] EXCEPT !.to = n + 1] ELSE h[i]
  BY <1>1 DEF Closed, ActiveRows, Instant
<1>4. ASSUME NEW i \in 1..n
      PROVE  /\ closed[i] \in Identifiers
             /\ closed[i].to = IF Matches(i) /\ h[i].to = NULL THEN n + 1 ELSE h[i].to
             /\ closed[i].from = h[i].from /\ closed[i].account = h[i].account
             /\ closed[i].source = h[i].source /\ closed[i].ext = h[i].ext /\ closed[i].suffix = h[i].suffix
  <2>1. h[i] \in Identifiers
    BY <1>1
  <2> QED BY <1>1, <1>3, <2>1 DEF Identifiers
<1>5. closed \in Seq(Identifiers) /\ Len(closed) = n
  <2>1. DOMAIN closed = 1..n
    BY <1>1 DEF Closed
  <2>2. closed = [i \in 1..n |-> closed[i]]
    BY <1>1 DEF Closed
  <2> HIDE DEF closed
  <2>3. [i \in 1..n |-> closed[i]] \in [1..n -> Identifiers]
    BY <1>4
  <2> QED BY <1>1, <2>1, <2>2, <2>3
<1> HIDE DEF closed, n
<1>6. grown \in Seq(Identifiers) /\ Len(grown) = n + 1 /\ grown[n + 1] = new
  BY <1>1, <1>5 DEF closed
<1>7. DOMAIN grown = 1..(n + 1) /\ \A i \in 1..n : grown[i] = closed[i]
  BY <1>1, <1>5, <1>6 DEF closed
<1>8. ASSUME NEW i \in 1..n
      PROVE  Later(grown, i) = Later(h, i) \union (IF Matches(i) THEN {n + 1} ELSE {})
  <2>1. ASSUME NEW j \in 1..(n + 1)
        PROVE  j \in Later(grown, i) <=> j \in Later(h, i) \/ (j = n + 1 /\ Matches(i))
    <3>1. CASE j = n + 1
      BY <1>1, <1>4, <1>6, <1>7, <3>1 DEF Later
    <3>2. CASE j \in 1..n
      BY <1>1, <1>4, <1>7, <3>2 DEF Later
    <3> QED BY <1>1, <3>1, <3>2
  <2>2. Later(grown, i) \subseteq 1..(n + 1) /\ Later(h, i) \subseteq 1..(n + 1) /\ n + 1 \in 1..(n + 1)
    BY <1>1, <1>7 DEF Later
  <2> QED BY <2>1, <2>2
<1>9. Later(grown, n + 1) = {}
  BY <1>1, <1>7 DEF Later
<1>10. ASSUME NEW i \in 1..n
       PROVE  \/ grown[i].to = NULL /\ Later(grown, i) = {}
              \/ grown[i].to \in Later(grown, i) /\ \A j \in Later(grown, i) : grown[i].to <= j
  <2>1. \/ h[i].to = NULL /\ Later(h, i) = {}
        \/ h[i].to \in Later(h, i) /\ \A j \in Later(h, i) : h[i].to <= j
    BY <1>1 DEF Linked
  <2>2. Later(h, i) \subseteq 1..n /\ NULL \notin 1..n
    BY <1>1, <1>2 DEF Later
  <2>3. grown[i].to = IF Matches(i) /\ h[i].to = NULL THEN n + 1 ELSE h[i].to
    BY <1>4, <1>7
  <2>4. CASE h[i].to = NULL
    BY <1>1, <1>8, <2>1, <2>2, <2>3, <2>4
  <2>5. CASE h[i].to # NULL
    BY <1>1, <1>8, <2>1, <2>2, <2>3, <2>5
  <2> QED BY <2>4, <2>5
<1>11. Linked(grown)
  <2>1. ASSUME NEW i \in DOMAIN grown
        PROVE  \/ grown[i].to = NULL /\ Later(grown, i) = {}
               \/ grown[i].to \in Later(grown, i) /\ \A j \in Later(grown, i) : grown[i].to <= j
    <3>1. CASE i = n + 1
      BY <1>6, <1>9, <3>1
    <3>2. CASE i \in 1..n
      BY <1>10, <3>2
    <3> QED BY <1>1, <1>7, <3>1, <3>2
  <2> QED BY <2>1 DEF Linked
<1>12. ASSUME NEW i \in DOMAIN h
       PROVE  /\ i \in DOMAIN grown /\ grown[i].from = i /\ grown[i].account = h[i].account
              /\ grown[i].source = h[i].source /\ grown[i].ext = h[i].ext /\ grown[i].suffix = h[i].suffix
  BY <1>1, <1>4, <1>7
<1> QED BY <1>6, <1>11, <1>12 DEF n, Extended

\* The rows of an account and source, read off the links.
LEMMA HistoryIsGapless ==
  ASSUME HistoryFits, NEW i \in DOMAIN history
  PROVE  LET later == {j \in RowsFor(history[i].account, history[i].source) : j > i}
         IN  history[i].to = IF later = {} THEN NULL
                             ELSE history[CHOOSE j \in later : \A l \in later : j <= l].from
<1> DEFINE later == {j \in RowsFor(history[i].account, history[i].source) : j > i}
           next == CHOOSE j \in later : \A l \in later : j <= l
<1>1. later = Later(history, i)
  BY DEF RowsFor, Later
<1>2. history \in Seq(Identifiers) /\ DOMAIN history = 1..Len(history) /\ Len(history) \in Nat
  BY DEF HistoryFits
<1>3. later \subseteq DOMAIN history /\ \A j \in DOMAIN history : history[j].from = j /\ j \in Nat
  <2>1. \A j \in DOMAIN history : history[j].from = j
    BY DEF HistoryFits
  <2> QED BY <1>2, <2>1 DEF RowsFor
<1>4. \/ history[i].to = NULL /\ later = {}
      \/ history[i].to \in later /\ \A j \in later : history[i].to <= j
  BY <1>1 DEF HistoryFits, Linked
<1> HIDE DEF later
<1>5. CASE later = {}
  BY <1>4, <1>5 DEF later
<1>6. CASE later # {}
  <2>1. history[i].to \in later /\ \A j \in later : history[i].to <= j
    BY <1>4, <1>6
  <2>2. next \in later /\ \A l \in later : next <= l
    BY <2>1
  <2> HIDE DEF next
  <2>3. next = history[i].to /\ history[next].from = next
    BY <1>3, <2>1, <2>2
  <2> QED BY <1>6, <2>3 DEF later, next
<1> QED BY <1>5, <1>6

\* A profile call commits: the stored response, the history and the log move together.
LEMMA ProfileWriteKeeps ==
  ASSUME RInv, AInv', NEW s \in Sessions, ProfileWrites(s)
  PROVE  RInv'
<1>1. PICK c, a, meta, name, response :
        /\ c = arg[s] /\ a = c.account /\ meta = ProfileMeta(a, c) /\ name = ProfileName(a, c)
        /\ response = [account |-> a, name |-> name, suffix |-> meta["institution_suffix"]]
  OBVIOUS
<1>2. /\ pc[s] = "profile" /\ profiles[c.key] = NULL /\ AccountExists(a)
      /\ history' = NextHistory(history, a, c, meta["institution_suffix"])
      /\ profiles' = [profiles EXCEPT ![c.key] = response]
      /\ told' = told \union {[call |-> c, answer |-> response]} /\ events' = events \union {c} /\ Ends(s)
      /\ UNCHANGED <<obligations, snapshots, changes, verdicts>>
  BY <1>1 DEF ProfileWrites, At, KeyTaken, Tells, Logs, OnlyAccounts
<1>3. AInv
  BY DEF RInv
<1>4. /\ c \in work.calls /\ c.tool = "update_account_profile" /\ CallFits(c)
      /\ a \in AccountIds /\ meta \in [MetaKeys -> OptionalText] /\ name \in Texts
  BY <1>1, <1>2, <1>3, ProfileIsSound
<1>5. c.key = <<c.key[1], c.key[2]>> /\ c.key \in ProfileKeys
  BY <1>3, <1>4, CallsFit DEF CallFits, ProfileKeys, AInv
<1>6. meta["institution_suffix"] \in OptionalText
  BY <1>4, RegistryAssumption
<1>7. response \in StoredResponse /\ response.account = a /\ response.suffix = meta["institution_suffix"]
  BY <1>1, <1>4, <1>6 DEF StoredResponse
<1>8. TableOf(ProfileKeys, StoredResponse, profiles) /\ NULL \notin StoredResponse
  BY NullAssumption DEF RInv, ProfilesFit
<1>9. TableOf(ProfileKeys, StoredResponse, profiles') /\ Puts(profiles, c.key, response, profiles')
  BY <1>2, <1>5, <1>7, <1>8, RowPut
<1>10. c.key \notin Existing(profiles)
  BY <1>2 DEF Existing
<1>11. ProfilesFit'
  <2>1. ASSUME NEW k \in Existing(profiles')
        PROVE  \E e \in events' : e.tool = "update_account_profile" /\ e.key = k /\ e.account = profiles'[k].account
    <3>1. CASE k = c.key
      <4>1. profiles'[k] = response /\ c \in events'
        BY <1>2, <1>9, <3>1 DEF Puts
      <4> QED BY <1>1, <1>4, <1>7, <3>1, <4>1
    <3>2. CASE k # c.key
      <4>1. k \in Existing(profiles) /\ profiles'[k] = profiles[k]
        BY <1>9, <3>2 DEF Puts
      <4> QED BY <1>2, <4>1 DEF RInv, ProfilesFit
    <3> QED BY <3>1, <3>2
  <2> QED BY <1>9, <2>1 DEF ProfilesFit
<1>12. HistoryFits
  BY DEF RInv
<1>13. PICK n, new : /\ n = Len(history)
                     /\ new = [account |-> a, source |-> c.key[1], ext |-> c.key[2],
                               suffix |-> meta["institution_suffix"], from |-> n + 1, to |-> NULL]
  OBVIOUS
<1>14. n \in Nat /\ DOMAIN history = 1..n
  BY <1>12, <1>13 DEF HistoryFits
<1>15. /\ new \in Identifiers /\ new.from = n + 1 /\ new.to = NULL /\ new.account = a
       /\ new.source = c.key[1] /\ new.ext = c.key[2] /\ new.suffix = meta["institution_suffix"]
  BY <1>4, <1>5, <1>6, <1>13, <1>14 DEF Identifiers
<1>16. ~SameIdentifier(history, a, c, meta["institution_suffix"])
  <2>1. SUFFICES ASSUME NEW i \in ActiveRows(history, a, c.key[1]), history[i].ext = c.key[2] PROVE FALSE
    BY DEF SameIdentifier
  <2>2. i \in DOMAIN history /\ history[i].source = c.key[1]
    BY DEF ActiveRows
  <2>3. <<history[i].source, history[i].ext>> \in Existing(profiles)
    BY <1>12, <2>2 DEF HistoryFits
  <2> QED BY <1>5, <1>10, <2>1, <2>2, <2>3
<1>17. history' = Append(Closed(history, new.account, new.source), new)
  BY <1>2, <1>13, <1>15, <1>16 DEF NextHistory, Instant
<1>18. /\ history' \in Seq(Identifiers) /\ Len(history') = n + 1 /\ Linked(history') /\ history'[n + 1] = new
       /\ \A i \in DOMAIN history :
            /\ i \in DOMAIN history' /\ history'[i].from = i /\ history'[i].account = history[i].account
            /\ history'[i].source = history[i].source /\ history'[i].ext = history[i].ext
            /\ history'[i].suffix = history[i].suffix
  <2>1. history \in Seq(Identifiers) /\ (\A i \in DOMAIN history : history[i].from = i) /\ Linked(history)
    BY <1>12 DEF HistoryFits
  <2>2. Extended(history, new, history')
    BY <1>13, <1>15, <1>17, <2>1, HistoryGrows
  <2> QED BY <1>13, <2>2 DEF Extended
<1>19. HistoryFits'
  <2>1. Len(history') = Cardinality(Existing(profiles'))
    BY <1>9, <1>10, <1>12, <1>13, <1>18 DEF HistoryFits, Puts
  <2>2. ASSUME NEW i \in DOMAIN history'
        PROVE  history'[i].from = i /\ <<history'[i].source, history'[i].ext>> \in Existing(profiles')
    <3>1. CASE i = n + 1
      BY <1>5, <1>9, <1>15, <1>18, <3>1 DEF Puts
    <3>2. CASE i # n + 1
      <4>1. i \in DOMAIN history
        BY <1>14, <1>18, <3>2
      <4>2. <<history[i].source, history[i].ext>> \in Existing(profiles)
        BY <1>12, <4>1 DEF HistoryFits
      <4> QED BY <1>9, <1>18, <4>1, <4>2 DEF Puts
    <3> QED BY <3>1, <3>2
  <2>3. ASSUME NEW k \in Existing(profiles')
        PROVE  \E i \in DOMAIN history' : RowOf(history', i, k, profiles'[k])
    <3>1. CASE k = c.key
      <4>1. n + 1 \in DOMAIN history' /\ profiles'[k] = response
        BY <1>9, <1>14, <1>18, <3>1 DEF Puts
      <4>2. RowOf(history', n + 1, k, response)
        BY <1>5, <1>7, <1>15, <1>18, <3>1 DEF RowOf
      <4> QED BY <4>1, <4>2
    <3>2. CASE k # c.key
      <4>1. k \in Existing(profiles) /\ profiles'[k] = profiles[k]
        BY <1>9, <3>2 DEF Puts
      <4>2. PICK i \in DOMAIN history : RowOf(history, i, k, profiles[k])
        BY <1>12, <4>1 DEF HistoryFits
      <4>3. i \in DOMAIN history' /\ RowOf(history', i, k, profiles'[k])
        BY <1>18, <4>1, <4>2 DEF RowOf
      <4> QED BY <4>3
    <3> QED BY <3>1, <3>2
  <2> QED BY <1>18, <2>1, <2>2, <2>3 DEF HistoryFits
<1>20. RowsStay
  <2>1. \A k \in Existing(profiles) : k \in Existing(profiles') /\ profiles'[k] = profiles[k]
    BY <1>9, <1>10 DEF Puts
  <2> QED BY <1>2, <2>1 DEF RowsStay, IdsStay
<1>21. \A t \in told' : t \in told \/ Answered(t)'
  <2>1. Answered([call |-> c, answer |-> response])'
    BY <1>4, <1>9 DEF Answered, Puts
  <2> QED BY <1>2, <2>1
<1>22. Alone(s) /\ pc'[s] = "idle"
  BY <1>2, <1>3, EndsMoves DEF AInv
<1>23. ObligationsFit' /\ SnapshotsFit' /\ ChangesFit'
  <2>1. events \subseteq events'
    BY <1>2
  <2> QED BY <1>2, <2>1, ObligationsStay, SnapshotsStay, ChangesStay DEF RInv
<1> QED BY <1>11, <1>19, <1>20, <1>21, <1>22, <1>23, IdleFindsItsRow, StepKeepsRest

LEMMA RegistryStepKeepsRows ==
  ASSUME RInv, AInv', NEW s \in Sessions, RegistryStep(s)
  PROVE  RInv'
<1>1. ASSUME NEW c \in work.calls, CreateReads(s, c) \/ MetadataReads(s, c) \/ ProfileReads(s, c) PROVE RInv'
  <2>1. PICK step, value : Reads(s, c, step, value) /\ step \in {"create", "patch", "profile"}
    BY <1>1 DEF CreateReads, MetadataReads, ProfileReads
  <2>2. pc'[s] = step
    BY <2>1, ReadsMoves DEF RInv, AInv
  <2>3. RowIsThere(s)'
    BY <2>1, <2>2 DEF RowIsThere
  <2> QED BY <2>1, <2>3, ReadsKeep
<1>2. ASSUME NEW c \in work.calls, ProfileReplays(s, c) PROVE RInv'
  <2>1. c.tool = "update_account_profile" /\ c \in CallsOf(c.tool) /\ profiles[c.key] # NULL
    BY <1>2, CallsFit DEF ProfileReplays, Starts, RInv, AInv
  <2>2. c.key \in Existing(profiles)
    BY <2>1 DEF ProfileKeys, RInv, ProfilesFit, TableOf, Existing
  <2>3. Answered([call |-> c, answer |-> profiles[c.key]])
    BY <2>1, <2>2 DEF Answered
  <2> QED BY <1>2, <2>3, ReplayKeeps DEF ProfileReplays, accountTables, OnlyAccounts, Logs, Tells
<1>3. CASE ProfileConflict(s)
  <2>1. PICK c : c = arg[s]
    OBVIOUS
  <2>2. /\ pc[s] = "profile" /\ profiles[c.key] # NULL /\ Ends(s)
        /\ told' = told \union {[call |-> c, answer |-> profiles[c.key]]} /\ events \subseteq events'
        /\ UNCHANGED <<profiles, history, obligations, snapshots, changes, verdicts>>
    BY <1>3, <2>1 DEF ProfileConflict, At, KeyTaken, Tells, Logs, accountTables, OnlyAccounts
  <2>3. c.tool = "update_account_profile"
    BY <2>1, <2>2 DEF RInv, AInv, CallIsPlaced
  <2>4. c \in CallsOf(c.tool)
    BY <2>1, <2>2, CallInFlight
  <2>5. c.key \in Existing(profiles)
    BY <2>2, <2>3, <2>4 DEF ProfileKeys, RInv, ProfilesFit, TableOf, Existing
  <2>6. Answered([call |-> c, answer |-> profiles[c.key]])
    BY <2>3, <2>5 DEF Answered
  <2> QED BY <2>2, <2>6, AccountWriteKeeps
<1>4. CASE CreateInserts(s) \/ MetadataWrites(s)
  BY <1>4, AccountWriteKeeps DEF CreateInserts, MetadataWrites, OnlyAccounts, Logs, Keeps
<1>5. CASE CreateFails(s) \/ ProfileFails(s)
  BY <1>5, FailsKeep DEF CreateFails, ProfileFails
<1> QED BY <1>1, <1>2, <1>3, <1>4, <1>5, ProfileWriteKeeps DEF RegistryStep

----------------------------------------------------------------------------
(* The theorems. *)

LEMMA RInvInit == Init => RInv
<1> SUFFICES ASSUME Init PROVE RInv
  OBVIOUS
<1>1. AInv
  BY AInvInit
<1>2. /\ Existing(profiles) = {} /\ Existing(obligations) = {}
      /\ Existing(snapshots) = {} /\ Existing(changes) = {}
  BY DEF Init, Existing
<1>3. IsFiniteSet({}) /\ Cardinality({}) = 0
  BY FS_EmptySet
<1>4. ProfilesFit /\ ObligationsFit /\ SnapshotsFit /\ ChangesFit
  BY <1>2, <1>3 DEF Init, ProfilesFit, ObligationsFit, SnapshotsFit, ChangesFit, TableOf
<1>5. HistoryFits
  <2>1. history = <<>> /\ history \in Seq(Identifiers) /\ Len(history) = 0 /\ DOMAIN history = {}
    BY DEF Init
  <2> QED BY <1>2, <1>3, <2>1 DEF HistoryFits, Linked
<1>6. (\A t \in told : Answered(t)) /\ \A s \in Sessions : RowIsThere(s)
  BY DEF Init, RowIsThere
<1> QED BY <1>1, <1>4, <1>5, <1>6 DEF RInv

LEMMA RInvNext == RInv /\ [Next]_vars => RInv'
<1> SUFFICES ASSUME RInv, [Next]_vars PROVE RInv'
  OBVIOUS
<1>1. AInv'
  BY AInvNext DEF RInv
<1>2. ASSUME NEW s \in Sessions, Step(s) PROVE RInv'
  BY <1>1, <1>2, RegistryStepKeepsRows, ImportStepKeepsRows, ObligationStepKeepsRows, ConfigStepKeepsRows,
     ListingStepKeepsRows, FailsKeep DEF Step, Rollback
<1>3. CASE UNCHANGED vars
  <2>1. RowsStay
    BY <1>3, SameRowsStay DEF vars
  <2>2. \A s \in Sessions : RowIsThere(s)'
    BY <1>3, <2>1, OthersFindTheirRows DEF RInv, vars
  <2>3. \A t \in told' : Answered(t)'
    BY <1>3, <2>1, AnswersStay DEF RInv, vars
  <2>4. ProfilesFit' /\ HistoryFits' /\ ObligationsFit' /\ SnapshotsFit' /\ ChangesFit'
    BY <1>3, ProfilesStay, ObligationsStay, SnapshotsStay, ChangesStay DEF RInv, vars
  <2> QED BY <1>1, <2>2, <2>3, <2>4 DEF RInv
<1> QED BY <1>2, <1>3 DEF Next

\* What the tools beside the ledger keep true together, for any sessions, workloads and bounds.
THEOREM RegistryInvariance == Spec => []RInv
BY RInvInit, RInvNext, PTL DEF Spec

\* Retries, races and other payloads of one idempotency key of update_account_profile are all
\* answered with the stored response, and it is never replaced.
THEOREM ReplaysRepeatTheAnswerHolds == Spec => []ReplaysRepeatTheAnswer
<1>1. RInv => ReplaysRepeatTheAnswer
  BY DEF RInv, Answered, ReplaysRepeatTheAnswer
<1> QED BY <1>1, RegistryInvariance, PTL

\* Whoever upserts an obligation or a snapshot, or proposes a change, is told the id of the one row
\* of that key, however the first inserts raced.
THEOREM UpsertAnswersNameTheRowHolds == Spec => []UpsertAnswersNameTheRow
<1>1. RInv => UpsertAnswersNameTheRow
  BY DEF RInv, Answered, UpsertAnswersNameTheRow
<1> QED BY <1>1, RegistryInvariance, PTL

\* No row of these tables stands there, or is what it is, without the event of a call that made it so.
THEOREM RegistryEffectsAreLoggedHolds == Spec => []EffectsAreLogged
<1>1. ASSUME RInv PROVE EffectsAreLogged
  <2>1. ASSUME NEW k \in Existing(profiles)
        PROVE  \E e \in Event("update_account_profile") : e.key = k /\ e.account = profiles[k].account
    BY <1>1 DEF RInv, ProfilesFit, Event
  <2>2. ASSUME NEW k \in Existing(obligations)
        PROVE  LET upserts == {e \in Event("create_or_update_obligation") : e.key = k}
                   fulfilments == {e \in Event("fulfill_obligation") : e.key = k /\ e.by = obligations[k].by}
               IN  /\ \E e \in upserts : e.due = obligations[k].due
                   /\ obligations[k].by # NULL => fulfilments # {}
                   /\ ~obligations[k].active => fulfilments # {} \/ \E e \in upserts : ~e.active
    <3> DEFINE upserts == {e \in Event("create_or_update_obligation") : e.key = k}
               fulfilments == {e \in Event("fulfill_obligation") : e.key = k /\ e.by = obligations[k].by}
    <3>1. ObligationIsLogged(k)
      BY <1>1 DEF RInv, ObligationsFit
    <3>2. \E e \in upserts : e.due = obligations[k].due
      BY <3>1 DEF ObligationIsLogged, Event
    <3>3. (\E e \in events : e.tool = "fulfill_obligation" /\ e.key = k /\ e.by = obligations[k].by)
            => fulfilments # {}
      BY DEF Event
    <3>4. (\E e \in events : e.tool = "create_or_update_obligation" /\ e.key = k /\ ~e.active)
            => \E e \in upserts : ~e.active
      BY DEF Event
    <3> HIDE DEF upserts, fulfilments
    <3>5. /\ obligations[k].by # NULL => fulfilments # {}
          /\ ~obligations[k].active => fulfilments # {} \/ \E e \in upserts : ~e.active
      BY <3>1, <3>3, <3>4 DEF ObligationIsLogged
    <3> QED BY <3>2, <3>5 DEF upserts, fulfilments
  <2>3. ASSUME NEW k \in Existing(snapshots)
        PROVE  \E e \in Event("record_balance_snapshot") :
                 e.key = k /\ snapshots[k].balance = normalize_amount(e.balance)
    BY <1>1 DEF RInv, SnapshotsFit, Event
  <2>4. ASSUME NEW k \in Existing(changes)
        PROVE  /\ \E e \in Event("propose_config_change") : e.key = k
               /\ changes[k].status = "committed" => \E e \in Event("approve_config_change") : e.key = k
               /\ changes[k].status = "rejected" => \E e \in Event("reject_proposed_transaction") : e.key = k
    <3>1. ChangeIsLogged(k)
      BY <1>1 DEF RInv, ChangesFit
    <3> QED BY <3>1 DEF ChangeIsLogged, Event
  <2> QED BY <2>1, <2>2, <2>3, <2>4 DEF EffectsAreLogged
<1> QED BY <1>1, RegistryInvariance, PTL

\* However approvals and rejections of a change race, it is committed only with an approval on
\* record and rejected only with a rejection.
THEOREM ChangesCarryTheirVerdictHolds == Spec => []ChangesCarryTheirVerdict
<1>1. RInv => ChangesCarryTheirVerdict
  BY DEF RInv, ChangesFit, ChangeIsLogged, ChangesCarryTheirVerdict
<1> QED BY <1>1, RegistryInvariance, PTL

\* Every stored profile response has its one row in the identifier history, no other rows are there,
\* and the rows of an account and source follow each other without a gap.
THEOREM HistoryMirrorsProfilesHolds == Spec => []HistoryMirrorsProfiles
<1>1. ASSUME RInv PROVE HistoryMirrorsProfiles
  <2>1. HistoryFits
    BY <1>1 DEF RInv
  <2>2. ASSUME NEW k \in Existing(profiles)
        PROVE  \E i \in DOMAIN history :
                 /\ history[i].account = profiles[k].account
                 /\ <<history[i].source, history[i].ext>> = k
                 /\ history[i].suffix = profiles[k].suffix
    BY <2>1 DEF HistoryFits, RowOf
  <2>3. Len(history) = Cardinality(Existing(profiles))
    BY <2>1 DEF HistoryFits
  <2> QED BY <2>1, <2>2, <2>3, HistoryIsGapless DEF HistoryMirrorsProfiles
<1> QED BY <1>1, RegistryInvariance, PTL

----------------------------------------------------------------------------
(* Pages: the first rows of a listing, in an order that leaves no two rows side by side. *)

Places == Int \X Int
Ahead(rows, r) == {q \in rows : Before(q, r)}

LEMMA BeforeIsAnOrder ==
  /\ \A p, q \in Places : p = q \/ Before(p, q) \/ Before(q, p)
  /\ \A p \in Places : ~Before(p, p)
  /\ \A p, q, r \in Places : Before(p, q) /\ Before(q, r) => Before(p, r)
BY DEF Places, Before

\* The further on a row stands, the more rows are ahead of it.
LEMMA FewerAreAhead ==
  ASSUME NEW rows \in SUBSET Places, IsFiniteSet(rows), NEW p \in rows, NEW q \in rows
  PROVE  /\ Cardinality(Ahead(rows, p)) \in Nat
         /\ Before(p, q) => Cardinality(Ahead(rows, p)) < Cardinality(Ahead(rows, q))
<1>1. /\ IsFiniteSet(Ahead(rows, p)) /\ IsFiniteSet(Ahead(rows, q))
      /\ Cardinality(Ahead(rows, p)) \in Nat /\ Cardinality(Ahead(rows, q)) \in Nat
  BY FS_Subset, FS_CardinalityType DEF Ahead
<1>2. ASSUME Before(p, q) PROVE Cardinality(Ahead(rows, p)) < Cardinality(Ahead(rows, q))
  <2>1. p \in Ahead(rows, q) /\ p \notin Ahead(rows, p)
    BY <1>2, BeforeIsAnOrder DEF Ahead
  <2>2. Ahead(rows, p) \subseteq Ahead(rows, q)
    BY <1>2, BeforeIsAnOrder DEF Ahead
  <2>3. /\ Cardinality(Ahead(rows, p)) <= Cardinality(Ahead(rows, q))
        /\ Cardinality(Ahead(rows, p)) # Cardinality(Ahead(rows, q))
    BY <1>1, <2>1, <2>2, FS_Subset
  <2> QED BY <1>1, <2>3
<1> QED BY <1>1, <1>2

\* The first rows of a listing: none is skipped, there are as many as were asked for or all of them,
\* and a listing of no more than that is one page.
LEMMA FirstRowsAreFirst ==
  ASSUME NEW rows \in SUBSET Places, IsFiniteSet(rows), NEW n \in Nat
  PROVE  /\ FirstRows(n, rows) \subseteq rows
         /\ \A p \in FirstRows(n, rows), q \in rows : Before(q, p) => q \in FirstRows(n, rows)
         /\ Cardinality(FirstRows(n, rows)) < n => FirstRows(n, rows) = rows
         /\ Cardinality(rows) <= n => FirstRows(n, rows) = rows
<1>1. FirstRows(n, rows) = {r \in rows : Cardinality(Ahead(rows, r)) < n}
  BY DEF FirstRows, Ahead
<1>2. ASSUME NEW p \in FirstRows(n, rows), NEW q \in rows, Before(q, p) PROVE q \in FirstRows(n, rows)
  <2>1. p \in rows /\ Cardinality(Ahead(rows, p)) < n
    BY <1>1
  <2>2. /\ Cardinality(Ahead(rows, p)) \in Nat /\ Cardinality(Ahead(rows, q)) \in Nat
        /\ Cardinality(Ahead(rows, q)) < Cardinality(Ahead(rows, p))
    BY <1>2, <2>1, FewerAreAhead
  <2> QED BY <1>1, <2>1, <2>2
<1>3. ASSUME Cardinality(FirstRows(n, rows)) < n, FirstRows(n, rows) # rows PROVE FALSE
  <2> DEFINE Counts == {Cardinality(Ahead(rows, r)) : r \in rows \ FirstRows(n, rows)}
  <2>1. Counts \subseteq Nat
    BY FewerAreAhead
  <2>2. Counts # {}
    BY <1>1, <1>3
  <2>3. PICK m \in Counts : \A k \in Counts : m <= k
    <3> HIDE DEF Counts
    <3> QED BY <2>1, <2>2, LeastExists
  <2>4. PICK r \in rows \ FirstRows(n, rows) : m = Cardinality(Ahead(rows, r))
    OBVIOUS
  <2>5. ASSUME NEW q \in Ahead(rows, r) PROVE q \in FirstRows(n, rows)
    <3>1. q \in rows /\ Before(q, r)
      BY DEF Ahead
    <3>2. /\ Cardinality(Ahead(rows, q)) \in Nat /\ m \in Nat
          /\ Cardinality(Ahead(rows, q)) < m
      BY <2>4, <3>1, FewerAreAhead
    <3>3. Cardinality(Ahead(rows, q)) \notin Counts
      BY <2>3, <3>2
    <3> QED BY <3>1, <3>3
  <2>6. IsFiniteSet(FirstRows(n, rows)) /\ Cardinality(FirstRows(n, rows)) \in Nat
    BY <1>1, FS_Subset, FS_CardinalityType
  <2>7. m <= Cardinality(FirstRows(n, rows)) /\ m \in Nat
    BY <2>1, <2>4, <2>5, <2>6, FS_Subset
  <2> QED BY <1>1, <1>3, <2>4, <2>6, <2>7
<1>4. ASSUME Cardinality(rows) <= n, NEW r \in rows PROVE r \in FirstRows(n, rows)
  <2>1. Ahead(rows, r) \subseteq rows /\ r \notin Ahead(rows, r)
    BY BeforeIsAnOrder DEF Ahead
  <2>2. Cardinality(rows) \in Nat /\ Cardinality(Ahead(rows, r)) \in Nat
    BY FewerAreAhead, FS_CardinalityType
  <2>3. Cardinality(Ahead(rows, r)) <= Cardinality(rows) /\ Cardinality(Ahead(rows, r)) # Cardinality(rows)
    BY <2>1, FS_Subset
  <2>4. Cardinality(Ahead(rows, r)) < n
    BY <1>4, <2>2, <2>3
  <2> QED BY <1>1, <2>4
<1> QED BY <1>1, <1>2, <1>3, <1>4

\* Of finitely many rows, one is the last.
LEMMA LastRowIsLast ==
  ASSUME NEW rows \in SUBSET Places, IsFiniteSet(rows), rows # {}
  PROVE  LastRow(rows) \in rows /\ \A q \in rows : q = LastRow(rows) \/ Before(q, LastRow(rows))
<1> DEFINE Left == {Cardinality(rows) - Cardinality(Ahead(rows, r)) : r \in rows}
<1>1. ASSUME NEW r \in rows
      PROVE  /\ Cardinality(rows) \in Nat /\ Cardinality(Ahead(rows, r)) \in Nat
             /\ Cardinality(Ahead(rows, r)) <= Cardinality(rows)
  <2>1. Ahead(rows, r) \subseteq rows
    BY DEF Ahead
  <2> QED BY <2>1, FewerAreAhead, FS_Subset, FS_CardinalityType
<1>2. Left \subseteq Nat /\ Left # {}
  BY <1>1
<1>3. PICK m \in Left : \A k \in Left : m <= k
  <2> HIDE DEF Left
  <2> QED BY <1>2, LeastExists
<1>4. PICK r \in rows : m = Cardinality(rows) - Cardinality(Ahead(rows, r))
  OBVIOUS
<1>5. ASSUME NEW q \in rows PROVE q = r \/ Before(q, r)
  <2>1. ~Before(r, q)
    <3>1. Before(r, q) => Cardinality(Ahead(rows, r)) < Cardinality(Ahead(rows, q))
      BY FewerAreAhead
    <3>2. m <= Cardinality(rows) - Cardinality(Ahead(rows, q))
      BY <1>3
    <3> QED BY <1>1, <1>4, <3>1, <3>2
  <2> QED BY <2>1, BeforeIsAnOrder
<1> QED BY <1>5 DEF LastRow

\* One page: the rows after the cursor that it does not show stand after the cursor it gives.
LEMMA PageSkipsNothing ==
  ASSUME NEW rows \in SUBSET Places, IsFiniteSet(rows), NEW cursor, NULL \notin Places,
         NEW fetched, fetched = Fetched(rows, cursor),
         NEW r \in AfterCursor(rows, cursor), r \notin Shown(fetched)
  PROVE  NextCursor(fetched) # NULL /\ Before(NextCursor(fetched), r)
<1>0. PICK rest, limit : rest = AfterCursor(rows, cursor) /\ limit = PageLimit
  OBVIOUS
<1>1. rest \in SUBSET Places /\ IsFiniteSet(rest) /\ limit \in Nat /\ limit + 1 \in Nat /\ limit # 0
  <2>1. rest \in SUBSET rows
    BY <1>0 DEF AfterCursor
  <2> QED BY <1>0, <2>1, FS_Subset, RegistryAssumption
<1>2. fetched = FirstRows(limit + 1, rest) /\ Shown(fetched) = FirstRows(limit, fetched)
  BY <1>0 DEF Fetched, Shown
<1>3. fetched \in SUBSET rest /\ fetched \in SUBSET Places /\ IsFiniteSet(fetched)
  BY <1>1, <1>2, FirstRowsAreFirst, FS_Subset
<1>4. Cardinality(fetched) \in Nat
  BY <1>3, FS_CardinalityType
<1>5. Cardinality(fetched) > limit
  <2>1. SUFFICES ASSUME Cardinality(fetched) <= limit PROVE FALSE
    BY <1>1, <1>4
  <2>2. Cardinality(fetched) < limit + 1
    BY <1>1, <1>4, <2>1
  <2>3. fetched = rest
    BY <1>1, <1>2, <2>2, FirstRowsAreFirst
  <2>4. Shown(fetched) = fetched
    BY <1>1, <1>2, <1>3, <2>1, FirstRowsAreFirst
  <2> QED BY <1>0, <2>3, <2>4
<1>6. Shown(fetched) \subseteq fetched /\ IsFiniteSet(Shown(fetched)) /\ Shown(fetched) # {}
  <2>1. Shown(fetched) \in SUBSET fetched
    BY <1>1, <1>2, <1>3, FirstRowsAreFirst
  <2>2. IsFiniteSet(Shown(fetched))
    BY <1>3, <2>1, FS_Subset
  <2>3. ASSUME Shown(fetched) = {} PROVE FALSE
    <3>1. Cardinality(Shown(fetched)) < limit
      BY <1>1, <2>3, FS_EmptySet
    <3>2. Shown(fetched) = fetched
      BY <1>1, <1>2, <1>3, <3>1, FirstRowsAreFirst
    <3> QED BY <1>1, <1>5, <2>3, <3>2, FS_EmptySet
  <2> QED BY <2>1, <2>2, <2>3
<1>7. PICK last : last = NextCursor(fetched) /\ last = LastRow(Shown(fetched))
  BY <1>0, <1>5 DEF NextCursor, LastShown
<1>8. last \in Shown(fetched) /\ last \in fetched /\ last \in Places /\ r \in rest /\ r \in Places
  BY <1>0, <1>1, <1>3, <1>6, <1>7, LastRowIsLast
<1>9. ~Before(r, last)
  <2>1. SUFFICES ASSUME Before(r, last) PROVE FALSE
    OBVIOUS
  <2>2. r \in fetched
    BY <1>1, <1>2, <1>8, <2>1, FirstRowsAreFirst
  <2>3. r \in Shown(fetched)
    BY <1>1, <1>2, <1>3, <1>8, <2>1, <2>2, FirstRowsAreFirst
  <2> QED BY <2>3
<1>10. Before(last, r) /\ last # NULL
  BY <1>8, <1>9, BeforeIsAnOrder
<1> QED BY <1>7, <1>10

\* No more rows than were asked for.
LEMMA FirstRowsAreFew ==
  ASSUME NEW rows \in SUBSET Places, IsFiniteSet(rows), NEW n \in Nat
  PROVE  /\ IsFiniteSet(FirstRows(n, rows)) /\ Cardinality(FirstRows(n, rows)) \in Nat
         /\ Cardinality(FirstRows(n, rows)) <= n
<1>1. PICK first : first = FirstRows(n, rows)
  OBVIOUS
<1>2. first = {r \in rows : Cardinality(Ahead(rows, r)) < n} /\ first \in SUBSET rows /\ first \in SUBSET Places
  BY <1>1 DEF FirstRows, Ahead
<1>3. IsFiniteSet(first) /\ Cardinality(first) \in Nat
  BY <1>2, FS_Subset, FS_CardinalityType
<1>4. CASE first = {}
  BY <1>1, <1>3, <1>4, FS_EmptySet
<1>5. CASE first # {}
  <2>1. PICK last : last \in first /\ \A q \in first : q = last \/ Before(q, last)
    BY <1>2, <1>3, <1>5, LastRowIsLast
  <2>2. Cardinality(Ahead(rows, last)) < n /\ Cardinality(Ahead(rows, last)) \in Nat /\ IsFiniteSet(Ahead(rows, last))
    <3>1. Ahead(rows, last) \in SUBSET rows
      BY DEF Ahead
    <3> QED BY <1>2, <2>1, <3>1, FS_Subset, FS_CardinalityType
  <2>3. first \ {last} \in SUBSET Ahead(rows, last)
    BY <1>2, <2>1 DEF Ahead
  <2>4. Cardinality(first \ {last}) <= Cardinality(Ahead(rows, last))
    BY <2>2, <2>3, FS_Subset
  <2>5. Cardinality(first \ {last}) = Cardinality(first) - 1
    BY <1>3, <2>1, FS_RemoveElement
  <2> QED BY <1>1, <1>3, <2>2, <2>4, <2>5
<1> QED BY <1>4, <1>5

\* One page: all it shows stands after the cursor, and one that says there is more is full and gives
\* its last row as the next cursor.
LEMMA PageGoesOn ==
  ASSUME NEW rows \in SUBSET Places, IsFiniteSet(rows), NEW cursor,
         NEW fetched, fetched = Fetched(rows, cursor)
  PROVE  /\ Shown(fetched) \in SUBSET AfterCursor(rows, cursor) /\ Shown(fetched) \in SUBSET Places
         /\ IsFiniteSet(Shown(fetched))
         /\ NextCursor(fetched) # NULL =>
              /\ NextCursor(fetched) \in Shown(fetched) /\ Cardinality(Shown(fetched)) = PageLimit
              /\ \A r \in Shown(fetched) : r = NextCursor(fetched) \/ Before(r, NextCursor(fetched))
<1>0. PICK rest, limit : rest = AfterCursor(rows, cursor) /\ limit = PageLimit
  OBVIOUS
<1>1. rest \in SUBSET Places /\ IsFiniteSet(rest) /\ limit \in Nat /\ limit + 1 \in Nat /\ limit # 0
  <2>1. rest \in SUBSET rows
    BY <1>0 DEF AfterCursor
  <2> QED BY <1>0, <2>1, FS_Subset, RegistryAssumption
<1>2. PICK shown : shown = Shown(fetched)
  OBVIOUS
<1>3. fetched = FirstRows(limit + 1, rest) /\ shown = FirstRows(limit, fetched)
  BY <1>0, <1>2 DEF Fetched, Shown
<1>4. fetched \in SUBSET rest /\ fetched \in SUBSET Places /\ IsFiniteSet(fetched) /\ Cardinality(fetched) \in Nat
  BY <1>1, <1>3, FirstRowsAreFirst, FS_Subset, FS_CardinalityType
<1>5. /\ shown \in SUBSET fetched /\ IsFiniteSet(shown) /\ Cardinality(shown) \in Nat /\ Cardinality(shown) <= limit
      /\ Cardinality(shown) < limit => shown = fetched
  BY <1>1, <1>3, <1>4, FirstRowsAreFirst, FirstRowsAreFew
<1>6. ASSUME NextCursor(fetched) # NULL
      PROVE  /\ NextCursor(fetched) \in shown /\ Cardinality(shown) = limit
             /\ \A r \in shown : r = NextCursor(fetched) \/ Before(r, NextCursor(fetched))
  <2>1. Cardinality(fetched) > limit /\ NextCursor(fetched) = LastRow(shown)
    BY <1>0, <1>2, <1>6 DEF NextCursor, LastShown
  <2>2. Cardinality(shown) = limit
    BY <1>1, <1>4, <1>5, <2>1
  <2>3. shown # {}
    BY <1>1, <2>2, FS_EmptySet
  <2> QED BY <1>4, <1>5, <2>1, <2>2, <2>3, LastRowIsLast
<1> QED BY <1>0, <1>2, <1>4, <1>5, <1>6

----------------------------------------------------------------------------
(* The listings. *)

LEMMA FiniteImage ==
  ASSUME NEW S, IsFiniteSet(S), NEW f
  PROVE  IsFiniteSet({f[x] : x \in S})
<1> DEFINE T == {f[x] : x \in S}
           g == [x \in S |-> f[x]]
<1>1. g \in Surjection(S, T)
  BY DEF Surjection
<1> HIDE DEF g, T
<1>2. IsFiniteSet(T)
  BY <1>1, FS_Surjection
<1> QED BY <1>2 DEF T

Listing(c) == c.tool \in {"list_accounts", "list_obligations", "list_proposals"}

\* A listing has finitely many rows, each in a place of its own.
LEMMA RowsHavePlaces ==
  ASSUME RInv, NEW c, Listing(c)
  PROVE  Rows(c) \in SUBSET Places /\ IsFiniteSet(Rows(c))
<1>1. AccountRows \in SUBSET Places /\ IsFiniteSet(AccountRows)
  <2> DEFINE A == {a \in AccountIds : AccountExists(a)}
             f == [a \in AccountIds |-> <<accounts[a].code, a>>]
  <2>1. accounts \in Tables
    BY DEF RInv, AInv
  <2>2. ASSUME NEW a \in A PROVE accounts[a].code \in Int /\ a \in Int /\ f[a] = <<accounts[a].code, a>>
    BY <2>1, RegistryAssumption DEF Tables, StoredAccount, AccountExists
  <2>3. A \in SUBSET AccountIds /\ IsFiniteSet(A)
    <3>1. A \in SUBSET AccountIds
      OBVIOUS
    <3> QED BY <3>1, RegistryAssumption, FS_Subset
  <2>4. AccountRows = {f[a] : a \in A}
    BY <2>2 DEF AccountRows
  <2>5. \A a \in A : f[a] \in Places
    BY <2>2 DEF Places
  <2> HIDE DEF A, f
  <2> QED BY <2>3, <2>4, <2>5, FiniteImage
<1>2. ASSUME NEW filter
      PROVE  ObligationRows(filter) \in SUBSET Places /\ IsFiniteSet(ObligationRows(filter))
  <2> DEFINE K == {k \in ObligationKeys : obligations[k] # NULL /\ (filter => obligations[k].active)}
             f == [k \in ObligationKeys |-> <<obligations[k].due, obligations[k].id>>]
  <2>1. TableOf(ObligationKeys, StoredObligation, obligations)
    BY DEF RInv, ObligationsFit
  <2>2. ASSUME NEW k \in K
        PROVE  /\ obligations[k].due \in Int /\ obligations[k].id \in Int
               /\ f[k] = <<obligations[k].due, obligations[k].id>>
    <3>1. obligations[k] \in StoredObligation
      BY <2>1 DEF TableOf
    <3> QED BY <3>1 DEF StoredObligation
  <2>3. IsFiniteSet(K)
    <3>1. K \in SUBSET Existing(obligations)
      BY <2>1 DEF TableOf, Existing
    <3> QED BY <2>1, <3>1, FS_Subset DEF TableOf
  <2>4. ObligationRows(filter) = {f[k] : k \in K}
    BY <2>2 DEF ObligationRows
  <2>5. \A k \in K : f[k] \in Places
    BY <2>2 DEF Places
  <2> HIDE DEF K, f
  <2> QED BY <2>3, <2>4, <2>5, FiniteImage
<1>3. ASSUME NEW filter
      PROVE  ProposalRows(filter) \in SUBSET Places /\ IsFiniteSet(ProposalRows(filter))
  <2> DEFINE K == {k \in ChangeKeys : changes[k] # NULL /\ (filter # NULL => changes[k].status = filter)}
             f == [k \in ChangeKeys |-> <<0 - changes[k].created, changes[k].id>>]
  <2>1. TableOf(ChangeKeys, StoredChange, changes)
    BY DEF RInv, ChangesFit
  <2>2. ASSUME NEW k \in K
        PROVE  /\ 0 - changes[k].created \in Int /\ changes[k].id \in Int
               /\ f[k] = <<0 - changes[k].created, changes[k].id>>
    <3>1. changes[k] \in StoredChange
      BY <2>1 DEF TableOf
    <3>2. changes[k].id \in Int /\ changes[k].created \in Nat
      <4>1. changes[k].id \in ChangeIds /\ changes[k].created \in Nat
        BY <3>1 DEF StoredChange
      <4>2. \A id \in ChangeIds : id \in Int
        BY RegistryAssumption
      <4> QED BY <4>1, <4>2
    <3>3. 0 - changes[k].created \in Int
      BY <3>2
    <3> QED BY <3>2, <3>3
  <2>3. IsFiniteSet(K)
    <3>1. K \in SUBSET Existing(changes)
      BY <2>1 DEF TableOf, Existing
    <3> QED BY <2>1, <3>1, FS_Subset DEF TableOf
  <2>4. ProposalRows(filter) = {f[k] : k \in K}
    BY <2>2 DEF ProposalRows
  <2>5. \A k \in K : f[k] \in Places
    BY <2>2 DEF Places
  <2> HIDE DEF K, f
  <2> QED BY <2>3, <2>4, <2>5, FiniteImage
<1> QED BY <1>1, <1>2, <1>3 DEF Rows, Listing

\* All that a walk has got stands before its cursor, the last row it got.
UpToCursor(cursor, got) ==
  /\ IsFiniteSet(got) /\ got \in SUBSET Places /\ cursor \in got
  /\ \A r \in got : r = cursor \/ Before(r, cursor)

\* Where a walk stands: its listing, and nothing behind its cursor that it has not got.
Passed(held, r) == ~(held.cursor # NULL /\ Before(held.cursor, r))
WalkIsWhole(s) ==
  /\ pc[s] \in {"page", "listed"} => \A r \in seen[s].stayed : Passed(seen[s], r) => r \in seen[s].got
  /\ pc[s] = "page" => Listing(arg[s]) /\ UpToCursor(seen[s].cursor, seen[s].got)

WalkInv == RInv /\ \A s \in Sessions : WalkIsWhole(s)

\* A page keeps a walk whole that has got what stands before its cursor.
LEMMA PageKeepsWalk ==
  ASSUME RInv, NEW c, Listing(c), NEW cursor, NEW got, NEW stayed,
         \A r \in stayed \cap Rows(c) : r \in AfterCursor(Rows(c), cursor) \/ r \in got,
         NEW held, held = AfterPage(c, cursor, got, stayed)
  PROVE  \A r \in held.stayed : Passed(held, r) => r \in held.got
<1>1. PICK fetched : fetched = Fetched(Rows(c), cursor)
  OBVIOUS
<1>2. /\ held.cursor = NextCursor(fetched) /\ held.got = got \union Shown(fetched)
      /\ held.stayed = stayed \intersect Rows(c)
  BY <1>1 DEF AfterPage
<1>3. Rows(c) \in SUBSET Places /\ IsFiniteSet(Rows(c)) /\ NULL \notin Places
  BY RowsHavePlaces, NullAssumption DEF Places
<1>4. ASSUME NEW r \in held.stayed, Passed(held, r), r \notin held.got PROVE FALSE
  <2>1. r \in AfterCursor(Rows(c), cursor) /\ r \notin Shown(fetched)
    BY <1>2, <1>4
  <2>2. NextCursor(fetched) # NULL /\ Before(NextCursor(fetched), r)
    BY <1>1, <1>3, <2>1, PageSkipsNothing
  <2> QED BY <1>2, <1>4, <2>2 DEF Passed
<1> QED BY <1>4

\* A page shows nothing that was shown before, and one that is not the last moves the cursor on over
\* as many rows as a page holds.
LEMMA PageAdvances ==
  ASSUME RInv, NEW c, Listing(c), NEW cursor, NEW got, NEW stayed,
         (cursor = NULL /\ got = {}) \/ UpToCursor(cursor, got),
         NEW held, held = AfterPage(c, cursor, got, stayed)
  PROVE  /\ Shown(Fetched(Rows(c), cursor)) \intersect got = {}
         /\ held.cursor # NULL =>
              /\ UpToCursor(held.cursor, held.got)
              /\ cursor # NULL => Before(cursor, held.cursor)
              /\ Cardinality(held.got) = Cardinality(got) + PageLimit
<1>1. PICK fetched, shown : fetched = Fetched(Rows(c), cursor) /\ shown = Shown(fetched)
  OBVIOUS
<1>2. held.cursor = NextCursor(fetched) /\ held.got = got \union shown
  BY <1>1 DEF AfterPage
<1>3. Rows(c) \in SUBSET Places /\ IsFiniteSet(Rows(c)) /\ NULL \notin Places
  BY RowsHavePlaces, NullAssumption DEF Places
<1>4. /\ shown \in SUBSET AfterCursor(Rows(c), cursor) /\ shown \in SUBSET Places /\ IsFiniteSet(shown)
      /\ NextCursor(fetched) # NULL =>
           /\ NextCursor(fetched) \in shown /\ Cardinality(shown) = PageLimit
           /\ \A r \in shown : r = NextCursor(fetched) \/ Before(r, NextCursor(fetched))
  BY <1>1, <1>3, PageGoesOn
<1>5. \A r \in shown : cursor = NULL \/ Before(cursor, r)
  BY <1>4 DEF AfterCursor
<1>6. IsFiniteSet(got) /\ got \in SUBSET Places /\ Cardinality(got) \in Nat
  BY FS_EmptySet, FS_CardinalityType DEF UpToCursor
<1>7. cursor # NULL => cursor \in Places /\ \A r \in got : r = cursor \/ Before(r, cursor)
  BY DEF UpToCursor
<1>8. shown \intersect got = {}
  <2>1. SUFFICES ASSUME NEW r \in shown, r \in got PROVE FALSE
    OBVIOUS
  <2>2. cursor # NULL
    BY <1>3, <2>1 DEF UpToCursor
  <2>3. Before(cursor, r) /\ (r = cursor \/ Before(r, cursor)) /\ r \in Places /\ cursor \in Places
    BY <1>4, <1>5, <1>7, <2>1, <2>2
  <2> QED BY <2>3, BeforeIsAnOrder
<1>9. ASSUME held.cursor # NULL
      PROVE  /\ UpToCursor(held.cursor, held.got)
             /\ cursor # NULL => Before(cursor, held.cursor)
             /\ Cardinality(held.got) = Cardinality(got) + PageLimit
  <2>1. PICK next : next = held.cursor
    OBVIOUS
  <2>2. /\ next \in shown /\ next \in Places /\ Cardinality(shown) = PageLimit
        /\ \A r \in shown : r = next \/ Before(r, next)
    BY <1>2, <1>4, <1>9, <2>1
  <2>3. cursor # NULL => Before(cursor, next)
    BY <1>5, <2>2
  <2>4. IsFiniteSet(got \union shown) /\ got \union shown \in SUBSET Places
    BY <1>4, <1>6, FS_Union
  <2>5. \A r \in got : Before(r, next)
    <3>1. ASSUME NEW r \in got PROVE Before(r, next)
      <4>1. cursor # NULL
        BY <1>3, <3>1 DEF UpToCursor
      <4>2. Before(cursor, next) /\ (r = cursor \/ Before(r, cursor)) /\ r \in Places /\ cursor \in Places
        BY <1>6, <1>7, <2>3, <3>1, <4>1
      <4> QED BY <2>2, <4>2, BeforeIsAnOrder
    <3> QED BY <3>1
  <2>6. Cardinality(got \union shown) = Cardinality(got) + PageLimit
    <3>1. got \intersect shown = {}
      BY <1>8
    <3>2. Cardinality(got \union shown) = Cardinality(got) + Cardinality(shown) - Cardinality(got \intersect shown)
      BY <1>4, <1>6, FS_Union
    <3>3. Cardinality(got \intersect shown) = 0 /\ PageLimit \in Nat
      BY <3>1, FS_EmptySet, RegistryAssumption
    <3> QED BY <1>6, <2>2, <3>2, <3>3
  <2> QED BY <1>2, <2>1, <2>2, <2>3, <2>4, <2>5, <2>6 DEF UpToCursor
<1> QED BY <1>1, <1>8, <1>9

LEMMA OthersWalkOn ==
  ASSUME NEW o, WalkIsWhole(o), pc'[o] = pc[o], arg'[o] = arg[o], seen'[o] = seen[o]
  PROVE  WalkIsWhole(o)'
BY DEF WalkIsWhole, Passed, Listing, UpToCursor

LEMMA OneWalks ==
  ASSUME WalkInv, RInv', NEW s \in Sessions, Alone(s), WalkIsWhole(s)'
  PROVE  WalkInv'
<1>1. ASSUME NEW o \in Sessions PROVE WalkIsWhole(o)'
  <2>1. CASE o = s
    BY <2>1
  <2>2. CASE o # s
    BY <2>2, OthersWalkOn DEF Alone, WalkInv
  <2> QED BY <2>1, <2>2
<1> QED BY <1>1 DEF WalkInv

\* A session that is not on a walk after a step has no walk to keep.
LEMMA NoWalk ==
  ASSUME NEW s, pc'[s] \notin {"page", "listed"}
  PROVE  WalkIsWhole(s)'
BY DEF WalkIsWhole

LEMMA PageRead ==
  ASSUME WalkInv, RInv', NEW s \in Sessions, NEW c, Listing(c), NEW held,
         \A r \in held.stayed : Passed(held, r) => r \in held.got,
         held.cursor # NULL => UpToCursor(held.cursor, held.got),
         Reads(s, c, PageStep(held), held)
  PROVE  WalkInv'
<1>1. Alone(s) /\ pc'[s] = PageStep(held) /\ arg'[s] = c /\ seen'[s] = held
  BY ReadsMoves DEF WalkInv, RInv, AInv
<1>2. WalkIsWhole(s)'
  BY <1>1 DEF WalkIsWhole, Passed, Listing, PageStep, UpToCursor
<1> QED BY <1>1, <1>2, OneWalks

LEMMA ListingStepKeepsWalks ==
  ASSUME WalkInv, RInv', NEW s \in Sessions, ListingStep(s)
  PROVE  WalkInv'
<1>1. ASSUME NEW c \in work.calls, ListStarts(s, c) PROVE WalkInv'
  <2>1. PICK held : held = AfterPage(c, NULL, {}, Rows(c))
    OBVIOUS
  <2>2. Reads(s, c, PageStep(held), held) /\ Listing(c)
    BY <1>1, <2>1 DEF ListStarts, Listing
  <2>3. \A r \in Rows(c) \cap Rows(c) : r \in AfterCursor(Rows(c), NULL) \/ r \in {}
    BY DEF AfterCursor
  <2>4. \A r \in held.stayed : Passed(held, r) => r \in held.got
    <3>1. RInv
      BY DEF WalkInv
    <3> QED BY <2>1, <2>2, <2>3, <3>1, PageKeepsWalk
  <2>5. held.cursor # NULL => UpToCursor(held.cursor, held.got)
    BY <2>1, <2>2, PageAdvances DEF WalkInv
  <2> QED BY <2>2, <2>4, <2>5, PageRead
<1>2. CASE ListContinues(s)
  <2>1. PICK c, cursor, got, stayed :
          c = arg[s] /\ cursor = seen[s].cursor /\ got = seen[s].got /\ stayed = seen[s].stayed
    OBVIOUS
  <2>2. PICK held : held = AfterPage(c, cursor, got, stayed)
    OBVIOUS
  <2>3. pc[s] = "page" /\ Reads(s, c, PageStep(held), held)
    BY <1>2, <2>1, <2>2 DEF ListContinues, At
  <2>4. Listing(c) /\ \A r \in stayed : ~(cursor # NULL /\ Before(cursor, r)) => r \in got
    BY <2>1, <2>3 DEF WalkInv, WalkIsWhole, Passed
  <2>5. \A r \in stayed \cap Rows(c) : r \in AfterCursor(Rows(c), cursor) \/ r \in got
    BY <2>4 DEF AfterCursor
  <2>6. \A r \in held.stayed : Passed(held, r) => r \in held.got
    <3>1. RInv
      BY DEF WalkInv
    <3> QED BY <2>2, <2>4, <2>5, <3>1, PageKeepsWalk
  <2>7. UpToCursor(cursor, got)
    BY <2>1, <2>3 DEF WalkInv, WalkIsWhole
  <2>8. held.cursor # NULL => UpToCursor(held.cursor, held.got)
    BY <2>2, <2>4, <2>7, PageAdvances DEF WalkInv
  <2> QED BY <2>3, <2>4, <2>6, <2>8, PageRead
<1>3. CASE ListEnds(s)
  <2>1. Alone(s) /\ pc'[s] = "idle"
    BY <1>3, FailsMoves DEF ListEnds, WalkInv, RInv, AInv
  <2> QED BY <2>1, NoWalk, OneWalks
<1> QED BY <1>1, <1>2, <1>3 DEF ListingStep

\* No other step puts a session on a walk.
LEMMA OtherReadsWalkOn ==
  ASSUME WalkInv, RInv', NEW s \in Sessions, NEW c, NEW step, NEW value, Reads(s, c, step, value),
         step \notin {"page", "listed"}
  PROVE  WalkInv'
<1>1. Alone(s) /\ pc'[s] = step
  BY ReadsMoves DEF WalkInv, RInv, AInv
<1> QED BY <1>1, NoWalk, OneWalks

LEMMA EndsWalkOn ==
  ASSUME WalkInv, RInv', NEW s \in Sessions, Ends(s)
  PROVE  WalkInv'
<1>1. Alone(s) /\ pc'[s] = "idle"
  BY EndsMoves DEF WalkInv, RInv, AInv
<1> QED BY <1>1, NoWalk, OneWalks

LEMMA StillWalks ==
  ASSUME WalkInv, RInv', UNCHANGED <<pc, arg, seen>>
  PROVE  WalkInv'
BY OthersWalkOn DEF WalkInv

LEMMA OtherStepsWalkOn ==
  ASSUME WalkInv, RInv', NEW s \in Sessions,
         RegistryStep(s) \/ ImportStep(s) \/ ObligationStep(s) \/ ConfigStep(s) \/ Rollback(s)
  PROVE  WalkInv'
<1>1. CASE RegistryStep(s)
  <2>1. ASSUME NEW c \in work.calls, CreateReads(s, c) \/ MetadataReads(s, c) \/ ProfileReads(s, c)
        PROVE  WalkInv'
    BY <2>1, OtherReadsWalkOn DEF CreateReads, MetadataReads, ProfileReads
  <2>2. ASSUME NEW c \in work.calls, ProfileReplays(s, c) PROVE WalkInv'
    BY <2>2, StillWalks DEF ProfileReplays
  <2>3. ASSUME \/ CreateInserts(s) \/ CreateFails(s) \/ MetadataWrites(s)
               \/ ProfileConflict(s) \/ ProfileWrites(s) \/ ProfileFails(s)
        PROVE  WalkInv'
    BY <2>3, EndsWalkOn DEF CreateInserts, CreateFails, MetadataWrites, ProfileConflict, ProfileWrites,
                            ProfileFails, Fails
  <2> QED BY <1>1, <2>1, <2>2, <2>3 DEF RegistryStep
<1>2. CASE ImportStep(s)
  <2>1. ASSUME NEW c \in work.calls, ImportReads(s, c) PROVE WalkInv'
    BY <2>1, OtherReadsWalkOn DEF ImportReads
  <2>2. CASE ImportSkips(s) \/ ImportDecides(s)
    <3>1. /\ UNCHANGED <<work, arg>> /\ \E value : seen' = [seen EXCEPT ![s] = value]
          /\ pc' = pc \/ pc' = [pc EXCEPT ![s] = "import_write"]
          /\ pc[s] = "import"
      BY <2>2 DEF ImportSkips, ImportDecides, ImportMore, At
    <3>2. SessionsExist
      BY DEF WalkInv, RInv, AInv
    <3>3. Alone(s) /\ pc'[s] \in {"import", "import_write"}
      BY <3>1, <3>2 DEF Alone, SessionsExist
    <3> QED BY <3>3, NoWalk, OneWalks
  <2>3. ASSUME ImportWrites(s) \/ ImportFails(s) \/ ImportEnds(s) PROVE WalkInv'
    BY <2>3, EndsWalkOn DEF ImportWrites, ImportFails, ImportEnds, Fails
  <2> QED BY <1>2, <2>1, <2>2, <2>3 DEF ImportStep
<1>3. CASE ObligationStep(s)
  <2>1. ASSUME NEW c \in work.calls, ObligationReads(s, c) \/ FulfilReads(s, c) \/ SnapshotReads(s, c)
        PROVE  WalkInv'
    <3>1. \E step : step \notin {"page", "listed"} /\ Reads(s, c, step, NULL)
      BY <2>1 DEF ObligationReads, FulfilReads, SnapshotReads
    <3> QED BY <3>1, OtherReadsWalkOn
  <2>2. ASSUME NEW c \in work.calls, FulfilReplays(s, c) PROVE WalkInv'
    BY <2>2, StillWalks DEF FulfilReplays
  <2>3. ASSUME \/ ObligationInserts(s) \/ ObligationFails(s) \/ ObligationUpdates(s) \/ FulfilWrites(s)
               \/ SnapshotInserts(s) \/ SnapshotFails(s) \/ SnapshotUpdates(s)
        PROVE  WalkInv'
    BY <2>3, EndsWalkOn DEF ObligationInserts, ObligationFails, ObligationUpdates, FulfilWrites,
                            SnapshotInserts, SnapshotFails, SnapshotUpdates, Fails
  <2> QED BY <1>3, <2>1, <2>2, <2>3 DEF ObligationStep
<1>4. CASE ConfigStep(s)
  <2>1. ASSUME NEW c \in work.calls, ProposeReads(s, c) \/ ApproveReads(s, c) \/ RejectReads(s, c)
        PROVE  WalkInv'
    BY <2>1, OtherReadsWalkOn DEF ProposeReads, ApproveReads, RejectReads
  <2>2. ASSUME NEW c \in work.calls, ProposeReplays(s, c) \/ ApproveReplays(s, c) \/ RejectReplays(s, c)
        PROVE  WalkInv'
    BY <2>2, StillWalks DEF ProposeReplays, ApproveReplays, RejectReplays
  <2>3. CASE ApproverReads(s)
    <3>1. \E step : step \notin {"page", "listed"} /\ Reads(s, arg[s], step, NULL)
      BY <2>3 DEF ApproverReads
    <3> QED BY <3>1, OtherReadsWalkOn
  <2>4. ASSUME \/ ProposeInserts(s) \/ ProposeFails(s) \/ ApplyChange(s) \/ ApplyAgain(s) \/ ApplyFails(s)
               \/ RejectChange(s) \/ RejectFails(s)
        PROVE  WalkInv'
    BY <2>4, EndsWalkOn DEF ProposeInserts, ProposeFails, ApplyChange, ApplyAgain, ApplyFails, Applies,
                            RejectChange, RejectFails, Fails
  <2> QED BY <1>4, <2>1, <2>2, <2>3, <2>4 DEF ConfigStep
<1>5. CASE Rollback(s)
  BY <1>5, EndsWalkOn DEF Rollback, Fails
<1> QED BY <1>1, <1>2, <1>3, <1>4, <1>5

LEMMA WalkInvNext == WalkInv /\ [Next]_vars => WalkInv'
<1> SUFFICES ASSUME WalkInv, [Next]_vars PROVE WalkInv'
  OBVIOUS
<1>1. RInv'
  BY RInvNext DEF WalkInv
<1>2. ASSUME NEW s \in Sessions, Step(s) PROVE WalkInv'
  BY <1>1, <1>2, ListingStepKeepsWalks, OtherStepsWalkOn DEF Step
<1>3. CASE UNCHANGED vars
  BY <1>1, <1>3, StillWalks DEF vars
<1> QED BY <1>2, <1>3 DEF Next

LEMMA WalkInvariance == Spec => []WalkInv
<1>1. Init => WalkInv
  <2>1. ASSUME Init, NEW s \in Sessions PROVE WalkIsWhole(s)
    BY <2>1 DEF Init, WalkIsWhole
  <2> QED BY <2>1, RInvInit DEF WalkInv
<1> QED BY <1>1, WalkInvNext, PTL DEF Spec

\* A client that follows the cursors of a listing gets every row that stayed in its place, whatever
\* other calls insert, move and withdraw between two pages, for any page limit and any sort keys.
THEOREM WalksMissNothingHolds == Spec => []WalksMissNothing
<1>1. WalkInv => WalksMissNothing
  BY DEF WalkInv, WalkIsWhole, Passed, WalksMissNothing
<1> QED BY <1>1, WalkInvariance, PTL

\* The next page of a walk shows no row that the client has got in that place, and leaves it at the
\* end, or with a cursor further on and a full page more: a walk that goes on does so for rows it had
\* not got, also while other calls insert and move rows (domain/query).
GoesOn(s) ==
  ListContinues(s) =>
    /\ Shown(Fetched(Rows(arg[s]), seen[s].cursor)) \intersect seen[s].got = {}
    /\ pc'[s] = "page" =>
         /\ Before(seen[s].cursor, seen'[s].cursor)
         /\ Cardinality(seen'[s].got) = Cardinality(seen[s].got) + PageLimit
WalksGoForward == [][\A s \in Sessions : GoesOn(s)]_vars

LEMMA WalkGoesOn ==
  ASSUME WalkInv, NEW s \in Sessions, ListContinues(s)
  PROVE  GoesOn(s)
<1>1. PICK c, cursor, got, stayed :
        c = arg[s] /\ cursor = seen[s].cursor /\ got = seen[s].got /\ stayed = seen[s].stayed
  OBVIOUS
<1>2. PICK held : held = AfterPage(c, cursor, got, stayed)
  OBVIOUS
<1>3. pc[s] = "page" /\ Reads(s, c, PageStep(held), held)
  BY <1>1, <1>2 DEF ListContinues, At
<1>4. RInv /\ Listing(c) /\ UpToCursor(cursor, got)
  BY <1>1, <1>3 DEF WalkInv, WalkIsWhole
<1>5. cursor # NULL
  BY <1>4, NullAssumption DEF UpToCursor, Places
<1>6. pc'[s] = PageStep(held) /\ seen'[s] = held
  BY <1>3, <1>4, ReadsMoves DEF RInv, AInv
<1>7. /\ Shown(Fetched(Rows(c), cursor)) \intersect got = {}
      /\ held.cursor # NULL =>
           /\ cursor # NULL => Before(cursor, held.cursor)
           /\ Cardinality(held.got) = Cardinality(got) + PageLimit
  BY <1>2, <1>4, PageAdvances
<1> QED BY <1>1, <1>5, <1>6, <1>7 DEF GoesOn, PageStep

\* Walks go forward, one full page at a time and without a row twice, whatever other calls do.
THEOREM WalksGoForwardHolds == Spec => WalksGoForward
<1>1. WalkInv /\ [Next]_vars => \A s \in Sessions : GoesOn(s)
  BY WalkGoesOn DEF GoesOn
<1> QED BY <1>1, WalkInvariance, PTL DEF Spec, WalksGoForward

----------------------------------------------------------------------------
(* What clients are told, and KeyedAnswers. *)

\* The answers that stand in a table, for the keys K, and a table in which only key k has got a new
\* row, which answers a as the one before it did, if there was one.
SameIds(table, new, K) == \A x \in K : IdIn(new, x) = IdIn(table, x)
AnswersFor(table, new, K, k, a) ==
  /\ k \in K /\ IdIn(new, k) = a /\ IdIn(table, k) \in {NULL, a}
  /\ SameIds(table, new, K \ {k})
ResponsesFor(k, a) ==
  /\ k \in ProfileKeys /\ profiles'[k] = a /\ profiles[k] \in {NULL, a}
  /\ \A x \in ProfileKeys \ {k} : profiles'[x] = profiles[x]

LEMMA RowWritten ==
  ASSUME NEW K, NEW S, NULL \notin S, NEW table, TableOf(K, S, table), NEW k \in K, NEW row \in S,
         NEW new, new = [table EXCEPT ![k] = row], k \in Existing(table) => table[k].id = row.id
  PROVE  /\ AnswersFor(table, new, K, k, row.id)
         /\ k \in Existing(table) => SameIds(table, new, K)
<1>1. new[k] = row /\ row # NULL /\ \A x \in K : x # k => new[x] = table[x]
  BY DEF TableOf
<1>2. IdIn(new, k) = row.id /\ IdIn(table, k) \in {NULL, row.id}
  BY <1>1 DEF IdIn, Existing, TableOf
<1>3. \A x \in K : x # k => IdIn(new, x) = IdIn(table, x)
  BY <1>1 DEF IdIn
<1>4. k \in Existing(table) => IdIn(new, k) = IdIn(table, k)
  BY <1>1 DEF IdIn, Existing, TableOf
<1> QED BY <1>2, <1>3, <1>4 DEF AnswersFor, SameIds

\* The two effects of a step on the answers: it tells nobody anything and leaves them all alone, or
\* it tells the client of call c the answer a, which stands from then on in the row of its key.
Mute ==
  /\ told' = told /\ profiles' = profiles
  /\ SameIds(obligations, obligations', ObligationKeys)
  /\ SameIds(snapshots, snapshots', SnapshotKeys)
  /\ SameIds(changes, changes', ChangeKeys)
Speaks(c, a) ==
  /\ told' = told \union {[call |-> c, answer |-> a]} /\ a # NULL
  /\ \/ /\ c.tool = "update_account_profile" /\ ResponsesFor(c.key, a)
        /\ UNCHANGED <<obligations, snapshots, changes>>
     \/ /\ c.tool = "create_or_update_obligation" /\ AnswersFor(obligations, obligations', ObligationKeys, c.key, a)
        /\ UNCHANGED <<profiles, snapshots, changes>>
     \/ /\ c.tool = "record_balance_snapshot" /\ AnswersFor(snapshots, snapshots', SnapshotKeys, c.key, a)
        /\ UNCHANGED <<profiles, obligations, changes>>
     \/ /\ c.tool = "propose_config_change" /\ AnswersFor(changes, changes', ChangeKeys, c.key, a)
        /\ UNCHANGED <<profiles, obligations, snapshots>>
SpeaksOrMute == Mute \/ \E c, a : Speaks(c, a)

LEMMA NothingWritten ==
  ASSUME UNCHANGED <<profiles, obligations, snapshots, changes, told>>
  PROVE  Mute
BY DEF Mute, SameIds, IdIn

\* An id that stands in a table is an answer.
LEMMA IdsAreAnswers ==
  ASSUME RInv
  PROVE  /\ \A k \in Existing(obligations) : obligations[k] \in StoredObligation /\ obligations[k].id # NULL
         /\ \A k \in Existing(snapshots) : snapshots[k] \in StoredSnapshot /\ snapshots[k].id # NULL
         /\ \A k \in Existing(changes) : changes[k] \in StoredChange /\ changes[k].id # NULL
         /\ \A k \in Existing(profiles) : profiles[k] \in StoredResponse /\ profiles[k] # NULL
<1>1. NULL \notin Nat /\ ChangeIds \subseteq Nat
  BY NullAssumption, RegistryAssumption
<1>2. \A k \in Existing(obligations) : obligations[k] \in StoredObligation
  BY DEF RInv, ObligationsFit, TableOf, Existing
<1>3. \A k \in Existing(snapshots) : snapshots[k] \in StoredSnapshot
  BY DEF RInv, SnapshotsFit, TableOf, Existing
<1>4. \A k \in Existing(changes) : changes[k] \in StoredChange
  BY DEF RInv, ChangesFit, TableOf, Existing
<1>5. \A k \in Existing(profiles) : profiles[k] \in StoredResponse /\ profiles[k] # NULL
  BY DEF RInv, ProfilesFit, TableOf, Existing
<1>6. (\A row \in StoredObligation : row.id # NULL) /\ \A row \in StoredSnapshot : row.id # NULL
  BY <1>1 DEF StoredObligation, StoredSnapshot
<1>7. \A row \in StoredChange : row.id # NULL
  BY <1>1 DEF StoredChange
<1> QED BY <1>2, <1>3, <1>4, <1>5, <1>6, <1>7

----------------------------------------------------------------------------
(* Who speaks. *)

LEMMA ProfileCallsSpeak ==
  ASSUME RInv, NEW s \in Sessions, NEW c, c.tool = "update_account_profile", c.key \in ProfileKeys,
         UNCHANGED <<obligations, snapshots, changes>>,
         NEW a, told' = told \union {[call |-> c, answer |-> a]},
         \/ profiles' = profiles /\ c.key \in Existing(profiles) /\ a = profiles[c.key]
         \/ profiles[c.key] = NULL /\ a \in StoredResponse /\ profiles' = [profiles EXCEPT ![c.key] = a]
  PROVE  SpeaksOrMute
<1>1. TableOf(ProfileKeys, StoredResponse, profiles) /\ NULL \notin StoredResponse
  BY NullAssumption DEF RInv, ProfilesFit
<1>2. a # NULL /\ ResponsesFor(c.key, a)
  BY <1>1, IdsAreAnswers DEF TableOf, ResponsesFor
<1> QED BY <1>2 DEF SpeaksOrMute, Speaks

LEMMA RegistryStepSpeaks ==
  ASSUME RInv, NEW s \in Sessions, RegistryStep(s)
  PROVE  SpeaksOrMute
<1>1. ASSUME NEW c \in work.calls, CreateReads(s, c) \/ MetadataReads(s, c) \/ ProfileReads(s, c) PROVE Mute
  BY <1>1, NothingWritten DEF CreateReads, MetadataReads, ProfileReads, Reads, tables
<1>2. ASSUME NEW c \in work.calls, ProfileReplays(s, c) PROVE SpeaksOrMute
  <2>1. c.tool = "update_account_profile" /\ c \in CallsOf(c.tool) /\ profiles[c.key] # NULL
    BY <1>2, CallsFit DEF ProfileReplays, Starts, RInv, AInv
  <2>2. c.key \in ProfileKeys /\ c.key \in Existing(profiles)
    BY <2>1 DEF ProfileKeys, RInv, ProfilesFit, TableOf, Existing
  <2>3. PICK a : a = profiles[c.key]
    OBVIOUS
  <2>4. told' = told \union {[call |-> c, answer |-> a]} /\ UNCHANGED <<profiles, obligations, snapshots, changes>>
    BY <1>2, <2>3 DEF ProfileReplays, Tells, accountTables, OnlyAccounts
  <2> QED BY <2>1, <2>2, <2>3, <2>4, ProfileCallsSpeak
<1>3. CASE ProfileConflict(s) \/ ProfileWrites(s)
  <2>1. PICK c : c = arg[s]
    OBVIOUS
  <2>2. pc[s] = "profile"
    BY <1>3 DEF ProfileConflict, ProfileWrites, At
  <2>3. c.tool = "update_account_profile"
    BY <2>1, <2>2 DEF RInv, AInv, CallIsPlaced
  <2>4. c.key \in ProfileKeys
    BY <2>1, <2>2, <2>3, CallInFlight DEF ProfileKeys
  <2>5. CASE ProfileConflict(s)
    <3>1. PICK a : a = profiles[c.key]
      OBVIOUS
    <3>2. /\ told' = told \union {[call |-> c, answer |-> a]} /\ a # NULL
          /\ UNCHANGED <<profiles, obligations, snapshots, changes>>
      BY <2>1, <2>5, <3>1 DEF ProfileConflict, KeyTaken, Tells, accountTables, OnlyAccounts
    <3>3. c.key \in Existing(profiles)
      BY <2>4, <3>1, <3>2 DEF RInv, ProfilesFit, TableOf, Existing
    <3> QED BY <2>3, <2>4, <3>1, <3>2, <3>3, ProfileCallsSpeak
  <2>6. CASE ProfileWrites(s)
    <3>1. PICK account, meta, name, a :
            /\ account = c.account /\ meta = ProfileMeta(account, c) /\ name = ProfileName(account, c)
            /\ a = [account |-> account, name |-> name, suffix |-> meta["institution_suffix"]]
      OBVIOUS
    <3>2. /\ profiles[c.key] = NULL /\ AccountExists(account)
          /\ profiles' = [profiles EXCEPT ![c.key] = a]
          /\ told' = told \union {[call |-> c, answer |-> a]} /\ UNCHANGED <<obligations, snapshots, changes>>
      BY <2>1, <2>6, <3>1 DEF ProfileWrites, KeyTaken, Tells, OnlyAccounts
    <3>3. account \in AccountIds /\ meta \in [MetaKeys -> OptionalText] /\ name \in Texts
      BY <2>1, <2>2, <3>1, <3>2, ProfileIsSound DEF RInv
    <3>4. meta["institution_suffix"] \in OptionalText
      BY <3>3, RegistryAssumption
    <3>5. a \in StoredResponse
      BY <3>1, <3>3, <3>4 DEF StoredResponse
    <3> QED BY <2>3, <2>4, <3>2, <3>5, ProfileCallsSpeak
  <2> QED BY <1>3, <2>5, <2>6
<1>4. CASE CreateInserts(s) \/ MetadataWrites(s)
  BY <1>4, NothingWritten DEF CreateInserts, MetadataWrites, OnlyAccounts, Keeps, SpeaksOrMute
<1>5. CASE CreateFails(s) \/ ProfileFails(s)
  BY <1>5, NothingWritten DEF CreateFails, ProfileFails, Fails, tables, SpeaksOrMute
<1> QED BY <1>1, <1>2, <1>3, <1>4, <1>5 DEF RegistryStep, SpeaksOrMute

LEMMA ObligationWritesSpeak ==
  ASSUME RInv, NEW s \in Sessions, ObligationInserts(s) \/ ObligationUpdates(s)
  PROVE  SpeaksOrMute
<1>1. PICK c : c = arg[s]
  OBVIOUS
<1>2. pc[s] \in {"insert_obligation", "update_obligation"} /\ UNCHANGED <<profiles, snapshots, changes>>
  BY DEF ObligationInserts, ObligationUpdates, At, OnlyObligations
<1>3. c.tool = "create_or_update_obligation"
  BY <1>1, <1>2 DEF RInv, RowIsThere
<1>4. CallFits(c) /\ c.key \in ObligationKeys
  BY <1>1, <1>2, <1>3, CallInFlight DEF ObligationKeys
<1>5. TableOf(ObligationKeys, StoredObligation, obligations) /\ NULL \notin StoredObligation
  BY NullAssumption DEF RInv, ObligationsFit
<1>6. c.due \in Int /\ c.active \in BOOLEAN
  BY <1>3, <1>4 DEF CallFits
<1>7. CASE ObligationInserts(s)
  <2>1. PICK id, row : id = NextRowId(obligations) /\ row = [id |-> id, due |-> c.due, active |-> c.active, by |-> NULL]
    OBVIOUS
  <2>2. /\ obligations' = [obligations EXCEPT ![c.key] = row] /\ c.key \notin Existing(obligations)
        /\ told' = told \union {[call |-> c, answer |-> id]}
    BY <1>1, <1>7, <2>1 DEF ObligationInserts, ObligationFits, Tells, Existing
  <2>3. id \in Nat
    BY <1>5, <2>1, RowIdsAreNumbers DEF TableOf
  <2>4. row \in StoredObligation /\ row.id = id /\ id # NULL
    BY <1>6, <2>1, <2>3, NullAssumption DEF StoredObligation, OptionalText
  <2>5. AnswersFor(obligations, obligations', ObligationKeys, c.key, id)
    BY <1>4, <1>5, <2>2, <2>4, RowWritten
  <2> QED BY <1>2, <1>3, <2>2, <2>4, <2>5 DEF SpeaksOrMute, Speaks
<1>8. CASE ObligationUpdates(s)
  <2>1. PICK old, row : old = obligations[c.key] /\ row = [old EXCEPT !.due = c.due, !.active = c.active]
    OBVIOUS
  <2>2. obligations' = [obligations EXCEPT ![c.key] = row] /\ told' = told \union {[call |-> c, answer |-> old.id]}
    BY <1>1, <1>8, <2>1 DEF ObligationUpdates, UpdatedObligation, Tells
  <2>3. c.key \in Existing(obligations)
    BY <1>1, <1>8 DEF ObligationUpdates, At, RInv, RowIsThere
  <2>4. old \in StoredObligation /\ old.id # NULL
    BY <2>1, <2>3, IdsAreAnswers
  <2>5. row \in StoredObligation /\ row.id = old.id
    BY <1>6, <2>1, <2>4 DEF StoredObligation
  <2>6. AnswersFor(obligations, obligations', ObligationKeys, c.key, row.id)
    BY <1>4, <1>5, <2>1, <2>2, <2>5, RowWritten
  <2> QED BY <1>2, <1>3, <2>2, <2>4, <2>5, <2>6 DEF SpeaksOrMute, Speaks
<1> QED BY <1>7, <1>8

LEMMA FulfilmentIsMute ==
  ASSUME RInv, NEW s \in Sessions, FulfilWrites(s)
  PROVE  Mute
<1>1. PICK c, old, row : /\ c = arg[s] /\ old = obligations[c.key]
                         /\ row = [old EXCEPT !.active = FALSE, !.by = c.by]
  OBVIOUS
<1>2. /\ pc[s] = "fulfil" /\ obligations' = [obligations EXCEPT ![c.key] = row]
      /\ UNCHANGED <<profiles, snapshots, changes, told>>
  BY <1>1 DEF FulfilWrites, Fulfilled, At, Keeps, OnlyObligations
<1>3. c.tool = "fulfill_obligation" /\ c.key \in Existing(obligations)
  BY <1>1, <1>2 DEF RInv, RowIsThere
<1>4. CallFits(c)
  BY <1>1, <1>2, CallInFlight
<1>5. TableOf(ObligationKeys, StoredObligation, obligations) /\ NULL \notin StoredObligation
  BY NullAssumption DEF RInv, ObligationsFit
<1>6. c.key \in ObligationKeys /\ old \in StoredObligation
  BY <1>1, <1>3, <1>5 DEF TableOf, Existing
<1>7. row \in StoredObligation /\ row.id = old.id
  BY <1>1, <1>3, <1>4, <1>6 DEF CallFits, StoredObligation
<1>8. SameIds(obligations, obligations', ObligationKeys)
  BY <1>1, <1>2, <1>3, <1>5, <1>6, <1>7, RowWritten
<1> QED BY <1>2, <1>8 DEF Mute, SameIds, IdIn

LEMMA SnapshotWritesSpeak ==
  ASSUME RInv, NEW s \in Sessions, SnapshotInserts(s) \/ SnapshotUpdates(s)
  PROVE  SpeaksOrMute
<1>1. PICK c : c = arg[s]
  OBVIOUS
<1>2. pc[s] \in {"insert_snapshot", "update_snapshot"} /\ UNCHANGED <<profiles, obligations, changes>>
  BY DEF SnapshotInserts, SnapshotUpdates, At, OnlySnapshots
<1>3. c.tool = "record_balance_snapshot"
  BY <1>1, <1>2 DEF RInv, RowIsThere
<1>4. CallFits(c) /\ c.key \in SnapshotKeys
  BY <1>1, <1>2, <1>3, CallInFlight DEF SnapshotKeys
<1>5. TableOf(SnapshotKeys, StoredSnapshot, snapshots) /\ NULL \notin StoredSnapshot
  BY NullAssumption DEF RInv, SnapshotsFit
<1>6. PICK balance : balance = normalize_amount(c.balance)
  OBVIOUS
<1>7. balance \in Int
  <2>1. c.balance \in Int
    BY <1>3, <1>4 DEF CallFits
  <2> QED BY <1>6, <2>1 DEF normalize_amount, RoundHalfEven, RawPerQuantum
<1>8. CASE SnapshotInserts(s)
  <2>1. PICK id, row : id = NextRowId(snapshots) /\ row = [id |-> id, balance |-> balance]
    OBVIOUS
  <2>2. /\ snapshots' = [snapshots EXCEPT ![c.key] = row] /\ c.key \notin Existing(snapshots)
        /\ told' = told \union {[call |-> c, answer |-> id]}
    BY <1>1, <1>6, <1>8, <2>1 DEF SnapshotInserts, SnapshotFits, Tells, Existing
  <2>3. id \in Nat
    BY <1>5, <2>1, RowIdsAreNumbers DEF TableOf
  <2>4. row \in StoredSnapshot /\ row.id = id /\ id # NULL
    BY <1>7, <2>1, <2>3, NullAssumption DEF StoredSnapshot
  <2>5. AnswersFor(snapshots, snapshots', SnapshotKeys, c.key, id)
    BY <1>4, <1>5, <2>2, <2>4, RowWritten
  <2> QED BY <1>2, <1>3, <2>2, <2>4, <2>5 DEF SpeaksOrMute, Speaks
<1>9. CASE SnapshotUpdates(s)
  <2>1. PICK old, row : old = snapshots[c.key] /\ row = [old EXCEPT !.balance = balance]
    OBVIOUS
  <2>2. snapshots' = [snapshots EXCEPT ![c.key] = row] /\ told' = told \union {[call |-> c, answer |-> old.id]}
    BY <1>1, <1>6, <1>9, <2>1 DEF SnapshotUpdates, Tells
  <2>3. c.key \in Existing(snapshots)
    BY <1>1, <1>9 DEF SnapshotUpdates, At, RInv, RowIsThere
  <2>4. old \in StoredSnapshot /\ old.id # NULL
    BY <2>1, <2>3, IdsAreAnswers
  <2>5. row \in StoredSnapshot /\ row.id = old.id
    BY <1>7, <2>1, <2>4 DEF StoredSnapshot
  <2>6. AnswersFor(snapshots, snapshots', SnapshotKeys, c.key, row.id)
    BY <1>4, <1>5, <2>1, <2>2, <2>5, RowWritten
  <2> QED BY <1>2, <1>3, <2>2, <2>4, <2>5, <2>6 DEF SpeaksOrMute, Speaks
<1> QED BY <1>8, <1>9

LEMMA ObligationStepSpeaks ==
  ASSUME RInv, NEW s \in Sessions, ObligationStep(s)
  PROVE  SpeaksOrMute
<1>1. ASSUME NEW c \in work.calls, ObligationReads(s, c) \/ FulfilReads(s, c) \/ SnapshotReads(s, c) PROVE Mute
  BY <1>1, NothingWritten DEF ObligationReads, FulfilReads, SnapshotReads, Reads, tables
<1>2. ASSUME NEW c \in work.calls, FulfilReplays(s, c) PROVE Mute
  BY <1>2, NothingWritten DEF FulfilReplays, OnlyObligations, Keeps
<1>3. CASE ObligationFails(s) \/ SnapshotFails(s)
  BY <1>3, NothingWritten DEF ObligationFails, SnapshotFails, Fails, tables, SpeaksOrMute
<1> QED BY <1>1, <1>2, <1>3, ObligationWritesSpeak, FulfilmentIsMute, SnapshotWritesSpeak
        DEF ObligationStep, SpeaksOrMute

LEMMA ProposalsSpeak ==
  ASSUME RInv, NEW s \in Sessions, ProposeInserts(s)
  PROVE  SpeaksOrMute
<1>1. PICK c, created : c = arg[s] /\ created = CreatedAt
  OBVIOUS
<1>2. PICK id \in ChangeIds : /\ told' = told \union {[call |-> c, answer |-> id]}
                              /\ changes' = [changes EXCEPT ![c.key] =
                                               [id |-> id, status |-> "proposed", created |-> created]]
  BY <1>1 DEF ProposeInserts, Tells
<1>12. PICK row : row = [id |-> id, status |-> "proposed", created |-> created]
  OBVIOUS
<1>3. pc[s] = "propose" /\ changes[c.key] = NULL /\ UNCHANGED <<profiles, obligations, snapshots>>
  BY <1>1 DEF ProposeInserts, At, ChangeKeyFree, OnlyChanges
<1>4. c.tool = "propose_config_change"
  BY <1>1, <1>3 DEF RInv, RowIsThere
<1>5. c.key \in ChangeKeys
  BY <1>1, <1>3, <1>4, CallInFlight DEF ChangeKeys
<1>6. TableOf(ChangeKeys, StoredChange, changes) /\ NULL \notin StoredChange
  BY NullAssumption DEF RInv, ChangesFit
<1>7. created \in Nat
  <2>1. CreatedAt = Cardinality(Existing(changes)) \div 2
    BY DEF CreatedAt, Existing, RInv, ChangesFit, TableOf
  <2>2. Cardinality(Existing(changes)) \in Nat
    BY <1>6, FS_CardinalityType DEF TableOf
  <2> QED BY <1>1, <2>1, <2>2
<1>8. row \in StoredChange /\ row.id = id
  BY <1>12, <1>7 DEF StoredChange
<1>9. id # NULL
  BY NullAssumption, RegistryAssumption
<1>10. c.key \notin Existing(changes)
  BY <1>3 DEF Existing
<1>11. AnswersFor(changes, changes', ChangeKeys, c.key, row.id)
  BY <1>2, <1>12, <1>5, <1>6, <1>8, <1>10, RowWritten
<1> QED BY <1>2, <1>3, <1>4, <1>8, <1>9, <1>11 DEF SpeaksOrMute, Speaks

LEMMA DecisionsAreMute ==
  ASSUME RInv, NEW s \in Sessions, ApplyChange(s) \/ ApplyAgain(s) \/ RejectChange(s)
  PROVE  Mute
<1>1. PICK c : c = arg[s]
  OBVIOUS
<1>2. PICK status \in {"committed", "rejected"} : changes' = Persisted(c.key, status)
  BY <1>1 DEF ApplyChange, ApplyAgain, RejectChange, Applies
<1>3. UNCHANGED <<profiles, obligations, snapshots, told>>
  BY DEF ApplyChange, ApplyAgain, RejectChange, Applies, Keeps, OnlyChanges
<1>4. c.key \in Existing(changes)
  BY <1>1 DEF ApplyChange, ApplyAgain, RejectChange, At, RInv, RowIsThere
<1>5. TableOf(ChangeKeys, StoredChange, changes) /\ NULL \notin StoredChange
  BY NullAssumption DEF RInv, ChangesFit
<1>6. PICK old, row : old = changes[c.key] /\ row = [old EXCEPT !.status = status]
  OBVIOUS
<1>7. c.key \in ChangeKeys /\ old \in StoredChange
  BY <1>4, <1>5, <1>6 DEF TableOf, Existing
<1>8. row \in StoredChange /\ row.id = old.id
  BY <1>2, <1>6, <1>7 DEF StoredChange
<1>9. changes' = [changes EXCEPT ![c.key] = row]
  BY <1>2, <1>6 DEF Persisted
<1>10. SameIds(changes, changes', ChangeKeys)
  BY <1>4, <1>5, <1>6, <1>7, <1>8, <1>9, RowWritten
<1> QED BY <1>3, <1>10 DEF Mute, SameIds, IdIn

LEMMA ConfigStepSpeaks ==
  ASSUME RInv, NEW s \in Sessions, ConfigStep(s)
  PROVE  SpeaksOrMute
<1>1. ASSUME NEW c \in work.calls, ProposeReads(s, c) \/ ApproveReads(s, c) \/ RejectReads(s, c) PROVE Mute
  BY <1>1, NothingWritten DEF ProposeReads, ApproveReads, RejectReads, Reads, tables
<1>2. ASSUME NEW c \in work.calls, ApproveReplays(s, c) \/ RejectReplays(s, c) PROVE Mute
  BY <1>2, NothingWritten DEF ApproveReplays, RejectReplays, OnlyChanges, Keeps
<1>3. ASSUME NEW c \in work.calls, ProposeReplays(s, c) PROVE SpeaksOrMute
  <2>1. c.tool = "propose_config_change" /\ c \in CallsOf(c.tool) /\ changes[c.key] # NULL
    BY <1>3, CallsFit DEF ProposeReplays, Starts, RInv, AInv
  <2>2. c.key \in ChangeKeys /\ c.key \in Existing(changes)
    BY <2>1 DEF ChangeKeys, RInv, ChangesFit, TableOf, Existing
  <2>3. PICK id : id = changes[c.key].id
    OBVIOUS
  <2>4. told' = told \union {[call |-> c, answer |-> id]} /\ UNCHANGED <<profiles, obligations, snapshots, changes>>
    BY <1>3, <2>3 DEF ProposeReplays, Tells, OnlyChanges
  <2>5. AnswersFor(changes, changes', ChangeKeys, c.key, id)
    BY <2>1, <2>2, <2>3, <2>4 DEF AnswersFor, SameIds, IdIn
  <2>6. id # NULL
    BY <2>2, <2>3, IdsAreAnswers
  <2> QED BY <2>1, <2>4, <2>5, <2>6 DEF SpeaksOrMute, Speaks
<1>4. CASE ProposeFails(s) \/ ApplyFails(s) \/ RejectFails(s)
  BY <1>4, NothingWritten DEF ProposeFails, ApplyFails, RejectFails, Fails, tables, SpeaksOrMute
<1>5. CASE ApproverReads(s)
  BY <1>5, NothingWritten DEF ApproverReads, Reads, tables, SpeaksOrMute
<1> QED BY <1>1, <1>2, <1>3, <1>4, <1>5, ProposalsSpeak, DecisionsAreMute DEF ConfigStep, SpeaksOrMute

\* Imports and listings, and a rollback.
LEMMA OtherStepsAreMute ==
  ASSUME NEW s \in Sessions, ImportStep(s) \/ ListingStep(s) \/ Rollback(s)
  PROVE  Mute
<1>1. CASE ImportStep(s)
  BY <1>1, NothingWritten DEF ImportStep, ImportReads, ImportSkips, ImportDecides, ImportWrites, ImportFails,
     ImportEnds, Reads, Fails, OnlyImport, OnlyAccounts, tables
<1>2. CASE ListingStep(s)
  BY <1>2, NothingWritten DEF ListingStep, ListStarts, ListContinues, ListEnds, Reads, Fails, tables
<1>3. CASE Rollback(s)
  BY <1>3, NothingWritten DEF Rollback, Fails, tables
<1> QED BY <1>1, <1>2, <1>3

LEMMA StepsSpeakOrAreMute ==
  ASSUME RInv, [Next]_vars
  PROVE  SpeaksOrMute
<1>1. ASSUME NEW s \in Sessions, Step(s) PROVE SpeaksOrMute
  BY <1>1, RegistryStepSpeaks, ObligationStepSpeaks, ConfigStepSpeaks, OtherStepsAreMute DEF Step, SpeaksOrMute
<1>2. CASE UNCHANGED vars
  BY <1>2, NothingWritten DEF vars, SpeaksOrMute
<1> QED BY <1>1, <1>2 DEF Next

----------------------------------------------------------------------------
(* The refinement. *)

AnswerAt(p) == AnswerFor(p[1], p[2])
Answers == [p \in AnswerKeys |-> AnswerFor(p[1], p[2])]
PairOf(t) == <<<<t.call.tool, t.call.key>>, t.answer>>
ToldPairs == {<<<<t.call.tool, t.call.key>>, t.answer>> : t \in told}

LEMMA KeysOfAnswers ==
  ASSUME NEW p \in AnswerKeys
  PROVE  \/ \E k \in ProfileKeys : p = <<"update_account_profile", k>>
         \/ \E k \in ObligationKeys : p = <<"create_or_update_obligation", k>>
         \/ \E k \in SnapshotKeys : p = <<"record_balance_snapshot", k>>
         \/ \E k \in ChangeKeys : p = <<"propose_config_change", k>>
BY DEF AnswerKeys, ToolKeys, ProfileKeys, ObligationKeys, SnapshotKeys, ChangeKeys

\* The answers of a step: none has changed, or one at most.
AnswersStand == \A p \in AnswerKeys : AnswerAt(p)' = AnswerAt(p)
AnswersStandBut(key, a) ==
  /\ key \in AnswerKeys /\ a # NULL
  /\ AnswerAt(key)' = a /\ AnswerAt(key) \in {NULL, a}
  /\ \A p \in AnswerKeys : p # key => AnswerAt(p)' = AnswerAt(p)

LEMMA MuteStepsStutter ==
  ASSUME Mute
  PROVE  UNCHANGED <<Answers, ToldPairs>>
<1>1. AnswersStand
  BY KeysOfAnswers DEF Mute, SameIds, AnswersStand, AnswerAt, AnswerFor
<1>2. Answers' = Answers
  BY <1>1 DEF AnswersStand, AnswerAt, Answers
<1>3. ToldPairs' = ToldPairs
  BY DEF Mute, ToldPairs
<1> QED BY <1>2, <1>3

LEMMA SpokenStands ==
  ASSUME NEW c, NEW a, Speaks(c, a)
  PROVE  AnswersStandBut(<<c.tool, c.key>>, a)
<1>1. PICK tool, key : tool = c.tool /\ key = c.key
  OBVIOUS
<1>2. <<tool, key>> \in AnswerKeys
  BY <1>1 DEF Speaks, ResponsesFor, AnswersFor, AnswerKeys, ToolKeys,
     ProfileKeys, ObligationKeys, SnapshotKeys, ChangeKeys
<1>3. AnswerFor(tool, key)' = a /\ AnswerFor(tool, key) \in {NULL, a}
  BY <1>1 DEF Speaks, ResponsesFor, AnswersFor, AnswerFor
<1>4. ASSUME NEW p \in AnswerKeys, p # <<tool, key>> PROVE AnswerAt(p)' = AnswerAt(p)
  <2>1. CASE \E k \in ProfileKeys : p = <<"update_account_profile", k>>
    BY <1>1, <1>4, <2>1 DEF Speaks, ResponsesFor, AnswerAt, AnswerFor
  <2>2. CASE \E k \in ObligationKeys : p = <<"create_or_update_obligation", k>>
    BY <1>1, <1>4, <2>2 DEF Speaks, AnswersFor, SameIds, IdIn, AnswerAt, AnswerFor
  <2>3. CASE \E k \in SnapshotKeys : p = <<"record_balance_snapshot", k>>
    BY <1>1, <1>4, <2>3 DEF Speaks, AnswersFor, SameIds, IdIn, AnswerAt, AnswerFor
  <2>4. CASE \E k \in ChangeKeys : p = <<"propose_config_change", k>>
    BY <1>1, <1>4, <2>4 DEF Speaks, AnswersFor, SameIds, IdIn, AnswerAt, AnswerFor
  <2> QED BY <2>1, <2>2, <2>3, <2>4, KeysOfAnswers
<1> QED BY <1>1, <1>2, <1>3, <1>4 DEF AnswersStandBut, AnswerAt, Speaks

LEMMA SpeakingAnswers ==
  ASSUME NEW c, NEW a, Speaks(c, a)
  PROVE  Promise!Next
<1>1. PICK key : key = <<c.tool, c.key>>
  OBVIOUS
<1>2. AnswersStandBut(key, a)
  BY <1>1, SpokenStands
<1>3. key \in AnswerKeys /\ a # NULL /\ Answers[key] \in {NULL, a} /\ Answers'[key] = a
  BY <1>2 DEF AnswersStandBut, AnswerAt, Answers
<1>4. Answers' = [Answers EXCEPT ![key] = Answers'[key]]
  BY <1>2, <1>3 DEF AnswersStandBut, AnswerAt, Answers
<1>5. ToldPairs' = ToldPairs \union {<<key, Answers'[key]>>}
  <2>1. told' = told \union {[call |-> c, answer |-> a]}
    BY DEF Speaks
  <2>2. told' = told \union {[call |-> c, answer |-> a]} /\ ToldPairs' = {PairOf(t) : t \in told'}
    BY <2>1 DEF ToldPairs, PairOf
  <2>3. PairOf([call |-> c, answer |-> a]) = <<key, a>>
    BY <1>1 DEF PairOf
  <2>4. {PairOf(t) : t \in told \union {[call |-> c, answer |-> a]}}
          = {PairOf(t) : t \in told} \union {PairOf([call |-> c, answer |-> a])}
    OBVIOUS
  <2>5. ToldPairs = {PairOf(t) : t \in told}
    BY DEF ToldPairs, PairOf
  <2> QED BY <1>3, <2>2, <2>3, <2>4, <2>5
<1>6. Promise!Answer(key)
  BY <1>3, <1>4, <1>5 DEF Promise!Answer, Answers, ToldPairs
<1> QED BY <1>3, <1>6 DEF Promise!Next

\* Every step of every tool gives a key its first answer, repeats that answer, or tells nobody
\* anything and leaves all answers alone: the keyed tools together keep the promise of KeyedAnswers.
THEOREM ImplementsKeyedAnswersHolds == Spec => ImplementsKeyedAnswers
<1>1. Init => Promise!Init
  <2> SUFFICES ASSUME Init PROVE Promise!Init
    OBVIOUS
  <2>1. ASSUME NEW p \in AnswerKeys PROVE AnswerFor(p[1], p[2]) = NULL
    BY KeysOfAnswers DEF Init, AnswerFor, IdIn
  <2> QED BY <2>1 DEF Init, Promise!Init
<1>2. RInv /\ [Next]_vars => [Promise!Next]_<<Answers, ToldPairs>>
  BY StepsSpeakOrAreMute, MuteStepsStutter, SpeakingAnswers DEF SpeaksOrMute
<1> QED BY <1>1, <1>2, RegistryInvariance, PTL DEF Spec, ImplementsKeyedAnswers, Promise!Spec, Answers, ToldPairs
=============================================================================
