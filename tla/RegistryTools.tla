--------------------------- MODULE RegistryTools ---------------------------
(***************************************************************************)
(* The tools beside the ledger over one database, called from several      *)
(* sessions at once, and what they keep true together.                     *)
(***************************************************************************)
EXTENDS CoaImport, Obligations, ConfigGovernance, Listings

Step(s) ==
  \/ RegistryStep(s) \/ ImportStep(s)
  \/ ObligationStep(s)
  \/ ConfigStep(s)
  \/ ListingStep(s)
  \/ Rollback(s)

Next == \E s \in Sessions : Step(s)
Spec == Init /\ [][Next]_vars

----------------------------------------------------------------------------

Existing(table) == {k \in DOMAIN table : table[k] # NULL}

\* However imports and other writers interleave, the parents form a forest, so that get_account_tree
\* shows every account below exactly one root, and a subtree exactly the accounts that lead to it.
TreeShowsEveryAccount ==
  /\ TreeAnswer(NULL) = Existing(accounts)
  /\ \A a \in Existing(accounts) :
       /\ accounts[a].parent \in Existing(accounts) \union {NULL}
       /\ TreeAnswer(a) = {b \in Existing(accounts) : a \in Chain(ParentOf(accounts), b)}
       /\ Cardinality(Chain(ParentOf(accounts), a) \intersect TreeRoots(Existing(accounts))) = 1

\* Every stored profile response has its one row in the identifier history, no other rows are there,
\* and the rows of an account and source follow each other without a gap: one closes at the instant
\* the next one opens, and only the last is active.
RowsFor(a, source) == {i \in DOMAIN history : history[i].account = a /\ history[i].source = source}
HistoryMirrorsProfiles ==
  /\ \A k \in Existing(profiles) :
       \E i \in DOMAIN history :
         /\ history[i].account = profiles[k].account
         /\ <<history[i].source, history[i].ext>> = k
         /\ history[i].suffix = profiles[k].suffix
  /\ Len(history) = Cardinality(Existing(profiles))
  /\ \A i \in DOMAIN history :
       LET later == {j \in RowsFor(history[i].account, history[i].source) : j > i}
       IN  history[i].to = IF later = {} THEN NULL
                           ELSE history[CHOOSE j \in later : \A l \in later : j <= l].from

\* Retries, races and other payloads of one idempotency key are all answered with the response that
\* is stored for it, and it is never replaced.
ReplaysRepeatTheAnswer ==
  \A t \in told : t.call.tool = "update_account_profile" => profiles[t.call.key] = t.answer

\* Whoever upserts an obligation or a snapshot, or proposes a change, is told the id of the one row
\* of that key, however the first inserts raced.
UpsertAnswersNameTheRow ==
  \A t \in told :
    /\ t.call.tool = "create_or_update_obligation" => obligations[t.call.key].id = t.answer
    /\ t.call.tool = "record_balance_snapshot" => snapshots[t.call.key].id = t.answer
    /\ t.call.tool = "propose_config_change" => changes[t.call.key].id = t.answer

\* What stands in the tables was put there by a call whose event is in the log: an inactive
\* obligation by an update or a fulfilment, a balance by a snapshot, a decided change by a decision.
Event(tool) == {e \in events : e.tool = tool}
EffectsAreLogged ==
  /\ \A k \in Existing(profiles) :
       \E e \in Event("update_account_profile") : e.key = k /\ e.account = profiles[k].account
  /\ \A k \in Existing(obligations) :
       LET upserts == {e \in Event("create_or_update_obligation") : e.key = k}
           fulfilments == {e \in Event("fulfill_obligation") : e.key = k /\ e.by = obligations[k].by}
       IN  /\ \E e \in upserts : e.due = obligations[k].due
           /\ obligations[k].by # NULL => fulfilments # {}
           /\ ~obligations[k].active => fulfilments # {} \/ \E e \in upserts : ~e.active
  /\ \A k \in Existing(snapshots) :
       \E e \in Event("record_balance_snapshot") :
         e.key = k /\ snapshots[k].balance = normalize_amount(e.balance)
  /\ \A k \in Existing(changes) :
       /\ \E e \in Event("propose_config_change") : e.key = k
       /\ changes[k].status = "committed" => \E e \in Event("approve_config_change") : e.key = k
       /\ changes[k].status = "rejected" => \E e \in Event("reject_proposed_transaction") : e.key = k

\* However approvals and rejections of a change race, it is committed only with an approval on
\* record and rejected only with a rejection.
ChangesCarryTheirVerdict ==
  \A k \in Existing(changes) :
    /\ changes[k].status = "committed" => \E v \in verdicts : v.key = k /\ v.action = "approve"
    /\ changes[k].status = "rejected" => \E v \in verdicts : v.key = k /\ v.action = "reject"

\* In every database that calls can reach, an import that goes through has nothing left to do when
\* it is repeated.
Files == {c.file : c \in {c \in work.calls : c.tool = "import_coa" /\ ValidFile(c.file)}}
ImportIsIdempotent ==
  \A file \in Files :
    LET once == ImportRest(accounts, ExistingIds, file, 1)
    IN  once # NULL =>
          \A i \in DOMAIN file.accounts :
            Treatment(once, Existing(once), file, file.accounts[i]) = "skip"

\* A client that follows the cursors gets every row that stayed in its place in the listing, while
\* other calls insert rows before and after the cursor, move and withdraw them.
WalksMissNothing ==
  \A s \in Sessions : pc[s] \in {"page", "listed"} =>
    \A r \in seen[s].stayed : ~(seen[s].cursor # NULL /\ Before(seen[s].cursor, r)) => r \in seen[s].got

----------------------------------------------------------------------------
(* The promise behind the keyed tools: KeyedAnswers, for the keys of all four together. *)

ToolKeys(tool) == {<<tool, c.key>> : c \in CallsOf(tool)}
AnswerKeys ==
  ToolKeys("update_account_profile") \union ToolKeys("create_or_update_obligation")
    \union ToolKeys("record_balance_snapshot") \union ToolKeys("propose_config_change")

\* The answer that stands in the row of a key: the stored response, or the row's id.
IdIn(table, k) == IF table[k] = NULL THEN NULL ELSE table[k].id
AnswerFor(tool, k) ==
  CASE tool = "update_account_profile" -> profiles[k]
    [] tool = "create_or_update_obligation" -> IdIn(obligations, k)
    [] tool = "record_balance_snapshot" -> IdIn(snapshots, k)
    [] tool = "propose_config_change" -> IdIn(changes, k)

Promise == INSTANCE KeyedAnswers
  WITH Keys <- AnswerKeys,
       first <- [p \in AnswerKeys |-> AnswerFor(p[1], p[2])],
       told <- {<<<<t.call.tool, t.call.key>>, t.answer>> : t \in told}

\* Every step of every tool gives a key its first answer, repeats that answer, or tells nobody
\* anything and leaves all answers alone: no update, fulfilment, decision or import changes one.
ImplementsKeyedAnswers == Promise!Spec

----------------------------------------------------------------------------
\* An import that changes anything leaves all accounts of its file in the table.
ImportsAreWhole ==
  [][\A s \in Sessions : At(s, "import_write") /\ pc'[s] = "idle" /\ accounts' # accounts =>
       IdsOf(arg[s].file) \subseteq Existing(accounts')]_vars

\* The metadata keys that a patch does not carry are at its commit as they were before it, whatever
\* other calls have written since it began.
KeepsOtherKeys(s) ==
  pc'[s] = "idle" /\ accounts' # accounts =>
    \A k \in MetaKeys \ DOMAIN arg[s].patch :
      accounts'[arg[s].account].meta[k] = accounts[arg[s].account].meta[k]

\* docs/tool-reference.md on update_account_metadata: "Unmentioned keys are preserved."
UnmentionedKeysArePreserved == [][\A s \in Sessions : At(s, "patch") => KeepsOtherKeys(s)]_vars
=============================================================================
