----------------------------- MODULE CoaImport -----------------------------
(***************************************************************************)
(* db/coa_importer.py: a chart-of-accounts file is validated as a whole,   *)
(* then applied account by account, in file order, in one transaction: the *)
(* reads before its first write run on their own, the rest of the file     *)
(* belongs to one write section.  The importer logs no event.              *)
(***************************************************************************)
EXTENDS AccountRegistry, SequencesExt

IdsOf(file) == {file.accounts[i].id : i \in DOMAIN file.accounts}

\* Parents as the file gives them, which validation walks for cycles.
FileParent(file) ==
  [a \in AccountIds |->
     IF \E i \in DOMAIN file.accounts : file.accounts[i].id = a /\ file.accounts[i].parent # NULL
     THEN file.accounts[CHOOSE i \in DOMAIN file.accounts : file.accounts[i].id = a].parent
     ELSE NULL]

AcyclicFile(file) ==
  \A a \in IdsOf(file) :
    FileParent(file)[a] # NULL => a \notin Chain(FileParent(file), FileParent(file)[a])

\* Groups and aliases are checked and then left alone: nothing stores them.
GroupsFit(file) ==
  /\ \A i, j \in DOMAIN file.groups : file.groups[i].id = file.groups[j].id => i = j
  /\ \A i \in DOMAIN file.groups : file.groups[i].members \subseteq IdsOf(file)
AliasesFit(file) ==
  /\ \A i, j \in DOMAIN file.aliases : file.aliases[i].alias = file.aliases[j].alias => i = j
  /\ \A i \in DOMAIN file.aliases : file.aliases[i].account \in IdsOf(file)

ValidFile(file) ==
  /\ file.accounts # <<>>
  /\ \A i, j \in DOMAIN file.accounts : file.accounts[i].id = file.accounts[j].id => i = j
  /\ \A i \in DOMAIN file.accounts : file.accounts[i].parent \in IdsOf(file) \union {NULL}
  /\ AcyclicFile(file)
  /\ GroupsFit(file) /\ AliasesFit(file)

----------------------------------------------------------------------------
\* _build_metadata: the account's own fields over its metadata map; an account is active unless
\* something says otherwise, and the file's currency stands in for a missing one.
Or(value, default) == IF value # NULL THEN value ELSE default
Given(map, key) == IF key \in DOMAIN map THEN map[key] ELSE NULL
BuildMetadata(file, acc) ==
  LET own == [description |-> Or(acc.description, Given(acc.metadata, "description")),
              is_active |-> Or(acc.active, Or(Given(acc.metadata, "is_active"), "true")),
              currency |-> Or(Or(acc.currency, file.currency), Given(acc.metadata, "currency"))]
      keys == DOMAIN acc.metadata \union {k \in DOMAIN own : own[k] # NULL}
  IN  [k \in keys |-> IF k \in DOMAIN own THEN own[k] ELSE acc.metadata[k]]

\* _merge_metadata: the incoming keys that allow_updates lets through.
Admitted(file, incoming) ==
  {k \in DOMAIN incoming : \/ k \in {"description", "is_active"} /\ k \in file.allow
                           \/ k \notin {"description", "is_active"} /\ "metadata" \in file.allow}
MergeMetadata(file, meta, incoming) ==
  Patched(meta, [k \in Admitted(file, incoming) |-> incoming[k]])

NewRow(file, acc) ==
  [code |-> acc.id, name |-> acc.name, parent |-> acc.parent,
   meta |-> Patched([k \in MetaKeys |-> NULL], BuildMetadata(file, acc))]
NextRow(file, acc, row) ==
  [row EXCEPT !.name = IF "name" \in file.allow THEN acc.name ELSE row.name,
              !.parent = IF "parent_id" \in file.allow THEN acc.parent ELSE row.parent,
              !.meta = MergeMetadata(file, row.meta, BuildMetadata(file, acc))]

\* Bug form: the row is compared with the file, not with what allow_updates makes of it.
Unchanged_AsFile(file, acc, row) == NewRow(file, acc) = row
\* What the loop does with one account: insert, update, or nothing.
Unchanged(file, acc, row) == NextRow(file, acc, row) = row
Treatment(table, existing, file, acc) ==
  IF acc.id \notin existing THEN "insert"
  ELSE IF file.mode = "create_only" \/ Unchanged(file, acc, table[acc.id]) THEN "skip"
  ELSE "update"

\* Bug form: no trigger; validation alone keeps a file free of cycles.
CycleTrigger_None(table, id, parent) == FALSE
\* trg_prevent_account_cycle_insert and _update: the new parent must not lead back to the account.
CycleTrigger(table, id, parent) == parent # NULL /\ id \in Chain(ParentOf(table), parent)
ParentFits(table, id, parent) ==
  (parent # NULL => table[parent] # NULL) /\ ~CycleTrigger(table, id, parent)

\* Bug form of AfterFailure: the accounts before the failing one stay.
AfterFailure_KeepsPrefix(table) == table
\* An INSERT or UPDATE, with the row that was read for it; NULL once it has failed, for that aborts the
\* whole import.
RowFor(treatment, file, acc, row) ==
  IF treatment = "insert" THEN NewRow(file, acc) ELSE NextRow(file, acc, row)
KeyFits(table, id) == table[id] = NULL /\ \A a \in AccountIds : table[a] # NULL => table[a].code # id
Written(table, treatment, id, row) ==
  IF (treatment = "insert" => KeyFits(table, id)) /\ ParentFits(table, id, row.parent)
  THEN [table EXCEPT ![id] = row]
  ELSE NULL

\* One turn of the loop on a table, and the rest of the file from account i.
ImportAccount(table, existing, file, acc) ==
  LET treatment == Treatment(table, existing, file, acc)
  IN  IF treatment = "skip" THEN table
      ELSE Written(table, treatment, acc.id, RowFor(treatment, file, acc, table[acc.id]))
AfterFailure(table) == NULL
ImportRest(table, existing, file, i) ==
  FoldLeft(LAMBDA t, acc : IF t = NULL THEN NULL
                           ELSE LET r == ImportAccount(t, existing, file, acc)
                                IN  IF r = NULL THEN AfterFailure(t) ELSE r,
           table, SubSeq(file.accounts, i, Len(file.accounts)))

----------------------------------------------------------------------------
ExistingIds == {a \in AccountIds : AccountExists(a)}
OnlyImport == UNCHANGED <<history, profiles, events, told>> /\ OnlyAccounts

ImportReads(s, c) ==
  /\ Starts(s, "import_coa", c)
  /\ ValidFile(c.file)
  /\ Reads(s, c, "import", [existing |-> ExistingIds, next |-> 1])

\* The account at hand and what happens to it; a dry run only counts.
ImportMore(s) == At(s, "import") /\ seen[s].next <= Len(arg[s].file.accounts)
AtHand(s) == arg[s].file.accounts[seen[s].next]
Wanted(s) == Treatment(accounts, seen[s].existing, arg[s].file, AtHand(s))
Writes(s) == ~arg[s].dry /\ Wanted(s) # "skip"

ImportSkips(s) ==
  /\ ImportMore(s) /\ ~Writes(s)
  /\ seen' = [seen EXCEPT ![s].next = @ + 1]
  /\ UNCHANGED <<tables, work, pc, arg>>

\* The row of the first account to be written is still read without the lock.
ImportDecides(s) ==
  /\ ImportMore(s) /\ Writes(s)
  /\ pc' = [pc EXCEPT ![s] = "import_write"]
  /\ seen' = [seen EXCEPT ![s] =
       [existing |-> @.existing, next |-> @.next, treatment |-> Wanted(s),
        row |-> RowFor(Wanted(s), arg[s].file, AtHand(s), accounts[AtHand(s).id])]]
  /\ UNCHANGED <<tables, work, arg>>

Outcome(s) ==
  LET first == Written(accounts, seen[s].treatment, AtHand(s).id, seen[s].row)
  IN  IF first = NULL THEN AfterFailure(accounts)
      ELSE ImportRest(first, seen[s].existing, arg[s].file, seen[s].next + 1)

ImportWrites(s) ==
  /\ At(s, "import_write") /\ Outcome(s) # NULL
  /\ accounts' = Outcome(s)
  /\ Ends(s) /\ OnlyImport

ImportFails(s) == At(s, "import_write") /\ Outcome(s) = NULL /\ Fails(s)

ImportEnds(s) == At(s, "import") /\ ~ImportMore(s) /\ Fails(s)

ImportStep(s) ==
  \/ \E c \in work.calls : ImportReads(s, c)
  \/ ImportSkips(s) \/ ImportDecides(s) \/ ImportWrites(s) \/ ImportFails(s) \/ ImportEnds(s)
=============================================================================
