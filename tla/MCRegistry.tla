----------------------------- MODULE MCRegistry -----------------------------
(***************************************************************************)
(* RegistryTools on small workloads, one of them per behaviour.            *)
(***************************************************************************)
EXTENDS RegistryTools, TLC

MCMetaKeys == {"institution_name", "institution_suffix", "note", "description", "is_active", "currency"}
MCTexts == {"old", "new", "up", "one", "two", "first", "other", "lost", "late",
            "b", "n", "11", "22", "33", "usd", "true", "t1"}
NoMeta == [k \in MCMetaKeys |-> NULL]
Bare(code, parent) == [code |-> code, name |-> "old", parent |-> parent, meta |-> NoMeta]
Table(rows) == [a \in AccountIds |-> IF a \in DOMAIN rows THEN rows[a] ELSE NULL]

Create(code, parent, entity) ==
  [tool |-> "create_account", code |-> code, name |-> "new", parent |-> parent, entity |-> entity, meta |-> NoMeta]
PatchCall(account, patch) == [tool |-> "update_account_metadata", account |-> account, patch |-> patch]
Profile(account, source, ext, name, patch) ==
  [tool |-> "update_account_profile", account |-> account, key |-> <<source, ext>>, name |-> name, patch |-> patch]
Obligation(name, account, due, active) ==
  [tool |-> "create_or_update_obligation", key |-> name, account |-> account, due |-> due, active |-> active]
Fulfil(name, by) == [tool |-> "fulfill_obligation", key |-> name, by |-> by]
Snapshot(account, date, balance) ==
  [tool |-> "record_balance_snapshot", key |-> <<account, date>>, balance |-> balance]
Propose(key) == [tool |-> "propose_config_change", key |-> key]
Approve(key, approver) == [tool |-> "approve_config_change", key |-> key, approver |-> approver]
Reject(key, approver) == [tool |-> "reject_proposed_transaction", key |-> key, approver |-> approver]
List(tool, filter) == [tool |-> tool, filter |-> filter]
Acc(id, parent, name) ==
  [id |-> id, name |-> name, parent |-> parent, active |-> NULL, description |-> NULL,
   currency |-> NULL, metadata |-> <<>>]
All == {"name", "description", "metadata", "is_active", "parent_id"}
File(accs) == [accounts |-> accs, groups |-> <<>>, aliases |-> <<>>, currency |-> "usd",
               mode |-> "upsert", allow |-> All]
Import(file) == [tool |-> "import_coa", file |-> file, dry |-> FALSE]

\* Accounts are created under each other, with a code that a file's account has, while a client
\* lists them page by page.
Creating ==
  [accounts |-> Table(1 :> Bare(1, NULL) @@ 2 :> Bare(4, 1)),
   calls |-> {Create(2, 1, "main"), Create(3, NULL, "main"), Create(4, 1, "main"), Create(5, 9, "main"),
              Create(5, 1, "nowhere"), List("list_accounts", NULL)}]

\* Two accounts of one bank, keys used twice and for both, a missing account, and metadata patches.
Profiling ==
  [accounts |-> Table(1 :> Bare(1, NULL) @@ 2 :> Bare(2, NULL)),
   calls |-> {Profile(1, "bank", "x", "first", "institution_suffix" :> "11"),
              Profile(1, "bank", "y", NULL, "institution_suffix" :> "22" @@ "institution_name" :> "b"),
              Profile(2, "bank", "y", "other", "institution_suffix" :> NULL),
              Profile(9, "bank", "z", "lost", "institution_name" :> "b"),
              PatchCall(1, "note" :> "n"), PatchCall(1, "institution_suffix" :> "33")}]

\* Files that re-parent each other's accounts, one that only creates, one that is tried dry, and
\* three that validation refuses; clients patch metadata and take the code of a file's account meanwhile.
Importing ==
  [accounts |-> Table(1 :> Bare(1, NULL) @@ 2 :> Bare(2, 1) @@ 3 :> Bare(3, NULL)),
   calls |-> {Import(File(<<Acc(1, NULL, "old"), Acc(3, 1, "up")>>)),
              Import(File(<<Acc(3, NULL, "old"), Acc(1, 3, "old"), Acc(4, 1, "new")>>)),
              Import([File(<<Acc(2, NULL, "two"), Acc(1, 2, "one")>>) EXCEPT !.allow = {"parent_id", "description"}]),
              Import([File(<<Acc(5, NULL, "new"), Acc(4, 9, "new"), Acc(9, NULL, "late")>>) EXCEPT !.mode = "create_only"]),
              [Import(File(<<Acc(4, NULL, "new"), Acc(2, NULL, "two")>>)) EXCEPT !.dry = TRUE],
              Import(File(<<Acc(1, 2, "one"), Acc(2, 1, "two")>>)),
              Import(File(<<Acc(1, NULL, "one"), Acc(1, NULL, "two")>>)),
              Import([File(<<Acc(1, NULL, "one")>>) EXCEPT !.aliases = <<[alias |-> "cash", account |-> 2]>>]),
              PatchCall(1, "note" :> "n"), Create(4, 3, "main")}]

\* Two obligations moved, fulfilled, reactivated and withdrawn while clients list them.
Owing ==
  [accounts |-> Table(1 :> Bare(1, NULL)),
   calls |-> {Obligation("rent", 1, 1, TRUE), Obligation("rent", 1, 3, FALSE), Obligation("loan", 1, 1, TRUE),
              Obligation("fine", 9, 1, TRUE), Fulfil("rent", "t1"), Fulfil("rent", NULL),
              List("list_obligations", TRUE), List("list_obligations", FALSE)}]

Snapping ==
  [accounts |-> Table(1 :> Bare(1, NULL)),
   calls |-> {Snapshot(1, 1, 105), Snapshot(1, 1, 995), Snapshot(1, 2, 15), Snapshot(9, 1, 5)}]

\* Changes proposed twice, approved by name and without, rejected, and listed by status.
Governing ==
  [accounts |-> Table(1 :> Bare(1, NULL)),
   calls |-> {Propose("a"), Propose("b"), Approve("a", "ann"), Approve("a", NULL), Reject("a", "ann"),
              Approve("b", "ann"), List("list_proposals", NULL), List("list_proposals", "proposed")}]

MCWorkloads == {Creating, Profiling, Importing, Owing, Snapping, Governing}
PatchWorkloads == {Profiling}
SessionSymmetry == Permutations(Sessions)
=============================================================================
