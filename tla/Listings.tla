------------------------------ MODULE Listings ------------------------------
(***************************************************************************)
(* domain/query: keyset pages of list_accounts, list_obligations and       *)
(* list_proposals, which a client follows by cursor while other calls      *)
(* write, and the account tree.                                            *)
(***************************************************************************)
EXTENDS RegistryDb

\* A row's place in the order of its listing: the sort key, descending keys negated, then the id.
Before(p, q) == p[1] < q[1] \/ (p[1] = q[1] /\ p[2] < q[2])

AccountRows == {<<accounts[a].code, a>> : a \in {a \in AccountIds : AccountExists(a)}}
ObligationRows(active_only) ==
  {<<obligations[k].due, obligations[k].id>> :
     k \in {k \in ObligationKeys : obligations[k] # NULL /\ (active_only => obligations[k].active)}}
ProposalRows(status) ==
  {<<0 - changes[k].created, changes[k].id>> :
     k \in {k \in ChangeKeys : changes[k] # NULL /\ (status # NULL => changes[k].status = status)}}

Rows(c) ==
  CASE c.tool = "list_accounts" -> AccountRows
    [] c.tool = "list_obligations" -> ObligationRows(c.filter)
    [] c.tool = "list_proposals" -> ProposalRows(c.filter)

\* ORDER BY and LIMIT: the first n rows, each with fewer than n before it.
FirstRows(n, rows) == {r \in rows : Cardinality({q \in rows : Before(q, r)}) < n}
LastRow(rows) == CHOOSE r \in rows : \A q \in rows : q = r \/ Before(q, r)

\* A page reads limit + 1 rows after the cursor, to know whether there is another page; the next
\* cursor is the last row shown.
AfterCursor(rows, cursor) == {r \in rows : cursor = NULL \/ Before(cursor, r)}
Fetched(rows, cursor) == FirstRows(PageLimit + 1, AfterCursor(rows, cursor))
Shown(fetched) == FirstRows(PageLimit, fetched)
\* Bug form: the cursor is the row that only says there is more.
LastShown_Probe(fetched) == LastRow(fetched)
LastShown(fetched) == LastRow(Shown(fetched))
NextCursor(fetched) == IF Cardinality(fetched) > PageLimit THEN LastShown(fetched) ELSE NULL

\* What a client holds after a page: the cursor it goes on with, the rows it has got, and those that
\* have stood in the listing, where they are, on every page so far.
AfterPage(c, cursor, got, stayed) ==
  LET fetched == Fetched(Rows(c), cursor)
  IN  [cursor |-> NextCursor(fetched), got |-> got \union Shown(fetched),
       stayed |-> stayed \intersect Rows(c)]
PageStep(held) == IF held.cursor = NULL THEN "listed" ELSE "page"

ListStarts(s, c) ==
  /\ pc[s] = "idle" /\ c \in work.calls
  /\ c.tool \in {"list_accounts", "list_obligations", "list_proposals"}
  /\ LET held == AfterPage(c, NULL, {}, Rows(c)) IN Reads(s, c, PageStep(held), held)

ListContinues(s) ==
  /\ At(s, "page")
  /\ LET held == AfterPage(arg[s], seen[s].cursor, seen[s].got, seen[s].stayed)
     IN  Reads(s, arg[s], PageStep(held), held)

ListEnds(s) == At(s, "listed") /\ Fails(s)

ListingStep(s) == (\E c \in work.calls : ListStarts(s, c)) \/ ListContinues(s) \/ ListEnds(s)

----------------------------------------------------------------------------
\* query_account_tree: the rows below a root (all rows without one); a row whose parent is not among
\* them is a root of the answer, the others hang below their parents.
TreeRows(root) ==
  {a \in AccountIds : AccountExists(a) /\ (root # NULL => root \in Chain(ParentOf(accounts), a))}
TreeRoots(rows) == {a \in rows : accounts[a].parent \notin rows}
TreeAnswer(root) ==
  LET rows == TreeRows(root)
      below[n \in 0..Cardinality(AccountIds)] ==
        IF n = 0 THEN TreeRoots(rows)
        ELSE LET hung == below[n - 1] IN hung \union {a \in rows : accounts[a].parent \in hung}
  IN  below[Cardinality(AccountIds)]
=============================================================================
