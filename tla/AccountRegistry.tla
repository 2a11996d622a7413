-------------------------- MODULE AccountRegistry --------------------------
(***************************************************************************)
(* domain/accounts/service.py: create_account, update_account_metadata and *)
(* update_account_profile with its append-only identifier history.         *)
(***************************************************************************)
EXTENDS RegistryDb

accountTables == <<accounts, history, profiles>>
OnlyAccounts == UNCHANGED <<obligations, snapshots, changes, verdicts>>

----------------------------------------------------------------------------
\* create_account reads the parent and the entity and is refused without them; the insert is refused
\* when the code is taken.
CreateReads(s, c) ==
  /\ Starts(s, "create_account", c)
  /\ c.parent # NULL => AccountExists(c.parent)
  /\ c.entity \in Entities
  /\ Reads(s, c, "create", NULL)

CodeTaken(code) == \E a \in AccountIds : AccountExists(a) /\ accounts[a].code = code

CreateInserts(s) ==
  LET c == arg[s] IN
  /\ At(s, "create") /\ UuidLeft
  /\ ~CodeTaken(c.code)
  /\ accounts' = [accounts EXCEPT ![FreshId] =
       [code |-> c.code, name |-> c.name, parent |-> c.parent, meta |-> c.meta]]
  /\ Logs(c) /\ Keeps /\ Ends(s)
  /\ UNCHANGED <<history, profiles>> /\ OnlyAccounts

CreateFails(s) == At(s, "create") /\ CodeTaken(arg[s].code) /\ Fails(s)

----------------------------------------------------------------------------
\* update_account_metadata merges the patch into what it has read, key by key; NULL removes a key.
Patched(meta, patch) == [k \in MetaKeys |-> IF k \in DOMAIN patch THEN patch[k] ELSE meta[k]]

MetadataReads(s, c) ==
  /\ Starts(s, "update_account_metadata", c)
  /\ AccountExists(c.account)
  /\ Reads(s, c, "patch", accounts[c.account].meta)

MetadataWrites(s) ==
  LET c == arg[s] IN
  /\ At(s, "patch")
  /\ accounts' = [accounts EXCEPT ![c.account].meta = Patched(seen[s], c.patch)]
  /\ Logs(c) /\ Keeps /\ Ends(s)
  /\ UNCHANGED <<history, profiles>> /\ OnlyAccounts

----------------------------------------------------------------------------
\* A profile call that finds a stored response repeats it, whatever its own payload says.
ProfileReplays(s, c) ==
  /\ Starts(s, "update_account_profile", c)
  /\ profiles[c.key] # NULL
  /\ Tells(c, profiles[c.key]) /\ Logs(c)
  /\ UNCHANGED <<accountTables, work, pc, arg, seen>> /\ OnlyAccounts

ProfileReads(s, c) ==
  /\ Starts(s, "update_account_profile", c)
  /\ profiles[c.key] = NULL
  /\ Reads(s, c, "profile", NULL)

\* Bug form of KeyTaken: nothing keeps the key unique.
KeyTaken_Never(c) == FALSE
\* insert_proposal comes first in the write section: with the key taken it fails, and the call
\* reads again and repeats the response stored meanwhile.
KeyTaken(c) == profiles[c.key] # NULL
ProfileConflict(s) ==
  LET c == arg[s] IN
  /\ At(s, "profile") /\ KeyTaken(c)
  /\ Tells(c, profiles[c.key]) /\ Logs(c) /\ Ends(s)
  /\ UNCHANGED accountTables /\ OnlyAccounts

\* The fields of the payload over the row read inside the write section.
ProfileMeta(a, c) == Patched(accounts[a].meta, c.patch)
ProfileName(a, c) == IF c.name = NULL THEN accounts[a].name ELSE c.name

\* Bug form: the row that a new identifier supersedes stays open.
Closed_Forgets(h, a, source) == h

\* The active identifier of an account and source; an instant is named by the row it opens.
ActiveRows(h, a, source) == {i \in DOMAIN h : h[i].account = a /\ h[i].source = source /\ h[i].to = NULL}
Instant(h) == Len(h) + 1
Closed(h, a, source) ==
  [i \in DOMAIN h |-> IF i \in ActiveRows(h, a, source) THEN [h[i] EXCEPT !.to = Instant(h)] ELSE h[i]]
SameIdentifier(h, a, c, suffix) ==
  \E i \in ActiveRows(h, a, c.key[1]) : h[i].ext = c.key[2] /\ h[i].suffix = suffix
NextHistory(h, a, c, suffix) ==
  IF SameIdentifier(h, a, c, suffix) THEN h
  ELSE Append(Closed(h, a, c.key[1]),
              [account |-> a, source |-> c.key[1], ext |-> c.key[2], suffix |-> suffix,
               from |-> Instant(h), to |-> NULL])

ProfileWrites(s) ==
  LET c == arg[s]
      a == c.account
      meta == ProfileMeta(a, c)
      response == [account |-> a, name |-> ProfileName(a, c), suffix |-> meta["institution_suffix"]]
  IN
  /\ At(s, "profile") /\ ~KeyTaken(c)
  /\ AccountExists(a)
  /\ accounts' = [accounts EXCEPT ![a].name = ProfileName(a, c), ![a].meta = meta]
  /\ history' = NextHistory(history, a, c, meta["institution_suffix"])
  /\ profiles' = [profiles EXCEPT ![c.key] = response]
  /\ Tells(c, response) /\ Logs(c) /\ Ends(s)
  /\ OnlyAccounts

ProfileFails(s) ==
  At(s, "profile") /\ ~KeyTaken(arg[s]) /\ ~AccountExists(arg[s].account) /\ Fails(s)

RegistryStep(s) ==
  \/ \E c \in work.calls :
       CreateReads(s, c) \/ MetadataReads(s, c) \/ ProfileReplays(s, c) \/ ProfileReads(s, c)
  \/ CreateInserts(s) \/ CreateFails(s)
  \/ MetadataWrites(s)
  \/ ProfileConflict(s) \/ ProfileWrites(s) \/ ProfileFails(s)
=============================================================================
