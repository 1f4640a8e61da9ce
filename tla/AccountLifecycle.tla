-------------------------- MODULE AccountLifecycle --------------------------
(***************************************************************************)
(* How accounts enter and leave: rows of the accounts table against the     *)
(* accounts of the pool in memory.  Imports look the tokens up, insert a    *)
(* row per token and then add the account to the pool; deletions (by the    *)
(* administrator, by a deduplication that was previewed before, by the      *)
(* sweeps) mark the row and then remove the account; a refresh writes a new *)
(* token to its row, and a refused refresh or a 401 an error, whatever the  *)
(* row's status.  No two of these steps share a lock or a transaction, and  *)
(* a restart may come between any two.                                      *)
(* A token to import names an account at the upstream.  The e-mail address  *)
(* of the account, which its row learns at some time, plans, locks, usage   *)
(* and age are left out: a preview or a sweep may pick whatever rows they   *)
(* could make it pick.                                                      *)
(***************************************************************************)
EXTENDS Integers, Sequences, FiniteSets

CONSTANTS
    LcTokens,   \* tokens to import
    MaxRows,    \* rows ever inserted
    LcJobs      \* goroutines: administrators, imports, sweeps, refreshes and requests

ASSUME LifecycleAssumption == MaxRows \in Nat

VARIABLES
    lcRow,     \* the accounts table
    lcPool,    \* the accounts in memory, by row
    lcJob,     \* what each goroutine does next, and to which rows
    lcLate,    \* accounts added after their row was deleted
    lcUnsaved  \* accounts removed from memory whose row could not be written

lcVars == <<lcRow, lcPool, lcJob, lcLate, lcUnsaved>>

Rows == DOMAIN lcRow

\* kind: "rt" or "at", the token of the account; left: rows a sweep has still to delete;
\* seen: how many rows there were when the tokens were looked up.
LcIdle == [at |-> "idle", kind |-> "none", token |-> "none", rows |-> {}, left |-> {}, seen |-> 0]

LifecycleInit ==
    /\ lcRow = <<>>
    /\ lcPool = {}
    /\ lcJob = [j \in LcJobs |-> LcIdle]
    /\ lcLate = {} /\ lcUnsaved = {}

\* status = 'deleted', or status = 'error' with the message "deleted".
Removed(i) == lcRow[i].status \in {"deleted", "gone"}

JobAt(j, at, rows) == lcJob' = [lcJob EXCEPT ![j] = [LcIdle EXCEPT !.at = at, !.rows = rows]]
JobEnds(j) == lcJob' = [lcJob EXCEPT ![j] = LcIdle]

-----------------------------------------------------------------------------
\* Adding accounts.

stored(kind) == {lcRow[i].token : i \in {i \in Rows : /\ lcRow[i].kind = kind
                                                      /\ ~Removed(i) /\ ~lcRow[i].rotated}}

GetAllRefreshTokens == stored("rt")

GetAllAccessTokens == stored("at")

AddsOne(j, kind, t, seen) ==
    /\ lcJob[j].at = "idle"
    /\ lcJob' = [lcJob EXCEPT ![j] = [at |-> "insert", kind |-> kind, token |-> t,
                                      rows |-> {}, left |-> {}, seen |-> seen]]
    /\ UNCHANGED <<lcRow, lcPool, lcLate, lcUnsaved>>

\* The two forms of the admin page look nothing up.
AddAccount(j, t) == AddsOne(j, "rt", t, 0)

AddATAccount(j, t) == AddsOne(j, "at", t, 0)

\* A token that is stored is a duplicate; when the query fails, nothing is.
importAccountsCommon(j, kind, t) ==
    \/ /\ t \notin (IF kind = "rt" THEN GetAllRefreshTokens ELSE GetAllAccessTokens)
       /\ AddsOne(j, kind, t, Len(lcRow))
    \/ AddsOne(j, kind, t, 0)

importAccountsTXT(j, t) == importAccountsCommon(j, "rt", t)

importAccountsJSON(j, t) == \E kind \in {"rt", "at"} : importAccountsCommon(j, kind, t)

MigrateAccounts(j, t) == importAccountsCommon(j, "rt", t)

importAccountsATTXT(j, t) ==
    \/ t \notin GetAllAccessTokens /\ AddsOne(j, "at", t, Len(lcRow))
    \/ AddsOne(j, "at", t, 0)

\* InsertAccount and InsertATAccount.
Insert(j) ==
    /\ lcJob[j].at = "insert" /\ Len(lcRow) < MaxRows
    /\ lcRow' = Append(lcRow, [status |-> "active", kind |-> lcJob[j].kind, token |-> lcJob[j].token,
                               seen |-> lcJob[j].seen, rotated |-> FALSE])
    /\ JobAt(j, "add", {Len(lcRow) + 1})
    /\ UNCHANGED <<lcPool, lcLate, lcUnsaved>>

InsertFailed(j) ==
    /\ lcJob[j].at = "insert"
    /\ JobEnds(j)
    /\ UNCHANGED <<lcRow, lcPool, lcLate, lcUnsaved>>

written(rows, f) == [i \in Rows |-> IF i \in rows THEN f[i] ELSE lcRow[i]]

\* store.AddAccount.  The data of an access token are written to the row before it by an
\* import, after it by the form.
StoreAddAccount(j) ==
    /\ lcJob[j].at = "add"
    /\ lcPool' = lcPool \cup lcJob[j].rows
    /\ lcLate' = lcLate \cup {i \in lcJob[j].rows : lcRow[i].status # "active"}
    /\ JobEnds(j)
    /\ UNCHANGED <<lcRow, lcUnsaved>>

-----------------------------------------------------------------------------
\* Removing accounts.

\* SoftDeleteAccount and BatchSoftDeleteAccounts.
SoftDelete(rows) == lcRow' = written(rows, [i \in Rows |-> [lcRow[i] EXCEPT !.status = "deleted"]])

\* Of the rows an administrator sees, which are the active ones.
DeleteAccount(j, i) ==
    /\ lcJob[j].at = "idle"
    /\ lcRow[i].status = "active"
    /\ SoftDelete({i})
    /\ JobAt(j, "remove", {i})
    /\ UNCHANGED <<lcPool, lcLate, lcUnsaved>>

\* Of the rows whose address is known and the same, all but the winner.  A refresh token
\* counts for more than all that may speak for a row without one.
computeDuplicateGroups(t) ==
    LET losers(group) ==
            LET withRT == {i \in group : lcRow[i].kind = "rt"}
            IN  {group \ {winner} : winner \in IF withRT = {} THEN group ELSE withRT}
        groups == {g \in SUBSET {i \in Rows : lcRow[i].token = t /\ lcRow[i].status # "deleted"} :
                      Cardinality(g) > 1}
    IN  UNION {losers(g) : g \in groups}

ListDuplicateAccounts(j, t) ==
    /\ lcJob[j].at = "idle"
    /\ \E losers \in computeDuplicateGroups(t) : JobAt(j, "confirm", losers)
    /\ UNCHANGED <<lcRow, lcPool, lcLate, lcUnsaved>>

\* The confirmed rows are deleted as they are by now.
DedupeAccounts(j) ==
    /\ lcJob[j].at = "confirm"
    /\ SoftDelete(lcJob[j].rows)
    /\ JobAt(j, "remove", lcJob[j].rows)
    /\ UNCHANGED <<lcPool, lcLate, lcUnsaved>>

InUse(i) == \E j \in LcJobs : lcJob[j].at = "upstream" /\ i \in lcJob[j].rows

Sweeps(j, rows) ==
    /\ lcJob[j].at = "idle"
    /\ lcJob' = [lcJob EXCEPT ![j] = [LcIdle EXCEPT !.at = "sweep", !.left = rows]]
    /\ UNCHANGED <<lcRow, lcPool, lcLate, lcUnsaved>>

\* One account after the other, whether or not a request uses it.
CleanByRuntimeStatus(j, i) == i \in lcPool /\ Sweeps(j, {i})

CleanFullUsageAccounts(j, i) == i \in lcPool /\ ~InUse(i) /\ Sweeps(j, {i})

\* Collects first, then deletes all in one statement.
CleanExpiredAccounts(j) ==
    /\ lcJob[j].at = "idle"
    /\ \E rows \in SUBSET {i \in lcPool : ~InUse(i)} : rows # {} /\ JobAt(j, "expired", rows)
    /\ UNCHANGED <<lcRow, lcPool, lcLate, lcUnsaved>>

BatchSoftDelete(j) ==
    /\ lcJob[j].at = "expired"
    /\ SoftDelete(lcJob[j].rows)
    /\ JobAt(j, "remove", lcJob[j].rows)
    /\ UNCHANGED <<lcPool, lcLate, lcUnsaved>>

\* The statement has failed: one row after the other.
cleanExpiredFallback(j) ==
    /\ lcJob[j].at = "expired"
    /\ lcJob' = [lcJob EXCEPT ![j] = [LcIdle EXCEPT !.at = "sweep", !.left = lcJob[j].rows]]
    /\ UNCHANGED <<lcRow, lcPool, lcLate, lcUnsaved>>

sweepsOn(j, i, at, rows) ==
    lcJob' = [lcJob EXCEPT ![j] =
                 IF at = "sweep" /\ lcJob[j].left = {i} THEN LcIdle
                 ELSE [lcJob[j] EXCEPT !.at = at, !.rows = rows, !.left = @ \ {i}]]

SweepDeletes(j, i) ==
    /\ lcJob[j].at = "sweep" /\ i \in lcJob[j].left
    /\ SoftDelete({i})
    /\ sweepsOn(j, i, "remove", {i})
    /\ UNCHANGED <<lcPool, lcLate, lcUnsaved>>

SweepFails(j, i) ==
    /\ lcJob[j].at = "sweep" /\ i \in lcJob[j].left
    /\ sweepsOn(j, i, "sweep", {})
    /\ UNCHANGED <<lcRow, lcPool, lcLate, lcUnsaved>>

\* RemoveAccount, RemoveAccounts.
RemoveAccounts(j) ==
    /\ lcJob[j].at = "remove"
    /\ lcPool' = lcPool \ lcJob[j].rows
    /\ lcLate' = lcLate \ lcJob[j].rows
    /\ lcJob' = [lcJob EXCEPT ![j] = IF @.left = {} THEN LcIdle ELSE [@ EXCEPT !.at = "sweep", !.rows = {}]]
    /\ UNCHANGED <<lcRow, lcUnsaved>>

-----------------------------------------------------------------------------
\* A refresh or a request that has taken an account from the pool, and how it ends.

TakesAccount(j, i) ==
    /\ lcJob[j].at = "idle" /\ i \in lcPool
    /\ JobAt(j, "upstream", {i})
    /\ UNCHANGED <<lcRow, lcPool, lcLate, lcUnsaved>>

\* The row gets the refresh token of the answer, and thus another than was imported.
RefreshSucceeds(j) ==
    /\ lcJob[j].at = "upstream"
    /\ \A i \in lcJob[j].rows : lcRow[i].kind = "rt"
    /\ lcRow' = written(lcJob[j].rows, [i \in Rows |-> [lcRow[i] EXCEPT !.rotated = TRUE]])
    /\ JobEnds(j)
    /\ UNCHANGED <<lcPool, lcLate, lcUnsaved>>

\* DB.SetError, whatever the status was.
SetErrorOf(rows, status) == lcRow' = written(rows, [i \in Rows |-> [lcRow[i] EXCEPT !.status = status]])

\* The refresh token is refused.  The account stays in the pool.
RefreshRefused(j) ==
    /\ lcJob[j].at = "upstream"
    /\ SetErrorOf(lcJob[j].rows, "error")
    /\ JobEnds(j)
    /\ UNCHANGED <<lcPool, lcLate, lcUnsaved>>

\* A 401 or 402 with automatic cleaning: the error of SetError is ignored.
CleanedAt401(j) ==
    /\ lcJob[j].at = "upstream"
    /\ \/ SetErrorOf(lcJob[j].rows, "gone") /\ UNCHANGED lcUnsaved
       \/ lcUnsaved' = lcUnsaved \cup lcJob[j].rows /\ UNCHANGED lcRow
    /\ JobAt(j, "remove", lcJob[j].rows)
    /\ UNCHANGED <<lcPool, lcLate>>

UpstreamEnds(j) ==
    /\ lcJob[j].at = "upstream"
    /\ JobEnds(j)
    /\ UNCHANGED <<lcRow, lcPool, lcLate, lcUnsaved>>

\* Mutant: every row that is not deleted is loaded.
LoadNonDeleted ==
    /\ lcPool' = {i \in Rows : lcRow[i].status # "deleted"}
    /\ lcJob' = [j \in LcJobs |-> LcIdle]
    /\ lcLate' = {} /\ lcUnsaved' = {}
    /\ UNCHANGED lcRow

\* A restart: loadFromDB with ListActive.
LoadFromDB ==
    /\ lcPool' = {i \in Rows : lcRow[i].status = "active"}
    /\ lcJob' = [j \in LcJobs |-> LcIdle]
    /\ lcLate' = {} /\ lcUnsaved' = {}
    /\ UNCHANGED lcRow

Adding(j) ==
    \/ \E t \in LcTokens :
          \/ AddAccount(j, t) \/ AddATAccount(j, t)
          \/ importAccountsTXT(j, t) \/ importAccountsJSON(j, t) \/ importAccountsATTXT(j, t)
          \/ MigrateAccounts(j, t)
    \/ Insert(j) \/ InsertFailed(j) \/ StoreAddAccount(j)

Removing(j) ==
    \/ \E t \in LcTokens : ListDuplicateAccounts(j, t)
    \/ \E i \in Rows : \/ DeleteAccount(j, i) \/ CleanByRuntimeStatus(j, i)
                       \/ CleanFullUsageAccounts(j, i) \/ SweepDeletes(j, i) \/ SweepFails(j, i)
    \/ DedupeAccounts(j) \/ CleanExpiredAccounts(j) \/ BatchSoftDelete(j) \/ cleanExpiredFallback(j)
    \/ RemoveAccounts(j)

Using(j) ==
    \/ \E i \in Rows : TakesAccount(j, i)
    \/ RefreshSucceeds(j) \/ RefreshRefused(j) \/ CleanedAt401(j) \/ UpstreamEnds(j)

LifecycleNext == (\E j \in LcJobs : Adding(j) \/ Removing(j) \/ Using(j)) \/ LoadFromDB

LifecycleSpec == LifecycleInit /\ [][LifecycleNext]_lcVars

-----------------------------------------------------------------------------

Handling(at, i) == \E j \in LcJobs : lcJob[j].at = at /\ i \in lcJob[j].rows

\* Memory follows the table.  An account of the pool whose row is deleted is about to be
\* removed, and an active row outside the pool about to be added, with one exception
\* each: the account was added after its row had been deleted (DeleteAccount sees a row as
\* soon as it is inserted, StoreAddAccount comes later), and the row of a 401 could not be
\* written.  A restart ends both.
PoolFollowsTable ==
    \A i \in Rows :
        /\ i \in lcPool /\ Removed(i) => Handling("remove", i) \/ i \in lcLate
        /\ i \notin lcPool /\ lcRow[i].status = "active" =>
               Handling("add", i) \/ i \in lcUnsaved

\* A row with the token of an earlier active row comes only from adding without a look-up,
\* from two imports that both looked before either inserted, or after a refresh that
\* replaced the stored token: an import never inserts a token it could have seen.
DuplicatesExplained ==
    \A i, k \in Rows :
        /\ i < k /\ lcRow[i].kind = lcRow[k].kind /\ lcRow[i].token = lcRow[k].token
        /\ lcRow[i].status = "active"
        => i > lcRow[k].seen \/ lcRow[i].rotated

\* Table and pool stay together while accounts are imported, deleted, refreshed and used at
\* once, and no import stores twice what it could have seen (PoolFollowsTable,
\* DuplicatesExplained).
LifecycleSound == PoolFollowsTable /\ DuplicatesExplained

=============================================================================
