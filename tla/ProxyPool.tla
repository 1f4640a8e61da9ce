------------------------------ MODULE ProxyPool ------------------------------
(***************************************************************************)
(* The enhanced proxy pool: entries with a health status, and the list of   *)
(* healthy entries that Select reads.  A request that succeeded or failed,  *)
(* and the result of a health check, find the entry of an URL under the     *)
(* pool's lock, change it under the entry's own lock, and rebuild the list  *)
(* under the pool's lock again; proxies come and go between these steps.    *)
(* An entry is a pointer: an URL that is removed and added again has a new  *)
(* one, and whoever found the old one keeps it.  Statistics, weights and    *)
(* success rates are left out: a selection may fall on any healthy entry.   *)
(***************************************************************************)
EXTENDS Integers, Sequences, FiniteSets, FiniteSetsExt

CONSTANTS
    Urls,                \* proxy URLs
    PpWorkers,           \* goroutines: requests and health checks
    MaxPpEntries,        \* entries ever created
    IsolationThreshold,  \* consecutive failures that isolate a proxy
    NoEntry

ASSUME ProxyPoolAssumption ==
    /\ MaxPpEntries \in Nat
    /\ IsFiniteSet(PpWorkers)
    /\ IsolationThreshold \in Nat \ {0}
    /\ NoEntry \notin 1..MaxPpEntries

VARIABLES
    ppEntry,    \* the entries created so far
    ppPool,     \* proxies: those that are in the pool
    ppHealthy,  \* healthy: the list Select reads
    ppChecks,   \* URLs a running health check has not reported yet
    ppJob,      \* what each goroutine does: its next step, the operation and the entry
    ppHeld      \* the entry whose connection each goroutine holds

ppVars == <<ppEntry, ppPool, ppHealthy, ppChecks, ppJob, ppHeld>>

PpIdle == [at |-> "idle", op |-> "none", entry |-> NoEntry]

ProxyPoolInit ==
    /\ ppEntry = <<>>
    /\ ppPool = {} /\ ppHealthy = {} /\ ppChecks = {}
    /\ ppJob = [w \in PpWorkers |-> PpIdle]
    /\ ppHeld = [w \in PpWorkers |-> NoEntry]

\* served: isolationDuration has passed since IsolatedAt.
NewProxyEntry(url) ==
    [url |-> url, healthy |-> TRUE, status |-> "healthy", fails |-> 0, served |-> FALSE, conns |-> 0]

findEntry(url) == {e \in ppPool : ppEntry[e].url = url}

\* rebuildHealthyList over the entries in pool.
rebuildHealthyList(pool, entries) ==
    {e \in pool : entries[e].healthy /\ entries[e].status = "healthy"}

-----------------------------------------------------------------------------
\* AddProxy and RemoveProxy, by Init or by ReloadFromDB: one lock for change and list.

AddProxy(url) ==
    /\ findEntry(url) = {}
    /\ Len(ppEntry) < MaxPpEntries
    /\ ppEntry' = Append(ppEntry, NewProxyEntry(url))
    /\ ppPool' = ppPool \cup {Len(ppEntry) + 1}
    /\ ppHealthy' = rebuildHealthyList(ppPool', ppEntry')
    /\ UNCHANGED <<ppChecks, ppJob, ppHeld>>

RemoveProxy(url) ==
    /\ findEntry(url) # {}
    /\ ppPool' = ppPool \ findEntry(url)
    /\ ppHealthy' = rebuildHealthyList(ppPool', ppEntry)
    /\ UNCHANGED <<ppEntry, ppChecks, ppJob, ppHeld>>

\* RecoverIsolatedProxies, also under the pool's lock.
RecoverIsolatedProxies ==
    LET over == {e \in ppPool : ppEntry[e].status = "isolated" /\ ppEntry[e].served}
    IN  /\ over # {}
        /\ ppEntry' = [e \in DOMAIN ppEntry |->
                          IF e \in over
                          THEN [ppEntry[e] EXCEPT !.status = "healthy", !.healthy = TRUE, !.fails = 0]
                          ELSE ppEntry[e]]
        /\ ppHealthy' = rebuildHealthyList(ppPool, ppEntry')
        /\ UNCHANGED <<ppPool, ppChecks, ppJob, ppHeld>>

IsolationPasses(e) ==
    /\ ppEntry[e].status = "isolated" /\ ~ppEntry[e].served
    /\ ppEntry' = [ppEntry EXCEPT ![e].served = TRUE]
    /\ UNCHANGED <<ppPool, ppHealthy, ppChecks, ppJob, ppHeld>>

-----------------------------------------------------------------------------
\* MarkSuccess, MarkFailure, processHealthCheckResult: find, change, rebuild.

Finds(w, op, url) ==
    /\ ppJob[w].at = "idle"
    /\ \E e \in findEntry(url) : ppJob' = [ppJob EXCEPT ![w] = [at |-> "found", op |-> op, entry |-> e]]
    /\ UNCHANGED <<ppEntry, ppPool, ppHealthy, ppHeld>>

Mark(w, op, url) == Finds(w, op, url) /\ UNCHANGED ppChecks

\* HealthCheck takes the URLs it checks first, and their results come in any order.
HealthCheck ==
    /\ ppChecks = {} /\ ppPool # {}
    /\ ppChecks' = {ppEntry[e].url : e \in ppPool}
    /\ UNCHANGED <<ppEntry, ppPool, ppHealthy, ppJob, ppHeld>>

processHealthCheckResult(w, op, url) ==
    /\ url \in ppChecks
    /\ ppChecks' = ppChecks \ {url}
    /\ \/ Finds(w, op, url)
       \/ findEntry(url) = {} /\ UNCHANGED <<ppEntry, ppPool, ppHealthy, ppJob, ppHeld>>

isolated(entry) == [entry EXCEPT !.status = "isolated", !.served = FALSE]

\* A count past the threshold is not told apart from the threshold.
failed(entry) == [entry EXCEPT !.fails = Min({@ + 1, IsolationThreshold})]

\* A failed check overwrites the status, then isolates; a passed one leaves any status but
\* that of an isolation that is over.
changed(entry, op) ==
    CASE op = "success" ->
           [entry EXCEPT !.fails = 0, !.status = IF @ = "isolated" THEN "healthy" ELSE @]
      [] op = "failure" ->
           LET f == failed(entry)
           IN  IF f.status # "isolated" /\ f.fails >= IsolationThreshold
               THEN [isolated(f) EXCEPT !.healthy = FALSE] ELSE f
      [] op = "passed" ->
           [entry EXCEPT !.healthy = TRUE, !.fails = 0,
                         !.status = IF @ = "isolated" /\ entry.served THEN "healthy" ELSE @]
      [] op = "unreachable" ->
           LET f == [failed(entry) EXCEPT !.healthy = FALSE, !.status = "unhealthy"]
           IN  IF f.fails >= IsolationThreshold THEN isolated(f) ELSE f

\* Mutant: the list is rebuilt only when the status has changed.
UpdateOnStatusOnly(w) ==
    /\ ppJob[w].at = "found" /\ ppJob[w].op \in {"success", "failure", "passed", "unreachable"}
    /\ LET e == ppJob[w].entry
       IN  /\ ppEntry' = [ppEntry EXCEPT ![e] = changed(@, ppJob[w].op)]
           /\ ppJob' = [ppJob EXCEPT ![w] = IF ppEntry'[e].status = ppEntry[e].status THEN PpIdle
                                            ELSE [@ EXCEPT !.at = "rebuild"]]
    /\ UNCHANGED <<ppPool, ppHealthy, ppChecks, ppHeld>>

Update(w) ==
    /\ ppJob[w].at = "found" /\ ppJob[w].op \in {"success", "failure", "passed", "unreachable"}
    /\ ppEntry' = [ppEntry EXCEPT ![ppJob[w].entry] = changed(@, ppJob[w].op)]
    /\ ppJob' = [ppJob EXCEPT ![w].at = "rebuild"]
    /\ UNCHANGED <<ppPool, ppHealthy, ppChecks, ppHeld>>

rebuildHealthyListIfNeeded(w) ==
    /\ ppJob[w].at = "rebuild"
    /\ ppHealthy' = rebuildHealthyList(ppPool, ppEntry)
    /\ ppJob' = [ppJob EXCEPT ![w] = PpIdle]
    /\ UNCHANGED <<ppEntry, ppPool, ppChecks, ppHeld>>

-----------------------------------------------------------------------------
\* A request: Select, AcquireConnection, ReleaseConnection.

\* The URL is one that Select returned, now or long ago.
FindToAcquire(w, url) == ppHeld[w] = NoEntry /\ Finds(w, "acquire", url) /\ UNCHANGED ppChecks

AcquireConnection(w) ==
    /\ ppJob[w].at = "found" /\ ppJob[w].op = "acquire"
    /\ LET e == ppJob[w].entry
       IN  IF ppEntry[e].status = "healthy"
           THEN /\ ppEntry' = [ppEntry EXCEPT ![e].conns = @ + 1]
                /\ ppHeld' = [ppHeld EXCEPT ![w] = e]
           ELSE UNCHANGED <<ppEntry, ppHeld>>
    /\ ppJob' = [ppJob EXCEPT ![w] = PpIdle]
    /\ UNCHANGED <<ppPool, ppHealthy, ppChecks>>

\* ReleaseConnection looks the URL up again, reads the counter, and then decrements it.
FindToRelease(w) ==
    /\ ppJob[w].at = "idle" /\ ppHeld[w] # NoEntry
    /\ LET found == findEntry(ppEntry[ppHeld[w]].url)
       IN  IF \E e \in found : ppEntry[e].conns > 0
           THEN \E e \in found :
                   /\ ppJob' = [ppJob EXCEPT ![w] = [at |-> "drop", op |-> "release", entry |-> e]]
                   /\ UNCHANGED ppHeld
           ELSE /\ ppHeld' = [ppHeld EXCEPT ![w] = NoEntry]
                /\ UNCHANGED ppJob
    /\ UNCHANGED <<ppEntry, ppPool, ppHealthy, ppChecks>>

ReleaseConnection(w) ==
    /\ ppJob[w].at = "drop"
    /\ ppEntry' = [ppEntry EXCEPT ![ppJob[w].entry].conns = @ - 1]
    /\ ppHeld' = [ppHeld EXCEPT ![w] = NoEntry]
    /\ ppJob' = [ppJob EXCEPT ![w] = PpIdle]
    /\ UNCHANGED <<ppPool, ppHealthy, ppChecks>>

Goroutine(w) ==
    \/ \E url \in Urls :
          \/ \E op \in {"success", "failure"} : Mark(w, op, url)
          \/ \E op \in {"passed", "unreachable"} : processHealthCheckResult(w, op, url)
          \/ FindToAcquire(w, url)
    \/ Update(w) \/ rebuildHealthyListIfNeeded(w)
    \/ AcquireConnection(w)
    \/ FindToRelease(w) \/ ReleaseConnection(w)

ProxyPoolNext ==
    \/ \E url \in Urls : AddProxy(url) \/ RemoveProxy(url)
    \/ \E e \in DOMAIN ppEntry : IsolationPasses(e)
    \/ RecoverIsolatedProxies \/ HealthCheck
    \/ \E w \in PpWorkers : Goroutine(w)

ProxyPoolSpec == ProxyPoolInit /\ [][ProxyPoolNext]_ppVars

-----------------------------------------------------------------------------

\* Whenever no goroutine is between its change of an entry and its rebuild of the list,
\* the list Select reads holds exactly the usable entries of the pool, whatever was
\* marked, checked, added or removed at the same time (rebuildHealthyList).
HealthyListCurrent ==
    (\A w \in PpWorkers : ppJob[w].at # "rebuild")
        => ppHealthy = rebuildHealthyList(ppPool, ppEntry)

\* The counter of a proxy that has been in the pool from the start is the number of
\* connections held through it: no refused or failed attempt leaves one behind, and no
\* release takes another's.  (The counter of an entry that replaced a removed one may
\* even become negative: two goroutines release, one of them for the old entry, and both
\* read 1 before either decrements.)
ConnectionsCounted ==
    \A e \in ppPool :
        (\A d \in 1..(e - 1) : ppEntry[d].url # ppEntry[e].url)
            => ppEntry[e].conns = Cardinality({w \in PpWorkers : ppHeld[w] = e})

\* The two things the pool derives from its entries, the list of healthy proxies and the
\* connection counters, stay right under concurrent marks, checks, additions and removals
\* (HealthyListCurrent, ConnectionsCounted).
ProxiesSound == HealthyListCurrent /\ ConnectionsCounted

=============================================================================
