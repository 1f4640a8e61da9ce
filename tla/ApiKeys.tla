------------------------------- MODULE ApiKeys --------------------------------
(***************************************************************************)
(* API key authentication.  proxy.Handler keeps the rows of api_keys for    *)
(* five minutes; the admin API changes the table and then makes the cache   *)
(* expire (InvalidateAPIKeyCache).  refreshDBKeys reads the table with the  *)
(* write lock of dbKeysMu held, so that an invalidation waits for it.  The  *)
(* query, the timeout of the cache and failed statements are steps of their *)
(* own.                                                                     *)
(***************************************************************************)
EXTENDS Integers, FiniteSets

CONSTANTS
    ApiKeySet,     \* keys the admin API creates and deletes
    ConfigKeys,    \* Handler.configKeys, from the environment
    AkClients,     \* requests that authenticate
    AkAdmins,      \* requests to the admin API
    Nobody

ASSUME ApiKeysAssumption ==
    Nobody \notin AkClients \cup ApiKeySet /\ ApiKeySet # {} /\ ConfigKeys \cap ApiKeySet = {}

VARIABLES
    akTable,    \* api_keys
    akCache,    \* Handler.dbKeys, and whether dbKeysUntil is in the future
    akLock,     \* the writer that holds dbKeysMu
    akClient,
    akAdmin,
    akSettled   \* what the statements that have returned say of each key

akVars == <<akTable, akCache, akLock, akClient, akAdmin, akSettled>>

\* known: akSettled when the request began, "open" when the key was changed since.
\* failed: its own query failed.
NoClient == [pc |-> "idle", key |-> Nobody, rows |-> {}, known |-> "open", failed |-> FALSE,
             ok |-> FALSE]
\* alone: no other request changed the same key meanwhile.
NoAdmin  == [pc |-> "idle", op |-> "create", key |-> Nobody, alone |-> TRUE]

ApiKeysInit ==
    /\ akTable = {}
    /\ akCache = [keys |-> {}, fresh |-> FALSE]
    /\ akLock = Nobody
    /\ akClient = [c \in AkClients |-> NoClient]
    /\ akAdmin = [m \in AkAdmins |-> NoAdmin]
    /\ akSettled = [k \in ApiKeySet |-> "out"]

-----------------------------------------------------------------------------

\* The end of resolveAPIKey.
decide(c, rows, failed) ==
    akClient' = [akClient EXCEPT ![c].pc = "decided", ![c].failed = failed,
                                 ![c].ok = akClient[c].key \in ConfigKeys \cup rows]

\* authMiddleware with a key of the configuration never looks at the table.
authMiddleware(c, k) ==
    /\ akClient[c].pc = "idle"
    /\ akClient' = [akClient EXCEPT ![c] =
           [NoClient EXCEPT !.key = k,
                            !.pc = IF k \in ConfigKeys THEN "decided" ELSE "look",
                            !.ok = k \in ConfigKeys,
                            !.known = IF k \in ApiKeySet THEN akSettled[k] ELSE "open"]]
    /\ UNCHANGED <<akTable, akCache, akLock, akAdmin, akSettled>>

\* The first look of refreshDBKeys, under the read lock.
LookCached(c) ==
    /\ akClient[c].pc = "look"
    /\ akLock = Nobody
    /\ IF akCache.fresh
       THEN decide(c, akCache.keys, FALSE)
       ELSE akClient' = [akClient EXCEPT ![c].pc = "upgrade"]
    /\ UNCHANGED <<akTable, akCache, akLock, akAdmin, akSettled>>

\* The write lock and the second look.
LockAndLook(c) ==
    /\ akClient[c].pc = "upgrade"
    /\ akLock = Nobody
    /\ IF akCache.fresh
       THEN decide(c, akCache.keys, FALSE) /\ UNCHANGED akLock
       ELSE akClient' = [akClient EXCEPT ![c].pc = "query"] /\ akLock' = c
    /\ UNCHANGED <<akTable, akCache, akAdmin, akSettled>>

ListAPIKeys(c) ==
    /\ akClient[c].pc = "query"
    /\ akClient' = [akClient EXCEPT ![c].pc = "install", ![c].rows = akTable]
    /\ UNCHANGED <<akTable, akCache, akLock, akAdmin, akSettled>>

\* A failed query leaves the old map in use, and expired.
ListFails(c) ==
    /\ akClient[c].pc = "query"
    /\ decide(c, akCache.keys, TRUE)
    /\ akLock' = Nobody
    /\ UNCHANGED <<akTable, akCache, akAdmin, akSettled>>

Install(c) ==
    /\ akClient[c].pc = "install"
    /\ akCache' = [keys |-> akClient[c].rows, fresh |-> TRUE]
    /\ akLock' = Nobody
    /\ decide(c, akClient[c].rows, FALSE)
    /\ UNCHANGED <<akTable, akAdmin, akSettled>>

Done(c) ==
    /\ akClient[c].pc = "decided"
    /\ akClient' = [akClient EXCEPT ![c] = NoClient]
    /\ UNCHANGED <<akTable, akCache, akLock, akAdmin, akSettled>>

\* Five minutes pass.
CacheExpires ==
    /\ akCache.fresh
    /\ akCache' = [akCache EXCEPT !.fresh = FALSE]
    /\ UNCHANGED <<akTable, akLock, akClient, akAdmin, akSettled>>

-----------------------------------------------------------------------------

\* CreateAPIKey or DeleteAPIKey begins.
AdminBegins(m, op, k) ==
    /\ akAdmin[m].pc = "idle"
    /\ akAdmin' = [n \in AkAdmins |->
           IF n = m THEN [pc |-> "statement", op |-> op, key |-> k,
                          alone |-> \A o \in AkAdmins : akAdmin[o].key # k]
           ELSE [akAdmin[n] EXCEPT !.alone = @ /\ akAdmin[n].key # k]]
    /\ akSettled' = [akSettled EXCEPT ![k] = "open"]
    /\ akClient' = [c \in AkClients |->
           IF akClient[c].key = k THEN [akClient[c] EXCEPT !.known = "open"] ELSE akClient[c]]
    /\ UNCHANGED <<akTable, akCache, akLock>>

effect(m) ==
    akTable' = IF akAdmin[m].op = "create" THEN akTable \cup {akAdmin[m].key}
               ELSE akTable \ {akAdmin[m].key}

\* InsertAPIKey or DeleteAPIKey of the database.
Statement(m) ==
    /\ akAdmin[m].pc = "statement"
    /\ effect(m)
    /\ akAdmin' = [akAdmin EXCEPT ![m].pc = "invalidate"]
    /\ UNCHANGED <<akCache, akLock, akClient, akSettled>>

\* The statement fails, or its answer is lost after it took effect: the handler answers
\* 500 and does not invalidate.
StatementFails(m) ==
    /\ akAdmin[m].pc = "statement"
    /\ effect(m) \/ UNCHANGED akTable
    /\ akAdmin' = [akAdmin EXCEPT ![m] = NoAdmin]
    /\ UNCHANGED <<akCache, akLock, akClient, akSettled>>

\* Mutant: the cache is marked without waiting for the refresh that holds the lock.
invalidateUnlocked(m) ==
    /\ akAdmin[m].pc = "invalidate"
    /\ akCache' = [akCache EXCEPT !.fresh = FALSE]
    /\ akAdmin' = [akAdmin EXCEPT ![m].pc = "answer"]
    /\ UNCHANGED <<akTable, akLock, akClient, akSettled>>

InvalidateAPIKeyCache(m) ==
    /\ akAdmin[m].pc = "invalidate"
    /\ akLock = Nobody
    /\ akCache' = [akCache EXCEPT !.fresh = FALSE]
    /\ akAdmin' = [akAdmin EXCEPT ![m].pc = "answer"]
    /\ UNCHANGED <<akTable, akLock, akClient, akSettled>>

\* 200.  The key is settled unless another change of it ran at the same time.
AdminAnswers(m) ==
    LET k == akAdmin[m].key
    IN  /\ akAdmin[m].pc = "answer"
        /\ akAdmin' = [akAdmin EXCEPT ![m] = NoAdmin]
        /\ akSettled' = [akSettled EXCEPT ![k] =
               IF ~akAdmin[m].alone THEN "open"
               ELSE IF akAdmin[m].op = "create" THEN "in" ELSE "out"]
        /\ UNCHANGED <<akTable, akCache, akLock, akClient>>

ApiKeysNext ==
    \/ \E c \in AkClients :
          \/ \E k \in ApiKeySet \cup ConfigKeys : authMiddleware(c, k)
          \/ LookCached(c) \/ LockAndLook(c) \/ ListAPIKeys(c) \/ ListFails(c)
          \/ Install(c) \/ Done(c)
    \/ CacheExpires
    \/ \E m \in AkAdmins :
          \/ \E op \in {"create", "delete"}, k \in ApiKeySet : AdminBegins(m, op, k)
          \/ Statement(m) \/ StatementFails(m) \/ InvalidateAPIKeyCache(m) \/ AdminAnswers(m)

ApiKeysSpec == ApiKeysInit /\ [][ApiKeysNext]_akVars

-----------------------------------------------------------------------------

\* Types; with the lock held exactly while a refresh queries and installs.
ApiKeysTypeOK ==
    /\ akTable \subseteq ApiKeySet
    /\ akCache \in [keys : SUBSET ApiKeySet, fresh : BOOLEAN]
    /\ akLock \in AkClients \cup {Nobody}
    /\ akClient \in [AkClients ->
          [pc : {"idle", "look", "upgrade", "query", "install", "decided"},
           key : ApiKeySet \cup ConfigKeys \cup {Nobody}, rows : SUBSET ApiKeySet,
           known : {"open", "in", "out"}, failed : BOOLEAN, ok : BOOLEAN]]
    /\ akAdmin \in [AkAdmins ->
          [pc : {"idle", "statement", "invalidate", "answer"}, op : {"create", "delete"},
           key : ApiKeySet \cup {Nobody}, alone : BOOLEAN]]
    /\ akSettled \in [ApiKeySet -> {"open", "in", "out"}]
    /\ \A c \in AkClients : akClient[c].pc \in {"query", "install"} <=> akLock = c

\* The cache in force never contradicts an admin request that has been answered: the
\* query of a refresh that began before the change is either done before the
\* invalidation or sees the change (handler.go:208-226, 257).
CacheAgrees ==
    akCache.fresh => \A k \in ApiKeySet :
        /\ akSettled[k] = "out" => k \notin akCache.keys
        /\ akSettled[k] = "in"  => k \in akCache.keys

\* Once DeleteAPIKey has answered, a request that begins later is refused, and once
\* CreateAPIKey has answered it is let in: the five minutes of the cache do not apply,
\* unless the request's own query fails, which leaves the old map in use.
DeletedKeyRefused ==
    \A c \in AkClients :
       akClient[c].pc = "decided" /\ ~akClient[c].failed =>
          /\ akClient[c].known = "out" => ~akClient[c].ok
          /\ akClient[c].known = "in"  => akClient[c].ok

\* A change of a key takes effect when the administrator is answered, although the proxy
\* keeps the keys for five minutes and loads them while others change them (CacheAgrees,
\* DeletedKeyRefused).
KeysSound == ApiKeysTypeOK /\ CacheAgrees /\ DeletedKeyRefused

=============================================================================
