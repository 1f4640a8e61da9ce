---------------------------- MODULE Services_proofs ----------------------------
(***************************************************************************)
(* Theorems about components that serve the request handlers and the       *)
(* administrator: API keys, the dialog collector, OAuth sessions, the scan *)
(* of the pool, the keepalive writers, the response cache, the usage log   *)
(* and the rate limiter.  They share no state; each has an inductive       *)
(* invariant of its own.                                                   *)
(***************************************************************************)
EXTENDS ApiKeys, DialogCollector, OAuthSessions, LegacyScan, Keepalive, ResponseCache,
        RateLimit, UsageLog, FiniteSetTheorems, TLAPS

-----------------------------------------------------------------------------
(* API keys. *)

\* What an administrator has changed, or is about to be told of, as a set of keys has it.
Shows(m, keys) == akAdmin[m].op = "create" <=> akAdmin[m].key \in keys

Agrees(keys) ==
    /\ \A k \in ApiKeySet : /\ akSettled[k] = "out" => k \notin keys
                            /\ akSettled[k] = "in"  => k \in keys
    /\ \A m \in AkAdmins : akAdmin[m].pc = "answer" /\ akAdmin[m].alone => Shows(m, keys)

\* While a key is settled nobody changes it, and who changes it alone is the only one.
ChangesKnown ==
    /\ \A m \in AkAdmins : akAdmin[m].pc # "idle" => akAdmin[m].key \in ApiKeySet
    /\ \A m \in AkAdmins : akAdmin[m].pc = "idle" => akAdmin[m].key = Nobody
    /\ \A m \in AkAdmins, k \in ApiKeySet : akSettled[k] # "open" => akAdmin[m].key # k
    /\ \A m, n \in AkAdmins :
          akAdmin[m].pc # "idle" /\ akAdmin[m].alone /\ akAdmin[n].key = akAdmin[m].key => m = n

\* The table has what was settled, and what a lone change has written since.
TableAgrees ==
    /\ Agrees(akTable)
    /\ \A m \in AkAdmins :
          akAdmin[m].pc = "invalidate" /\ akAdmin[m].alone => Shows(m, akTable)

\* The rows of a refresh are those of the table until an invalidation waits for them.
RowsAgree == \A c \in AkClients : akClient[c].pc = "install" => Agrees(akClient[c].rows)

\* What a request knows of its key is still so.
StillKnown ==
    \A c \in AkClients :
        akClient[c].known # "open" =>
            akClient[c].key \in ApiKeySet /\ akSettled[akClient[c].key] = akClient[c].known

AkInv ==
    /\ ApiKeysTypeOK
    /\ ChangesKnown
    /\ TableAgrees
    /\ akCache.fresh => Agrees(akCache.keys)
    /\ RowsAgree
    /\ StillKnown
    /\ DeletedKeyRefused

-----------------------------------------------------------------------------
(* The dialog collector. *)

\* Where the goroutine is says what it has seen and how much it holds.
FlusherStage ==
    /\ dcFlusher.pc \in {"select", "drain"} => dcFlusher.batch < BatchSize
    /\ dcFlusher.pc \in {"drain", "flushDrain", "flushLast", "gone"} => dcStopped
    /\ dcFlusher.pc \in {"flushLast", "gone"} /\ ~dcCount.late => dcQueue = 0

\* The rows of the batch that have been inserted are in the table.
RowsInserted ==
    /\ dcFlusher.done <= dcFlusher.batch
    /\ dcCount.written + dcFlusher.done <= dcRows

DcInv ==
    /\ DialogCollectorTypeOK
    /\ FlusherStage
    /\ RowsInserted
    /\ CountersAddUp
    /\ RowsWithinCounters

-----------------------------------------------------------------------------
(* OAuth sessions. *)

OaTypeOK ==
    /\ oaSession \in [OaSessions -> {"none", "live", "expired"}]
    /\ oaCallback \in [OaSessions -> BOOLEAN]
    /\ oaResult \in [OaSessions -> {"none", "ok", "failed"}]
    /\ oaCode \in [OaSessions -> {"none", "awaited", "issued", "used"}]
    /\ oaJob \in [OaHandlers -> [at : {"idle", "exchange", "insert", "add", "result"},
                                 way : {"none", "callback", "form"},
                                 session : OaSessions \cup {NoSession}]]
    /\ oaRows \in [OaSessions -> Nat]
    /\ oaPool \in [OaSessions -> Nat]
    /\ oaReported \in [OaSessions -> SUBSET {"ok", "failed", "waiting", "processing"}]

Exchanged(h) == oaJob[h].at \in {"insert", "add", "result"}

\* The code is exchanged by one request, and only that one writes.
OneExchange ==
    /\ \A h \in OaHandlers : oaJob[h].at # "idle" => oaJob[h].session \in OaSessions
    /\ \A h \in OaHandlers : Exchanged(h) => oaCode[oaJob[h].session] = "used"
    /\ \A h, g \in OaHandlers :
          Exchanged(h) /\ Exchanged(g) /\ oaJob[h].session = oaJob[g].session => h = g

\* What has been written by then.
Written ==
    /\ \A s \in OaSessions : oaCode[s] # "used" => oaRows[s] = 0 /\ oaPool[s] = 0
    /\ \A h \in OaHandlers :
          /\ oaJob[h].at = "insert" => oaRows[oaJob[h].session] = 0 /\ oaPool[oaJob[h].session] = 0
          /\ oaJob[h].at = "add" => oaRows[oaJob[h].session] = 1 /\ oaPool[oaJob[h].session] = 0
          /\ oaJob[h].at = "result" => oaRows[oaJob[h].session] = 1 /\ oaPool[oaJob[h].session] = 1

ResultIsTrue == \A s \in OaSessions : oaResult[s] = "ok" => oaRows[s] > 0 /\ oaPool[s] > 0

OaInv ==
    /\ OaTypeOK
    /\ OneExchange
    /\ Written
    /\ ResultIsTrue
    /\ OneAccountPerConsent
    /\ SuccessIsTrue

-----------------------------------------------------------------------------
(* API keys: the proof. *)

ClientRec == [pc : {"idle", "look", "upgrade", "query", "install", "decided"},
              key : ApiKeySet \cup ConfigKeys \cup {Nobody}, rows : SUBSET ApiKeySet,
              known : {"open", "in", "out"}, failed : BOOLEAN, ok : BOOLEAN]

AdminRec == [pc : {"idle", "statement", "invalidate", "answer"}, op : {"create", "delete"},
             key : ApiKeySet \cup {Nobody}, alone : BOOLEAN]

\* What the invariant says of each variable.
LEMMA AkTypes ==
    ASSUME AkInv
    PROVE  /\ akTable \subseteq ApiKeySet
           /\ akCache \in [keys : SUBSET ApiKeySet, fresh : BOOLEAN]
           /\ akLock \in AkClients \cup {Nobody}
           /\ akClient \in [AkClients -> ClientRec] /\ akAdmin \in [AkAdmins -> AdminRec]
           /\ akSettled \in [ApiKeySet -> {"open", "in", "out"}]
           /\ \A c \in AkClients : akClient[c].pc \in {"query", "install"} <=> akLock = c
BY DEF AkInv, ApiKeysTypeOK, ClientRec, AdminRec

\* What a set of keys agrees with, while no change begins or is answered.
LEMMA AgreesKept ==
    ASSUME UNCHANGED <<akSettled, akAdmin>>
    PROVE  \A keys : Agrees(keys)' <=> Agrees(keys)
BY DEF Agrees, Shows

\* A request takes a step and the administrators wait.
LEMMA ClientKeeps ==
    ASSUME AkInv, NEW c \in AkClients, NEW v \in ClientRec,
           akClient' = [akClient EXCEPT ![c] = v], UNCHANGED <<akTable, akAdmin, akSettled>>,
           akCache' \in [keys : SUBSET ApiKeySet, fresh : BOOLEAN],
           akCache'.fresh => Agrees(akCache'.keys),
           akLock' \in AkClients \cup {Nobody},
           \A d \in AkClients \ {c} : akLock' = d <=> akLock = d,
           v.pc \in {"query", "install"} <=> akLock' = c,
           v.pc = "install" => Agrees(v.rows),
           v.known # "open" => v.key \in ApiKeySet /\ akSettled[v.key] = v.known,
           v.pc = "decided" /\ ~v.failed => /\ v.known = "out" => ~v.ok
                                            /\ v.known = "in"  => v.ok
    PROVE  AkInv'
<1>1. akClient'[c] = v /\ \A d \in AkClients \ {c} : akClient'[d] = akClient[d]
  BY AkTypes
<1>2. \A keys : Agrees(keys)' <=> Agrees(keys)
  BY AgreesKept
<1>3. ApiKeysTypeOK'
  <2>1. akClient' \in [AkClients -> ClientRec]
    BY AkTypes
  <2>2. \A d \in AkClients : akClient'[d].pc \in {"query", "install"} <=> akLock' = d
    BY <1>1, AkTypes
  <2> QED
    BY <2>1, <2>2, AkTypes DEF ApiKeysTypeOK, ClientRec, AdminRec
<1>4. ChangesKnown'
  BY DEF AkInv, ChangesKnown
<1>5. TableAgrees'
  BY <1>2 DEF AkInv, TableAgrees, Shows
<1>6. (akCache.fresh => Agrees(akCache.keys))'
  BY <1>2
<1>7. RowsAgree'
  BY <1>1, <1>2 DEF AkInv, RowsAgree
<1>8. StillKnown'
  BY <1>1 DEF AkInv, StillKnown
<1>9. DeletedKeyRefused'
  BY <1>1 DEF AkInv, DeletedKeyRefused
<1> QED
  BY <1>3, <1>4, <1>5, <1>6, <1>7, <1>8, <1>9 DEF AkInv

\* A request that decides by keys that agree decides right.
LEMMA DecideKeeps ==
    ASSUME AkInv, NEW c \in AkClients, akClient[c].pc \in {"look", "upgrade", "query", "install"},
           NEW keys \in SUBSET ApiKeySet, NEW failed \in BOOLEAN, decide(c, keys, failed),
           ~failed => Agrees(keys),
           UNCHANGED <<akTable, akAdmin, akSettled>>,
           akCache' \in [keys : SUBSET ApiKeySet, fresh : BOOLEAN],
           akCache'.fresh => Agrees(akCache'.keys),
           akLock' = IF akClient[c].pc \in {"query", "install"} THEN Nobody ELSE akLock
    PROVE  AkInv'
<1> DEFINE v == [akClient[c] EXCEPT !.pc = "decided", !.failed = failed,
                                    !.ok = akClient[c].key \in ConfigKeys \cup keys]
<1>1. akClient[c] \in ClientRec
  BY AkTypes
<1>2. PICK b \in BOOLEAN : b = (akClient[c].key \in ConfigKeys \cup keys)
  <2>1. CASE akClient[c].key \in ConfigKeys \cup keys
    <3>1. TRUE = (akClient[c].key \in ConfigKeys \cup keys)
      BY <2>1
    <3> QED
      BY <3>1
  <2>2. CASE akClient[c].key \notin ConfigKeys \cup keys
    <3>1. FALSE = (akClient[c].key \in ConfigKeys \cup keys)
      BY <2>2
    <3> QED
      BY <3>1
  <2> QED
    BY <2>1, <2>2
<1>3. akClient' = [akClient EXCEPT ![c] = [akClient[c] EXCEPT !.pc = "decided", !.failed = failed,
                                                              !.ok = b]]
  BY <1>2, AkTypes DEF decide
<1> DEFINE w == [akClient[c] EXCEPT !.pc = "decided", !.failed = failed, !.ok = b]
<1>4. /\ w \in ClientRec /\ w.pc = "decided" /\ w.failed = failed /\ w.ok = b
      /\ w.key = akClient[c].key /\ w.known = akClient[c].known
  BY <1>1 DEF ClientRec
<1>5. akClient' = [akClient EXCEPT ![c] = w]
  BY <1>3
<1> HIDE DEF w
<1>6. w.known # "open" => w.key \in ApiKeySet /\ akSettled[w.key] = w.known
  BY <1>4 DEF AkInv, StillKnown
<1>7. ~w.failed => /\ w.known = "out" => ~w.ok
                   /\ w.known = "in"  => w.ok
  <2>1. w.ok <=> w.key \in ConfigKeys \cup keys
    BY <1>2, <1>4
  <2>2. w.key \in ApiKeySet => w.key \notin ConfigKeys
    BY ApiKeysAssumption
  <2> QED
    BY <1>4, <1>6, <2>1, <2>2 DEF Agrees
<1>8. /\ akLock' \in AkClients \cup {Nobody} /\ akLock' # c
      /\ \A d \in AkClients \ {c} : akLock' = d <=> akLock = d
  BY AkTypes, ApiKeysAssumption
<1> QED
  BY <1>4, <1>5, <1>6, <1>7, <1>8, ClientKeeps

\* A request that begins knows no more of its key than was settled.
LEMMA authMiddlewareKeeps ==
    ASSUME AkInv, NEW c \in AkClients, NEW k \in ApiKeySet \cup ConfigKeys, authMiddleware(c, k)
    PROVE  AkInv'
<1>1. PICK pc, ok, known :
         /\ pc = (IF k \in ConfigKeys THEN "decided" ELSE "look")
         /\ ok = (k \in ConfigKeys)
         /\ known = (IF k \in ApiKeySet THEN akSettled[k] ELSE "open")
  OBVIOUS
<1>2. pc \in {"decided", "look"} /\ ok \in BOOLEAN /\ known \in {"open", "in", "out"}
  BY <1>1, AkTypes
<1> DEFINE v == [NoClient EXCEPT !.key = k, !.pc = pc, !.ok = ok, !.known = known]
<1>3. akClient' = [akClient EXCEPT ![c] = v] /\ akClient[c].pc = "idle"
      /\ UNCHANGED <<akTable, akCache, akLock, akAdmin, akSettled>>
  BY <1>1 DEF authMiddleware
<1>4. v \in ClientRec /\ v.key = k /\ v.pc = pc /\ v.ok = ok /\ v.known = known
  BY <1>2 DEF NoClient, ClientRec
<1> HIDE DEF v
<1>5. v.known # "open" => v.key \in ApiKeySet /\ akSettled[v.key] = v.known
  BY <1>1, <1>4
<1>6. v.pc = "decided" => v.known = "open"
  BY <1>1, <1>4, ApiKeysAssumption
<1>7. akLock # c /\ v.pc \notin {"query", "install"}
  BY <1>2, <1>3, <1>4, AkTypes
<1> QED
  BY <1>2, <1>3, <1>4, <1>5, <1>6, <1>7, AkTypes, ClientKeeps DEF AkInv

\* A step that only changes where a request is.
LEMMA MoveKeeps ==
    ASSUME AkInv, NEW c \in AkClients, NEW pc \in {"upgrade", "query"},
           akClient' = [akClient EXCEPT ![c].pc = pc],
           UNCHANGED <<akTable, akCache, akAdmin, akSettled>>,
           akLock = Nobody, akLock' = IF pc = "query" THEN c ELSE akLock
    PROVE  AkInv'
<1> DEFINE v == [akClient[c] EXCEPT !.pc = pc]
<1>1. v \in ClientRec /\ v.pc = pc /\ v.key = akClient[c].key /\ v.known = akClient[c].known
  BY AkTypes DEF ClientRec
<1>2. akClient' = [akClient EXCEPT ![c] = v]
  OBVIOUS
<1> HIDE DEF v
<1>3. v.known # "open" => v.key \in ApiKeySet /\ akSettled[v.key] = v.known
  BY <1>1 DEF AkInv, StillKnown
<1>4. /\ akLock' \in AkClients \cup {Nobody} /\ (pc = "query" <=> akLock' = c)
      /\ \A d \in AkClients \ {c} : akLock' = d <=> akLock = d
  BY ApiKeysAssumption
<1>5. (v.pc \in {"query", "install"} <=> akLock' = c) /\ v.pc \notin {"install", "decided"}
  BY <1>1, <1>4
<1>6. /\ akCache' \in [keys : SUBSET ApiKeySet, fresh : BOOLEAN]
      /\ akCache'.fresh => Agrees(akCache'.keys)
  BY AkTypes DEF AkInv
<1> QED
  BY <1>1, <1>2, <1>3, <1>4, <1>5, <1>6, ClientKeeps

\* A look at the cache finds what the table had when the cache was filled.
LEMMA LookCachedKeeps ==
    ASSUME AkInv, NEW c \in AkClients, LookCached(c)
    PROVE  AkInv'
<1>1. akClient[c].pc = "look" /\ akLock = Nobody /\ UNCHANGED <<akTable, akCache, akLock, akAdmin, akSettled>>
  BY DEF LookCached
<1>2. CASE akCache.fresh
  <2>1. decide(c, akCache.keys, FALSE) /\ akCache.keys \in SUBSET ApiKeySet /\ Agrees(akCache.keys)
    BY <1>2, AkTypes DEF LookCached, AkInv
  <2> QED
    BY <1>1, <2>1, AkTypes, DecideKeeps DEF AkInv
<1>3. CASE ~akCache.fresh
  <2>1. akClient' = [akClient EXCEPT ![c].pc = "upgrade"]
    BY <1>3 DEF LookCached
  <2> QED
    BY <1>1, <2>1, MoveKeeps
<1> QED
  BY <1>2, <1>3

\* Behind the lock the cache is looked at again.
LEMMA LockAndLookKeeps ==
    ASSUME AkInv, NEW c \in AkClients, LockAndLook(c)
    PROVE  AkInv'
<1>1. akClient[c].pc = "upgrade" /\ akLock = Nobody /\ UNCHANGED <<akTable, akCache, akAdmin, akSettled>>
  BY DEF LockAndLook
<1>2. CASE akCache.fresh
  <2>1. /\ decide(c, akCache.keys, FALSE) /\ akCache.keys \in SUBSET ApiKeySet
        /\ Agrees(akCache.keys) /\ akLock' = akLock
    BY <1>2, AkTypes DEF LockAndLook, AkInv
  <2> QED
    BY <1>1, <2>1, AkTypes, DecideKeeps DEF AkInv
<1>3. CASE ~akCache.fresh
  <2>1. akClient' = [akClient EXCEPT ![c].pc = "query"] /\ akLock' = c
    BY <1>3 DEF LockAndLook
  <2> QED
    BY <1>1, <2>1, MoveKeeps
<1> QED
  BY <1>2, <1>3

\* The rows are those of the table.
LEMMA ListAPIKeysKeeps ==
    ASSUME AkInv, NEW c \in AkClients, ListAPIKeys(c)
    PROVE  AkInv'
<1> DEFINE v == [akClient[c] EXCEPT !.pc = "install", !.rows = akTable]
<1>1. akClient[c].pc = "query" /\ UNCHANGED <<akTable, akCache, akLock, akAdmin, akSettled>>
  BY DEF ListAPIKeys
<1>2. akClient' = [akClient EXCEPT ![c] = v]
  BY DEF ListAPIKeys
<1>3. /\ v \in ClientRec /\ v.pc = "install" /\ v.rows = akTable
      /\ v.key = akClient[c].key /\ v.known = akClient[c].known
  BY AkTypes DEF ClientRec
<1> HIDE DEF v
<1>4. v.known # "open" => v.key \in ApiKeySet /\ akSettled[v.key] = v.known
  BY <1>3 DEF AkInv, StillKnown
<1>5. akLock = c /\ Agrees(v.rows)
  BY <1>1, <1>3, AkTypes DEF AkInv, TableAgrees
<1> QED
  BY <1>1, <1>2, <1>3, <1>4, <1>5, AkTypes, ClientKeeps DEF AkInv

\* A refresh that fails installs nothing.
LEMMA ListFailsKeeps ==
    ASSUME AkInv, NEW c \in AkClients, ListFails(c)
    PROVE  AkInv'
<1>1. /\ akClient[c].pc = "query" /\ decide(c, akCache.keys, TRUE) /\ akLock' = Nobody
      /\ UNCHANGED <<akTable, akCache, akAdmin, akSettled>>
  BY DEF ListFails
<1> QED
  BY <1>1, AkTypes, DecideKeeps DEF AkInv

\* Installing puts the rows that were read into the cache.
LEMMA InstallKeeps ==
    ASSUME AkInv, NEW c \in AkClients, Install(c)
    PROVE  AkInv'
<1>1. /\ akClient[c].pc = "install" /\ decide(c, akClient[c].rows, FALSE) /\ akLock' = Nobody
      /\ akCache' = [keys |-> akClient[c].rows, fresh |-> TRUE]
      /\ UNCHANGED <<akTable, akAdmin, akSettled>>
  BY DEF Install
<1>2. akClient[c].rows \in SUBSET ApiKeySet /\ Agrees(akClient[c].rows)
  BY <1>1, AkTypes DEF AkInv, RowsAgree, ClientRec
<1> QED
  BY <1>1, <1>2, DecideKeeps

\* A request that is done forgets what it knew.
LEMMA DoneKeeps ==
    ASSUME AkInv, NEW c \in AkClients, Done(c)
    PROVE  AkInv'
<1>1. /\ akClient[c].pc = "decided" /\ akClient' = [akClient EXCEPT ![c] = NoClient]
      /\ UNCHANGED <<akTable, akCache, akLock, akAdmin, akSettled>>
  BY DEF Done
<1>2. NoClient \in ClientRec /\ NoClient.pc = "idle" /\ NoClient.known = "open"
  BY DEF NoClient, ClientRec
<1>3. akLock # c
  BY <1>1, AkTypes
<1> QED
  BY <1>1, <1>2, <1>3, AkTypes, ClientKeeps DEF AkInv

\* An expired cache is not looked at.
LEMMA CacheExpiresKeeps ==
    ASSUME AkInv, CacheExpires
    PROVE  AkInv'
<1>1. /\ akCache' = [akCache EXCEPT !.fresh = FALSE]
      /\ UNCHANGED <<akTable, akLock, akClient, akAdmin, akSettled>>
  BY DEF CacheExpires
<1>2. akCache' \in [keys : SUBSET ApiKeySet, fresh : BOOLEAN] /\ ~akCache'.fresh
  BY <1>1, AkTypes
<1>3. ApiKeysTypeOK'
  BY <1>1, <1>2 DEF AkInv, ApiKeysTypeOK
<1>4. \A keys : Agrees(keys)' <=> Agrees(keys)
  BY <1>1, AgreesKept
<1>5. ChangesKnown' /\ TableAgrees'
  BY <1>1, <1>4 DEF AkInv, ChangesKnown, TableAgrees, Shows
<1>6. RowsAgree' /\ StillKnown' /\ DeletedKeyRefused'
  BY <1>1, <1>4 DEF AkInv, RowsAgree, StillKnown, DeletedKeyRefused
<1> QED
  BY <1>2, <1>3, <1>5, <1>6 DEF AkInv

\* What an administrator's step may do to the rest: no set of keys that is in use stops
\* agreeing, and what is known of a key is dropped before it changes.
LEMMA AdminKeeps ==
    ASSUME AkInv, akAdmin' \in [AkAdmins -> AdminRec], akTable' \subseteq ApiKeySet,
           UNCHANGED <<akLock, akClient, akSettled>>,
           akCache' \in [keys : SUBSET ApiKeySet, fresh : BOOLEAN],
           akCache'.fresh => UNCHANGED akCache,
           ChangesKnown', TableAgrees',
           (akCache'.fresh \/ akLock # Nobody) =>
              \A keys \in SUBSET ApiKeySet : Agrees(keys) => Agrees(keys)'
    PROVE  AkInv'
<1>1. ApiKeysTypeOK'
  BY AkTypes DEF ApiKeysTypeOK, ClientRec, AdminRec
<1>2. (akCache.fresh => Agrees(akCache.keys))'
  <2> SUFFICES ASSUME akCache'.fresh PROVE Agrees(akCache.keys)'
    OBVIOUS
  <2>1. PICK keys \in SUBSET ApiKeySet : keys = akCache.keys
    BY AkTypes
  <2>2. Agrees(keys) /\ akCache'.keys = keys
    BY <2>1 DEF AkInv
  <2>3. Agrees(keys)'
    BY <2>2
  <2> QED
    BY <2>2, <2>3 DEF Agrees, Shows
<1>3. RowsAgree'
  <2> SUFFICES ASSUME NEW c \in AkClients, akClient'[c].pc = "install"
               PROVE  Agrees(akClient[c].rows)'
    BY DEF RowsAgree
  <2>1. PICK keys \in SUBSET ApiKeySet : keys = akClient[c].rows
    BY AkTypes DEF ClientRec
  <2>2. Agrees(keys) /\ akClient'[c].rows = keys /\ akLock # Nobody
    BY <2>1, AkTypes, ApiKeysAssumption DEF AkInv, RowsAgree
  <2>3. Agrees(keys)'
    BY <2>2
  <2> QED
    BY <2>2, <2>3 DEF Agrees, Shows
<1>4. StillKnown' /\ DeletedKeyRefused'
  BY DEF AkInv, StillKnown, DeletedKeyRefused
<1> QED
  BY <1>1, <1>2, <1>3, <1>4 DEF AkInv

\* A statement changes the row of its key and no other.
LEMMA StatementKeeps ==
    ASSUME AkInv, NEW m \in AkAdmins, Statement(m)
    PROVE  AkInv'
<1> DEFINE k == akAdmin[m].key
<1>1. /\ akAdmin[m].pc = "statement" /\ UNCHANGED <<akCache, akLock, akClient, akSettled>>
      /\ akAdmin' = [akAdmin EXCEPT ![m].pc = "invalidate"]
      /\ akTable' = IF akAdmin[m].op = "create" THEN akTable \cup {k} ELSE akTable \ {k}
  BY DEF Statement, effect
<1>2. /\ akAdmin' \in [AkAdmins -> AdminRec] /\ akAdmin'[m].pc = "invalidate"
      /\ akAdmin'[m].op = akAdmin[m].op /\ akAdmin'[m].key = k /\ akAdmin'[m].alone = akAdmin[m].alone
      /\ \A n \in AkAdmins \ {m} : akAdmin'[n] = akAdmin[n]
  BY <1>1, AkTypes DEF AdminRec
<1>3. k \in ApiKeySet /\ akSettled[k] = "open"
      /\ \A n \in AkAdmins \ {m} : akAdmin[n].alone /\ akAdmin[n].pc # "idle" => akAdmin[n].key # k
  BY <1>1 DEF AkInv, ChangesKnown
<1>4. ChangesKnown'
  BY <1>1, <1>2 DEF AkInv, ChangesKnown
<1> HIDE DEF k
<1>5. TableAgrees'
  <2>1. akTable' \subseteq ApiKeySet /\ \A j \in ApiKeySet \ {k} : j \in akTable' <=> j \in akTable
    BY <1>1, <1>3, AkTypes
  <2>2. Shows(m, akTable)'
    BY <1>1, <1>2 DEF Shows
  <2>3. \A n \in AkAdmins \ {m} :
           akAdmin[n].alone /\ akAdmin[n].pc # "idle" => (Shows(n, akTable)' <=> Shows(n, akTable))
    BY <1>2, <1>3, <2>1 DEF Shows, AkInv, ChangesKnown
  <2> QED
    BY <1>1, <1>2, <1>3, <2>1, <2>2, <2>3 DEF AkInv, TableAgrees, Agrees
<1>6. \A keys \in SUBSET ApiKeySet : Agrees(keys) => Agrees(keys)'
  BY <1>1, <1>2 DEF Agrees, Shows
<1> QED
  BY <1>1, <1>2, <1>3, <1>4, <1>5, <1>6, AkTypes, AdminKeeps

\* A failed statement leaves the key unsettled.
LEMMA StatementFailsKeeps ==
    ASSUME AkInv, NEW m \in AkAdmins, StatementFails(m)
    PROVE  AkInv'
<1> DEFINE k == akAdmin[m].key
<1>1. /\ akAdmin[m].pc = "statement" /\ UNCHANGED <<akCache, akLock, akClient, akSettled>>
      /\ akAdmin' = [akAdmin EXCEPT ![m] = NoAdmin]
      /\ akTable' \in {akTable, akTable \cup {k}, akTable \ {k}}
  BY DEF StatementFails, effect
<1>2. /\ akAdmin' \in [AkAdmins -> AdminRec] /\ akAdmin'[m].pc = "idle" /\ akAdmin'[m].key = Nobody
      /\ \A n \in AkAdmins \ {m} : akAdmin'[n] = akAdmin[n]
  BY <1>1, AkTypes DEF AdminRec, NoAdmin
<1>3. k \in ApiKeySet /\ akSettled[k] = "open"
      /\ \A n \in AkAdmins \ {m} : akAdmin[n].alone /\ akAdmin[n].pc # "idle" => akAdmin[n].key # k
  BY <1>1 DEF AkInv, ChangesKnown
<1>4. ChangesKnown'
  BY <1>1, <1>2, ApiKeysAssumption DEF AkInv, ChangesKnown
<1> HIDE DEF k
<1>5. TableAgrees'
  <2>1. akTable' \subseteq ApiKeySet /\ \A j \in ApiKeySet \ {k} : j \in akTable' <=> j \in akTable
    BY <1>1, <1>3, AkTypes
  <2>2. \A n \in AkAdmins \ {m} :
           akAdmin[n].alone /\ akAdmin[n].pc # "idle" => (Shows(n, akTable)' <=> Shows(n, akTable))
    BY <1>2, <1>3, <2>1 DEF Shows, AkInv, ChangesKnown
  <2> QED
    BY <1>1, <1>2, <1>3, <2>1, <2>2 DEF AkInv, TableAgrees, Agrees
<1>6. \A keys \in SUBSET ApiKeySet : Agrees(keys) => Agrees(keys)'
  BY <1>1, <1>2 DEF Agrees, Shows
<1> QED
  BY <1>1, <1>2, <1>3, <1>4, <1>5, <1>6, AkTypes, AdminKeeps

\* The invalidation waits for a refresh that has the lock, so there are no old rows.
LEMMA InvalidateKeeps ==
    ASSUME AkInv, NEW m \in AkAdmins, InvalidateAPIKeyCache(m)
    PROVE  AkInv'
<1>1. /\ akAdmin[m].pc = "invalidate" /\ akLock = Nobody
      /\ akCache' = [akCache EXCEPT !.fresh = FALSE]
      /\ akAdmin' = [akAdmin EXCEPT ![m].pc = "answer"]
      /\ UNCHANGED <<akTable, akLock, akClient, akSettled>>
  BY DEF InvalidateAPIKeyCache
<1>2. /\ akAdmin' \in [AkAdmins -> AdminRec] /\ akAdmin'[m].pc = "answer"
      /\ akAdmin'[m].op = akAdmin[m].op /\ akAdmin'[m].key = akAdmin[m].key
      /\ akAdmin'[m].alone = akAdmin[m].alone
      /\ \A n \in AkAdmins \ {m} : akAdmin'[n] = akAdmin[n]
  BY <1>1, AkTypes DEF AdminRec
<1>3. ChangesKnown'
  BY <1>1, <1>2 DEF AkInv, ChangesKnown
<1>4. TableAgrees'
  BY <1>1, <1>2 DEF AkInv, TableAgrees, Agrees, Shows
<1>5. akCache' \in [keys : SUBSET ApiKeySet, fresh : BOOLEAN] /\ ~akCache'.fresh
  BY <1>1, AkTypes
<1> QED
  BY <1>1, <1>2, <1>3, <1>4, <1>5, AkTypes, AdminKeeps

\* A change begins: what was known of the key is dropped, and another change of it is no
\* longer alone.
LEMMA AdminBeginsKeeps ==
    ASSUME AkInv, NEW m \in AkAdmins, NEW op \in {"create", "delete"}, NEW k \in ApiKeySet,
           AdminBegins(m, op, k)
    PROVE  AkInv'
<1>1. /\ akAdmin[m].pc = "idle" /\ UNCHANGED <<akTable, akCache, akLock>>
      /\ akSettled' = [akSettled EXCEPT ![k] = "open"]
  BY DEF AdminBegins
<1>2. PICK b \in BOOLEAN : b <=> \A o \in AkAdmins : akAdmin[o].key # k
  OBVIOUS
<1>3. /\ akAdmin' \in [AkAdmins -> AdminRec]
      /\ akAdmin'[m].pc = "statement" /\ akAdmin'[m].key = k /\ akAdmin'[m].alone = b
      /\ \A n \in AkAdmins \ {m} :
            /\ akAdmin'[n].pc = akAdmin[n].pc /\ akAdmin'[n].key = akAdmin[n].key
            /\ akAdmin'[n].op = akAdmin[n].op
            /\ akAdmin'[n].alone => akAdmin[n].alone /\ akAdmin[n].key # k
  <2> DEFINE w(n) == [akAdmin[n] EXCEPT !.alone = akAdmin[n].alone /\ akAdmin[n].key # k]
             x == [pc |-> "statement", op |-> op, key |-> k,
                   alone |-> \A o \in AkAdmins : akAdmin[o].key # k]
  <2>1. akAdmin' = [n \in AkAdmins |-> IF n = m THEN x ELSE w(n)]
    BY DEF AdminBegins
  <2>2. x \in AdminRec /\ x.pc = "statement" /\ x.key = k /\ x.alone = b
    BY <1>2 DEF AdminRec
  <2>3. ASSUME NEW n \in AkAdmins
        PROVE  /\ w(n) \in AdminRec /\ w(n).pc = akAdmin[n].pc /\ w(n).key = akAdmin[n].key
               /\ w(n).op = akAdmin[n].op
               /\ w(n).alone => akAdmin[n].alone /\ akAdmin[n].key # k
    <3>1. akAdmin[n] \in AdminRec
      BY AkTypes
    <3>2. PICK a \in BOOLEAN : a <=> akAdmin[n].alone /\ akAdmin[n].key # k
      OBVIOUS
    <3>3. w(n) = [akAdmin[n] EXCEPT !.alone = a]
      BY <3>2, <3>1 DEF AdminRec
    <3> HIDE DEF w
    <3> QED
      BY <3>1, <3>2, <3>3 DEF AdminRec
  <2> HIDE DEF w, x
  <2> QED
    BY <2>1, <2>2, <2>3
<1>4. /\ akSettled' \in [ApiKeySet -> {"open", "in", "out"}] /\ akSettled'[k] = "open"
      /\ \A j \in ApiKeySet \ {k} : akSettled'[j] = akSettled[j]
  BY <1>1, AkTypes
<1>5. /\ akClient' \in [AkClients -> ClientRec]
      /\ \A c \in AkClients :
            /\ akClient'[c].pc = akClient[c].pc /\ akClient'[c].rows = akClient[c].rows
            /\ akClient'[c].key = akClient[c].key /\ akClient'[c].ok = akClient[c].ok
            /\ akClient'[c].failed = akClient[c].failed
            /\ akClient[c].key = k => akClient'[c].known = "open"
            /\ akClient[c].key # k => akClient'[c].known = akClient[c].known
  <2> DEFINE w(c) == [akClient[c] EXCEPT !.known = "open"]
  <2>1. akClient' = [c \in AkClients |-> IF akClient[c].key = k THEN w(c) ELSE akClient[c]]
    BY DEF AdminBegins
  <2>2. ASSUME NEW c \in AkClients
        PROVE  /\ akClient[c] \in ClientRec
               /\ w(c) \in ClientRec /\ w(c).pc = akClient[c].pc /\ w(c).rows = akClient[c].rows
               /\ w(c).key = akClient[c].key /\ w(c).ok = akClient[c].ok
               /\ w(c).failed = akClient[c].failed /\ w(c).known = "open"
    BY AkTypes DEF ClientRec
  <2> HIDE DEF w
  <2> QED
    BY <2>1, <2>2
<1>6. \A keys : Agrees(keys) => Agrees(keys)'
  BY <1>3, <1>4 DEF Agrees, Shows
<1>7. ApiKeysTypeOK'
  BY <1>1, <1>3, <1>4, <1>5, AkTypes DEF ApiKeysTypeOK, ClientRec, AdminRec
<1>8. ChangesKnown'
  <2>1. /\ \A n \in AkAdmins : akAdmin'[n].pc # "idle" => akAdmin'[n].key \in ApiKeySet
        /\ \A n \in AkAdmins : akAdmin'[n].pc = "idle" => akAdmin'[n].key = Nobody
    BY <1>3 DEF AkInv, ChangesKnown
  <2>2. \A n \in AkAdmins, j \in ApiKeySet : akSettled'[j] # "open" => akAdmin'[n].key # j
    BY <1>3, <1>4 DEF AkInv, ChangesKnown
  <2>3. ASSUME NEW l \in AkAdmins, NEW n \in AkAdmins, akAdmin'[l].pc # "idle",
               akAdmin'[l].alone, akAdmin'[n].key = akAdmin'[l].key
        PROVE  l = n
    <3>1. CASE l = m
      BY <1>2, <1>3, <2>3, <3>1
    <3>2. CASE l # m /\ n = m
      BY <1>3, <2>3, <3>2
    <3>3. CASE l # m /\ n # m
      BY <1>3, <2>3, <3>3 DEF AkInv, ChangesKnown
    <3> QED
      BY <3>1, <3>2, <3>3
  <2> QED
    BY <2>1, <2>2, <2>3 DEF ChangesKnown
<1>9. TableAgrees'
  <2>1. Agrees(akTable)'
    BY <1>1, <1>3, <1>4 DEF AkInv, TableAgrees, Agrees, Shows
  <2> QED
    BY <1>1, <1>3, <2>1 DEF AkInv, TableAgrees, Shows
<1>10. (akCache.fresh => Agrees(akCache.keys))'
  BY <1>1, <1>3, <1>4 DEF AkInv, Agrees, Shows
<1>11. RowsAgree'
  BY <1>3, <1>4, <1>5 DEF AkInv, RowsAgree, Agrees, Shows
<1>12. StillKnown' /\ DeletedKeyRefused'
  BY <1>4, <1>5 DEF AkInv, StillKnown, DeletedKeyRefused
<1> QED
  BY <1>7, <1>8, <1>9, <1>10, <1>11, <1>12 DEF AkInv

\* A change that was alone settles the key.
LEMMA AdminAnswersKeeps ==
    ASSUME AkInv, NEW m \in AkAdmins, AdminAnswers(m)
    PROVE  AkInv'
<1> DEFINE k == akAdmin[m].key
           now == IF ~akAdmin[m].alone THEN "open"
                  ELSE IF akAdmin[m].op = "create" THEN "in" ELSE "out"
<1>1. /\ akAdmin[m].pc = "answer" /\ UNCHANGED <<akTable, akCache, akLock, akClient>>
      /\ akAdmin' = [akAdmin EXCEPT ![m] = NoAdmin]
      /\ akSettled' = [akSettled EXCEPT ![k] = now]
  BY DEF AdminAnswers
<1>2. /\ akAdmin' \in [AkAdmins -> AdminRec] /\ akAdmin'[m].pc = "idle" /\ akAdmin'[m].key = Nobody
      /\ \A n \in AkAdmins \ {m} : akAdmin'[n] = akAdmin[n]
  BY <1>1, AkTypes DEF AdminRec, NoAdmin
<1>3. k \in ApiKeySet /\ akSettled[k] = "open"
      /\ (akAdmin[m].alone => \A n \in AkAdmins \ {m} : akAdmin[n].key # k)
  BY <1>1 DEF AkInv, ChangesKnown
<1>4. /\ akSettled' \in [ApiKeySet -> {"open", "in", "out"}] /\ akSettled'[k] = now
      /\ \A j \in ApiKeySet \ {k} : akSettled'[j] = akSettled[j]
  BY <1>1, <1>3, AkTypes
<1>5. \A keys : Agrees(keys) => (akAdmin[m].alone => Shows(m, keys))
  BY <1>1 DEF Agrees
<1>6. ASSUME NEW keys, Agrees(keys)
      PROVE  /\ \A j \in ApiKeySet : /\ akSettled'[j] = "out" => j \notin keys
                                     /\ akSettled'[j] = "in"  => j \in keys
             /\ \A n \in AkAdmins \ {m} : akAdmin[n].pc = "answer" /\ akAdmin[n].alone => Shows(n, keys)
  <2>1. akAdmin[m].alone => (akAdmin[m].op = "create" <=> k \in keys)
    BY <1>5, <1>6 DEF Shows
  <2> QED
    BY <1>4, <1>6, <2>1 DEF Agrees
<1> HIDE DEF now, k
<1>7. ApiKeysTypeOK'
  BY <1>1, <1>2, <1>4, AkTypes DEF ApiKeysTypeOK, ClientRec, AdminRec
<1>8. ChangesKnown'
  <2>1. now # "open" => akAdmin[m].alone
    BY DEF now
  <2>2. \A n \in AkAdmins, j \in ApiKeySet : akSettled'[j] # "open" => akAdmin'[n].key # j
    BY <1>2, <1>3, <1>4, <2>1, ApiKeysAssumption DEF AkInv, ChangesKnown
  <2> QED
    BY <1>2, <2>2, ApiKeysAssumption DEF AkInv, ChangesKnown
<1>9. TableAgrees'
  <2>1. Agrees(akTable)
    BY DEF AkInv, TableAgrees
  <2>2. Agrees(akTable)'
    BY <1>1, <1>2, <1>6, <2>1 DEF Agrees, Shows
  <2> QED
    BY <1>1, <1>2, <2>2 DEF AkInv, TableAgrees, Shows
<1>10. (akCache.fresh => Agrees(akCache.keys))'
  <2> SUFFICES ASSUME akCache.fresh PROVE Agrees(akCache.keys)'
    BY <1>1
  <2>1. Agrees(akCache.keys)
    BY DEF AkInv
  <2> QED
    BY <1>1, <1>2, <1>6, <2>1 DEF Agrees, Shows
<1>11. RowsAgree'
  <2> SUFFICES ASSUME NEW c \in AkClients, akClient[c].pc = "install"
               PROVE  Agrees(akClient[c].rows)'
    BY <1>1 DEF RowsAgree
  <2>1. Agrees(akClient[c].rows)
    BY DEF AkInv, RowsAgree
  <2> QED
    BY <1>1, <1>2, <1>6, <2>1 DEF Agrees, Shows
<1>12. StillKnown' /\ DeletedKeyRefused'
  BY <1>1, <1>3, <1>4 DEF AkInv, StillKnown, DeletedKeyRefused
<1> QED
  BY <1>7, <1>8, <1>9, <1>10, <1>11, <1>12 DEF AkInv

\* The invariant holds at the start.
LEMMA AkInvInitially ==
    ASSUME ApiKeysInit
    PROVE  AkInv
<1>1. /\ NoClient \in ClientRec /\ NoClient.pc = "idle" /\ NoClient.known = "open"
      /\ NoAdmin \in AdminRec /\ NoAdmin.pc = "idle" /\ NoAdmin.key = Nobody
  BY DEF NoClient, NoAdmin, ClientRec, AdminRec
<1>2. /\ akTable = {} /\ akLock = Nobody /\ akCache = [keys |-> {}, fresh |-> FALSE]
      /\ akClient = [c \in AkClients |-> NoClient] /\ akAdmin = [m \in AkAdmins |-> NoAdmin]
      /\ akSettled = [k \in ApiKeySet |-> "out"]
  BY DEF ApiKeysInit
<1>3. ApiKeysTypeOK
  <2>1. akClient \in [AkClients -> ClientRec] /\ akAdmin \in [AkAdmins -> AdminRec]
    BY <1>1, <1>2
  <2> QED
    BY <1>1, <1>2, <2>1, ApiKeysAssumption DEF ApiKeysTypeOK, ClientRec, AdminRec
<1>4. ChangesKnown /\ TableAgrees
  BY <1>1, <1>2, ApiKeysAssumption DEF ChangesKnown, TableAgrees, Agrees
<1>5. ~akCache.fresh /\ RowsAgree /\ StillKnown /\ DeletedKeyRefused
  BY <1>1, <1>2 DEF RowsAgree, StillKnown, DeletedKeyRefused
<1> QED
  BY <1>3, <1>4, <1>5 DEF AkInv

\* Every step of requests and administrators keeps the invariant.
LEMMA AkInvKept ==
    ASSUME AkInv, [ApiKeysNext]_akVars
    PROVE  AkInv'
<1>1. CASE UNCHANGED akVars
  <2>1. \A keys : Agrees(keys)' <=> Agrees(keys)
    BY <1>1, AgreesKept DEF akVars
  <2> QED
    BY <1>1, <2>1 DEF akVars, AkInv, ApiKeysTypeOK, ChangesKnown, TableAgrees, RowsAgree, StillKnown,
       DeletedKeyRefused, Shows
<1>2. ASSUME NEW c \in AkClients,
             \/ \E k \in ApiKeySet \cup ConfigKeys : authMiddleware(c, k)
             \/ LookCached(c) \/ LockAndLook(c) \/ ListAPIKeys(c) \/ ListFails(c)
             \/ Install(c) \/ Done(c)
      PROVE  AkInv'
  BY <1>2, authMiddlewareKeeps, LookCachedKeeps, LockAndLookKeeps, ListAPIKeysKeeps,
     ListFailsKeeps, InstallKeeps, DoneKeeps
<1>3. ASSUME NEW m \in AkAdmins,
             \/ \E op \in {"create", "delete"}, k \in ApiKeySet : AdminBegins(m, op, k)
             \/ Statement(m) \/ StatementFails(m) \/ InvalidateAPIKeyCache(m) \/ AdminAnswers(m)
      PROVE  AkInv'
  BY <1>3, AdminBeginsKeeps, StatementKeeps, StatementFailsKeeps, InvalidateKeeps, AdminAnswersKeeps
<1> QED
  BY <1>1, <1>2, <1>3, CacheExpiresKeeps DEF ApiKeysNext

\* A change of an API key takes effect when the administrator is answered, although the
\* proxy keeps the keys for five minutes and loads them while others change them
\* (refreshDBKeys, InvalidateAPIKeyCache).
THEOREM KeysSoundHolds == ApiKeysSpec => []KeysSound
<1>1. ApiKeysInit => AkInv
  BY AkInvInitially
<1>2. AkInv /\ [ApiKeysNext]_akVars => AkInv'
  BY AkInvKept
<1>3. AkInv => KeysSound
  BY DEF AkInv, KeysSound, CacheAgrees, Agrees
<1> QED
  BY <1>1, <1>2, <1>3, PTL DEF ApiKeysSpec

-----------------------------------------------------------------------------
(* The dialog collector: the proof. *)

FlusherRec == [pc : {"select", "flush", "drain", "flushDrain", "flushLast", "gone"},
               batch : 0..BatchSize, done : 0..BatchSize]

CountRec == [submitted : Nat, dropped : Nat, written : Nat, failed : Nat, late : BOOLEAN]

\* What the invariant says of each variable.
LEMMA DcTypes ==
    ASSUME DcInv
    PROVE  /\ dcEnabled \in BOOLEAN /\ dcStopped \in BOOLEAN /\ dcQueue \in Nat
           /\ dcFlusher \in FlusherRec /\ dcCount \in CountRec
           /\ dcSubmit \in [Submitters -> {"idle", "entered", "sent"}]
           /\ dcRows \in Nat /\ dcMain \in {"serving", "waiting", "closed"}
           /\ QueueCap \in Nat \ {0} /\ BatchSize \in Nat \ {0} /\ RowsPerInsert \in Nat \ {0}
           /\ dcFlusher.batch \in Nat /\ dcFlusher.done \in Nat
           /\ dcFlusher.batch <= BatchSize /\ dcQueue <= QueueCap
           /\ dcCount.submitted \in Nat /\ dcCount.dropped \in Nat /\ dcCount.written \in Nat
           /\ dcCount.failed \in Nat /\ dcCount.late \in BOOLEAN
BY DialogCollectorAssumption DEF DcInv, DialogCollectorTypeOK, FlusherRec, CountRec

\* The records accepted and not yet accounted for are a number.
LEMMA PendingType == pending \in Nat
<1>1. IsFiniteSet({s \in Submitters : dcSubmit[s] = "sent"})
  BY DialogCollectorAssumption, FS_Subset
<1> QED
  BY <1>1, FS_CardinalityType DEF pending

\* A record that is sent waits to be counted.
LEMMA PendingMoves ==
    ASSUME DcInv, NEW s \in Submitters, NEW stage \in {"idle", "entered", "sent"},
           dcSubmit' = [dcSubmit EXCEPT ![s] = stage]
    PROVE  /\ dcSubmit' \in [Submitters -> {"idle", "entered", "sent"}]
           /\ dcSubmit[s] # "sent" /\ stage # "sent" => pending' = pending
           /\ dcSubmit[s] # "sent" /\ stage = "sent" => pending' = pending + 1
           /\ dcSubmit[s] = "sent" /\ stage # "sent" => pending' = pending - 1
           /\ pending \in Nat /\ pending' \in Nat
<1> DEFINE Sent == {q \in Submitters : dcSubmit[q] = "sent"}
           Others == Sent \ {s}
<1>1. dcSubmit'[s] = stage /\ \A q \in Submitters \ {s} : dcSubmit'[q] = dcSubmit[q]
  BY DcTypes
<1>2. IsFiniteSet(Sent) /\ IsFiniteSet(Others)
  BY DialogCollectorAssumption, FS_Subset
<1>3. Sent = IF dcSubmit[s] = "sent" THEN Others \cup {s} ELSE Others
  OBVIOUS
<1>4. Sent' = IF stage = "sent" THEN Others \cup {s} ELSE Others
  BY <1>1
<1>5. Cardinality(Others \cup {s}) = Cardinality(Others) + 1 /\ Cardinality(Others) \in Nat
  BY <1>2, FS_AddElement, FS_CardinalityType
<1>6. pending = Cardinality(Sent) /\ pending' = Cardinality(Sent')
  BY DEF pending
<1>7. dcSubmit' \in [Submitters -> {"idle", "entered", "sent"}]
  BY DcTypes
<1> HIDE DEF Others, Sent
<1>8. pending = Cardinality(Others) + (IF dcSubmit[s] = "sent" THEN 1 ELSE 0)
  <2>1. CASE dcSubmit[s] = "sent"
    BY <1>3, <1>5, <1>6, <2>1
  <2>2. CASE dcSubmit[s] # "sent"
    BY <1>3, <1>5, <1>6, <2>2
  <2> QED
    BY <2>1, <2>2
<1>9. pending' = Cardinality(Others) + (IF stage = "sent" THEN 1 ELSE 0)
  <2>1. CASE stage = "sent"
    BY <1>4, <1>5, <1>6, <2>1
  <2>2. CASE stage # "sent"
    BY <1>4, <1>5, <1>6, <2>2
  <2> QED
    BY <2>1, <2>2
<1>10. \A n \in Nat : (n + 1) - 1 = n /\ n + 0 = n
  OBVIOUS
<1> QED
  BY <1>5, <1>7, <1>8, <1>9, <1>10

\* The switch, the stop and main change no count; nobody stops what has been stopped.
LEMMA SwitchKeeps ==
    ASSUME DcInv, UNCHANGED <<dcQueue, dcFlusher, dcSubmit, dcCount, dcRows>>,
           dcEnabled' \in BOOLEAN, dcStopped' \in BOOLEAN, dcStopped => dcStopped',
           dcMain' \in {"serving", "waiting", "closed"}
    PROVE  DcInv'
<1>1. pending' = pending
  BY DEF pending
<1> QED
  BY <1>1 DEF DcInv, DialogCollectorTypeOK, FlusherStage, RowsInserted, CountersAddUp,
     RowsWithinCounters

\* Each step of Submit counts its record once: queued or dropped.
LEMMA SubmitKeeps ==
    ASSUME DcInv, NEW s \in Submitters,
           SubmitEnters(s) \/ SubmitSends(s) \/ SubmitCounts(s) \/ SubmitDrops(s)
    PROVE  DcInv'
<1>1. UNCHANGED <<dcEnabled, dcStopped, dcFlusher, dcRows, dcMain>>
  BY DEF SubmitEnters, SubmitSends, SubmitCounts, SubmitDrops
<1>2. ASSUME NEW late \in BOOLEAN, NEW submitted \in Nat, NEW dropped \in Nat,
             dcCount' = [dcCount EXCEPT !.late = late, !.submitted = submitted, !.dropped = dropped],
             dcSubmit' \in [Submitters -> {"idle", "entered", "sent"}],
             dcQueue' \in 0..QueueCap, pending' \in Nat,
             submitted + pending' - dcQueue' = dcCount.submitted + pending - dcQueue,
             \/ dcQueue' = dcQueue /\ late = dcCount.late
             \/ late = (dcCount.late \/ dcStopped)
      PROVE  DcInv'
  <2>1. /\ dcCount' \in CountRec /\ dcCount'.written = dcCount.written
        /\ dcCount'.failed = dcCount.failed /\ dcCount'.submitted = submitted /\ dcCount'.late = late
    BY <1>2, DcTypes DEF CountRec
  <2>2. DialogCollectorTypeOK'
    BY <1>1, <1>2, <2>1 DEF DcInv, DialogCollectorTypeOK, CountRec
  <2>3. FlusherStage'
    BY <1>1, <1>2, <2>1, DcTypes DEF DcInv, FlusherStage
  <2>4. RowsInserted' /\ RowsWithinCounters'
    BY <1>1, <2>1 DEF DcInv, RowsInserted, RowsWithinCounters
  <2>5. CountersAddUp'
    <3>1. pending \in Nat /\ dcQueue' \in Nat
      BY <1>2, PendingType, DcTypes
    <3>2. dcCount.submitted + pending = dcQueue + dcFlusher.batch + dcCount.written + dcCount.failed
      BY DEF DcInv, CountersAddUp
    <3>3. submitted + pending' = dcQueue' + dcFlusher.batch + dcCount.written + dcCount.failed
      BY <1>2, <3>1, <3>2, DcTypes
    <3> QED
      BY <1>1, <2>1, <3>3 DEF CountersAddUp
  <2> QED
    BY <2>2, <2>3, <2>4, <2>5 DEF DcInv
<1>3. dcCount = [dcCount EXCEPT !.late = dcCount.late, !.submitted = dcCount.submitted,
                                !.dropped = dcCount.dropped]
  BY DcTypes DEF CountRec
<1>4. dcQueue \in 0..QueueCap /\ pending \in Nat
  BY PendingType, DcTypes
<1>5. CASE SubmitEnters(s)
  <2>1. dcSubmit[s] = "idle" /\ dcSubmit' = [dcSubmit EXCEPT ![s] = "entered"]
        /\ UNCHANGED <<dcQueue, dcCount>>
    BY <1>5 DEF SubmitEnters
  <2>2. /\ dcSubmit' \in [Submitters -> {"idle", "entered", "sent"}]
        /\ pending' = pending /\ pending' \in Nat
    BY <1>4, <2>1, PendingMoves
  <2> QED
    BY <1>2, <1>3, <1>4, <2>1, <2>2, DcTypes
<1>6. CASE SubmitSends(s)
  <2>1. PICK late \in BOOLEAN : late = (dcCount.late \/ dcStopped)
    BY DcTypes
  <2>2. dcCount' = [dcCount EXCEPT !.late = late]
    BY <1>6, <2>1 DEF SubmitSends
  <2>3. dcCount' = [dcCount EXCEPT !.late = late, !.submitted = dcCount.submitted,
                                   !.dropped = dcCount.dropped]
    BY <2>2, DcTypes DEF CountRec
  <2>4. dcSubmit[s] = "entered" /\ dcSubmit' = [dcSubmit EXCEPT ![s] = "sent"]
        /\ dcQueue' = dcQueue + 1 /\ dcQueue < QueueCap
    BY <1>6 DEF SubmitSends
  <2>5. /\ dcSubmit' \in [Submitters -> {"idle", "entered", "sent"}]
        /\ pending' = pending + 1 /\ pending' \in Nat
    BY <1>4, <2>4, PendingMoves
  <2>6. dcQueue' \in 0..QueueCap
        /\ dcCount.submitted + pending' - dcQueue' = dcCount.submitted + pending - dcQueue
    BY <1>4, <2>4, <2>5, DcTypes
  <2> QED
    BY <1>2, <2>1, <2>3, <2>5, <2>6, DcTypes
<1>7. CASE SubmitCounts(s)
  <2>1. dcCount' = [dcCount EXCEPT !.late = dcCount.late, !.submitted = dcCount.submitted + 1,
                                   !.dropped = dcCount.dropped]
    BY <1>7, DcTypes DEF SubmitCounts, CountRec
  <2>2. dcSubmit[s] = "sent" /\ dcSubmit' = [dcSubmit EXCEPT ![s] = "idle"] /\ UNCHANGED dcQueue
    BY <1>7 DEF SubmitCounts
  <2>3. /\ dcSubmit' \in [Submitters -> {"idle", "entered", "sent"}]
        /\ pending' = pending - 1 /\ pending' \in Nat
    BY <1>4, <2>2, PendingMoves
  <2>4. dcCount.submitted + 1 + pending' - dcQueue' = dcCount.submitted + pending - dcQueue
        /\ dcCount.submitted + 1 \in Nat
    BY <1>4, <2>2, <2>3, DcTypes
  <2> QED
    BY <1>2, <1>4, <2>1, <2>2, <2>3, <2>4, DcTypes
<1>8. CASE SubmitDrops(s)
  <2>1. dcCount' = [dcCount EXCEPT !.late = dcCount.late, !.submitted = dcCount.submitted,
                                   !.dropped = dcCount.dropped + 1]
    BY <1>8, DcTypes DEF SubmitDrops, CountRec
  <2>2. dcSubmit[s] = "entered" /\ dcSubmit' = [dcSubmit EXCEPT ![s] = "idle"] /\ UNCHANGED dcQueue
    BY <1>8 DEF SubmitDrops
  <2>3. /\ dcSubmit' \in [Submitters -> {"idle", "entered", "sent"}]
        /\ pending' = pending /\ pending' \in Nat
    BY <1>4, <2>2, PendingMoves
  <2>4. dcCount.dropped + 1 \in Nat
    BY DcTypes
  <2> QED
    BY <1>2, <1>4, <2>1, <2>2, <2>3, <2>4, DcTypes
<1> QED
  BY <1>5, <1>6, <1>7, <1>8

\* The goroutine: f is where it is next, written and failed what it has counted.
LEMMA FlusherKeeps ==
    ASSUME DcInv, UNCHANGED <<dcEnabled, dcStopped, dcSubmit, dcMain>>,
           NEW f \in FlusherRec, dcFlusher' = f,
           NEW written \in Nat, NEW failed \in Nat,
           dcCount' = [dcCount EXCEPT !.written = written, !.failed = failed],
           dcQueue' \in 0..QueueCap, dcRows' \in Nat,
           dcQueue' + f.batch + written + failed =
              dcQueue + dcFlusher.batch + dcCount.written + dcCount.failed,
           f.done <= f.batch, written + f.done <= dcRows', dcRows' <= written + failed + f.done,
           f.pc \in {"select", "drain"} => f.batch < BatchSize,
           f.pc \in {"drain", "flushDrain", "flushLast", "gone"} => dcStopped,
           f.pc \in {"flushLast", "gone"} /\ ~dcCount.late => dcQueue' = 0
    PROVE  DcInv'
<1>1. /\ dcCount' \in CountRec /\ dcCount'.written = written /\ dcCount'.failed = failed
      /\ dcCount'.submitted = dcCount.submitted /\ dcCount'.late = dcCount.late
  BY DcTypes DEF CountRec
<1>2. DialogCollectorTypeOK'
  BY <1>1 DEF DcInv, DialogCollectorTypeOK, CountRec, FlusherRec
<1>3. FlusherStage'
  BY <1>1 DEF FlusherStage
<1>4. RowsInserted' /\ RowsWithinCounters'
  <2>1. f.done \in Nat
    BY DcTypes DEF FlusherRec
  <2> QED
    BY <1>1, <2>1 DEF RowsInserted, RowsWithinCounters
<1>5. CountersAddUp'
  <2>1. pending' = pending /\ pending \in Nat /\ f.batch \in Nat
    BY PendingType, DcTypes DEF pending, FlusherRec
  <2> QED
    BY <1>1, <2>1, DcTypes DEF DcInv, CountersAddUp
<1> QED
  BY <1>2, <1>3, <1>4, <1>5 DEF DcInv

\* What the goroutine has between two steps, and a step that counts nothing.
LEMMA FlusherFacts ==
    ASSUME DcInv
    PROVE  /\ dcFlusher.done <= dcFlusher.batch
           /\ dcCount.written + dcFlusher.done <= dcRows
           /\ dcRows <= dcCount.written + dcCount.failed + dcFlusher.done
           /\ dcCount = [dcCount EXCEPT !.written = dcCount.written, !.failed = dcCount.failed]
           /\ dcQueue \in 0..QueueCap
<1>1. dcCount = [dcCount EXCEPT !.written = dcCount.written, !.failed = dcCount.failed]
  BY DcTypes DEF CountRec
<1> QED
  BY <1>1 DEF DcInv, RowsInserted, RowsWithinCounters, DialogCollectorTypeOK

\* A received record moves from the queue to the batch.
LEMMA ReceiveKeeps ==
    ASSUME DcInv, Receive
    PROVE  DcInv'
<1> DEFINE more == dcFlusher.batch + 1
<1>1. /\ dcFlusher.pc \in {"select", "drain"} /\ dcQueue > 0 /\ dcQueue' = dcQueue - 1
      /\ UNCHANGED <<dcEnabled, dcStopped, dcSubmit, dcCount, dcRows, dcMain>>
  BY DEF Receive
<1>2. PICK pc : pc = IF more < BatchSize THEN dcFlusher.pc
                     ELSE IF dcFlusher.pc = "drain" THEN "flushDrain" ELSE "flush"
  OBVIOUS
<1> DEFINE f == [dcFlusher EXCEPT !.batch = more, !.pc = pc]
<1>3. dcFlusher' = f
  BY <1>2 DEF Receive
<1>4. more \in 0..BatchSize /\ more \in Nat
  BY <1>1, DcTypes DEF DcInv, FlusherStage
<1>5. /\ pc \in {"select", "drain", "flushDrain", "flush"}
      /\ pc \in {"select", "drain"} => more < BatchSize /\ pc = dcFlusher.pc
      /\ pc \in {"drain", "flushDrain"} => dcFlusher.pc = "drain"
  <2>1. CASE more < BatchSize
    BY <1>1, <1>2, <2>1
  <2>2. CASE ~(more < BatchSize)
    BY <1>1, <1>2, <2>2
  <2> QED
    BY <2>1, <2>2
<1>6. f \in FlusherRec /\ f.pc = pc /\ f.batch = more /\ f.done = dcFlusher.done
  BY <1>4, <1>5, DcTypes DEF FlusherRec
<1>7. f.pc \in {"drain", "flushDrain", "flushLast", "gone"} => dcStopped
  BY <1>5, <1>6 DEF DcInv, FlusherStage
<1> HIDE DEF f
<1>8. /\ dcQueue' + f.batch + dcCount.written + dcCount.failed =
            dcQueue + dcFlusher.batch + dcCount.written + dcCount.failed
      /\ f.done <= f.batch /\ dcQueue' \in 0..QueueCap
  <2>1. dcFlusher.done <= dcFlusher.batch
    BY FlusherFacts
  <2>2. /\ f.batch = dcFlusher.batch + 1 /\ f.done = dcFlusher.done
        /\ dcQueue' = dcQueue - 1 /\ dcQueue > 0
    BY <1>1, <1>6
  <2>3. f.batch \in Nat /\ f.done \in Nat /\ dcQueue' \in Nat
    BY <2>2, DcTypes
  <2>4. f.done <= f.batch /\ dcQueue' \in 0..QueueCap
    BY <2>1, <2>2, <2>3, DcTypes
  <2> QED
    BY <2>2, <2>3, <2>4, DcTypes
<1>9. f.pc \notin {"flushLast", "gone"} /\ (f.pc \in {"select", "drain"} => f.batch < BatchSize)
  BY <1>5, <1>6
<1> QED
  BY <1>1, <1>3, <1>6, <1>7, <1>8, <1>9, FlusherFacts, FlusherKeeps, DcTypes

\* The goroutine turns to its batch, or to the end.
LEMMA TurnKeeps ==
    ASSUME DcInv, TickerFlushes \/ SeesStop \/ Drained
    PROVE  DcInv'
<1> DEFINE old == dcFlusher.pc
<1>1. PICK pc \in {"flush", "drain", "flushLast", "gone"} :
         /\ dcFlusher' = [dcFlusher EXCEPT !.pc = pc]
         /\ \/ old = "select" /\ pc = "flush"
            \/ old = "select" /\ pc = "drain" /\ dcStopped
            \/ old = "drain" /\ pc \in {"flushLast", "gone"} /\ dcQueue = 0
  BY DEF TickerFlushes, SeesStop, Drained
<1>2. UNCHANGED <<dcEnabled, dcStopped, dcQueue, dcSubmit, dcCount, dcRows, dcMain>>
  BY DEF TickerFlushes, SeesStop, Drained
<1> DEFINE f == [dcFlusher EXCEPT !.pc = pc]
<1>3. f \in FlusherRec /\ f.pc = pc /\ f.batch = dcFlusher.batch /\ f.done = dcFlusher.done
  BY DcTypes DEF FlusherRec
<1>4. /\ f.pc \in {"select", "drain"} => f.batch < BatchSize
      /\ f.pc \in {"drain", "flushDrain", "flushLast", "gone"} => dcStopped
      /\ f.pc \in {"flushLast", "gone"} => dcQueue' = 0
  BY <1>1, <1>2, <1>3 DEF DcInv, FlusherStage
<1> HIDE DEF f
<1>5. dcFlusher' = f
  BY <1>1 DEF f
<1> QED
  BY <1>2, <1>3, <1>4, <1>5, FlusherFacts, FlusherKeeps, DcTypes

\* After a batch the goroutine is back where it flushed from.
LEMMA AfterFlush ==
    ASSUME DcInv, inFlush
    PROVE  /\ afterFlush \in FlusherRec /\ afterFlush.batch = 0 /\ afterFlush.done = 0
           /\ afterFlush.pc \in {"drain", "flushDrain", "flushLast", "gone"} => dcStopped
           /\ afterFlush.pc \in {"flushLast", "gone"} /\ ~dcCount.late => dcQueue = 0
<1>1. CASE dcFlusher.pc = "flush"
  BY <1>1, DcTypes DEF afterFlush, FlusherRec
<1>2. CASE dcFlusher.pc = "flushDrain"
  BY <1>2, DcTypes DEF afterFlush, FlusherRec, DcInv, FlusherStage
<1>3. CASE dcFlusher.pc = "flushLast"
  BY <1>3, DcTypes DEF afterFlush, FlusherRec, DcInv, FlusherStage
<1> QED
  BY <1>1, <1>2, <1>3 DEF inFlush

\* Records of a failed insert are counted as lost.
LEMMA InsertFailsKeeps ==
    ASSUME DcInv, InsertFails
    PROVE  DcInv'
<1>1. /\ inFlush /\ dcFlusher' = afterFlush
      /\ dcCount' = [dcCount EXCEPT !.failed = dcCount.failed + dcFlusher.batch]
      /\ UNCHANGED <<dcEnabled, dcStopped, dcQueue, dcSubmit, dcRows, dcMain>>
  BY DEF InsertFails
<1>2. dcCount' = [dcCount EXCEPT !.written = dcCount.written,
                                 !.failed = dcCount.failed + dcFlusher.batch]
  BY <1>1, DcTypes DEF CountRec
<1>3. PICK f \in FlusherRec :
         /\ f = afterFlush /\ f.batch = 0 /\ f.done = 0
         /\ f.pc \in {"drain", "flushDrain", "flushLast", "gone"} => dcStopped
         /\ f.pc \in {"flushLast", "gone"} /\ ~dcCount.late => dcQueue = 0
  BY <1>1, AfterFlush
<1>4. /\ dcCount.failed + dcFlusher.batch \in Nat
      /\ dcCount.written + f.done <= dcRows'
      /\ dcRows' <= dcCount.written + (dcCount.failed + dcFlusher.batch) + f.done
      /\ dcQueue' + f.batch + dcCount.written + (dcCount.failed + dcFlusher.batch) =
            dcQueue + dcFlusher.batch + dcCount.written + dcCount.failed
      /\ f.done <= f.batch /\ f.batch < BatchSize
  BY <1>1, <1>3, FlusherFacts, DcTypes
<1> QED
  BY <1>1, <1>2, <1>3, <1>4, FlusherFacts, FlusherKeeps, DcTypes

\* Inserted records are counted as written.
LEMMA InsertDialogLogsKeeps ==
    ASSUME DcInv, InsertDialogLogs
    PROVE  DcInv'
<1> DEFINE rest == dcFlusher.batch - dcFlusher.done
           n    == IF rest < RowsPerInsert THEN rest ELSE RowsPerInsert
<1>1. /\ inFlush /\ dcRows' = dcRows + n
      /\ UNCHANGED <<dcEnabled, dcStopped, dcQueue, dcSubmit, dcMain>>
  BY DEF InsertDialogLogs
<1>2. n \in Nat /\ n <= rest /\ rest \in Nat
  BY FlusherFacts, DcTypes
<1>3. CASE n = rest
  <2>1. dcFlusher' = afterFlush /\ dcCount' = [dcCount EXCEPT !.written = dcCount.written + dcFlusher.batch]
    BY <1>3 DEF InsertDialogLogs
  <2>2. dcCount' = [dcCount EXCEPT !.written = dcCount.written + dcFlusher.batch,
                                   !.failed = dcCount.failed]
    BY <2>1, DcTypes DEF CountRec
  <2>3. PICK f \in FlusherRec :
           /\ f = afterFlush /\ f.batch = 0 /\ f.done = 0
           /\ f.pc \in {"drain", "flushDrain", "flushLast", "gone"} => dcStopped
           /\ f.pc \in {"flushLast", "gone"} /\ ~dcCount.late => dcQueue = 0
    BY <1>1, AfterFlush
  <2>4. dcRows' = dcRows + (dcFlusher.batch - dcFlusher.done)
    BY <1>1, <1>3
  <2>5. /\ dcCount.written + dcFlusher.batch \in Nat /\ dcRows' \in Nat
        /\ dcCount.written + dcFlusher.batch + f.done <= dcRows'
        /\ dcRows' <= (dcCount.written + dcFlusher.batch) + dcCount.failed + f.done
        /\ dcQueue' + f.batch + (dcCount.written + dcFlusher.batch) + dcCount.failed =
              dcQueue + dcFlusher.batch + dcCount.written + dcCount.failed
        /\ f.done <= f.batch /\ f.batch < BatchSize
    BY <1>1, <2>3, <2>4, FlusherFacts, DcTypes
  <2> QED
    BY <1>1, <2>1, <2>2, <2>3, <2>5, FlusherFacts, FlusherKeeps, DcTypes
<1>4. CASE n # rest
  <2> HIDE DEF n
  <2> DEFINE f == [dcFlusher EXCEPT !.done = dcFlusher.done + n]
  <2>1. dcFlusher' = f /\ UNCHANGED dcCount
    BY <1>4 DEF InsertDialogLogs, n
  <2>2. dcFlusher.done + n <= dcFlusher.batch /\ dcFlusher.done + n \in 0..BatchSize
    BY <1>2, FlusherFacts, DcTypes
  <2>3. /\ f \in FlusherRec /\ f.pc = dcFlusher.pc /\ f.batch = dcFlusher.batch
        /\ f.done = dcFlusher.done + n
    BY <2>2, DcTypes DEF FlusherRec
  <2> HIDE DEF f
  <2>4. /\ f.pc \in {"select", "drain"} => f.batch < BatchSize
        /\ f.pc \in {"drain", "flushDrain", "flushLast", "gone"} => dcStopped
        /\ f.pc \in {"flushLast", "gone"} /\ ~dcCount.late => dcQueue' = 0
    BY <1>1, <2>3 DEF DcInv, FlusherStage
  <2>5. /\ dcRows' \in Nat /\ f.done <= f.batch /\ dcCount.written + f.done <= dcRows'
        /\ dcRows' <= dcCount.written + dcCount.failed + f.done
        /\ dcQueue' + f.batch + dcCount.written + dcCount.failed =
              dcQueue + dcFlusher.batch + dcCount.written + dcCount.failed
    BY <1>1, <1>2, <2>2, <2>3, FlusherFacts, DcTypes
  <2> QED
    BY <1>1, <2>1, <2>3, <2>4, <2>5, FlusherFacts, FlusherKeeps, DcTypes
<1> QED
  BY <1>3, <1>4

\* The invariant holds at the start.
LEMMA DcInvInitially ==
    ASSUME DialogCollectorInit
    PROVE  DcInv
<1>1. pending = 0
  <2>1. {s \in Submitters : dcSubmit[s] = "sent"} = {}
    BY DEF DialogCollectorInit
  <2> QED
    BY <2>1, FS_EmptySet DEF pending
<1>2. {QueueCap, BatchSize} \subseteq Nat \ {0}
  BY DialogCollectorAssumption
<1>3. DialogCollectorTypeOK
  <2>1. /\ dcFlusher = [pc |-> "select", batch |-> 0, done |-> 0] /\ dcQueue = 0 /\ dcRows = 0
        /\ dcCount = [submitted |-> 0, dropped |-> 0, written |-> 0, failed |-> 0, late |-> FALSE]
        /\ dcSubmit = [s \in Submitters |-> "idle"] /\ dcMain = "serving"
        /\ dcEnabled \in BOOLEAN /\ dcStopped \in BOOLEAN
    BY DEF DialogCollectorInit
  <2>2. 0 \in 0..BatchSize /\ 0 \in 0..QueueCap
    BY <1>2
  <2>3. dcFlusher \in FlusherRec /\ dcCount \in CountRec
    BY <2>1, <2>2 DEF FlusherRec, CountRec
  <2> QED
    BY <2>1, <2>2, <2>3 DEF DialogCollectorTypeOK, FlusherRec, CountRec
<1> QED
  BY <1>1, <1>2, <1>3 DEF DcInv, DialogCollectorInit, FlusherStage, RowsInserted, CountersAddUp,
     RowsWithinCounters

\* Every step of the collector keeps the invariant.
LEMMA DcInvKept ==
    ASSUME DcInv, [DialogCollectorNext]_dcVars
    PROVE  DcInv'
<1>1. CASE UNCHANGED dcVars \/ SetEnabled \/ Stop \/ StopReturns \/ StopTimesOut
  <2>1. /\ UNCHANGED <<dcQueue, dcFlusher, dcSubmit, dcCount, dcRows>>
        /\ dcEnabled' \in BOOLEAN /\ dcStopped' \in BOOLEAN /\ (dcStopped => dcStopped')
        /\ dcMain' \in {"serving", "waiting", "closed"}
    <3>1. CASE UNCHANGED dcVars
      BY <3>1, DcTypes DEF dcVars
    <3>2. CASE SetEnabled
      <4>1. (~dcEnabled) \in BOOLEAN
        BY DcTypes
      <4> QED
        BY <3>2, <4>1, DcTypes DEF SetEnabled
    <3>3. CASE Stop
      BY <3>3 DEF Stop
    <3>4. CASE StopReturns \/ StopTimesOut
      BY <3>4, DcTypes DEF StopReturns, StopTimesOut
    <3> QED
      BY <1>1, <3>1, <3>2, <3>3, <3>4
  <2> QED
    BY <2>1, SwitchKeeps
<1>2. ASSUME NEW s \in Submitters,
             SubmitEnters(s) \/ SubmitSends(s) \/ SubmitCounts(s) \/ SubmitDrops(s)
      PROVE  DcInv'
  BY <1>2, SubmitKeeps
<1> QED
  BY <1>1, <1>2, ReceiveKeeps, TurnKeeps, InsertDialogLogsKeeps, InsertFailsKeeps
     DEF DialogCollectorNext

\* Every conversation handed to the collector is accounted for, in the counters, in the
\* table and through a shutdown (Submit, the flusher and Stop of dialog_collector.go).
THEOREM DialogSoundHolds == DialogCollectorSpec => []DialogSound
<1>1. DialogCollectorInit => DcInv
  BY DcInvInitially
<1>2. DcInv /\ [DialogCollectorNext]_dcVars => DcInv'
  BY DcInvKept
<1>3. DcInv => DialogSound
  BY DEF DcInv, DialogSound, FlusherStage, NothingLeftBehind
<1> QED
  BY <1>1, <1>2, <1>3, PTL DEF DialogCollectorSpec

-----------------------------------------------------------------------------
(* OAuth sessions: the proof. *)

JobRec == [at : {"idle", "exchange", "insert", "add", "result"},
           way : {"none", "callback", "form"}, session : OaSessions \cup {NoSession}]

\* A step outside the requests writes nothing, takes no code back and reports what is so.
LEMMA SessionKeeps ==
    ASSUME OaInv, OaTypeOK', UNCHANGED <<oaResult, oaJob, oaRows, oaPool>>,
           \A s \in OaSessions : oaCode'[s] = "used" <=> oaCode[s] = "used",
           \A s \in OaSessions :
              "ok" \in oaReported'[s] => "ok" \in oaReported[s] \/ oaResult[s] = "ok"
    PROVE  OaInv'
<1>1. OneExchange'
  BY DEF OaInv, OneExchange, Exchanged
<1>2. Written'
  BY DEF OaInv, Written
<1>3. ResultIsTrue' /\ OneAccountPerConsent' /\ SuccessIsTrue'
  BY DEF OaInv, ResultIsTrue, OneAccountPerConsent, SuccessIsTrue
<1> QED
  BY <1>1, <1>2, <1>3 DEF OaInv

\* The steps of a session itself leave the handlers alone.
LEMMA OaSessionStepKeeps ==
    ASSUME OaInv, NEW s \in OaSessions,
           GenerateOAuthURL(s) \/ UserConsents(s) \/ SessionExpires(s) \/ PollOAuthCallback(s)
    PROVE  OaInv'
<1>1. OaTypeOK
  BY DEF OaInv
<1>2. CASE GenerateOAuthURL(s) \/ UserConsents(s) \/ SessionExpires(s)
  <2>1. OaTypeOK' /\ UNCHANGED <<oaResult, oaJob, oaRows, oaPool, oaReported>>
    BY <1>1, <1>2 DEF OaTypeOK, GenerateOAuthURL, UserConsents, SessionExpires
  <2>2. \A t \in OaSessions : oaCode'[t] = "used" <=> oaCode[t] = "used"
    BY <1>1, <1>2 DEF OaTypeOK, GenerateOAuthURL, UserConsents, SessionExpires
  <2> QED
    BY <2>1, <2>2, SessionKeeps
<1>3. CASE PollOAuthCallback(s)
  <2>1. UNCHANGED <<oaCallback, oaResult, oaCode, oaJob, oaRows, oaPool>>
    BY <1>3 DEF PollOAuthCallback
  <2>2. PICK told \in {"ok", "failed", "waiting", "processing"} :
           /\ told = "ok" => oaResult[s] = "ok"
           /\ oaReported' = [oaReported EXCEPT ![s] = oaReported[s] \cup {told}]
    BY <1>1, <1>3 DEF PollOAuthCallback, OaTypeOK
  <2>3. oaSession' \in [OaSessions -> {"none", "live", "expired"}]
    BY <1>1, <1>3 DEF PollOAuthCallback, OaTypeOK
  <2>4. /\ oaReported' \in [OaSessions -> SUBSET {"ok", "failed", "waiting", "processing"}]
        /\ oaReported'[s] = oaReported[s] \cup {told}
        /\ \A t \in OaSessions \ {s} : oaReported'[t] = oaReported[t]
    BY <1>1, <2>2 DEF OaTypeOK
  <2>5. OaTypeOK'
    BY <1>1, <2>1, <2>3, <2>4 DEF OaTypeOK
  <2>6. \A t \in OaSessions : "ok" \in oaReported'[t] => "ok" \in oaReported[t] \/ oaResult[t] = "ok"
    BY <2>2, <2>4
  <2> QED
    BY <2>1, <2>5, <2>6, SessionKeeps
<1> QED
  BY <1>2, <1>3

\* The cleanup drops expired sessions and their results only.
LEMMA cleanupLoopKeeps ==
    ASSUME OaInv, cleanupLoop
    PROVE  OaInv'
<1>1. OaTypeOK' /\ UNCHANGED <<oaResult, oaCode, oaJob, oaRows, oaPool, oaReported>>
  BY DEF OaInv, OaTypeOK, cleanupLoop
<1> QED
  BY <1>1, SessionKeeps

\* Request h becomes v, in session s unless it is idle again.
BecomesJob(h, s, v) ==
    /\ v \in JobRec /\ oaJob' = [oaJob EXCEPT ![h] = v]
    /\ s \in OaSessions /\ (v.at # "idle" => v.session = s)

OaStaysTyped ==
    /\ oaSession' \in [OaSessions -> {"none", "live", "expired"}]
    /\ oaCallback' \in [OaSessions -> BOOLEAN]
    /\ oaResult' \in [OaSessions -> {"none", "ok", "failed"}]
    /\ oaCode' \in [OaSessions -> {"none", "awaited", "issued", "used"}]
    /\ oaRows' \in [OaSessions -> Nat] /\ oaPool' \in [OaSessions -> Nat]
    /\ UNCHANGED oaReported

\* The rows and the pool grow only for a request that has exchanged the session's code.
OneGrows(h, s) ==
    /\ \A t \in OaSessions \ {s} : oaRows'[t] = oaRows[t] /\ oaPool'[t] = oaPool[t]
    /\ oaRows[s] <= oaRows'[s] /\ oaPool[s] <= oaPool'[s]
    /\ oaRows'[s] <= 1 /\ oaPool'[s] <= oaRows'[s]
    /\ oaRows'[s] # oaRows[s] \/ oaPool'[s] # oaPool[s] =>
          Exchanged(h) /\ oaJob[h].session = s

\* What v may expect of its session.
FitsSession(h, s, v) ==
    v.at \in {"insert", "add", "result"} =>
       /\ oaCode'[s] = "used"
       /\ \/ Exchanged(h) /\ oaJob[h].session = s
          \/ oaCode[s] # "used"
       /\ v.at = "insert" => oaRows'[s] = 0 /\ oaPool'[s] = 0
       /\ v.at = "add"    => oaRows'[s] = 1 /\ oaPool'[s] = 0
       /\ v.at = "result" => oaRows'[s] = 1 /\ oaPool'[s] = 1

CodesStayUsed == \A t \in OaSessions : oaCode[t] = "used" => oaCode'[t] = "used"

OkIsEarned(s) ==
    \A t \in OaSessions :
       oaResult'[t] = "ok" => oaResult[t] = "ok" \/ (t = s /\ oaRows[s] > 0 /\ oaPool[s] > 0)

\* A request goes on, with its session or as an idle one; the rows and the pool it leaves
\* for the session are right for where it is, and no other request has the code.
LEMMA JobKeeps ==
    ASSUME OaInv, NEW h \in OaHandlers, NEW s, NEW v,
           BecomesJob(h, s, v), OaStaysTyped, CodesStayUsed, OneGrows(h, s),
           FitsSession(h, s, v), OkIsEarned(s)
    PROVE  OaInv'
<1> USE DEF BecomesJob, OaStaysTyped, CodesStayUsed, OneGrows, FitsSession, OkIsEarned
<1>1. /\ oaJob \in [OaHandlers -> JobRec] /\ oaRows \in [OaSessions -> Nat]
      /\ oaPool \in [OaSessions -> Nat]
  BY DEF OaInv, OaTypeOK, JobRec
<1>2. /\ oaJob' \in [OaHandlers -> JobRec] /\ oaJob'[h] = v
      /\ \A g \in OaHandlers \ {h} : oaJob'[g] = oaJob[g]
  BY <1>1
<1>3. OaTypeOK'
  BY <1>2 DEF OaInv, OaTypeOK, JobRec
<1>4. \A g \in OaHandlers \ {h} : Exchanged(g)' <=> Exchanged(g)
  BY <1>2 DEF Exchanged
\* Who else has a session's code does not see its rows change.
<1>5. ASSUME NEW g \in OaHandlers \ {h}, Exchanged(g)
      PROVE  /\ oaJob[g].session \in OaSessions
             /\ oaRows'[oaJob[g].session] = oaRows[oaJob[g].session]
             /\ oaPool'[oaJob[g].session] = oaPool[oaJob[g].session]
             /\ Exchanged(h)' => oaJob[g].session # s
  <2>1. oaJob[g].session \in OaSessions /\ oaCode[oaJob[g].session] = "used"
    BY <1>5 DEF OaInv, OneExchange, Exchanged
  <2>2. Exchanged(h) => oaJob[h].session # oaJob[g].session
    BY <1>5 DEF OaInv, OneExchange
  <2>3. Exchanged(h)' => oaJob[g].session # s
    BY <1>2, <2>1, <2>2 DEF Exchanged
  <2> QED
    BY <2>1, <2>2, <2>3
<1>6. OneExchange'
  <2>1. \A g \in OaHandlers : oaJob'[g].at # "idle" => oaJob'[g].session \in OaSessions
    BY <1>2 DEF OaInv, OneExchange
  <2>2. \A g \in OaHandlers : Exchanged(g)' => oaCode'[oaJob'[g].session] = "used"
    <3>1. Exchanged(h)' => oaCode'[oaJob'[h].session] = "used"
      BY <1>2 DEF Exchanged
    <3> QED
      BY <1>2, <1>4, <1>5, <3>1 DEF OaInv, OneExchange
  <2>3. \A g, j \in OaHandlers :
           Exchanged(g)' /\ Exchanged(j)' /\ oaJob'[g].session = oaJob'[j].session => g = j
    <3>1. Exchanged(h)' => oaJob'[h].session = s
      BY <1>2 DEF Exchanged
    <3> QED
      BY <1>2, <1>4, <1>5, <3>1 DEF OaInv, OneExchange
  <2> QED
    BY <2>1, <2>2, <2>3 DEF OneExchange
<1>7. Written'
  <2>1. \A t \in OaSessions : oaCode'[t] # "used" => oaRows'[t] = 0 /\ oaPool'[t] = 0
    <3>1. \A t \in OaSessions : oaCode'[t] # "used" => oaRows[t] = 0 /\ oaPool[t] = 0
      BY DEF OaInv, Written
    <3>2. oaCode'[s] # "used" => oaRows'[s] = oaRows[s] /\ oaPool'[s] = oaPool[s]
      BY DEF OaInv, OneExchange
    <3> QED
      BY <3>1, <3>2
  <2>2. ASSUME NEW g \in OaHandlers \ {h}
        PROVE  /\ oaJob'[g].at = "insert" => oaRows'[oaJob'[g].session] = 0 /\ oaPool'[oaJob'[g].session] = 0
               /\ oaJob'[g].at = "add" => oaRows'[oaJob'[g].session] = 1 /\ oaPool'[oaJob'[g].session] = 0
               /\ oaJob'[g].at = "result" => oaRows'[oaJob'[g].session] = 1 /\ oaPool'[oaJob'[g].session] = 1
    BY <1>2, <1>5, <2>2 DEF OaInv, Written, Exchanged
  <2>3. /\ oaJob'[h].at = "insert" => oaRows'[oaJob'[h].session] = 0 /\ oaPool'[oaJob'[h].session] = 0
        /\ oaJob'[h].at = "add" => oaRows'[oaJob'[h].session] = 1 /\ oaPool'[oaJob'[h].session] = 0
        /\ oaJob'[h].at = "result" => oaRows'[oaJob'[h].session] = 1 /\ oaPool'[oaJob'[h].session] = 1
    BY <1>2
  <2> QED
    BY <2>1, <2>2, <2>3 DEF Written
<1>8. \A t \in OaSessions : oaRows[t] <= oaRows'[t] /\ oaPool[t] <= oaPool'[t]
  BY <1>1
<1>9. ResultIsTrue'
  <2> SUFFICES ASSUME NEW t \in OaSessions, oaResult'[t] = "ok"
               PROVE  oaRows'[t] > 0 /\ oaPool'[t] > 0
    BY DEF ResultIsTrue
  <2>1. oaRows[t] > 0 /\ oaPool[t] > 0
    BY DEF OaInv, ResultIsTrue
  <2> QED
    BY <1>1, <1>8, <2>1
<1>10. OneAccountPerConsent'
  BY DEF OaInv, OneAccountPerConsent
<1>11. SuccessIsTrue'
  <2>1. \A t \in OaSessions : oaPool'[t] <= oaRows'[t]
    BY DEF OaInv, SuccessIsTrue
  <2>2. \A t \in OaSessions : "ok" \in oaReported'[t] => oaRows'[t] > 0 /\ oaPool'[t] > 0
    <3> SUFFICES ASSUME NEW t \in OaSessions, "ok" \in oaReported[t]
                 PROVE  oaRows'[t] > 0 /\ oaPool'[t] > 0
      OBVIOUS
    <3>1. oaRows[t] > 0 /\ oaPool[t] > 0
      BY DEF OaInv, SuccessIsTrue
    <3> QED
      BY <1>1, <1>8, <3>1
  <2> QED
    BY <2>1, <2>2 DEF SuccessIsTrue
<1> QED
  BY <1>3, <1>6, <1>7, <1>9, <1>10, <1>11 DEF OaInv

\* What the invariant says of each variable.
LEMMA OaTypes ==
    ASSUME OaInv
    PROVE  /\ oaSession \in [OaSessions -> {"none", "live", "expired"}]
           /\ oaCallback \in [OaSessions -> BOOLEAN]
           /\ oaResult \in [OaSessions -> {"none", "ok", "failed"}]
           /\ oaCode \in [OaSessions -> {"none", "awaited", "issued", "used"}]
           /\ oaJob \in [OaHandlers -> JobRec]
           /\ oaRows \in [OaSessions -> Nat] /\ oaPool \in [OaSessions -> Nat]
           /\ \A s \in OaSessions : oaRows[s] <= 1 /\ oaPool[s] <= oaRows[s]
           /\ OaIdle \in JobRec /\ OaIdle.at = "idle"
BY DEF OaInv, OaTypeOK, JobRec, OaIdle, OneAccountPerConsent, SuccessIsTrue

\* A handler that looks a session up remembers it as it was.
LEMMA LookUpKeeps ==
    ASSUME OaInv, NEW h \in OaHandlers, NEW s \in OaSessions, NEW way \in {"callback", "form"},
           LookUp(h, s, way)
    PROVE  OaInv'
<1> DEFINE v == [at |-> "exchange", way |-> way, session |-> s]
<1>1. v \in JobRec /\ v.at = "exchange" /\ v.session = s
  BY DEF JobRec
<1>2. oaJob' = [oaJob EXCEPT ![h] = v]
      /\ UNCHANGED <<oaSession, oaResult, oaCode, oaRows, oaPool, oaReported>>
  BY DEF LookUp
<1> HIDE DEF v
<1>3. oaCallback' \in [OaSessions -> BOOLEAN]
  <2>1. PICK b \in BOOLEAN : b = (oaCallback[s] \/ way = "callback")
    BY OaTypes
  <2>2. oaCallback' = [oaCallback EXCEPT ![s] = b]
    BY <2>1 DEF LookUp
  <2> QED
    BY <2>1, <2>2, OaTypes
<1>4. /\ BecomesJob(h, s, v) /\ FitsSession(h, s, v)
      /\ CodesStayUsed /\ OkIsEarned(s)
  BY <1>1, <1>2 DEF BecomesJob, FitsSession, CodesStayUsed, OkIsEarned
<1>5. OaStaysTyped
  BY <1>2, <1>3, OaTypes DEF OaStaysTyped
<1>6. OneGrows(h, s)
  BY <1>2, OaTypes DEF OneGrows
<1> QED
  BY <1>4, <1>5, <1>6, JobKeeps

\* A request that ends: a success only after the account is in the pool.
LEMMA EndKeeps ==
    ASSUME OaInv, NEW h \in OaHandlers, NEW result \in {"ok", "failed"}, EndHandler(h, result),
           oaJob[h].at # "idle", result = "ok" => oaJob[h].at = "result",
           oaSession' \in [OaSessions -> {"none", "live", "expired"}],
           oaCode' \in [OaSessions -> {"none", "awaited", "issued", "used"}],
           \A t \in OaSessions : oaCode[t] = "used" => oaCode'[t] = "used",
           UNCHANGED <<oaCallback, oaPool, oaReported>>,
           \/ UNCHANGED oaRows
           \/ /\ oaJob[h].at = "insert"
              /\ oaRows' = [oaRows EXCEPT ![oaJob[h].session] = oaRows[oaJob[h].session] + 1]
    PROVE  OaInv'
<1> DEFINE s == oaJob[h].session
<1>1. s \in OaSessions
  BY DEF OaInv, OneExchange
<1>2. /\ oaJob' = [oaJob EXCEPT ![h] = OaIdle]
      /\ oaResult' \in {oaResult, [oaResult EXCEPT ![s] = result]}
  BY DEF EndHandler
<1>3. oaResult' \in [OaSessions -> {"none", "ok", "failed"}]
  BY <1>1, <1>2, OaTypes
<1>4. result = "ok" => oaRows[s] > 0 /\ oaPool[s] > 0
  BY DEF OaInv, Written
<1>5. OkIsEarned(s)
  <2>1. CASE UNCHANGED oaResult
    BY <2>1 DEF OkIsEarned
  <2>2. CASE oaResult' = [oaResult EXCEPT ![s] = result]
    <3>1. oaResult'[s] = result /\ \A t \in OaSessions \ {s} : oaResult'[t] = oaResult[t]
      BY <1>1, <2>2, OaTypes
    <3> QED
      BY <1>4, <3>1 DEF OkIsEarned
  <2> QED
    BY <1>2, <2>1, <2>2
<1>6. /\ oaRows' \in [OaSessions -> Nat] /\ oaRows[s] <= oaRows'[s]
      /\ oaRows'[s] <= 1 /\ oaPool[s] <= oaRows'[s]
      /\ \A t \in OaSessions \ {s} : oaRows'[t] = oaRows[t]
      /\ oaRows'[s] # oaRows[s] => oaJob[h].at = "insert"
  <2>1. CASE UNCHANGED oaRows
    BY <1>1, <2>1, OaTypes
  <2>2. CASE /\ oaJob[h].at = "insert" /\ oaRows' = [oaRows EXCEPT ![s] = oaRows[s] + 1]
    <3>1. oaRows[s] = 0 /\ oaPool[s] = 0
      BY <2>2 DEF OaInv, Written
    <3> QED
      BY <1>1, <2>2, <3>1, OaTypes
  <2> QED
    BY <2>1, <2>2
<1>7. oaRows'[s] # oaRows[s] => Exchanged(h)
  BY <1>6 DEF Exchanged
<1>8. BecomesJob(h, s, OaIdle) /\ FitsSession(h, s, OaIdle)
  BY <1>1, <1>2, OaTypes DEF BecomesJob, FitsSession
<1>9. OaStaysTyped /\ CodesStayUsed
  BY <1>3, <1>6, OaTypes DEF OaStaysTyped, CodesStayUsed
<1>10. OneGrows(h, s)
  BY <1>1, <1>6, <1>7, OaTypes DEF OneGrows
<1> QED
  BY <1>5, <1>8, <1>9, <1>10, JobKeeps

\* A failed exchange adds no account.
LEMMA ExchangeFailsKeeps ==
    ASSUME OaInv, NEW h \in OaHandlers, ExchangeFails(h)
    PROVE  OaInv'
<1> DEFINE s == oaJob[h].session
<1>1. /\ oaJob[h].at = "exchange" /\ EndHandler(h, "failed")
      /\ oaCode' \in {oaCode, [oaCode EXCEPT ![s] = "used"]}
      /\ UNCHANGED <<oaSession, oaCallback, oaRows, oaPool, oaReported>>
  BY DEF ExchangeFails
<1>2. /\ oaCode' \in [OaSessions -> {"none", "awaited", "issued", "used"}]
      /\ \A t \in OaSessions : oaCode[t] = "used" => oaCode'[t] = "used"
  BY <1>1, OaTypes
<1> QED
  BY <1>1, <1>2, OaTypes, EndKeeps

\* The code is good once: who exchanges it has the session for itself.
LEMMA ExchangeSucceedsKeeps ==
    ASSUME OaInv, NEW h \in OaHandlers, ExchangeSucceeds(h)
    PROVE  OaInv'
<1> DEFINE s == oaJob[h].session
<1>1. /\ oaJob[h].at = "exchange" /\ s \in OaSessions /\ oaCode[s] = "issued"
      /\ oaCode' = [oaCode EXCEPT ![s] = "used"]
      /\ oaSession' \in {oaSession, [oaSession EXCEPT ![s] = "none"]}
      /\ UNCHANGED <<oaCallback, oaRows, oaPool, oaReported>>
  BY DEF ExchangeSucceeds, OaInv, OneExchange
<1>2. /\ oaCode' \in [OaSessions -> {"none", "awaited", "issued", "used"}] /\ oaCode'[s] = "used"
      /\ \A t \in OaSessions : oaCode[t] = "used" => oaCode'[t] = "used"
      /\ oaSession' \in [OaSessions -> {"none", "live", "expired"}]
  BY <1>1, OaTypes
<1>3. CASE oaJob' = [oaJob EXCEPT ![h].at = "insert"] /\ UNCHANGED oaResult
  <2> DEFINE v == [oaJob[h] EXCEPT !.at = "insert"]
  <2>1. v \in JobRec /\ v.at = "insert" /\ v.session = s /\ oaJob' = [oaJob EXCEPT ![h] = v]
    BY <1>3, OaTypes DEF JobRec
  <2> HIDE DEF v
  <2>2. oaRows[s] = 0 /\ oaPool[s] = 0
    BY <1>1 DEF OaInv, Written
  <2>3. BecomesJob(h, s, v) /\ FitsSession(h, s, v) /\ CodesStayUsed /\ OkIsEarned(s)
    BY <1>1, <1>2, <1>3, <2>1, <2>2
       DEF BecomesJob, FitsSession, CodesStayUsed, OkIsEarned
  <2>4. OaStaysTyped /\ OneGrows(h, s)
    BY <1>1, <1>2, <1>3, OaTypes DEF OaStaysTyped, OneGrows
  <2> QED
    BY <2>3, <2>4, JobKeeps
<1>4. CASE EndHandler(h, "failed")
  BY <1>1, <1>2, <1>4, OaTypes, EndKeeps
<1> QED
  BY <1>3, <1>4 DEF ExchangeSucceeds

\* Who exchanged the code inserts the row, once.
LEMMA InsertAccountKeeps ==
    ASSUME OaInv, NEW h \in OaHandlers, InsertAccount(h)
    PROVE  OaInv'
<1> DEFINE s == oaJob[h].session
           v == [oaJob[h] EXCEPT !.at = "add"]
<1>1. /\ oaJob[h].at = "insert" /\ s \in OaSessions /\ oaCode[s] = "used" /\ Exchanged(h)
      /\ oaRows[s] = 0 /\ oaPool[s] = 0
      /\ oaRows' = [oaRows EXCEPT ![s] = oaRows[s] + 1]
      /\ UNCHANGED <<oaSession, oaCallback, oaResult, oaCode, oaPool, oaReported>>
  BY DEF InsertAccount, OaInv, OneExchange, Written, Exchanged
<1>2. v \in JobRec /\ v.at = "add" /\ v.session = s /\ oaJob' = [oaJob EXCEPT ![h] = v]
  BY OaTypes DEF InsertAccount, JobRec
<1> HIDE DEF v
<1>3. /\ oaRows' \in [OaSessions -> Nat] /\ oaRows'[s] = 1
      /\ \A t \in OaSessions \ {s} : oaRows'[t] = oaRows[t]
  BY <1>1, OaTypes
<1>4. BecomesJob(h, s, v) /\ FitsSession(h, s, v) /\ CodesStayUsed /\ OkIsEarned(s)
  BY <1>1, <1>2, <1>3 DEF BecomesJob, FitsSession, CodesStayUsed, OkIsEarned
<1>5. OaStaysTyped /\ OneGrows(h, s)
  BY <1>1, <1>3, OaTypes DEF OaStaysTyped, OneGrows
<1> QED
  BY <1>4, <1>5, JobKeeps

\* A row that cannot be inserted is not there.
LEMMA InsertAccountFailsKeeps ==
    ASSUME OaInv, NEW h \in OaHandlers, InsertAccountFails(h)
    PROVE  OaInv'
BY OaTypes, EndKeeps DEF InsertAccountFails

\* An account goes to the pool after its row was inserted.
LEMMA AddToPoolKeeps ==
    ASSUME OaInv, NEW h \in OaHandlers, AddToPool(h)
    PROVE  OaInv'
<1> DEFINE s == oaJob[h].session
           v == [oaJob[h] EXCEPT !.at = "result"]
<1>1. /\ oaJob[h].at = "add" /\ s \in OaSessions /\ oaCode[s] = "used" /\ Exchanged(h)
      /\ oaRows[s] = 1 /\ oaPool[s] = 0
      /\ oaPool' = [oaPool EXCEPT ![s] = oaPool[s] + 1]
      /\ UNCHANGED <<oaSession, oaCallback, oaResult, oaCode, oaRows, oaReported>>
  BY DEF AddToPool, OaInv, OneExchange, Written, Exchanged
<1>2. v \in JobRec /\ v.at = "result" /\ v.session = s /\ oaJob' = [oaJob EXCEPT ![h] = v]
  BY OaTypes DEF AddToPool, JobRec
<1> HIDE DEF v
<1>3. /\ oaPool' \in [OaSessions -> Nat] /\ oaPool'[s] = 1
      /\ \A t \in OaSessions \ {s} : oaPool'[t] = oaPool[t]
  BY <1>1, OaTypes
<1>4. BecomesJob(h, s, v) /\ FitsSession(h, s, v) /\ CodesStayUsed /\ OkIsEarned(s)
  BY <1>1, <1>2, <1>3 DEF BecomesJob, FitsSession, CodesStayUsed, OkIsEarned
<1>5. OaStaysTyped /\ OneGrows(h, s)
  BY <1>1, <1>3, OaTypes DEF OaStaysTyped, OneGrows
<1> QED
  BY <1>4, <1>5, JobKeeps

\* The result that is left is that of the exchange.
LEMMA LeaveResultKeeps ==
    ASSUME OaInv, NEW h \in OaHandlers, LeaveResult(h)
    PROVE  OaInv'
BY OaTypes, EndKeeps DEF LeaveResult

\* The invariant holds at the start.
LEMMA OaInvInitially ==
    ASSUME OAuthInit
    PROVE  OaInv
<1>1. OaTypeOK
  <2>1. OaIdle \in JobRec
    BY DEF OaIdle, JobRec
  <2> QED
    BY <2>1 DEF OAuthInit, OaTypeOK, JobRec
<1> QED
  BY <1>1 DEF OAuthInit, OaInv, OneExchange, Exchanged, Written, ResultIsTrue,
     OneAccountPerConsent, SuccessIsTrue, OaIdle

\* Every step of sessions and handlers keeps the invariant.
LEMMA OaInvKept ==
    ASSUME OaInv, [OAuthNext]_oaVars
    PROVE  OaInv'
<1>1. CASE UNCHANGED oaVars
  <2>1. OaTypeOK'
    BY <1>1 DEF oaVars, OaInv, OaTypeOK
  <2> QED
    BY <1>1, <2>1, SessionKeeps DEF oaVars
<1>2. ASSUME NEW h \in OaHandlers, OAuthStep(h) PROVE OaInv'
  BY <1>2, LookUpKeeps, ExchangeSucceedsKeeps, ExchangeFailsKeeps, InsertAccountKeeps,
     InsertAccountFailsKeeps, AddToPoolKeeps, LeaveResultKeeps DEF OAuthStep
<1> QED
  BY <1>1, <1>2, OaSessionStepKeeps, cleanupLoopKeeps DEF OAuthNext

\* One consent becomes one account, and a success that is shown is one, however often the
\* browser loads the redirect and whether or not the form is submitted too (OAuthCallback,
\* ExchangeOAuthCode, PollOAuthCallback).
THEOREM OAuthSoundHolds == OAuthSpec => []OAuthSound
<1>1. OAuthInit => OaInv
  BY OaInvInitially
<1>2. OaInv /\ [OAuthNext]_oaVars => OaInv'
  BY OaInvKept
<1>3. OaInv => OAuthSound
  BY DEF OaInv, OAuthSound
<1> QED
  BY <1>1, <1>2, <1>3, PTL DEF OAuthSpec

-----------------------------------------------------------------------------
(* The scan of the pool. *)

WalkRec == [pc : {"idle", "walk", "run"}, exclude : SUBSET Accounts, pos : Nat \ {0},
            best : Accounts \cup {NoAccount}, load : Int, seen : SUBSET Accounts]

ScanTypeOK ==
    /\ view \in [Accounts -> [available : BOOLEAN, priority : 0..3, score : Int, limit : Nat]]
    /\ active \in [Accounts -> Int]
    /\ walk \in [Requests -> WalkRec]

\* Tier first, then dispatch score; the load decides among equals only.
NotBelow(v, u) == v.priority > u.priority \/ (v.priority = u.priority /\ v.score >= u.score)

\* The best account so far is the best of what the walk has seen so far.
BestSoFar(w) ==
    /\ w.best = NoAccount <=> w.seen = {}
    /\ w.best = NoAccount \/ w.best \in w.seen
    /\ \A a \in w.seen : NotBelow(view[w.best], view[a])

ScanInv ==
    /\ ScanTypeOK
    /\ \A q \in Requests : BestSoFar(walk[q]) /\ (walk[q].pc = "run" => walk[q].best # NoAccount)

\* Not being below is a total preorder on what accounts look like.
LEMMA NotBelowOrder ==
    ASSUME NEW u \in [available : BOOLEAN, priority : 0..3, score : Int, limit : Nat],
           NEW v \in [available : BOOLEAN, priority : 0..3, score : Int, limit : Nat],
           NEW w \in [available : BOOLEAN, priority : 0..3, score : Int, limit : Nat]
    PROVE  /\ NotBelow(v, v)
           /\ NotBelow(u, v) \/ NotBelow(v, u)
           /\ NotBelow(w, v) /\ NotBelow(v, u) => NotBelow(w, u)
BY DEF NotBelow

\* A comparison, held as a value.
LEMMA GreaterIsBoolean ==
    ASSUME NEW x \in Int, NEW y \in Int, NEW z, z = (x > y)
    PROVE  z \in BOOLEAN /\ (z => x > y) /\ (~z => x <= y)
<1>1. z \in BOOLEAN
  OBVIOUS
<1>2. z => x > y
  OBVIOUS
<1>3. ~z => ~(x > y)
  OBVIOUS
<1> QED
  BY <1>1, <1>2, <1>3

\* An account that replaces the best one is not below it, and one that does not is not above.
LEMMA ReplacesIsOrder ==
    ASSUME ScanTypeOK, NEW a \in Accounts, NEW w \in WalkRec, w.best # NoAccount,
           NEW better \in replaces(a, w)
    PROVE  /\ better \in BOOLEAN
           /\ better => NotBelow(view[a], view[w.best])
           /\ ~better => NotBelow(view[w.best], view[a])
<1> DEFINE v == view[a]
           b == view[w.best]
<1>1. /\ v \in [available : BOOLEAN, priority : 0..3, score : Int, limit : Nat]
      /\ b \in [available : BOOLEAN, priority : 0..3, score : Int, limit : Nat]
  BY DEF ScanTypeOK, WalkRec
<1>2. CASE v.priority # b.priority
  <2>1. PICK x \in Int, y \in Int : x = v.priority /\ y = b.priority
    BY <1>1
  <2>2. better = (x > y)
    BY <1>2, <2>1 DEF replaces
  <2>3. better \in BOOLEAN /\ (better => x > y) /\ (~better => x <= y)
    BY <2>2, GreaterIsBoolean
  <2> QED
    BY <1>1, <1>2, <2>1, <2>3 DEF NotBelow
<1>3. CASE v.priority = b.priority /\ v.score # b.score
  <2>1. PICK x \in Int, y \in Int : x = v.score /\ y = b.score
    BY <1>1
  <2>2. better = (x > y)
    BY <1>3, <2>1 DEF replaces
  <2>3. better \in BOOLEAN /\ (better => x > y) /\ (~better => x <= y)
    BY <2>2, GreaterIsBoolean
  <2> QED
    BY <1>1, <1>3, <2>1, <2>3 DEF NotBelow
<1>4. CASE v.priority = b.priority /\ v.score = b.score
  <2>1. better \in (IF active[a] = w.load THEN BOOLEAN ELSE {active[a] < w.load})
    BY <1>4 DEF replaces
  <2>2. better \in BOOLEAN
    <3>1. CASE active[a] = w.load
      BY <2>1, <3>1
    <3>2. CASE active[a] # w.load
      <4>1. better = (active[a] < w.load)
        BY <2>1, <3>2
      <4> QED
        BY <4>1
    <3> QED
      BY <3>1, <3>2
  <2> QED
    BY <1>1, <1>4, <2>2 DEF NotBelow
<1> QED
  BY <1>2, <1>3, <1>4

\* A visit keeps the best of the accounts seen so far.
LEMMA ScanVisitKeeps ==
    ASSUME ScanInv, NEW q \in Requests, Visit(q)
    PROVE  ScanInv'
<1> DEFINE w == walk[q]
           a == Pool[w.pos]
<1>1. ScanTypeOK /\ w \in WalkRec /\ BestSoFar(w) /\ w.pc = "walk"
  BY DEF ScanInv, ScanTypeOK, Visit
<1>2. a \in Accounts
  <2>1. w.pos <= Len(Pool)
    BY DEF Visit
  <2>2. w.pos \in Nat \ {0} /\ Len(Pool) \in Nat
    BY <1>1, PoolAssumption DEF WalkRec
  <2>3. DOMAIN Pool = 1..Len(Pool)
    BY PoolAssumption
  <2> QED
    BY <2>1, <2>2, <2>3 DEF Accounts
<1>3. UNCHANGED <<view, active>>
  BY DEF Visit
<1>4. CASE Fit(a, w.exclude)
  <2>1. PICK better \in replaces(a, w) :
           walk' = [walk EXCEPT ![q].pos  = w.pos + 1,
                                ![q].best = IF better THEN a ELSE w.best,
                                ![q].load = IF better THEN active[a] ELSE w.load,
                                ![q].seen = w.seen \cup {a}]
    BY <1>4 DEF Visit
  <2>2. better \in BOOLEAN /\ (w.best = NoAccount => better)
    BY <1>1, <1>2, <2>1, ReplacesIsOrder DEF replaces
  <2>3. PICK best \in Accounts, load \in Int :
           /\ best = IF better THEN a ELSE w.best
           /\ load = IF better THEN active[a] ELSE w.load
    BY <1>1, <1>2, <2>2 DEF ScanTypeOK, WalkRec
  <2> DEFINE x == [w EXCEPT !.pos = w.pos + 1, !.best = best, !.load = load,
                            !.seen = w.seen \cup {a}]
  <2>4. walk' = [walk EXCEPT ![q] = x]
    BY <1>1, <2>1, <2>3 DEF ScanTypeOK, WalkRec
  <2>5. x \in WalkRec /\ x.pc = "walk" /\ x.best = best /\ x.seen = w.seen \cup {a}
    <3>1. PICK u \in WalkRec : u = w
      BY <1>1
    <3>2. PICK b \in Accounts : b = a
      BY <1>2
    <3>3. x = [u EXCEPT !.pos = u.pos + 1, !.best = best, !.load = load, !.seen = u.seen \cup {b}]
      BY <3>1, <3>2
    <3>4. x \in WalkRec
      <4>0. u.pos + 1 \in Nat \ {0} /\ u.seen \cup {b} \in SUBSET Accounts
        <5>1. u.pos \in Nat \ {0} /\ u.seen \in SUBSET Accounts
          BY DEF WalkRec
        <5> QED
          BY <5>1
      <4>1. PICK pos \in Nat \ {0} : pos = u.pos + 1
        BY <4>0
      <4>3. PICK seen \in SUBSET Accounts : seen = u.seen \cup {b}
        BY <4>0
      <4>2. x = [u EXCEPT !.pos = pos, !.best = best, !.load = load, !.seen = seen]
        BY <3>3, <4>1, <4>3
      <4> QED
        BY <4>2 DEF WalkRec
    <3>5. x.pc = u.pc /\ x.best = best /\ x.seen = u.seen \cup {b}
      BY <3>3 DEF WalkRec
    <3> QED
      BY <1>1, <3>1, <3>2, <3>4, <3>5
  <2>6. BestSoFar(x)
    <3>1. best # NoAccount /\ best \in w.seen \cup {a}
      BY <1>1, <2>2, <2>3, PoolAssumption DEF BestSoFar, Accounts
    <3>2. NotBelow(view[best], view[a])
      BY <1>1, <1>2, <2>1, <2>2, <2>3, ReplacesIsOrder, NotBelowOrder DEF ScanTypeOK
    <3>3. ASSUME NEW c \in w.seen PROVE NotBelow(view[best], view[c])
      <4>1. w.best # NoAccount /\ c \in Accounts /\ NotBelow(view[w.best], view[c])
        BY <1>1, <3>3 DEF BestSoFar, WalkRec
      <4>2. NotBelow(view[best], view[w.best])
        BY <1>1, <1>2, <2>1, <2>2, <2>3, <4>1, ReplacesIsOrder, NotBelowOrder DEF ScanTypeOK, WalkRec
      <4>3. {view[best], view[w.best], view[c]} \subseteq
               [available : BOOLEAN, priority : 0..3, score : Int, limit : Nat]
        BY <1>1, <4>1 DEF ScanTypeOK, WalkRec
      <4> QED
        BY <4>1, <4>2, <4>3, NotBelowOrder
    <3> QED
      BY <2>5, <3>1, <3>2, <3>3 DEF BestSoFar
  <2> HIDE DEF x
  <2>7. walk' \in [Requests -> WalkRec] /\ walk'[q] = x
        /\ \A p \in Requests \ {q} : walk'[p] = walk[p]
    BY <1>1, <2>4, <2>5 DEF ScanTypeOK
  <2>8. \A p \in Requests : BestSoFar(walk[p])'
    BY <1>3, <2>6, <2>7 DEF ScanInv, BestSoFar
  <2> QED
    BY <1>1, <1>3, <2>5, <2>7, <2>8 DEF ScanInv, ScanTypeOK
<1>5. CASE ~Fit(a, w.exclude)
  <2>1. walk' = [walk EXCEPT ![q] = [w EXCEPT !.pos = w.pos + 1]]
    BY <1>1, <1>5 DEF Visit, ScanTypeOK
  <2>2. PICK x \in WalkRec : /\ x = [w EXCEPT !.pos = w.pos + 1]
                             /\ x.pc = w.pc /\ x.best = w.best /\ x.seen = w.seen
    <3>1. PICK u \in WalkRec : u = w
      BY <1>1
    <3>2. [u EXCEPT !.pos = u.pos + 1] \in WalkRec
      BY DEF WalkRec
    <3> QED
      BY <3>1, <3>2 DEF WalkRec
  <2>3. walk' \in [Requests -> WalkRec] /\ walk'[q] = x
        /\ \A p \in Requests \ {q} : walk'[p] = walk[p]
    BY <1>1, <2>1, <2>2 DEF ScanTypeOK
  <2> QED
    BY <1>1, <1>3, <2>2, <2>3 DEF ScanInv, ScanTypeOK, BestSoFar
<1> QED
  BY <1>4, <1>5

\* Every step keeps the invariant of the scan.
LEMMA ScanInvKept ==
    ASSUME ScanInv, [Next]_vars
    PROVE  ScanInv'
<1> USE DEF ScanInv, ScanTypeOK
<1>1. NoWalk \in WalkRec /\ BestSoFar(NoWalk) /\ NoWalk.pc = "idle" /\ BestSoFar(NoWalk)'
  BY DEF NoWalk, WalkRec, BestSoFar
<1>2. CASE UNCHANGED vars
  BY <1>2 DEF vars, BestSoFar
<1>3. ASSUME NEW q \in Requests, NEW exclude \in Excludes, Begin(q, exclude) PROVE ScanInv'
  <2>1. PICK x \in WalkRec : x = [NoWalk EXCEPT !.pc = "walk", !.exclude = exclude]
    BY <1>1, ExcludesAssumption DEF WalkRec, Accounts
  <2>2. x.pc = "walk" /\ x.best = NoAccount /\ x.seen = {}
    BY <2>1 DEF NoWalk
  <2>3. walk' = [walk EXCEPT ![q] = x] /\ UNCHANGED <<view, active>>
    BY <1>3, <2>1 DEF Begin
  <2> QED
    BY <2>2, <2>3 DEF BestSoFar
<1>4. ASSUME NEW q \in Requests, Take(q) PROVE ScanInv'
  <2>1. CASE walk[q].best = NoAccount
    BY <1>1, <1>4, <2>1 DEF Take, BestSoFar
  <2>2. CASE walk[q].best # NoAccount
    <3>1. walk[q].best \in Accounts /\ walk[q] \in WalkRec
      BY <2>2 DEF WalkRec
    <3>2. active' \in [Accounts -> Int] /\ UNCHANGED view
      BY <1>4, <2>2, <3>1 DEF Take
    <3>3. PICK x \in WalkRec : x = [walk[q] EXCEPT !.pc = "run"]
      BY <3>1 DEF WalkRec
    <3>4. x.best = walk[q].best /\ x.seen = walk[q].seen
      BY <3>3, <3>1 DEF WalkRec
    <3>5. walk' = [walk EXCEPT ![q] = x]
      BY <1>4, <2>2, <3>3 DEF Take
    <3> QED
      BY <2>2, <3>2, <3>4, <3>5 DEF BestSoFar
  <2> QED
    BY <2>1, <2>2
<1>5. ASSUME NEW q \in Requests, Release(q) PROVE ScanInv'
  <2>1. walk[q].best \in Accounts
    BY <1>5 DEF Release, WalkRec
  <2>2. active' \in [Accounts -> Int] /\ UNCHANGED view /\ walk' = [walk EXCEPT ![q] = NoWalk]
    BY <1>5, <2>1 DEF Release
  <2> QED
    BY <1>1, <2>2 DEF BestSoFar
<1> QED
  BY <1>2, <1>3, <1>4, <1>5, ScanVisitKeeps DEF Next

\* The account that a finished walk takes is the best of those it found fit, whatever the
\* other requests did to the load in the meantime, and a walk that saw one takes one
\* (Store.NextExcluding without the fast scheduler).
THEOREM BestOfSeenHolds == Spec => []BestOfSeen
<1>1. Init => ScanInv
  <2> SUFFICES ASSUME Init PROVE ScanInv
    OBVIOUS
  <2>1. NoWalk \in WalkRec /\ BestSoFar(NoWalk) /\ NoWalk.pc = "idle"
    BY DEF NoWalk, WalkRec, BestSoFar
  <2>2. ScanTypeOK
    BY <2>1, ViewsAssumption DEF Init, ScanTypeOK
  <2> QED
    BY <2>1, <2>2 DEF Init, ScanInv
<1>2. ScanInv /\ [Next]_vars => ScanInv'
  BY ScanInvKept
<1>3. ScanInv => BestOfSeen
  BY DEF ScanInv, BestSoFar, NotBelow, BestOfSeen
<1> QED
  BY <1>1, <1>2, <1>3, PTL DEF Spec

-----------------------------------------------------------------------------
(* The keepalive writers. *)

\* The clock: a timer that runs has not been missed, and nothing was written in the future.
OnTime ==
    /\ kaBeat.stage # "gone" => kaNow <= kaBeat.due
    /\ kaWire.lastByte <= kaNow /\ kaWriter.lastWrite <= kaNow
    /\ kaWire.endAt <= kaNow

\* The heartbeat runs while the handler works, and is cancelled on every other way to an end
\* than [DONE].
Beats ==
    /\ ~kaCancelled => kaBeat.stage # "gone"
    /\ kaHandler = "working" => ~kaCancelled
    /\ kaHandler \in {"failed", "closing", "completed", "plain", "rendering", "rendered"} =>
          kaCancelled
    /\ kaHandler = "returned" => kaWriter.done

\* A stream: each write is a byte, and the last one is no older than a threshold and an
\* interval when the timer is due.
Streaming ==
    /\ kaHandler \in {"working", "failed", "closing", "answered", "returned"}
    /\ kaBeat.stage # "grace" /\ kaWriter.lastWrite = kaWire.lastByte /\ kaWire.bodies = 0
    /\ kaWriter.done => kaHandler = "returned"
    /\ kaBeat.stage = "ticking" /\ ~kaWriter.done =>
          kaBeat.due - kaWire.lastByte <= Interval + IdleThreshold - 1
    /\ kaWire.endAt = Never => kaWire.after = 0
    /\ kaWire.endAt # Never =>
          /\ kaHandler \in {"answered", "returned"}
          /\ kaWire.endAt <= kaWire.lastByte
          /\ kaWire.after > 0 => kaWire.lastByte - kaWire.endAt >= IdleThreshold

\* A heartbeat that has taken its first step since the cancellation takes no other.
NoRoundLeft == kaWriter.started => kaBeat.stage = "gone" \/ kaBeat.due > kaNow

\* A single body: no byte before the second round, one at each round after it.
InOneBody ==
    /\ kaHandler # "closing" /\ kaWire.after = 0
    /\ kaWire.crossed => kaWriter.started
    /\ kaHandler \in {"answered", "returned"} => kaWriter.done
    /\ kaHandler \in {"working", "failed", "completed"} =>
          /\ ~kaWriter.done /\ kaWire.bodies = 0 /\ kaWire.endAt = Never
          /\ kaWire.line # "none" => kaWriter.started
    /\ kaHandler \in {"plain", "rendering"} =>
          /\ ~kaWriter.done /\ kaWire.bodies = 0 /\ kaWire.endAt = Never
          /\ kaWire.line = "none" /\ NoRoundLeft
    /\ kaHandler = "rendering" => kaWire.status = "error" \/ kaWire.crossed
    /\ kaHandler = "rendered" =>
          (kaWire.line = "error" \/ kaWire.crossed) /\ ~kaWriter.done /\ NoRoundLeft

FirstRounds ==
    kaHandler = "working" =>
       /\ kaBeat.stage = "grace" =>
             ~kaWriter.started /\ kaBeat.due = Grace /\ kaWire.line = "none" /\ kaWire.lastByte = 0
       /\ kaBeat.stage = "ticking" =>
             /\ kaWriter.started /\ kaWriter.lastWrite = kaBeat.due - Interval
             /\ kaWire.line = "none" => kaBeat.due = Grace + Interval /\ kaWire.lastByte = 0
             /\ kaWire.line # "none" => kaWire.lastByte = kaBeat.due - Interval

KaInv ==
    /\ KeepaliveTypeOK /\ OnTime /\ Beats
    /\ kaKind = "sse" => Streaming
    /\ kaKind = "json" => InOneBody /\ FirstRounds

Stages == {"working", "failed", "closing", "completed", "plain", "rendering", "rendered",
           "answered", "returned"}
WriterRec == [started : BOOLEAN, done : BOOLEAN, lastWrite : Nat]
WireRec == [status : {"200", "error"}, line : {"none", "200", "error"},
            lastByte : Nat, endAt : Nat \cup {Never}, bodies : 0..1,
            after : Nat, late : {0}, crossed : BOOLEAN]

\* What the invariant says of each variable.
LEMMA KaTypes ==
    ASSUME KaInv
    PROVE  /\ kaKind \in {"sse", "json"} /\ kaNow \in Nat /\ kaNow <= KaHorizon
           /\ kaWriter \in WriterRec /\ kaWire \in WireRec
           /\ kaBeat \in [stage : {"grace", "ticking", "gone"}, due : Nat]
           /\ kaCancelled \in BOOLEAN /\ kaHandler \in Stages
           /\ {Interval, IdleThreshold, Grace, KaHorizon} \subseteq Nat \ {0}
BY KeepaliveAssumption DEF KaInv, KeepaliveTypeOK, WriterRec, WireRec, Stages

\* A step that keeps each type keeps them all.
LEMMA KaTyped ==
    ASSUME KaInv, kaKind' = kaKind, kaNow' \in Nat, kaNow' <= KaHorizon,
           kaWriter' \in WriterRec, kaWire' \in WireRec,
           kaBeat' \in [stage : {"grace", "ticking", "gone"}, due : Nat],
           kaCancelled' \in BOOLEAN, kaHandler' \in Stages
    PROVE  KeepaliveTypeOK'
BY KaTypes DEF KeepaliveTypeOK, WriterRec, WireRec, Stages

\* What a write leaves of the record, while the handler has not returned.
LEMMA PutIs ==
    ASSUME NEW w \in WireRec, kaNow \in Nat, kaHandler # "returned"
    PROVE  /\ Put(w) \in WireRec
           /\ Put(w).status = w.status /\ Put(w).endAt = w.endAt /\ Put(w).bodies = w.bodies
           /\ Put(w).crossed = w.crossed /\ Put(w).lastByte = kaNow
           /\ w.line # "none" => Put(w).line = w.line
           /\ w.line = "none" => Put(w).line = w.status
           /\ w.endAt = Never => Put(w).after = w.after
           /\ Put(w).line # "none"
<1>1. PICK line \in {"200", "error"} : line = IF w.line = "none" THEN w.status ELSE w.line
  BY DEF WireRec
<1>2. PICK after \in Nat : after = IF w.endAt = Never THEN w.after ELSE w.after + 1
  BY DEF WireRec
<1>3. Put(w) = [w EXCEPT !.line = line, !.lastByte = kaNow, !.after = after, !.late = 0]
  BY <1>1, <1>2 DEF Put, WireRec
<1> QED
  BY <1>1, <1>2, <1>3 DEF WireRec

\* What finishing makes of the wire.
LEMMA FinishIs ==
    ASSUME NEW w \in WireRec, kaNow \in Nat, kaHandler # "returned"
    PROVE  /\ Finish(w) \in WireRec
           /\ Finish(w).status = w.status /\ Finish(w).endAt = kaNow /\ Finish(w).bodies = w.bodies
           /\ Finish(w).crossed = w.crossed /\ Finish(w).lastByte = kaNow
           /\ Finish(w).after = w.after
           /\ w.line # "none" => Finish(w).line = w.line
           /\ w.line = "none" => Finish(w).line = w.status
<1>1. PICK x \in WireRec : x = Put(w)
  BY PutIs
<1>2. Finish(w) = [x EXCEPT !.endAt = kaNow, !.after = w.after]
  BY <1>1 DEF Finish
<1>3. w.after \in Nat
  BY DEF WireRec
<1> HIDE DEF Finish
<1> QED
  BY <1>1, <1>2, <1>3, PutIs DEF WireRec

\* What the body makes of the wire.
LEMMA BodyIs ==
    ASSUME NEW w \in WireRec, kaNow \in Nat, kaHandler # "returned", w.bodies = 0
    PROVE  /\ Body(w) \in WireRec
           /\ Body(w).status = w.status /\ Body(w).endAt = kaNow /\ Body(w).bodies = 1
           /\ Body(w).crossed = w.crossed /\ Body(w).lastByte = kaNow
           /\ Body(w).after = w.after
           /\ w.line # "none" => Body(w).line = w.line
           /\ w.line = "none" => Body(w).line = w.status
<1>1. PICK x \in WireRec : x = Finish(w)
  BY FinishIs
<1>2. x.bodies = 0
  BY <1>1, FinishIs
<1>3. Body(w) = [x EXCEPT !.bodies = 1]
  BY <1>1, <1>2 DEF Body, WireRec
<1> QED
  BY <1>1, <1>2, <1>3, FinishIs DEF WireRec

\* A round of the heartbeat of a stream.
LEMMA StreamHeartbeatKeeps ==
    ASSUME KaInv, Heartbeat, kaKind = "sse"
    PROVE  KaInv'
<1>1. /\ KeepaliveTypeOK /\ OnTime /\ Beats /\ Streaming
      /\ kaKind' = "sse" /\ UNCHANGED <<kaNow, kaCancelled, kaHandler>>
      /\ kaBeat.stage # "gone" /\ kaNow >= kaBeat.due
      /\ kaBeat' = [stage |-> "ticking", due |-> kaNow + Interval]
  BY DEF KaInv, Heartbeat
<1>2. kaBeat' \in [stage : {"grace", "ticking", "gone"}, due : Nat]
      /\ kaBeat'.stage = "ticking" /\ kaBeat'.due = kaNow + Interval
  BY <1>1, KaTypes
<1>3. SSESendKeepalive
  BY DEF Heartbeat, JSONSendKeepalive
<1>4. CASE kaWriter.done \/ kaNow - kaWriter.lastWrite < IdleThreshold
  <2>1. UNCHANGED <<kaWriter, kaWire>>
    BY <1>3, <1>4 DEF SSESendKeepalive
  <2>2. KeepaliveTypeOK'
    BY <1>1, <1>2, <2>1, KaTypes, KaTyped
  <2>3. OnTime' /\ Beats' /\ Streaming'
    BY <1>1, <1>2, <1>4, <2>1, KaTypes DEF OnTime, Beats, Streaming, WriterRec, WireRec
  <2> QED
    BY <1>1, <2>2, <2>3 DEF KaInv
<1>5. CASE ~kaWriter.done /\ kaNow - kaWriter.lastWrite >= IdleThreshold
  <2>1. ~(kaWriter.done \/ kaNow - kaWriter.lastWrite < IdleThreshold)
    BY <1>5, KaTypes DEF WriterRec
  <2>2. kaWire' = Put(kaWire) /\ kaWriter' = [kaWriter EXCEPT !.lastWrite = kaNow]
    BY <1>3, <2>1 DEF SSESendKeepalive
  <2>3. kaHandler # "returned"
    BY <1>1, <1>5 DEF Beats
  <2>4. /\ kaWriter' \in WriterRec /\ kaWriter'.lastWrite = kaNow
        /\ kaWriter'.done = kaWriter.done /\ kaWriter'.started = kaWriter.started
    BY <2>2, KaTypes DEF WriterRec
  <2>5. /\ kaWire' \in WireRec /\ kaWire'.lastByte = kaNow /\ kaWire'.endAt = kaWire.endAt
        /\ kaWire'.bodies = kaWire.bodies
        /\ kaWire.endAt = Never => kaWire'.after = kaWire.after
    BY <2>2, <2>3, KaTypes, PutIs
  <2>6. KeepaliveTypeOK'
    BY <1>1, <1>2, <2>4, <2>5, KaTypes, KaTyped
  <2>7. OnTime' /\ Beats'
    BY <1>1, <1>2, <2>4, <2>5, KaTypes DEF OnTime, Beats, WriterRec, WireRec
  <2>8. Streaming'
    <3>1. {kaNow, kaWire.lastByte, kaWriter.lastWrite, Interval} \subseteq Nat
          /\ IdleThreshold \in Nat \ {0} /\ kaWire.endAt \in Nat \cup {-1}
      BY KaTypes DEF WriterRec, WireRec, Never
    <3>2. kaWire.endAt # Never => kaNow - kaWire.endAt >= IdleThreshold /\ kaWire.endAt <= kaNow
      BY <1>1, <1>5, <3>1 DEF Streaming, Never
    <3>3. kaBeat'.due - kaWire'.lastByte <= Interval + IdleThreshold - 1
      BY <1>2, <2>5, <3>1
    <3>4. kaWire'.endAt = Never => kaWire'.after = 0
      BY <1>1, <2>5 DEF Streaming
    <3>5. kaWire'.endAt # Never =>
             /\ kaHandler' \in {"answered", "returned"} /\ kaWire'.endAt <= kaWire'.lastByte
             /\ kaWire'.lastByte - kaWire'.endAt >= IdleThreshold
      BY <1>1, <2>5, <3>2 DEF Streaming
    <3>6. /\ kaHandler' \in {"working", "failed", "closing", "answered", "returned"}
          /\ kaBeat'.stage # "grace" /\ kaWriter'.lastWrite = kaWire'.lastByte
          /\ kaWire'.bodies = 0 /\ (kaWriter'.done => kaHandler' = "returned")
      BY <1>1, <1>2, <2>4, <2>5 DEF Streaming
    <3> QED
      BY <3>3, <3>4, <3>5, <3>6 DEF Streaming
  <2> QED
    BY <1>1, <2>6, <2>7, <2>8 DEF KaInv
<1> QED
  BY <1>4, <1>5, KaTypes DEF WriterRec

\* A round of the heartbeat of a single body: nothing, the first step, or a space.
LEMMA BodyHeartbeatKeeps ==
    ASSUME KaInv, Heartbeat, kaKind = "json"
    PROVE  KaInv'
<1>1. /\ KeepaliveTypeOK /\ OnTime /\ Beats /\ InOneBody /\ FirstRounds
      /\ kaKind' = "json" /\ UNCHANGED <<kaNow, kaCancelled, kaHandler>>
      /\ kaBeat.stage # "gone" /\ kaNow >= kaBeat.due
      /\ kaBeat' = [stage |-> "ticking", due |-> kaNow + Interval]
  BY DEF KaInv, Heartbeat
<1>2. kaBeat' \in [stage : {"grace", "ticking", "gone"}, due : Nat]
      /\ kaBeat'.stage = "ticking" /\ kaBeat'.due = kaNow + Interval
  BY <1>1, KaTypes
<1>3. JSONSendKeepalive
  BY DEF Heartbeat, SSESendKeepalive
<1>4. kaNow = kaBeat.due
  BY <1>1, KaTypes DEF OnTime
<1>5. CASE kaWriter.done
  <2>1. UNCHANGED <<kaWriter, kaWire>>
    BY <1>3, <1>5 DEF JSONSendKeepalive
  <2>2. KeepaliveTypeOK'
    BY <1>1, <1>2, <2>1, KaTypes, KaTyped
  <2>3. OnTime' /\ Beats' /\ InOneBody' /\ FirstRounds'
    BY <1>1, <1>2, <1>5, <2>1, KaTypes
       DEF OnTime, Beats, InOneBody, NoRoundLeft, FirstRounds, WriterRec, WireRec
  <2> QED
    BY <1>1, <2>2, <2>3 DEF KaInv
<1>6. CASE ~kaWriter.done /\ ~kaWriter.started
  <2>1. PICK crossed \in BOOLEAN : crossed = (kaHandler \in {"plain", "rendering"})
    <3>1. (kaHandler \in {"plain", "rendering"}) \in BOOLEAN
      OBVIOUS
    <3> QED
      BY <3>1
  <2>2. /\ kaWriter' = [kaWriter EXCEPT !.started = TRUE, !.lastWrite = kaNow]
        /\ kaWire' = [kaWire EXCEPT !.status = "200", !.crossed = crossed]
    BY <1>3, <1>6, <2>1 DEF JSONSendKeepalive
  <2>3. /\ kaWriter' \in WriterRec /\ kaWriter'.lastWrite = kaNow
        /\ kaWriter'.done = kaWriter.done /\ kaWriter'.started
    BY <2>2, KaTypes DEF WriterRec
  <2>4. /\ kaWire' \in WireRec /\ kaWire'.line = kaWire.line /\ kaWire'.lastByte = kaWire.lastByte
        /\ kaWire'.endAt = kaWire.endAt /\ kaWire'.after = kaWire.after
        /\ kaWire'.bodies = kaWire.bodies
        /\ kaHandler \in {"plain", "rendering"} => kaWire'.crossed
    BY <2>1, <2>2, KaTypes DEF WireRec
  <2>5. KeepaliveTypeOK'
    BY <1>1, <1>2, <2>3, <2>4, KaTypes, KaTyped
  <2>6. OnTime' /\ Beats'
    BY <1>1, <1>2, <2>3, <2>4, KaTypes DEF OnTime, Beats, WriterRec, WireRec
  <2>7. InOneBody'
    BY <1>1, <1>2, <1>6, <2>3, <2>4, KaTypes DEF InOneBody, NoRoundLeft, WriterRec, WireRec
  <2>8. FirstRounds'
    BY <1>1, <1>2, <1>4, <1>6, <2>3, <2>4, KaTypes DEF InOneBody, FirstRounds, WriterRec, WireRec
  <2> QED
    BY <1>1, <2>5, <2>6, <2>7, <2>8 DEF KaInv
<1>7. CASE ~kaWriter.done /\ kaWriter.started
  <2>0. kaHandler # "returned" /\ kaHandler \notin {"plain", "rendering", "rendered", "answered"}
    BY <1>1, <1>4, <1>7, KaTypes DEF Beats, InOneBody, NoRoundLeft
  <2>1. CASE kaNow - kaWriter.lastWrite < IdleThreshold
    <3>1. UNCHANGED <<kaWriter, kaWire>>
      BY <1>3, <1>7, <2>1 DEF JSONSendKeepalive
    <3>2. KeepaliveTypeOK'
      BY <1>1, <1>2, <3>1, KaTypes, KaTyped
    <3>3. OnTime' /\ Beats' /\ InOneBody'
      BY <1>1, <1>2, <2>0, <3>1, KaTypes
         DEF OnTime, Beats, InOneBody, NoRoundLeft, WriterRec, WireRec
    <3>4. kaHandler # "working"
      BY <1>1, <1>4, <1>7, <2>1, KaTypes, KeepaliveAssumption DEF FirstRounds, WriterRec
    <3> QED
      BY <1>1, <3>2, <3>3, <3>4 DEF KaInv, FirstRounds
  <2>2. CASE ~(kaNow - kaWriter.lastWrite < IdleThreshold)
    <3>1. kaWire' = Put(kaWire) /\ kaWriter' = [kaWriter EXCEPT !.lastWrite = kaNow]
      BY <1>3, <1>7, <2>2 DEF JSONSendKeepalive
    <3>2. /\ kaWriter' \in WriterRec /\ kaWriter'.lastWrite = kaNow
          /\ kaWriter'.done = kaWriter.done /\ kaWriter'.started = kaWriter.started
      BY <3>1, KaTypes DEF WriterRec
    <3>3. /\ kaWire' \in WireRec /\ kaWire'.lastByte = kaNow /\ kaWire'.endAt = kaWire.endAt
          /\ kaWire'.bodies = kaWire.bodies /\ kaWire'.crossed = kaWire.crossed
          /\ kaWire.endAt = Never => kaWire'.after = kaWire.after
          /\ kaWire'.line # "none"
      BY <2>0, <3>1, KaTypes, PutIs
    <3>4. KeepaliveTypeOK'
      BY <1>1, <1>2, <3>2, <3>3, KaTypes, KaTyped
    <3>5. OnTime' /\ Beats'
      BY <1>1, <1>2, <3>2, <3>3, KaTypes DEF OnTime, Beats, WriterRec, WireRec
    <3>6. InOneBody' /\ FirstRounds'
      BY <1>1, <1>2, <1>7, <2>0, <3>2, <3>3, KaTypes
         DEF InOneBody, FirstRounds, WriterRec, WireRec, Stages
    <3> QED
      BY <1>1, <3>4, <3>5, <3>6 DEF KaInv
  <2> QED
    BY <2>1, <2>2
<1> QED
  BY <1>5, <1>6, <1>7, KaTypes DEF WriterRec


\* The handler's own steps that write nothing, the timers' and the clock's.
LEMMA QuietStepKeeps ==
    ASSUME KaInv, UNCHANGED <<kaKind, kaWire>>,
           \/ HeartbeatStops \/ cancelHB("failed") \/ (kaKind = "json" /\ cancelHB("completed"))
           \/ Return \/ DeferredCancel \/ KeepaliveTick
    PROVE  KaInv'
<1> USE DEF WriterRec, WireRec
<1>1. CASE HeartbeatStops
  <2>1. /\ UNCHANGED <<kaNow, kaWriter, kaCancelled, kaHandler>> /\ kaCancelled
        /\ kaBeat'.stage = "gone"
        /\ kaBeat' \in [stage : {"grace", "ticking", "gone"}, due : Nat]
    BY <1>1 DEF HeartbeatStops
  <2>2. KeepaliveTypeOK'
    BY <2>1, KaTypes, KaTyped
  <2> QED
    BY <2>1, <2>2, KaTypes
       DEF KaInv, OnTime, Beats, Streaming, InOneBody, NoRoundLeft, FirstRounds
<1>2. ASSUME NEW next \in {"failed", "completed"}, cancelHB(next), next = "completed" => kaKind = "json"
      PROVE  KaInv'
  <2>1. /\ UNCHANGED <<kaNow, kaWriter, kaBeat>> /\ kaHandler = "working"
        /\ kaCancelled' = TRUE /\ kaHandler' = next
    BY <1>2 DEF cancelHB
  <2>2. KeepaliveTypeOK'
    BY <2>1, KaTypes, KaTyped DEF Stages
  <2> QED
    BY <1>2, <2>1, <2>2, KaTypes
       DEF KaInv, OnTime, Beats, Streaming, InOneBody, NoRoundLeft, FirstRounds
<1>3. CASE Return
  <2>1. /\ UNCHANGED <<kaNow, kaBeat, kaCancelled>> /\ kaHandler \in {"answered", "rendered"}
        /\ kaHandler' = "returned" /\ kaWriter' = [kaWriter EXCEPT !.done = TRUE]
    BY <1>3 DEF Return
  <2>2. /\ kaWriter' \in WriterRec /\ kaWriter'.done = TRUE
        /\ kaWriter'.lastWrite = kaWriter.lastWrite /\ kaWriter'.started = kaWriter.started
    BY <2>1, KaTypes
  <2>3. KeepaliveTypeOK'
    BY <2>1, <2>2, KaTypes, KaTyped DEF Stages
  <2> QED
    BY <2>1, <2>2, <2>3, KaTypes
       DEF KaInv, OnTime, Beats, Streaming, InOneBody, NoRoundLeft, FirstRounds
<1>4. CASE DeferredCancel
  <2>1. /\ UNCHANGED <<kaNow, kaWriter, kaBeat, kaHandler>> /\ kaHandler = "returned"
        /\ kaCancelled' = TRUE
    BY <1>4 DEF DeferredCancel
  <2>2. KeepaliveTypeOK'
    BY <2>1, KaTypes, KaTyped
  <2> QED
    BY <2>1, <2>2, KaTypes
       DEF KaInv, OnTime, Beats, Streaming, InOneBody, NoRoundLeft, FirstRounds
<1>5. CASE KeepaliveTick
  <2>1. /\ UNCHANGED <<kaWriter, kaBeat, kaCancelled, kaHandler>> /\ kaNow' = kaNow + 1
        /\ kaNow < KaHorizon /\ kaHandler \in {"working", "answered", "rendered"}
        /\ kaBeat.stage # "gone" => ~kaCancelled /\ kaNow < kaBeat.due
    BY <1>5 DEF KeepaliveTick
  <2>2. kaNow' \in Nat /\ kaNow' <= KaHorizon
    BY <2>1, KaTypes
  <2>3. KeepaliveTypeOK'
    BY <2>1, <2>2, KaTypes, KaTyped
  <2>4. OnTime' /\ Beats'
    BY <2>1, KaTypes DEF KaInv, OnTime, Beats, Never
  <2>5. (kaKind = "sse" => Streaming') /\ (kaKind = "json" => FirstRounds')
    BY <2>1, KaTypes DEF KaInv, Streaming, FirstRounds
  <2>6. kaKind = "json" => InOneBody'
    BY <2>1, KaTypes DEF KaInv, Beats, InOneBody, NoRoundLeft
  <2> QED
    BY <2>3, <2>4, <2>5, <2>6 DEF KaInv
<1> QED
  BY <1>1, <1>2, <1>3, <1>4, <1>5

\* An event, and [DONE], the end of a stream.
LEMMA StreamWriteKeeps ==
    ASSUME KaInv, WriteEvent \/ WriteDone
    PROVE  KaInv'
<1>1. /\ kaKind = "sse" /\ UNCHANGED <<kaKind, kaNow, kaBeat, kaCancelled>>
      /\ kaHandler \in {"working", "failed", "closing"}
      /\ kaWriter' = [kaWriter EXCEPT !.lastWrite = kaNow]
      /\ kaHandler' \in {"working", "closing", "answered"}
      /\ kaHandler' = "working" => kaHandler = "working"
      /\ \/ kaWire' = Put(kaWire) /\ kaHandler' # "answered"
            /\ (kaHandler' = "closing" => kaHandler = "failed")
         \/ kaWire' = Finish(kaWire) /\ kaHandler' = "answered"
  BY DEF WriteEvent, WriteDone
<1>2. /\ KeepaliveTypeOK /\ OnTime /\ Beats /\ Streaming
      /\ kaWire.endAt = Never /\ kaWire.after = 0 /\ ~kaWriter.done
  BY <1>1, KaTypes DEF KaInv, Streaming, WriterRec
<1>3. /\ kaWriter' \in WriterRec /\ kaWriter'.lastWrite = kaNow
      /\ kaWriter'.done = kaWriter.done /\ kaWriter'.started = kaWriter.started
  BY <1>1, KaTypes DEF WriterRec
<1>4. /\ kaWire' \in WireRec /\ kaWire'.lastByte = kaNow /\ kaWire'.bodies = kaWire.bodies
      /\ kaWire'.after = 0
      /\ kaWire'.endAt = Never \/ (kaWire'.endAt = kaNow /\ kaHandler' = "answered")
  BY <1>1, <1>2, KaTypes, PutIs, FinishIs
<1>5. KeepaliveTypeOK'
  BY <1>1, <1>3, <1>4, KaTypes, KaTyped DEF Stages
<1>6. OnTime' /\ Beats'
  BY <1>1, <1>2, <1>3, <1>4, KaTypes DEF OnTime, Beats, WireRec, Never
<1>7. Streaming'
  BY <1>1, <1>2, <1>3, <1>4, KaTypes DEF OnTime, Streaming, WireRec
<1> QED
  BY <1>1, <1>5, <1>6, <1>7 DEF KaInv

\* The ends of a single body.
LEMMA BodyEndKeeps ==
    ASSUME KaInv, CommitResult \/ WriteErrorJSON \/ RenderStatus \/ RenderBody
    PROVE  KaInv'
<1> USE DEF WriterRec, WireRec
<1>1. /\ kaKind = "json" /\ UNCHANGED <<kaKind, kaNow, kaBeat, kaCancelled>>
      /\ kaHandler \in {"completed", "failed", "plain", "rendering"} /\ kaCancelled
      /\ KeepaliveTypeOK /\ OnTime /\ Beats /\ InOneBody
      /\ ~kaWriter.done /\ kaWire.bodies = 0 /\ kaWire.endAt = Never
  <2>1. kaKind = "json"
    BY KaTypes
       DEF KaInv, Streaming, CommitResult, WriteErrorJSON, RenderStatus, RenderBody
  <2> QED
    BY <2>1, KaTypes
       DEF KaInv, Beats, InOneBody, CommitResult, WriteErrorJSON, RenderStatus, RenderBody
<1>2. CASE Commit /\ kaHandler' = "answered"
  <2>1. PICK status \in {"200", "error"} : status = IF kaWriter.started THEN kaWire.status ELSE "200"
    BY KaTypes
  <2>2. PICK w \in WireRec : w = [kaWire EXCEPT !.status = status]
    BY KaTypes
  <2>3. w.bodies = 0 /\ w.after = kaWire.after /\ w.crossed = kaWire.crossed
    BY <1>1, <2>2, KaTypes
  <2>4. kaWire' = Body(w)
    BY <1>1, <1>2, <2>1, <2>2 DEF Commit
  <2>5. /\ kaWire' \in WireRec /\ kaWire'.endAt = kaNow /\ kaWire'.lastByte = kaNow
        /\ kaWire'.after = kaWire.after /\ kaWire'.crossed = kaWire.crossed
    BY <1>1, <2>3, <2>4, KaTypes, BodyIs
  <2>6. /\ kaWriter' \in WriterRec /\ kaWriter'.done = TRUE /\ kaWriter'.started = TRUE
        /\ kaWriter'.lastWrite = kaWriter.lastWrite
    BY <1>2, KaTypes DEF Commit
  <2>7. KeepaliveTypeOK'
    BY <1>1, <1>2, <2>5, <2>6, KaTypes, KaTyped DEF Stages
  <2> QED
    BY <1>1, <1>2, <2>5, <2>6, <2>7, KaTypes
       DEF KaInv, OnTime, Beats, InOneBody, FirstRounds
<1>3. CASE kaHandler = "failed" /\ ~kaWriter.started /\ kaHandler' = "plain"
           /\ UNCHANGED <<kaWriter, kaWire>>
  <2>1. KeepaliveTypeOK'
    BY <1>1, <1>3, KaTypes, KaTyped DEF Stages
  <2> QED
    BY <1>1, <1>3, <2>1, KaTypes DEF KaInv, OnTime, Beats, InOneBody, NoRoundLeft, FirstRounds
<1>4. CASE RenderStatus
  <2>1. /\ kaHandler = "plain" /\ kaHandler' = "rendering" /\ UNCHANGED kaWriter
        /\ kaWire' = [kaWire EXCEPT !.status = "error"]
    BY <1>4 DEF RenderStatus
  <2>2. /\ kaWire' \in WireRec /\ kaWire'.status = "error" /\ kaWire'.line = kaWire.line
        /\ kaWire'.bodies = kaWire.bodies /\ kaWire'.endAt = kaWire.endAt
        /\ kaWire'.after = kaWire.after /\ kaWire'.crossed = kaWire.crossed
        /\ kaWire'.lastByte = kaWire.lastByte
    BY <2>1, KaTypes
  <2>3. KeepaliveTypeOK'
    BY <1>1, <2>1, <2>2, KaTypes, KaTyped DEF Stages
  <2> QED
    BY <1>1, <2>1, <2>2, <2>3, KaTypes
       DEF KaInv, OnTime, Beats, InOneBody, NoRoundLeft, FirstRounds
<1>5. CASE RenderBody
  <2>1. /\ kaHandler = "rendering" /\ kaHandler' = "rendered" /\ UNCHANGED kaWriter
        /\ kaWire' = Body(kaWire)
    BY <1>5 DEF RenderBody
  <2>2. /\ kaWire' \in WireRec /\ kaWire'.endAt = kaNow /\ kaWire'.lastByte = kaNow
        /\ kaWire'.after = kaWire.after /\ kaWire'.crossed = kaWire.crossed
        /\ kaWire'.line = kaWire.status
    BY <1>1, <2>1, KaTypes, BodyIs DEF InOneBody
  <2>3. KeepaliveTypeOK'
    BY <1>1, <2>1, <2>2, KaTypes, KaTyped DEF Stages
  <2> QED
    BY <1>1, <2>1, <2>2, <2>3, KaTypes
       DEF KaInv, OnTime, Beats, InOneBody, NoRoundLeft, FirstRounds
<1> QED
  BY <1>2, <1>3, <1>4, <1>5 DEF CommitResult, WriteErrorJSON

\* The invariant holds at the start.
LEMMA KaInvInitially ==
    ASSUME KeepaliveInit
    PROVE  KaInv
<1>1. {Interval, IdleThreshold, Grace, KaHorizon} \subseteq Nat \ {0}
  BY KeepaliveAssumption
<1>2. KeepaliveTypeOK
  <2>1. PICK due \in Nat : due = IF kaKind = "json" THEN Grace ELSE Interval
    BY <1>1 DEF KeepaliveInit
  <2>2. PICK stage \in {"grace", "ticking"} : stage = IF kaKind = "json" THEN "grace" ELSE "ticking"
    BY DEF KeepaliveInit
  <2>3. kaBeat = [stage |-> stage, due |-> due]
    BY <2>1, <2>2 DEF KeepaliveInit
  <2>4. kaBeat \in [stage : {"grace", "ticking", "gone"}, due : Nat]
    BY <2>3
  <2>5. kaWriter \in WriterRec /\ kaWire \in WireRec
    BY DEF KeepaliveInit, WriterRec, WireRec
  <2>6. kaKind \in {"sse", "json"} /\ kaNow \in 0..KaHorizon /\ kaCancelled \in BOOLEAN
        /\ kaHandler = "working"
    <3>1. KaHorizon \in Nat /\ kaNow = 0
      BY <1>1 DEF KeepaliveInit
    <3>2. kaNow \in 0..KaHorizon
      BY <3>1
    <3> QED
      BY <3>2 DEF KeepaliveInit
  <2> QED
    BY <2>4, <2>5, <2>6 DEF KeepaliveTypeOK, WriterRec, WireRec
<1>3. OnTime /\ Beats
  BY <1>1 DEF KeepaliveInit, OnTime, Beats, Never
<1>4. kaKind = "sse" => Streaming
  BY <1>1 DEF KeepaliveInit, Streaming, Never
<1>5. kaKind = "json" => InOneBody /\ FirstRounds
  BY <1>1 DEF KeepaliveInit, InOneBody, NoRoundLeft, FirstRounds, Never
<1> QED
  BY <1>2, <1>3, <1>4, <1>5 DEF KaInv

\* Every step of a keepalive writer keeps its invariant.
LEMMA KaInvKept ==
    ASSUME KaInv, [KeepaliveNext]_kaVars
    PROVE  KaInv'
<1>1. CASE UNCHANGED kaVars
  BY <1>1 DEF kaVars, KaInv, KeepaliveTypeOK, OnTime, Beats, Streaming, InOneBody, NoRoundLeft,
              FirstRounds
<1>2. CASE Heartbeat
  BY <1>2, KaTypes, StreamHeartbeatKeeps, BodyHeartbeatKeeps
<1>3. CASE \/ HeartbeatStops \/ cancelHB("failed") \/ (kaKind = "json" /\ cancelHB("completed"))
           \/ Return \/ DeferredCancel \/ KeepaliveTick
  <2>1. UNCHANGED <<kaKind, kaWire>>
    BY <1>3 DEF HeartbeatStops, cancelHB, Return, DeferredCancel, KeepaliveTick
  <2> QED
    BY <1>3, <2>1, QuietStepKeeps
<1> QED
  BY <1>1, <1>2, <1>3, StreamWriteKeeps, BodyEndKeeps DEF KeepaliveNext

\* A connection on which the handler waits is never silent for longer than an interval and a
\* threshold, no heartbeat follows the end of an answer or a return within the threshold, and
\* an error keeps its status but for the one race of keepalive.go:391.
THEOREM KeepaliveSoundHolds == KeepaliveSpec => []KeepaliveSound
<1>1. KeepaliveInit => KaInv
  BY KaInvInitially
<1>2. KaInv /\ [KeepaliveNext]_kaVars => KaInv'
  BY KaInvKept
<1>3. KaInv => KeepaliveSound
  <2> SUFFICES ASSUME KaInv PROVE KeepaliveSound
    OBVIOUS
  <2>1. IdleGapBounded
    BY KaTypes, KeepaliveAssumption
       DEF KaInv, OnTime, Beats, Streaming, FirstRounds, IdleGapBounded, WriterRec, WireRec
  <2>2. NothingAfterTheEnd
    BY KaTypes DEF KaInv, Streaming, InOneBody, NothingAfterTheEnd, WireRec
  <2>3. ErrorStatusKept
    BY KaTypes DEF KaInv, Streaming, InOneBody, ErrorStatusKept
  <2> QED
    BY <2>1, <2>2, <2>3 DEF KaInv, KeepaliveSound
<1> QED
  BY <1>1, <1>2, <1>3, PTL DEF KeepaliveSpec

-----------------------------------------------------------------------------
(* The response cache. *)

RcEntry == [items : Seq(CacheItems), createdAt : Nat, cut : BOOLEAN]

RcReq == [busy : BOOLEAN, prev : Nat, given : Seq(CacheItems), str : BOOLEAN,
          input : Seq(CacheItems), hit : BOOLEAN, cut : BOOLEAN]

RcTypeOK ==
    /\ rcNow \in Nat
    /\ rcCalls \in Seq(SUBSET (1..RcResponses)) /\ Len(rcCalls) <= RcResponses
    /\ rcReq \in [RcRequests -> RcReq]
    /\ DOMAIN rcStore \subseteq Ids
    /\ \A r \in DOMAIN rcStore : rcStore[r] \in RcEntry

HasCall(items, r) == \E j \in DOMAIN items : items[j] = FunctionCall(r)

\* What is stored for a response ends the outputs of a history with their calls, and has the
\* call of the response, unless it was cut.
StoredPaired ==
    \A r \in DOMAIN rcStore :
        ~rcStore[r].cut => paired(rcStore[r].items) /\ HasCall(rcStore[r].items, r)

RcInv == RcTypeOK /\ ResponseCacheTypeOK /\ StoredPaired /\ OutputHasItsCall

\* What there is of items.
LEMMA ItemTypes ==
    ASSUME NEW r \in 0..RcResponses
    PROVE  /\ Message \in CacheItems /\ Message.type = "message"
           /\ FunctionCall(r) \in CacheItems /\ FunctionCall(r).type = "function_call"
           /\ FunctionCall(r).call = r
           /\ Output(r) \in CacheItems /\ Output(r).type = "function_call_output"
           /\ Output(r).call = r
<1>1. 0 \in 0..RcResponses
  BY ResponseCacheAssumption
<1> QED
  BY <1>1 DEF Message, FunctionCall, Output, CacheItems

\* Types of what the cache and the requests hold.
LEMMA RcTypes ==
    ASSUME RcTypeOK
    PROVE  /\ Ids = 1..Len(rcCalls) /\ Len(rcCalls) \in Nat /\ RcResponses \in Nat
           /\ \A r \in Ids : r \in 1..RcResponses /\ rcCalls[r] \in SUBSET (1..RcResponses)
           /\ \A r \in DOMAIN rcStore : /\ rcStore[r] \in RcEntry /\ r \in Ids
                                        /\ rcStore[r].items \in Seq(CacheItems)
           /\ \A q \in RcRequests : rcReq[q] \in RcReq /\ rcReq[q].input \in Seq(CacheItems)
<1>1. RcResponses \in Nat
  BY ResponseCacheAssumption
<1>2. Len(rcCalls) \in Nat /\ Len(rcCalls) <= RcResponses /\ Ids = 1..Len(rcCalls)
  BY DEF RcTypeOK, Ids
<1>3. \A r \in Ids : r \in 1..RcResponses /\ rcCalls[r] \in SUBSET (1..RcResponses)
  BY <1>1, <1>2 DEF RcTypeOK
<1> QED
  BY <1>1, <1>2, <1>3 DEF RcTypeOK, RcEntry, RcReq

\* A call behind a history leaves it in order.
LEMMA PairedAppended ==
    ASSUME NEW items \in Seq(CacheItems), paired(items), NEW r \in 0..RcResponses
    PROVE  paired(Append(items, FunctionCall(r))) /\ HasCall(Append(items, FunctionCall(r)), r)
<1>1. FunctionCall(r) \in CacheItems /\ FunctionCall(r).type # "function_call_output"
  BY ItemTypes
<1>2. PICK n \in Nat : n = Len(items)
  OBVIOUS
<1>3. PICK s \in Seq(CacheItems) : s = Append(items, FunctionCall(r))
  <2>1. Append(items, FunctionCall(r)) \in Seq(CacheItems)
    BY <1>1
  <2> QED
    BY <2>1
<1>4. /\ DOMAIN s = 1..(n + 1) /\ DOMAIN items = 1..n /\ s[n + 1] = FunctionCall(r)
      /\ \A i \in 1..n : s[i] = items[i]
  BY <1>1, <1>2, <1>3
<1>5. paired(s)
  <2> SUFFICES ASSUME NEW i \in DOMAIN s, s[i].type = "function_call_output"
               PROVE  \E j \in 1..(i - 1) : s[j] = FunctionCall(s[i].call)
    BY DEF paired
  <2>1. i \in 1..n
    BY <1>1, <1>4
  <2>2. PICK j \in 1..(i - 1) : items[j] = FunctionCall(items[i].call)
    BY <1>4, <2>1 DEF paired
  <2> QED
    BY <1>4, <2>1, <2>2
<1>6. HasCall(s, r)
  BY <1>4 DEF HasCall
<1> QED
  BY <1>3, <1>5, <1>6

\* An input with outputs of one call goes behind a history that has that call.
LEMMA PairedMerged ==
    ASSUME NEW items \in Seq(CacheItems), NEW given \in Seq(CacheItems), paired(items),
           NEW r \in 0..RcResponses, HasCall(items, r),
           \A i \in DOMAIN given : given[i].type = "function_call_output" => given[i].call = r
    PROVE  paired(items \o given)
<1>1. PICK n \in Nat, m \in Nat : n = Len(items) /\ m = Len(given)
  OBVIOUS
<1>2. PICK s \in Seq(CacheItems) : s = items \o given
  <2>1. items \o given \in Seq(CacheItems)
    OBVIOUS
  <2> QED
    BY <2>1
<1>3. /\ DOMAIN s = 1..(n + m) /\ DOMAIN items = 1..n /\ DOMAIN given = 1..m
      /\ \A i \in 1..n : s[i] = items[i]
      /\ \A i \in (n + 1)..(n + m) : s[i] = given[i - n]
  BY <1>1, <1>2
<1>4. paired(s)
  <2> SUFFICES ASSUME NEW i \in DOMAIN s, s[i].type = "function_call_output"
               PROVE  \E j \in 1..(i - 1) : s[j] = FunctionCall(s[i].call)
    BY DEF paired
  <2>1. CASE i \in 1..n
    <3>1. PICK j \in 1..(i - 1) : items[j] = FunctionCall(items[i].call)
      BY <1>3, <2>1 DEF paired
    <3> QED
      BY <1>3, <2>1, <3>1
  <2>2. CASE i \notin 1..n
    <3>1. i - n \in 1..m /\ s[i] = given[i - n] /\ i \in (n + 1)..(n + m)
      BY <1>3, <2>2
    <3>2. s[i].call = r
      BY <1>3, <3>1
    <3>3. PICK j \in 1..n : items[j] = FunctionCall(r)
      BY <1>3 DEF HasCall
    <3> QED
      BY <1>3, <3>1, <3>2, <3>3
  <2> QED
    BY <2>1, <2>2
<1> QED
  BY <1>2, <1>4

\* The length limit: what is kept is no longer than it, and all there is if it is not met.
LEMMA KeepLast ==
    ASSUME NEW items \in Seq(CacheItems)
    PROVE  /\ keepLast(items) \in Seq(CacheItems) /\ Len(keepLast(items)) <= MaxPerEntry
           /\ Len(items) <= MaxPerEntry => keepLast(items) = items
<1>1. MaxPerEntry \in Nat \ {0} /\ Len(items) \in Nat
  BY ResponseCacheAssumption
<1>2. CASE Len(items) > MaxPerEntry
  <2>0. PICK n \in Nat : n = Len(items)
    BY <1>1
  <2>1. PICK m \in Nat : m = n - MaxPerEntry + 1
    BY <1>1, <1>2, <2>0
  <2>2. keepLast(items) = SubSeq(items, m, n)
    BY <1>2, <2>0, <2>1 DEF keepLast
  <2>3. m \in 1..n /\ n - m + 1 = MaxPerEntry
    BY <1>1, <1>2, <2>0, <2>1
  <2>4. SubSeq(items, m, n) \in Seq(CacheItems) /\ Len(SubSeq(items, m, n)) = n - m + 1
    BY <2>0, <2>1, <2>3
  <2> QED
    BY <1>1, <1>2, <2>2, <2>3, <2>4
<1>3. CASE ~(Len(items) > MaxPerEntry)
  <2>1. keepLast(items) = SubSeq(items, 1, Len(items))
    BY <1>3 DEF keepLast
  <2>2. SubSeq(items, 1, Len(items)) = items
    OBVIOUS
  <2> QED
    BY <1>1, <1>3, <2>1, <2>2
<1> QED
  BY <1>2, <1>3

\* Room is made before an entry is stored.
LEMMA RoomIsMade ==
    ASSUME RcInv, NEW gone \in roomFor(rcStore), NEW id
    PROVE  /\ IsFiniteSet(DOMAIN rcStore)
           /\ Cardinality((DOMAIN rcStore \ gone) \cup {id}) <= MaxEntries
<1>1. MaxEntries \in Nat \ {0}
  BY ResponseCacheAssumption
<1>2. IsFiniteSet(DOMAIN rcStore) /\ Cardinality(DOMAIN rcStore) \in Nat
      /\ Cardinality(DOMAIN rcStore) <= MaxEntries
  <2>0. Ids = 1..Len(rcCalls) /\ Len(rcCalls) \in Int
    BY RcTypes DEF RcInv
  <2>1. IsFiniteSet(Ids) /\ DOMAIN rcStore \subseteq Ids
    BY <2>0, FS_Interval DEF RcInv, RcTypeOK
  <2> QED
    BY <2>1, FS_Subset, FS_CardinalityType DEF RcInv, ResponseCacheTypeOK
<1>3. /\ gone \subseteq DOMAIN rcStore
      /\ Cardinality(DOMAIN rcStore) >= MaxEntries => Cardinality(gone) >= 1
  BY <1>1, <1>2 DEF roomFor
<1>4. /\ IsFiniteSet(DOMAIN rcStore \ gone) /\ Cardinality(gone) \in Nat
      /\ Cardinality(DOMAIN rcStore \ gone) = Cardinality(DOMAIN rcStore) - Cardinality(gone)
  <2>1. (DOMAIN rcStore) \cap gone = gone
    BY <1>3
  <2>2. IsFiniteSet(gone) /\ Cardinality(gone) \in Nat
    BY <1>2, <1>3, FS_Subset, FS_CardinalityType
  <2> QED
    BY <1>2, <2>1, <2>2, FS_Difference
<1>5. Cardinality(DOMAIN rcStore \ gone) <= MaxEntries - 1
  BY <1>1, <1>2, <1>3, <1>4
<1>6. Cardinality((DOMAIN rcStore \ gone) \cup {id}) <= Cardinality(DOMAIN rcStore \ gone) + 1
      /\ Cardinality(DOMAIN rcStore \ gone) \in Nat
  <2>1. Cardinality(DOMAIN rcStore \ gone) \in Nat
    BY <1>4, FS_CardinalityType
  <2>2. Cardinality((DOMAIN rcStore \ gone) \cup {id}) =
           IF id \in DOMAIN rcStore \ gone THEN Cardinality(DOMAIN rcStore \ gone)
           ELSE Cardinality(DOMAIN rcStore \ gone) + 1
    BY <1>4, FS_AddElement
  <2> QED
    BY <2>1, <2>2
<1>7. Cardinality((DOMAIN rcStore \ gone) \cup {id}) \in Nat
  BY <1>4, FS_AddElement, FS_CardinalityType
<1> QED
  BY <1>1, <1>2, <1>5, <1>6, <1>7

\* A request is prepared, or ends, while the store keeps what it has or loses some of it.
LEMMA StoreShrinks ==
    ASSUME RcInv, DOMAIN rcStore' \subseteq DOMAIN rcStore,
           \A r \in DOMAIN rcStore' : rcStore'[r] = rcStore[r],
           rcNow' \in Nat, rcNow <= rcNow', UNCHANGED rcCalls,
           rcReq' \in [RcRequests -> RcReq],
           \A q \in RcRequests : rcReq'[q].hit /\ ~rcReq'[q].cut => paired(rcReq'[q].input)
    PROVE  RcInv'
<1> USE RcTypes DEF RcInv
<1>1. PICK kept \in SUBSET DOMAIN rcStore : kept = DOMAIN rcStore'
  OBVIOUS
<1>2. RcTypeOK'
  BY <1>1 DEF RcTypeOK, Ids
<1>3. ResponseCacheTypeOK'
  <2>1. Cardinality(kept) <= MaxEntries
    <3>1. Ids = 1..Len(rcCalls) /\ Len(rcCalls) \in Int
      OBVIOUS
    <3>2. IsFiniteSet(Ids) /\ DOMAIN rcStore \subseteq Ids
      BY <3>1, FS_Interval DEF RcTypeOK
    <3>3. IsFiniteSet(DOMAIN rcStore)
      BY <3>2, FS_Subset
    <3>4. /\ Cardinality(kept) <= Cardinality(DOMAIN rcStore) /\ Cardinality(kept) \in Nat
          /\ Cardinality(DOMAIN rcStore) \in Nat
      BY <3>3, FS_Subset, FS_CardinalityType
    <3> QED
      BY <3>4, ResponseCacheAssumption DEF ResponseCacheTypeOK
  <2>2. \A r \in DOMAIN rcStore' :
           /\ rcStore'[r].items \in Seq(CacheItems) /\ Len(rcStore'[r].items) <= MaxPerEntry
           /\ rcStore'[r].createdAt \in 0..rcNow'
    BY <1>1 DEF ResponseCacheTypeOK, RcTypeOK
  <2>3. \A q \in RcRequests : rcReq'[q].input \in Seq(CacheItems)
    BY DEF RcReq
  <2> QED
    BY <1>1, <2>1, <2>2, <2>3 DEF ResponseCacheTypeOK
<1>4. StoredPaired'
  BY <1>1 DEF StoredPaired
<1>5. OutputHasItsCall'
  BY DEF OutputHasItsCall
<1> QED
  BY <1>2, <1>3, <1>4, <1>5

\* What clients send: outputs only of the calls of the response they name.
LEMMA ClientInputTypes ==
    ASSUME RcInv, NEW prev \in {0} \cup Ids, NEW in \in ClientInput(prev)
    PROVE  /\ in.given \in Seq(CacheItems) /\ in.str \in BOOLEAN
           /\ \A i \in DOMAIN in.given :
                 in.given[i].type = "function_call_output" => in.given[i].call = prev
<1>1. prev \in 0..RcResponses
  BY RcTypes DEF RcInv
<1>2. \/ in = [given |-> <<Message>>, str |-> TRUE]
      \/ in = [given |-> <<Message>>, str |-> FALSE]
      \/ in = [given |-> <<Output(prev)>>, str |-> FALSE]
      \/ in = [given |-> <<FunctionCall(prev), Output(prev)>>, str |-> FALSE]
  BY DEF ClientInput
<1>3. /\ \/ in.given = <<Message>> \/ in.given = <<Output(prev)>>
         \/ in.given = <<FunctionCall(prev), Output(prev)>>
      /\ in.str \in BOOLEAN
  <2>1. CASE in = [given |-> <<Message>>, str |-> TRUE]
    BY <2>1
  <2>2. CASE in = [given |-> <<Message>>, str |-> FALSE]
    BY <2>2
  <2>3. CASE in = [given |-> <<Output(prev)>>, str |-> FALSE]
    BY <2>3
  <2>4. CASE in = [given |-> <<FunctionCall(prev), Output(prev)>>, str |-> FALSE]
    BY <2>4
  <2> QED
    BY <1>2, <2>1, <2>2, <2>3, <2>4
<1>4. CASE in.given = <<Message>> /\ in.str \in BOOLEAN
  BY <1>1, <1>4, ItemTypes
<1>5. CASE in.given = <<Output(prev)>> /\ in.str \in BOOLEAN
  BY <1>1, <1>5, ItemTypes
<1>6. CASE in.given = <<FunctionCall(prev), Output(prev)>> /\ in.str \in BOOLEAN
  BY <1>1, <1>6, ItemTypes
<1> QED
  BY <1>4, <1>5, <1>6, <1>3

\* PrepareResponsesBody puts the stored history in front of what the client sent.
LEMMA RequestKeeps ==
    ASSUME RcInv, NEW q \in RcRequests, Request(q)
    PROVE  RcInv'
<1> USE RcTypes DEF RcInv
<1>1. PICK prev \in {0} \cup Ids : \E in \in ClientInput(prev) :
         PrepareResponsesBody(q, prev, in.given, in.str)
  BY DEF Request
<1>2. PICK in \in ClientInput(prev) : PrepareResponsesBody(q, prev, in.given, in.str)
  BY <1>1
<1>3. PICK given \in Seq(CacheItems), str \in BOOLEAN :
         /\ given = in.given /\ str = in.str
         /\ \A i \in DOMAIN given : given[i].type = "function_call_output" => given[i].call = prev
  BY ClientInputTypes
<1>4. PICK hit \in BOOLEAN : hit = live(prev)
  BY DEF live
<1>5. PICK input \in Seq(CacheItems) :
         /\ input = IF live(prev) THEN merged(rcStore[prev].items, given, str) ELSE given
         /\ hit /\ ~rcStore[prev].cut => paired(input)
  <2>1. PICK input : input = IF live(prev) THEN merged(rcStore[prev].items, given, str) ELSE given
    OBVIOUS
  <2>2. CASE ~live(prev)
    BY <1>4, <2>1, <2>2
  <2>3. CASE live(prev)
    <3>1. PICK more \in Seq(CacheItems) :
             /\ more = (IF str THEN <<>> ELSE given)
             /\ \A i \in DOMAIN more : more[i].type = "function_call_output" => more[i].call = prev
      <4>1. CASE str
        <5>1. <<>> \in Seq(CacheItems) /\ DOMAIN <<>> = {}
          OBVIOUS
        <5> QED
          BY <4>1, <5>1
      <4>2. CASE ~str
        BY <1>3, <4>2
      <4> QED
        BY <4>1, <4>2
    <3>6. prev \in DOMAIN rcStore
      BY <2>3 DEF live
    <3>7. rcStore[prev].items \in Seq(CacheItems) /\ prev \in 0..RcResponses
      BY <3>6
    <3>2. input = rcStore[prev].items \o more /\ rcStore[prev].items \in Seq(CacheItems)
          /\ prev \in 0..RcResponses /\ prev \in DOMAIN rcStore
      BY <2>1, <2>3, <3>1, <3>6, <3>7 DEF merged
    <3>3. input \in Seq(CacheItems)
      BY <3>2
    <3>4. ~rcStore[prev].cut => paired(rcStore[prev].items) /\ HasCall(rcStore[prev].items, prev)
      BY <3>2 DEF StoredPaired
    <3>5. ~rcStore[prev].cut => paired(input)
      BY <3>1, <3>2, <3>4, PairedMerged
    <3> QED
      BY <2>1, <3>3, <3>5
  <2> QED
    BY <2>2, <2>3
<1>6. PICK cut \in BOOLEAN : /\ cut = (live(prev) /\ rcStore[prev].cut)
                             /\ hit /\ ~cut => paired(input)
  BY <1>4, <1>5
<1>7. PICK req : /\ req = [busy |-> TRUE, prev |-> prev, given |-> given, str |-> str,
                           input |-> input, hit |-> hit, cut |-> cut]
                 /\ rcReq' = [rcReq EXCEPT ![q] = req]
  BY <1>2, <1>3, <1>4, <1>5, <1>6 DEF PrepareResponsesBody
<1>8. req \in RcReq /\ req.hit = hit /\ req.cut = cut /\ req.input = input
  BY <1>7 DEF RcReq
<1>9. /\ rcReq' \in [RcRequests -> RcReq]
      /\ \A p \in RcRequests : rcReq'[p] = IF p = q THEN req ELSE rcReq[p]
  BY <1>7, <1>8 DEF RcTypeOK
<1>10. \A p \in RcRequests : rcReq'[p].hit /\ ~rcReq'[p].cut => paired(rcReq'[p].input)
  BY <1>6, <1>8, <1>9 DEF OutputHasItsCall
<1>11. /\ DOMAIN rcStore' \subseteq DOMAIN rcStore
       /\ \A r \in DOMAIN rcStore' : rcStore'[r] = rcStore[r]
  BY <1>2 DEF PrepareResponsesBody, getResponseCache, without
<1> QED
  BY <1>2, <1>9, <1>10, <1>11, StoreShrinks DEF PrepareResponsesBody, RcTypeOK

\* Storing a response: the history that went upstream and the call.
LEMMA StoredKeeps ==
    ASSUME RcInv, NEW q \in RcRequests, NEW id, id = Len(rcCalls) + 1, id <= RcResponses,
           paired(rcReq[q].input), cacheCompletedResponse(q, id),
           rcCalls' = Append(rcCalls, {id}), UNCHANGED rcNow,
           rcReq' \in [RcRequests -> RcReq],
           \A p \in RcRequests : rcReq'[p].hit /\ ~rcReq'[p].cut => paired(rcReq'[p].input)
    PROVE  RcInv'
<1> USE RcTypes DEF RcInv
<1>1. id \in 1..RcResponses /\ id \notin Ids /\ id \in 0..RcResponses /\ id \in Nat
  OBVIOUS
<1>2. /\ rcCalls' \in Seq(SUBSET (1..RcResponses)) /\ Len(rcCalls') = id
      /\ Ids' = 1..id /\ Ids \subseteq Ids' /\ id \in Ids'
  <2>1. {id} \in SUBSET (1..RcResponses) /\ rcCalls \in Seq(SUBSET (1..RcResponses))
    BY <1>1 DEF RcTypeOK
  <2>2. rcCalls' \in Seq(SUBSET (1..RcResponses)) /\ Len(rcCalls') = id
    BY <2>1
  <2> QED
    BY <1>1, <2>2 DEF Ids
<1>3. PICK items \in Seq(CacheItems) :
         /\ items = Append(rcReq[q].input, FunctionCall(id))
         /\ paired(items) /\ HasCall(items, id)
  <2>1. Append(rcReq[q].input, FunctionCall(id)) \in Seq(CacheItems)
    BY <1>1, ItemTypes
  <2> QED
    BY <1>1, <2>1, PairedAppended
<1>4. PICK gone \in roomFor(rcStore) :
         rcStore' = [r \in (DOMAIN rcStore \ gone) \cup {id} |->
                       IF r = id
                       THEN [items |-> keepLast(items), createdAt |-> rcNow,
                             cut |-> rcReq[q].cut \/ Len(items) > MaxPerEntry]
                       ELSE without(rcStore, gone)[r]]
  BY <1>3 DEF cacheCompletedResponse, setResponseCache, without
<1>5. PICK cut \in BOOLEAN : /\ cut <=> rcReq[q].cut \/ Len(items) > MaxPerEntry
                             /\ cut = (rcReq[q].cut \/ Len(items) > MaxPerEntry)
  OBVIOUS
<1>6. PICK entry : entry = [items |-> keepLast(items), createdAt |-> rcNow, cut |-> cut]
  OBVIOUS
<1>7. /\ entry \in RcEntry /\ entry.items = keepLast(items) /\ entry.createdAt = rcNow
      /\ entry.cut = cut /\ Len(entry.items) <= MaxPerEntry
  BY <1>6, KeepLast DEF RcEntry, RcTypeOK
<1>8. /\ DOMAIN rcStore' = (DOMAIN rcStore \ gone) \cup {id} /\ rcStore'[id] = entry
      /\ \A r \in DOMAIN rcStore \ gone : rcStore'[r] = rcStore[r]
  <2>1. DOMAIN rcStore' = (DOMAIN rcStore \ gone) \cup {id}
    BY <1>4
  <2>2. rcStore'[id] = entry
    BY <1>4, <1>5, <1>6
  <2>3. \A r \in DOMAIN rcStore \ gone : r # id /\ without(rcStore, gone)[r] = rcStore[r]
    BY <1>1 DEF without
  <2>4. \A r \in DOMAIN rcStore \ gone : rcStore'[r] = without(rcStore, gone)[r]
    BY <1>4, <2>3
  <2> QED
    BY <2>1, <2>2, <2>3, <2>4
<1>9. RcTypeOK'
  BY <1>1, <1>2, <1>7, <1>8 DEF RcTypeOK
<1>10. ResponseCacheTypeOK'
  <2>1. Cardinality(DOMAIN rcStore') <= MaxEntries
    BY <1>8, RoomIsMade
  <2>2. ASSUME NEW r \in DOMAIN rcStore'
        PROVE  /\ rcStore'[r].items \in Seq(CacheItems) /\ Len(rcStore'[r].items) <= MaxPerEntry
               /\ rcStore'[r].createdAt \in 0..rcNow'
    <3>1. CASE r = id
      <4>1. rcStore'[r] = entry
        BY <1>8, <3>1
      <4> QED
        BY <1>7, <4>1, KeepLast DEF RcTypeOK
    <3>2. CASE r # id
      <4>1. r \in DOMAIN rcStore /\ rcStore'[r] = rcStore[r]
        BY <1>8, <3>2
      <4> QED
        BY <4>1 DEF ResponseCacheTypeOK
    <3> QED
      BY <3>1, <3>2
  <2>3. \A p \in RcRequests : rcReq'[p].input \in Seq(CacheItems)
    BY DEF RcReq
  <2> QED
    BY <2>1, <2>2, <2>3 DEF ResponseCacheTypeOK
<1>11. StoredPaired'
  <2> SUFFICES ASSUME NEW r \in DOMAIN rcStore', ~rcStore'[r].cut
               PROVE  paired(rcStore'[r].items) /\ HasCall(rcStore'[r].items, r)
    BY DEF StoredPaired
  <2>1. CASE r = id
    <3>1. ~cut /\ rcStore'[r].items = keepLast(items)
      BY <1>7, <1>8, <2>1
    <3>2. Len(items) <= MaxPerEntry
      BY <1>5, <3>1, ResponseCacheAssumption
    <3>3. rcStore'[r].items = items
      BY <3>1, <3>2, KeepLast
    <3> QED
      BY <1>3, <2>1, <3>3
  <2>2. CASE r # id
    <3>1. r \in DOMAIN rcStore /\ rcStore'[r] = rcStore[r]
      BY <1>8, <2>2
    <3> QED
      BY <3>1 DEF StoredPaired
  <2> QED
    BY <2>1, <2>2
<1>12. OutputHasItsCall'
  BY DEF OutputHasItsCall
<1> QED
  BY <1>9, <1>10, <1>11, <1>12

\* A request that has ended.
LEMMA RequestEnds ==
    ASSUME RcInv, NEW q \in RcRequests, rcReq' = [rcReq EXCEPT ![q] = NoRequest]
    PROVE  /\ rcReq' \in [RcRequests -> RcReq]
           /\ \A p \in RcRequests : rcReq'[p].hit /\ ~rcReq'[p].cut => paired(rcReq'[p].input)
<1>1. NoRequest \in RcReq /\ ~NoRequest.hit
  <2>1. 0 \in Nat /\ <<>> \in Seq(CacheItems)
    OBVIOUS
  <2> QED
    BY <2>1 DEF NoRequest, RcReq
<1>2. /\ rcReq' \in [RcRequests -> RcReq]
      /\ \A p \in RcRequests : rcReq'[p] = IF p = q THEN NoRequest ELSE rcReq[p]
  BY <1>1 DEF RcInv, RcTypeOK
<1> QED
  BY <1>1, <1>2 DEF RcInv, OutputHasItsCall

\* response.completed, with or without a call.
LEMMA ResponseCompletedKeeps ==
    ASSUME RcInv, NEW q \in RcRequests, ResponseCompleted(q)
    PROVE  RcInv'
<1> USE RcTypes DEF RcInv
<1>1. PICK id : id = Len(rcCalls) + 1
  OBVIOUS
<1>2. /\ id <= RcResponses /\ paired(rcReq[q].input) /\ UNCHANGED rcNow
      /\ rcReq' = [rcReq EXCEPT ![q] = NoRequest]
  BY <1>1 DEF ResponseCompleted, Accepted
<1>3. /\ rcReq' \in [RcRequests -> RcReq]
      /\ \A p \in RcRequests : rcReq'[p].hit /\ ~rcReq'[p].cut => paired(rcReq'[p].input)
  BY <1>2, RequestEnds
<1>4. CASE rcCalls' = Append(rcCalls, {id}) /\ cacheCompletedResponse(q, id)
  BY <1>1, <1>2, <1>3, <1>4, StoredKeeps
<1>5. CASE rcCalls' = Append(rcCalls, {}) /\ UNCHANGED rcStore
  <2>1. rcCalls' \in Seq(SUBSET (1..RcResponses)) /\ Len(rcCalls') = id /\ Ids \subseteq Ids'
    <3>1. {} \in SUBSET (1..RcResponses) /\ rcCalls \in Seq(SUBSET (1..RcResponses))
      BY DEF RcTypeOK
    <3>2. rcCalls' \in Seq(SUBSET (1..RcResponses)) /\ Len(rcCalls') = id
      BY <1>1, <1>5, <3>1
    <3> QED
      BY <1>1, <3>2 DEF Ids
  <2>2. RcTypeOK'
    BY <1>2, <1>3, <1>5, <2>1 DEF RcTypeOK
  <2>3. ResponseCacheTypeOK'
    <3>1. \A p \in RcRequests : rcReq'[p].input \in Seq(CacheItems)
      BY <1>3 DEF RcReq
    <3> QED
      BY <1>2, <1>5, <3>1 DEF ResponseCacheTypeOK
  <2>4. StoredPaired' /\ OutputHasItsCall'
    BY <1>3, <1>5 DEF StoredPaired, OutputHasItsCall
  <2> QED
    BY <2>2, <2>3, <2>4
<1> QED
  BY <1>1, <1>4, <1>5 DEF ResponseCompleted

\* The cache starts empty.
LEMMA RcInvInitially == ResponseCacheInit => RcInv
<1> SUFFICES ASSUME ResponseCacheInit PROVE RcInv
  OBVIOUS
<1>1. /\ rcStore = <<>> /\ DOMAIN rcStore = {} /\ rcNow = 0 /\ rcCalls = <<>> /\ Ids = {}
      /\ rcReq = [q \in RcRequests |-> NoRequest]
  BY DEF ResponseCacheInit, Ids
<1>2. NoRequest \in RcReq /\ ~NoRequest.hit /\ NoRequest.input = <<>>
  <2>1. 0 \in Nat /\ <<>> \in Seq(CacheItems)
    OBVIOUS
  <2> QED
    BY <2>1 DEF NoRequest, RcReq
<1>3. \A q \in RcRequests : rcReq[q] = NoRequest /\ rcReq[q].input \in Seq(CacheItems)
  BY <1>1, <1>2 DEF RcReq
<1>4. RcTypeOK
  BY <1>1, <1>2, ResponseCacheAssumption DEF RcTypeOK
<1>5. ResponseCacheTypeOK
  BY <1>1, <1>3, FS_EmptySet, ResponseCacheAssumption DEF ResponseCacheTypeOK
<1> QED
  BY <1>1, <1>2, <1>3, <1>4, <1>5 DEF RcInv, StoredPaired, OutputHasItsCall

\* Every step of every request, of the cleanup and of the clock.
LEMMA RcInvKept == RcInv /\ [ResponseCacheNext]_rcVars => RcInv'
<1> SUFFICES ASSUME RcInv, [ResponseCacheNext]_rcVars PROVE RcInv'
  OBVIOUS
<1>1. rcReq \in [RcRequests -> RcReq] /\ rcNow \in Nat /\ rcNow <= rcNow
      /\ \A p \in RcRequests : rcReq[p].hit /\ ~rcReq[p].cut => paired(rcReq[p].input)
  BY DEF RcInv, RcTypeOK, OutputHasItsCall
<1>2. CASE UNCHANGED rcVars
  BY <1>1, <1>2, StoreShrinks DEF rcVars
<1>3. ASSUME NEW q \in RcRequests, Request(q) \/ ResponseCompleted(q) \/ ResponseFailed(q)
      PROVE  RcInv'
  <2>1. CASE ResponseFailed(q)
    BY <1>1, <2>1, RequestEnds, StoreShrinks DEF ResponseFailed
  <2> QED
    BY <1>3, <2>1, RequestKeeps, ResponseCompletedKeeps
<1>4. CASE respCacheCleanupLoop
  <2>1. /\ DOMAIN rcStore' \subseteq DOMAIN rcStore
        /\ \A r \in DOMAIN rcStore' : rcStore'[r] = rcStore[r]
    BY <1>4 DEF respCacheCleanupLoop, without
  <2> QED
    BY <1>1, <1>4, <2>1, StoreShrinks DEF respCacheCleanupLoop
<1>5. CASE ResponseCacheTick
  <2>1. rcNow' \in Nat /\ rcNow <= rcNow'
    BY <1>1, <1>5 DEF ResponseCacheTick
  <2> QED
    BY <1>1, <1>5, <2>1, StoreShrinks DEF ResponseCacheTick
<1> QED
  BY <1>2, <1>3, <1>4, <1>5 DEF ResponseCacheNext

\* Requests that look up, store and expire entries at once: the cache keeps its limits, and an
\* output goes upstream behind its call when the entry was found and whole
\* (PrepareResponsesBody, cacheCompletedResponse, getResponseCache, setResponseCache).
THEOREM ResponseCacheSoundHolds == ResponseCacheSpec => []ResponseCacheSound
<1>1. RcInv => ResponseCacheSound
  BY DEF RcInv, ResponseCacheSound
<1> QED
  BY <1>1, RcInvInitially, RcInvKept, PTL DEF ResponseCacheSpec

-----------------------------------------------------------------------------
(* A sum of numbers, as the cardinality of a set with as many elements for each. *)

\* One pair for every one of the g[x] that x counts for.
Cells(S, g) == UNION {{x} \X (1..g[x]) : x \in S}

\* What one index counts for.
LEMMA OwnCells ==
    ASSUME NEW x, NEW n \in Nat
    PROVE  IsFiniteSet({x} \X (1..n)) /\ Cardinality({x} \X (1..n)) = n
<1>1. IsFiniteSet({x}) /\ Cardinality({x}) = 1
  BY FS_Singleton
<1>2. IsFiniteSet(1..n) /\ Cardinality(1..n) = n
  BY FS_Interval
<1>3. /\ IsFiniteSet({x} \X (1..n))
      /\ Cardinality({x} \X (1..n)) = Cardinality({x}) * Cardinality(1..n)
  BY ONLY <1>1, <1>2, FS_Product
<1> QED
  BY <1>1, <1>2, <1>3

\* Finitely many numbers have a finite sum.
LEMMA CellsFinite ==
    ASSUME NEW S, IsFiniteSet(S), NEW g \in [S -> Nat]
    PROVE  IsFiniteSet(Cells(S, g)) /\ Cardinality(Cells(S, g)) \in Nat
<1> DEFINE own == {{x} \X (1..g[x]) : x \in S}
           f   == [x \in S |-> {x} \X (1..g[x])]
<1>1. f \in Surjection(S, own)
  BY DEF Surjection
<1>2. IsFiniteSet(own)
  BY <1>1, FS_Surjection
<1>3. \A T \in own : IsFiniteSet(T)
  <2> SUFFICES ASSUME NEW x \in S PROVE IsFiniteSet({x} \X (1..g[x]))
    OBVIOUS
  <2>1. g[x] \in Nat
    OBVIOUS
  <2> QED
    BY <2>1, OwnCells
<1>4. IsFiniteSet(UNION own)
  BY <1>2, <1>3, FS_UNION
<1> QED
  BY <1>4, FS_CardinalityType DEF Cells

\* The sum without one of its numbers.
LEMMA CellsSplit ==
    ASSUME NEW S, IsFiniteSet(S), NEW g \in [S -> Nat], NEW x \in S
    PROVE  /\ IsFiniteSet(Cells(S \ {x}, g))
           /\ Cardinality(Cells(S, g)) = Cardinality(Cells(S \ {x}, g)) + g[x]
<1> DEFINE rest == Cells(S \ {x}, g)
           own  == {x} \X (1..g[x])
<1>1. Cells(S, g) = rest \cup own /\ rest \cap own = {} /\ rest \subseteq Cells(S, g)
  BY DEF Cells
<1>2. IsFiniteSet(Cells(S, g))
  BY CellsFinite
<1>3. IsFiniteSet(rest)
  BY <1>1, <1>2, FS_Subset
<1>4. IsFiniteSet(own) /\ Cardinality(own) = g[x]
  BY OwnCells
<1>5. Cardinality(rest \cup own) = Cardinality(rest) + Cardinality(own) - Cardinality(rest \cap own)
  BY ONLY <1>3, <1>4, FS_Union
<1>6. Cardinality(rest) \in Nat /\ Cardinality({}) = 0
  BY <1>3, FS_CardinalityType, FS_EmptySet
<1> HIDE DEF rest, own
<1>7. Cardinality(Cells(S, g)) = Cardinality(rest) + g[x]
  BY <1>1, <1>4, <1>5, <1>6
<1> QED
  BY <1>3, <1>7 DEF rest

\* One number changes, and the sum by as much.
LEMMA CellsChange ==
    ASSUME NEW S, IsFiniteSet(S), NEW g \in [S -> Nat], NEW h \in [S -> Nat], NEW x \in S,
           \A y \in S : y # x => h[y] = g[y]
    PROVE  Cardinality(Cells(S, h)) = Cardinality(Cells(S, g)) - g[x] + h[x]
<1>1. Cells(S \ {x}, h) = Cells(S \ {x}, g)
  BY DEF Cells
<1>2. Cardinality(Cells(S, h)) = Cardinality(Cells(S \ {x}, g)) + h[x]
  BY <1>1, CellsSplit
<1>3. Cardinality(Cells(S, g)) = Cardinality(Cells(S \ {x}, g)) + g[x]
  BY CellsSplit
<1>4. Cardinality(Cells(S \ {x}, g)) \in Nat
  BY CellsSplit, FS_CardinalityType
<1> QED
  BY <1>2, <1>3, <1>4

-----------------------------------------------------------------------------
(* The usage log. *)

UlCounts == [logged : Nat, written : Nat, failed : Nat, overtaken : BOOLEAN, disturbed : BOOLEAN]

UlTypeOK ==
    /\ ulBuf \in Nat /\ ulRows \in Nat /\ ulBase \in Nat
    /\ ulFlush \in [AllFlushers -> [pc : {"idle", "start", "insert"}, rest : Nat]]
    /\ ulClear \in [Clearers -> [pc : {"idle", "truncate", "cleared"}, snap : Nat]]
    /\ ulClose \in {"open", "stopping", "flushing", "closed"}
    /\ ulCount \in UlCounts

\* Only a flusher that is inserting has something in hand; the last flush runs while Close
\* waits for it, the ticker's before.
FlushersKnown ==
    /\ \A f \in AllFlushers : ulFlush[f].pc # "insert" => ulFlush[f].rest = 0
    /\ flushing(Closer) => ulClose = "flushing"
    /\ flushing(Ticker) => ulClose \in {"open", "stopping"}

\* What the last flush has taken is all there is, and when the connection closes nobody is
\* under way: FlushedAtExit follows.
LastOfAll ==
    ~ulCount.overtaken =>
        /\ ulClose \in {"flushing", "closed"} /\ ulFlush[Closer].pc # "start" => ulBuf = 0
        /\ ulClose = "closed" => \A f \in AllFlushers : ~flushing(f)

Truncating == {x \in Clearers : ulClear[x].pc = "truncate"}

\* A clearing that is not disturbed is the only one, and has seen all rows there are.
ClearingKnown ==
    ~ulCount.disturbed =>
        /\ \A x, y \in Truncating : x = y
        /\ \A x \in Truncating : /\ ulClear[x].snap = ulRows
                                 /\ ulBase + ulRows = ulCount.written + ulClear[x].snap
        /\ Truncating = {} => ulBase + ulRows = ulCount.written

UlInv == UlTypeOK /\ FlushersKnown /\ LastOfAll /\ ClearingKnown /\ EntriesOnce

\* There are finitely many flushers.
LEMMA FlushersFinite == IsFiniteSet(AllFlushers)
<1>1. IsFiniteSet(Flushers \cup {Ticker})
  BY UsageLogAssumption, FS_AddElement
<1>2. IsFiniteSet((Flushers \cup {Ticker}) \cup {Closer})
  BY <1>1, FS_AddElement
<1>3. AllFlushers = (Flushers \cup {Ticker}) \cup {Closer}
  BY DEF AllFlushers
<1> QED
  BY <1>2, <1>3

\* What the flushers have in hand is a number.
LEMMA UnwrittenType ==
    ASSUME UlTypeOK
    PROVE  Cardinality(Unwritten) \in Nat
<1> DEFINE hand == [f \in AllFlushers |-> ulFlush[f].rest]
<1>1. hand \in [AllFlushers -> Nat]
  BY DEF UlTypeOK
<1>2. Unwritten = Cells(AllFlushers, hand)
  BY DEF Unwritten, Cells
<1> QED
  BY <1>1, <1>2, FlushersFinite, CellsFinite

\* One flusher moves, and the entries in hand are as many more or fewer.
LEMMA HandChanges ==
    ASSUME UlTypeOK, UlTypeOK', NEW f \in AllFlushers,
           \A e \in AllFlushers : e # f => ulFlush'[e].rest = ulFlush[e].rest
    PROVE  Cardinality(Unwritten') = Cardinality(Unwritten) - ulFlush[f].rest + ulFlush'[f].rest
<1>1. PICK g \in [AllFlushers -> Nat] : g = [e \in AllFlushers |-> ulFlush[e].rest]
  BY DEF UlTypeOK
<1>2. PICK h \in [AllFlushers -> Nat] : h = [e \in AllFlushers |-> ulFlush'[e].rest]
  BY DEF UlTypeOK
<1>4. \A y \in AllFlushers : y # f => h[y] = g[y]
  BY <1>1, <1>2
<1>5. Cardinality(Cells(AllFlushers, h)) = Cardinality(Cells(AllFlushers, g)) - g[f] + h[f]
  BY <1>4, FlushersFinite, CellsChange
<1>6. Unwritten = Cells(AllFlushers, g) /\ Unwritten' = Cells(AllFlushers, h)
  BY <1>1, <1>2 DEF Unwritten, Cells
<1>7. g[f] = ulFlush[f].rest /\ h[f] = ulFlush'[f].rest
  BY <1>1, <1>2
<1> QED
  BY <1>5, <1>6, <1>7

\* Who begins or ends a flush with empty hands changes nothing in them.
LEMMA HandsSame ==
    ASSUME \A e \in AllFlushers : ulFlush'[e].rest = ulFlush[e].rest
    PROVE  Unwritten' = Unwritten
BY DEF Unwritten

\* A handler logs an entry; one that comes during the last flush overtakes it.
LEMMA InsertUsageLogKeeps ==
    ASSUME UlInv, InsertUsageLog
    PROVE  UlInv'
<1>1. /\ UlTypeOK /\ ulBuf' = ulBuf + 1 /\ ulCount \in UlCounts
      /\ UNCHANGED <<ulRows, ulBase, ulClear, ulClose>>
  BY DEF UlInv, UlTypeOK, InsertUsageLog
<1>2. /\ ulCount' \in UlCounts /\ ulCount'.logged = ulCount.logged + 1
      /\ ulCount'.written = ulCount.written /\ ulCount'.failed = ulCount.failed
      /\ ulCount'.disturbed = ulCount.disturbed
      /\ ulCount'.overtaken = (ulCount.overtaken \/ ulClose \in {"flushing", "closed"})
  <2>1. PICK late \in BOOLEAN : late = (ulCount.overtaken \/ ulClose \in {"flushing", "closed"})
    OBVIOUS
  <2>2. ulCount' = [ulCount EXCEPT !.logged = @ + 1, !.overtaken = late]
    BY <2>1 DEF InsertUsageLog
  <2>3. /\ ulCount.logged + 1 \in Nat /\ ulCount.written \in Nat /\ ulCount.failed \in Nat
        /\ ulCount.disturbed \in BOOLEAN /\ late \in BOOLEAN
    BY <1>1, <2>1 DEF UlCounts
  <2>4. ulCount' = [logged |-> ulCount.logged + 1, written |-> ulCount.written,
                    failed |-> ulCount.failed, overtaken |-> late, disturbed |-> ulCount.disturbed]
    BY <1>1, <2>2 DEF UlCounts
  <2>5. ulCount' \in UlCounts
    BY <2>3, <2>4 DEF UlCounts
  <2> QED
    BY <2>1, <2>4, <2>5
<1>3. /\ ulFlush' \in [AllFlushers -> [pc : {"idle", "start", "insert"}, rest : Nat]]
      /\ \A e \in AllFlushers : /\ ulFlush'[e].rest = ulFlush[e].rest
                                /\ ulFlush[e].pc = "insert" => ulFlush'[e].pc = "insert"
      /\ \A e \in {Ticker, Closer} : ulFlush'[e] = ulFlush[e]
      /\ \A e \in AllFlushers : ulFlush'[e].pc = "insert" => ulFlush[e].pc = "insert"
  BY <1>1, UsageLogAssumption DEF InsertUsageLog, UlTypeOK, AllFlushers, flushing
<1>4. UlTypeOK'
  BY <1>1, <1>2, <1>3 DEF UlTypeOK
<1>5. FlushersKnown'
  BY <1>1, <1>3 DEF UlInv, FlushersKnown, flushing
<1>6. LastOfAll'
  BY <1>1, <1>2, <1>3 DEF UlInv, LastOfAll, UlTypeOK
<1>7. ClearingKnown'
  BY <1>1, <1>2 DEF UlInv, ClearingKnown, Truncating
<1>8. EntriesOnce'
  BY <1>1, <1>2, <1>3, HandsSame, UnwrittenType DEF UlInv, EntriesOnce, UlTypeOK, UlCounts
<1> QED
  BY <1>4, <1>5, <1>6, <1>7, <1>8 DEF UlInv

\* A flusher takes the whole buffer.
LEMMA TakeBatchKeeps ==
    ASSUME UlInv, NEW f \in AllFlushers, TakeBatch(f)
    PROVE  UlInv'
<1>1. /\ UlTypeOK /\ ulBuf \in Nat /\ ulBuf' = 0 /\ ulFlush[f].pc = "start" /\ ulFlush[f].rest = 0
      /\ UNCHANGED <<ulRows, ulBase, ulClear, ulClose, ulCount>>
  BY DEF UlInv, UlTypeOK, FlushersKnown, TakeBatch
<1>2. PICK new \in [pc : {"idle", "start", "insert"}, rest : Nat] :
         /\ new = IF ulBuf = 0 THEN NoFlush ELSE [pc |-> "insert", rest |-> ulBuf]
         /\ ulFlush' = [ulFlush EXCEPT ![f] = new]
  <2>1. (IF ulBuf = 0 THEN NoFlush ELSE [pc |-> "insert", rest |-> ulBuf])
           \in [pc : {"idle", "start", "insert"}, rest : Nat]
    BY <1>1 DEF NoFlush
  <2> QED
    BY <2>1 DEF TakeBatch
<1>3. new.rest = ulBuf /\ new.pc # "start" /\ (new.pc # "insert" => new.rest = 0)
  BY <1>1, <1>2 DEF NoFlush
<1>4. ulFlush'[f] = new /\ \A e \in AllFlushers : e # f => ulFlush'[e] = ulFlush[e]
  BY <1>1, <1>2 DEF UlTypeOK
<1>5. UlTypeOK'
  BY <1>1, <1>2 DEF UlTypeOK
<1>6. FlushersKnown'
  BY <1>1, <1>3, <1>4 DEF UlInv, FlushersKnown, flushing, AllFlushers
<1>7. LastOfAll'
  BY <1>1, <1>3, <1>4 DEF UlInv, LastOfAll, flushing
<1>8. ClearingKnown'
  BY <1>1 DEF UlInv, ClearingKnown, Truncating
<1>9. Cardinality(Unwritten') = Cardinality(Unwritten) + ulBuf
  BY <1>1, <1>3, <1>4, <1>5, HandChanges, UnwrittenType
<1>10. EntriesOnce'
  BY <1>1, <1>9, UnwrittenType DEF UlInv, EntriesOnce, UlTypeOK, UlCounts
<1> QED
  BY <1>5, <1>6, <1>7, <1>8, <1>10 DEF UlInv

\* Rows go from a flusher's hand to the table.
LEMMA ChunkKeeps ==
    ASSUME UlInv, NEW f \in AllFlushers, batchInsertLogsChunk(f)
    PROVE  UlInv'
<1>1. /\ UlTypeOK /\ ulFlush[f].pc = "insert" /\ ulFlush[f].rest \in Nat /\ ulClose # "closed"
      /\ ulCount \in UlCounts /\ ulRows \in Nat
      /\ UNCHANGED <<ulBuf, ulBase, ulClear, ulClose>>
  BY DEF UlInv, UlTypeOK, batchInsertLogsChunk
<1>2. PICK n \in Nat : n = IF ulFlush[f].rest < RowsPerStmt THEN ulFlush[f].rest ELSE RowsPerStmt
  BY <1>1, UsageLogAssumption
<1>3. n <= ulFlush[f].rest
  BY <1>1, <1>2, UsageLogAssumption
<1>4. PICK new \in [pc : {"idle", "start", "insert"}, rest : Nat] :
         /\ new = IF ulFlush[f].rest = n THEN NoFlush
                  ELSE [pc |-> "insert", rest |-> ulFlush[f].rest - n]
         /\ ulFlush' = [ulFlush EXCEPT ![f] = new]
  <2>1. ulFlush[f].rest - n \in Nat
    BY <1>1, <1>2, <1>3
  <2>2. (IF ulFlush[f].rest = n THEN NoFlush ELSE [pc |-> "insert", rest |-> ulFlush[f].rest - n])
           \in [pc : {"idle", "start", "insert"}, rest : Nat]
    BY <2>1 DEF NoFlush
  <2> QED
    BY <1>2, <2>2 DEF batchInsertLogsChunk
<1>5. new.rest = ulFlush[f].rest - n /\ new.pc # "start" /\ (new.pc # "insert" => new.rest = 0)
  BY <1>1, <1>3, <1>4 DEF NoFlush
<1>6. ulFlush'[f] = new /\ \A e \in AllFlushers : e # f => ulFlush'[e] = ulFlush[e]
  BY <1>1, <1>4 DEF UlTypeOK
<1>7. /\ ulRows' = ulRows + n
      /\ ulCount' \in UlCounts /\ ulCount'.logged = ulCount.logged
      /\ ulCount'.written = ulCount.written + n /\ ulCount'.failed = ulCount.failed
      /\ ulCount'.disturbed = (ulCount.disturbed \/ Truncating # {})
      /\ ulCount'.overtaken = ulCount.overtaken
  <2>1. PICK dist \in BOOLEAN : dist = (ulCount.disturbed \/ \E x \in Clearers : ulClear[x].pc = "truncate")
    OBVIOUS
  <2>2. ulCount' = [ulCount EXCEPT !.written = @ + n, !.disturbed = dist]
    BY <1>2, <2>1 DEF batchInsertLogsChunk
  <2>3. ulRows' = ulRows + n
    BY <1>2 DEF batchInsertLogsChunk
  <2>4. Truncating # {} <=> \E x \in Clearers : ulClear[x].pc = "truncate"
    BY DEF Truncating
  <2>5. /\ ulCount' \in UlCounts /\ ulCount'.logged = ulCount.logged
        /\ ulCount'.written = ulCount.written + n /\ ulCount'.failed = ulCount.failed
        /\ ulCount'.disturbed = dist /\ ulCount'.overtaken = ulCount.overtaken
    <3>1. /\ ulCount.logged \in Nat /\ ulCount.written + n \in Nat /\ ulCount.failed \in Nat
          /\ ulCount.overtaken \in BOOLEAN /\ dist \in BOOLEAN
      BY <1>1, <1>2, <2>1 DEF UlCounts
    <3>2. ulCount' = [logged |-> ulCount.logged, written |-> ulCount.written + n,
                      failed |-> ulCount.failed, overtaken |-> ulCount.overtaken, disturbed |-> dist]
      BY <1>1, <2>2 DEF UlCounts
    <3>3. ulCount' \in UlCounts
      BY <3>1, <3>2 DEF UlCounts
    <3> QED
      BY <3>2, <3>3
  <2> QED
    BY <2>1, <2>3, <2>4, <2>5
<1>8. UlTypeOK'
  BY <1>1, <1>4, <1>7 DEF UlTypeOK
<1>9. FlushersKnown'
  BY <1>1, <1>5, <1>6 DEF UlInv, FlushersKnown, flushing, AllFlushers
<1>10. LastOfAll'
  BY <1>1, <1>5, <1>6, <1>7 DEF UlInv, LastOfAll, flushing, AllFlushers
<1>11. ClearingKnown'
  <2>1. Truncating' = Truncating
    BY <1>1 DEF Truncating
  <2>2. ~ulCount'.disturbed => ulBase' + ulRows' = ulCount'.written
    BY <1>1, <1>7 DEF UlInv, ClearingKnown, UlTypeOK, UlCounts
  <2> QED
    BY <1>7, <2>1, <2>2 DEF ClearingKnown
<1>12. Cardinality(Unwritten') = Cardinality(Unwritten) - n
  BY <1>1, <1>3, <1>5, <1>6, <1>8, HandChanges, UnwrittenType
<1>13. EntriesOnce'
  BY <1>1, <1>7, <1>12, UnwrittenType DEF UlInv, EntriesOnce, UlTypeOK, UlCounts
<1> QED
  BY <1>8, <1>9, <1>10, <1>11, <1>13 DEF UlInv

\* A batch fails with what is left of it.
LEMMA BatchFailsKeeps ==
    ASSUME UlInv, NEW f \in AllFlushers, BatchFails(f)
    PROVE  UlInv'
<1>1. /\ UlTypeOK /\ ulFlush[f].pc = "insert" /\ ulFlush[f].rest \in Nat /\ ulCount \in UlCounts
      /\ ulFlush' = [ulFlush EXCEPT ![f] = NoFlush]
      /\ UNCHANGED <<ulBuf, ulRows, ulBase, ulClear, ulClose>>
  BY DEF UlInv, UlTypeOK, BatchFails
<1>2. NoFlush \in [pc : {"idle", "start", "insert"}, rest : Nat] /\ NoFlush.pc = "idle" /\ NoFlush.rest = 0
  BY DEF NoFlush
<1>3. ulFlush'[f] = NoFlush /\ \A e \in AllFlushers : e # f => ulFlush'[e] = ulFlush[e]
  BY <1>1 DEF UlTypeOK
<1>4. /\ ulCount' \in UlCounts /\ ulCount'.logged = ulCount.logged
      /\ ulCount'.written = ulCount.written /\ ulCount'.failed = ulCount.failed + ulFlush[f].rest
      /\ ulCount'.disturbed = ulCount.disturbed /\ ulCount'.overtaken = ulCount.overtaken
  BY <1>1 DEF BatchFails, UlCounts
<1>5. UlTypeOK'
  BY <1>1, <1>2, <1>4 DEF UlTypeOK
<1>6. FlushersKnown'
  BY <1>1, <1>2, <1>3 DEF UlInv, FlushersKnown, flushing, AllFlushers
<1>7. LastOfAll'
  BY <1>1, <1>2, <1>3, <1>4 DEF UlInv, LastOfAll, flushing, AllFlushers
<1>8. ClearingKnown'
  BY <1>1, <1>4 DEF UlInv, ClearingKnown, Truncating
<1>9. Cardinality(Unwritten') = Cardinality(Unwritten) - ulFlush[f].rest
  BY <1>1, <1>2, <1>3, <1>5, HandChanges, UnwrittenType
<1>10. EntriesOnce'
  BY <1>1, <1>4, <1>9, UnwrittenType DEF UlInv, EntriesOnce, UlTypeOK, UlCounts
<1> QED
  BY <1>5, <1>6, <1>7, <1>8, <1>10 DEF UlInv

\* The ticker, and Close from its beginning to its end.
LEMMA CloseKeeps ==
    ASSUME UlInv, TickerFlush \/ CloseBegins \/ LastFlush \/ ConnectionCloses
    PROVE  UlInv'
<1>1. /\ UlTypeOK /\ ulCount \in UlCounts /\ Ticker \in AllFlushers /\ Closer \in AllFlushers
      /\ Ticker # Closer /\ UNCHANGED <<ulBuf, ulRows, ulBase, ulClear>>
  BY DEF UlInv, UlTypeOK, AllFlushers, Ticker, Closer, TickerFlush, CloseBegins, LastFlush,
         ConnectionCloses
<1>2. /\ ulCount' \in UlCounts /\ ulCount'.logged = ulCount.logged
      /\ ulCount'.written = ulCount.written /\ ulCount'.failed = ulCount.failed
      /\ ulCount'.disturbed = ulCount.disturbed
      /\ ulCount.overtaken => ulCount'.overtaken
  BY <1>1 DEF TickerFlush, CloseBegins, LastFlush, ConnectionCloses, UlCounts
<1>3. /\ ulFlush' \in [AllFlushers -> [pc : {"idle", "start", "insert"}, rest : Nat]]
      /\ \A e \in AllFlushers : ulFlush'[e].rest = ulFlush[e].rest
  BY <1>1 DEF TickerFlush, CloseBegins, LastFlush, ConnectionCloses, UlTypeOK
<1>4. UlTypeOK'
  BY <1>1, <1>2, <1>3 DEF UlTypeOK, TickerFlush, CloseBegins, LastFlush, ConnectionCloses
<1>5. ClearingKnown'
  BY <1>1, <1>2 DEF UlInv, ClearingKnown, Truncating
<1>6. EntriesOnce'
  BY <1>1, <1>2, <1>3, HandsSame DEF UlInv, EntriesOnce
<1>7. CASE TickerFlush
  <2>1. /\ ulClose' = ulClose /\ ulClose \in {"open", "stopping"}
        /\ ulFlush'[Ticker].pc = "start" /\ ulFlush[Ticker].pc = "idle"
        /\ \A e \in AllFlushers : e # Ticker => ulFlush'[e] = ulFlush[e]
    BY <1>1, <1>7 DEF TickerFlush, UlTypeOK, flushing
  <2>2. FlushersKnown'
    BY <1>1, <1>3, <2>1 DEF UlInv, FlushersKnown, flushing
  <2>3. LastOfAll'
    BY <2>1 DEF LastOfAll
  <2> QED
    BY <1>4, <1>5, <1>6, <2>2, <2>3 DEF UlInv
<1>8. CASE CloseBegins
  <2>1. ulClose = "open" /\ ulClose' = "stopping" /\ ulFlush' = ulFlush
    BY <1>8 DEF CloseBegins
  <2>2. FlushersKnown' /\ LastOfAll'
    BY <2>1 DEF UlInv, FlushersKnown, flushing, LastOfAll
  <2> QED
    BY <1>4, <1>5, <1>6, <2>2 DEF UlInv
<1>9. CASE LastFlush
  <2>1. /\ ulClose = "stopping" /\ ulClose' = "flushing" /\ ulFlush[Ticker].pc = "idle"
        /\ ulFlush'[Closer].pc = "start" /\ ulFlush[Closer].pc = "idle"
        /\ \A e \in AllFlushers : e # Closer => ulFlush'[e] = ulFlush[e]
    BY <1>1, <1>9 DEF LastFlush, UlTypeOK, UlInv, FlushersKnown, flushing
  <2>2. FlushersKnown'
    BY <1>1, <1>3, <2>1 DEF UlInv, FlushersKnown, flushing
  <2>3. LastOfAll'
    BY <2>1 DEF LastOfAll
  <2> QED
    BY <1>4, <1>5, <1>6, <2>2, <2>3 DEF UlInv
<1>10. CASE ConnectionCloses
  <2>1. /\ ulClose = "flushing" /\ ulClose' = "closed" /\ ulFlush' = ulFlush /\ ~flushing(Closer)
        /\ ulCount'.overtaken = (ulCount.overtaken \/ \E f \in Flushers : flushing(f))
    BY <1>1, <1>10 DEF ConnectionCloses, UlCounts
  <2>2. ~flushing(Ticker)
    BY <2>1 DEF UlInv, FlushersKnown
  <2>3. FlushersKnown'
    BY <2>1, <2>2 DEF UlInv, FlushersKnown, flushing
  <2>4. LastOfAll'
    BY <1>1, <2>1, <2>2 DEF UlInv, LastOfAll, flushing, AllFlushers
  <2> QED
    BY <1>4, <1>5, <1>6, <2>3, <2>4 DEF UlInv
<1> QED
  BY <1>7, <1>8, <1>9, <1>10

\* A clearing adds the table to the baseline, empties it, or fails in between.
LEMMA ClearKeeps ==
    ASSUME UlInv, NEW x \in Clearers, ClearSnapshot(x) \/ ClearTruncate(x) \/ ClearFails(x)
    PROVE  UlInv'
<1>1. /\ UlTypeOK /\ ulCount \in UlCounts /\ ulRows \in Nat /\ ulBase \in Nat
      /\ UNCHANGED <<ulBuf, ulFlush, ulClose>>
  BY DEF UlInv, UlTypeOK, ClearSnapshot, ClearTruncate, ClearFails
<1>2. /\ ulCount' \in UlCounts /\ ulCount'.logged = ulCount.logged
      /\ ulCount'.written = ulCount.written /\ ulCount'.failed = ulCount.failed
      /\ ulCount'.overtaken = ulCount.overtaken
      /\ ulCount'.disturbed = \/ ulCount.disturbed
                              \/ ClearSnapshot(x) /\ Truncating # {}
                              \/ ClearFails(x)
  <2>1. CASE ClearSnapshot(x)
    <3>1. ~ClearFails(x)
      BY <2>1 DEF ClearSnapshot, ClearFails
    <3> QED
      BY <1>1, <2>1, <3>1 DEF ClearSnapshot, UlCounts, Truncating
  <2>2. CASE ClearTruncate(x)
    <3>1. ulCount' = ulCount
      BY <2>2 DEF ClearTruncate
    <3>2. ~ClearSnapshot(x)
      BY <2>2 DEF ClearSnapshot, ClearTruncate
    <3>3. CASE ClearFails(x)
      BY <1>1, <3>1, <3>3 DEF ClearFails, UlCounts
    <3>4. ulCount.disturbed \in BOOLEAN
      BY <1>1 DEF UlCounts
    <3> QED
      BY <1>1, <3>1, <3>2, <3>3, <3>4
  <2>3. CASE ClearFails(x)
    BY <1>1, <2>3 DEF ClearFails, UlCounts
  <2> QED
    BY <2>1, <2>2, <2>3
<1>3. FlushersKnown' /\ LastOfAll'
  BY <1>1, <1>2 DEF UlInv, FlushersKnown, flushing, LastOfAll
<1>4. EntriesOnce'
  BY <1>1, <1>2, HandsSame DEF UlInv, EntriesOnce
<1>5. PICK new \in [pc : {"idle", "truncate", "cleared"}, snap : Nat] :
         /\ ulClear' = [ulClear EXCEPT ![x] = new]
         /\ new = IF ClearSnapshot(x) THEN [pc |-> "truncate", snap |-> ulRows]
                                      ELSE [pc |-> "cleared", snap |-> 0]
  <2>1. CASE ClearSnapshot(x)
    BY <1>1, <2>1 DEF ClearSnapshot
  <2>2. CASE ClearTruncate(x) \/ ClearFails(x)
    <3>1. ~ClearSnapshot(x)
      BY <2>2 DEF ClearSnapshot, ClearTruncate, ClearFails
    <3> QED
      BY <2>2, <3>1 DEF ClearTruncate, ClearFails
  <2> QED
    BY <2>1, <2>2
<1>6. ulClear'[x] = new /\ \A y \in Clearers : y # x => ulClear'[y] = ulClear[y]
  BY <1>1, <1>5 DEF UlTypeOK
<1>7. UlTypeOK'
  BY <1>1, <1>2, <1>5 DEF UlTypeOK, ClearSnapshot, ClearTruncate, ClearFails
<1>8. ClearingKnown'
  <2> SUFFICES ASSUME ~ulCount'.disturbed
               PROVE  /\ \A y, z \in Truncating' : y = z
                      /\ \A y \in Truncating' : /\ ulClear'[y].snap = ulRows'
                                                /\ ulBase' + ulRows' = ulCount'.written + ulClear'[y].snap
                      /\ Truncating' = {} => ulBase' + ulRows' = ulCount'.written
    BY DEF ClearingKnown
  <2>1. ~ulCount.disturbed /\ ~ClearFails(x) /\ (ClearSnapshot(x) => Truncating = {})
    BY <1>2
  <2>2. CASE ClearSnapshot(x)
    <3>1. Truncating' = {x}
      BY <1>5, <1>6, <2>1, <2>2 DEF Truncating
    <3>2. ulClear'[x].snap = ulRows /\ ulRows' = ulRows /\ ulBase' = ulBase + ulRows
      BY <1>5, <1>6, <2>2 DEF ClearSnapshot
    <3>3. ulBase + ulRows = ulCount.written
      BY <2>1, <2>2 DEF UlInv, ClearingKnown
    <3> QED
      BY <1>1, <1>2, <3>1, <3>2, <3>3
  <2>3. CASE ClearTruncate(x)
    <3>1. x \in Truncating /\ ulRows' = 0 /\ ulBase' = ulBase
      BY <2>3 DEF ClearTruncate, Truncating
    <3>2. Truncating = {x} /\ ulClear[x].snap = ulRows /\ ulBase + ulRows = ulCount.written + ulClear[x].snap
      BY <2>1, <3>1 DEF UlInv, ClearingKnown
    <3>3. new.pc = "cleared"
      BY <1>5, <2>3 DEF ClearSnapshot, ClearTruncate
    <3>4. Truncating' = {}
      BY <1>6, <3>2, <3>3 DEF Truncating
    <3>5. ulBase = ulCount.written
      BY <1>1, <3>2 DEF UlCounts
    <3> QED
      BY <1>1, <1>2, <3>1, <3>4, <3>5
  <2> QED
    BY <2>1, <2>2, <2>3
<1> QED
  BY <1>3, <1>4, <1>7, <1>8 DEF UlInv

\* The log starts empty.
LEMMA UlInvInitially == UsageLogInit => UlInv
<1> SUFFICES ASSUME UsageLogInit PROVE UlInv
  OBVIOUS
<1>1. NoFlush.pc = "idle" /\ NoFlush.rest = 0 /\ NoClear.pc = "idle" /\ NoClear.snap = 0
  BY DEF NoFlush, NoClear
<1>2. UlTypeOK
  BY DEF UsageLogInit, UlTypeOK, UlCounts, NoFlush, NoClear
<1>3. \A f \in AllFlushers : ulFlush[f].rest = 0 /\ ulFlush[f].pc = "idle"
  BY <1>1 DEF UsageLogInit
<1>4. Ticker \in AllFlushers /\ Closer \in AllFlushers
  BY DEF AllFlushers
<1>5. FlushersKnown /\ LastOfAll
  BY <1>3, <1>4 DEF UsageLogInit, FlushersKnown, LastOfAll, flushing
<1>6. ClearingKnown
  BY <1>1 DEF UsageLogInit, ClearingKnown, Truncating
<1>7. Unwritten = {}
  BY <1>3 DEF Unwritten
<1>8. EntriesOnce
  BY <1>7, FS_EmptySet DEF UsageLogInit, EntriesOnce
<1> QED
  BY <1>2, <1>5, <1>6, <1>8 DEF UlInv

\* Every step of handlers, flushers, Close and administrators.
LEMMA UlInvKept == UlInv /\ [UsageLogNext]_ulVars => UlInv'
<1> SUFFICES ASSUME UlInv, [UsageLogNext]_ulVars PROVE UlInv'
  OBVIOUS
<1>1. CASE UNCHANGED ulVars
  BY <1>1 DEF ulVars, UlInv, UlTypeOK, FlushersKnown, LastOfAll, ClearingKnown, Truncating,
              EntriesOnce, Unwritten, flushing
<1> QED
  BY <1>1, InsertUsageLogKeeps, TakeBatchKeeps, ChunkKeeps, BatchFailsKeeps, CloseKeeps, ClearKeeps
     DEF UsageLogNext

\* Whatever flushes overlap, fail, meet a clearing or the end of the process: every entry is
\* in the buffer, in a hand, in the table or counted as failed, none is left when the
\* connection closes, and the totals survive a clearing (InsertUsageLog, flushLogs,
\* ClearUsageLogs, Close).
THEOREM UsageLogSoundHolds == UsageLogSpec => []UsageLogSound
<1>1. UlInv => UsageLogSound
  <2> SUFFICES ASSUME UlInv PROVE UsageLogSound
    OBVIOUS
  <2>1. FlushedAtExit
    <3> SUFFICES ASSUME ulClose = "closed", ~ulCount.overtaken
                 PROVE  ulBuf = 0 /\ ulCount.logged = ulCount.written + ulCount.failed
      BY DEF FlushedAtExit
    <3>1. \A f \in AllFlushers : ulFlush[f].pc = "idle" /\ ulFlush[f].rest = 0
      BY DEF UlInv, LastOfAll, FlushersKnown, flushing
    <3>2. Unwritten = {}
      BY <3>1 DEF Unwritten
    <3>3. ulBuf = 0
      BY <3>1 DEF UlInv, LastOfAll, AllFlushers
    <3> QED
      BY <3>2, <3>3, FS_EmptySet DEF UlInv, EntriesOnce, UlTypeOK, UlCounts
  <2>2. ClearKeepsTotals
    <3> SUFFICES ASSUME ~ulCount.disturbed
                 PROVE  ulBase + ulRows = ulCount.written
                           + (IF Truncating = {} THEN 0
                              ELSE ulClear[CHOOSE y \in Truncating : TRUE].snap)
      BY DEF ClearKeepsTotals, Truncating
    <3>1. CASE Truncating = {}
      BY <3>1 DEF UlInv, ClearingKnown, UlTypeOK, UlCounts
    <3>2. CASE Truncating # {}
      <4>1. (CHOOSE y \in Truncating : TRUE) \in Truncating
        BY <3>2
      <4> QED
        BY <3>2, <4>1 DEF UlInv, ClearingKnown
    <3> QED
      BY <3>1, <3>2
  <2> QED
    BY <2>1, <2>2 DEF UlInv, UsageLogSound
<1> QED
  BY <1>1, UlInvInitially, UlInvKept, PTL DEF UsageLogSpec

-----------------------------------------------------------------------------
(* The rate limiter. *)

Limiter == [exists : BOOLEAN, tokens : Nat, since : 0..Window, cool : 0..EvictionTTL,
            level : 0..Len(Durations), age : Nat]

RlTypeOK ==
    /\ rlRpm \in [Levels -> Rpms]
    /\ rlLimiter \in [Levels -> Limiter]
    /\ rlCaller \in [Callers -> 0..Len(Chain)]
    /\ rlPassed \in [Levels -> [1..Window -> Nat]]

\* The tokens a refill would leave.
Refilled(l) == refill(l, rlLimiter[l]).tokens

\* What passed in the last n ticks and what is left in the bucket come from a full bucket
\* and from what flowed in since.
Budget(l) ==
    rlLimiter[l].exists /\ rlRpm[l] > 0 =>
        \A n \in 1..Window :
            Window * rlPassed[l][n] + Refilled(l) <= Window * rlRpm[l] + (n - 1) * rlRpm[l]

\* A limiter through which something passed lately exists and was used as lately.
UsedLately(l) ==
    \A n \in 1..Window :
        rlPassed[l][n] > 0 => rlLimiter[l].exists /\ n > rlLimiter[l].age

\* A limiter that cools has been used too lately to be evicted.
CoolsUsed(l) ==
    rlLimiter[l].cool > 0 => rlLimiter[l].cool + rlLimiter[l].age <= EvictionTTL

LevelSound(l) ==
    /\ rlLimiter[l].tokens <= rlRpm[l] * Window
    /\ Budget(l) /\ UsedLately(l) /\ CoolsUsed(l)

RlInv == RlTypeOK /\ \A l \in Levels : LevelSound(l)

\* The constants.
LEMMA RlConstants ==
    /\ Window \in Nat /\ Window > 0 /\ EvictionTTL \in Nat /\ EvictionTTL > 0
    /\ Window <= EvictionTTL
    /\ Rpms \subseteq Nat /\ Levels = Range(Chain)
    /\ Len(Chain) \in Nat /\ \A i \in 1..Len(Chain) : Chain[i] \in Levels
    /\ Len(Durations) \in Nat /\ Len(Durations) > 0
    /\ \A i \in 1..Len(Durations) : Durations[i] \in 1..EvictionTTL
<1>1. Chain \in Seq(Range(Chain)) /\ Durations \in Seq(1..EvictionTTL)
  BY RateLimitAssumption
<1> QED
  BY <1>1, RateLimitAssumption DEF Levels

\* What one limiter has: its types, and that its bucket is not overfull.
LEMMA RlTypes ==
    ASSUME RlInv, NEW l \in Levels
    PROVE  /\ rlRpm[l] \in Nat /\ rlRpm[l] \in Rpms
           /\ rlLimiter[l] \in Limiter
           /\ rlLimiter[l].tokens \in Nat /\ rlLimiter[l].since \in Nat
           /\ rlLimiter[l].tokens <= rlRpm[l] * Window
           /\ \A n \in 1..Window : rlPassed[l][n] \in Nat
<1>1. rlRpm[l] \in Rpms /\ rlRpm[l] \in Nat
  BY RlConstants DEF RlInv, RlTypeOK
<1>2. rlLimiter[l] \in Limiter /\ rlPassed[l] \in [1..Window -> Nat]
  BY DEF RlInv, RlTypeOK
<1>3. rlLimiter[l].tokens \in Nat /\ rlLimiter[l].since \in Nat
  BY <1>2, RlConstants DEF Limiter
<1>4. rlLimiter[l].tokens <= rlRpm[l] * Window
  BY DEF RlInv, LevelSound
<1> QED
  BY <1>1, <1>2, <1>3, <1>4

\* A product of natural numbers is one, and grows with its factors.
LEMMA Products ==
    ASSUME NEW a \in Nat, NEW b \in Nat
    PROVE  a * b \in Nat /\ a * b = b * a /\ (a + 1) * b = a * b + b /\ a * (b + 1) = a * b + a
OBVIOUS

\* A factor that is not larger makes a product that is not larger.
LEMMA ProductsGrow ==
    ASSUME NEW a \in Nat, NEW b \in Nat, NEW c \in Nat, a <= b
    PROVE  a * c <= b * c /\ c * a <= c * b
OBVIOUS

\* What a refill does to a bucket that is not overfull.
LEMMA RefillIs ==
    ASSUME NEW l, NEW b \in Limiter, rlRpm[l] \in Nat, b.tokens <= rlRpm[l] * Window
    PROVE  /\ refill(l, b) \in Limiter
           /\ refill(l, b).tokens <= rlRpm[l] * Window /\ refill(l, b).tokens \in Nat
           /\ refill(l, b).since = 0 /\ refill(l, b).cool = b.cool
           /\ refill(l, b).level = b.level /\ refill(l, b).age = b.age
           /\ refill(l, b).exists = b.exists
           /\ b.since = 0 => refill(l, b).tokens = b.tokens
           /\ refill(l, b).tokens >= b.tokens
<1>1. PICK flow \in Nat : flow = b.since * rlRpm[l]
  BY RlConstants DEF Limiter
<1>2. PICK max \in Nat : max = rlRpm[l] * Window
  BY RlConstants
<1>3. PICK left \in Nat : left = IF b.tokens + flow > max THEN max ELSE b.tokens + flow
  BY <1>1, <1>2 DEF Limiter
<1>4. refill(l, b) = [b EXCEPT !.tokens = left, !.since = 0]
  BY <1>1, <1>2, <1>3 DEF refill
<1>5. b.since = 0 => flow = 0
  BY <1>1
<1>6. b.tokens \in Nat /\ 0 \in 0..Window
  BY RlConstants DEF Limiter
<1> HIDE DEF Limiter
<1>7. /\ refill(l, b) \in Limiter /\ refill(l, b).tokens = left /\ refill(l, b).since = 0
      /\ refill(l, b).cool = b.cool /\ refill(l, b).level = b.level /\ refill(l, b).age = b.age
      /\ refill(l, b).exists = b.exists
  BY <1>3, <1>4, <1>6 DEF Limiter
<1> QED
  BY <1>2, <1>3, <1>5, <1>6, <1>7

\* A cooldown that begins lasts at most as long as a limiter must be unused to be evicted.
LEMMA EnterIs ==
    ASSUME NEW b \in Limiter
    PROVE  /\ enterCooldown(b) \in Limiter
           /\ enterCooldown(b).tokens = b.tokens /\ enterCooldown(b).since = b.since
           /\ enterCooldown(b).age = b.age /\ enterCooldown(b).exists = b.exists
<1>1. PICK next \in 1..Len(Durations) : next = IF b.level < Len(Durations) THEN b.level + 1 ELSE b.level
  BY RlConstants DEF Limiter
<1>2. PICK d \in 0..EvictionTTL : d = Durations[next]
  BY <1>1, RlConstants
<1>3. enterCooldown(b) = [b EXCEPT !.level = next, !.cool = d]
  BY <1>1, <1>2 DEF enterCooldown
<1>4. next \in 0..Len(Durations)
  BY <1>1, RlConstants
<1> QED
  BY <1>2, <1>3, <1>4 DEF Limiter

\* What allow does to a bucket: it is used, refilled or to be refilled by as much, and has one
\* token less when the request was let through.
LEMMA AllowIs ==
    ASSUME NEW l, NEW b \in Limiter, rlRpm[l] \in Nat, b.tokens <= rlRpm[l] * Window
    PROVE  /\ allow(l, b) \in Limiter /\ allow(l, b).age = 0 /\ allow(l, b).exists = b.exists
           /\ allow(l, b).tokens <= rlRpm[l] * Window
           /\ rlRpm[l] > 0 => refill(l, allow(l, b)).tokens
                                 = refill(l, b).tokens - (IF grants(l, b) THEN Window ELSE 0)
<1>1. PICK used \in Limiter : used = [b EXCEPT !.age = 0]
  BY DEF Limiter
<1>2. /\ used.age = 0 /\ used.exists = b.exists /\ used.tokens = b.tokens /\ used.since = b.since
      /\ used.cool = b.cool
  BY <1>1 DEF Limiter
<1>3. refill(l, used).tokens = refill(l, b).tokens
  <2>1. /\ refill(l, used) = [used EXCEPT !.tokens = IF used.tokens + used.since * rlRpm[l] > rlRpm[l] * Window
                                                  THEN rlRpm[l] * Window
                                                  ELSE used.tokens + used.since * rlRpm[l], !.since = 0]
        /\ refill(l, b) = [b EXCEPT !.tokens = IF b.tokens + b.since * rlRpm[l] > rlRpm[l] * Window
                                            THEN rlRpm[l] * Window
                                            ELSE b.tokens + b.since * rlRpm[l], !.since = 0]
    BY DEF refill
  <2> QED
    BY <1>2, <2>1 DEF Limiter
<1>4. PICK full \in Limiter : full = refill(l, used)
  BY <1>1, <1>2, RefillIs
<1>5. /\ full.tokens = refill(l, b).tokens /\ full.tokens <= rlRpm[l] * Window /\ full.tokens \in Nat
      /\ full.since = 0 /\ full.age = 0 /\ full.exists = b.exists
  BY <1>2, <1>3, <1>4, RefillIs
<1>6. CASE rlRpm[l] = 0
  <2>1. allow(l, b) = used
    BY <1>1, <1>6 DEF allow
  <2> QED
    BY <1>2, <1>6, <2>1
<1>7. CASE rlRpm[l] > 0 /\ b.cool > 0
  <2>1. allow(l, b) = used /\ ~grants(l, b)
    BY <1>1, <1>7 DEF allow, grants
  <2>2. refill(l, used).tokens \in Nat
    BY <1>4, <1>5
  <2> QED
    BY <1>2, <1>3, <1>7, <2>1, <2>2
<1>8. CASE rlRpm[l] > 0 /\ b.cool = 0 /\ grants(l, b)
  <2>1. allow(l, b) = [full EXCEPT !.tokens = @ - Window]
    BY <1>1, <1>4, <1>8 DEF allow
  <2>2. full.tokens >= Window
    BY <1>5, <1>8 DEF grants
  <2>3. full.tokens - Window \in Nat /\ full.tokens - Window <= rlRpm[l] * Window
    BY <1>5, <2>2, RlConstants
  <2>4. /\ allow(l, b) \in Limiter /\ allow(l, b).tokens = full.tokens - Window
        /\ allow(l, b).since = 0 /\ allow(l, b).age = 0 /\ allow(l, b).exists = b.exists
    BY <1>5, <2>1, <2>3 DEF Limiter
  <2>5. refill(l, allow(l, b)).tokens = full.tokens - Window
    BY <2>3, <2>4, RefillIs
  <2> QED
    BY <1>5, <1>8, <2>3, <2>4, <2>5
<1>9. CASE rlRpm[l] > 0 /\ b.cool = 0 /\ ~grants(l, b)
  <2>1. allow(l, b) = enterCooldown(full)
    BY <1>1, <1>4, <1>9 DEF allow
  <2>2. /\ allow(l, b) \in Limiter /\ allow(l, b).tokens = full.tokens
        /\ allow(l, b).since = 0 /\ allow(l, b).age = 0 /\ allow(l, b).exists = b.exists
    BY <1>5, <2>1, EnterIs
  <2>3. refill(l, allow(l, b)).tokens = full.tokens
    BY <1>5, <2>2, RefillIs
  <2> QED
    BY <1>5, <1>9, <2>2, <2>3
<1>10. b.cool \in Nat
  BY RlConstants DEF Limiter
<1> QED
  BY <1>6, <1>7, <1>8, <1>9, <1>10

\* A limiter that is made starts with a full bucket.
LEMMA NewIs ==
    ASSUME NEW rpm \in Nat
    PROVE  /\ newLevelLimiter(rpm) \in Limiter /\ newLevelLimiter(rpm).exists
           /\ newLevelLimiter(rpm).tokens = rpm * Window
           /\ Absent \in Limiter /\ ~Absent.exists /\ Absent.tokens = 0 /\ Absent.cool = 0
<1>1. /\ rpm * Window \in Nat /\ 0 \in 0..Window /\ 0 \in 0..EvictionTTL /\ 0 \in 0..Len(Durations)
      /\ 0 \in Nat
  BY RlConstants
<1> QED
  BY <1>1 DEF newLevelLimiter, Absent, Limiter

\* A step that touches one level and keeps its numbers in order keeps all.
LEMMA OneLevel ==
    ASSUME RlInv, NEW l \in Levels, RlTypeOK',
           \A k \in Levels : k # l => /\ rlRpm'[k] = rlRpm[k] /\ rlLimiter'[k] = rlLimiter[k]
                                      /\ rlPassed'[k] = rlPassed[k],
           LevelSound(l)'
    PROVE  RlInv'
<1>1. ASSUME NEW k \in Levels, k # l PROVE LevelSound(k)'
  <2>1. LevelSound(k)
    BY DEF RlInv
  <2>2. rlRpm'[k] = rlRpm[k] /\ rlLimiter'[k] = rlLimiter[k] /\ rlPassed'[k] = rlPassed[k]
    BY <1>1
  <2>3. Refilled(k)' = Refilled(k)
    BY <2>2 DEF Refilled, refill
  <2> QED
    BY <2>1, <2>2, <2>3 DEF LevelSound, Budget, UsedLately, CoolsUsed
<1> QED
  BY <1>1 DEF RlInv

\* One level of a request: an absent limiter let nothing through lately, so a full bucket is
\* within its budget, and the token of a request that passes moves from the bucket to the
\* count.
LEMMA CheckKeeps ==
    ASSUME RlInv, NEW c \in Callers, NEW i \in 1..Len(Chain), checkLevel(c, i)
    PROVE  RlInv'
<1>1. PICK l \in Levels : l = Chain[i]
  BY RlConstants
<1>2. PICK b \in Limiter : b = IF rlLimiter[l].exists THEN rlLimiter[l] ELSE newLevelLimiter(rlRpm[l])
  BY <1>1, RlTypes, NewIs
<1>3. PICK ok \in BOOLEAN : ok = (rlRpm[l] = 0 \/ grants(l, b))
  OBVIOUS
<1>4. /\ rlLimiter' = [rlLimiter EXCEPT ![l] = IF rlRpm[l] = 0 /\ l # Global THEN rlLimiter[l]
                                               ELSE allow(l, b)]
      /\ rlCaller' = [rlCaller EXCEPT ![c] = IF ok /\ i < Len(Chain) THEN i + 1 ELSE 0]
      /\ rlPassed' = [rlPassed EXCEPT ![l] = IF ok /\ rlRpm[l] > 0
                                              THEN [n \in 1..Window |-> rlPassed[l][n] + 1]
                                              ELSE rlPassed[l]]
      /\ rlRpm' = rlRpm
  BY <1>1, <1>2, <1>3 DEF checkLevel
<1>5. /\ rlRpm[l] \in Nat /\ rlLimiter[l] \in Limiter
      /\ rlPassed[l] \in [1..Window -> Nat] /\ LevelSound(l) /\ RlTypeOK
  BY RlTypes DEF RlInv, RlTypeOK
<1>6. b.exists /\ b.tokens <= rlRpm[l] * Window
  <2>1. newLevelLimiter(rlRpm[l]).exists /\ newLevelLimiter(rlRpm[l]).tokens = rlRpm[l] * Window
    BY <1>5, NewIs
  <2>2. rlRpm[l] * Window \in Nat
    BY <1>5, Products, RlConstants
  <2>3. rlLimiter[l].tokens <= rlRpm[l] * Window
    BY <1>5 DEF LevelSound
  <2>4. CASE rlLimiter[l].exists
    BY <1>2, <2>3, <2>4
  <2>5. CASE ~rlLimiter[l].exists
    BY <1>2, <2>1, <2>2, <2>5
  <2> QED
    BY <2>4, <2>5
<1>7. /\ allow(l, b) \in Limiter /\ allow(l, b).age = 0 /\ allow(l, b).exists
      /\ allow(l, b).tokens <= rlRpm[l] * Window
      /\ rlRpm[l] > 0 => refill(l, allow(l, b)).tokens
                            = refill(l, b).tokens - (IF grants(l, b) THEN Window ELSE 0)
  BY <1>5, <1>6, AllowIs
<1>8. RlTypeOK'
  <2>1. rlRpm' \in [Levels -> Rpms] /\ rlLimiter' \in [Levels -> Limiter]
    BY <1>4, <1>5, <1>7 DEF RlTypeOK
  <2>2. rlCaller' \in [Callers -> 0..Len(Chain)]
    <3>1. (IF ok /\ i < Len(Chain) THEN i + 1 ELSE 0) \in 0..Len(Chain)
      BY RlConstants
    <3> QED
      BY <1>4, <1>5, <3>1 DEF RlTypeOK
  <2>3. rlPassed' \in [Levels -> [1..Window -> Nat]]
    <3>1. [n \in 1..Window |-> rlPassed[l][n] + 1] \in [1..Window -> Nat]
      <4>1. ASSUME NEW n \in 1..Window PROVE rlPassed[l][n] + 1 \in Nat
        <5>1. PICK p \in Nat : p = rlPassed[l][n]
          BY <1>5
        <5> QED
          BY <5>1
      <4> QED
        BY <4>1
    <3> QED
      BY <1>4, <1>5, <3>1 DEF RlTypeOK
  <2> QED
    BY <2>1, <2>2, <2>3 DEF RlTypeOK
<1>9. \A k \in Levels : k # l => /\ rlRpm'[k] = rlRpm[k] /\ rlLimiter'[k] = rlLimiter[k]
                                 /\ rlPassed'[k] = rlPassed[k]
  BY <1>4, <1>5 DEF RlTypeOK
<1>10. /\ rlRpm'[l] = rlRpm[l]
       /\ rlLimiter'[l] = IF rlRpm[l] = 0 /\ l # Global THEN rlLimiter[l] ELSE allow(l, b)
       /\ rlPassed'[l] = IF ok /\ rlRpm[l] > 0 THEN [n \in 1..Window |-> rlPassed[l][n] + 1]
                         ELSE rlPassed[l]
  BY <1>4, <1>5 DEF RlTypeOK
<1>11. LevelSound(l)'
  <2>1. CASE rlRpm[l] = 0 /\ l # Global
    <3>1. rlLimiter'[l] = rlLimiter[l] /\ rlPassed'[l] = rlPassed[l] /\ rlRpm'[l] = rlRpm[l]
      BY <1>5, <1>10, <2>1
    <3> QED
      BY <1>5, <2>1, <3>1 DEF LevelSound, Budget, UsedLately, CoolsUsed
  <2>2. CASE ~(rlRpm[l] = 0 /\ l # Global)
    <3>1. rlLimiter'[l] = allow(l, b)
      BY <1>10, <2>2
    <3>2. rlLimiter'[l].tokens <= rlRpm'[l] * Window
      BY <1>7, <1>10, <3>1
    <3>3. UsedLately(l)'
      BY <1>7, <3>1, RlConstants DEF UsedLately
    <3>4. CoolsUsed(l)'
      <4>1. allow(l, b).cool \in 0..EvictionTTL
        BY <1>7 DEF Limiter
      <4> QED
        BY <1>7, <3>1, <4>1, RlConstants DEF CoolsUsed
    <3>5. Budget(l)'
      <4> SUFFICES ASSUME rlRpm[l] > 0, NEW n \in 1..Window
                   PROVE  Window * rlPassed'[l][n] + Refilled(l)'
                             <= Window * rlRpm[l] + (n - 1) * rlRpm[l]
        BY <1>10 DEF Budget
      <4>1. PICK p \in Nat : p = rlPassed[l][n]
        BY <1>5
      <4>2. PICK in \in Nat : in = (n - 1) * rlRpm[l]
        BY <1>5, Products
      <4>3. PICK r \in Nat : r = refill(l, b).tokens /\ r <= rlRpm[l] * Window
        BY <1>5, <1>6, RefillIs
      <4>4. rlRpm[l] * Window = Window * rlRpm[l]
        BY <1>5, Products, RlConstants
      <4>5. Window * p + r <= Window * rlRpm[l] + in
        <5>1. CASE rlLimiter[l].exists
          <6>1. b = rlLimiter[l] /\ Refilled(l) = r
            BY <1>2, <4>3, <5>1 DEF Refilled
          <6> QED
            BY <1>5, <4>1, <4>2, <5>1, <6>1 DEF LevelSound, Budget
        <5>2. CASE ~rlLimiter[l].exists
          <6>1. p = 0
            BY <1>5, <4>1, <5>2 DEF LevelSound, UsedLately
          <6>2. Window * p = 0
            BY <6>1, RlConstants
          <6>3. rlRpm[l] * Window \in Nat
            BY <1>5, Products, RlConstants
          <6> QED
            BY <4>2, <4>3, <4>4, <6>2, <6>3
        <5> QED
          BY <5>1, <5>2
      <4>6. ok = grants(l, b)
        <5>1. grants(l, b) \in BOOLEAN /\ rlRpm[l] # 0
          BY <1>5 DEF grants
        <5> QED
          BY <1>3, <5>1
      <4>7. Refilled(l)' = r - (IF ok THEN Window ELSE 0)
        <5>1. Refilled(l)' = refill(l, allow(l, b)).tokens
          BY <1>4, <3>1 DEF Refilled, refill
        <5> QED
          BY <1>7, <4>3, <4>6, <5>1
      <4>8. rlPassed'[l][n] = p + (IF ok THEN 1 ELSE 0)
        BY <1>10, <4>1
      <4>9. Window * (p + 1) = Window * p + Window /\ Window * p \in Nat
        BY <4>1, RlConstants, Products
      <4>10. Window * rlRpm[l] \in Nat
        BY <1>5, Products, RlConstants
      <4>11. PICK wp \in Nat : wp = Window * p
        BY <4>9
      <4>12. PICK wr \in Nat : wr = Window * rlRpm[l]
        BY <4>10
      <4>13. CASE ok
        <5>1. rlPassed'[l][n] = p + 1
          BY <4>1, <4>8, <4>13
        <5>2. Window * rlPassed'[l][n] = wp + Window
          BY <4>9, <4>11, <5>1
        <5>3. Refilled(l)' = r - Window
          BY <4>7, <4>13
        <5> QED
          BY <4>2, <4>5, <4>11, <4>12, <5>2, <5>3, RlConstants
      <4>14. CASE ~ok
        <5>1. rlPassed'[l][n] = p /\ Refilled(l)' = r
          BY <4>1, <4>3, <4>7, <4>8, <4>14
        <5> QED
          BY <4>2, <4>5, <5>1
      <4> QED
        BY <4>13, <4>14
    <3> QED
      BY <3>2, <3>3, <3>4, <3>5 DEF LevelSound
  <2> QED
    BY <2>1, <2>2
<1> QED
  BY <1>8, <1>9, <1>11, OneLevel

\* A change of the limit starts the count anew, and leaves a bucket no fuller than the new
\* limit.
LEMMA UpdateKeeps ==
    ASSUME RlInv, NEW l \in Levels, NEW rpm \in Rpms, updateRPM(l, rpm)
    PROVE  RlInv'
<1>1. /\ rlRpm[l] \in Nat /\ rlLimiter[l] \in Limiter /\ rpm \in Nat
      /\ LevelSound(l) /\ RlTypeOK
  BY RlTypes, RlConstants DEF RlInv
<1>2. /\ rlRpm' = [rlRpm EXCEPT ![l] = rpm]
      /\ rlLimiter' = [rlLimiter EXCEPT ![l] = rescaled(l, rpm)]
      /\ rlPassed' = [rlPassed EXCEPT ![l] = [n \in 1..Window |-> 0]]
      /\ rlCaller' = rlCaller
  BY DEF updateRPM
<1>3. PICK held \in Nat : held = rlLimiter[l].tokens /\ held <= rlRpm[l] * Window
  BY <1>1 DEF Limiter, LevelSound
<1>4. PICK left \in Nat : /\ left = IF ~rlLimiter[l].exists THEN 0
                                    ELSE IF rlRpm[l] = 0 THEN rpm * Window
                                    ELSE (held * rpm) \div rlRpm[l]
                          /\ left <= rpm * Window
  <2>1. rpm * Window \in Nat
    BY <1>1, RlConstants
  <2>2. CASE rlLimiter[l].exists /\ rlRpm[l] > 0
    <3>1. PICK w \in Nat : w = Window
      BY RlConstants
    <3>2. PICK old \in Nat : old = rlRpm[l] /\ old > 0
      BY <1>1, <2>2
    <3>3. held * rpm <= (old * w) * rpm /\ held * rpm \in Nat
      BY <1>1, <1>3, <3>1, <3>2, ProductsGrow, Products
    <3>4. (old * w) * rpm = old * (rpm * w)
      BY <1>1, <3>1, <3>2
    <3>5. PICK share \in Nat : share = rpm * w
      BY <1>1, <3>1
    <3>6. PICK part \in Nat : part = held * rpm
      BY <3>3
    <3>7. part <= old * share
      BY <3>3, <3>4, <3>5, <3>6
    <3>8. part \div old \in Nat /\ part \div old <= share
      BY <3>2, <3>7
    <3> QED
      BY <2>2, <3>1, <3>2, <3>5, <3>6, <3>8
  <2> QED
    BY <1>1, <2>1, <2>2
<1>5. rescaled(l, rpm) = [rlLimiter[l] EXCEPT !.tokens = left, !.since = 0]
  BY <1>3, <1>4 DEF rescaled
<1>6. PICK b \in Limiter : /\ b = rescaled(l, rpm) /\ b.tokens = left /\ b.since = 0
                           /\ b.cool = rlLimiter[l].cool /\ b.age = rlLimiter[l].age
                           /\ b.exists = rlLimiter[l].exists
  <2>1. 0 \in 0..Window
    BY RlConstants
  <2> QED
    BY <1>1, <1>5, <2>1 DEF Limiter
<1>7. PICK none \in [1..Window -> Nat] : none = [n \in 1..Window |-> 0]
  OBVIOUS
<1>8. RlTypeOK'
  <2>1. rlRpm' \in [Levels -> Rpms] /\ rlLimiter' \in [Levels -> Limiter]
    BY <1>1, <1>2, <1>6 DEF RlTypeOK
  <2>2. rlPassed' \in [Levels -> [1..Window -> Nat]]
    BY <1>1, <1>2, <1>7 DEF RlTypeOK
  <2> QED
    BY <1>1, <1>2, <2>1, <2>2 DEF RlTypeOK
<1>9. \A k \in Levels : k # l => /\ rlRpm'[k] = rlRpm[k] /\ rlLimiter'[k] = rlLimiter[k]
                                 /\ rlPassed'[k] = rlPassed[k]
  BY <1>1, <1>2 DEF RlTypeOK
<1>10. rlRpm'[l] = rpm /\ rlLimiter'[l] = b /\ \A n \in 1..Window : rlPassed'[l][n] = 0
  BY <1>1, <1>2, <1>6 DEF RlTypeOK
<1>11. LevelSound(l)'
  <2>1. rlLimiter'[l].tokens <= rlRpm'[l] * Window
    BY <1>4, <1>6, <1>10
  <2>2. UsedLately(l)'
    BY <1>10 DEF UsedLately
  <2>3. CoolsUsed(l)'
    BY <1>1, <1>6, <1>10 DEF LevelSound, CoolsUsed
  <2>4. Budget(l)'
    <3> SUFFICES ASSUME NEW n \in 1..Window
                 PROVE  Window * rlPassed'[l][n] + Refilled(l)'
                           <= Window * rlRpm'[l] + (n - 1) * rlRpm'[l]
      BY DEF Budget
    <3>1. Refilled(l)' = left
      <4>1. Refilled(l)' = IF left + 0 * rpm > rpm * Window THEN rpm * Window ELSE left + 0 * rpm
        BY <1>6, <1>10 DEF Refilled, refill
      <4>2. 0 * rpm = 0
        BY <1>1
      <4>3. rpm * Window \in Nat
        BY <1>1, RlConstants
      <4> QED
        BY <1>4, <4>1, <4>2, <4>3
    <3>2. Window * rlPassed'[l][n] = 0
      BY <1>10, RlConstants
    <3>3. (n - 1) * rpm \in Nat /\ Window * rpm = rpm * Window /\ Window * rpm \in Nat
      BY <1>1, RlConstants, Products
    <3> QED
      BY <1>4, <1>10, <3>1, <3>2, <3>3
  <2> QED
    BY <2>1, <2>2, <2>3, <2>4 DEF LevelSound
<1> QED
  BY <1>8, <1>9, <1>11, OneLevel

\* What is evicted was not used for longer than a minute and does not cool: nothing passed
\* lately, and the cooldown is over.
LEMMA EvictKeeps ==
    ASSUME RlInv, NEW l \in Levels, evictStaleLimiters(l)
    PROVE  RlInv' /\ rlLimiter[l].cool = 0
<1>1. /\ rlLimiter[l] \in Limiter /\ LevelSound(l) /\ RlTypeOK /\ rlRpm[l] \in Nat
  BY RlTypes DEF RlInv
<1>2. /\ rlLimiter' = [rlLimiter EXCEPT ![l] = Absent] /\ rlLimiter[l].age > EvictionTTL
      /\ rlRpm' = rlRpm /\ rlCaller' = rlCaller /\ rlPassed' = rlPassed
  BY DEF evictStaleLimiters
<1>3. Absent \in Limiter /\ ~Absent.exists /\ Absent.tokens = 0 /\ Absent.cool = 0
  BY <1>1, NewIs
<1>4. rlLimiter[l].cool = 0
  <2>1. rlLimiter[l].cool \in 0..EvictionTTL /\ rlLimiter[l].age \in Nat
    BY <1>1 DEF Limiter
  <2> QED
    BY <1>1, <1>2, <2>1, RlConstants DEF LevelSound, CoolsUsed
<1>5. rlPassed \in [Levels -> [1..Window -> Nat]] /\ rlLimiter[l].age \in Nat
  BY <1>1 DEF RlTypeOK, Limiter
<1>6. \A n \in 1..Window : rlPassed[l][n] = 0
  <2>1. \A n \in 1..Window : rlPassed[l][n] \in Nat /\ ~(n > rlLimiter[l].age)
    BY <1>2, <1>5, RlConstants
  <2> QED
    BY <1>1, <2>1 DEF LevelSound, UsedLately
<1>7. RlTypeOK'
  BY <1>1, <1>2, <1>3 DEF RlTypeOK
<1>8. rlLimiter'[l] = Absent
  BY <1>1, <1>2 DEF RlTypeOK
<1>9. LevelSound(l)'
  <2>1. rlRpm[l] * Window \in Nat
    BY <1>1, RlConstants
  <2>2. 0 <= rlRpm'[l] * Window
    BY <1>2, <2>1
  <2> QED
    BY <1>2, <1>3, <1>6, <1>8, <2>2 DEF LevelSound, Budget, UsedLately, CoolsUsed
<1>10. \A k \in Levels : k # l => /\ rlRpm'[k] = rlRpm[k] /\ rlLimiter'[k] = rlLimiter[k]
                                  /\ rlPassed'[k] = rlPassed[k]
  BY <1>1, <1>2 DEF RlTypeOK
<1> QED
  BY <1>4, <1>7, <1>9, <1>10, OneLevel

\* A tick adds one tick's worth to what a refill would leave, and moves every count one tick
\* further back.
LEMMA TickKeeps ==
    ASSUME RlInv, RateLimitTick
    PROVE  RlInv'
<1>1. /\ rlRpm' = rlRpm /\ rlCaller' = rlCaller
      /\ rlLimiter' = [l \in Levels |-> tick(rlLimiter[l])]
      /\ rlPassed' = [l \in Levels |-> [n \in 1..Window |-> IF n = 1 THEN 0 ELSE rlPassed[l][n - 1]]]
  BY DEF RateLimitTick
<1>2. ASSUME NEW l \in Levels
      PROVE  \E since \in 0..Window, cool \in 0..EvictionTTL, age \in Nat :
                /\ rlLimiter[l].exists =>
                      /\ since = IF rlLimiter[l].since < Window THEN rlLimiter[l].since + 1
                                 ELSE rlLimiter[l].since
                      /\ cool = IF rlLimiter[l].cool > 0 THEN rlLimiter[l].cool - 1 ELSE 0
                      /\ age = IF rlLimiter[l].age <= EvictionTTL THEN rlLimiter[l].age + 1
                               ELSE rlLimiter[l].age
                /\ ~rlLimiter[l].exists =>
                      /\ since = rlLimiter[l].since /\ cool = rlLimiter[l].cool
                      /\ age = rlLimiter[l].age
                /\ tick(rlLimiter[l])
                      = [rlLimiter[l] EXCEPT !.since = since, !.cool = cool, !.age = age]
                /\ rlLimiter[l] \in Limiter
  <2>1. PICK b \in Limiter : b = rlLimiter[l]
    BY RlTypes
  <2>2. b.since \in 0..Window /\ b.cool \in 0..EvictionTTL /\ b.age \in Nat
    BY <2>1 DEF Limiter
  <2>3. /\ (IF b.exists /\ b.since < Window THEN b.since + 1 ELSE b.since) \in 0..Window
        /\ (IF b.exists THEN IF b.cool > 0 THEN b.cool - 1 ELSE 0 ELSE b.cool) \in 0..EvictionTTL
        /\ (IF b.exists /\ b.age <= EvictionTTL THEN b.age + 1 ELSE b.age) \in Nat
    BY <2>2, RlConstants
  <2>4. PICK since \in 0..Window :
            since = IF b.exists /\ b.since < Window THEN b.since + 1 ELSE b.since
    BY <2>3
  <2>5. PICK cool \in 0..EvictionTTL :
            cool = IF b.exists THEN IF b.cool > 0 THEN b.cool - 1 ELSE 0 ELSE b.cool
    BY <2>3
  <2>6. PICK age \in Nat :
            age = IF b.exists /\ b.age <= EvictionTTL THEN b.age + 1 ELSE b.age
    BY <2>3
  <2>7. tick(b) = [b EXCEPT !.since = since, !.cool = cool, !.age = age]
    <3>1. CASE b.exists
      BY <2>4, <2>5, <2>6, <3>1 DEF tick
    <3>2. CASE ~b.exists
      <4>1. tick(b) = b /\ since = b.since /\ cool = b.cool /\ age = b.age
        BY <2>4, <2>5, <2>6, <3>2 DEF tick
      <4>2. [b EXCEPT !.since = since, !.cool = cool, !.age = age] = b
        BY <2>1, <4>1 DEF Limiter
      <4> QED
        BY <4>1, <4>2
    <3> QED
      BY <3>1, <3>2
  <2> WITNESS since \in 0..Window, cool \in 0..EvictionTTL, age \in Nat
  <2> QED
    BY <2>1, <2>4, <2>5, <2>6, <2>7
<1>3. ASSUME NEW l \in Levels
      PROVE  tick(rlLimiter[l]) \in Limiter /\ LevelSound(l)'
  <2>1. PICK since \in 0..Window, cool \in 0..EvictionTTL, age \in Nat :
            /\ rlLimiter[l].exists =>
                  /\ since = IF rlLimiter[l].since < Window THEN rlLimiter[l].since + 1
                             ELSE rlLimiter[l].since
                  /\ cool = IF rlLimiter[l].cool > 0 THEN rlLimiter[l].cool - 1 ELSE 0
                  /\ age = IF rlLimiter[l].age <= EvictionTTL THEN rlLimiter[l].age + 1
                           ELSE rlLimiter[l].age
            /\ ~rlLimiter[l].exists =>
                  /\ since = rlLimiter[l].since /\ cool = rlLimiter[l].cool
                  /\ age = rlLimiter[l].age
            /\ tick(rlLimiter[l])
                  = [rlLimiter[l] EXCEPT !.since = since, !.cool = cool, !.age = age]
            /\ rlLimiter[l] \in Limiter
    BY <1>2
  <2>2. PICK b \in Limiter : b = rlLimiter[l]
    BY <2>1
  <2>3. PICK a \in Limiter : /\ a = tick(rlLimiter[l]) /\ a.tokens = b.tokens /\ a.exists = b.exists
                             /\ a.since = since /\ a.cool = cool /\ a.age = age
    BY <2>1, <2>2 DEF Limiter
  <2>4. rlLimiter'[l] = a
    BY <1>1, <2>3
  <2>5. \A n \in 1..Window : rlPassed'[l][n] = IF n = 1 THEN 0 ELSE rlPassed[l][n - 1]
    BY <1>1
  <2>6. /\ rlRpm[l] \in Nat /\ b.tokens \in Nat /\ b.since \in 0..Window
        /\ b.tokens <= rlRpm[l] * Window /\ LevelSound(l) /\ b.age \in Nat
        /\ b.cool \in 0..EvictionTTL
    BY <2>2, RlTypes DEF RlInv, Limiter
  <2>7. UsedLately(l)'
    <3> SUFFICES ASSUME NEW n \in 1..Window, rlPassed'[l][n] > 0
                 PROVE  a.exists /\ n > a.age
      BY <2>4 DEF UsedLately
    <3>1. n # 1 /\ n - 1 \in 1..Window /\ rlPassed'[l][n] = rlPassed[l][n - 1]
      BY <2>5, RlConstants
    <3>2. b.exists /\ n - 1 > b.age
      BY <2>2, <2>6, <3>1 DEF LevelSound, UsedLately
    <3> QED
      BY <2>1, <2>2, <2>3, <2>6, <3>2, RlConstants
  <2>8. CoolsUsed(l)'
    <3> SUFFICES ASSUME a.cool > 0
                 PROVE  a.cool + a.age <= EvictionTTL
      BY <2>4 DEF CoolsUsed
    <3>1. b.cool > 0
      BY <2>1, <2>2, <2>3, <2>6
    <3>2. b.cool + b.age <= EvictionTTL
      BY <2>2, <2>6, <3>1 DEF LevelSound, CoolsUsed
    <3>3. CASE b.exists
      <4>1. a.cool = b.cool - 1 /\ a.age <= b.age + 1
        BY <2>1, <2>2, <2>3, <2>6, <3>1, <3>3
      <4>2. a.age \in Nat
        BY <2>3
      <4> QED
        BY <2>6, <3>2, <4>1, <4>2, RlConstants
    <3>4. CASE ~b.exists
      <4>1. a.cool = b.cool /\ a.age = b.age
        BY <2>1, <2>2, <2>3, <3>4
      <4> QED
        BY <3>2, <4>1
    <3> QED
      BY <3>3, <3>4
  <2>9. Budget(l)'
    <3> SUFFICES ASSUME b.exists, rlRpm[l] > 0, NEW n \in 1..Window
                 PROVE  Window * rlPassed'[l][n] + Refilled(l)'
                           <= Window * rlRpm[l] + (n - 1) * rlRpm[l]
      BY <1>1, <2>3, <2>4 DEF Budget
    <3>1. PICK r \in Nat : r = rlRpm[l]
      BY <2>6
    <3>2. PICK flow \in Nat : flow = b.since * r
      BY <2>6, <3>1, Products
    <3>3. PICK more \in Nat : more = since * r
      BY <3>1, Products
    <3>4. more <= flow + r
      <4>1. since = b.since \/ since = b.since + 1
        BY <2>1, <2>2
      <4>2. (b.since + 1) * r = b.since * r + r
        BY <2>6, <3>1, Products
      <4> QED
        BY <3>1, <3>2, <3>3, <4>1, <4>2
    <3>5. PICK full \in Nat : full = r * Window
      BY <3>1, RlConstants
    <3>6. Refilled(l) = IF b.tokens + flow > full THEN full ELSE b.tokens + flow
      BY <2>2, <3>1, <3>2, <3>5 DEF Refilled, refill, Limiter
    <3>7. Refilled(l)' = IF b.tokens + more > full THEN full ELSE b.tokens + more
      <4>1. Refilled(l)' = IF a.tokens + a.since * rlRpm'[l] > rlRpm'[l] * Window
                           THEN rlRpm'[l] * Window ELSE a.tokens + a.since * rlRpm'[l]
        BY <2>4 DEF Refilled, refill, Limiter
      <4> QED
        BY <1>1, <2>3, <3>1, <3>3, <3>5, <4>1
    <3>8. PICK before \in Nat, after \in Nat : /\ before = Refilled(l) /\ after = Refilled(l)'
                                               /\ after <= before + r /\ after <= full
      BY <2>6, <3>4, <3>6, <3>7
    <3>9. Window * rlRpm[l] = full
      BY <3>1, <3>5, RlConstants, Products
    <3>10. CASE n = 1
      <4>1. rlPassed'[l][n] = 0
        BY <2>5, <3>10
      <4>2. Window * rlPassed'[l][n] = 0
        BY <4>1, RlConstants
      <4>3. (n - 1) * rlRpm[l] = 0
        BY <2>6, <3>10
      <4> QED
        BY <3>5, <3>8, <3>9, <4>2, <4>3
    <3>11. CASE n # 1
      <4>1. n - 1 \in 1..Window /\ rlPassed'[l][n] = rlPassed[l][n - 1]
        BY <2>5, <3>11, RlConstants
      <4>2. Window * rlPassed[l][n - 1] + Refilled(l) <= Window * rlRpm[l] + ((n - 1) - 1) * rlRpm[l]
        BY <2>2, <2>6, <4>1 DEF LevelSound, Budget
      <4>3. PICK k \in Nat : k = (n - 1) - 1
        BY <4>1
      <4>4. n - 1 = k + 1
        BY <4>3
      <4>5. (n - 1) * rlRpm[l] = k * r + r /\ ((n - 1) - 1) * rlRpm[l] = k * r /\ k * r \in Nat
        BY <3>1, <4>3, <4>4, Products
      <4>6. Window * rlPassed'[l][n] \in Nat
        <5>1. rlPassed[l][n - 1] \in Nat
          BY <4>1, RlTypes
        <5> QED
          BY <4>1, <5>1, RlConstants, Products
      <4>7. PICK out \in Nat, in \in Nat : out = Window * rlPassed'[l][n] /\ in = k * r
        BY <4>5, <4>6
      <4>8. out + before <= full + in
        BY <3>8, <3>9, <4>1, <4>2, <4>5, <4>7
      <4> QED
        BY <3>1, <3>5, <3>8, <3>9, <4>5, <4>7, <4>8
    <3> QED
      BY <3>10, <3>11
  <2>10. rlLimiter'[l].tokens <= rlRpm'[l] * Window
    BY <1>1, <2>3, <2>4, <2>6
  <2> QED
    BY <2>3, <2>7, <2>8, <2>9, <2>10 DEF LevelSound
<1>4. RlTypeOK'
  <2>1. rlLimiter' \in [Levels -> Limiter]
    BY <1>1, <1>3
  <2>2. rlPassed' \in [Levels -> [1..Window -> Nat]]
    <3>1. ASSUME NEW l \in Levels, NEW n \in 1..Window
          PROVE  (IF n = 1 THEN 0 ELSE rlPassed[l][n - 1]) \in Nat
      <4>1. n # 1 => n - 1 \in 1..Window
        BY RlConstants
      <4> QED
        BY <4>1, RlTypes
    <3> QED
      BY <1>1, <3>1
  <2> QED
    BY <1>1, <2>1, <2>2 DEF RlInv, RlTypeOK
<1> QED
  BY <1>3, <1>4 DEF RlInv

\* At the start the global limiter alone exists, and is full.
LEMMA RlStarts ==
    ASSUME RateLimitInit
    PROVE  RlInv
<1>1. PICK top : top \in Rpms /\ top = CHOOSE r \in Rpms : \A s \in Rpms : s <= r
  BY RateLimitAssumption
<1>2. top \in Nat /\ top * Window \in Nat
  BY <1>1, RlConstants, Products
<1>3. /\ rlRpm = [l \in Levels |-> top]
      /\ rlLimiter = [l \in Levels |-> IF l = Global THEN newLevelLimiter(rlRpm[l]) ELSE Absent]
      /\ rlCaller = [c \in Callers |-> 0]
      /\ rlPassed = [l \in Levels |-> [n \in 1..Window |-> 0]]
  BY <1>1 DEF RateLimitInit
<1>4. /\ newLevelLimiter(top) \in Limiter /\ newLevelLimiter(top).exists
      /\ newLevelLimiter(top).tokens = top * Window
      /\ Absent \in Limiter /\ ~Absent.exists /\ Absent.tokens = 0 /\ Absent.cool = 0
  BY <1>2, NewIs
<1>5. RlTypeOK
  <2>1. rlLimiter \in [Levels -> Limiter]
    BY <1>3, <1>4
  <2>2. rlPassed \in [Levels -> [1..Window -> Nat]]
    BY <1>3
  <2>3. rlRpm \in [Levels -> Rpms]
    BY <1>1, <1>3
  <2>4. rlCaller \in [Callers -> 0..Len(Chain)]
    <3>1. 0 \in 0..Len(Chain)
      BY RlConstants
    <3> QED
      BY <1>3, <3>1
  <2> QED
    BY <2>1, <2>2, <2>3, <2>4 DEF RlTypeOK
<1>6. ASSUME NEW l \in Levels PROVE LevelSound(l)
  <2>1. rlRpm[l] = top /\ \A n \in 1..Window : rlPassed[l][n] = 0
    BY <1>3
  <2>2. UsedLately(l)
    BY <2>1 DEF UsedLately
  <2>3. CASE l = Global
    <3>1. rlLimiter[l] = newLevelLimiter(top)
      BY <1>3, <2>1, <2>3
    <3>2. rlLimiter[l].tokens <= rlRpm[l] * Window
      BY <1>2, <1>4, <2>1, <3>1
    <3>3. Budget(l)
      <4> SUFFICES ASSUME NEW n \in 1..Window
                   PROVE  Window * rlPassed[l][n] + Refilled(l)
                             <= Window * rlRpm[l] + (n - 1) * rlRpm[l]
        BY DEF Budget
      <4>1. PICK r \in Nat : r = Refilled(l) /\ r <= top * Window
        <5>1. rlRpm[l] \in Nat /\ rlLimiter[l] \in Limiter
          BY <1>2, <1>4, <2>1, <3>1
        <5>2. refill(l, rlLimiter[l]).tokens \in Nat /\ refill(l, rlLimiter[l]).tokens <= rlRpm[l] * Window
          BY ONLY <3>2, <5>1, RefillIs
        <5> QED
          BY <2>1, <5>2 DEF Refilled
      <4>2. Window * rlPassed[l][n] = 0
        BY <2>1, RlConstants
      <4>3. (n - 1) * top \in Nat /\ Window * top = top * Window
        BY <1>2, RlConstants, Products
      <4> QED
        BY <1>2, <2>1, <4>1, <4>2, <4>3
    <3>4. CoolsUsed(l)
      BY <3>1 DEF CoolsUsed, newLevelLimiter
    <3> QED
      BY <2>2, <3>2, <3>3, <3>4 DEF LevelSound
  <2>4. CASE l # Global
    <3>1. rlLimiter[l] = Absent
      BY <1>3, <2>4
    <3> QED
      BY <1>2, <1>4, <2>1, <2>2, <3>1 DEF LevelSound, Budget, CoolsUsed
  <2> QED
    BY <2>3, <2>4
<1> QED
  BY <1>5, <1>6 DEF RlInv

\* No step sets RlInv aside, and none forgets a cooldown.
LEMMA RlStep ==
    ASSUME RlInv, [RateLimitNext]_rlVars
    PROVE  /\ RlInv'
           /\ \A l \in Levels : rlLimiter[l].exists /\ ~rlLimiter'[l].exists => rlLimiter[l].cool = 0
<1>1. ASSUME NEW c \in Callers, NEW i \in 1..Len(Chain), checkLevel(c, i)
      PROVE  /\ RlInv'
             /\ \A l \in Levels : rlLimiter[l].exists => rlLimiter'[l].exists
  <2>1. RlInv'
    BY <1>1, CheckKeeps
  <2>2. ASSUME NEW l \in Levels, rlLimiter[l].exists PROVE rlLimiter'[l].exists
    <3>1. PICK b \in Limiter : b = rlLimiter[l] /\ b.tokens <= rlRpm[l] * Window
      BY RlTypes
    <3>2. allow(l, b).exists
      <4>1. rlRpm[l] \in Nat
        BY RlTypes
      <4> QED
        BY <2>2, <3>1, <4>1, AllowIs
    <3>3. rlLimiter \in [Levels -> Limiter] /\ Chain[i] \in Levels
      BY RlConstants DEF RlInv, RlTypeOK
    <3>4. rlLimiter' = [rlLimiter EXCEPT ![Chain[i]] =
                            IF rlRpm[Chain[i]] = 0 /\ Chain[i] # Global THEN rlLimiter[Chain[i]]
                            ELSE allow(Chain[i], IF rlLimiter[Chain[i]].exists THEN rlLimiter[Chain[i]]
                                                 ELSE newLevelLimiter(rlRpm[Chain[i]]))]
      BY <1>1 DEF checkLevel
    <3>5. CASE Chain[i] = l
      BY <2>2, <3>1, <3>2, <3>3, <3>4, <3>5
    <3>6. CASE Chain[i] # l
      BY <2>2, <3>3, <3>4, <3>6
    <3> QED
      BY <3>5, <3>6
  <2> QED
    BY <2>1, <2>2
<1>2. ASSUME NEW c \in Callers, Arrive(c) \/ Continue(c)
      PROVE  \E i \in 1..Len(Chain) : checkLevel(c, i)
  <2>1. rlCaller[c] \in 0..Len(Chain) /\ 1 \in 1..Len(Chain)
    BY RateLimitAssumption, RlConstants DEF RlInv, RlTypeOK
  <2> QED
    BY <1>2, <2>1, RlConstants DEF Arrive, Continue
<1>3. ASSUME NEW l \in Levels, evictStaleLimiters(l)
      PROVE  /\ RlInv'
             /\ \A k \in Levels : rlLimiter[k].exists /\ ~rlLimiter'[k].exists => rlLimiter[k].cool = 0
  <2>1. RlInv' /\ rlLimiter[l].cool = 0
    BY <1>3, EvictKeeps
  <2>2. \A k \in Levels : k # l => rlLimiter'[k] = rlLimiter[k]
    BY <1>3 DEF evictStaleLimiters, RlInv, RlTypeOK
  <2> QED
    BY <2>1, <2>2
<1>4. ASSUME NEW l \in Levels, NEW rpm \in Rpms, updateRPM(l, rpm)
      PROVE  RlInv' /\ \A k \in Levels : rlLimiter[k].exists => rlLimiter'[k].exists
  <2>1. RlInv'
    BY <1>4, UpdateKeeps
  <2>2. rlLimiter \in [Levels -> Limiter]
    BY DEF RlInv, RlTypeOK
  <2>3. PICK b \in Limiter : b = rlLimiter[l]
    BY <2>2
  <2>4. rescaled(l, rpm).exists = b.exists
    BY <2>3 DEF rescaled, Limiter
  <2>5. rlLimiter' = [rlLimiter EXCEPT ![l] = rescaled(l, rpm)]
    BY <1>4 DEF updateRPM
  <2> QED
    BY <2>1, <2>2, <2>3, <2>4, <2>5
<1>5. ASSUME RateLimitTick
      PROVE  RlInv' /\ \A k \in Levels : rlLimiter[k].exists => rlLimiter'[k].exists
  <2>1. RlInv'
    BY <1>5, TickKeeps
  <2>2. ASSUME NEW k \in Levels, rlLimiter[k].exists PROVE rlLimiter'[k].exists
    <3>1. rlLimiter'[k] = tick(rlLimiter[k]) /\ rlLimiter[k] \in Limiter
      BY <1>5 DEF RateLimitTick, RlInv, RlTypeOK
    <3> QED
      BY <2>2, <3>1 DEF tick, Limiter
  <2> QED
    BY <2>1, <2>2
<1>6. ASSUME UNCHANGED rlVars
      PROVE  RlInv' /\ \A k \in Levels : rlLimiter'[k] = rlLimiter[k]
  <2>1. rlRpm' = rlRpm /\ rlLimiter' = rlLimiter /\ rlCaller' = rlCaller /\ rlPassed' = rlPassed
    BY <1>6 DEF rlVars
  <2>2. \A k \in Levels : Refilled(k)' = Refilled(k)
    BY <2>1 DEF Refilled, refill
  <2> QED
    BY <2>1, <2>2 DEF RlInv, RlTypeOK, LevelSound, Budget, UsedLately, CoolsUsed
<1> QED
  BY <1>1, <1>2, <1>3, <1>4, <1>5, <1>6 DEF RateLimitNext

\* Within its budget, a limiter lets through at most two minutes' worth in a minute.
LEMMA RlImplies ==
    ASSUME RlInv
    PROVE  RateLimitTypeOK /\ RateBounded
<1>1. RateLimitTypeOK
  <2>1. ASSUME NEW l \in Levels
        PROVE  /\ rlLimiter[l].tokens \in 0..(rlRpm[l] * Window)
               /\ rlLimiter[l].since \in 0..Window
               /\ rlLimiter[l].level \in 0..Len(Durations)
               /\ rlLimiter[l].cool \in 0..EvictionTTL
    <3>1. /\ rlLimiter[l] \in Limiter /\ rlLimiter[l].tokens <= rlRpm[l] * Window
          /\ rlLimiter[l].tokens \in Nat /\ rlRpm[l] \in Nat
      BY RlTypes
    <3>2. rlRpm[l] * Window \in Nat
      BY <3>1, RlConstants, Products
    <3>3. rlLimiter[l].tokens \in 0..(rlRpm[l] * Window)
      BY <3>1, <3>2
    <3> QED
      BY <3>1, <3>3 DEF Limiter
  <2> QED
    BY <2>1 DEF RlInv, RlTypeOK, RateLimitTypeOK
<1>2. ASSUME NEW l \in Levels, rlRpm[l] > 0
      PROVE  rlPassed[l][Window] <= 2 * rlRpm[l]
  <2>1. Window \in 1..Window /\ Window \in Nat /\ Window > 0
    BY RlConstants
  <2>2. PICK r \in Nat, p \in Nat : r = rlRpm[l] /\ p = rlPassed[l][Window]
    BY <2>1, RlTypes
  <2>3. CASE rlLimiter[l].exists
    <3>1. Window * p + Refilled(l) <= Window * r + (Window - 1) * r
      BY <1>2, <2>1, <2>2, <2>3 DEF RlInv, LevelSound, Budget
    <3>2. Refilled(l) \in Nat
      BY RlTypes, RefillIs DEF Refilled
    <3>3. PICK left \in Nat, out \in Nat, in \in Nat :
              left = Refilled(l) /\ out = Window * p /\ in = Window * r
      BY <2>1, <2>2, <3>2, Products
    <3>4. PICK w \in Nat : w = Window - 1
      BY <2>1
    <3>5. (Window - 1) * r = in - r /\ 2 * r = r + r
      <4>1. (w + 1) * r = w * r + r /\ w * r \in Nat
        BY <2>2, <3>4, Products
      <4>2. w + 1 = Window
        BY <2>1, <3>4
      <4> QED
        BY <2>2, <3>3, <3>4, <4>1, <4>2
    <3>6. out + left <= in + (in - r)
      BY <3>1, <3>3, <3>5
    <3>7. ASSUME p > 2 * r PROVE FALSE
      <4>1. Window * (2 * r) <= Window * p
        <5>1. 2 * r <= p /\ 2 * r \in Nat
          BY <2>2, <3>7
        <5> QED
          BY <2>1, <2>2, <5>1, ProductsGrow
      <4>2. Window * (2 * r) = in + in
        BY <2>1, <2>2, <3>3
      <4>3. in + in <= out
        BY <3>3, <4>1, <4>2
      <4>4. r > 0
        BY <1>2, <2>2
      <4> QED
        BY <2>2, <3>3, <3>6, <4>3, <4>4
    <3> QED
      BY <2>2, <3>7
  <2>4. CASE ~rlLimiter[l].exists
    <3>1. ~(p > 0)
      BY <2>1, <2>2, <2>4 DEF RlInv, LevelSound, UsedLately
    <3> QED
      BY <2>2, <3>1
  <2> QED
    BY <2>3, <2>4
<1> QED
  BY <1>1, <1>2 DEF RateBounded

\* No order of bursts, pauses, changes of the limit and evictions gets more through a limiter
\* than a full bucket and a minute's flow, and no eviction forgets a cooldown
\* (tokenBucket.allow, RateLimiter.evictStaleLimiters).
THEOREM LimiterSoundHolds == RateLimitSpec => LimiterSound
<1>1. RateLimitInit => RlInv
  BY RlStarts
<1>2. RlInv /\ [RateLimitNext]_rlVars => RlInv'
  BY RlStep
<1>3. RlInv => RateLimitTypeOK /\ RateBounded
  BY RlImplies
<1>4. RlInv /\ [RateLimitNext]_rlVars
         => [\A l \in Levels : rlLimiter[l].exists /\ ~rlLimiter'[l].exists => rlLimiter[l].cool = 0]_rlVars
  BY RlStep
<1> QED
  BY <1>1, <1>2, <1>3, <1>4, PTL DEF RateLimitSpec, LimiterSound, EvictionKeepsCooldown

=============================================================================
