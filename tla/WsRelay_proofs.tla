---------------------------- MODULE WsRelay_proofs ----------------------------
(***************************************************************************)
(* Theorems about WsRelay: requests are registered with the connection they *)
(* use, and a connection carries one request at a time, for any number of   *)
(* requests, retries and faults.                                            *)
(***************************************************************************)
EXTENDS WsRelay, FiniteSetTheorems, WellFoundedInduction, TLAPS

-----------------------------------------------------------------------------
(* The inductive invariant. *)

\* A request keeps the number of its connection from the probe or the dial to the end of
\* the attempt.  A connection exists when its dial has succeeded; only a failed send that
\* may be repeated backs off.
InHand ==
    \A r \in Requests :
        /\ req[r].pc \in {"probe", "send", "backoff", "read", "close"} =>
              req[r].conn \in Ids /\ ws[req[r].conn].conn # "none"
        /\ req[r].pc = "dial" =>
              /\ req[r].conn \in Ids
              /\ ws[req[r].conn].conn = "none" /\ ws[req[r].conn].sess # "none"
        /\ req[r].pc = "backoff" => req[r].tries < MaxRetries

\* No two requests dial the same connection.
OneDialer ==
    \A r, s \in Requests :
        req[r].pc = "dial" /\ req[s].pc = "dial" /\ req[r].conn = req[s].conn => r = s

\* One request at a time holds a lock, and as long as the lock has not been dropped under
\* a request, all that rely on it have the one of the table.
Locked ==
    /\ \A r, s \in Requests :
          Holding(r) /\ Holding(s) /\ req[r].lock = req[s].lock => r = s
    /\ ~relocked => \A r \in Requests : Relies(r) => table # 0 /\ req[r].lock = table

\* The connection that is probed is still idle.
ProbedIdle ==
    ~relocked => \A r \in Requests : req[r].pc = "probe" => ws[req[r].conn].pending = {}

\* The attempts that have got as far as dialling, or further.
Past == {"dial", "send", "backoff", "read", "close", "done"}

Spent == {a \in Requests \X (0 .. MaxRetries) :
             \/ a[2] < req[a[1]].tries
             \/ a[2] = req[a[1]].tries /\ req[a[1]].pc \in Past}

Dialled == {c \in Ids : ws[c] # Unused}

\* Every attempt dials once at most.
DialsCounted == Cardinality(Dialled) <= Cardinality(Spent)

WsInv ==
    /\ TypeOK
    /\ Registered
    /\ OneAtATime
    /\ InHand
    /\ OneDialer
    /\ Locked
    /\ ProbedIdle
    /\ DialsCounted

-----------------------------------------------------------------------------
(* Counting. *)

\* How many connections and locks there may ever be.
LEMMA Bounds ==
    /\ Cardinality(Requests) \in Nat /\ MaxRetries \in Nat
    /\ Ids \subseteq Nat \ {0} /\ IsFiniteSet(Ids)
    /\ Cardinality(Ids) = Cardinality(Requests) * (MaxRetries + 1)
    /\ LockIds \subseteq Nat \ {0} /\ IsFiniteSet(LockIds)
    /\ Cardinality(LockIds) = Cardinality(Requests) + 1
<1>1. Cardinality(Requests) \in Nat /\ MaxRetries \in Nat
  BY RequestsFinite, RetriesAssumption, FS_CardinalityType
<1>2. Cardinality(Requests) * (MaxRetries + 1) \in Nat
  BY <1>1
<1>3. \A n \in Nat : 1 .. n \subseteq Nat \ {0} /\ IsFiniteSet(1 .. n) /\ Cardinality(1 .. n) = n
  BY FS_Interval
<1> QED
  BY <1>1, <1>2, <1>3 DEF Ids, LockIds

\* There are as many attempts as there are ids for connections.
LEMMA Attempts ==
    /\ IsFiniteSet(Requests \X (0 .. MaxRetries))
    /\ Cardinality(Requests \X (0 .. MaxRetries)) = Cardinality(Ids)
<1> DEFINE T == 0 .. MaxRetries
<1>1. MaxRetries \in Int /\ 0 \in Int /\ ~(0 > MaxRetries)
  BY Bounds
<1>2. IsFiniteSet(T) /\ Cardinality(T) = MaxRetries - 0 + 1
  BY <1>1, FS_Interval
<1>3. Cardinality(T) = MaxRetries + 1
  BY <1>1, <1>2
<1> HIDE DEF T
<1>4. /\ IsFiniteSet(Requests \X T)
      /\ Cardinality(Requests \X T) = Cardinality(Requests) * Cardinality(T)
  BY <1>2, RequestsFinite, FS_Product
<1>5. Cardinality(Requests \X T) = Cardinality(Ids)
  BY <1>3, <1>4, Bounds
<1> QED
  BY <1>4, <1>5 DEF T

\* There is a lock that no request relies on: one more than there are requests.
LEMMA FreeLock == \E l \in LockIds : \A s \in Requests : ~Relies(s) \/ req[s].lock # l
<1> SUFFICES ASSUME \A l \in LockIds : \E s \in Requests : req[s].lock = l
             PROVE  FALSE
  OBVIOUS
<1> DEFINE f == [l \in LockIds |-> CHOOSE s \in Requests : req[s].lock = l]
<1>1. \A l \in LockIds : f[l] \in Requests /\ req[f[l]].lock = l
  OBVIOUS
<1>2. f \in [LockIds -> Requests]
  BY <1>1
<1> HIDE DEF f
<1>3. Cardinality(Requests) < Cardinality(LockIds) /\ IsFiniteSet(LockIds)
  BY Bounds
<1>4. \E x, y \in LockIds : x # y /\ f[x] = f[y]
  BY <1>2, <1>3, RequestsFinite, FS_PigeonHole
<1> QED
  BY <1>1, <1>4

\* There is a least number that was not dialled yet, for a request whose attempt has not
\* dialled.
LEMMA FreeId ==
    ASSUME WsInv, NEW r \in Requests, req[r].pc = "create"
    PROVE  \E n \in Ids : ws[n] = Unused /\ \A k \in 1 .. n - 1 : ws[k] # Unused
<1> DEFINE a == <<r, req[r].tries>>
           All == Requests \X (0 .. MaxRetries)
           Free == {n \in Ids : ws[n] = Unused}
<1>1. a \in All /\ a \notin Spent /\ Spent \subseteq All
  BY Bounds DEF WsInv, TypeOK, ReqRec, Spent, Past
<1>2. IsFiniteSet(Spent) /\ Cardinality(Spent) < Cardinality(Ids)
  <2>1. IsFiniteSet(Spent) /\ Cardinality(Spent) <= Cardinality(All)
        /\ (Cardinality(All) = Cardinality(Spent) => All = Spent)
    BY <1>1, Attempts, FS_Subset
  <2>2. Cardinality(Spent) \in Nat /\ Cardinality(All) \in Nat
    BY <2>1, Attempts, FS_CardinalityType
  <2> QED
    BY <1>1, <2>1, <2>2, Attempts
<1>3. Free # {}
  <2> SUFFICES ASSUME Free = {} PROVE FALSE
    OBVIOUS
  <2>1. Dialled = Ids
    BY DEF Dialled
  <2>2. Cardinality(Ids) \in Nat /\ Cardinality(Spent) \in Nat
    BY <1>2, Bounds, FS_CardinalityType
  <2> QED
    BY <1>2, <2>1, <2>2 DEF WsInv, DialsCounted
<1>4. \E n \in Free : \A k \in Free : ~(k < n)
  <2>1. Free \subseteq Nat
    BY Bounds
  <2>2. \E n \in Free : \A k \in Free : ~(<<k, n>> \in OpToRel(<, Nat))
    BY <1>3, <2>1, NatLessThanWellFounded, WFMin
  <2> QED
    BY <2>1, <2>2 DEF OpToRel
<1>5. PICK n \in Free : \A k \in Free : ~(k < n)
  BY <1>4
<1>6. \A k \in 1 .. n - 1 : k \in Ids /\ k < n
  BY Bounds DEF Ids
<1> QED
  BY <1>5, <1>6

\* A step that dials nothing new keeps the count.
Advances(r) ==
    \/ /\ req'[r].tries = req[r].tries
       /\ req[r].pc \in Past => req'[r].pc \in Past
    \/ req'[r].tries = req[r].tries + 1

\* A step that dials at most one connection for an attempt keeps the count.
LEMMA CountKept ==
    ASSUME WsInv, TypeOK',
           \A c \in Ids : ws[c] = Unused => ws'[c] = Unused,
           \A r \in Requests : Advances(r)
    PROVE  DialsCounted'
<1> DEFINE All == Requests \X (0 .. MaxRetries)
<1>1. Dialled' \subseteq Dialled /\ Dialled \subseteq Ids
  BY DEF Dialled
<1>2. Spent \subseteq Spent' /\ Spent' \subseteq All
  <2>1. \A r \in Requests : req[r].tries \in Nat /\ req'[r].tries \in Nat
    BY Bounds DEF WsInv, TypeOK, ReqRec
  <2> QED
    BY <2>1, Bounds DEF Spent, Advances
<1>3. IsFiniteSet(Dialled) /\ IsFiniteSet(Dialled') /\ Cardinality(Dialled') <= Cardinality(Dialled)
  BY <1>1, Bounds, FS_Subset
<1>4. IsFiniteSet(Spent) /\ IsFiniteSet(Spent') /\ Cardinality(Spent) <= Cardinality(Spent')
  BY <1>2, Attempts, FS_Subset
<1>5. /\ Cardinality(Dialled) \in Nat /\ Cardinality(Dialled') \in Nat
      /\ Cardinality(Spent) \in Nat /\ Cardinality(Spent') \in Nat
  BY <1>3, <1>4, FS_CardinalityType
<1> QED
  BY <1>3, <1>4, <1>5 DEF WsInv, DialsCounted

-----------------------------------------------------------------------------
(* What most steps do to connections: they are touched, closed or broken, and *)
(* the requests X leave them.                                                 *)

FadesTo(w, v, X) ==
    /\ v \in WsRec
    /\ v.conn = "none" <=> w.conn = "none"
    /\ v.sess = "none" <=> w.sess = "none"
    /\ v.sess = "up" => w.sess = "up"
    /\ w.sess = "closed" => v.sess = "closed"
    /\ v.pending \subseteq w.pending
    /\ v.sess = "closed" \/ w.pending \ X \subseteq v.pending
    /\ w = Unused => v = Unused

\* A connection that stays what it is fades to itself.
LEMMA FadesItself ==
    ASSUME NEW w \in WsRec, NEW X
    PROVE  FadesTo(w, w, X)
BY DEF FadesTo

\* What fades twice fades.
LEMMA FadesOn ==
    ASSUME NEW w, NEW v, NEW u, NEW X, FadesTo(w, v, X), FadesTo(v, u, X)
    PROVE  FadesTo(w, u, X)
BY DEF FadesTo

\* Close leaves the session alone, CloseSession the connection.
LEMMA CloseFades ==
    ASSUME NEW w \in WsRec, NEW X
    PROVE  FadesTo(w, Close(w), X) /\ Close(w).pending = w.pending
<1>1. CASE w.conn = "up"
  <2>1. w # Unused /\ Close(w) = [w EXCEPT !.conn = "closing", !.wire = FALSE, !.idle = FALSE]
    BY <1>1 DEF Close, Unused
  <2>2. [w EXCEPT !.conn = "closing", !.wire = FALSE, !.idle = FALSE] \in WsRec
    BY DEF WsRec
  <2> QED
    BY <1>1, <2>1, <2>2 DEF FadesTo, WsRec
<1>2. CASE w.conn # "up"
  BY <1>2, FadesItself DEF Close
<1> QED
  BY <1>1, <1>2

\* Closing a session only takes away.
LEMMA CloseSessionFades ==
    ASSUME NEW w \in WsRec, NEW X, w.sess # "none"
    PROVE  FadesTo(w, CloseSession(w), X)
<1>1. CloseSession(w) \in WsRec
  BY DEF CloseSession, WsRec
<1>2. w # Unused
  BY DEF Unused
<1> QED
  BY <1>1, <1>2 DEF FadesTo, WsRec, CloseSession

\* Touching a connection takes no pending request away.
LEMMA TouchFades ==
    ASSUME NEW w \in WsRec, NEW X
    PROVE  FadesTo(w, Touch(w), X) /\ Touch(w).pending = w.pending
<1>1. Touch(w) \in WsRec
  BY DEF Touch, WsRec
<1>2. w = Unused => Touch(w) = Unused
  <2>1. ~w.idle => Touch(w) = w
    BY DEF Touch, WsRec
  <2> QED
    BY <2>1 DEF Unused
<1> QED
  BY <1>1, <1>2 DEF FadesTo, WsRec, Touch

\* The request that is removed is one of those that leave.
LEMMA RemovePendingFades ==
    ASSUME NEW w \in WsRec, NEW r \in Requests
    PROVE  FadesTo(w, RemovePendingRequest(w, r), {r}) /\ r \notin RemovePendingRequest(w, r).pending
<1>1. RemovePendingRequest(w, r) \in WsRec
  BY DEF RemovePendingRequest, WsRec
<1>2. w = Unused => RemovePendingRequest(w, r) = Unused
  BY DEF RemovePendingRequest, Unused
<1> QED
  BY <1>1, <1>2 DEF FadesTo, WsRec, RemovePendingRequest

\* Fields that the invariant does not look at.
LEMMA FlagsFade ==
    ASSUME NEW w \in WsRec, NEW X, NEW b \in BOOLEAN, w # Unused
    PROVE  /\ FadesTo(w, [w EXCEPT !.beat = b], X)
           /\ FadesTo(w, [w EXCEPT !.idle = b], X)
           /\ FadesTo(w, [w EXCEPT !.sidle = b], X)
           /\ FadesTo(w, [w EXCEPT !.wire = b], X)
<1>1. /\ [w EXCEPT !.beat = b] \in WsRec /\ [w EXCEPT !.idle = b] \in WsRec
      /\ [w EXCEPT !.sidle = b] \in WsRec /\ [w EXCEPT !.wire = b] \in WsRec
  BY DEF WsRec
<1> QED
  BY <1>1 DEF FadesTo, WsRec

-----------------------------------------------------------------------------
(* The lock of the key. *)

\* Most steps take no lock.
LEMMA LockKept ==
    ASSUME WsInv, UNCHANGED <<table, relocked>>,
           \A q \in Requests :
              /\ Relies(q)' => Relies(q) /\ req'[q].lock = req[q].lock
              /\ Holding(q)' => Holding(q)
    PROVE  Locked'
BY DEF WsInv, Locked, Relies, Holding

\* The lock is dropped: whoever relied on it, but for the one that dropped it, is seen.
LEMMA LockDropped ==
    ASSUME WsInv, NEW others \in SUBSET Requests, dropLock(others),
           \A q \in Requests : Relies(q)' => q \in others /\ req'[q] = req[q]
    PROVE  Locked' /\ table' = 0 /\ relocked' \in BOOLEAN /\ (relocked => relocked')
<1>1. table' = 0 /\ relocked' \in BOOLEAN /\ (relocked => relocked')
  BY DEF dropLock, WsInv, TypeOK
<1>2. \A q, s \in Requests :
         Holding(q)' /\ Holding(s)' /\ req'[q].lock = req'[s].lock => q = s
  BY DEF WsInv, Locked, Relies, Holding
<1>3. ~relocked' => \A q \in Requests : ~Relies(q)'
  BY DEF dropLock, WsInv, Locked, Relies, Holding
<1> QED
  BY <1>1, <1>2, <1>3 DEF Locked

-----------------------------------------------------------------------------
(* A step that fades connections and moves requests along keeps the           *)
(* invariant.                                                                 *)

Registers == {"send", "read", "close"}
InUse     == {"probe", "send", "backoff", "read", "close"}

GoesOn(q, X) ==
    /\ Advances(q)
    /\ q \in X => req'[q].pc \notin Registers /\ \A c \in Ids : q \notin ws'[c].pending
    /\ q \notin X /\ req[q].pc \in Registers =>
          req'[q].pc \in Registers /\ req'[q].conn = req[q].conn
    /\ req'[q].pc \in {"send", "read"} =>
          req[q].pc \in {"send", "read"} /\ req'[q].conn = req[q].conn
    /\ req'[q].pc \in InUse => req'[q].conn \in Ids /\ ws[req'[q].conn].conn # "none"
    /\ req'[q].pc = "dial" => req[q].pc = "dial" /\ req'[q].conn = req[q].conn
    /\ req'[q].pc = "backoff" => req'[q].tries < MaxRetries
    /\ req'[q].pc = "probe" /\ ~relocked => ws[req'[q].conn].pending = {}

\* So does a request that does not move.
LEMMA StaysPut ==
    ASSUME WsInv, NEW q \in Requests, NEW X, q \notin X, req'[q] = req[q]
    PROVE  GoesOn(q, X)
BY DEF WsInv, InHand, ProbedIdle, GoesOn, Advances, Registers, InUse

Typed ==
    /\ ws' = [c \in Ids |-> ws'[c]]
    /\ req' \in [Requests -> ReqRec]
    /\ pool' \in {pool, 0} /\ sessions' \in {sessions, 0}
    /\ table' \in LockIds \cup {0}
    /\ evict' \in [pc : {"connections", "sessions", "locks"}, alive : BOOLEAN]
    /\ sameKey' = sameKey /\ faults' \in 0 .. MaxFaults
    /\ relocked' \in BOOLEAN /\ (relocked => relocked')

\* A step in which connections only fade, and whose requests go on accordingly, keeps the invariant.
LEMMA FadingKeeps ==
    ASSUME WsInv, NEW X, Typed, Locked',
           \A c \in Ids : FadesTo(ws[c], ws'[c], X),
           \A q \in Requests : GoesOn(q, X)
    PROVE  WsInv'
<1>1. TypeOK'
  <2>1. ws' \in [Ids -> WsRec]
    BY DEF FadesTo, Typed
  <2>2. pool' \in Ids \cup {0} /\ (pool' # 0 => ws'[pool'].conn # "none")
    BY DEF WsInv, TypeOK, FadesTo, Typed
  <2>3. sessions' \in Ids \cup {0} /\ (sessions' # 0 => ws'[sessions'].sess # "none")
    BY DEF WsInv, TypeOK, FadesTo, Typed
  <2> QED
    BY <2>1, <2>2, <2>3 DEF WsInv, TypeOK, Typed
<1>2. Registered'
  <2> SUFFICES ASSUME NEW c \in Ids, NEW q \in Requests
               PROVE  /\ q \in ws'[c].pending =>
                            req'[q].conn = c /\ req'[q].pc \in {"send", "read", "close"}
                      /\ req'[q].pc \in {"send", "read"} /\ req'[q].conn = c =>
                            q \in ws'[c].pending \/ ws'[c].sess = "closed"
    BY DEF Registered, Using
  <2>1. /\ q \in ws[c].pending => req[q].conn = c /\ req[q].pc \in Registers
        /\ req[q].pc \in {"send", "read"} /\ req[q].conn = c =>
              q \in ws[c].pending \/ ws[c].sess = "closed"
    BY DEF WsInv, Registered, Using, Registers
  <2>2. FadesTo(ws[c], ws'[c], X) /\ GoesOn(q, X)
    OBVIOUS
  <2> QED
    BY <2>1, <2>2 DEF FadesTo, GoesOn, Registers
<1>3. OneAtATime'
  <2> SUFFICES ASSUME NEW q \in Requests, NEW s \in Requests, q # s, Using(q)', Using(s)',
                      req'[q].conn = req'[s].conn, ws'[req'[q].conn].sess = "up"
               PROVE  relocked'
    BY DEF OneAtATime
  <2>1. /\ Using(q) /\ req'[q].conn = req[q].conn /\ Using(s) /\ req'[s].conn = req[s].conn
        /\ req[q].conn \in Ids
    BY DEF GoesOn, Using, WsInv, InHand
  <2>2. ws[req[q].conn].sess = "up"
    BY <2>1 DEF FadesTo
  <2> QED
    BY <2>1, <2>2 DEF WsInv, OneAtATime, Typed
<1>4. InHand'
  <2> SUFFICES ASSUME NEW q \in Requests
               PROVE  /\ req'[q].pc \in InUse =>
                            req'[q].conn \in Ids /\ ws'[req'[q].conn].conn # "none"
                      /\ req'[q].pc = "dial" =>
                            /\ req'[q].conn \in Ids
                            /\ ws'[req'[q].conn].conn = "none"
                            /\ ws'[req'[q].conn].sess # "none"
                      /\ req'[q].pc = "backoff" => req'[q].tries < MaxRetries
    BY DEF InHand, InUse
  <2> QED
    BY DEF WsInv, InHand, GoesOn, FadesTo
<1>5. OneDialer'
  BY DEF WsInv, OneDialer, GoesOn
<1>6. ProbedIdle'
  <2> SUFFICES ASSUME ~relocked', NEW q \in Requests, req'[q].pc = "probe"
               PROVE  ws'[req'[q].conn].pending = {}
    BY DEF ProbedIdle
  <2>1. req'[q].conn \in Ids /\ ws[req'[q].conn].pending = {}
    BY DEF GoesOn, Typed, InUse
  <2> QED
    BY <2>1 DEF FadesTo
<1>7. DialsCounted'
  BY <1>1, CountKept DEF FadesTo, GoesOn
<1> QED
  BY <1>1, <1>2, <1>3, <1>4, <1>5, <1>6, <1>7 DEF WsInv

-----------------------------------------------------------------------------
(* One lemma per action: first those that leave the connections alone. *)

\* Connections that stay the same fade to themselves.
LEMMA NoneFades ==
    ASSUME WsInv, UNCHANGED ws, NEW X
    PROVE  ws' = [c \in Ids |-> ws'[c]] /\ \A c \in Ids : FadesTo(ws[c], ws'[c], X)
BY FadesItself DEF WsInv, TypeOK

\* One connection fades and the others stay.
LEMMA OneFades ==
    ASSUME WsInv, NEW c \in Ids, NEW v, NEW X, FadesTo(ws[c], v, X),
           ws' = [ws EXCEPT ![c] = v]
    PROVE  /\ ws' = [d \in Ids |-> ws'[d]] /\ ws'[c] = v
           /\ \A d \in Ids \ {c} : ws'[d] = ws[d]
           /\ \A d \in Ids : FadesTo(ws[d], ws'[d], X)
BY FadesItself DEF WsInv, TypeOK

\* A request that moves leaves the others where they are.
LEMMA OneGoesOn ==
    ASSUME WsInv, NEW r \in Requests, NEW X \in SUBSET {r}, NEW v \in ReqRec,
           req' = [req EXCEPT ![r] = v], GoesOn(r, X)
    PROVE  /\ req' \in [Requests -> ReqRec]
           /\ \A q \in Requests : GoesOn(q, X)
<1>1. req' \in [Requests -> ReqRec] /\ \A q \in Requests \ {r} : req'[q] = req[q]
  BY DEF WsInv, TypeOK
<1>2. \A q \in Requests \ {r} : GoesOn(q, X)
  BY <1>1, StaysPut
<1> QED
  BY <1>1, <1>2

\* What the invariant says of each variable.
LEMMA Types ==
    ASSUME WsInv
    PROVE  /\ ws \in [Ids -> WsRec] /\ req \in [Requests -> ReqRec]
           /\ pool \in Ids \cup {0} /\ sessions \in Ids \cup {0} /\ table \in LockIds \cup {0}
           /\ evict \in [pc : {"connections", "sessions", "locks"}, alive : BOOLEAN]
           /\ faults \in 0 .. MaxFaults /\ relocked \in BOOLEAN
           /\ 0 \notin Ids /\ 0 \notin LockIds
BY Bounds DEF WsInv, TypeOK

\* The lock is taken when nobody holds it.
LEMMA LockKeeps ==
    ASSUME WsInv, NEW r \in Requests, Lock(r)
    PROVE  WsInv'
<1> DEFINE v == [req[r] EXCEPT !.pc = "check"]
<1>1. v \in ReqRec /\ req' = [req EXCEPT ![r] = v] /\ UNCHANGED ws
  BY Types DEF Lock, ReqRec, Pcs, go
<1>2. req'[r] = v
  BY <1>1, Types
<1>3. GoesOn(r, {})
  BY <1>1, <1>2, Types DEF Lock, GoesOn, Advances, Past, Registers, InUse, WsInv, InHand, ReqRec, go
<1>4. Locked'
  <2>1. \A q \in Requests \ {r} : req'[q] = req[q]
    BY <1>1, Types
  <2>2. req'[r].pc = "check" /\ req'[r].lock = req[r].lock /\ Relies(r)
    BY <1>2, Types DEF Lock, Relies, ReqRec
  <2>3. \A q \in Requests : Holding(q) => req[q].lock # req[r].lock
    BY DEF Lock
  <2> QED
    BY <2>1, <2>2, <2>3 DEF Lock, WsInv, Locked, Relies, Holding
<1>5. req' \in [Requests -> ReqRec] /\ \A q \in Requests : GoesOn(q, {})
  BY <1>1, <1>3, OneGoesOn
<1>6. Typed
  BY <1>1, <1>5, Types, NoneFades DEF Lock, Typed
<1> QED
  BY <1>1, <1>4, <1>5, <1>6, NoneFades, FadingKeeps

\* Reading the stream only moves the request on.
LEMMA ReadStreamKeeps ==
    ASSUME WsInv, NEW r \in Requests, ReadStream(r)
    PROVE  WsInv'
<1> DEFINE v == [req[r] EXCEPT !.pc = "close"]
<1>1. v \in ReqRec /\ req' = [req EXCEPT ![r] = v] /\ UNCHANGED ws
  BY Types DEF ReadStream, ReqRec, Pcs, go
<1>2. req'[r] = v
  BY <1>1, Types
<1>3. GoesOn(r, {})
  BY <1>1, <1>2, Types DEF ReadStream, GoesOn, Advances, Past, Registers, InUse, WsInv, InHand, ReqRec, go
<1>4. Locked'
  BY <1>1, <1>2, Types, LockKept DEF ReadStream, Relies, Holding, ReqRec, go
<1>5. req' \in [Requests -> ReqRec] /\ \A q \in Requests : GoesOn(q, {})
  BY <1>1, <1>3, OneGoesOn
<1>6. Typed
  BY <1>1, <1>5, Types, NoneFades DEF ReadStream, Typed
<1> QED
  BY <1>1, <1>4, <1>5, <1>6, NoneFades, FadingKeeps

\* Who finds no lock in the table puts one there that nobody relies on.
LEMMA keyLockKeeps ==
    ASSUME WsInv, NEW r \in Requests, keyLock(r)
    PROVE  WsInv'
<1> DEFINE new == CHOOSE l \in LockIds : \A q \in Requests : ~Relies(q) \/ req[q].lock # l
           v == [req[r] EXCEPT !.pc = "lock", !.lock = table']
<1>1. new \in LockIds /\ \A q \in Requests : ~Relies(q) \/ req[q].lock # new
  BY FreeLock
<1>2. table' = IF table # 0 THEN table ELSE new
  BY DEF keyLock
<1> HIDE DEF new
<1>3. table' \in LockIds /\ (table # 0 => table' = table)
  BY <1>1, <1>2, Types
<1>4. v \in ReqRec /\ req' = [req EXCEPT ![r] = v] /\ UNCHANGED <<ws, relocked>>
  <2>1. PICK l \in LockIds : l = table'
    BY <1>3
  <2>2. req' = [req EXCEPT ![r].pc = "lock", ![r].lock = l] /\ UNCHANGED <<ws, relocked>>
    BY <2>1 DEF keyLock
  <2>3. [req[r] EXCEPT !.pc = "lock", !.lock = l] \in ReqRec
    <3>1. req[r] \in ReqRec
      BY Types
    <3>2. ASSUME NEW q \in ReqRec PROVE [q EXCEPT !.pc = "lock", !.lock = l] \in ReqRec
      BY DEF ReqRec, Pcs
    <3> QED
      BY <3>1, <3>2
  <2>4. req' = [req EXCEPT ![r] = [req[r] EXCEPT !.pc = "lock", !.lock = l]]
    BY <2>2, Types
  <2> QED
    BY <2>1, <2>2, <2>3, <2>4
<1>5. req'[r] = v /\ \A q \in Requests \ {r} : req'[q] = req[q]
  BY <1>4, Types
<1>6. v.pc = "lock" /\ v.lock = table' /\ v.tries = req[r].tries /\ req[r].pc = "start"
  BY <1>4, Types DEF keyLock, ReqRec
<1> HIDE DEF v
<1>7. GoesOn(r, {})
  BY <1>5, <1>6 DEF GoesOn, Advances, Past, Registers, InUse
<1>8. Locked'
  <2>1. \A q, u \in Requests :
           Holding(q)' /\ Holding(u)' /\ req'[q].lock = req'[u].lock => q = u
    BY <1>5, <1>6 DEF WsInv, Locked, Holding
  <2>2. ~relocked' => \A q \in Requests : Relies(q)' => table' # 0 /\ req'[q].lock = table'
    BY <1>3, <1>4, <1>5, <1>6, Types DEF WsInv, Locked, Relies, Holding
  <2> QED
    BY <2>1, <2>2 DEF Locked
<1>9. req' \in [Requests -> ReqRec] /\ \A q \in Requests : GoesOn(q, {})
  BY <1>4, <1>7, OneGoesOn
<1>10. Typed
  BY <1>3, <1>4, <1>9, Types, NoneFades DEF keyLock, Typed
<1> QED
  BY <1>4, <1>8, <1>9, <1>10, NoneFades, FadingKeeps

\* A request that moves on with what it has, or ends, without a connection in use.
LEMMA QuietKeeps ==
    ASSUME WsInv, NEW r \in Requests, NEW v \in ReqRec, req' = [req EXCEPT ![r] = v],
           UNCHANGED <<ws, pool, sessions, table, evict, sameKey, relocked, faults>>,
           req[r].pc \notin Registers, v.pc \in {"lock", "start", "done"},
           v.pc = "lock" => Relies(r) /\ v.lock = req[r].lock,
           \/ v.tries = req[r].tries /\ (req[r].pc \in Past => v.pc = "done")
           \/ v.tries = req[r].tries + 1
    PROVE  WsInv'
<1>1. req'[r] = v /\ \A q \in Requests \ {r} : req'[q] = req[q]
  BY Types
<1>2. GoesOn(r, {})
  BY <1>1 DEF GoesOn, Advances, Past, Registers, InUse
<1>3. Locked'
  BY <1>1, LockKept DEF Relies, Holding
<1>4. req' \in [Requests -> ReqRec] /\ \A q \in Requests : GoesOn(q, {})
  BY <1>2, OneGoesOn
<1>5. Typed
  BY <1>4, Types, NoneFades DEF Typed
<1> QED
  BY <1>3, <1>4, <1>5, NoneFades, FadingKeeps

\* A request that waits holds no connection.
LEMMA WaitKeeps ==
    ASSUME WsInv, NEW r \in Requests, Wait(r)
    PROVE  WsInv'
<1>1. req[r].pc = "wait" /\ Relies(r) /\ req[r].pc \notin Registers /\ req[r].pc \notin Past
      /\ UNCHANGED <<ws, pool, sessions, table, evict, sameKey, relocked, faults>>
  BY DEF Wait, Relies, Registers, Past
<1>2. CASE go(r, "lock")
  <2> DEFINE v == [req[r] EXCEPT !.pc = "lock"]
  <2>1. v \in ReqRec /\ req' = [req EXCEPT ![r] = v]
    BY <1>2, Types DEF go, ReqRec, Pcs
  <2>2. v.pc = "lock" /\ v.lock = req[r].lock /\ v.tries = req[r].tries
    BY Types DEF ReqRec
  <2> HIDE DEF v
  <2> QED
    BY <1>1, <2>1, <2>2, QuietKeeps
<1>3. CASE done(r)
  <2> DEFINE v == [req[r] EXCEPT !.pc = "done", !.lock = 0, !.conn = 0]
  <2>1. v \in ReqRec /\ req' = [req EXCEPT ![r] = v]
    BY <1>3, Types DEF done, ReqRec, Pcs
  <2>2. v.pc = "done" /\ v.tries = req[r].tries
    BY Types DEF ReqRec
  <2> HIDE DEF v
  <2> QED
    BY <1>1, <2>1, <2>2, QuietKeeps
<1> QED
  BY <1>2, <1>3 DEF Wait

\* A request that backs off keeps the slot and the answer it has.
LEMMA BackoffKeeps ==
    ASSUME WsInv, NEW r \in Requests, Backoff(r)
    PROVE  WsInv'
<1>1. req[r].pc = "backoff" /\ req[r].pc \notin Registers
      /\ UNCHANGED <<ws, pool, sessions, table, evict, sameKey, relocked, faults>>
  BY DEF Backoff, Registers
<1>2. CASE req' = [req EXCEPT ![r].pc = "start", ![r].conn = 0, ![r].tries = @ + 1]
  <2> DEFINE v == [req[r] EXCEPT !.pc = "start", !.conn = 0, !.tries = @ + 1]
  <2>1. req[r].tries + 1 \in 0 .. MaxRetries
    BY <1>1, Types, Bounds DEF WsInv, InHand, ReqRec
  <2>2. v \in ReqRec /\ req' = [req EXCEPT ![r] = v]
    BY <1>2, <2>1, Types DEF ReqRec, Pcs
  <2>3. v.pc = "start" /\ v.tries = req[r].tries + 1
    BY Types DEF ReqRec
  <2> HIDE DEF v
  <2> QED
    BY <1>1, <2>2, <2>3, QuietKeeps
<1>3. CASE done(r)
  <2> DEFINE v == [req[r] EXCEPT !.pc = "done", !.lock = 0, !.conn = 0]
  <2>1. v \in ReqRec /\ req' = [req EXCEPT ![r] = v]
    BY <1>3, Types DEF done, ReqRec, Pcs
  <2>2. v.pc = "done" /\ v.tries = req[r].tries
    BY Types DEF ReqRec
  <2> HIDE DEF v
  <2> QED
    BY <1>1, <2>1, <2>2, QuietKeeps
<1> QED
  BY <1>2, <1>3 DEF Backoff

-----------------------------------------------------------------------------
(* The background: no request moves. *)

\* The janitor and the network only take connections away.
LEMMA BackgroundKeeps ==
    ASSUME WsInv, UNCHANGED <<req, sameKey>>,
           ws' = [c \in Ids |-> ws'[c]], \A c \in Ids : FadesTo(ws[c], ws'[c], {}),
           pool' \in {pool, 0}, sessions' \in {sessions, 0},
           evict' \in [pc : {"connections", "sessions", "locks"}, alive : BOOLEAN],
           faults' \in 0 .. MaxFaults,
           UNCHANGED <<table, relocked>> \/ dropLock(Requests)
    PROVE  WsInv'
<1>1. Locked' /\ table' \in LockIds \cup {0} /\ relocked' \in BOOLEAN /\ (relocked => relocked')
  <2>1. CASE UNCHANGED <<table, relocked>>
    <3>1. Locked'
      BY <2>1, LockKept DEF Relies, Holding
    <3> QED
      BY <2>1, <3>1, Types
  <2>2. CASE dropLock(Requests)
    BY <2>2, LockDropped DEF Relies, Holding
  <2> QED
    BY <2>1, <2>2
<1>2. \A q \in Requests : GoesOn(q, {})
  BY StaysPut
<1>3. Typed
  BY <1>1, Types DEF Typed
<1> QED
  BY <1>1, <1>2, <1>3, FadingKeeps

\* The eviction of idle connections takes the pool's away.
LEMMA EvictConnectionsKeeps ==
    ASSUME WsInv, EvictConnections
    PROVE  WsInv'
<1> DEFINE dead == pool # 0 /\ ~alive(ws[pool])
<1>1. /\ ws' = IF dead THEN [ws EXCEPT ![pool] = Close(@)] ELSE ws
      /\ pool' \in {pool, 0} /\ UNCHANGED <<sessions, table, req, sameKey, relocked, faults>>
      /\ evict' \in [pc : {"connections", "sessions", "locks"}, alive : BOOLEAN]
  BY DEF EvictConnections
<1>2. CASE dead
  <2>1. pool \in Ids /\ ws' = [ws EXCEPT ![pool] = Close(ws[pool])]
    BY <1>1, <1>2, Types
  <2>2. FadesTo(ws[pool], Close(ws[pool]), {})
    BY <2>1, Types, CloseFades
  <2>3. ws' = [c \in Ids |-> ws'[c]] /\ \A c \in Ids : FadesTo(ws[c], ws'[c], {})
    BY <2>1, <2>2, OneFades
  <2> QED
    BY <1>1, <2>3, Types, BackgroundKeeps
<1>3. CASE ~dead
  BY <1>1, <1>3, Types, NoneFades, BackgroundKeeps
<1> QED
  BY <1>2, <1>3

\* The eviction of sessions takes the registered one away.
LEMMA EvictSessionsKeeps ==
    ASSUME WsInv, EvictSessions
    PROVE  WsInv'
<1> DEFINE dead == sessions # 0 /\ (ws[sessions].sidle \/ ws[sessions].sess # "up")
<1>1. /\ ws' = IF dead THEN [ws EXCEPT ![sessions] = CloseSession(@)] ELSE ws
      /\ sessions' \in {sessions, 0} /\ UNCHANGED <<pool, table, req, sameKey, relocked, faults>>
      /\ evict' \in [pc : {"connections", "sessions", "locks"}, alive : BOOLEAN]
  BY Types DEF EvictSessions
<1>2. CASE dead
  <2>1. /\ sessions \in Ids /\ ws' = [ws EXCEPT ![sessions] = CloseSession(ws[sessions])]
        /\ ws[sessions].sess # "none"
    BY <1>1, <1>2, Types DEF WsInv, TypeOK
  <2>2. FadesTo(ws[sessions], CloseSession(ws[sessions]), {})
    BY <2>1, Types, CloseSessionFades
  <2>3. ws' = [c \in Ids |-> ws'[c]] /\ \A c \in Ids : FadesTo(ws[c], ws'[c], {})
    BY <2>1, <2>2, OneFades
  <2> QED
    BY <1>1, <2>3, Types, BackgroundKeeps
<1>3. CASE ~dead
  BY <1>1, <1>3, Types, NoneFades, BackgroundKeeps
<1> QED
  BY <1>2, <1>3

\* The lock is dropped while the key is idle, as far as the loop has seen.
LEMMA EvictLocksKeeps ==
    ASSUME WsInv, EvictLocks
    PROVE  WsInv'
<1>1. /\ UNCHANGED <<ws, pool, sessions, req, sameKey, faults>>
      /\ UNCHANGED <<table, relocked>> \/ dropLock(Requests)
      /\ evict' \in [pc : {"connections", "sessions", "locks"}, alive : BOOLEAN]
  BY DEF EvictLocks
<1> QED
  BY <1>1, Types, NoneFades, BackgroundKeeps

\* A flag of one connection changes, in the background.
LEMMA FlagKeeps ==
    ASSUME WsInv, NEW c \in Ids, NEW v, FadesTo(ws[c], v, {}), ws' = [ws EXCEPT ![c] = v],
           faults' \in 0 .. MaxFaults,
           UNCHANGED <<pool, sessions, table, req, evict, sameKey, relocked>>
    PROVE  WsInv'
<1>1. ws' = [d \in Ids |-> ws'[d]] /\ \A d \in Ids : FadesTo(ws[d], ws'[d], {})
  BY OneFades
<1> QED
  BY <1>1, Types, BackgroundKeeps

\* A fault uses up one of those that are left.
LEMMA FaultsLeft ==
    ASSUME WsInv, faults > 0, faults' = faults - 1
    PROVE  faults' \in 0 .. MaxFaults
BY Types, RetriesAssumption

\* A heartbeat that fails closes its own connection.
LEMMA HeartbeatKeeps ==
    ASSUME WsInv, NEW c \in Ids, Heartbeat(c)
    PROVE  WsInv'
<1>1. /\ ws[c] \in WsRec /\ ws[c].beat /\ ws[c] # Unused
      /\ UNCHANGED <<table, req, evict, sameKey, relocked, faults>>
  BY Types DEF Heartbeat, Unused
<1>2. CASE /\ ws' = [ws EXCEPT ![c].beat = FALSE] /\ UNCHANGED <<pool, sessions>>
  <2>1. ws' = [ws EXCEPT ![c] = [ws[c] EXCEPT !.beat = FALSE]]
    BY <1>2
  <2> QED
    BY <1>1, <1>2, <2>1, Types, FlagsFade, FlagKeeps
<1>3. CASE /\ ws[c].sess = "up" /\ ws' = [ws EXCEPT ![c] = CloseSession(@)]
           /\ UNCHANGED <<pool, sessions>>
  <2>1. FadesTo(ws[c], CloseSession(ws[c]), {})
    BY <1>1, <1>3, CloseSessionFades
  <2> QED
    BY <1>1, <1>3, <2>1, Types, FlagKeeps
<1>4. CASE /\ ws[c].sess = "up" /\ ws' = [ws EXCEPT ![c] = CloseSession(Close(@))]
           /\ pool' = 0 /\ sessions' = 0
  <2> DEFINE w == Close(ws[c])
  <2>1. FadesTo(ws[c], w, {})
    BY <1>1, CloseFades
  <2>2. w \in WsRec /\ w.sess # "none"
    BY <1>4, <2>1 DEF FadesTo
  <2> HIDE DEF w
  <2>3. FadesTo(w, CloseSession(w), {})
    BY <2>2, CloseSessionFades
  <2>4. FadesTo(ws[c], CloseSession(w), {})
    BY <2>1, <2>3, FadesOn
  <2>5. ws' = [d \in Ids |-> ws'[d]] /\ \A d \in Ids : FadesTo(ws[d], ws'[d], {})
    BY <1>4, <2>4, OneFades DEF w
  <2> QED
    BY <1>1, <1>4, <2>5, Types, BackgroundKeeps
<1> QED
  BY <1>2, <1>3, <1>4 DEF Heartbeat

\* A connection that grows too old is only marked.
LEMMA ConnectionExpiresKeeps ==
    ASSUME WsInv, NEW c \in Ids, ConnectionExpires(c)
    PROVE  WsInv'
<1>1. /\ ws[c] \in WsRec /\ ws[c] # Unused /\ faults' \in 0 .. MaxFaults
      /\ ws' = [ws EXCEPT ![c] = [ws[c] EXCEPT !.idle = TRUE]]
      /\ UNCHANGED <<pool, sessions, table, req, evict, sameKey, relocked>>
  BY Types, FaultsLeft DEF ConnectionExpires, IsConnected, Unused
<1> QED
  BY <1>1, FlagsFade, FlagKeeps

\* A session that grows idle is only marked.
LEMMA SessionExpiresKeeps ==
    ASSUME WsInv, NEW c \in Ids, SessionExpires(c)
    PROVE  WsInv'
<1>1. /\ ws[c] \in WsRec /\ ws[c] # Unused /\ faults' \in 0 .. MaxFaults
      /\ ws' = [ws EXCEPT ![c] = [ws[c] EXCEPT !.sidle = TRUE]]
      /\ UNCHANGED <<pool, sessions, table, req, evict, sameKey, relocked>>
  BY Types, FaultsLeft DEF SessionExpires, Unused
<1> QED
  BY <1>1, FlagsFade, FlagKeeps

\* A broken connection ends the requests that wait on it.
LEMMA BreaksKeeps ==
    ASSUME WsInv, NEW c \in Ids, Breaks(c)
    PROVE  WsInv'
<1>1. /\ ws[c] \in WsRec /\ ws[c] # Unused /\ faults' \in 0 .. MaxFaults
      /\ ws' = [ws EXCEPT ![c] = [ws[c] EXCEPT !.wire = FALSE]]
      /\ UNCHANGED <<pool, sessions, table, req, evict, sameKey, relocked>>
  BY Types, FaultsLeft DEF Breaks, Unused
<1> QED
  BY <1>1, FlagsFade, FlagKeeps

\* A pong touches the connection of its request.
LEMMA HandlePongKeeps ==
    ASSUME WsInv, NEW r \in Requests, HandlePong(r)
    PROVE  WsInv'
<1> DEFINE c == req[r].conn
           w == Touch(ws[c])
<1>1. /\ c \in Ids /\ ws[c] \in WsRec /\ ws[c].wire
      /\ ws' = [ws EXCEPT ![c] = [w EXCEPT !.sidle = FALSE]]
      /\ UNCHANGED <<pool, sessions, table, req, evict, sameKey, relocked, faults>>
  BY Types DEF HandlePong, WsInv, InHand
<1>2. FadesTo(ws[c], w, {}) /\ w \in WsRec
  BY <1>1, TouchFades DEF FadesTo
<1>3. w # Unused
  BY <1>1 DEF Touch, Unused, WsRec
<1> HIDE DEF w
<1>4. FadesTo(w, [w EXCEPT !.sidle = FALSE], {})
  BY <1>2, <1>3, FlagsFade
<1>5. FadesTo(ws[c], [w EXCEPT !.sidle = FALSE], {})
  BY <1>2, <1>4, FadesOn
<1> QED
  BY <1>1, <1>5, Types, FlagKeeps

-----------------------------------------------------------------------------
(* The steps of one request that close, touch or leave connections. *)

Relying == {"lock", "check", "probe", "wait", "create", "dial"}

\* A step of one request: what it may change, and what must go on.
LEMMA RequestKeeps ==
    ASSUME WsInv, NEW r \in Requests, NEW X \in SUBSET {r}, NEW v \in ReqRec,
           req' = [req EXCEPT ![r] = v],
           ws' = [c \in Ids |-> ws'[c]], \A c \in Ids : FadesTo(ws[c], ws'[c], X),
           GoesOn(r, X),
           pool' \in {pool, 0}, sessions' \in {sessions, 0}, UNCHANGED <<evict, sameKey, faults>>,
           \/ /\ UNCHANGED <<table, relocked>>
              /\ v.pc \in Relying => Holding(r) /\ v.lock = req[r].lock
           \/ dropLock(Requests \ {r}) /\ v.pc \notin Relying
    PROVE  WsInv'
<1>1. req'[r] = v /\ \A q \in Requests \ {r} : req'[q] = req[q]
  BY Types
<1>2. Locked' /\ table' \in LockIds \cup {0} /\ relocked' \in BOOLEAN /\ (relocked => relocked')
  <2>1. CASE /\ UNCHANGED <<table, relocked>>
             /\ v.pc \in Relying => Holding(r) /\ v.lock = req[r].lock
    <3>1. Locked'
      BY <1>1, <2>1, LockKept DEF Relies, Holding, Relying
    <3> QED
      BY <2>1, <3>1, Types
  <2>2. CASE dropLock(Requests \ {r}) /\ v.pc \notin Relying
    <3>1. \A q \in Requests : Relies(q)' => q \in Requests \ {r} /\ req'[q] = req[q]
      BY <1>1, <2>2 DEF Relies, Holding, Relying
    <3> QED
      BY <2>2, <3>1, LockDropped
  <2> QED
    BY <2>1, <2>2
<1>3. req' \in [Requests -> ReqRec] /\ \A q \in Requests : GoesOn(q, X)
  BY OneGoesOn
<1>4. Typed
  BY <1>2, <1>3, Types DEF Typed
<1> QED
  BY <1>2, <1>3, <1>4, FadingKeeps

\* A request that holds the lock looks at the connection of the pool.
LEMMA CheckKeeps ==
    ASSUME WsInv, NEW r \in Requests, Check(r)
    PROVE  WsInv'
<1>1. /\ req[r].pc = "check" /\ Holding(r) /\ req[r] \in ReqRec
      /\ UNCHANGED <<table, evict, sameKey, relocked, faults>>
  BY Types DEF Check, Holding
<1>2. ASSUME NEW pc \in {"create", "wait"}, go(r, pc),
             ws' = [c \in Ids |-> ws'[c]], \A c \in Ids : FadesTo(ws[c], ws'[c], {}),
             pool' \in {pool, 0}, sessions' \in {sessions, 0}
      PROVE  WsInv'
  <2> DEFINE v == [req[r] EXCEPT !.pc = pc]
  <2>1. v \in ReqRec /\ req' = [req EXCEPT ![r] = v]
    BY <1>1, <1>2 DEF go, ReqRec, Pcs
  <2>2. v.pc = pc /\ v.lock = req[r].lock /\ v.tries = req[r].tries
    BY <1>1 DEF ReqRec
  <2> HIDE DEF v
  <2>3. req'[r] = v
    BY <2>1, Types
  <2>4. GoesOn(r, {})
    BY <1>1, <2>2, <2>3 DEF GoesOn, Advances, Past, Registers, InUse
  <2> QED
    BY <1>1, <1>2, <2>1, <2>2, <2>4, RequestKeeps
<1>3. CASE /\ pool # 0 /\ canReuseConnection(ws[pool])
           /\ req' = [req EXCEPT ![r].pc = "probe", ![r].conn = pool]
           /\ UNCHANGED <<ws, pool, sessions>>
  <2> DEFINE v == [req[r] EXCEPT !.pc = "probe", !.conn = pool]
  <2>1. pool \in Ids /\ ws[pool].conn # "none" /\ ws[pool].pending = {}
    BY <1>3, Types DEF canReuseConnection, alive, IsConnected
  <2>2. v \in ReqRec /\ req' = [req EXCEPT ![r] = v]
    BY <1>1, <1>3, <2>1, Types DEF ReqRec, Pcs
  <2>3. v.pc = "probe" /\ v.lock = req[r].lock /\ v.tries = req[r].tries /\ v.conn = pool
    BY <1>1 DEF ReqRec
  <2> HIDE DEF v
  <2>4. req'[r] = v
    BY <2>2, Types
  <2>5. GoesOn(r, {})
    BY <1>1, <2>1, <2>3, <2>4 DEF GoesOn, Advances, Past, Registers, InUse
  <2> QED
    BY <1>1, <1>3, <2>2, <2>3, <2>5, NoneFades, RequestKeeps
<1>4. CASE /\ pool # 0 /\ ws' = [ws EXCEPT ![pool] = Close(@)]
           /\ pool' = 0 /\ sessions' = 0 /\ go(r, "create")
  <2>1. pool \in Ids /\ FadesTo(ws[pool], Close(ws[pool]), {})
    BY <1>4, Types, CloseFades
  <2>2. ws' = [ws EXCEPT ![pool] = Close(ws[pool])]
    BY <1>4
  <2>3. ws' = [c \in Ids |-> ws'[c]] /\ \A c \in Ids : FadesTo(ws[c], ws'[c], {})
    BY <2>1, <2>2, OneFades
  <2> QED
    BY <1>2, <1>4, <2>3
<1>5. CASE \/ pool = 0 /\ go(r, "create") /\ UNCHANGED <<ws, pool, sessions>>
           \/ go(r, "wait") /\ UNCHANGED <<ws, pool, sessions>>
  BY <1>2, <1>5, NoneFades
<1> QED
  BY <1>3, <1>4, <1>5 DEF Check

\* A connection that fails the probe is closed and the lock of the key dropped.
LEMMA ProbeFailsKeeps ==
    ASSUME WsInv, NEW r \in Requests, ProbeFails(r)
    PROVE  WsInv'
<1> DEFINE c == req[r].conn
           v == [req[r] EXCEPT !.pc = "start", !.lock = 0, !.conn = 0]
<1>1. /\ req[r].pc = "probe" /\ c \in Ids
      /\ ws' = [ws EXCEPT ![c] = Close(ws[c])]
      /\ pool' = 0 /\ sessions' = 0 /\ dropLock(Requests \ {r}) /\ UNCHANGED <<evict, sameKey, faults>>
  BY DEF ProbeFails, WsInv, InHand
<1>2. v \in ReqRec /\ req' = [req EXCEPT ![r] = v]
  BY Types DEF ProbeFails, ReqRec, Pcs
<1>3. v.pc = "start" /\ v.tries = req[r].tries
  BY Types DEF ReqRec
<1> HIDE DEF v
<1>4. req'[r] = v
  BY <1>2, Types
<1>5. GoesOn(r, {})
  BY <1>1, <1>3, <1>4 DEF GoesOn, Advances, Past, Registers, InUse
<1>6. FadesTo(ws[c], Close(ws[c]), {})
  BY <1>1, Types, CloseFades
<1>7. ws' = [d \in Ids |-> ws'[d]] /\ \A d \in Ids : FadesTo(ws[d], ws'[d], {})
  <2>1. c \in Ids /\ ws' = [ws EXCEPT ![c] = Close(ws[c])]
    BY <1>1
  <2> QED
    BY <1>6, <2>1, OneFades
<1> QED
  BY <1>1, <1>2, <1>3, <1>5, <1>7, RequestKeeps DEF Relying

\* A dial that fails closes the session that was created for it.
LEMMA DialFailsKeeps ==
    ASSUME WsInv, NEW r \in Requests, DialFails(r)
    PROVE  WsInv'
<1> DEFINE c == req[r].conn
           v == [req[r] EXCEPT !.pc = "done", !.lock = 0, !.conn = 0]
<1>1. /\ req[r].pc = "dial" /\ c \in Ids /\ ws[c].sess # "none"
      /\ ws' = [ws EXCEPT ![c] = CloseSession(ws[c])]
      /\ sessions' = 0 /\ UNCHANGED <<pool, table, relocked, evict, sameKey, faults>>
  BY DEF DialFails, WsInv, InHand
<1>2. v \in ReqRec /\ req' = [req EXCEPT ![r] = v]
  BY Types DEF DialFails, done, ReqRec, Pcs
<1>3. v.pc = "done" /\ v.tries = req[r].tries
  BY Types DEF ReqRec
<1> HIDE DEF v
<1>4. req'[r] = v
  BY <1>2, Types
<1>5. GoesOn(r, {})
  BY <1>1, <1>3, <1>4 DEF GoesOn, Advances, Past, Registers, InUse
<1>6. FadesTo(ws[c], CloseSession(ws[c]), {})
  BY <1>1, Types, CloseSessionFades
<1>7. ws' = [d \in Ids |-> ws'[d]] /\ \A d \in Ids : FadesTo(ws[d], ws'[d], {})
  BY <1>1, <1>6, OneFades
<1> QED
  BY <1>1, <1>2, <1>3, <1>5, <1>7, RequestKeeps DEF Relying

\* A request that was sent starts the heartbeat of the session.
LEMMA SendSucceedsKeeps ==
    ASSUME WsInv, NEW r \in Requests, SendSucceeds(r)
    PROVE  WsInv'
<1> DEFINE c == req[r].conn
           v == [req[r] EXCEPT !.pc = "read"]
           w == [ws[c] EXCEPT !.beat = TRUE]
<1>1. /\ req[r].pc = "send" /\ c \in Ids /\ ws[c] # Unused /\ ws[c].conn # "none"
      /\ ws' = [ws EXCEPT ![c] = w]
      /\ UNCHANGED <<pool, sessions, table, evict, sameKey, relocked, faults>>
  BY DEF SendSucceeds, WsInv, InHand, Unused, IsConnected
<1>2. v \in ReqRec /\ req' = [req EXCEPT ![r] = v]
  BY Types DEF SendSucceeds, go, ReqRec, Pcs
<1>3. v.pc = "read" /\ v.tries = req[r].tries /\ v.conn = c
  BY Types DEF ReqRec
<1> HIDE DEF v
<1>4. req'[r] = v
  BY <1>2, Types
<1>5. GoesOn(r, {})
  BY <1>1, <1>3, <1>4 DEF GoesOn, Advances, Past, Registers, InUse
<1>6. FadesTo(ws[c], w, {})
  BY <1>1, Types, FlagsFade
<1> HIDE DEF w
<1>7. ws' = [d \in Ids |-> ws'[d]] /\ \A d \in Ids : FadesTo(ws[d], ws'[d], {})
  BY <1>1, <1>6, OneFades
<1> QED
  BY <1>1, <1>2, <1>3, <1>5, <1>7, RequestKeeps DEF Relying

\* A request that ends is removed from the session of its connection, which is touched.
LEMMA LeaverKeeps ==
    ASSUME WsInv, NEW r \in Requests, req[r].pc \in Registers,
           ws' = [ws EXCEPT ![req[r].conn] = Touch(RemovePendingRequest(@, r))], done(r),
           UNCHANGED <<pool, sessions, table, evict, sameKey, relocked, faults>>
    PROVE  WsInv'
<1> DEFINE c == req[r].conn
           w == RemovePendingRequest(ws[c], r)
           v == [req[r] EXCEPT !.pc = "done", !.lock = 0, !.conn = 0]
<1>1. c \in Ids /\ ws' = [ws EXCEPT ![c] = Touch(w)]
  BY DEF Registers, WsInv, InHand
<1>2. v \in ReqRec /\ req' = [req EXCEPT ![r] = v]
  BY Types DEF done, ReqRec, Pcs
<1>3. v.pc = "done" /\ v.tries = req[r].tries
  BY Types DEF ReqRec
<1>4. req'[r] = v
  BY <1>2, Types
<1> HIDE DEF v
<1>5. FadesTo(ws[c], w, {r}) /\ r \notin w.pending /\ w \in WsRec
  BY <1>1, Types, RemovePendingFades DEF FadesTo
<1> HIDE DEF w
<1>6. FadesTo(w, Touch(w), {r}) /\ r \notin Touch(w).pending
  BY <1>5, TouchFades
<1>7. FadesTo(ws[c], Touch(w), {r})
  BY <1>5, <1>6, FadesOn
<1>8. /\ ws' = [d \in Ids |-> ws'[d]] /\ \A d \in Ids : FadesTo(ws[d], ws'[d], {r})
      /\ ws'[c] = Touch(w) /\ \A d \in Ids \ {c} : ws'[d] = ws[d]
  BY <1>1, <1>7, OneFades
<1>9. \A d \in Ids : r \notin ws'[d].pending
  BY <1>6, <1>8 DEF WsInv, Registered
<1>10. GoesOn(r, {r})
  BY <1>3, <1>4, <1>9 DEF GoesOn, Advances, Past, Registers, InUse
<1> QED
  BY <1>2, <1>3, <1>8, <1>10, RequestKeeps DEF Relying

\* Closing a response takes its request out of the pending ones.
LEMMA WsResponseCloseKeeps ==
    ASSUME WsInv, NEW r \in Requests, WsResponseClose(r)
    PROVE  WsInv'
BY LeaverKeeps DEF WsResponseClose, Registers

\* A send that may be repeated takes the connection away, whichever is in the maps, if it
\* is given the right key; the request leaves its connection in any case.
LEMMA RemoveConnectionFades ==
    ASSUME WsInv, NEW r \in Requests, RemoveConnection(r), req[r].conn \in Ids
    PROVE  /\ ws' = [d \in Ids |-> ws'[d]] /\ \A d \in Ids : FadesTo(ws[d], ws'[d], {r})
           /\ r \notin ws'[req[r].conn].pending
           /\ pool' \in {pool, 0} /\ sessions' \in {sessions, 0}
           /\ UNCHANGED <<table, relocked>> \/ dropLock(Requests \ {r})
<1> DEFINE c == req[r].conn
           w == RemovePendingRequest(ws[c], r)
<1>1. FadesTo(ws[c], w, {r}) /\ r \notin w.pending /\ w \in WsRec
  BY Types, RemovePendingFades DEF FadesTo
<1>2. CASE sameKey
  <2> DEFINE left(d) == IF d = c THEN w ELSE ws[d]
  <2>1. /\ ws' = [d \in Ids |-> IF d = pool THEN Close(left(d)) ELSE left(d)]
        /\ pool' = 0 /\ sessions' = 0 /\ dropLock(Requests \ {r})
    BY <1>2 DEF RemoveConnection
  <2> HIDE DEF w
  <2>2. \A d \in Ids : left(d) \in WsRec /\ FadesTo(ws[d], left(d), {r})
    BY <1>1, Types, FadesItself
  <2>3. r \notin left(c).pending
    BY <1>1
  <2> HIDE DEF left
  <2>4. \A d \in Ids : /\ FadesTo(left(d), Close(left(d)), {r})
                       /\ Close(left(d)).pending = left(d).pending
    BY <2>2, CloseFades
  <2>5. \A d \in Ids : FadesTo(ws[d], Close(left(d)), {r})
    BY <2>2, <2>4, FadesOn
  <2>6. \A d \in Ids : ws'[d] = IF d = pool THEN Close(left(d)) ELSE left(d)
    BY <2>1
  <2> QED
    BY <2>1, <2>2, <2>3, <2>4, <2>5, <2>6
<1>3. CASE ~sameKey
  <2>1. ws' = [ws EXCEPT ![c] = w] /\ UNCHANGED <<pool, sessions, table, relocked>>
    BY <1>3 DEF RemoveConnection
  <2> HIDE DEF w
  <2>2. /\ ws' = [d \in Ids |-> ws'[d]] /\ ws'[c] = w
        /\ \A d \in Ids : FadesTo(ws[d], ws'[d], {r})
    BY <1>1, <2>1, OneFades
  <2> QED
    BY <1>1, <2>1, <2>2
<1> QED
  BY <1>2, <1>3

\* A failed send takes its request out of the pending ones.
LEMMA SendFailsKeeps ==
    ASSUME WsInv, NEW r \in Requests, SendFails(r)
    PROVE  WsInv'
<1> DEFINE c == req[r].conn
           v == [req[r] EXCEPT !.pc = "backoff"]
<1>1. req[r].pc = "send" /\ c \in Ids /\ ws[c].conn # "none" /\ UNCHANGED <<evict, sameKey, faults>>
  BY DEF SendFails, WsInv, InHand
<1>2. CASE req[r].tries < MaxRetries /\ RemoveConnection(r) /\ go(r, "backoff")
  <2>1. v \in ReqRec /\ req' = [req EXCEPT ![r] = v]
    BY <1>2, Types DEF go, ReqRec, Pcs
  <2>2. v.pc = "backoff" /\ v.tries = req[r].tries /\ v.conn = c
    BY Types DEF ReqRec
  <2> HIDE DEF v
  <2>3. req'[r] = v
    BY <2>1, Types
  <2>4. /\ ws' = [d \in Ids |-> ws'[d]] /\ \A d \in Ids : FadesTo(ws[d], ws'[d], {r})
        /\ r \notin ws'[c].pending
        /\ pool' \in {pool, 0} /\ sessions' \in {sessions, 0}
        /\ UNCHANGED <<table, relocked>> \/ dropLock(Requests \ {r})
    BY <1>1, <1>2, RemoveConnectionFades
  <2>5. \A d \in Ids : r \notin ws'[d].pending
    BY <2>4 DEF FadesTo, WsInv, Registered
  <2>6. GoesOn(r, {r})
    BY <1>1, <1>2, <2>2, <2>3, <2>5 DEF GoesOn, Advances, Past, Registers, InUse
  <2> QED
    BY <1>1, <2>1, <2>2, <2>4, <2>6, RequestKeeps DEF Relying
<1>3. CASE /\ ws' = [ws EXCEPT ![req[r].conn] = Touch(RemovePendingRequest(@, r))] /\ done(r)
           /\ UNCHANGED <<pool, sessions, table, relocked>>
  BY <1>1, <1>3, LeaverKeeps DEF Registers
<1> QED
  BY <1>2, <1>3 DEF SendFails

-----------------------------------------------------------------------------
(* The steps that put a connection into a request's hands. *)

\* An idle connection goes to the request that probed it: nobody else holds the lock.
LEMMA ProbeSucceedsKeeps ==
    ASSUME WsInv, NEW r \in Requests, ProbeSucceeds(r)
    PROVE  WsInv'
<1> DEFINE c == req[r].conn
           v == [req[r] EXCEPT !.pc = "send", !.lock = 0]
           t == Touch(ws[c])
           w == [t EXCEPT !.pending = ws[c].pending \cup {r}]
<1>1. /\ req[r].pc = "probe" /\ c \in Ids /\ ws[c].conn = "up" /\ ws[c] \in WsRec
      /\ UNCHANGED <<pool, sessions, table, evict, sameKey, relocked, faults>>
  BY Types DEF ProbeSucceeds, WsInv, InHand, IsConnected
<1>2. ws' = [ws EXCEPT ![c] = w]
  BY DEF ProbeSucceeds
<1>3. v \in ReqRec /\ req' = [req EXCEPT ![r] = v]
  BY Types DEF ProbeSucceeds, unlockToSend, ReqRec, Pcs
<1>4. v.pc = "send" /\ v.lock = 0 /\ v.conn = c /\ v.tries = req[r].tries
  BY Types DEF ReqRec
<1>5. /\ w \in WsRec /\ w.conn = "up" /\ w.sess = ws[c].sess
      /\ w.pending = ws[c].pending \cup {r}
  <2>1. t \in WsRec /\ t.conn = ws[c].conn /\ t.sess = ws[c].sess /\ t.pending = ws[c].pending
    BY <1>1 DEF Touch, WsRec
  <2> HIDE DEF t
  <2> QED
    BY <1>1, <2>1 DEF WsRec
<1> HIDE DEF v, w
<1>6. req'[r] = v /\ \A q \in Requests \ {r} : req'[q] = req[q]
  BY <1>3, Types
<1>7. ws'[c] = w /\ \A d \in Ids \ {c} : ws'[d] = ws[d]
  BY <1>1, <1>2, Types
<1>8. ~relocked => \A q \in Requests \ {r} : req[q].pc # "probe"
  BY <1>1 DEF WsInv, Locked, Relies, Holding
<1> HIDE DEF c
<1>9. TypeOK'
  <2>1. ws' \in [Ids -> WsRec] /\ req' \in [Requests -> ReqRec]
    BY <1>1, <1>2, <1>3, <1>5, Types
  <2> QED
    BY <1>1, <1>5, <1>7, <2>1 DEF WsInv, TypeOK
<1>10. Registered'
  BY <1>1, <1>4, <1>5, <1>6, <1>7 DEF WsInv, Registered, Using
<1>11. OneAtATime'
  <2>1. ~relocked => ws[c].pending = {}
    BY <1>1 DEF WsInv, ProbedIdle, c
  <2>2. \A q \in Requests \ {r} : Using(q) /\ req[q].conn = c /\ ws[c].sess = "up" => relocked
    BY <1>1, <2>1 DEF WsInv, Registered
  <2>3. \A q \in Requests \ {r} : (Using(q)' <=> Using(q))
    BY <1>6 DEF Using
  <2>4. \A d \in Ids : ws'[d].sess = ws[d].sess
    BY <1>5, <1>7
  <2>5. \A q \in Requests : Using(q) => req[q].conn \in Ids
    BY DEF WsInv, InHand, Using
  <2> SUFFICES ASSUME NEW q \in Requests, NEW s \in Requests, q # s, Using(q)', Using(s)',
                      req'[q].conn = req'[s].conn, ws'[req'[q].conn].sess = "up"
               PROVE  relocked'
    BY DEF OneAtATime
  <2>6. CASE q = r
    BY <1>1, <1>4, <1>6, <2>2, <2>3, <2>4, <2>6
  <2>7. CASE s = r
    BY <1>1, <1>4, <1>6, <2>2, <2>3, <2>4, <2>7
  <2>8. CASE q # r /\ s # r
    BY <1>1, <1>6, <2>3, <2>4, <2>5, <2>8 DEF WsInv, OneAtATime
  <2> QED
    BY <2>6, <2>7, <2>8
<1>12. InHand'
  BY <1>1, <1>4, <1>5, <1>6, <1>7 DEF WsInv, InHand
<1>13. OneDialer'
  BY <1>4, <1>6 DEF WsInv, OneDialer
<1>14. Locked'
  BY <1>1, <1>4, <1>6, LockKept DEF Relies, Holding
<1>15. ProbedIdle'
  <2>1. ~relocked => \A q \in Requests : req'[q].pc # "probe"
    BY <1>4, <1>6, <1>8
  <2> QED
    BY <1>1, <2>1 DEF ProbedIdle
<1>16. DialsCounted'
  <2>1. \A q \in Requests : Advances(q)
    BY <1>4, <1>6 DEF Advances, Past
  <2>2. \A d \in Ids : ws[d] = Unused => ws'[d] = Unused
    BY <1>1, <1>7 DEF Unused
  <2> QED
    BY <1>9, <2>1, <2>2, CountKept
<1> QED
  BY <1>9, <1>10, <1>11, <1>12, <1>13, <1>14, <1>15, <1>16 DEF WsInv

\* A connection that is being dialled is in nobody else's hands.
LEMMA DialSucceedsKeeps ==
    ASSUME WsInv, NEW r \in Requests, DialSucceeds(r)
    PROVE  WsInv'
<1> DEFINE c == req[r].conn
           v == [req[r] EXCEPT !.pc = "send", !.lock = 0]
           w == [ws[c] EXCEPT !.conn = "up", !.sess = "up", !.wire = TRUE, !.sidle = FALSE,
                              !.pending = {r}]
<1>1. /\ req[r].pc = "dial" /\ c \in Ids /\ ws[c].conn = "none" /\ ws[c].sess # "none"
      /\ ws[c] \in WsRec /\ pool' = c
      /\ UNCHANGED <<sessions, table, evict, sameKey, relocked, faults>>
  BY Types DEF DialSucceeds, WsInv, InHand
<1>2. ws' = [ws EXCEPT ![c] = w]
  BY DEF DialSucceeds
<1>3. v \in ReqRec /\ req' = [req EXCEPT ![r] = v]
  BY Types DEF DialSucceeds, unlockToSend, ReqRec, Pcs
<1>4. v.pc = "send" /\ v.lock = 0 /\ v.conn = c /\ v.tries = req[r].tries
  BY Types DEF ReqRec
<1>5. w \in WsRec /\ w.conn = "up" /\ w.sess = "up" /\ w.pending = {r}
  BY <1>1 DEF WsRec
<1> HIDE DEF v, w
<1>6. req'[r] = v /\ \A q \in Requests \ {r} : req'[q] = req[q]
  BY <1>3, Types
<1>7. ws'[c] = w /\ \A d \in Ids \ {c} : ws'[d] = ws[d]
  BY <1>1, <1>2, Types
<1>8. \A q \in Requests \ {r} :
         req[q].conn = c => req[q].pc \notin {"probe", "dial", "send", "backoff", "read", "close"}
  BY <1>1 DEF WsInv, InHand, OneDialer
<1> HIDE DEF c
<1>9. TypeOK'
  <2>1. ws' \in [Ids -> WsRec] /\ req' \in [Requests -> ReqRec]
    BY <1>1, <1>2, <1>3, <1>5, Types
  <2>2. sessions # 0 => ws'[sessions].sess # "none"
    BY <1>5, <1>7, Types DEF WsInv, TypeOK
  <2> QED
    BY <1>1, <1>5, <1>7, <2>1, <2>2 DEF WsInv, TypeOK
<1>10. Registered'
  BY <1>1, <1>4, <1>5, <1>6, <1>7, <1>8 DEF WsInv, Registered, Using
<1>11. OneAtATime'
  <2>1. \A q \in Requests \ {r} : Using(q)' => Using(q) /\ req'[q].conn = req[q].conn
    BY <1>6 DEF Using
  <2>2. \A q \in Requests \ {r} : Using(q)' => req[q].conn # c /\ req[q].conn \in Ids
    BY <1>8, <2>1 DEF Using, WsInv, InHand
  <2> SUFFICES ASSUME NEW q \in Requests, NEW s \in Requests, q # s, Using(q)', Using(s)',
                      req'[q].conn = req'[s].conn, ws'[req'[q].conn].sess = "up"
               PROVE  relocked'
    BY DEF OneAtATime
  <2>3. q # r /\ s # r
    BY <1>4, <1>6, <2>1, <2>2
  <2> QED
    BY <1>1, <1>7, <2>1, <2>2, <2>3 DEF WsInv, OneAtATime
<1>12. InHand'
  <2>1. \A d \in Ids : /\ ws[d].conn # "none" => ws'[d].conn # "none"
                       /\ d # c => ws'[d] = ws[d]
    BY <1>5, <1>7
  <2>2. ws'[c].conn # "none"
    BY <1>5, <1>7
  <2> QED
    BY <1>1, <1>4, <1>6, <1>8, <2>1, <2>2 DEF WsInv, InHand
<1>13. OneDialer'
  BY <1>4, <1>6 DEF WsInv, OneDialer
<1>14. Locked'
  BY <1>1, <1>4, <1>6, LockKept DEF Relies, Holding
<1>15. ProbedIdle'
  BY <1>1, <1>4, <1>6, <1>7, <1>8 DEF WsInv, ProbedIdle, InHand
<1>16. DialsCounted'
  <2>1. \A q \in Requests : Advances(q)
    BY <1>1, <1>4, <1>6 DEF Advances, Past
  <2>2. \A d \in Ids : ws[d] = Unused => ws'[d] = Unused
    BY <1>1, <1>7 DEF Unused
  <2> QED
    BY <1>9, <2>1, <2>2, CountKept
<1> QED
  BY <1>9, <1>10, <1>11, <1>12, <1>13, <1>14, <1>15, <1>16 DEF WsInv

\* A request that dials takes a number nobody has had, and closes the session that was
\* left of the key.
LEMMA createConnectionKeeps ==
    ASSUME WsInv, NEW r \in Requests, createConnection(r)
    PROVE  WsInv'
<1> DEFINE new == CHOOSE n \in Ids : ws[n] = Unused /\ \A k \in 1 .. n - 1 : ws[k] # Unused
           fresh == [Unused EXCEPT !.sess = "dialling"]
<1>1. req[r].pc = "create" /\ UNCHANGED <<pool, table, evict, sameKey, relocked, faults>>
  BY DEF createConnection
<1>2. new \in Ids /\ ws[new] = Unused
  BY <1>1, FreeId
<1>3. /\ ws' = [d \in Ids |-> IF d = new THEN fresh
                              ELSE IF d = sessions THEN CloseSession(ws[d]) ELSE ws[d]]
      /\ sessions' = new /\ req' = [req EXCEPT ![r].pc = "dial", ![r].conn = new]
  BY DEF createConnection
<1> HIDE DEF new
<1> DEFINE v == [req[r] EXCEPT !.pc = "dial", !.conn = new]
<1>4. v \in ReqRec /\ req' = [req EXCEPT ![r] = v]
  BY <1>2, <1>3, Types DEF ReqRec, Pcs
<1>5. v.pc = "dial" /\ v.conn = new /\ v.lock = req[r].lock /\ v.tries = req[r].tries
  BY Types DEF ReqRec
<1>6. /\ fresh \in WsRec /\ fresh.conn = "none" /\ fresh.sess = "dialling" /\ fresh.pending = {}
      /\ fresh # Unused /\ Unused.conn = "none" /\ Unused.sess = "none" /\ Unused.pending = {}
  BY DEF Unused, WsRec
<1> HIDE DEF v, fresh
<1>7. req'[r] = v /\ \A q \in Requests \ {r} : req'[q] = req[q]
  BY <1>4, Types
<1>8. /\ ws'[new] = fresh
      /\ \A d \in Ids \ {new} : ws'[d] = IF d = sessions THEN CloseSession(ws[d]) ELSE ws[d]
  BY <1>2, <1>3
<1>9. \A d \in Ids \ {new} : FadesTo(ws[d], ws'[d], {})
  <2> SUFFICES ASSUME NEW d \in Ids \ {new} PROVE FadesTo(ws[d], ws'[d], {})
    OBVIOUS
  <2>1. CASE d = sessions
    <3>1. ws[d].sess # "none" /\ ws[d] \in WsRec
      BY <2>1, Types DEF WsInv, TypeOK
    <3> QED
      BY <1>8, <2>1, <3>1, CloseSessionFades
  <2>2. CASE d # sessions
    BY <1>8, <2>2, Types, FadesItself
  <2> QED
    BY <2>1, <2>2
<1>10. /\ \A q \in Requests : req[q].pc \in {"probe", "dial", "send", "backoff", "read", "close"}
                              => req[q].conn \in Ids \ {new}
       /\ \A d \in Ids : r \notin ws[d].pending
  BY <1>1, <1>2, <1>6 DEF WsInv, InHand, Registered
<1>11. TypeOK'
  <2>1. ws' \in [Ids -> WsRec]
    BY <1>3, <1>6, <1>8, <1>9 DEF FadesTo
  <2>2. req' \in [Requests -> ReqRec]
    BY <1>4, Types
  <2>3. pool # 0 => ws'[pool].conn # "none"
    BY <1>2, <1>6, <1>9, Types DEF WsInv, TypeOK, FadesTo
  <2>4. sessions' \in Ids /\ ws'[sessions'].sess # "none"
    BY <1>2, <1>3, <1>6, <1>8
  <2> QED
    BY <1>1, <2>1, <2>2, <2>3, <2>4 DEF WsInv, TypeOK
<1>12. Registered'
  <2> SUFFICES ASSUME NEW d \in Ids, NEW q \in Requests
               PROVE  /\ q \in ws'[d].pending =>
                            req'[q].conn = d /\ req'[q].pc \in {"send", "read", "close"}
                      /\ req'[q].pc \in {"send", "read"} /\ req'[q].conn = d =>
                            q \in ws'[d].pending \/ ws'[d].sess = "closed"
    BY DEF Registered, Using
  <2>1. CASE d = new
    BY <1>5, <1>6, <1>7, <1>8, <1>10, <2>1
  <2>2. CASE d # new
    <3>1. /\ q \in ws[d].pending => req[q].conn = d /\ req[q].pc \in {"send", "read", "close"}
          /\ req[q].pc \in {"send", "read"} /\ req[q].conn = d =>
                q \in ws[d].pending \/ ws[d].sess = "closed"
      BY DEF WsInv, Registered, Using
    <3>2. FadesTo(ws[d], ws'[d], {})
      BY <1>9, <2>2
    <3> QED
      BY <1>5, <1>7, <1>10, <3>1, <3>2 DEF FadesTo
  <2> QED
    BY <2>1, <2>2
<1>13. OneAtATime'
  <2> SUFFICES ASSUME NEW q \in Requests, NEW s \in Requests, q # s, Using(q)', Using(s)',
                      req'[q].conn = req'[s].conn, ws'[req'[q].conn].sess = "up"
               PROVE  relocked'
    BY DEF OneAtATime
  <2>1. /\ Using(q) /\ req'[q].conn = req[q].conn /\ Using(s) /\ req'[s].conn = req[s].conn
        /\ req[q].conn \in Ids \ {new}
    BY <1>5, <1>7, <1>10 DEF Using
  <2>2. ws[req[q].conn].sess = "up"
    BY <1>9, <2>1 DEF FadesTo
  <2> QED
    BY <1>1, <2>1, <2>2 DEF WsInv, OneAtATime
<1>14. InHand'
  <2> SUFFICES ASSUME NEW q \in Requests
               PROVE  /\ req'[q].pc \in InUse =>
                            req'[q].conn \in Ids /\ ws'[req'[q].conn].conn # "none"
                      /\ req'[q].pc = "dial" =>
                            /\ req'[q].conn \in Ids
                            /\ ws'[req'[q].conn].conn = "none"
                            /\ ws'[req'[q].conn].sess # "none"
                      /\ req'[q].pc = "backoff" => req'[q].tries < MaxRetries
    BY DEF InHand, InUse
  <2>1. CASE q = r
    BY <1>2, <1>5, <1>6, <1>7, <1>8, <2>1 DEF InUse
  <2>2. CASE q # r
    BY <1>7, <1>9, <1>10, <2>2 DEF InUse, FadesTo, WsInv, InHand
  <2> QED
    BY <2>1, <2>2
<1>15. OneDialer'
  BY <1>5, <1>7, <1>10 DEF WsInv, OneDialer
<1>16. Locked'
  BY <1>1, <1>5, <1>7, LockKept DEF Relies, Holding
<1>17. ProbedIdle'
  <2> SUFFICES ASSUME ~relocked', NEW q \in Requests, req'[q].pc = "probe"
               PROVE  ws'[req'[q].conn].pending = {}
    BY DEF ProbedIdle
  <2>1. q # r
    BY <1>5, <1>7
  <2>2. req'[q] = req[q] /\ req[q].conn \in Ids \ {new} /\ ws[req[q].conn].pending = {}
    BY <1>1, <1>7, <1>10, <2>1 DEF WsInv, ProbedIdle
  <2> QED
    BY <1>9, <2>2 DEF FadesTo
<1>18. DialsCounted'
  <2> DEFINE a == <<r, req[r].tries>>
  <2>1. Dialled' \subseteq Dialled \cup {new} /\ Dialled \subseteq Ids
    BY <1>9 DEF Dialled, FadesTo
  <2>2. a \notin Spent /\ a \in Spent' /\ Spent \subseteq Spent'
        /\ Spent' \subseteq Requests \X (0 .. MaxRetries)
    <3>1. \A q \in Requests : req[q].tries \in 0 .. MaxRetries /\ req'[q].tries = req[q].tries
      BY <1>5, <1>7, Types DEF ReqRec
    <3>2. \A q \in Requests : req[q].pc \in Past => req'[q].pc \in Past
      BY <1>1, <1>7 DEF Past
    <3>3. req[r].pc \notin Past /\ req'[r].pc \in Past
      BY <1>1, <1>5, <1>7 DEF Past
    <3>4. Spent \subseteq Spent' /\ Spent' \subseteq Requests \X (0 .. MaxRetries)
      BY <3>1, <3>2 DEF Spent
    <3>5. a \in Requests \X (0 .. MaxRetries) /\ a[1] = r /\ a[2] = req[r].tries
          /\ ~(a[2] < req[r].tries)
      BY <3>1, Bounds
    <3>6. a \notin Spent
      BY <3>3, <3>5 DEF Spent
    <3>7. a \in Spent'
      BY <3>1, <3>3, <3>5 DEF Spent
    <3> QED
      BY <3>4, <3>6, <3>7
  <2> HIDE DEF a
  <2>3. IsFiniteSet(Dialled) /\ IsFiniteSet(Dialled') /\ Cardinality(Dialled') <= Cardinality(Dialled) + 1
    <3>1. IsFiniteSet(Dialled)
      BY <2>1, Bounds, FS_Subset
    <3>2. /\ IsFiniteSet(Dialled \cup {new})
          /\ Cardinality(Dialled \cup {new}) \in {Cardinality(Dialled), Cardinality(Dialled) + 1}
      BY <3>1, FS_AddElement
    <3>3. IsFiniteSet(Dialled') /\ Cardinality(Dialled') <= Cardinality(Dialled \cup {new})
      BY <2>1, <3>2, FS_Subset
    <3>4. Cardinality(Dialled) \in Nat /\ Cardinality(Dialled') \in Nat
      BY <3>1, <3>3, FS_CardinalityType
    <3> QED
      BY <3>1, <3>2, <3>3, <3>4
  <2>4. /\ IsFiniteSet(Spent) /\ IsFiniteSet(Spent')
        /\ Cardinality(Spent) + 1 <= Cardinality(Spent')
    <3>1. IsFiniteSet(Spent')
      BY <2>2, Attempts, FS_Subset
    <3>2. IsFiniteSet(Spent)
      BY <2>2, <3>1, FS_Subset
    <3>3. Cardinality(Spent \cup {a}) = Cardinality(Spent) + 1 /\ IsFiniteSet(Spent \cup {a})
      BY <2>2, <3>2, FS_AddElement
    <3>4. Spent \cup {a} \subseteq Spent'
      BY <2>2
    <3> QED
      BY <3>1, <3>2, <3>3, <3>4, FS_Subset
  <2>5. /\ Cardinality(Dialled) \in Nat /\ Cardinality(Dialled') \in Nat
        /\ Cardinality(Spent) \in Nat /\ Cardinality(Spent') \in Nat
    BY <2>3, <2>4, FS_CardinalityType
  <2> QED
    BY <2>3, <2>4, <2>5 DEF WsInv, DialsCounted
<1> QED
  BY <1>11, <1>12, <1>13, <1>14, <1>15, <1>16, <1>17, <1>18 DEF WsInv

-----------------------------------------------------------------------------
(* The theorems. *)

\* The invariant holds at the start.
LEMMA WsInvInitially ==
    ASSUME Init
    PROVE  WsInv
<1> DEFINE r0 == [pc |-> "start", lock |-> 0, conn |-> 0, tries |-> 0]
<1>1. /\ Unused \in WsRec /\ Unused.conn = "none" /\ Unused.pending = {}
      /\ r0 \in ReqRec /\ r0.pc = "start" /\ r0.tries = 0
  BY Bounds DEF Unused, WsRec, ReqRec, Pcs
<1>2. ws = [c \in Ids |-> Unused] /\ req = [r \in Requests |-> r0] /\ relocked = FALSE
  BY DEF Init
<1> HIDE DEF r0
<1>3. TypeOK
  <2>1. ws \in [Ids -> WsRec] /\ req \in [Requests -> ReqRec]
    BY <1>1, <1>2
  <2>2. /\ evict \in [pc : {"connections", "sessions", "locks"}, alive : BOOLEAN]
        /\ pool = 0 /\ sessions = 0 /\ table = 0 /\ sameKey \in BOOLEAN /\ relocked \in BOOLEAN
    BY DEF Init
  <2>3. faults \in 0 .. MaxFaults
    BY RetriesAssumption DEF Init
  <2> QED
    BY <2>1, <2>2, <2>3 DEF TypeOK
<1>4. Registered /\ OneAtATime
  BY <1>1, <1>2 DEF Registered, OneAtATime, Using
<1>5. InHand /\ OneDialer /\ Locked /\ ProbedIdle
  BY <1>1, <1>2 DEF InHand, OneDialer, Locked, ProbedIdle, Holding, Relies
<1>6. DialsCounted
  <2>1. Dialled = {} /\ Spent \subseteq Requests \X (0 .. MaxRetries)
    BY <1>2 DEF Dialled, Spent
  <2>2. Cardinality(Dialled) = 0
    BY <2>1, FS_EmptySet
  <2>3. Cardinality(Spent) \in Nat
    BY <2>1, Attempts, FS_Subset, FS_CardinalityType
  <2> QED
    BY <2>2, <2>3 DEF DialsCounted
<1> QED
  BY <1>3, <1>4, <1>5, <1>6 DEF WsInv

\* A step that changes nothing keeps the invariant.
LEMMA WsInvStutters ==
    ASSUME WsInv, UNCHANGED vars
    PROVE  WsInv'
BY DEF vars, WsInv, TypeOK, Registered, OneAtATime, InHand, OneDialer, Locked, ProbedIdle,
       DialsCounted, Dialled, Spent, Using, Holding, Relies

\* Every step keeps the invariant.
LEMMA WsInvKept ==
    ASSUME WsInv, Next
    PROVE  WsInv'
<1>1. ASSUME Background PROVE WsInv'
  BY <1>1, EvictConnectionsKeeps, EvictSessionsKeeps, EvictLocksKeeps, HeartbeatKeeps,
     ConnectionExpiresKeeps, SessionExpiresKeeps, BreaksKeeps, HandlePongKeeps DEF Background
<1>2. ASSUME NEW r \in Requests, RequestStep(r) PROVE WsInv'
  BY <1>2, keyLockKeeps, CheckKeeps, ProbeSucceedsKeeps, ProbeFailsKeeps, WaitKeeps,
     createConnectionKeeps, DialSucceedsKeeps, DialFailsKeeps, SendSucceedsKeeps, SendFailsKeeps,
     BackoffKeeps, ReadStreamKeeps, WsResponseCloseKeeps DEF RequestStep
<1> QED
  BY <1>1, <1>2, LockKeeps DEF Next

\* The invariant of the relay: what is pending, who holds a connection and how many there are.
THEOREM WsInvariant == Spec => []WsInv
<1>1. Init => WsInv
  BY WsInvInitially
<1>2. WsInv /\ [Next]_vars => WsInv'
  BY WsInvKept, WsInvStutters
<1> QED
  BY <1>1, <1>2, PTL DEF Spec

\* Whatever breaks, expires, is evicted or retried, a request is registered with the
\* session of the connection it uses and with no other (AddPendingRequest and
\* RemovePendingRequest), and the maps of the Manager lead to connections that exist.
THEOREM RequestsRegisteredHolds == Spec => []RequestsRegistered
<1>1. WsInv => RequestsRegistered
  BY DEF WsInv, RequestsRegistered
<1> QED
  BY <1>1, WsInvariant, PTL

\* AcquireConnection gives a connection to one request at a time, as long as the lock of
\* the key is not dropped from keyLocks under a request.
THEOREM OneAtATimeHolds == Spec => []OneAtATime
<1>1. WsInv => OneAtATime
  BY DEF WsInv
<1> QED
  BY <1>1, WsInvariant, PTL

=============================================================================
