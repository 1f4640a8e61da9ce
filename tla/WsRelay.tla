------------------------------- MODULE WsRelay --------------------------------
(***************************************************************************)
(* The WebSocket relay for one pool key (account, URL, session and proxy): *)
(* AcquireConnection under the key's lock, the sending of a request with   *)
(* its retries, reading and closing, against the eviction loop, the        *)
(* heartbeats and a network that breaks.  Keys do not interact.            *)
(*                                                                         *)
(* A connection and its session are created together and have one number.  *)
(* The three maps of the Manager (connections, sessions, keyLocks) change  *)
(* independently of the lock, so each step below is what lies between two  *)
(* points where another goroutine may interfere: a lock, the network, a    *)
(* wait, or the end of a Range.                                            *)
(***************************************************************************)
EXTENDS Integers, FiniteSets

CONSTANTS
    Requests,
    MaxRetries,   \* 2 in the code; a bound on how often a failed send is repeated
    MaxFaults     \* bound: how many connections break or expire

ASSUME RequestsFinite == IsFiniteSet(Requests)
ASSUME RetriesAssumption == MaxRetries \in Nat /\ MaxFaults \in Nat

VARIABLES
    ws,          \* the connections dialled so far, with their sessions
    pool,        \* Manager.connections: the key's connection, or 0
    sessions,    \* Manager.sessions: the key's session, or 0
    table,       \* Manager.keyLocks: the key's lock, or 0
    req,
    evict,       \* the eviction loop: its step and whether the key was found alive
    sameKey,     \* RemoveConnection is given the proxy that AcquireConnection used
    relocked,    \* history: the lock left keyLocks while some request relied on it
    faults       \* how many connections may still break or expire

vars == <<ws, pool, sessions, table, req, evict, sameKey, relocked, faults>>

Ids == 1 .. Cardinality(Requests) * (MaxRetries + 1)   \* every attempt dials once at most
LockIds == 1 .. Cardinality(Requests) + 1

Pcs == {"start", "lock", "check", "probe", "wait", "create", "dial", "send",
        "backoff", "read", "close", "done"}

WsRec == [conn  : {"none", "up", "closing"},              \* WsConnection.state
          sess  : {"none", "dialling", "up", "closed"},   \* Session.Connected
          wire  : BOOLEAN,           \* the network connection is intact
          idle  : BOOLEAN,           \* WsConnection.IsExpired, while it is open
          sidle : BOOLEAN,           \* Session.IsExpired, while it is connected
          beat  : BOOLEAN,           \* the heartbeat timer runs
          pending : SUBSET Requests]

ReqRec == [pc : Pcs, lock : LockIds \cup {0}, conn : Ids \cup {0}, tries : 0 .. MaxRetries]

Unused == [conn |-> "none", sess |-> "none", wire |-> FALSE, idle |-> FALSE,
           sidle |-> FALSE, beat |-> FALSE, pending |-> {}]

-----------------------------------------------------------------------------
(* Helpers. *)

go(r, pc) == req' = [req EXCEPT ![r].pc = pc]

\* The lock is released with a connection in hand, or the call is over.
unlockToSend(r) == req' = [req EXCEPT ![r].pc = "send", ![r].lock = 0]
done(r) == req' = [req EXCEPT ![r].pc = "done", ![r].lock = 0, ![r].conn = 0]

Holding(r) == req[r].pc \in {"check", "probe", "create", "dial"}
Relies(r)  == Holding(r) \/ req[r].pc \in {"lock", "wait"}
Using(r)   == req[r].pc \in {"send", "read"}

IsConnected(w) == w.conn = "up"
alive(w)       == IsConnected(w) /\ ~w.idle

\* Mutant: requests that are still in flight do not matter.
canReuseAlive(w) == alive(w)

canReuseConnection(w) == alive(w) /\ w.pending = {}

\* WsConnection.Close: only an open connection is closed.
Close(w) ==
    IF w.conn = "up" THEN [w EXCEPT !.conn = "closing", !.wire = FALSE, !.idle = FALSE] ELSE w

CloseSession(w) ==
    [w EXCEPT !.sess = "closed", !.sidle = FALSE, !.beat = FALSE, !.pending = {}]

Touch(w) == [w EXCEPT !.idle = FALSE]

RemovePendingRequest(w, r) == [w EXCEPT !.pending = @ \ {r}]

\* keyLocks.Delete.
dropLock(others) ==
    /\ table' = 0
    /\ relocked' = (relocked \/ (table # 0 /\ \E s \in others : Relies(s) /\ req[s].lock = table))

-----------------------------------------------------------------------------
(* AcquireConnection. *)

keyLock(r) ==
    /\ req[r].pc = "start"
    /\ LET new == CHOOSE l \in LockIds : \A s \in Requests : ~Relies(s) \/ req[s].lock # l
       IN  table' = IF table # 0 THEN table ELSE new
    /\ req' = [req EXCEPT ![r].pc = "lock", ![r].lock = table']
    /\ UNCHANGED <<ws, pool, sessions, evict, sameKey, relocked, faults>>

Lock(r) ==
    /\ req[r].pc = "lock"
    /\ \A s \in Requests : Holding(s) => req[s].lock # req[r].lock
    /\ go(r, "check")
    /\ UNCHANGED <<ws, pool, sessions, table, evict, sameKey, relocked, faults>>

\* An idle connection is probed, a busy one waited for, a dead one thrown away.
Check(r) ==
    /\ req[r].pc = "check"
    /\ \/ /\ pool = 0
          /\ go(r, "create")
          /\ UNCHANGED <<ws, pool, sessions>>
       \/ /\ pool # 0 /\ canReuseConnection(ws[pool])
          /\ req' = [req EXCEPT ![r].pc = "probe", ![r].conn = pool]
          /\ UNCHANGED <<ws, pool, sessions>>
       \/ /\ pool # 0 /\ ~canReuseConnection(ws[pool]) /\ alive(ws[pool])
          /\ go(r, "wait")
          /\ UNCHANGED <<ws, pool, sessions>>
       \/ /\ pool # 0 /\ ~alive(ws[pool])
          /\ ws' = [ws EXCEPT ![pool] = Close(@)]
          /\ pool' = 0
          /\ sessions' = 0
          /\ go(r, "create")
    /\ UNCHANGED <<table, evict, sameKey, relocked, faults>>

\* A broken connection may still take a ping.
ProbeSucceeds(r) ==
    /\ req[r].pc = "probe"
    /\ IsConnected(ws[req[r].conn])
    /\ LET w == ws[req[r].conn]
       IN  ws' = [ws EXCEPT ![req[r].conn] = [Touch(w) EXCEPT !.pending = w.pending \cup {r}]]
    /\ unlockToSend(r)
    /\ UNCHANGED <<pool, sessions, table, evict, sameKey, relocked, faults>>

\* Mutant: the connection that failed the probe stays where it is.
ProbeFailsKept(r) ==
    /\ req[r].pc = "probe"
    /\ ~IsConnected(ws[req[r].conn]) \/ ~ws[req[r].conn].wire
    /\ req' = [req EXCEPT ![r].pc = "start", ![r].lock = 0, ![r].conn = 0]
    /\ UNCHANGED <<ws, pool, sessions, table, evict, sameKey, relocked, faults>>

ProbeFails(r) ==
    /\ req[r].pc = "probe"
    /\ ~IsConnected(ws[req[r].conn]) \/ ~ws[req[r].conn].wire
    /\ ws' = [ws EXCEPT ![req[r].conn] = Close(@)]
    /\ pool' = 0
    /\ sessions' = 0
    /\ dropLock(Requests \ {r})
    /\ req' = [req EXCEPT ![r].pc = "start", ![r].lock = 0, ![r].conn = 0]
    /\ UNCHANGED <<evict, sameKey, faults>>

\* The 10 ms, or the end of the client's context.
Wait(r) ==
    /\ req[r].pc = "wait"
    /\ go(r, "lock") \/ done(r)
    /\ UNCHANGED <<ws, pool, sessions, table, evict, sameKey, relocked, faults>>

\* createConnection up to the dial: a session of the key that is still there is closed.
createConnection(r) ==
    /\ req[r].pc = "create"
    /\ LET new == CHOOSE n \in Ids : ws[n] = Unused /\ \A k \in 1 .. n - 1 : ws[k] # Unused
       IN  /\ ws' = [c \in Ids |->
                        IF c = new THEN [Unused EXCEPT !.sess = "dialling"]
                        ELSE IF c = sessions THEN CloseSession(ws[c]) ELSE ws[c]]
           /\ sessions' = new
           /\ req' = [req EXCEPT ![r].pc = "dial", ![r].conn = new]
    /\ UNCHANGED <<pool, table, evict, sameKey, relocked, faults>>

\* The session becomes connected even if it was closed during the dial.
DialSucceeds(r) ==
    /\ req[r].pc = "dial"
    /\ ws' = [ws EXCEPT ![req[r].conn] =
                 [@ EXCEPT !.conn = "up", !.sess = "up", !.wire = TRUE, !.sidle = FALSE,
                           !.pending = {r}]]
    /\ pool' = req[r].conn
    /\ unlockToSend(r)
    /\ UNCHANGED <<sessions, table, evict, sameKey, relocked, faults>>

DialFails(r) ==
    /\ req[r].pc = "dial"
    /\ ws' = [ws EXCEPT ![req[r].conn] = CloseSession(@)]
    /\ sessions' = 0
    /\ done(r)
    /\ UNCHANGED <<pool, table, evict, sameKey, relocked, faults>>

-----------------------------------------------------------------------------
(* ExecuteRequestViaWebsocket and WsResponse. *)

SendSucceeds(r) ==
    /\ req[r].pc = "send"
    /\ IsConnected(ws[req[r].conn])
    /\ ws' = [ws EXCEPT ![req[r].conn].beat = TRUE]
    /\ go(r, "read")
    /\ UNCHANGED <<pool, sessions, table, evict, sameKey, relocked, faults>>

\* RemoveConnection takes whatever is in the maps by now.
RemoveConnection(r) ==
    IF sameKey
    THEN /\ ws' = [c \in Ids |->
                      LET w == IF c = req[r].conn THEN RemovePendingRequest(ws[c], r) ELSE ws[c]
                      IN  IF c = pool THEN Close(w) ELSE w]
         /\ pool' = 0
         /\ sessions' = 0
         /\ dropLock(Requests \ {r})
    ELSE /\ ws' = [ws EXCEPT ![req[r].conn] = RemovePendingRequest(@, r)]
         /\ UNCHANGED <<pool, sessions, table, relocked>>

\* Mutant: the request stays registered with the session it could not use.
SendFailsPending(r) ==
    /\ req[r].pc = "send"
    /\ ~IsConnected(ws[req[r].conn]) \/ ~ws[req[r].conn].wire
    /\ IF req[r].tries < MaxRetries THEN go(r, "backoff") ELSE done(r)
    /\ UNCHANGED <<ws, pool, sessions, table, evict, sameKey, relocked, faults>>

SendFails(r) ==
    /\ req[r].pc = "send"
    /\ ~IsConnected(ws[req[r].conn]) \/ ~ws[req[r].conn].wire
    /\ \/ /\ req[r].tries < MaxRetries
          /\ RemoveConnection(r)
          /\ go(r, "backoff")
       \/ /\ req[r].tries = MaxRetries
          /\ ws' = [ws EXCEPT ![req[r].conn] = Touch(RemovePendingRequest(@, r))]
          /\ done(r)
          /\ UNCHANGED <<pool, sessions, table, relocked>>
    /\ UNCHANGED <<evict, sameKey, faults>>

Backoff(r) ==
    /\ req[r].pc = "backoff"
    /\ \/ req' = [req EXCEPT ![r].pc = "start", ![r].conn = 0, ![r].tries = @ + 1]
       \/ done(r)
    /\ UNCHANGED <<ws, pool, sessions, table, evict, sameKey, relocked, faults>>

\* The terminal event, an error, 60 seconds without a message, or a reader that stops.
ReadStream(r) ==
    /\ req[r].pc = "read"
    /\ go(r, "close")
    /\ UNCHANGED <<ws, pool, sessions, table, evict, sameKey, relocked, faults>>

WsResponseClose(r) ==
    /\ req[r].pc = "close"
    /\ ws' = [ws EXCEPT ![req[r].conn] = Touch(RemovePendingRequest(@, r))]
    /\ done(r)
    /\ UNCHANGED <<pool, sessions, table, evict, sameKey, relocked, faults>>

-----------------------------------------------------------------------------
(* evictExpired: three passes over three maps. *)

EvictConnections ==
    /\ evict.pc = "connections"
    /\ LET dead == pool # 0 /\ ~alive(ws[pool])
       IN  /\ ws' = IF dead THEN [ws EXCEPT ![pool] = Close(@)] ELSE ws
           /\ pool' = IF dead THEN 0 ELSE pool
           /\ evict' = [pc |-> "sessions", alive |-> pool # 0 /\ ~dead]
    /\ UNCHANGED <<sessions, table, req, sameKey, relocked, faults>>

EvictSessions ==
    /\ evict.pc = "sessions"
    /\ LET dead == sessions # 0 /\ (ws[sessions].sidle \/ ws[sessions].sess # "up")
       IN  /\ ws' = IF dead THEN [ws EXCEPT ![sessions] = CloseSession(@)] ELSE ws
           /\ sessions' = IF dead THEN 0 ELSE sessions
           /\ evict' = [pc |-> "locks", alive |-> evict.alive \/ (sessions # 0 /\ ~dead)]
    /\ UNCHANGED <<pool, table, req, sameKey, relocked, faults>>

EvictLocks ==
    /\ evict.pc = "locks"
    /\ IF evict.alive THEN UNCHANGED <<table, relocked>> ELSE dropLock(Requests)
    /\ evict' = [pc |-> "connections", alive |-> FALSE]
    /\ UNCHANGED <<ws, pool, sessions, req, sameKey, faults>>

-----------------------------------------------------------------------------
(* Heartbeats, time and the network. *)

\* The timer of a session fires.  A ping that is taken changes nothing.
Heartbeat(c) ==
    /\ ws[c].beat
    /\ \/ /\ ws[c].sess # "up"
          /\ ws' = [ws EXCEPT ![c].beat = FALSE]
          /\ UNCHANGED <<pool, sessions>>
       \/ /\ ws[c].sess = "up" /\ ~IsConnected(ws[c])
          /\ ws' = [ws EXCEPT ![c] = CloseSession(@)]
          /\ UNCHANGED <<pool, sessions>>
       \/ /\ ws[c].sess = "up" /\ IsConnected(ws[c]) /\ ~ws[c].wire
          /\ ws' = [ws EXCEPT ![c] = CloseSession(Close(@))]
          /\ pool' = 0
          /\ sessions' = 0
    /\ UNCHANGED <<table, req, evict, sameKey, relocked, faults>>

\* Five minutes without use: longer than any send or read lasts without touching it.
\* Expiry is only looked at by way of the maps.
ConnectionExpires(c) ==
    /\ faults > 0 /\ faults' = faults - 1
    /\ c = pool
    /\ IsConnected(ws[c]) /\ ~ws[c].idle
    /\ \A r \in Requests : req[r].conn = c => req[r].pc \notin {"send", "read", "close"}
    /\ ws' = [ws EXCEPT ![c].idle = TRUE]
    /\ UNCHANGED <<pool, sessions, table, req, evict, sameKey, relocked>>

\* Five minutes without a pong; pongs are taken while a request reads.
SessionExpires(c) ==
    /\ faults > 0 /\ faults' = faults - 1
    /\ c = sessions
    /\ ws[c].sess = "up" /\ ~ws[c].sidle
    /\ \A r \in Requests : req[r].conn = c => req[r].pc # "read"
    /\ ws' = [ws EXCEPT ![c].sidle = TRUE]
    /\ UNCHANGED <<pool, sessions, table, req, evict, sameKey, relocked>>

HandlePong(r) ==
    /\ req[r].pc = "read"
    /\ ws[req[r].conn].wire /\ ws[req[r].conn].sidle
    /\ ws' = [ws EXCEPT ![req[r].conn] = [Touch(@) EXCEPT !.sidle = FALSE]]
    /\ UNCHANGED <<pool, sessions, table, req, evict, sameKey, relocked, faults>>

\* The network fails a connection that somebody may still write to.
Breaks(c) ==
    /\ faults > 0 /\ faults' = faults - 1
    /\ ws[c].wire
    /\ c = pool \/ ws[c].beat \/ \E r \in Requests : req[r].conn = c
    /\ ws' = [ws EXCEPT ![c].wire = FALSE]
    /\ UNCHANGED <<pool, sessions, table, req, evict, sameKey, relocked>>

-----------------------------------------------------------------------------
Init ==
    /\ ws = [c \in Ids |-> Unused]
    /\ pool = 0 /\ sessions = 0 /\ table = 0
    /\ req = [r \in Requests |-> [pc |-> "start", lock |-> 0, conn |-> 0, tries |-> 0]]
    /\ evict = [pc |-> "connections", alive |-> FALSE]
    /\ sameKey \in BOOLEAN
    /\ relocked = FALSE
    /\ faults = MaxFaults

RequestStep(r) ==
    \/ keyLock(r) \/ Check(r) \/ ProbeSucceeds(r) \/ ProbeFails(r) \/ Wait(r)
    \/ createConnection(r) \/ DialSucceeds(r) \/ DialFails(r)
    \/ SendSucceeds(r) \/ SendFails(r) \/ Backoff(r) \/ ReadStream(r) \/ WsResponseClose(r)

Background ==
    \/ EvictConnections \/ EvictSessions \/ EvictLocks
    \/ \E c \in Ids : \/ Heartbeat(c) \/ ConnectionExpires(c) \/ SessionExpires(c) \/ Breaks(c)
    \/ \E r \in Requests : HandlePong(r)

Next == Background \/ \E r \in Requests : RequestStep(r) \/ Lock(r)

Spec == Init /\ [][Next]_vars

\* A goroutine runs on, dials and reads have timeouts, and a Go mutex is handed to
\* whoever waits long enough.
FairSpec == Spec /\ \A r \in Requests : WF_vars(RequestStep(r)) /\ SF_vars(Lock(r))

-----------------------------------------------------------------------------
(* Properties. *)

\* Every variable has its type, and the maps lead to connections that were dialled.
TypeOK ==
    /\ ws \in [Ids -> WsRec]
    /\ pool \in Ids \cup {0} /\ (pool # 0 => ws[pool].conn # "none")
    /\ sessions \in Ids \cup {0} /\ (sessions # 0 => ws[sessions].sess # "none")
    /\ table \in LockIds \cup {0}
    /\ req \in [Requests -> ReqRec]
    /\ evict \in [pc : {"connections", "sessions", "locks"}, alive : BOOLEAN]
    /\ sameKey \in BOOLEAN /\ relocked \in BOOLEAN /\ faults \in 0 .. MaxFaults

\* A request is registered with the session of the connection it uses and with no other
\* (AddPendingRequest, RemovePendingRequest on every way out): an entry left behind
\* would keep a connection busy for good; a missing one, while the session is open,
\* would have it handed out twice.
Registered ==
    \A c \in Ids, r \in Requests :
        /\ r \in ws[c].pending => req[r].conn = c /\ req[r].pc \in {"send", "read", "close"}
        /\ Using(r) /\ req[r].conn = c => r \in ws[c].pending \/ ws[c].sess = "closed"

\* The maps lead to connections that exist, and requests and sessions agree on who uses
\* whom (Registered).
RequestsRegistered == TypeOK /\ Registered

\* "仅在同一逻辑 session 且连接空闲时复用" (AcquireConnection): a connection carries one
\* request at a time, as long as the key's lock is not replaced while requests rely on
\* it and the session is not closed under a request.
OneAtATime ==
    \A r, s \in Requests :
        /\ r # s /\ Using(r) /\ Using(s)
        /\ req[r].conn = req[s].conn
        /\ ws[req[r].conn].sess = "up"
        => relocked

\* Whatever breaks, expires or is evicted: every request comes to an end; nobody waits
\* for ever for a connection or for the lock of its key.
Returns == \A r \in Requests : <>(req[r].pc = "done")

=============================================================================
