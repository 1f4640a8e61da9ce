------------------------------ MODULE Transport ------------------------------
(***************************************************************************)
(* The upstream transport of one account behind one proxy: the client in   *)
(* the shared pool (proxy/executor.go, clientPool under one key) and, in    *)
(* utls mode, each client's transport with at most one HTTP/2 connection to *)
(* the upstream host and one condition variable for the dial under way      *)
(* (proxy/utls_transport.go).                                               *)
(*                                                                         *)
(* A request creates at most one client, dials at most once and makes at    *)
(* most one condition variable, so each of these is named by the request    *)
(* that made it.  http2.ClientConn is external: a connection can take a new *)
(* request ("open"), cannot for now or because the peer is draining it      *)
(* ("full"), or is closed.                                                  *)
(***************************************************************************)
EXTENDS Naturals, FiniteSets

CONSTANTS TpRequests,   \* the requests sent through the pool
          NoOne

ASSUME TransportAssumption == NoOne \notin TpRequests

VARIABLES
    clientPool,    \* the client under the key, or NoOne
    clDropped,     \* the clients an eviction or a recycle took out of the pool
    clEvicting,    \* the expired client evictExpiredClients is about to delete, or NoOne
    tpConnections, \* client -> the connection in its map, or NoOne
    tpPending,     \* client -> the condition variable of the dial under way, or NoOne
    tpConn,        \* connection -> "none", "open", "full", "closing" or "closed"
    tpReq          \* request -> [at, client, on]

tpVars == <<clientPool, clDropped, clEvicting, tpConnections, tpPending, tpConn, tpReq>>

TransportInit ==
    /\ clientPool = NoOne
    /\ clDropped = {}
    /\ clEvicting = NoOne
    /\ tpConnections = [c \in TpRequests |-> NoOne]
    /\ tpPending = [c \in TpRequests |-> NoOne]
    /\ tpConn = [k \in TpRequests |-> "none"]
    /\ tpReq = [r \in TpRequests |-> [at |-> "new", client |-> NoOne, on |-> NoOne]]

\* CanTakeNewRequest of the connection in client c's map.
Usable(c) == tpConnections[c] # NoOne /\ tpConn[tpConnections[c]] = "open"

Go(r, at) == [tpReq EXCEPT ![r].at = at]

-----------------------------------------------------------------------------
(* The pool of clients. *)

\* getPooledClient up to its Load: the entry is touched, or a client is built.
Load(r) ==
    /\ tpReq[r].at = "new"
    /\ \/ /\ clientPool # NoOne
          /\ tpReq' = [tpReq EXCEPT ![r].at = "enter", ![r].client = clientPool]
       \/ /\ clientPool = NoOne
          /\ tpReq' = Go(r, "built")
    /\ UNCHANGED <<clientPool, clDropped, clEvicting, tpConnections, tpPending, tpConn>>

\* LoadOrStore: the client another request stored meanwhile is used instead.
LoadOrStore(r) ==
    /\ tpReq[r].at = "built"
    /\ clientPool' = IF clientPool = NoOne THEN r ELSE clientPool
    /\ tpReq' = [tpReq EXCEPT ![r].at = "enter", ![r].client = clientPool']
    /\ UNCHANGED <<clDropped, clEvicting, tpConnections, tpPending, tpConn>>

\* CloseIdleConnections of client c: only a connection that cannot take a request is
\* closed, whatever streams it still carries.
CloseIdleConnections(c) ==
    LET k == tpConnections[c] IN
    IF k = NoOne \/ Usable(c)
    THEN UNCHANGED <<tpConnections, tpConn>>
    ELSE /\ tpConnections' = [tpConnections EXCEPT ![c] = NoOne]
         /\ tpConn' = [tpConn EXCEPT ![k] = "closed"]

\* evictExpiredClients finds that the entry it was given has not been used for
\* clientPoolTTL (so long may have passed since any touch) ...
EvictChecks ==
    /\ clEvicting = NoOne
    /\ clientPool # NoOne
    /\ clEvicting' = clientPool
    /\ UNCHANGED <<clientPool, clDropped, tpConnections, tpPending, tpConn, tpReq>>

\* ... and deletes what is under the key by then, closing the idle connections of the
\* entry it was given.
EvictDeletes ==
    /\ clEvicting # NoOne
    /\ clientPool' = NoOne
    /\ clDropped' = clDropped \cup ({clientPool} \ {NoOne})
    /\ CloseIdleConnections(clEvicting)
    /\ clEvicting' = NoOne
    /\ UNCHANGED <<tpPending, tpReq>>

\* recyclePooledClient: the pooled client, which need not be the one that failed.
recyclePooledClient ==
    IF clientPool = NoOne
    THEN UNCHANGED <<clientPool, clDropped, tpConnections, tpConn>>
    ELSE /\ clientPool' = NoOne
         /\ clDropped' = clDropped \cup {clientPool}
         /\ CloseIdleConnections(clientPool)

-----------------------------------------------------------------------------
(* getOrCreateConnection, each step under the transport's mutex. *)

\* The request becomes the one that dials, under a condition variable of its own.
StartDial(r) ==
    /\ tpPending' = [tpPending EXCEPT ![tpReq[r].client] = r]
    /\ tpReq' = [tpReq EXCEPT ![r].at = "dialing", ![r].on = NoOne]

TakeConnection(r) ==
    /\ tpReq' = [tpReq EXCEPT ![r].at = "sent", ![r].on = tpConnections[tpReq[r].client]]
    /\ UNCHANGED tpPending

EnterTransport(r) ==
    LET c == tpReq[r].client IN
    /\ tpReq[r].at = "enter"
    /\ \/ Usable(c) /\ TakeConnection(r)
       \/ /\ ~Usable(c) /\ tpPending[c] # NoOne
          /\ tpReq' = [tpReq EXCEPT ![r].at = "asleep", ![r].on = tpPending[c]]
          /\ UNCHANGED tpPending
       \/ ~Usable(c) /\ tpPending[c] = NoOne /\ StartDial(r)
    /\ UNCHANGED <<clientPool, clDropped, clEvicting, tpConnections, tpConn>>

\* Mutant: A woken waiter dials without looking whether another one does.
WakesAndDials(r) ==
    /\ tpReq[r].at = "awake"
    /\ \/ Usable(tpReq[r].client) /\ TakeConnection(r)
       \/ ~Usable(tpReq[r].client) /\ StartDial(r)
    /\ UNCHANGED <<clientPool, clDropped, clEvicting, tpConnections, tpConn>>

\* A waiter that was woken: if another request is dialing by now, it waits again on the
\* condition variable it had.
WakesUp(r) ==
    LET c == tpReq[r].client IN
    /\ tpReq[r].at = "awake"
    /\ \/ Usable(c) /\ TakeConnection(r)
       \/ ~Usable(c) /\ tpPending[c] # NoOne /\ tpReq' = Go(r, "asleep") /\ UNCHANGED tpPending
       \/ ~Usable(c) /\ tpPending[c] = NoOne /\ StartDial(r)
    /\ UNCHANGED <<clientPool, clDropped, clEvicting, tpConnections, tpConn>>

\* Broadcast on the condition variable of request r, which goes on at "at".
BroadcastAnd(r, at, on) ==
    tpReq' = [q \in TpRequests |->
                IF q = r THEN [tpReq[r] EXCEPT !.at = at, !.on = on]
                ELSE IF tpReq[q].at = "asleep" /\ tpReq[q].on = r
                     THEN [tpReq[q] EXCEPT !.at = "awake"]
                     ELSE tpReq[q]]

\* createConnection failed: no connection, or no TLS or HTTP/2 on it.
DialFails(r) ==
    /\ tpReq[r].at = "dialing"
    /\ tpPending' = [tpPending EXCEPT ![tpReq[r].client] = NoOne]
    /\ BroadcastAnd(r, "done", NoOne)
    /\ UNCHANGED <<clientPool, clDropped, clEvicting, tpConnections, tpConn>>

\* createConnection succeeded: the connection replaces the one in the map, which a
\* goroutine of its own closes.
DialSucceeds(r) ==
    LET c == tpReq[r].client
        old == tpConnections[c]
    IN  /\ tpReq[r].at = "dialing"
        /\ tpPending' = [tpPending EXCEPT ![c] = NoOne]
        /\ tpConnections' = [tpConnections EXCEPT ![c] = r]
        /\ tpConn' = [k \in TpRequests |->
                        IF k = r THEN "open"
                        ELSE IF k = old /\ tpConn[k] # "closed" THEN "closing" ELSE tpConn[k]]
        /\ BroadcastAnd(r, "sent", r)
        /\ UNCHANGED <<clientPool, clDropped, clEvicting>>

-----------------------------------------------------------------------------
(* RoundTrip and ExecuteRequest. *)

\* The response's head arrives; the body is read by the handler.
ResponseArrives(r) ==
    /\ tpReq[r].at = "sent"
    /\ tpConn[tpReq[r].on] # "closed"
    /\ tpReq' = Go(r, "streaming")
    /\ UNCHANGED <<clientPool, clDropped, clEvicting, tpConnections, tpPending, tpConn>>

\* RoundTrip of the connection fails, for this request's own reasons or because the
\* connection broke: the connection leaves the map if it is still the one there ...
RoundTripFails(r) ==
    LET c == tpReq[r].client IN
    /\ tpReq[r].at = "sent"
    /\ tpConnections' = [tpConnections EXCEPT ![c] = IF @ = tpReq[r].on THEN NoOne ELSE @]
    /\ tpReq' = Go(r, "failing")
    /\ UNCHANGED <<clientPool, clDropped, clEvicting, tpPending, tpConn>>

\* ... and is closed, under every other request that uses it.
ClosesFailed(r) ==
    /\ tpReq[r].at = "failing"
    /\ tpConn' = [tpConn EXCEPT ![tpReq[r].on] = "closed"]
    /\ tpReq' = Go(r, "failed")
    /\ UNCHANGED <<clientPool, clDropped, clEvicting, tpConnections, tpPending>>

\* ExecuteRequest returns the error, and recycles the client if the error's text says
\* that the connection broke; or the handler has read the body and recycles the client
\* if the stream broke.
Finishes(r) ==
    /\ tpReq[r].at \in {"failed", "streaming"}
    /\ \/ recyclePooledClient
       \/ UNCHANGED <<clientPool, clDropped, tpConnections, tpConn>>
    /\ tpReq' = Go(r, "done")
    /\ UNCHANGED <<clEvicting, tpPending>>

-----------------------------------------------------------------------------
(* The connections. *)

\* The concurrent streams reach their limit or the peer starts draining; streams end;
\* the connection breaks; the goroutine of DialSucceeds closes the old one.
ConnectionChanges(k) ==
    /\ \/ tpConn[k] = "open" /\ tpConn' = [tpConn EXCEPT ![k] = "full"]
       \/ tpConn[k] = "full" /\ tpConn' = [tpConn EXCEPT ![k] = "open"]
       \/ tpConn[k] \in {"open", "full"} /\ tpConn' = [tpConn EXCEPT ![k] = "closed"]
    /\ UNCHANGED <<clientPool, clDropped, clEvicting, tpConnections, tpPending, tpReq>>

OldCloses(k) ==
    /\ tpConn[k] = "closing"
    /\ tpConn' = [tpConn EXCEPT ![k] = "closed"]
    /\ UNCHANGED <<clientPool, clDropped, clEvicting, tpConnections, tpPending, tpReq>>

TransportStep(r) ==
    \/ Load(r) \/ LoadOrStore(r) \/ EnterTransport(r) \/ WakesUp(r)
    \/ DialFails(r) \/ DialSucceeds(r)
    \/ ResponseArrives(r) \/ RoundTripFails(r) \/ ClosesFailed(r) \/ Finishes(r)

TransportNext ==
    \/ \E r \in TpRequests : TransportStep(r) \/ ConnectionChanges(r) \/ OldCloses(r)
    \/ EvictChecks \/ EvictDeletes

TransportSpec == TransportInit /\ [][TransportNext]_tpVars

\* The goroutine of a request runs: a dial and a round trip have their timeouts, and a
\* waiter that was woken gets the mutex.
TransportFairness == \A r \in TpRequests : WF_tpVars(TransportStep(r))

TransportFairSpec == TransportSpec /\ TransportFairness

-----------------------------------------------------------------------------
(* Properties. *)

\* Never two dials at a time in one transport, however waiters are woken
\* (getOrCreateConnection: "防止同一 host 的重复连接创建").
OneDial ==
    \A r, q \in TpRequests :
        tpReq[r].at = "dialing" /\ tpReq[q].at = "dialing"
            /\ tpReq[r].client = tpReq[q].client => r = q

\* No connection is lost while it is up: it is the one in its transport's map, where the
\* next request finds it, or somebody is about to close it (utlsRoundTripper.RoundTrip:
\* "关闭失败的连接，避免资源泄漏").
ConnectionTracked ==
    \A k \in TpRequests :
        tpConn[k] \in {"open", "full"} =>
            \/ tpConnections[tpReq[k].client] = k
            \/ \E r \in TpRequests : tpReq[r].at = "failing" /\ tpReq[r].on = k

\* One account's requests share one client: two clients of the key are in use only after
\* an eviction or a recycle took one of them out of the pool, not because two first
\* requests arrived together (getPooledClient).
OneClient ==
    \A r \in TpRequests :
        tpReq[r].client \notin {NoOne, clientPool} => tpReq[r].client \in clDropped

\* Requests of one account share one client and one dial, and no connection is left behind
\* when they race, fail or are recycled (OneDial, ConnectionTracked, OneClient).
TransportSound == OneDial /\ ConnectionTracked /\ OneClient

\* Every request gets a connection or an error: a waiter goes on when the dial it waits
\* for is over, to use the connection or to dial itself (getOrCreateConnection:
\* "如果 pending 已移除，说明创建完成（可能失败），跳出循环自己创建").
ConnectionOrError ==
    \A r \in TpRequests : tpReq[r].at = "enter" ~> tpReq[r].at \in {"sent", "done"}

=============================================================================
