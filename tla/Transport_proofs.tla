--------------------------- MODULE Transport_proofs ---------------------------
(***************************************************************************)
(* Theorems about what lies between the request loop and upstream.          *)
(* Transport: one dial at a time in a transport, every connection that is   *)
(* up tracked, one client per key, for any number of requests.              *)
(* StreamTranslate: what is streamed to a client is a legal answer of its   *)
(* protocol and says what upstream said, in its order, for answers of any   *)
(* length.                                                                  *)
(* RequestTranslate: what is sent upstream pairs every call with one output *)
(* and says every text once, in its order, for conversations of any length. *)
(***************************************************************************)
EXTENDS Transport, StreamTranslate, RequestTranslate, WellFoundedInduction, NaturalsInduction,
        FiniteSetTheorems, SequenceTheorems, TLAPS

-----------------------------------------------------------------------------
(* The inductive invariant. *)

Ats == {"new", "built", "enter", "asleep", "awake", "dialing", "sent", "streaming",
        "failing", "failed", "done"}

SomeOne == TpRequests \cup {NoOne}

TransportTypes ==
    /\ clientPool \in SomeOne
    /\ clEvicting \in SomeOne
    /\ tpConnections \in [TpRequests -> SomeOne]
    /\ tpPending \in [TpRequests -> SomeOne]
    /\ tpConn \in [TpRequests -> {"none", "open", "full", "closing", "closed"}]
    /\ tpReq \in [TpRequests -> [at : Ats, client : SomeOne, on : SomeOne]]

\* The dial of request k has succeeded or failed, if it made one.
Dialed(k) == tpReq[k].at \in {"sent", "streaming", "failing", "failed", "done"}

\* A request has a client from its entry into a transport on, and while it uses one a
\* connection, which like those in the maps some request has dialed.
Equipped ==
    /\ \A r \in TpRequests :
          /\ tpReq[r].at \notin {"new", "built"} => tpReq[r].client \in TpRequests
          /\ tpReq[r].at \in {"sent", "failing"} =>
                tpReq[r].on \in TpRequests /\ Dialed(tpReq[r].on)
    /\ \A c \in TpRequests : tpConnections[c] # NoOne => Dialed(tpConnections[c])

\* The condition variable of a transport is that of the request that dials in it.
PendingDials ==
    /\ \A c \in TpRequests :
          tpPending[c] # NoOne =>
              tpReq[tpPending[c]].at = "dialing" /\ tpReq[tpPending[c]].client = c
    /\ \A r \in TpRequests : tpReq[r].at = "dialing" => tpPending[tpReq[r].client] = r

\* No connection before the dial has succeeded: a new one replaces no other of its name.
NotYetDialed == \A k \in TpRequests : Dialed(k) \/ tpConn[k] = "none"

TransportInv ==
    /\ TransportTypes
    /\ Equipped
    /\ PendingDials
    /\ NotYetDialed
    /\ ConnectionTracked
    /\ OneClient

-----------------------------------------------------------------------------
(* One lemma per action. *)

\* A request takes the client of the pool, or builds one.
LEMMA LoadKeeps ==
    ASSUME TransportInv, NEW r \in TpRequests, Load(r)
    PROVE  TransportInv'
<1>1. TransportTypes'
  BY TransportAssumption DEF TransportInv, TransportTypes, SomeOne, Ats, Equipped, Load,
                             Go
<1>2. Equipped'
  BY TransportAssumption DEF TransportInv, TransportTypes, SomeOne, Equipped, Dialed,
                             Load, Go
<1>3. PendingDials'
  BY TransportAssumption DEF TransportInv, TransportTypes, SomeOne, Equipped,
                             PendingDials, Load, Go
<1>4. NotYetDialed'
  BY TransportAssumption DEF TransportInv, TransportTypes, SomeOne, Equipped,
                             NotYetDialed, Dialed, Load, Go
<1>5. ConnectionTracked'
  BY TransportAssumption DEF TransportInv, TransportTypes, SomeOne, Equipped,
                             NotYetDialed, Dialed, ConnectionTracked, Load, Go
<1>6. OneClient'
  BY TransportAssumption DEF TransportInv, TransportTypes, SomeOne, OneClient, Load, Go
<1> QED
  BY <1>1, <1>2, <1>3, <1>4, <1>5, <1>6 DEF TransportInv

\* The first client that is stored is everybody's.
LEMMA LoadOrStoreKeeps ==
    ASSUME TransportInv, NEW r \in TpRequests, LoadOrStore(r)
    PROVE  TransportInv'
<1>1. TransportTypes'
  <2>1. clientPool' \in TpRequests
    BY TransportAssumption DEF TransportInv, TransportTypes, SomeOne, LoadOrStore
  <2>2. tpReq' \in [TpRequests -> [at : Ats, client : SomeOne, on : SomeOne]]
    <3>1. \A c \in TpRequests : [tpReq EXCEPT ![r].at = "enter", ![r].client = c]
                                 \in [TpRequests -> [at : Ats, client : SomeOne, on : SomeOne]]
      BY DEF TransportInv, TransportTypes, SomeOne, Ats
    <3> QED
      BY <2>1, <3>1 DEF LoadOrStore
  <2> QED
    BY <2>1, <2>2 DEF TransportInv, TransportTypes, SomeOne, LoadOrStore
<1>2. Equipped'
  BY TransportAssumption DEF TransportInv, TransportTypes, SomeOne, Equipped, Dialed,
                             LoadOrStore
<1>3. PendingDials'
  BY TransportAssumption DEF TransportInv, TransportTypes, SomeOne, Equipped,
                             PendingDials, LoadOrStore
<1>4. NotYetDialed'
  BY TransportAssumption DEF TransportInv, TransportTypes, SomeOne, Equipped,
                             NotYetDialed, Dialed, LoadOrStore
<1>5. ConnectionTracked'
  BY TransportAssumption DEF TransportInv, TransportTypes, SomeOne, Equipped,
                             NotYetDialed, Dialed, ConnectionTracked, LoadOrStore
<1>6. OneClient'
  BY TransportAssumption DEF TransportInv, TransportTypes, SomeOne, OneClient, LoadOrStore
<1> QED
  BY <1>1, <1>2, <1>3, <1>4, <1>5, <1>6 DEF TransportInv

\* The janitor's check of a transport keeps what it found.
LEMMA EvictChecksKeeps ==
    ASSUME TransportInv, EvictChecks
    PROVE  TransportInv'
<1>1. TransportTypes'
  BY TransportAssumption DEF TransportInv, TransportTypes, SomeOne, Ats, Equipped,
                             EvictChecks
<1>2. Equipped'
  BY TransportAssumption DEF TransportInv, TransportTypes, SomeOne, Equipped, Dialed,
                             EvictChecks
<1>3. PendingDials'
  BY TransportAssumption DEF TransportInv, TransportTypes, SomeOne, Equipped,
                             PendingDials, EvictChecks
<1>4. NotYetDialed'
  BY TransportAssumption DEF TransportInv, TransportTypes, SomeOne, Equipped,
                             NotYetDialed, Dialed, EvictChecks
<1>5. ConnectionTracked'
  BY TransportAssumption DEF TransportInv, TransportTypes, SomeOne, Equipped,
                             NotYetDialed, Dialed, ConnectionTracked, EvictChecks
<1>6. OneClient'
  BY TransportAssumption DEF TransportInv, TransportTypes, SomeOne, OneClient, EvictChecks
<1> QED
  BY <1>1, <1>2, <1>3, <1>4, <1>5, <1>6 DEF TransportInv

\* What leaves the pool is remembered as dropped, and its connection closed only when it can
\* take no request.
LEMMA EvictDeletesKeeps ==
    ASSUME TransportInv, EvictDeletes
    PROVE  TransportInv'
<1>1. TransportTypes'
  BY TransportAssumption DEF TransportInv, TransportTypes, SomeOne, Ats, Equipped,
                             EvictDeletes, CloseIdleConnections, Usable
<1>2. Equipped'
  BY TransportAssumption DEF TransportInv, TransportTypes, SomeOne, Equipped, Dialed,
                             EvictDeletes, CloseIdleConnections, Usable
<1>3. PendingDials'
  BY TransportAssumption DEF TransportInv, TransportTypes, SomeOne, Equipped,
                             PendingDials, EvictDeletes, CloseIdleConnections, Usable
<1>4. NotYetDialed'
  BY TransportAssumption DEF TransportInv, TransportTypes, SomeOne, Equipped,
                             NotYetDialed, Dialed, EvictDeletes, CloseIdleConnections,
                             Usable
<1>5. ConnectionTracked'
  BY TransportAssumption DEF TransportInv, TransportTypes, SomeOne, Equipped,
                             NotYetDialed, Dialed, ConnectionTracked, EvictDeletes,
                             CloseIdleConnections, Usable
<1>6. OneClient'
  BY TransportAssumption DEF TransportInv, TransportTypes, SomeOne, OneClient,
                             EvictDeletes, CloseIdleConnections, Usable
<1> QED
  BY <1>1, <1>2, <1>3, <1>4, <1>5, <1>6 DEF TransportInv

\* A dial starts only where no other is pending.
LEMMA EnterTransportKeeps ==
    ASSUME TransportInv, NEW r \in TpRequests, EnterTransport(r)
    PROVE  TransportInv'
<1>1. TransportTypes'
  BY TransportAssumption DEF TransportInv, TransportTypes, SomeOne, Ats, Equipped,
                             EnterTransport, Usable, TakeConnection, StartDial, Go
<1>2. Equipped'
  BY TransportAssumption DEF TransportInv, TransportTypes, SomeOne, Equipped, Dialed,
                             EnterTransport, Usable, TakeConnection, StartDial, Go
<1>3. PendingDials'
  BY TransportAssumption DEF TransportInv, TransportTypes, SomeOne, Equipped,
                             PendingDials, EnterTransport, Usable, TakeConnection,
                             StartDial, Go
<1>4. NotYetDialed'
  BY TransportAssumption DEF TransportInv, TransportTypes, SomeOne, Equipped,
                             NotYetDialed, Dialed, EnterTransport, Usable,
                             TakeConnection, StartDial, Go
<1>5. ConnectionTracked'
  BY TransportAssumption DEF TransportInv, TransportTypes, SomeOne, Equipped,
                             NotYetDialed, Dialed, ConnectionTracked, EnterTransport,
                             Usable, TakeConnection, StartDial, Go
<1>6. OneClient'
  BY TransportAssumption DEF TransportInv, TransportTypes, SomeOne, OneClient,
                             EnterTransport, Usable, TakeConnection, StartDial, Go
<1> QED
  BY <1>1, <1>2, <1>3, <1>4, <1>5, <1>6 DEF TransportInv

\* The same holds for a waiter that was woken.
LEMMA WakesUpKeeps ==
    ASSUME TransportInv, NEW r \in TpRequests, WakesUp(r)
    PROVE  TransportInv'
<1>1. TransportTypes'
  BY TransportAssumption DEF TransportInv, TransportTypes, SomeOne, Ats, Equipped,
                             WakesUp, Usable, TakeConnection, StartDial, Go
<1>2. Equipped'
  BY TransportAssumption DEF TransportInv, TransportTypes, SomeOne, Equipped, Dialed,
                             WakesUp, Usable, TakeConnection, StartDial, Go
<1>3. PendingDials'
  BY TransportAssumption DEF TransportInv, TransportTypes, SomeOne, Equipped,
                             PendingDials, WakesUp, Usable, TakeConnection, StartDial,
                             Go
<1>4. NotYetDialed'
  BY TransportAssumption DEF TransportInv, TransportTypes, SomeOne, Equipped,
                             NotYetDialed, Dialed, WakesUp, Usable, TakeConnection,
                             StartDial, Go
<1>5. ConnectionTracked'
  BY TransportAssumption DEF TransportInv, TransportTypes, SomeOne, Equipped,
                             NotYetDialed, Dialed, ConnectionTracked, WakesUp, Usable,
                             TakeConnection, StartDial, Go
<1>6. OneClient'
  BY TransportAssumption DEF TransportInv, TransportTypes, SomeOne, OneClient, WakesUp,
                             Usable, TakeConnection, StartDial, Go
<1> QED
  BY <1>1, <1>2, <1>3, <1>4, <1>5, <1>6 DEF TransportInv

\* A broadcast wakes the waiters of one condition variable and moves its request.
LEMMA BroadcastTypes ==
    ASSUME TransportInv, NEW r \in TpRequests, NEW at \in Ats, NEW on \in SomeOne,
           BroadcastAnd(r, at, on)
    PROVE  tpReq' \in [TpRequests -> [at : Ats, client : SomeOne, on : SomeOne]]
<1>1. tpReq \in [TpRequests -> [at : Ats, client : SomeOne, on : SomeOne]]
  BY DEF TransportInv, TransportTypes
<1>2. ASSUME NEW q \in TpRequests
      PROVE  tpReq'[q] \in [at : Ats, client : SomeOne, on : SomeOne]
  <2>1. [tpReq[r] EXCEPT !.at = at, !.on = on] \in [at : Ats, client : SomeOne, on : SomeOne]
    BY <1>1
  <2>2. [tpReq[q] EXCEPT !.at = "awake"] \in [at : Ats, client : SomeOne, on : SomeOne]
    BY <1>1 DEF Ats
  <2> QED
    BY <1>1, <2>1, <2>2 DEF BroadcastAnd
<1> QED
  BY <1>2 DEF BroadcastAnd

\* A dial that failed leaves the transport without a pending one.
LEMMA DialFailsKeeps ==
    ASSUME TransportInv, NEW r \in TpRequests, DialFails(r)
    PROVE  TransportInv'
<1>1. TransportTypes'
  <2>1. tpReq' \in [TpRequests -> [at : Ats, client : SomeOne, on : SomeOne]]
    BY BroadcastTypes DEF DialFails, Ats, SomeOne
  <2> QED
    BY <2>1 DEF TransportInv, TransportTypes, SomeOne, Equipped, DialFails
<1>2. Equipped'
  BY TransportAssumption DEF TransportInv, TransportTypes, SomeOne, Equipped, Dialed,
                             DialFails, BroadcastAnd
<1>3. PendingDials'
  BY TransportAssumption DEF TransportInv, TransportTypes, SomeOne, Equipped,
                             PendingDials, DialFails, BroadcastAnd
<1>4. NotYetDialed'
  BY TransportAssumption DEF TransportInv, TransportTypes, SomeOne, Equipped,
                             NotYetDialed, Dialed, DialFails, BroadcastAnd
<1>5. ConnectionTracked'
  BY TransportAssumption DEF TransportInv, TransportTypes, SomeOne, Equipped,
                             NotYetDialed, Dialed, ConnectionTracked, DialFails,
                             BroadcastAnd
<1>6. OneClient'
  BY TransportAssumption DEF TransportInv, TransportTypes, SomeOne, OneClient,
                             DialFails, BroadcastAnd
<1> QED
  BY <1>1, <1>2, <1>3, <1>4, <1>5, <1>6 DEF TransportInv

\* The new connection takes the place of the old one, which is being closed.
LEMMA DialSucceedsKeeps ==
    ASSUME TransportInv, NEW r \in TpRequests, DialSucceeds(r)
    PROVE  TransportInv'
<1>1. TransportTypes'
  <2>1. tpReq' \in [TpRequests -> [at : Ats, client : SomeOne, on : SomeOne]]
    BY BroadcastTypes DEF DialSucceeds, Ats, SomeOne
  <2> QED
    BY <2>1 DEF TransportInv, TransportTypes, SomeOne, Equipped, DialSucceeds
<1>2. Equipped'
  BY TransportAssumption DEF TransportInv, TransportTypes, SomeOne, Equipped, Dialed,
                             DialSucceeds, BroadcastAnd
<1>3. PendingDials'
  BY TransportAssumption DEF TransportInv, TransportTypes, SomeOne, Equipped,
                             PendingDials, DialSucceeds, BroadcastAnd
<1>4. NotYetDialed'
  BY TransportAssumption DEF TransportInv, TransportTypes, SomeOne, Equipped,
                             NotYetDialed, Dialed, DialSucceeds, BroadcastAnd
<1>5. ConnectionTracked'
  BY TransportAssumption DEF TransportInv, TransportTypes, SomeOne, Equipped,
                             NotYetDialed, Dialed, ConnectionTracked, DialSucceeds,
                             BroadcastAnd
<1>6. OneClient'
  BY TransportAssumption DEF TransportInv, TransportTypes, SomeOne, OneClient,
                             DialSucceeds, BroadcastAnd
<1> QED
  BY <1>1, <1>2, <1>3, <1>4, <1>5, <1>6 DEF TransportInv

\* A response arrives on the transport its request was sent on.
LEMMA ResponseArrivesKeeps ==
    ASSUME TransportInv, NEW r \in TpRequests, ResponseArrives(r)
    PROVE  TransportInv'
<1>1. TransportTypes'
  BY TransportAssumption DEF TransportInv, TransportTypes, SomeOne, Ats, Equipped,
                             ResponseArrives, Go
<1>2. Equipped'
  BY TransportAssumption DEF TransportInv, TransportTypes, SomeOne, Equipped, Dialed,
                             ResponseArrives, Go
<1>3. PendingDials'
  BY TransportAssumption DEF TransportInv, TransportTypes, SomeOne, Equipped,
                             PendingDials, ResponseArrives, Go
<1>4. NotYetDialed'
  BY TransportAssumption DEF TransportInv, TransportTypes, SomeOne, Equipped,
                             NotYetDialed, Dialed, ResponseArrives, Go
<1>5. ConnectionTracked'
  BY TransportAssumption DEF TransportInv, TransportTypes, SomeOne, Equipped,
                             NotYetDialed, Dialed, ConnectionTracked, ResponseArrives,
                             Go
<1>6. OneClient'
  BY TransportAssumption DEF TransportInv, TransportTypes, SomeOne, OneClient,
                             ResponseArrives, Go
<1> QED
  BY <1>1, <1>2, <1>3, <1>4, <1>5, <1>6 DEF TransportInv

\* A connection that leaves the map is the one its request is about to close.
LEMMA RoundTripFailsKeeps ==
    ASSUME TransportInv, NEW r \in TpRequests, RoundTripFails(r)
    PROVE  TransportInv'
<1>1. TransportTypes'
  BY TransportAssumption DEF TransportInv, TransportTypes, SomeOne, Ats, Equipped,
                             RoundTripFails, Go
<1>2. Equipped'
  BY TransportAssumption DEF TransportInv, TransportTypes, SomeOne, Equipped, Dialed,
                             RoundTripFails, Go
<1>3. PendingDials'
  BY TransportAssumption DEF TransportInv, TransportTypes, SomeOne, Equipped,
                             PendingDials, RoundTripFails, Go
<1>4. NotYetDialed'
  BY TransportAssumption DEF TransportInv, TransportTypes, SomeOne, Equipped,
                             NotYetDialed, Dialed, RoundTripFails, Go
<1>5. ConnectionTracked'
  BY TransportAssumption DEF TransportInv, TransportTypes, SomeOne, Equipped,
                             NotYetDialed, Dialed, ConnectionTracked, RoundTripFails, Go
<1>6. OneClient'
  BY TransportAssumption DEF TransportInv, TransportTypes, SomeOne, OneClient,
                             RoundTripFails, Go
<1> QED
  BY <1>1, <1>2, <1>3, <1>4, <1>5, <1>6 DEF TransportInv

\* It is closed under all who use it.
LEMMA ClosesFailedKeeps ==
    ASSUME TransportInv, NEW r \in TpRequests, ClosesFailed(r)
    PROVE  TransportInv'
<1>1. TransportTypes'
  BY TransportAssumption DEF TransportInv, TransportTypes, SomeOne, Ats, Equipped,
                             ClosesFailed, Go
<1>2. Equipped'
  BY TransportAssumption DEF TransportInv, TransportTypes, SomeOne, Equipped, Dialed,
                             ClosesFailed, Go
<1>3. PendingDials'
  BY TransportAssumption DEF TransportInv, TransportTypes, SomeOne, Equipped,
                             PendingDials, ClosesFailed, Go
<1>4. NotYetDialed'
  BY TransportAssumption DEF TransportInv, TransportTypes, SomeOne, Equipped,
                             NotYetDialed, Dialed, ClosesFailed, Go
<1>5. ConnectionTracked'
  BY TransportAssumption DEF TransportInv, TransportTypes, SomeOne, Equipped,
                             NotYetDialed, Dialed, ConnectionTracked, ClosesFailed, Go
<1>6. OneClient'
  BY TransportAssumption DEF TransportInv, TransportTypes, SomeOne, OneClient,
                             ClosesFailed, Go
<1> QED
  BY <1>1, <1>2, <1>3, <1>4, <1>5, <1>6 DEF TransportInv

\* A recycled client is dropped, and closes what it cannot use.
LEMMA FinishesKeeps ==
    ASSUME TransportInv, NEW r \in TpRequests, Finishes(r)
    PROVE  TransportInv'
<1>1. TransportTypes'
  BY TransportAssumption DEF TransportInv, TransportTypes, SomeOne, Ats, Equipped,
                             Finishes, Go, recyclePooledClient, CloseIdleConnections,
                             Usable
<1>2. Equipped'
  BY TransportAssumption DEF TransportInv, TransportTypes, SomeOne, Equipped, Dialed,
                             Finishes, Go, recyclePooledClient, CloseIdleConnections,
                             Usable
<1>3. PendingDials'
  BY TransportAssumption DEF TransportInv, TransportTypes, SomeOne, Equipped,
                             PendingDials, Finishes, Go, recyclePooledClient,
                             CloseIdleConnections, Usable
<1>4. NotYetDialed'
  BY TransportAssumption DEF TransportInv, TransportTypes, SomeOne, Equipped,
                             NotYetDialed, Dialed, Finishes, Go, recyclePooledClient,
                             CloseIdleConnections, Usable
<1>5. ConnectionTracked'
  BY TransportAssumption DEF TransportInv, TransportTypes, SomeOne, Equipped,
                             NotYetDialed, Dialed, ConnectionTracked, Finishes, Go,
                             recyclePooledClient, CloseIdleConnections, Usable
<1>6. OneClient'
  BY TransportAssumption DEF TransportInv, TransportTypes, SomeOne, OneClient, Finishes,
                             Go, recyclePooledClient, CloseIdleConnections, Usable
<1> QED
  BY <1>1, <1>2, <1>3, <1>4, <1>5, <1>6 DEF TransportInv

\* A connection that is closed never opens again.
LEMMA ConnectionChangesKeeps ==
    ASSUME TransportInv, NEW k \in TpRequests, ConnectionChanges(k)
    PROVE  TransportInv'
<1>1. TransportTypes'
  BY TransportAssumption DEF TransportInv, TransportTypes, SomeOne, Ats, Equipped,
                             ConnectionChanges
<1>2. Equipped'
  BY TransportAssumption DEF TransportInv, TransportTypes, SomeOne, Equipped, Dialed,
                             ConnectionChanges
<1>3. PendingDials'
  BY TransportAssumption DEF TransportInv, TransportTypes, SomeOne, Equipped,
                             PendingDials, ConnectionChanges
<1>4. NotYetDialed'
  BY TransportAssumption DEF TransportInv, TransportTypes, SomeOne, Equipped,
                             NotYetDialed, Dialed, ConnectionChanges
<1>5. ConnectionTracked'
  BY TransportAssumption DEF TransportInv, TransportTypes, SomeOne, Equipped,
                             NotYetDialed, Dialed, ConnectionTracked, ConnectionChanges
<1>6. OneClient'
  BY TransportAssumption DEF TransportInv, TransportTypes, SomeOne, OneClient,
                             ConnectionChanges
<1> QED
  BY <1>1, <1>2, <1>3, <1>4, <1>5, <1>6 DEF TransportInv

\* Closing the replaced transport leaves the new one alone.
LEMMA OldClosesKeeps ==
    ASSUME TransportInv, NEW k \in TpRequests, OldCloses(k)
    PROVE  TransportInv'
<1>1. TransportTypes'
  BY TransportAssumption DEF TransportInv, TransportTypes, SomeOne, Ats, Equipped,
                             OldCloses
<1>2. Equipped'
  BY TransportAssumption DEF TransportInv, TransportTypes, SomeOne, Equipped, Dialed,
                             OldCloses
<1>3. PendingDials'
  BY TransportAssumption DEF TransportInv, TransportTypes, SomeOne, Equipped,
                             PendingDials, OldCloses
<1>4. NotYetDialed'
  BY TransportAssumption DEF TransportInv, TransportTypes, SomeOne, Equipped,
                             NotYetDialed, Dialed, OldCloses
<1>5. ConnectionTracked'
  BY TransportAssumption DEF TransportInv, TransportTypes, SomeOne, Equipped,
                             NotYetDialed, Dialed, ConnectionTracked, OldCloses
<1>6. OneClient'
  BY TransportAssumption DEF TransportInv, TransportTypes, SomeOne, OneClient, OldCloses
<1> QED
  BY <1>1, <1>2, <1>3, <1>4, <1>5, <1>6 DEF TransportInv

-----------------------------------------------------------------------------
(* The invariant holds at the start and is kept by every step. *)

\* The invariant holds at the start.
LEMMA TransportInitInv == TransportInit => TransportInv
<1> SUFFICES ASSUME TransportInit PROVE TransportInv
  OBVIOUS
<1>1. TransportTypes
  BY DEF TransportInit, TransportTypes, SomeOne, Ats
<1>2. Equipped /\ PendingDials /\ NotYetDialed
  BY DEF TransportInit, Equipped, PendingDials, NotYetDialed
<1>3. ConnectionTracked /\ OneClient
  BY DEF TransportInit, ConnectionTracked, OneClient
<1> QED
  BY <1>1, <1>2, <1>3 DEF TransportInv

\* A step that changes nothing keeps the invariant.
LEMMA TransportStutter ==
    ASSUME TransportInv, UNCHANGED tpVars
    PROVE  TransportInv'
<1>1. TransportTypes' /\ Equipped' /\ PendingDials' /\ NotYetDialed'
  BY DEF TransportInv, TransportTypes, Equipped, PendingDials, NotYetDialed, Dialed, tpVars
<1>2. ConnectionTracked' /\ OneClient'
  BY DEF TransportInv, ConnectionTracked, OneClient, tpVars
<1> QED
  BY <1>1, <1>2 DEF TransportInv

\* Every step keeps the invariant.
LEMMA TransportNextInv == TransportInv /\ [TransportNext]_tpVars => TransportInv'
<1> SUFFICES ASSUME TransportInv, [TransportNext]_tpVars PROVE TransportInv'
  OBVIOUS
<1>1. ASSUME NEW r \in TpRequests, TransportStep(r)
      PROVE  TransportInv'
  BY <1>1, LoadKeeps, LoadOrStoreKeeps, EnterTransportKeeps, WakesUpKeeps, DialFailsKeeps,
     DialSucceedsKeeps, ResponseArrivesKeeps, RoundTripFailsKeeps, ClosesFailedKeeps,
     FinishesKeeps DEF TransportStep
<1> QED
  BY <1>1, ConnectionChangesKeeps, OldClosesKeeps, EvictChecksKeeps, EvictDeletesKeeps,
     TransportStutter DEF TransportNext

\* Where two requests dial in one transport, its condition variable is that of both.
LEMMA OnePending == TransportInv => OneDial
BY DEF TransportInv, TransportTypes, PendingDials, OneDial

-----------------------------------------------------------------------------
(* The theorem. *)

\* However requests of one account race, fail, wake each other or are recycled: a transport
\* dials once at a time, every connection that is up is in its map or about to be closed,
\* and two clients are in use only after one was taken out of the pool.
THEOREM TransportSoundHolds == TransportSpec => []TransportSound
<1>1. TransportInv => TransportSound
  BY OnePending DEF TransportInv, TransportSound
<1> QED
  BY <1>1, TransportInitInv, TransportNextInv, PTL DEF TransportSpec

-----------------------------------------------------------------------------
(* The translation of an answer: sequences and the events of a stream. *)

\* A sequence, of whatever it has.
Sequence(s) == s \in Seq({s[i] : i \in DOMAIN s})

\* Induction on the natural numbers, for a set.
LEMMA NaturalsFromZero ==
  ASSUME NEW T, T \subseteq Nat, 0 \in T, \A n \in T : n + 1 \in T
  PROVE  T = Nat
<1> SUFFICES ASSUME T # Nat PROVE FALSE
  OBVIOUS
<1> DEFINE Rest == Nat \ T
<1>1. PICK n \in Rest : \A k \in Rest : ~(<<k, n>> \in OpToRel(<, Nat))
  <2>1. Rest \subseteq Nat /\ Rest # {}
    OBVIOUS
  <2> HIDE DEF Rest
  <2> QED
    BY <2>1, NatLessThanWellFounded, WFMin
<1>2. n \in Nat /\ n # 0
  OBVIOUS
<1>3. n - 1 \in Nat /\ n - 1 < n
  BY <1>2
<1>4. n - 1 \in T
  <2> SUFFICES ASSUME n - 1 \notin T PROVE FALSE
    OBVIOUS
  <2>1. <<n - 1, n>> \in OpToRel(<, Nat)
    BY <1>2, <1>3 DEF OpToRel
  <2> QED
    BY <2>1, <1>1, <1>3
<1>5. (n - 1) + 1 \in T
  BY <1>4
<1>6. (n - 1) + 1 = n
  BY <1>2
<1> QED
  BY <1>5, <1>6

\* What every sequence has.
LEMMA SequenceOf ==
  ASSUME NEW s, Sequence(s)
  PROVE  Len(s) \in Nat /\ DOMAIN s = 1..Len(s)
BY DEF Sequence

\* A sequence over any set is one.
LEMMA SequenceIs ==
  ASSUME NEW S, NEW s \in Seq(S)
  PROVE  Sequence(s)
<1>1. DOMAIN s = 1..Len(s) /\ Len(s) \in Nat /\ s = [i \in 1..Len(s) |-> s[i]]
  OBVIOUS
<1>2. s \in [1..Len(s) -> {s[i] : i \in DOMAIN s}]
  BY <1>1
<1> QED
  BY <1>1, <1>2 DEF Sequence

\* Two sequences, one after the other.
LEMMA SequencesJoin ==
  ASSUME NEW a, NEW b, Sequence(a), Sequence(b)
  PROVE  /\ Sequence(a \o b)
         /\ Len(a \o b) = Len(a) + Len(b)
         /\ \A i \in 1..Len(a) : (a \o b)[i] = a[i]
         /\ \A i \in 1..Len(b) : (a \o b)[Len(a) + i] = b[i]
<1> DEFINE S == {a[i] : i \in DOMAIN a} \cup {b[i] : i \in DOMAIN b}
<1>1. a \in Seq(S) /\ b \in Seq(S)
  <2>1. a \in [1..Len(a) -> S] /\ b \in [1..Len(b) -> S] /\ Len(a) \in Nat /\ Len(b) \in Nat
    BY DEF Sequence
  <2> QED
    BY <2>1
<1> HIDE DEF S
<1>2. a \o b \in Seq(S)
  BY <1>1
<1>3. Sequence(a \o b)
  BY <1>2, SequenceIs
<1>4. /\ Len(a \o b) = Len(a) + Len(b)
      /\ \A i \in 1..Len(a) : (a \o b)[i] = a[i]
      /\ \A i \in 1..Len(b) : (a \o b)[Len(a) + i] = b[i]
  <2>1. \A j \in 1..Len(a) + Len(b) :
           (a \o b)[j] = IF j <= Len(a) THEN a[j] ELSE b[j - Len(a)]
    BY <1>1, ConcatProperties
  <2>2. Len(a) \in Nat /\ Len(b) \in Nat /\ Len(a \o b) = Len(a) + Len(b)
    BY <1>1, ConcatProperties
  <2>3. ASSUME NEW i \in 1..Len(b) PROVE (a \o b)[Len(a) + i] = b[i]
    <3>1. Len(a) + i \in 1..Len(a) + Len(b) /\ ~(Len(a) + i <= Len(a)) /\ (Len(a) + i) - Len(a) = i
      BY <2>2
    <3> QED
      BY <3>1, <2>1
  <2> QED
    BY <2>1, <2>2, <2>3
<1> QED
  BY <1>3, <1>4

\* A sequence with one more at its end.
LEMMA SequenceAdd ==
  ASSUME NEW s, NEW e, Sequence(s)
  PROVE  /\ Sequence(Append(s, e))
         /\ Len(Append(s, e)) = Len(s) + 1
         /\ Append(s, e)[Len(s) + 1] = e
         /\ \A i \in 1..Len(s) : Append(s, e)[i] = s[i]
<1> DEFINE S == {s[i] : i \in DOMAIN s} \cup {e}
<1>1. s \in Seq(S)
  <2>1. s \in [1..Len(s) -> S] /\ Len(s) \in Nat
    BY DEF Sequence
  <2> QED
    BY <2>1
<1>0. e \in S
  OBVIOUS
<1> HIDE DEF S
<1>2. Append(s, e) \in Seq(S)
  BY <1>1, <1>0
<1>3. Sequence(Append(s, e))
  BY <1>2, SequenceIs
<1>4. /\ Len(Append(s, e)) = Len(s) + 1
      /\ Append(s, e)[Len(s) + 1] = e
      /\ \A i \in 1..Len(s) : Append(s, e)[i] = s[i]
  BY <1>1, <1>0, AppendProperties
<1> QED
  BY <1>3, <1>4

\* A sequence of which one element is replaced is as long as before.
LEMMA SequenceChange ==
  ASSUME NEW s, NEW i, NEW v, Sequence(s)
  PROVE  /\ Sequence([s EXCEPT ![i] = v])
         /\ Len([s EXCEPT ![i] = v]) = Len(s)
<1> DEFINE S == {s[j] : j \in DOMAIN s} \cup {v}
           n == [s EXCEPT ![i] = v]
<1>1. DOMAIN n = 1..Len(s) /\ Len(s) \in Nat
  BY DEF Sequence
<1>2. n \in [1..Len(s) -> S]
  BY <1>1
<1>3. n \in Seq(S)
  BY <1>1, <1>2
<1>4. Sequence(n)
  BY <1>3, SequenceIs
<1>5. Len(n) \in Nat /\ DOMAIN n = 1..Len(n)
  BY <1>4, SequenceOf
<1>6. Len(n) = Len(s)
  BY <1>5, <1>1
<1> QED
  BY <1>4, <1>6

\* Sequences of none and of one.
LEMMA SequenceShort ==
  /\ Sequence(<<>>) /\ Len(<<>>) = 0
  /\ \A e : Sequence(<<e>>) /\ Len(<<e>>) = 1 /\ <<e>>[1] = e
<1>1. Sequence(<<>>)
  <2>1. <<>> \in Seq({})
    OBVIOUS
  <2> QED
    BY <2>1, SequenceIs
<1>2. ASSUME NEW e PROVE Sequence(<<e>>)
  <2>1. <<e>> \in Seq({e})
    OBVIOUS
  <2> QED
    BY <2>1, SequenceIs
<1> QED
  BY <1>1, <1>2

\* got lists what a client that had c has after 0, 1, ... n of the events.
ReadAs(c, out, n, got) ==
    got = [i \in 0..n |-> IF i = 0 THEN c ELSE ReceiveEvent(got[i - 1], out[i])]

\* There is such a list for any number of events.
LEMMA ReadingExists ==
  ASSUME NEW c, NEW out
  PROVE  \A n \in Nat : \E got : ReadAs(c, out, n, got)
<1> DEFINE T == {n \in Nat : \E got : ReadAs(c, out, n, got)}
<1>1. 0 \in T
  <2> DEFINE g == [i \in 0..0 |-> c]
  <2>1. ReadAs(c, out, 0, g)
    BY DEF ReadAs
  <2> QED
    BY <2>1
<1>2. ASSUME NEW n \in T PROVE n + 1 \in T
  <2>1. PICK got : ReadAs(c, out, n, got)
    OBVIOUS
  <2> DEFINE g == [i \in 0..(n + 1) |->
                      IF i = n + 1 THEN ReceiveEvent(got[n], out[n + 1]) ELSE got[i]]
  <2>2. ASSUME NEW i \in 0..(n + 1)
        PROVE  g[i] = IF i = 0 THEN c ELSE ReceiveEvent(g[i - 1], out[i])
    <3>1. CASE i = n + 1
      <4>1. i # 0 /\ i - 1 = n /\ n \in 0..(n + 1) /\ n # n + 1
        BY <3>1
      <4> QED
        BY <3>1, <4>1
    <3>2. CASE i # n + 1
      <4>1. i \in 0..n
        BY <3>2
      <4>2. got[i] = IF i = 0 THEN c ELSE ReceiveEvent(got[i - 1], out[i])
        BY <4>1, <2>1 DEF ReadAs
      <4>3. g[i] = got[i]
        BY <3>2
      <4>4. i # 0 => i - 1 \in 0..(n + 1) /\ i - 1 # n + 1
        BY <4>1
      <4>5. i # 0 => g[i - 1] = got[i - 1]
        BY <4>4
      <4> QED
        BY <4>2, <4>3, <4>5
    <3> QED
      BY <3>1, <3>2
  <2>3. g = [i \in 0..(n + 1) |-> g[i]]
    OBVIOUS
  <2> HIDE DEF g
  <2>4. ReadAs(c, out, n + 1, g)
    BY <2>2, <2>3 DEF ReadAs
  <2> QED
    BY <2>4
<1>3. T = Nat
  <2> HIDE DEF T
  <2>1. T \subseteq Nat
    BY DEF T
  <2> QED
    BY <1>1, <1>2, <2>1, NaturalsFromZero
<1> QED
  BY <1>3

\* The list, step by step.
LEMMA ReadingIs ==
  ASSUME NEW c, NEW out, NEW n \in Nat, NEW got, ReadAs(c, out, n, got)
  PROVE  /\ got[0] = c
         /\ \A i \in 0..n : i # 0 => got[i] = ReceiveEvent(got[i - 1], out[i])
BY DEF ReadAs

\* What the client has received is the last of the list.
LEMMA ReceivedIs ==
  ASSUME NEW c, NEW out, Sequence(out)
  PROVE  \E got : ReadAs(c, out, Len(out), got) /\ Received(c, out) = got[Len(out)]
<1> DEFINE got == CHOOSE g : ReadAs(c, out, Len(out), g)
<1>1. ReadAs(c, out, Len(out), got)
  BY ReadingExists, SequenceOf
<1>2. Received(c, out) = got[Len(out)]
  BY DEF Received, ReadAs
<1> QED
  BY <1>1, <1>2

\* No event changes nothing.
LEMMA ReceivedNone ==
  ASSUME NEW c
  PROVE  Received(c, <<>>) = c
<1>1. Sequence(<<>>) /\ Len(<<>>) = 0
  BY SequenceShort
<1>2. PICK got : ReadAs(c, <<>>, 0, got) /\ Received(c, <<>>) = got[0]
  BY <1>1, ReceivedIs
<1>3. got[0] = c
  BY <1>2, ReadingIs
<1> QED
  BY <1>2, <1>3

\* One event is what ReceiveEvent makes of it.
LEMMA ReceivedOne ==
  ASSUME NEW c, NEW e
  PROVE  Received(c, <<e>>) = ReceiveEvent(c, e)
<1>1. Sequence(<<e>>) /\ Len(<<e>>) = 1 /\ <<e>>[1] = e
  BY SequenceShort
<1>2. PICK got : ReadAs(c, <<e>>, 1, got) /\ Received(c, <<e>>) = got[1]
  BY <1>1, ReceivedIs
<1>3. got[1 - 1] = c /\ got[1] = ReceiveEvent(got[1 - 1], <<e>>[1])
  BY <1>2, ReadingIs
<1> QED
  BY <1>1, <1>2, <1>3

\* Events that come after others are read with what these left.
LEMMA ReceivedJoin ==
  ASSUME NEW c, NEW a, NEW b, Sequence(a), Sequence(b)
  PROVE  Received(c, a \o b) = Received(Received(c, a), b)
<1>1. PICK f : ReadAs(c, a, Len(a), f) /\ Received(c, a) = f[Len(a)]
  BY ReceivedIs
<1>2. PICK g : ReadAs(f[Len(a)], b, Len(b), g) /\ Received(f[Len(a)], b) = g[Len(b)]
  BY ReceivedIs
<1>3. PICK h : ReadAs(c, a \o b, Len(a \o b), h) /\ Received(c, a \o b) = h[Len(a \o b)]
  BY ReceivedIs, SequencesJoin
<1>4. /\ Len(a) \in Nat /\ Len(b) \in Nat /\ Len(a \o b) = Len(a) + Len(b)
      /\ \A i \in 1..Len(a) : (a \o b)[i] = a[i]
      /\ \A i \in 1..Len(b) : (a \o b)[Len(a) + i] = b[i]
  BY SequencesJoin, SequenceOf
<1>a. f[0] = c /\ \A i \in 0..Len(a) : i # 0 => f[i] = ReceiveEvent(f[i - 1], a[i])
  BY <1>1, <1>4, ReadingIs
<1>b. g[0] = f[Len(a)] /\ \A i \in 0..Len(b) : i # 0 => g[i] = ReceiveEvent(g[i - 1], b[i])
  <2> DEFINE d == f[Len(a)]
             n == Len(b)
  <2>1. ReadAs(d, b, n, g) /\ n \in Nat
    BY <1>2, <1>4
  <2> HIDE DEF d, n
  <2>2. g[0] = d
    BY <2>1, ReadingIs
  <2>3. \A i \in 0..n : i # 0 => g[i] = ReceiveEvent(g[i - 1], b[i])
    BY <2>1, ReadingIs
  <2> QED
    BY <2>2, <2>3 DEF d, n
<1>c. /\ h[0] = c
      /\ \A i \in 0..(Len(a) + Len(b)) : i # 0 => h[i] = ReceiveEvent(h[i - 1], (a \o b)[i])
  <2>1. Len(a) + Len(b) \in Nat
    BY <1>4
  <2>2. ReadAs(c, a \o b, Len(a) + Len(b), h)
    BY <1>3, <1>4
  <2> DEFINE ab == a \o b
             n == Len(a) + Len(b)
  <2>3. n \in Nat /\ ReadAs(c, ab, n, h)
    BY <2>1, <2>2
  <2> HIDE DEF ab, n
  <2>4. h[0] = c /\ \A i \in 0..n : i # 0 => h[i] = ReceiveEvent(h[i - 1], ab[i])
    BY <2>3, ReadingIs
  <2> QED
    BY <2>4 DEF ab, n
<1>5. /\ f[0] = c /\ h[0] = c /\ g[0] = f[Len(a)]
      /\ \A i \in 0..Len(a) : i # 0 => f[i] = ReceiveEvent(f[i - 1], a[i])
      /\ \A i \in 0..Len(b) : i # 0 => g[i] = ReceiveEvent(g[i - 1], b[i])
      /\ \A i \in 0..(Len(a) + Len(b)) : i # 0 => h[i] = ReceiveEvent(h[i - 1], (a \o b)[i])
  BY <1>a, <1>b, <1>c
<1> DEFINE T == {n \in Nat : n <= Len(a) => h[n] = f[n]}
           U == {n \in Nat : n <= Len(b) => h[Len(a) + n] = g[n]}
<1>6. T = Nat
  <2>1. 0 \in T
    BY <1>5
  <2>2. ASSUME NEW n \in T PROVE n + 1 \in T
    <3> SUFFICES ASSUME n + 1 <= Len(a) PROVE h[n + 1] = f[n + 1]
      OBVIOUS
    <3>1. /\ h[n] = f[n] /\ n + 1 \in 1..Len(a) /\ n + 1 \in 0..(Len(a) + Len(b))
          /\ n + 1 \in 0..Len(a) /\ n + 1 # 0 /\ (n + 1) - 1 = n
      BY <1>4
    <3>2. h[n + 1] = ReceiveEvent(h[n], (a \o b)[n + 1]) /\ f[n + 1] = ReceiveEvent(f[n], a[n + 1])
      BY <1>5, <3>1
    <3>3. (a \o b)[n + 1] = a[n + 1]
      BY <1>4, <3>1
    <3> QED
      BY <3>1, <3>2, <3>3
  <2>3. T \subseteq Nat
    OBVIOUS
  <2> HIDE DEF T
  <2> QED
    BY <2>1, <2>2, <2>3, NaturalsFromZero
<1>7. U = Nat
  <2>1. 0 \in U
    <3>1. Len(a) \in T
      BY <1>4, <1>6
    <3> QED
      BY <1>4, <1>5, <3>1
  <2>2. ASSUME NEW n \in U PROVE n + 1 \in U
    <3> SUFFICES ASSUME n + 1 <= Len(b) PROVE h[Len(a) + (n + 1)] = g[n + 1]
      OBVIOUS
    <3> DEFINE m == Len(a) + (n + 1)
    <3>1. h[Len(a) + n] = g[n] /\ n + 1 \in 1..Len(b) /\ n + 1 \in 0..Len(b)
          /\ n + 1 # 0 /\ (n + 1) - 1 = n
      BY <1>4
    <3>2. m \in 0..(Len(a) + Len(b)) /\ m # 0 /\ m - 1 = Len(a) + n
      BY <1>4, <3>1
    <3>3. (a \o b)[m] = b[n + 1]
      BY <1>4, <3>1
    <3>4. g[n + 1] = ReceiveEvent(g[n], b[n + 1])
      BY <1>5, <3>1
    <3>5. h[m] = ReceiveEvent(h[m - 1], (a \o b)[m])
      <4> HIDE DEF m
      <4> QED
        BY <1>5, <3>2
    <3> QED
      BY <3>1, <3>2, <3>3, <3>4, <3>5
  <2>3. U \subseteq Nat
    OBVIOUS
  <2> HIDE DEF U
  <2> QED
    BY <2>1, <2>2, <2>3, NaturalsFromZero
<1>8. Len(b) \in U
  BY <1>4, <1>7
<1>9. h[Len(a) + Len(b)] = g[Len(b)]
  BY <1>4, <1>8
<1> QED
  BY <1>1, <1>2, <1>3, <1>4, <1>9

\* What the client has, without the types of texts and pieces.
Client(c) ==
    /\ c = [f \in DOMAIN c |-> c[f]]
    /\ DOMAIN c = {"started", "blocks", "text", "open", "stop", "ended", "bad"}
    /\ c.started \in BOOLEAN /\ c.open \in BOOLEAN /\ c.ended \in BOOLEAN /\ c.bad \in BOOLEAN
    /\ Sequence(c.blocks)

\* A client that has its answer takes nothing more.
LEMMA AnswerStaysEnded ==
  ASSUME NEW c, NEW out, Client(c), c.ended, Sequence(out)
  PROVE  Client(Received(c, out)) /\ Received(c, out).ended
<1>1. PICK got : ReadAs(c, out, Len(out), got) /\ Received(c, out) = got[Len(out)]
  BY ReceivedIs
<1>2. /\ got[0] = c
      /\ \A i \in 0..Len(out) : i # 0 => got[i] = ReceiveEvent(got[i - 1], out[i])
  <2>1. Len(out) \in Nat
    BY SequenceOf
  <2> QED
    BY <1>1, <2>1, ReadingIs
<1> DEFINE T == {n \in Nat : n <= Len(out) => Client(got[n]) /\ got[n].ended}
<1>3. 0 \in T
  BY <1>2
<1>4. ASSUME NEW n \in T PROVE n + 1 \in T
  <2> SUFFICES ASSUME n + 1 <= Len(out) PROVE Client(got[n + 1]) /\ got[n + 1].ended
    OBVIOUS
  <2>1. n + 1 \in 0..Len(out) /\ n + 1 # 0 /\ (n + 1) - 1 = n /\ n <= Len(out)
    BY SequenceOf
  <2>2. Client(got[n]) /\ got[n].ended
    BY <2>1
  <2>3. got[n + 1] = ReceiveEvent(got[n], out[n + 1])
    BY <1>2, <2>1
  <2>4. got[n + 1] = [got[n] EXCEPT !.bad = TRUE]
    BY <2>2, <2>3 DEF ReceiveEvent
  <2> QED
    BY <2>2, <2>4 DEF Client
<1>5. T = Nat
  <2>1. T \subseteq Nat
    OBVIOUS
  <2> HIDE DEF T
  <2> QED
    BY <1>3, <1>4, <2>1, NaturalsFromZero
<1>6. Len(out) \in T
  BY <1>5, SequenceOf
<1> QED
  BY <1>1, <1>6, SequenceOf

-----------------------------------------------------------------------------
(* Messages: the translator and its client. *)

\* A translator, without the types of its buffer and its calls.
Translator(t) ==
    /\ t = [f \in DOMAIN t |-> t[f]]
    /\ DOMAIN t = {"start", "index", "open", "type", "buffer", "tools", "map"}
    /\ t.start \in BOOLEAN /\ t.open \in BOOLEAN

\* The translator of Messages knows what its client has: whether the message has begun,
\* how many blocks there are, and whether the last one is open and of which kind.
InStep(c, t) ==
    /\ Client(c) /\ ~c.bad /\ ~c.ended /\ c.stop = "none"
    /\ t.start = c.started
    /\ t.open = c.open
    /\ t.index = Len(c.blocks)
    /\ t.open => t.start /\ t.index > 0 /\ c.blocks[t.index].kind = t.type

\* What a handler of Messages' translator writes keeps them in step.
KeepsInStep(c, w) ==
    /\ Sequence(w.out)
    /\ Translator(w.t)
    /\ InStep(Received(c, w.out), w.t)

\* Two handlers, one after the other, keep client and translator in step.
LEMMA StepsJoin ==
  ASSUME NEW c, NEW w, NEW v, KeepsInStep(c, w), KeepsInStep(Received(c, w.out), v)
  PROVE  KeepsInStep(c, Written(v.t, w.out \o v.out))
<1>1. Sequence(w.out \o v.out)
  BY SequencesJoin DEF KeepsInStep
<1>2. Received(c, w.out \o v.out) = Received(Received(c, w.out), v.out)
  BY ReceivedJoin DEF KeepsInStep
<1> QED
  BY <1>1, <1>2 DEF KeepsInStep, Written

\* A handler that writes nothing.
LEMMA StepOfNothing ==
  ASSUME NEW c, NEW t, Translator(t), InStep(c, t)
  PROVE  KeepsInStep(c, Written(t, <<>>))
BY SequenceShort, ReceivedNone DEF KeepsInStep, Written

\* A handler that writes one event.
LEMMA StepOfOne ==
  ASSUME NEW c, NEW t, NEW e, Translator(t), InStep(ReceiveEvent(c, e), t)
  PROVE  KeepsInStep(c, Written(t, <<e>>))
BY SequenceShort, ReceivedOne DEF KeepsInStep, Written

\* A pair, and an element more, as sequences that are joined.
LEMMA JoinedSequences ==
  /\ \A a, b : <<a, b>> = <<a>> \o <<b>>
  /\ \A s, e : Sequence(s) => Append(s, e) = s \o <<e>>
<1>1. ASSUME NEW a, NEW b PROVE <<a, b>> = <<a>> \o <<b>>
  <2>1. <<a>> \in Seq({a, b}) /\ b \in {a, b} /\ <<a, b>> = Append(<<a>>, b)
    OBVIOUS
  <2> QED
    BY <2>1, AppendIsConcat
<1>2. ASSUME NEW s, NEW e, Sequence(s) PROVE Append(s, e) = s \o <<e>>
  <2> DEFINE S == {s[i] : i \in DOMAIN s} \cup {e}
  <2>1. s \in Seq(S) /\ e \in S
    <3>1. s \in [1..Len(s) -> S] /\ Len(s) \in Nat
      BY <1>2 DEF Sequence
    <3> QED
      BY <3>1
  <2> HIDE DEF S
  <2> QED
    BY <2>1, AppendIsConcat
<1> QED
  BY <1>1, <1>2

\* handleCreated keeps them in step, and the message has begun.
LEMMA CreatedInStep ==
  ASSUME NEW c, NEW t, Translator(t), InStep(c, t)
  PROVE  KeepsInStep(c, handleCreated(t)) /\ handleCreated(t).t.start
<1>1. CASE t.start
  BY <1>1, StepOfNothing DEF handleCreated, Written
<1>2. CASE ~t.start
  <2> DEFINE n == [t EXCEPT !.start = TRUE]
             e == [type |-> "message_start"]
  <2>1. handleCreated(t) = Written(n, <<e>>)
    BY <1>2 DEF handleCreated
  <2>2. ReceiveEvent(c, e) = [c EXCEPT !.started = TRUE]
    BY <1>2 DEF InStep, Client, ReceiveEvent
  <2>3. Translator(n) /\ n.start
    BY DEF Translator
  <2>4. InStep(ReceiveEvent(c, e), n)
    <3> DEFINE d == [c EXCEPT !.started = TRUE]
    <3>1. /\ Client(d) /\ d.started /\ d.blocks = c.blocks /\ d.open = c.open
          /\ d.stop = c.stop /\ d.ended = c.ended /\ d.bad = c.bad
      BY DEF InStep, Client
    <3>2. n.start /\ n.open = t.open /\ n.index = t.index /\ n.type = t.type
      BY DEF Translator
    <3> HIDE DEF d, n
    <3>3. InStep(d, n)
      BY <3>1, <3>2, <1>2 DEF InStep, Client
    <3> QED
      BY <2>2, <3>3 DEF d
  <2> HIDE DEF n, e
  <2>5. KeepsInStep(c, Written(n, <<e>>))
    BY <2>3, <2>4, StepOfOne
  <2> QED
    BY <2>1, <2>3, <2>5 DEF Written
<1> QED
  BY <1>1, <1>2

\* Pieces for the block that is open.
LEMMA DeltaInStep ==
  ASSUME NEW c, NEW t, NEW p, Translator(t), InStep(c, t), t.open
  PROVE  LET e == [type |-> "content_block_delta", index |-> t.index - 1,
                  kind |-> t.type, pieces |-> p]
         IN  InStep(ReceiveEvent(c, e), t) /\ KeepsInStep(c, Written(t, <<e>>))
<1> DEFINE e == [type |-> "content_block_delta", index |-> t.index - 1,
                kind |-> t.type, pieces |-> p]
           d == ReceiveEvent(c, e)
           v == [c.blocks[t.index] EXCEPT !.pieces = @ \o p]
<1>1. d = [c EXCEPT !.blocks[Len(c.blocks)].pieces = @ \o p]
  BY DEF InStep, Client, ReceiveEvent
<1>2. d.blocks = [c.blocks EXCEPT ![t.index] = v]
  BY <1>1 DEF InStep, Client
<1>3. Sequence(d.blocks) /\ Len(d.blocks) = Len(c.blocks)
  <2>1. Sequence(c.blocks)
    BY DEF InStep, Client
  <2> HIDE DEF v, d
  <2>2. /\ Sequence([c.blocks EXCEPT ![t.index] = v])
        /\ Len([c.blocks EXCEPT ![t.index] = v]) = Len(c.blocks)
    BY <2>1, SequenceChange
  <2> QED
    BY <1>2, <2>2
<1>4. d.blocks[t.index].kind = c.blocks[t.index].kind
  <2>1. t.index \in DOMAIN c.blocks
    BY SequenceOf DEF InStep, Client
  <2>2. v.kind = c.blocks[t.index].kind
    OBVIOUS
  <2> HIDE DEF v, d
  <2> QED
    BY <2>1, <2>2, <1>2
<1>5. d = [c EXCEPT !.blocks = d.blocks]
  BY <1>1 DEF InStep, Client
<1> HIDE DEF d, v
<1>6. Client(d) /\ ~d.bad /\ ~d.ended /\ d.stop = "none" /\ d.started = c.started /\ d.open = c.open
  BY <1>3, <1>5 DEF InStep, Client
<1>7. InStep(d, t)
  BY <1>3, <1>4, <1>6 DEF InStep
<1> HIDE DEF e
<1>8. KeepsInStep(c, Written(t, <<e>>))
  BY <1>7, StepOfOne DEF d
<1> QED
  BY <1>7, <1>8 DEF d, e

\* closeCurrentBlock keeps them in step, and no block is open.
LEMMA ClosedInStep ==
  ASSUME NEW c, NEW t, Translator(t), InStep(c, t)
  PROVE  /\ KeepsInStep(c, closeCurrentBlock(t))
         /\ closeCurrentBlock(t).t.start = t.start
         /\ ~closeCurrentBlock(t).t.open
<1>1. CASE ~t.open
  BY <1>1, StepOfNothing DEF closeCurrentBlock, Written
<1>2. ASSUME NEW d, NEW u, Translator(u), InStep(d, u), u.open, u.index = t.index
      PROVE  KeepsInStep(d, Written([u EXCEPT !.open = FALSE], <<BlockStop(t)>>))
  <2> DEFINE n == [u EXCEPT !.open = FALSE]
             e == BlockStop(t)
  <2>1. ReceiveEvent(d, e) = [d EXCEPT !.open = FALSE]
    BY <1>2 DEF InStep, Client, ReceiveEvent, BlockStop
  <2>2. Translator(n)
    BY <1>2 DEF Translator
  <2>3. InStep(ReceiveEvent(d, e), n)
    <3> DEFINE f == [d EXCEPT !.open = FALSE]
    <3>1. /\ Client(f) /\ f.started = d.started /\ f.blocks = d.blocks /\ f.open = FALSE
          /\ f.stop = d.stop /\ f.ended = d.ended /\ f.bad = d.bad
      BY <1>2 DEF InStep, Client
    <3>2. n.start = u.start /\ n.open = FALSE /\ n.index = u.index
      BY <1>2 DEF Translator
    <3> HIDE DEF f, n
    <3>3. InStep(f, n)
      BY <3>1, <3>2, <1>2 DEF InStep, Client
    <3> QED
      BY <2>1, <3>3 DEF f
  <2> HIDE DEF n, e
  <2>4. KeepsInStep(d, Written(n, <<e>>))
    BY <2>2, <2>3, StepOfOne
  <2> QED
    BY <2>4 DEF n, e
<1>3. CASE t.open /\ ~(t.type = "function_call" /\ t.buffer # <<>>)
  <2>1. closeCurrentBlock(t) = Written([t EXCEPT !.open = FALSE], <<BlockStop(t)>>)
    BY <1>3 DEF closeCurrentBlock
  <2>2. [t EXCEPT !.open = FALSE].start = t.start /\ ~[t EXCEPT !.open = FALSE].open
    BY DEF Translator
  <2>3. KeepsInStep(c, closeCurrentBlock(t))
    BY <1>2, <1>3, <2>1
  <2>4. closeCurrentBlock(t).t = [t EXCEPT !.open = FALSE]
    BY <2>1 DEF Written
  <2> QED
    BY <2>2, <2>3, <2>4
<1>4. CASE t.open /\ t.type = "function_call" /\ t.buffer # <<>>
  <2> DEFINE n == [t EXCEPT !.buffer = <<>>]
             m == [t EXCEPT !.open = FALSE, !.buffer = <<>>]
             e == Arguments(t)
             s == BlockStop(t)
  <2>1. closeCurrentBlock(t) = Written(m, <<e, s>>)
    BY <1>4 DEF closeCurrentBlock
  <2>3. Translator(n) /\ n.open /\ n.index = t.index /\ n.type = t.type /\ n.start = t.start
        /\ m = [n EXCEPT !.open = FALSE]
        /\ m.start = t.start /\ ~m.open
    BY <1>4 DEF Translator
  <2>4. InStep(c, n)
    BY <1>4, <2>3 DEF InStep
  <2>5. KeepsInStep(c, Written(n, <<e>>)) /\ InStep(ReceiveEvent(c, e), n)
    <3>1. e = [type |-> "content_block_delta", index |-> n.index - 1,
               kind |-> n.type, pieces |-> t.buffer]
      BY <1>4, <2>3 DEF Arguments
    <3> HIDE DEF n, e
    <3> QED
      BY <2>3, <2>4, <3>1, DeltaInStep
  <2> HIDE DEF n, m, e
  <2>6. KeepsInStep(ReceiveEvent(c, e), Written(m, <<s>>))
    BY <1>2, <2>3, <2>5
  <2>7. KeepsInStep(c, Written(m, <<e>> \o <<s>>))
    <3> DEFINE w == Written(n, <<e>>)
               v == Written(m, <<s>>)
    <3>1. w.out = <<e>> /\ v.out = <<s>> /\ v.t = m
      BY DEF Written
    <3>2. KeepsInStep(c, w) /\ KeepsInStep(Received(c, w.out), v)
      BY <2>5, <2>6, <3>1, ReceivedOne
    <3> HIDE DEF w, v
    <3>3. KeepsInStep(c, Written(v.t, w.out \o v.out))
      BY <3>2, StepsJoin
    <3> QED
      BY <3>1, <3>3
  <2>8. <<e>> \o <<s>> = <<e, s>>
    BY JoinedSequences
  <2>9. closeCurrentBlock(t).t = m
    BY <2>1 DEF Written
  <2> QED
    BY <2>1, <2>3, <2>7, <2>8, <2>9
<1> QED
  BY <1>1, <1>3, <1>4 DEF Translator

\* openBlock keeps them in step, and a block of the kind is open.
LEMMA OpenedInStep ==
  ASSUME NEW c, NEW t, NEW kind, Translator(t), InStep(c, t), t.start
  PROVE  /\ KeepsInStep(c, openBlock(t, kind))
         /\ openBlock(t, kind).t.open /\ openBlock(t, kind).t.type = kind
<1> DEFINE w == closeCurrentBlock(t)
           d == Received(c, w.out)
           n == [w.t EXCEPT !.index = @ + 1, !.open = TRUE, !.type = kind,
                            !.tools = @ \/ kind = "function_call"]
           e == [type |-> "content_block_start", index |-> w.t.index, kind |-> kind]
           b == [kind |-> kind, pieces |-> <<>>]
<1>1. KeepsInStep(c, w) /\ w.t.start /\ ~w.t.open
  BY ClosedInStep
<1>2. openBlock(t, kind) = Written(n, Append(w.out, e))
  BY DEF openBlock
<1>3. Translator(w.t) /\ InStep(d, w.t) /\ Sequence(w.out)
  BY <1>1 DEF KeepsInStep
<1> HIDE DEF w, d
<1>4. /\ Translator(n) /\ n.start = w.t.start /\ n.index = w.t.index + 1
      /\ n.open = TRUE /\ n.type = kind
  BY <1>3 DEF Translator
<1>5. ReceiveEvent(d, e) = [d EXCEPT !.open = TRUE, !.blocks = Append(@, b)]
  BY <1>1, <1>3 DEF InStep, Client, Translator, ReceiveEvent
<1>6. InStep(ReceiveEvent(d, e), n)
  <2> DEFINE f == [d EXCEPT !.open = TRUE, !.blocks = Append(@, b)]
  <2>1. /\ Sequence(Append(d.blocks, b)) /\ Len(Append(d.blocks, b)) = Len(d.blocks) + 1
        /\ Append(d.blocks, b)[Len(d.blocks) + 1].kind = kind
        /\ Len(d.blocks) \in Nat
    <3>1. Sequence(d.blocks)
      BY <1>3 DEF InStep, Client
    <3> QED
      BY <3>1, SequenceAdd, SequenceOf
  <2>2. /\ f = [x \in DOMAIN f |-> f[x]] /\ DOMAIN f = DOMAIN d
        /\ f.blocks = Append(d.blocks, b) /\ f.open = TRUE /\ f.started = d.started
        /\ f.stop = d.stop /\ f.ended = d.ended /\ f.bad = d.bad
    BY <1>3 DEF InStep, Client
  <2> HIDE DEF f, n, b
  <2>3. Client(f)
    BY <1>3, <2>1, <2>2 DEF InStep, Client
  <2>4. n.index = Len(f.blocks) /\ n.index > 0 /\ f.blocks[n.index].kind = n.type
    <3>1. w.t.index = Len(d.blocks)
      BY <1>3 DEF InStep
    <3> QED
      BY <1>4, <2>1, <2>2, <3>1
  <2>5. ~f.bad /\ ~f.ended /\ f.stop = "none" /\ n.start = f.started /\ n.open = f.open /\ n.start
    BY <1>1, <1>3, <1>4, <2>2 DEF InStep
  <2>6. InStep(f, n)
    BY <2>3, <2>4, <2>5 DEF InStep
  <2> QED
    BY <1>5, <2>6 DEF f
<1> HIDE DEF n, e
<1>7. KeepsInStep(d, Written(n, <<e>>))
  BY <1>4, <1>6, StepOfOne
<1>8. KeepsInStep(c, Written(n, w.out \o <<e>>))
  <2> DEFINE v == Written(n, <<e>>)
  <2>1. v.t = n /\ v.out = <<e>>
    BY DEF Written
  <2> HIDE DEF v
  <2>2. KeepsInStep(c, Written(v.t, w.out \o v.out))
    BY <1>1, <1>7, StepsJoin DEF v, d
  <2> QED
    BY <2>1, <2>2
<1>9. Append(w.out, e) = w.out \o <<e>>
  BY <1>3, JoinedSequences
<1>10. openBlock(t, kind).t = n
  BY <1>2 DEF Written
<1> QED
  BY <1>2, <1>4, <1>8, <1>9, <1>10

\* Two handlers, one after the other.
LEMMA StepsJoined ==
  ASSUME NEW c, NEW w, NEW t, NEW out, KeepsInStep(c, w),
         KeepsInStep(Received(c, w.out), Written(t, out))
  PROVE  KeepsInStep(c, Written(t, w.out \o out))
<1> DEFINE v == Written(t, out)
<1>1. v.t = t /\ v.out = out
  BY DEF Written
<1> HIDE DEF v
<1>2. KeepsInStep(c, Written(v.t, w.out \o v.out))
  BY StepsJoin DEF v
<1> QED
  BY <1>1, <1>2

\* handleOutputItemAdded keeps them in step.
LEMMA AddedInStep ==
  ASSUME NEW c, NEW t, NEW kind, Translator(t), InStep(c, t)
  PROVE  KeepsInStep(c, handleOutputItemAdded(t, kind))
<1> DEFINE s == handleCreated(t)
           o == openBlock(s.t, kind)
<1>1. KeepsInStep(c, s) /\ s.t.start
  BY CreatedInStep
<1>2. KeepsInStep(Received(c, s.out), o)
  <2>1. Translator(s.t) /\ InStep(Received(c, s.out), s.t)
    BY <1>1 DEF KeepsInStep
  <2> HIDE DEF s
  <2> QED
    BY <1>1, <2>1, OpenedInStep
<1>3. KeepsInStep(c, Written(o.t, s.out \o o.out))
  <2> HIDE DEF s, o
  <2> QED
    BY <1>1, <1>2, StepsJoin
<1> QED
  BY <1>1, <1>3 DEF handleOutputItemAdded

\* handleTextDelta and handleThinkingDelta keep them in step.
LEMMA DeltaHandled ==
  ASSUME NEW c, NEW t, NEW kind, NEW piece, Translator(t), InStep(c, t)
  PROVE  KeepsInStep(c, handleDelta(t, kind, piece))
<1> DEFINE s == handleCreated(t)
           o == IF s.t.open /\ s.t.type = kind THEN Written(s.t, <<>>) ELSE openBlock(s.t, kind)
           e == [type |-> "content_block_delta", index |-> o.t.index - 1,
                 kind |-> kind, pieces |-> <<piece>>]
           d == Received(c, s.out)
<1>1. KeepsInStep(c, s) /\ s.t.start
  BY CreatedInStep
<1>2. handleDelta(t, kind, piece) = Written(o.t, s.out \o o.out \o <<e>>)
  BY DEF handleDelta
<1>3. KeepsInStep(d, o) /\ o.t.open /\ o.t.type = kind
  <2>1. Translator(s.t) /\ InStep(d, s.t)
    BY <1>1 DEF KeepsInStep
  <2> HIDE DEF s, d
  <2>2. CASE s.t.open /\ s.t.type = kind
    <3>1. o = Written(s.t, <<>>)
      BY <2>2
    <3>2. KeepsInStep(d, Written(s.t, <<>>))
      BY <2>1, StepOfNothing
    <3>3. o.t = s.t
      BY <3>1 DEF Written
    <3> QED
      BY <2>2, <3>1, <3>2, <3>3
  <2>3. CASE ~(s.t.open /\ s.t.type = kind)
    <3>1. o = openBlock(s.t, kind)
      BY <2>3
    <3> HIDE DEF o
    <3> QED
      BY <1>1, <2>1, <3>1, OpenedInStep
  <2> QED
    BY <2>2, <2>3
<1> HIDE DEF s, o
<1>4. KeepsInStep(c, Written(o.t, s.out \o o.out))
  BY <1>1, <1>3, StepsJoin DEF d
<1> DEFINE w == Written(o.t, s.out \o o.out)
           f == Received(c, w.out)
<1>5. KeepsInStep(c, w) /\ w.t = o.t /\ w.out = s.out \o o.out
  BY <1>4 DEF Written
<1>6. Translator(o.t) /\ InStep(f, o.t)
  BY <1>5 DEF KeepsInStep
<1> HIDE DEF w, f
<1>7. KeepsInStep(f, Written(o.t, <<e>>))
  <2> DEFINE x == [type |-> "content_block_delta", index |-> o.t.index - 1,
                   kind |-> o.t.type, pieces |-> <<piece>>]
  <2>1. x = e
    BY <1>3
  <2>2. KeepsInStep(f, Written(o.t, <<x>>))
    <3> DEFINE u == o.t
    <3>1. Translator(u) /\ InStep(f, u) /\ u.open
      BY <1>3, <1>6
    <3> HIDE DEF u
    <3>2. KeepsInStep(f, Written(u, <<[type |-> "content_block_delta", index |-> u.index - 1,
                                       kind |-> u.type, pieces |-> <<piece>>]>>))
      BY <3>1, DeltaInStep
    <3> QED
      BY <3>2 DEF u
  <2> QED
    BY <2>1, <2>2
<1> HIDE DEF e
<1>8. KeepsInStep(c, Written(o.t, w.out \o <<e>>))
  BY <1>5, <1>7, StepsJoined DEF f
<1> QED
  BY <1>2, <1>5, <1>8

\* The client has the whole answer, and it was legal.
Answered(c, out) ==
    LET d == Received(c, out)
    IN  Sequence(out) /\ out # <<>> /\ Client(d) /\ ~d.bad /\ d.ended

\* However a translation ends, the client that was in step has its answer.
LEMMA EndsAnswered ==
  ASSUME NEW c, NEW t, NEW stop, Translator(t), InStep(c, t), stop # "none"
  PROVE  Answered(c, ends(t, stop).out)
<1> DEFINE s == handleCreated(t)
           k == closeCurrentBlock(s.t)
           e == [type |-> "message_delta", stop |-> stop]
           m == [type |-> "message_stop"]
<1>1. KeepsInStep(c, s) /\ s.t.start
  BY CreatedInStep
<1>2. ends(t, stop).out = s.out \o k.out \o <<e, m>>
  BY DEF ends, Written
<1>3. KeepsInStep(Received(c, s.out), k) /\ k.t.start /\ ~k.t.open
  <2>1. Translator(s.t) /\ InStep(Received(c, s.out), s.t)
    BY <1>1 DEF KeepsInStep
  <2> HIDE DEF s
  <2> QED
    BY <1>1, <2>1, ClosedInStep
<1> HIDE DEF s, k
<1> DEFINE w == s.out \o k.out
           d == Received(c, w)
<1>4. Sequence(w) /\ InStep(d, k.t)
  <2>1. KeepsInStep(c, Written(k.t, w))
    BY <1>1, <1>3, StepsJoin
  <2> QED
    BY <2>1 DEF KeepsInStep, Written
<1> HIDE DEF w, d
<1>5. ReceiveEvent(d, e) = [d EXCEPT !.stop = stop]
  BY <1>3, <1>4 DEF InStep, Client, ReceiveEvent
<1> DEFINE f == ReceiveEvent(d, e)
           g == ReceiveEvent(f, m)
<1>6. Client(f) /\ ~f.bad /\ ~f.ended /\ f.stop = stop
  <2> DEFINE x == [d EXCEPT !.stop = stop]
  <2>1. Client(x) /\ x.bad = d.bad /\ x.ended = d.ended /\ x.stop = stop
    BY <1>4 DEF InStep, Client
  <2> QED
    BY <1>4, <1>5, <2>1 DEF InStep
<1> HIDE DEF f
<1>7. g = [f EXCEPT !.ended = TRUE]
  BY <1>6 DEF Client, ReceiveEvent
<1>8. Client(g) /\ ~g.bad /\ g.ended
  <2> DEFINE x == [f EXCEPT !.ended = TRUE]
  <2>1. Client(x) /\ x.bad = f.bad /\ x.ended = TRUE
    BY <1>6 DEF Client
  <2> QED
    BY <1>6, <1>7, <2>1
<1> HIDE DEF g, e, m
<1>9. Sequence(<<e, m>>) /\ Received(d, <<e, m>>) = g
  <2>1. Received(d, <<e>>) = f /\ Received(f, <<m>>) = g
    BY ReceivedOne DEF f, g
  <2>2. Sequence(<<e>>) /\ Sequence(<<m>>)
    BY SequenceShort
  <2>3. Received(d, <<e>> \o <<m>>) = g /\ Sequence(<<e>> \o <<m>>)
    BY <2>1, <2>2, ReceivedJoin, SequencesJoin
  <2> QED
    BY <2>3, JoinedSequences
<1>10. Sequence(w \o <<e, m>>) /\ Received(c, w \o <<e, m>>) = g
  BY <1>4, <1>9, SequencesJoin, ReceivedJoin DEF d
<1>11. w \o <<e, m>> # <<>>
  <2>1. Len(<<e, m>>) = 2 /\ Len(w) \in Nat
    BY <1>4, SequenceOf
  <2>2. Len(w \o <<e, m>>) = Len(w) + Len(<<e, m>>)
    BY <1>4, <1>9, SequencesJoin
  <2> QED
    BY <2>1, <2>2, SequenceShort
<1> QED
  BY <1>2, <1>8, <1>10, <1>11 DEF Answered, w

\* An event that upstream sends.
UpstreamEvent(e) ==
    \/ e.type \in {"created", "content_done", "item_done", "failed"}
    \/ e.type = "added" /\ e.kind \in Kinds
    \/ e.type = "delta" /\ e.kind \in Kinds
    \/ e.type = "completed"

\* Messages' translation of one event.
LEMMA EventTranslated ==
  ASSUME NEW c, NEW t, NEW e, Translator(t), InStep(c, t), UpstreamEvent(e)
  PROVE  /\ terminal(e) => Answered(c, translateEvent(t, e).out)
         /\ ~terminal(e) => KeepsInStep(c, translateEvent(t, e))
<1>1. CASE e.type = "created"
  BY <1>1, CreatedInStep DEF translateEvent, terminal
<1>2. CASE e.type = "added"
  BY <1>2, AddedInStep DEF translateEvent, terminal
<1>3. CASE e.type = "delta" /\ e.kind # "function_call"
  BY <1>3, DeltaHandled DEF translateEvent, terminal
<1>4. CASE e.type = "delta" /\ e.kind = "function_call"
  <2> DEFINE n == [t EXCEPT !.buffer = Append(@, e.piece)]
  <2>1. translateEvent(t, e) = Written(n, <<>>)
    BY <1>4 DEF translateEvent, handleToolInputDelta
  <2>2. /\ Translator(n) /\ n.start = t.start /\ n.open = t.open
        /\ n.index = t.index /\ n.type = t.type
    BY DEF Translator
  <2> HIDE DEF n
  <2>3. InStep(c, n)
    BY <2>2 DEF InStep
  <2> QED
    BY <1>4, <2>1, <2>2, <2>3, StepOfNothing DEF terminal
<1>5. CASE e.type \in {"content_done", "item_done"}
  BY <1>5, ClosedInStep DEF translateEvent, terminal
<1>6. CASE e.type = "completed"
  <2> DEFINE stop == IF e.end = "max_output_tokens" THEN "max_tokens"
                     ELSE IF t.tools THEN "tool_use" ELSE "end_turn"
  <2>1. translateEvent(t, e) = ends(t, stop)
    BY <1>6 DEF translateEvent, handleCompleted
  <2>2. stop # "none"
    OBVIOUS
  <2> HIDE DEF stop
  <2> QED
    BY <1>6, <2>1, <2>2, EndsAnswered DEF terminal
<1>7. CASE e.type = "failed"
  <2>1. translateEvent(t, e) = ends(t, "end_turn")
    BY <1>7 DEF translateEvent, handleFailed
  <2> QED
    BY <1>7, <2>1, EndsAnswered DEF terminal
<1> QED
  BY <1>1, <1>2, <1>3, <1>4, <1>5, <1>6, <1>7 DEF UpstreamEvent

-----------------------------------------------------------------------------
(* Chat completions. *)

\* The translator of ChatCompletions numbers the calls as the client does, and finds every
\* call that upstream has added.
InChat(c, t, items) ==
    /\ Client(c) /\ ~c.bad /\ ~c.ended
    /\ Sequence(t.map) /\ Len(t.map) = Len(c.blocks)
    /\ \A i \in DOMAIN items :
          items[i].kind = "function_call" => \E j \in DOMAIN t.map : t.map[j] = i

\* The items after an event: those there were, and the one it has added.
Sent(e, items, later) ==
    /\ e.type = "delta" /\ e.kind = "function_call" =>
          e.item \in DOMAIN items /\ items[e.item].kind = "function_call"
    /\ \A i \in DOMAIN later :
          later[i].kind = "function_call" =>
             \/ i \in DOMAIN items /\ items[i].kind = "function_call"
             \/ e.type = "added" /\ e.kind = "function_call" /\ i = e.item

KeepsInChat(c, w, items) ==
    /\ Sequence(w.out)
    /\ Translator(w.t)
    /\ InChat(Received(c, w.out), w.t, items)

\* A finish chunk and [DONE] end the answer of a chat completion.
LEMMA FinishAnswered ==
  ASSUME NEW c, NEW stop, Client(c), ~c.bad, ~c.ended, stop # "none"
  PROVE  Answered(c, <<[type |-> "finish", stop |-> stop], [type |-> "message_stop"]>>)
<1> DEFINE e == [type |-> "finish", stop |-> stop]
           m == [type |-> "message_stop"]
           f == [c EXCEPT !.stop = stop]
           g == [f EXCEPT !.ended = TRUE]
<1>1. Client(f) /\ f.bad = c.bad /\ f.ended = c.ended /\ f.stop = stop
  BY DEF Client
<1>2. ReceiveEvent(c, e) = f
  BY DEF ReceiveEvent
<1> HIDE DEF f
<1>3. Client(g) /\ g.bad = f.bad /\ g.ended = TRUE
  BY <1>1 DEF Client
<1>4. ReceiveEvent(f, m) = g
  BY <1>1 DEF ReceiveEvent
<1> HIDE DEF g, e, m
<1>5. Sequence(<<e>>) /\ Sequence(<<m>>)
  BY SequenceShort
<1>6. Received(c, <<e>> \o <<m>>) = g /\ Sequence(<<e>> \o <<m>>)
  BY <1>2, <1>4, <1>5, ReceivedOne, ReceivedJoin, SequencesJoin
<1>7. Sequence(<<e, m>>) /\ Received(c, <<e, m>>) = g
  BY <1>6, JoinedSequences
<1> QED
  BY <1>1, <1>3, <1>7 DEF Answered, e, m

\* Chat completions' translation of one event.
LEMMA ChatTranslated ==
  ASSUME NEW c, NEW t, NEW e, NEW items, NEW later, Translator(t), InChat(c, t, items),
         UpstreamEvent(e), Sent(e, items, later)
  PROVE  /\ terminal(e) => Answered(c, Translate(t, e).out)
         /\ ~terminal(e) => KeepsInChat(c, Translate(t, e), later)
<1>1. CASE e.type = "added" /\ e.kind = "function_call"
  <2> DEFINE n == [t EXCEPT !.map = Append(@, e.item), !.tools = TRUE]
             s == [type |-> "tool_call", index |-> Len(t.map)]
             b == [kind |-> "function_call", pieces |-> <<>>]
             d == [c EXCEPT !.blocks = Append(@, b)]
  <2>1. Translate(t, e) = Written(n, <<s>>)
    BY <1>1 DEF Translate
  <2>2. ReceiveEvent(c, s) = d
    BY DEF ReceiveEvent, InChat
  <2>3. /\ d = [x \in DOMAIN d |-> d[x]] /\ DOMAIN d = DOMAIN c /\ d.blocks = Append(c.blocks, b)
        /\ d.bad = c.bad /\ d.ended = c.ended /\ d.open = c.open /\ d.started = c.started
    BY DEF InChat, Client
  <2>4. Sequence(d.blocks) /\ Len(d.blocks) = Len(c.blocks) + 1
    BY <2>3, SequenceAdd DEF InChat, Client
  <2>5. Translator(n) /\ n.map = Append(t.map, e.item)
    BY DEF Translator
  <2>6. /\ Sequence(n.map) /\ Len(n.map) = Len(t.map) + 1 /\ n.map[Len(t.map) + 1] = e.item
        /\ \A j \in 1..Len(t.map) : n.map[j] = t.map[j]
    BY <2>5, SequenceAdd DEF InChat
  <2>7. DOMAIN n.map = 1..(Len(t.map) + 1) /\ DOMAIN t.map = 1..Len(t.map) /\ Len(t.map) \in Nat
    BY <2>6, SequenceOf DEF InChat
  <2> HIDE DEF n, d, s
  <2>8. \A i \in DOMAIN later :
           later[i].kind = "function_call" => \E j \in DOMAIN n.map : n.map[j] = i
    <3> SUFFICES ASSUME NEW i \in DOMAIN later, later[i].kind = "function_call"
                 PROVE  \E j \in DOMAIN n.map : n.map[j] = i
      OBVIOUS
    <3>1. CASE i = e.item
      <4>1. Len(t.map) + 1 \in DOMAIN n.map
        BY <2>7
      <4> QED
        BY <3>1, <4>1, <2>6
    <3>2. CASE i \in DOMAIN items /\ items[i].kind = "function_call"
      <4>1. PICK j \in DOMAIN t.map : t.map[j] = i
        BY <3>2 DEF InChat
      <4>2. j \in 1..Len(t.map) /\ j \in DOMAIN n.map
        BY <2>7
      <4> QED
        BY <4>1, <4>2, <2>6
    <3> QED
      BY <3>1, <3>2 DEF Sent
  <2>9. Client(d) /\ ~d.bad /\ ~d.ended
    BY <2>3, <2>4 DEF InChat, Client
  <2>10. InChat(d, n, later)
    BY <2>4, <2>6, <2>8, <2>9 DEF InChat
  <2>11. Received(c, <<s>>) = d /\ Sequence(<<s>>)
    BY <2>2, ReceivedOne, SequenceShort
  <2>12. Written(n, <<s>>).t = n /\ Written(n, <<s>>).out = <<s>>
    BY DEF Written
  <2> QED
    BY <1>1, <2>1, <2>5, <2>10, <2>11, <2>12 DEF KeepsInChat, terminal
<1> DEFINE Same == \A i \in DOMAIN later : later[i].kind = "function_call" =>
                      i \in DOMAIN items /\ items[i].kind = "function_call"
<1>2. ASSUME Same, NEW d, Client(d), ~d.bad, ~d.ended, Len(d.blocks) = Len(c.blocks)
      PROVE  InChat(d, t, later)
  BY <1>2 DEF InChat
<1>3. CASE e.type = "delta" /\ e.kind = "function_call"
  <2> DEFINE k == callIndex(t, e.item)
             s == [type |-> "arguments", index |-> k, pieces |-> <<e.piece>>]
             d == ReceiveEvent(c, s)
  <2>1. Translate(t, e) = Written(t, <<s>>)
    BY <1>3 DEF Translate
  <2>2. \E j \in DOMAIN t.map : t.map[j] = e.item
    BY <1>3 DEF Sent, InChat
  <2>3. k + 1 \in DOMAIN t.map /\ k \in Nat /\ k < Len(c.blocks)
    <3> DEFINE j == CHOOSE i \in DOMAIN t.map : t.map[i] = e.item
    <3>1. j \in DOMAIN t.map
      BY <2>2
    <3>2. DOMAIN t.map = 1..Len(t.map) /\ Len(t.map) \in Nat /\ Len(t.map) = Len(c.blocks)
      BY SequenceOf DEF InChat
    <3>3. k = j - 1
      BY DEF callIndex
    <3> HIDE DEF j, k
    <3> QED
      BY <3>1, <3>2, <3>3
  <2> HIDE DEF k
  <2>4. d = [c EXCEPT !.blocks[k + 1].pieces = @ \o <<e.piece>>]
    BY <2>3 DEF InChat, ReceiveEvent
  <2> DEFINE v == [c.blocks[k + 1] EXCEPT !.pieces = @ \o <<e.piece>>]
  <2>5. /\ d.blocks = [c.blocks EXCEPT ![k + 1] = v]
        /\ d = [x \in DOMAIN d |-> d[x]] /\ DOMAIN d = DOMAIN c
        /\ d.bad = c.bad /\ d.ended = c.ended /\ d.open = c.open /\ d.started = c.started
    BY <2>4 DEF InChat, Client
  <2> HIDE DEF v, d
  <2>6. Sequence(d.blocks) /\ Len(d.blocks) = Len(c.blocks)
    <3>1. Sequence(c.blocks)
      BY DEF InChat, Client
    <3>2. /\ Sequence([c.blocks EXCEPT ![k + 1] = v])
          /\ Len([c.blocks EXCEPT ![k + 1] = v]) = Len(c.blocks)
      BY <3>1, SequenceChange
    <3> QED
      BY <2>5, <3>2
  <2>7. Client(d) /\ ~d.bad /\ ~d.ended
    BY <2>5, <2>6 DEF InChat, Client
  <2>8. InChat(d, t, later)
    <3>1. Same
      BY <1>3 DEF Sent
    <3> QED
      BY <3>1, <2>6, <2>7, <1>2
  <2>9. Received(c, <<s>>) = d /\ Sequence(<<s>>)
    BY ReceivedOne, SequenceShort DEF d
  <2> HIDE DEF s
  <2>10. Written(t, <<s>>).t = t /\ Written(t, <<s>>).out = <<s>>
    BY DEF Written
  <2> QED
    BY <1>3, <2>1, <2>8, <2>9, <2>10 DEF KeepsInChat, terminal
<1>4. CASE e.type = "delta" /\ e.kind # "function_call"
  <2> DEFINE s == [type |-> "content", kind |-> e.kind, piece |-> e.piece]
             x == IF e.kind = "message" THEN Append(c.text, e.piece) ELSE c.text
             d == [c EXCEPT !.text = x]
  <2>1. Translate(t, e) = Written(t, <<s>>)
    BY <1>4 DEF Translate
  <2>2. ReceiveEvent(c, s) = d
    BY DEF ReceiveEvent, InChat, Client
  <2> HIDE DEF x
  <2>3. Client(d) /\ d.bad = c.bad /\ d.ended = c.ended /\ d.blocks = c.blocks
    BY DEF InChat, Client
  <2> HIDE DEF d, s
  <2>4. InChat(d, t, later)
    <3>1. Same
      BY <1>4 DEF Sent
    <3>2. ~d.bad /\ ~d.ended /\ Len(d.blocks) = Len(c.blocks)
      BY <2>3 DEF InChat
    <3> QED
      BY <3>1, <3>2, <2>3, <1>2
  <2>5. Received(c, <<s>>) = d /\ Sequence(<<s>>)
    BY <2>2, ReceivedOne, SequenceShort
  <2>6. Written(t, <<s>>).t = t /\ Written(t, <<s>>).out = <<s>>
    BY DEF Written
  <2> QED
    BY <1>4, <2>1, <2>4, <2>5, <2>6 DEF KeepsInChat, terminal
<1>5. CASE \/ e.type \in {"created", "content_done", "item_done"}
           \/ e.type = "added" /\ e.kind # "function_call"
  <2>1. Translate(t, e) = Written(t, <<>>)
    BY <1>5 DEF Translate
  <2>2. Same
    BY <1>5 DEF Sent
  <2>3. InChat(c, t, later)
    BY <2>2, <1>2 DEF InChat
  <2>4. Received(c, <<>>) = c /\ Sequence(<<>>)
    BY ReceivedNone, SequenceShort
  <2>5. Written(t, <<>>).t = t /\ Written(t, <<>>).out = <<>>
    BY DEF Written
  <2> QED
    BY <1>5, <2>1, <2>3, <2>4, <2>5 DEF KeepsInChat, terminal
<1>6. CASE e.type \in {"completed", "failed"}
  <2> DEFINE stop == IF e.type = "failed" THEN "error" ELSE IF t.tools THEN "tool_calls" ELSE "stop"
             out == <<[type |-> "finish", stop |-> stop], [type |-> "message_stop"]>>
  <2>1. Translate(t, e) = Written(t, out)
    BY <1>6 DEF Translate
  <2>2. stop # "none"
    OBVIOUS
  <2>3. Answered(c, out)
    <3> HIDE DEF stop
    <3> QED
      BY <2>2, FinishAnswered DEF InChat
  <2> HIDE DEF out
  <2> QED
    BY <1>6, <2>1, <2>3 DEF Written, terminal
<1> QED
  BY <1>1, <1>3, <1>4, <1>5, <1>6 DEF UpstreamEvent

-----------------------------------------------------------------------------
(* The stream: its invariant and its actions. *)

\* What upstream has sent.
Upstream(u) ==
    /\ u = [f \in DOMAIN u |-> u[f]] /\ DOMAIN u = {"created", "items", "end"}
    /\ Sequence(u.items)
    /\ \A i \in DOMAIN u.items : /\ DOMAIN u.items[i] = {"kind", "pieces", "open"}
                                 /\ u.items[i].kind \in Kinds

\* As long as the client reads an answer that has not ended, it has what its translator
\* believes, and nothing while nothing counts as written.
Relayed ==
    /\ Translator(trState)
    /\ ~trWrote => trClient = NoAnswer
    /\ trMode = "messages" => InStep(trClient, trState)
    /\ trMode = "chat" => InChat(trClient, trState, trUp.items)

\* After the retry of a completed answer the translator is in step with nobody, but would
\* be with a client that had nothing.
Restarted == Translator(trState) /\ \E c : InStep(c, trState)

TrInv ==
    /\ trMode \in {"messages", "chat"}
    /\ trWrote \in BOOLEAN /\ trGone \in BOOLEAN /\ trTwice \in BOOLEAN /\ trReturned \in BOOLEAN
    /\ Upstream(trUp)
    /\ Client(trClient)
    /\ StreamLegal
    /\ trTwice => trMode = "messages" /\ trClient.ended
    /\ ~trGone /\ ~trReturned => IF trTwice THEN Restarted ELSE Relayed

\* A new translator is in step with a client that has nothing, in both protocols.
LEMMA NothingYet ==
  /\ Client(NoAnswer) /\ ~NoAnswer.bad /\ ~NoAnswer.ended
  /\ Translator(NewTranslator)
  /\ InStep(NoAnswer, NewTranslator)
  /\ InChat(NoAnswer, NewTranslator, <<>>)
  /\ Upstream(Nothing) /\ Nothing.items = <<>>
<1>1. Client(NoAnswer) /\ ~NoAnswer.bad /\ ~NoAnswer.ended
  BY SequenceShort DEF Client, NoAnswer
<1>2. Translator(NewTranslator)
  BY DEF Translator, NewTranslator
<1>3. /\ NoAnswer.stop = "none" /\ NoAnswer.started = FALSE /\ NoAnswer.open = FALSE
      /\ NoAnswer.blocks = <<>> /\ NewTranslator.map = <<>>
      /\ NewTranslator.start = FALSE /\ NewTranslator.open = FALSE /\ NewTranslator.index = 0
  BY DEF NoAnswer, NewTranslator
<1>4. Len(NoAnswer.blocks) = 0 /\ Len(NewTranslator.map) = 0 /\ Sequence(NewTranslator.map)
  BY <1>3, SequenceShort
<1>5. InStep(NoAnswer, NewTranslator)
  BY <1>1, <1>3, <1>4 DEF InStep
<1>6. InChat(NoAnswer, NewTranslator, <<>>)
  <2>1. DOMAIN <<>> = {}
    OBVIOUS
  <2> QED
    BY <1>1, <1>4, <2>1 DEF InChat
<1>7. Upstream(Nothing) /\ Nothing.items = <<>>
  <2>1. Nothing.items = <<>> /\ DOMAIN <<>> = {}
    BY DEF Nothing
  <2>2. /\ Nothing = [f \in DOMAIN Nothing |-> Nothing[f]]
        /\ DOMAIN Nothing = {"created", "items", "end"}
    BY DEF Nothing
  <2> QED
    BY <2>1, <2>2, SequenceShort DEF Upstream
<1> QED
  BY <1>1, <1>2, <1>5, <1>6, <1>7

\* The invariant holds at the start.
LEMMA StreamStarts ==
  ASSUME StreamTranslateInit
  PROVE  TrInv
<1>1. /\ trTwice = FALSE /\ trGone = FALSE /\ trReturned = FALSE /\ trWrote = FALSE
      /\ trUp = Nothing /\ trState = NewTranslator /\ trClient = NoAnswer
      /\ trMode \in {"messages", "chat"}
  BY DEF StreamTranslateInit
<1>2. StreamLegal
  BY <1>1, NothingYet DEF StreamLegal, WellFormedStream, MessagesEnd
<1>3. Relayed
  BY <1>1, NothingYet DEF Relayed
<1> QED
  BY <1>1, <1>2, <1>3, NothingYet DEF TrInv

\* A handled event keeps the invariant, whatever it is.
LEMMA HandleKeeps ==
  ASSUME TrInv, ~trReturned, NEW e, UpstreamEvent(e), Sent(e, trUp.items, trUp'.items),
         Upstream(trUp'), Handle(e)
  PROVE  TrInv'
<1> DEFINE s == IF trMode = "messages" THEN translateEvent(trState, e) ELSE Translate(trState, e)
<1>1. /\ trState' = s.t
      /\ trClient' = IF trGone THEN trClient ELSE Received(trClient, s.out)
      /\ trWrote' = (trWrote \/ (~trGone /\ s.out # <<>>))
      /\ trReturned' = (terminal(e) \/ (trMode = "messages" /\ trGone /\ s.out # <<>>))
      /\ trMode' = trMode /\ trGone' = trGone /\ trTwice' = trTwice
  BY DEF Handle, deliver
<1>2. trReturned' \in BOOLEAN /\ trWrote' \in BOOLEAN
  BY <1>1 DEF TrInv
<1>3. CASE trGone
  BY <1>1, <1>2, <1>3 DEF TrInv, StreamLegal, WellFormedStream, MessagesEnd
<1>4. CASE ~trGone /\ trTwice
  <2>1. trMode = "messages" /\ trClient.ended /\ Client(trClient) /\ s = translateEvent(trState, e)
    BY <1>4 DEF TrInv
  <2>2. Translator(trState) /\ \E c : InStep(c, trState)
    BY <1>4 DEF TrInv, Restarted
  <2>3. PICK c : InStep(c, trState)
    BY <2>2
  <2>4. /\ terminal(e) => Answered(c, s.out)
        /\ ~terminal(e) => KeepsInStep(c, s)
    BY <2>1, <2>2, <2>3, EventTranslated
  <2> HIDE DEF s
  <2>5. Sequence(s.out)
    BY <2>4 DEF Answered, KeepsInStep
  <2>6. Client(trClient') /\ trClient'.ended
    BY <1>1, <1>4, <2>1, <2>5, AnswerStaysEnded
  <2>7. ~trReturned' => Restarted'
    BY <1>1, <2>4 DEF KeepsInStep, Restarted
  <2> QED
    BY <1>1, <1>2, <1>4, <2>1, <2>6, <2>7 DEF TrInv, StreamLegal, WellFormedStream, MessagesEnd
<1>5. ASSUME ~trGone, ~trTwice,
             terminal(e) => Answered(trClient, s.out),
             ~terminal(e) => /\ Sequence(s.out) /\ Translator(s.t)
                             /\ trMode = "messages" => InStep(Received(trClient, s.out), s.t)
                             /\ trMode = "chat" =>
                                   InChat(Received(trClient, s.out), s.t, trUp'.items)
      PROVE  TrInv'
  <2> HIDE DEF s
  <2>1. trClient' = Received(trClient, s.out) /\ ~trTwice' /\ ~trGone'
    BY <1>1, <1>5
  <2>2. CASE terminal(e)
    <3>1. Client(trClient') /\ ~trClient'.bad /\ trClient'.ended
      BY <1>5, <2>1, <2>2 DEF Answered
    <3> QED
      BY <1>1, <1>2, <2>1, <2>2, <3>1 DEF TrInv, StreamLegal, WellFormedStream, MessagesEnd
  <2>3. CASE ~terminal(e)
    <3>1. Client(trClient') /\ ~trClient'.bad
      BY <1>5, <2>1, <2>3 DEF InStep, InChat, TrInv
    <3>2. ~trReturned'
      BY <1>1, <1>5, <2>3
    <3>3. ~trWrote' => trClient' = NoAnswer
      <4> SUFFICES ASSUME ~trWrote' PROVE trClient' = NoAnswer
        OBVIOUS
      <4>1. ~trWrote /\ s.out = <<>>
        BY <1>1, <1>5
      <4>2. trClient = NoAnswer
        BY <4>1, <1>5 DEF TrInv, Relayed
      <4> QED
        BY <2>1, <4>1, <4>2, ReceivedNone
    <3>4. Relayed'
      BY <1>1, <1>5, <2>1, <2>3, <3>3 DEF Relayed
    <3> QED
      BY <1>1, <1>2, <2>1, <3>1, <3>2, <3>4 DEF TrInv, StreamLegal, WellFormedStream, MessagesEnd
  <2> QED
    BY <2>2, <2>3
<1>6. CASE ~trGone /\ ~trTwice /\ trMode = "messages"
  <2>1. Translator(trState) /\ InStep(trClient, trState) /\ s = translateEvent(trState, e)
    BY <1>6 DEF TrInv, Relayed
  <2>2. /\ terminal(e) => Answered(trClient, s.out)
        /\ ~terminal(e) => KeepsInStep(trClient, s)
    BY <2>1, EventTranslated
  <2> HIDE DEF s
  <2> QED
    BY <1>5, <1>6, <2>2 DEF KeepsInStep
<1>7. CASE ~trGone /\ ~trTwice /\ trMode = "chat"
  <2>1. Translator(trState) /\ InChat(trClient, trState, trUp.items) /\ s = Translate(trState, e)
    BY <1>7 DEF TrInv, Relayed
  <2>2. /\ terminal(e) => Answered(trClient, s.out)
        /\ ~terminal(e) => KeepsInChat(trClient, s, trUp'.items)
    BY <2>1, ChatTranslated
  <2> HIDE DEF s
  <2> QED
    BY <1>5, <1>7, <2>2 DEF KeepsInChat
<1> QED
  BY <1>3, <1>4, <1>6, <1>7 DEF TrInv

\* The items are left as they are.
LEMMA SameItems ==
  ASSUME NEW u, NEW v, Upstream(u), v.items = u.items, v = [f \in DOMAIN v |-> v[f]],
         DOMAIN v = {"created", "items", "end"}, NEW e, e.type \notin {"delta"}
  PROVE  Upstream(v) /\ Sent(e, u.items, v.items)
BY DEF Upstream, Sent

\* response.created keeps the invariant.
LEMMA CreatedKeeps ==
  ASSUME TrInv, Created
  PROVE  TrInv'
<1> DEFINE e == [type |-> "created"]
           v == [trUp EXCEPT !.created = TRUE]
<1>1. trUp' = v /\ Handle(e) /\ ~trReturned /\ Upstream(trUp)
  BY DEF Created, Reading, TrInv
<1>2. /\ v.items = trUp.items
      /\ v = [f \in DOMAIN v |-> v[f]] /\ DOMAIN v = {"created", "items", "end"}
  BY <1>1 DEF Upstream
<1>3. UpstreamEvent(e) /\ e.type \notin {"delta"}
  BY DEF UpstreamEvent
<1> HIDE DEF e, v
<1>4. Upstream(v) /\ Sent(e, trUp.items, v.items)
  BY <1>1, <1>2, <1>3, SameItems
<1> QED
  BY <1>1, <1>3, <1>4, HandleKeeps

\* An item that is added keeps the invariant.
LEMMA AddedKeeps ==
  ASSUME TrInv, NEW kind \in Kinds, Added(kind)
  PROVE  TrInv'
<1> DEFINE e == [type |-> "added", kind |-> kind, item |-> Len(trUp.items) + 1]
           i == [kind |-> kind, pieces |-> <<>>, open |-> TRUE]
           v == [trUp EXCEPT !.items = Append(@, i)]
<1>1. trUp' = v /\ Handle(e) /\ ~trReturned /\ Upstream(trUp)
  BY DEF Added, Reading, TrInv
<1>2. /\ v.items = Append(trUp.items, i)
      /\ v = [f \in DOMAIN v |-> v[f]] /\ DOMAIN v = {"created", "items", "end"}
  BY <1>1 DEF Upstream
<1>3. UpstreamEvent(e)
  BY DEF UpstreamEvent
<1>4. /\ Sequence(v.items) /\ DOMAIN v.items = 1..(Len(trUp.items) + 1)
      /\ DOMAIN trUp.items = 1..Len(trUp.items) /\ Len(trUp.items) \in Nat
      /\ v.items[Len(trUp.items) + 1] = i
      /\ \A j \in 1..Len(trUp.items) : v.items[j] = trUp.items[j]
  <2>1. Sequence(trUp.items)
    BY <1>1 DEF Upstream
  <2> HIDE DEF v, i
  <2> QED
    BY <2>1, <1>2, SequenceAdd, SequenceOf
<1>5. DOMAIN i = {"kind", "pieces", "open"} /\ i.kind = kind
  OBVIOUS
<1> HIDE DEF v, i
<1>6. ASSUME NEW j \in DOMAIN v.items
      PROVE  \/ j \in DOMAIN trUp.items /\ v.items[j] = trUp.items[j]
             \/ j = Len(trUp.items) + 1 /\ v.items[j] = i
  BY <1>4
<1>7. Upstream(v)
  <2>1. ASSUME NEW j \in DOMAIN v.items
        PROVE  DOMAIN v.items[j] = {"kind", "pieces", "open"} /\ v.items[j].kind \in Kinds
    BY <1>1, <1>5, <1>6 DEF Upstream
  <2> QED
    BY <1>2, <1>4, <2>1 DEF Upstream
<1>8. Sent(e, trUp.items, v.items)
  BY <1>5, <1>6 DEF Sent
<1> HIDE DEF e
<1> QED
  BY <1>1, <1>3, <1>7, <1>8, HandleKeeps

\* An item that changes keeps its kind.
LEMMA ItemChanges ==
  ASSUME NEW u, NEW i \in DOMAIN u.items, NEW item, Upstream(u),
         DOMAIN item = {"kind", "pieces", "open"}, item.kind = u.items[i].kind
  PROVE  LET v == [u EXCEPT !.items = [u.items EXCEPT ![i] = item]]
         IN  /\ Upstream(v)
             /\ \A e : (e.type = "delta" /\ e.kind = "function_call" =>
                           e.item \in DOMAIN u.items /\ u.items[e.item].kind = "function_call")
                       => Sent(e, u.items, v.items)
<1> DEFINE n == [u.items EXCEPT ![i] = item]
           v == [u EXCEPT !.items = n]
<1>1. Sequence(n) /\ DOMAIN n = DOMAIN u.items
  BY SequenceChange DEF Upstream
<1>2. ASSUME NEW j \in DOMAIN u.items
      PROVE  n[j].kind = u.items[j].kind /\ DOMAIN n[j] = {"kind", "pieces", "open"}
  <2>1. CASE j = i
    <3>1. n[j] = item
      BY <2>1
    <3> HIDE DEF n
    <3> QED
      BY <2>1, <3>1
  <2>2. CASE j # i
    <3>1. n[j] = u.items[j]
      BY <2>2
    <3> HIDE DEF n
    <3> QED
      BY <3>1 DEF Upstream
  <2> QED
    BY <2>1, <2>2
<1> HIDE DEF n
<1>3. v.items = n /\ v = [f \in DOMAIN v |-> v[f]] /\ DOMAIN v = {"created", "items", "end"}
  BY DEF Upstream
<1> HIDE DEF v
<1>4. Upstream(v)
  BY <1>1, <1>2, <1>3 DEF Upstream
<1>5. ASSUME NEW e, e.type = "delta" /\ e.kind = "function_call" =>
                       e.item \in DOMAIN u.items /\ u.items[e.item].kind = "function_call"
      PROVE  Sent(e, u.items, v.items)
  BY <1>1, <1>2, <1>3, <1>5 DEF Sent
<1> QED
  BY <1>4, <1>5 DEF v, n

\* A delta keeps the invariant.
LEMMA DeltaKeeps ==
  ASSUME TrInv, NEW i, Delta(i)
  PROVE  TrInv'
<1> DEFINE e == [type |-> "delta", kind |-> trUp.items[i].kind, item |-> i, piece |-> pieces + 1]
           x == [trUp.items[i] EXCEPT !.pieces = Append(@, pieces + 1)]
           v == [trUp EXCEPT !.items = [trUp.items EXCEPT ![i] = x]]
<1>1. Handle(e) /\ ~trReturned /\ Upstream(trUp) /\ i \in DOMAIN trUp.items
  BY DEF Delta, Reading, TrInv, openItems
<1>2. trUp' = v
  BY <1>1 DEF Delta, Upstream
<1>3. DOMAIN x = {"kind", "pieces", "open"} /\ x.kind = trUp.items[i].kind
  BY <1>1 DEF Upstream
<1>4. /\ UpstreamEvent(e)
      /\ e.type = "delta" /\ e.kind = "function_call" =>
            e.item \in DOMAIN trUp.items /\ trUp.items[e.item].kind = "function_call"
  BY <1>1 DEF UpstreamEvent, Upstream
<1> HIDE DEF e, x
<1>5. Upstream(v) /\ Sent(e, trUp.items, v.items)
  BY <1>1, <1>3, <1>4, ItemChanges
<1> HIDE DEF v
<1> QED
  BY <1>1, <1>2, <1>4, <1>5, HandleKeeps

\* The end of a part keeps the invariant.
LEMMA ContentDoneKeeps ==
  ASSUME TrInv, NEW i, ContentDone(i)
  PROVE  TrInv'
<1> DEFINE e == [type |-> "content_done"]
<1>1. trUp' = trUp /\ Handle(e) /\ ~trReturned /\ Upstream(trUp)
  BY DEF ContentDone, Reading, TrInv
<1>2. UpstreamEvent(e) /\ Sent(e, trUp.items, trUp.items)
  BY DEF UpstreamEvent, Sent
<1> HIDE DEF e
<1> QED
  BY <1>1, <1>2, HandleKeeps

\* The end of an item keeps the invariant.
LEMMA ItemDoneKeeps ==
  ASSUME TrInv, NEW i, ItemDone(i)
  PROVE  TrInv'
<1> DEFINE e == [type |-> "item_done"]
           x == [trUp.items[i] EXCEPT !.open = FALSE]
           v == [trUp EXCEPT !.items = [trUp.items EXCEPT ![i] = x]]
<1>1. Handle(e) /\ ~trReturned /\ Upstream(trUp) /\ i \in DOMAIN trUp.items
  BY DEF ItemDone, Reading, TrInv, openItems
<1>2. trUp' = v
  BY <1>1 DEF ItemDone, Upstream
<1>3. DOMAIN x = {"kind", "pieces", "open"} /\ x.kind = trUp.items[i].kind
  BY <1>1 DEF Upstream
<1>4. UpstreamEvent(e) /\ e.type # "delta"
  BY DEF UpstreamEvent
<1> HIDE DEF e, x
<1>5. Upstream(v) /\ Sent(e, trUp.items, v.items)
  BY <1>1, <1>3, <1>4, ItemChanges
<1> HIDE DEF v
<1> QED
  BY <1>1, <1>2, <1>4, <1>5, HandleKeeps

\* response.completed keeps the invariant.
LEMMA CompletedKeeps ==
  ASSUME TrInv, NEW end, Completed(end)
  PROVE  TrInv'
<1> DEFINE e == [type |-> "completed", end |-> end]
           v == [trUp EXCEPT !.end = end]
<1>1. trUp' = v /\ Handle(e) /\ ~trReturned /\ Upstream(trUp)
  BY DEF Completed, Reading, TrInv
<1>2. /\ v.items = trUp.items
      /\ v = [f \in DOMAIN v |-> v[f]] /\ DOMAIN v = {"created", "items", "end"}
  BY <1>1 DEF Upstream
<1>3. UpstreamEvent(e) /\ e.type \notin {"delta"}
  BY DEF UpstreamEvent
<1> HIDE DEF e, v
<1>4. Upstream(v) /\ Sent(e, trUp.items, v.items)
  BY <1>1, <1>2, <1>3, SameItems
<1> QED
  BY <1>1, <1>3, <1>4, HandleKeeps

\* Nothing had reached the client, so the next attempt starts from nothing, and so does
\* the error.
LEMMA NextAttemptKeeps ==
  ASSUME TrInv, ~trReturned, ~trWrote, NextAttempt, UNCHANGED trTwice
  PROVE  TrInv'
<1>1. trMode' = trMode /\ trGone' = trGone /\ trTwice' = trTwice
  BY DEF NextAttempt
<1>2. CASE trAttempt < TrAttempts
  <2>1. /\ trUp' = Nothing /\ trState' = NewTranslator /\ trWrote' = FALSE
        /\ trClient' = trClient /\ trReturned' = trReturned
    BY <1>2 DEF NextAttempt
  <2>2. Upstream(trUp')
    BY <2>1, NothingYet
  <2>3. ~trGone' /\ ~trReturned' => IF trTwice' THEN Restarted' ELSE Relayed'
    <3> SUFFICES ASSUME ~trGone PROVE IF trTwice' THEN Restarted' ELSE Relayed'
      BY <1>1
    <3>1. CASE trTwice
      BY <1>1, <2>1, <3>1, NothingYet DEF Restarted
    <3>2. CASE ~trTwice
      <4>1. trClient = NoAnswer
        BY <3>2 DEF TrInv, Relayed
      <4>2. Relayed'
        BY <1>1, <2>1, <4>1, NothingYet DEF Relayed
      <4> QED
        BY <1>1, <3>2, <4>2
    <3> QED
      BY <3>1, <3>2
  <2>4. StreamLegal' /\ Client(trClient') /\ (trTwice' => trMode' = "messages" /\ trClient'.ended)
    BY <1>1, <2>1 DEF TrInv, StreamLegal, WellFormedStream, MessagesEnd
  <2>5. /\ trMode' \in {"messages", "chat"} /\ trWrote' \in BOOLEAN /\ trGone' \in BOOLEAN
        /\ trTwice' \in BOOLEAN /\ trReturned' \in BOOLEAN
    BY <1>1, <2>1 DEF TrInv
  <2> QED
    BY <2>2, <2>3, <2>4, <2>5 DEF TrInv
<1>3. CASE ~(trAttempt < TrAttempts)
  <2> DEFINE x == [trClient EXCEPT !.stop = "error", !.ended = TRUE,
                                   !.bad = @ \/ trClient.started \/ trClient.blocks # <<>>]
  <2>1. /\ trReturned' = TRUE /\ trClient' = IF trGone THEN trClient ELSE x
        /\ trUp' = trUp /\ trState' = trState /\ trWrote' = trWrote
    BY <1>3 DEF NextAttempt
  <2>2. /\ Client(x) /\ x.ended = TRUE
        /\ x.bad = (trClient.bad \/ trClient.started \/ trClient.blocks # <<>>)
    BY DEF TrInv, Client
  <2>3. ~trGone /\ ~trTwice => ~x.bad
    <3> SUFFICES ASSUME ~trGone, ~trTwice PROVE ~x.bad
      OBVIOUS
    <3>1. trClient = NoAnswer
      BY DEF TrInv, Relayed
    <3>2. ~NoAnswer.bad /\ ~NoAnswer.started /\ NoAnswer.blocks = <<>>
      BY DEF NoAnswer
    <3> HIDE DEF x
    <3> QED
      BY <2>2, <3>1, <3>2
  <2> HIDE DEF x
  <2>4. Client(trClient') /\ (trTwice' => trMode' = "messages" /\ trClient'.ended)
    BY <1>1, <2>1, <2>2 DEF TrInv
  <2>5. StreamLegal'
    <3>1. trTwice' \/ ~trClient'.bad
      BY <1>1, <2>1, <2>3 DEF TrInv, StreamLegal, WellFormedStream
    <3>2. ~trGone' => trClient'.ended
      BY <1>1, <2>1, <2>2
    <3> QED
      BY <3>1, <3>2 DEF StreamLegal, WellFormedStream, MessagesEnd
  <2> QED
    BY <1>1, <2>1, <2>4, <2>5 DEF TrInv
<1> QED
  BY <1>2, <1>3

\* response.failed keeps the invariant, retried or shown.
LEMMA FailedKeeps ==
  ASSUME TrInv, NEW capacity, Failed(capacity)
  PROVE  TrInv'
<1>1. CASE capacity /\ ~trWrote
  BY <1>1, NextAttemptKeeps DEF Failed, Reading
<1>2. CASE ~(capacity /\ ~trWrote)
  <2> DEFINE e == [type |-> "failed"]
             v == [trUp EXCEPT !.end = "failed"]
  <2>1. trUp' = v /\ Handle(e) /\ ~trReturned /\ Upstream(trUp)
    BY <1>2 DEF Failed, Reading, TrInv
  <2>2. /\ v.items = trUp.items
        /\ v = [f \in DOMAIN v |-> v[f]] /\ DOMAIN v = {"created", "items", "end"}
    BY <2>1 DEF Upstream
  <2>3. UpstreamEvent(e) /\ e.type \notin {"delta"}
    BY DEF UpstreamEvent
  <2> HIDE DEF e, v
  <2>4. Upstream(v) /\ Sent(e, trUp.items, v.items)
    BY <2>1, <2>2, <2>3, SameItems
  <2> QED
    BY <2>1, <2>3, <2>4, HandleKeeps
<1> QED
  BY <1>1, <1>2

\* A stream that breaks keeps the invariant, retried or not.
LEMMA BreakKeeps ==
  ASSUME TrInv, Break
  PROVE  TrInv'
<1> DEFINE final == finalize(trState).out
           done == IF trMode = "messages" /\ ~trGone THEN Received(trClient, final) ELSE trClient
           again == ~trWrote /\ ~trGone /\ trAttempt < TrAttempts
<1>0. ~trReturned
  BY DEF Break, Reading
<1>1. /\ trClient' = done /\ trMode' = trMode /\ trWrote' = trWrote /\ trGone' = trGone
      /\ again => /\ trTwice' = (trMode = "messages")
                  /\ trUp' = Nothing /\ trState' = NewTranslator /\ trReturned' = trReturned
      /\ ~again => /\ trReturned' = TRUE
                   /\ trUp' = trUp /\ trState' = trState /\ trTwice' = trTwice
  BY DEF Break
<1>2. trMode = "messages" /\ ~trGone => Client(done) /\ done.ended /\ (trTwice \/ ~done.bad)
  <2> SUFFICES ASSUME trMode = "messages", ~trGone
               PROVE  Client(done) /\ done.ended /\ (trTwice \/ ~done.bad)
    OBVIOUS
  <2>1. done = Received(trClient, final)
    OBVIOUS
  <2>2. CASE trTwice
    <3>1. Translator(trState) /\ \E c : InStep(c, trState)
      BY <1>0, <2>2 DEF TrInv, Restarted
    <3>2. PICK c : InStep(c, trState)
      BY <3>1
    <3>3. Answered(c, final)
      BY <3>1, <3>2, EndsAnswered DEF finalize
    <3>4. Client(trClient) /\ trClient.ended /\ Sequence(final)
      BY <2>2, <3>3 DEF TrInv, Answered
    <3> HIDE DEF final, done
    <3> QED
      BY <2>1, <2>2, <3>4, AnswerStaysEnded
  <2>3. CASE ~trTwice
    <3>1. Translator(trState) /\ InStep(trClient, trState)
      BY <1>0, <2>3 DEF TrInv, Relayed
    <3>2. Answered(trClient, final)
      BY <3>1, EndsAnswered DEF finalize
    <3> HIDE DEF final, done
    <3> QED
      BY <2>1, <3>2 DEF Answered
  <2> QED
    BY <2>2, <2>3
<1>3. ~(trMode = "messages" /\ ~trGone) => done = trClient
  OBVIOUS
<1> HIDE DEF done
<1>4. Client(trClient')
  BY <1>1, <1>2, <1>3 DEF TrInv
<1>5. CASE again
  <2>1. ~trGone /\ ~trWrote /\ ~trReturned'
    BY <1>0, <1>1, <1>5
  <2>2. CASE trMode = "messages"
    <3>1. trTwice' /\ Restarted'
      BY <1>1, <1>5, <2>2, NothingYet DEF Restarted
    <3> QED
      BY <1>1, <1>2, <1>4, <1>5, <2>1, <2>2, <3>1, NothingYet
      DEF TrInv, StreamLegal, WellFormedStream, MessagesEnd
  <2>3. CASE trMode = "chat"
    <3>1. ~trTwice /\ ~trTwice'
      BY <1>1, <1>5, <2>3 DEF TrInv
    <3>2. trClient' = NoAnswer
      BY <1>0, <1>1, <1>3, <2>1, <2>3, <3>1 DEF TrInv, Relayed
    <3>3. Relayed'
      BY <1>1, <1>5, <2>3, <3>2, NothingYet DEF Relayed
    <3> QED
      BY <1>1, <1>4, <1>5, <2>1, <2>3, <3>1, <3>2, <3>3, NothingYet
      DEF TrInv, StreamLegal, WellFormedStream, MessagesEnd
  <2> QED
    BY <2>2, <2>3 DEF TrInv
<1>6. CASE ~again
  <2>1. trTwice' \/ ~trClient'.bad
    BY <1>1, <1>2, <1>3, <1>6 DEF TrInv, StreamLegal, WellFormedStream
  <2>2. trTwice' => trMode' = "messages" /\ trClient'.ended
    BY <1>1, <1>2, <1>3, <1>6 DEF TrInv
  <2> HIDE DEF again
  <2> QED
    BY <1>1, <1>2, <1>4, <1>6, <2>1, <2>2 DEF TrInv, StreamLegal, WellFormedStream, MessagesEnd
<1> QED
  BY <1>5, <1>6

\* A client that leaves keeps the invariant.
LEMMA ClientGoneKeeps ==
  ASSUME TrInv, ClientGone
  PROVE  TrInv'
BY DEF TrInv, ClientGone, StreamLegal, WellFormedStream, MessagesEnd

\* Every step keeps the invariant.
LEMMA StreamStep ==
  ASSUME TrInv, [StreamTranslateNext]_trVars
  PROVE  TrInv'
<1>1. CASE UNCHANGED trVars
  BY <1>1 DEF trVars, TrInv, Relayed, Restarted, StreamLegal, WellFormedStream, MessagesEnd
<1>2. CASE StreamTranslateNext
  BY <1>2, CreatedKeeps, BreakKeeps, ClientGoneKeeps, AddedKeeps, DeltaKeeps, ContentDoneKeeps,
     ItemDoneKeeps, CompletedKeeps, FailedKeeps DEF StreamTranslateNext
<1> QED
  BY <1>1, <1>2

\* What /v1/messages and /v1/chat/completions stream is a legal answer of its protocol,
\* and complete for a client that reads to the end, whatever upstream sends and however often
\* the request is retried (WellFormedStream, MessagesEnd): for any number of items, pieces and
\* attempts.
THEOREM StreamLegalHolds == StreamTranslateSpec => []StreamLegal
<1>1. StreamTranslateInit => TrInv
  BY StreamStarts
<1>2. TrInv /\ [StreamTranslateNext]_trVars => TrInv'
  BY StreamStep
<1>3. TrInv => StreamLegal
  BY DEF TrInv
<1> QED
  BY <1>1, <1>2, <1>3, PTL DEF StreamTranslateSpec

-----------------------------------------------------------------------------
(* What the stream says: sequences of sequences. *)

\* What holds for the empty sequence, and with one element more whenever without it, holds
\* for every sequence.
LEMMA SequencesByAppend ==
  ASSUME NEW S, NEW T, <<>> \in T, \A s \in Seq(S) : s \in T => \A e \in S : Append(s, e) \in T
  PROVE  \A s \in Seq(S) : s \in T
<1> DEFINE U == {n \in Nat : \A s \in Seq(S) : Len(s) = n => s \in T}
<1>1. 0 \in U
  BY EmptySeq
<1>2. ASSUME NEW n \in U PROVE n + 1 \in U
  <2> SUFFICES ASSUME NEW s \in Seq(S), Len(s) = n + 1 PROVE s \in T
    OBVIOUS
  <2>1. s # <<>>
    BY EmptySeq
  <2>2. PICK r \in Seq(S), e \in S : s = Append(r, e)
    BY <2>1, SequenceEmptyOrAppend
  <2>3. Len(s) = Len(r) + 1 /\ Len(r) \in Nat
    BY <2>2, AppendProperties
  <2>4. r \in T
    BY <2>3
  <2> QED
    BY <2>2, <2>4
<1>3. U = Nat
  <2>1. U \subseteq Nat
    OBVIOUS
  <2> HIDE DEF U
  <2> QED
    BY <1>1, <1>2, <2>1, NaturalsFromZero
<1> QED
  BY <1>3

\* f lists the first sequence, the first two joined, ... the first n joined.
FlattensAs(seqs, n, f) ==
    f = [i \in 1..n |-> IF i = 1 THEN seqs[i] ELSE f[i - 1] \o seqs[i]]

\* There is such a list for any number of sequences.
LEMMA FlatteningExists ==
  ASSUME NEW seqs
  PROVE  \A n \in Nat : \E f : FlattensAs(seqs, n, f)
<1> DEFINE T == {n \in Nat : \E f : FlattensAs(seqs, n, f)}
<1>1. 0 \in T
  <2> DEFINE g == [i \in 1..0 |-> seqs[i]]
  <2>1. FlattensAs(seqs, 0, g)
    BY DEF FlattensAs
  <2> QED
    BY <2>1
<1>2. ASSUME NEW n \in T PROVE n + 1 \in T
  <2>1. PICK f : FlattensAs(seqs, n, f)
    OBVIOUS
  <2> DEFINE g == [i \in 1..(n + 1) |->
                      IF i # n + 1 THEN f[i]
                      ELSE IF i = 1 THEN seqs[i] ELSE f[n] \o seqs[i]]
  <2>2. ASSUME NEW i \in 1..(n + 1)
        PROVE  g[i] = IF i = 1 THEN seqs[i] ELSE g[i - 1] \o seqs[i]
    <3>1. CASE i = n + 1
      <4>1. i # 1 => i - 1 \in 1..(n + 1) /\ i - 1 = n /\ n # n + 1
        BY <3>1
      <4>2. i # 1 => g[i - 1] = f[n]
        BY <4>1
      <4> QED
        BY <3>1, <4>2
    <3>2. CASE i # n + 1
      <4>1. i \in 1..n
        BY <3>2
      <4>2. f[i] = IF i = 1 THEN seqs[i] ELSE f[i - 1] \o seqs[i]
        BY <4>1, <2>1 DEF FlattensAs
      <4>3. g[i] = f[i]
        BY <3>2
      <4>4. i # 1 => i - 1 \in 1..(n + 1) /\ i - 1 # n + 1
        BY <4>1
      <4>5. i # 1 => g[i - 1] = f[i - 1]
        BY <4>4
      <4> QED
        BY <4>2, <4>3, <4>5
    <3> QED
      BY <3>1, <3>2
  <2>3. g = [i \in 1..(n + 1) |-> g[i]]
    OBVIOUS
  <2> HIDE DEF g
  <2>4. FlattensAs(seqs, n + 1, g)
    BY <2>2, <2>3 DEF FlattensAs
  <2> QED
    BY <2>4
<1>3. T = Nat
  <2> HIDE DEF T
  <2>1. T \subseteq Nat
    BY DEF T
  <2> QED
    BY <1>1, <1>2, <2>1, NaturalsFromZero
<1> QED
  BY <1>3

\* FlattenSeq gives the last of the list.
LEMMA FlattenedIs ==
  ASSUME NEW seqs, Len(seqs) \in Nat, Len(seqs) # 0
  PROVE  \E f : /\ FlattenSeq(seqs) = f[Len(seqs)]
                /\ \A i \in 1..Len(seqs) : f[i] = IF i = 1 THEN seqs[i] ELSE f[i - 1] \o seqs[i]
<1> DEFINE f == CHOOSE f : FlattensAs(seqs, Len(seqs), f)
<1>1. FlattensAs(seqs, Len(seqs), f)
  BY FlatteningExists
<1>2. FlattenSeq(seqs) = f[Len(seqs)]
  BY DEF FlattenSeq, FlattensAs
<1> HIDE DEF f
<1>3. \A i \in 1..Len(seqs) : f[i] = IF i = 1 THEN seqs[i] ELSE f[i - 1] \o seqs[i]
  BY <1>1 DEF FlattensAs
<1> QED
  BY <1>2, <1>3

\* Nothing flattened is nothing.
LEMMA FlattenedNone == FlattenSeq(<<>>) = <<>>
BY DEF FlattenSeq

\* A sequence more.
LEMMA FlattenedAdd ==
  ASSUME NEW S, NEW seqs \in Seq(Seq(S)), NEW x \in Seq(S)
  PROVE  FlattenSeq(Append(seqs, x)) = FlattenSeq(seqs) \o x
<1> DEFINE n == Len(seqs)
           more == Append(seqs, x)
<1>1. /\ n \in Nat /\ Len(more) = n + 1 /\ more[n + 1] = x
      /\ \A i \in 1..n : more[i] = seqs[i]
  BY AppendProperties
<1> HIDE DEF more
<1>2. PICK g : /\ FlattenSeq(more) = g[n + 1]
               /\ \A i \in 1..(n + 1) : g[i] = IF i = 1 THEN more[i] ELSE g[i - 1] \o more[i]
  <2>1. Len(more) \in Nat /\ Len(more) # 0
    BY <1>1
  <2>2. \E g : /\ FlattenSeq(more) = g[Len(more)]
               /\ \A i \in 1..Len(more) : g[i] = IF i = 1 THEN more[i] ELSE g[i - 1] \o more[i]
    BY <2>1, FlattenedIs
  <2> QED
    BY <1>1, <2>2
<1>3. CASE n = 0
  <2>1. seqs = <<>>
    BY <1>3, EmptySeq
  <2>2. g[n + 1] = more[n + 1]
    BY <1>2, <1>3
  <2> QED
    BY <1>1, <1>2, <2>1, <2>2, FlattenedNone, ConcatEmptySeq DEF more
<1>4. CASE n # 0
  <2>1. PICK f : /\ FlattenSeq(seqs) = f[n]
                 /\ \A i \in 1..n : f[i] = IF i = 1 THEN seqs[i] ELSE f[i - 1] \o seqs[i]
    BY <1>1, <1>4, FlattenedIs
  <2> DEFINE U == {k \in Nat : k + 1 <= n => g[k + 1] = f[k + 1]}
  <2>2. 0 \in U
    <3>1. 1 \in 1..n /\ 1 \in 1..(n + 1)
      BY <1>1, <1>4
    <3>2. g[1] = more[1] /\ f[1] = seqs[1] /\ more[1] = seqs[1]
      BY <1>1, <1>2, <2>1, <3>1
    <3> QED
      BY <3>2
  <2>3. ASSUME NEW k \in U PROVE k + 1 \in U
    <3> SUFFICES ASSUME (k + 1) + 1 <= n PROVE g[(k + 1) + 1] = f[(k + 1) + 1]
      OBVIOUS
    <3> DEFINE m == (k + 1) + 1
    <3>1. m \in 1..n /\ m \in 1..(n + 1) /\ m # 1 /\ m - 1 = k + 1 /\ k + 1 <= n
      BY <1>1
    <3>2. g[k + 1] = f[k + 1]
      BY <3>1
    <3> HIDE DEF m
    <3>3. g[m] = g[m - 1] \o more[m] /\ f[m] = f[m - 1] \o seqs[m] /\ more[m] = seqs[m]
      BY <1>1, <1>2, <2>1, <3>1
    <3>4. g[m] = f[m]
      BY <3>1, <3>2, <3>3
    <3> QED
      BY <3>4 DEF m
  <2>4. U = Nat
    <3>1. U \subseteq Nat
      OBVIOUS
    <3> HIDE DEF U
    <3> QED
      BY <2>2, <2>3, <3>1, NaturalsFromZero
  <2>5. n - 1 \in U
    <3>1. n - 1 \in Nat
      BY <1>1, <1>4
    <3> HIDE DEF U
    <3> QED
      BY <2>4, <3>1
  <2>6. g[n] = f[n]
    BY <1>1, <2>5
  <2>7. g[n + 1] = g[n] \o x
    <3>1. n + 1 \in 1..(n + 1) /\ n + 1 # 1 /\ (n + 1) - 1 = n
      BY <1>1, <1>4
    <3>2. g[n + 1] = g[(n + 1) - 1] \o more[n + 1]
      BY <1>2, <3>1
    <3> QED
      BY <1>1, <3>1, <3>2
  <2> QED
    BY <1>2, <2>1, <2>6, <2>7 DEF more
<1> QED
  BY <1>3, <1>4

\* What is flattened is a sequence of the elements.
LEMMA FlattenedType ==
  ASSUME NEW S
  PROVE  \A seqs \in Seq(Seq(S)) : FlattenSeq(seqs) \in Seq(S)
<1> DEFINE T == {seqs \in Seq(Seq(S)) : FlattenSeq(seqs) \in Seq(S)}
<1>1. <<>> \in T
  BY FlattenedNone, EmptySeq
<1>2. ASSUME NEW seqs \in Seq(Seq(S)), seqs \in T, NEW x \in Seq(S)
      PROVE  Append(seqs, x) \in T
  <2>1. Append(seqs, x) \in Seq(Seq(S))
    BY AppendProperties
  <2>2. FlattenSeq(seqs) \o x \in Seq(S)
    BY <1>2, ConcatProperties
  <2> QED
    BY <2>1, <2>2, FlattenedAdd
<1> HIDE DEF T
<1>3. \A seqs \in Seq(Seq(S)) : seqs \in T
  BY <1>1, <1>2, SequencesByAppend
<1> QED
  BY <1>3 DEF T

\* Two lists of sequences, one after the other.
LEMMA FlattenedJoin ==
  ASSUME NEW S, NEW a \in Seq(Seq(S))
  PROVE  \A b \in Seq(Seq(S)) : FlattenSeq(a \o b) = FlattenSeq(a) \o FlattenSeq(b)
<1> DEFINE T == {b \in Seq(Seq(S)) : FlattenSeq(a \o b) = FlattenSeq(a) \o FlattenSeq(b)}
<1>0. FlattenSeq(a) \in Seq(S)
  BY FlattenedType
<1>1. <<>> \in T
  BY <1>0, FlattenedNone, EmptySeq, ConcatEmptySeq
<1>2. ASSUME NEW b \in Seq(Seq(S)), b \in T, NEW x \in Seq(S)
      PROVE  Append(b, x) \in T
  <2>1. Append(b, x) \in Seq(Seq(S)) /\ a \o b \in Seq(Seq(S)) /\ FlattenSeq(b) \in Seq(S)
    BY AppendProperties, ConcatProperties, FlattenedType
  <2>2. a \o Append(b, x) = Append(a \o b, x)
    OBVIOUS
  <2>3. FlattenSeq(Append(a \o b, x)) = FlattenSeq(a \o b) \o x
    BY <2>1, FlattenedAdd
  <2>4. FlattenSeq(Append(b, x)) = FlattenSeq(b) \o x
    BY FlattenedAdd
  <2>5. (FlattenSeq(a) \o FlattenSeq(b)) \o x = FlattenSeq(a) \o (FlattenSeq(b) \o x)
    BY <1>0, <2>1, ConcatAssociative
  <2>6. FlattenSeq(a \o b) = FlattenSeq(a) \o FlattenSeq(b)
    BY <1>2
  <2> QED
    BY <2>1, <2>2, <2>3, <2>4, <2>5, <2>6
<1> HIDE DEF T
<1>3. \A b \in Seq(Seq(S)) : b \in T
  BY <1>1, <1>2, SequencesByAppend
<1> QED
  BY <1>3 DEF T

\* A function on the places of a sequence is a sequence.
LEMMA MappedType ==
  ASSUME NEW S, NEW s \in Seq(S), NEW T, NEW m, m = [i \in DOMAIN m |-> m[i]],
         DOMAIN m = DOMAIN s, \A i \in DOMAIN s : m[i] \in T
  PROVE  m \in Seq(T) /\ Len(m) = Len(s)
<1>1. DOMAIN s = 1..Len(s) /\ Len(s) \in Nat
  BY LenProperties
<1>2. m \in [1..Len(s) -> T]
  BY <1>1
<1>3. m \in Seq(T)
  BY <1>1, <1>2, SeqDef
<1>4. DOMAIN m = 1..Len(m) /\ Len(m) \in Nat
  BY <1>3, LenProperties
<1> QED
  BY <1>1, <1>3, <1>4

\* With a place more it has an element more.
LEMMA MappedAdd ==
  ASSUME NEW S, NEW s \in Seq(S), NEW x \in S, NEW T,
         NEW m, m = [i \in DOMAIN m |-> m[i]], DOMAIN m = DOMAIN s, \A i \in DOMAIN s : m[i] \in T,
         NEW n, n = [i \in DOMAIN n |-> n[i]], DOMAIN n = DOMAIN Append(s, x),
         n[Len(s) + 1] \in T, \A i \in DOMAIN s : n[i] = m[i]
  PROVE  n = Append(m, n[Len(s) + 1]) /\ m \in Seq(T)
<1> DEFINE k == Len(s)
           v == n[k + 1]
           a == Append(s, x)
<1>1. m \in Seq(T) /\ Len(m) = k /\ DOMAIN s = 1..k /\ k \in Nat
  BY MappedType, LenProperties
<1>2. a \in Seq(S) /\ Len(a) = k + 1
  BY AppendProperties
<1> HIDE DEF a
<1>3. DOMAIN a = 1..(k + 1)
  BY <1>2, LenProperties
<1>4. \A i \in DOMAIN a : n[i] \in T
  BY <1>1, <1>3
<1>5. DOMAIN n = DOMAIN a
  BY DEF a
<1>6. n \in Seq(T) /\ Len(n) = k + 1
  BY <1>2, <1>4, <1>5, MappedType
<1>7. v \in T
  OBVIOUS
<1> HIDE DEF v
<1>8. /\ Append(m, v) \in Seq(T) /\ Len(Append(m, v)) = k + 1 /\ Append(m, v)[k + 1] = v
      /\ \A i \in 1..k : Append(m, v)[i] = m[i]
  BY <1>1, <1>7, AppendProperties
<1>9. \A i \in 1..(k + 1) : n[i] = Append(m, v)[i]
  BY <1>1, <1>8 DEF v
<1>10. n = Append(m, v)
  BY <1>6, <1>8, <1>9, SeqEqual
<1> QED
  BY <1>1, <1>10 DEF v

\* Blocks and items have pieces.
Pieced(S) == \A x \in S : x.pieces \in Seq(Nat)

\* Nothing has no content and no call.
LEMMA NothingSaid ==
  /\ \A kind : content(<<>>, kind) = <<>>
  /\ callsOf(<<>>) = <<>>
<1>1. ASSUME NEW f, DOMAIN f = {}, f = [i \in DOMAIN f |-> f[i]] PROVE FlattenSeq(f) = <<>>
  <2>1. f = <<>>
    BY <1>1
  <2> QED
    BY <2>1, FlattenedNone
<1>2. DOMAIN <<>> = {}
  OBVIOUS
<1>3. ASSUME NEW kind PROVE content(<<>>, kind) = <<>>
  BY <1>1, <1>2 DEF content
<1>4. callsOf(<<>>) = <<>>
  BY <1>1, <1>2 DEF callsOf
<1> QED
  BY <1>3, <1>4

\* The content of one item more.
LEMMA ContentAdd ==
  ASSUME NEW S, Pieced(S), NEW s \in Seq(S), NEW x \in S, NEW kind
  PROVE  /\ content(s, kind) \in Seq(Nat)
         /\ content(Append(s, x), kind) =
               IF x.kind = kind THEN content(s, kind) \o x.pieces ELSE content(s, kind)
<1> DEFINE m == [i \in DOMAIN s |-> IF s[i].kind = kind THEN s[i].pieces ELSE <<>>]
           a == Append(s, x)
           n == [i \in DOMAIN a |-> IF a[i].kind = kind THEN a[i].pieces ELSE <<>>]
           v == IF x.kind = kind THEN x.pieces ELSE <<>>
<1>1. /\ a \in Seq(S) /\ Len(a) = Len(s) + 1 /\ a[Len(s) + 1] = x
      /\ \A i \in 1..Len(s) : a[i] = s[i]
  BY AppendProperties
<1>2. DOMAIN a = 1..(Len(s) + 1) /\ DOMAIN s = 1..Len(s) /\ Len(s) \in Nat
  BY <1>1, LenProperties
<1>3. content(s, kind) = FlattenSeq(m) /\ content(a, kind) = FlattenSeq(n)
  BY DEF content
<1>4. \A i \in DOMAIN s : m[i] \in Seq(Nat)
  BY EmptySeq, ElementOfSeq, <1>2 DEF Pieced
<1>5. v \in Seq(Nat)
  BY EmptySeq DEF Pieced
<1>6. n[Len(s) + 1] = v /\ \A i \in DOMAIN s : n[i] = m[i]
  BY <1>1, <1>2
<1>7. m = [i \in DOMAIN m |-> m[i]] /\ DOMAIN m = DOMAIN s /\ n = [i \in DOMAIN n |-> n[i]] /\ DOMAIN n = DOMAIN a
  OBVIOUS
<1> HIDE DEF m, n, v
<1>8. n = Append(m, v) /\ m \in Seq(Seq(Nat))
  BY <1>4, <1>5, <1>6, <1>7, MappedAdd
<1>9. FlattenSeq(m) \in Seq(Nat) /\ FlattenSeq(n) = FlattenSeq(m) \o v
  BY <1>5, <1>8, FlattenedAdd, FlattenedType
<1> QED
  BY <1>3, <1>9, ConcatEmptySeq DEF v

\* The calls with one item more.
LEMMA CallsAdd ==
  ASSUME NEW S, Pieced(S), NEW s \in Seq(S), NEW x \in S
  PROVE  /\ callsOf(s) \in Seq(Seq(Nat))
         /\ callsOf(Append(s, x)) =
               IF x.kind = "function_call" THEN Append(callsOf(s), x.pieces) ELSE callsOf(s)
<1> DEFINE m == [i \in DOMAIN s |-> IF s[i].kind = "function_call" THEN <<s[i].pieces>> ELSE <<>>]
           a == Append(s, x)
           n == [i \in DOMAIN a |-> IF a[i].kind = "function_call" THEN <<a[i].pieces>> ELSE <<>>]
           v == IF x.kind = "function_call" THEN <<x.pieces>> ELSE <<>>
           C == Seq(Seq(Nat))
<1>1. /\ a \in Seq(S) /\ Len(a) = Len(s) + 1 /\ a[Len(s) + 1] = x
      /\ \A i \in 1..Len(s) : a[i] = s[i]
  BY AppendProperties
<1>2. DOMAIN a = 1..(Len(s) + 1) /\ DOMAIN s = 1..Len(s) /\ Len(s) \in Nat
  BY <1>1, LenProperties
<1>3. callsOf(s) = FlattenSeq(m) /\ callsOf(a) = FlattenSeq(n)
  BY DEF callsOf
<1>0. \A p \in Seq(Nat) : <<p>> \in C
  OBVIOUS
<1>4. \A i \in DOMAIN s : m[i] \in C
  BY <1>0, EmptySeq, ElementOfSeq, <1>2 DEF Pieced
<1>5. v \in C
  BY <1>0, EmptySeq DEF Pieced
<1>6. n[Len(s) + 1] = v /\ \A i \in DOMAIN s : n[i] = m[i]
  BY <1>1, <1>2
<1>7. m = [i \in DOMAIN m |-> m[i]] /\ DOMAIN m = DOMAIN s /\ n = [i \in DOMAIN n |-> n[i]] /\ DOMAIN n = DOMAIN a
  OBVIOUS
<1> HIDE DEF m, n, v
<1>8. n = Append(m, v) /\ m \in Seq(C)
  <2> HIDE DEF C
  <2> QED
    BY <1>4, <1>5, <1>6, <1>7, MappedAdd
<1>9. FlattenSeq(m) \in C /\ FlattenSeq(n) = FlattenSeq(m) \o v
  BY <1>5, <1>8, FlattenedAdd, FlattenedType
<1>10. CASE x.kind = "function_call"
  <2>1. v = <<x.pieces>> /\ x.pieces \in Seq(Nat)
    BY <1>10 DEF v, Pieced
  <2>2. Append(FlattenSeq(m), x.pieces) = FlattenSeq(m) \o <<x.pieces>>
    BY <1>9, <2>1, AppendIsConcat
  <2> QED
    BY <1>3, <1>9, <1>10, <2>1, <2>2
<1>11. CASE x.kind # "function_call"
  BY <1>3, <1>9, <1>11, ConcatEmptySeq DEF v
<1> QED
  BY <1>10, <1>11

\* A block of the client's, and an item of upstream's.
Block == [kind : Kinds, pieces : Seq(Nat)]
SentItem == [kind : Kinds, pieces : Seq(Nat), open : BOOLEAN]

\* Two lists of blocks or items say the same: the same text, the same summary, the same calls.
SaySame(b, s) ==
    /\ content(b, "message") = content(s, "message")
    /\ content(b, "reasoning") = content(s, "reasoning")
    /\ callsOf(b) = callsOf(s)

\* Blocks and the upstream's items are of that kind.
LEMMA PiecedBlocks == Pieced(Block) /\ Pieced(SentItem)
BY DEF Pieced, Block, SentItem

\* All but the last, and the last.
LEMMA FrontAndLast ==
  ASSUME NEW S, NEW s \in Seq(S), s # <<>>
  PROVE  /\ Front(s) \in Seq(S) /\ Last(s) \in S /\ Last(s) = s[Len(s)]
         /\ s = Append(Front(s), Last(s))
         /\ Len(s) \in Nat /\ Len(s) > 0 /\ Len(Front(s)) = Len(s) - 1
         /\ \A x \in S : [s EXCEPT ![Len(s)] = x] = Append(Front(s), x)
<1> DEFINE n == Len(s)
<1>1. n \in Nat /\ n > 0 /\ DOMAIN s = 1..n
  BY EmptySeq, LenProperties
<1>2. Front(s) = SubSeq(s, 1, n - 1) /\ Last(s) = s[n]
  BY DEF Front, Last
<1>3. /\ SubSeq(s, 1, n - 1) \in Seq(S)
      /\ Len(SubSeq(s, 1, n - 1)) = n - 1
      /\ \A i \in 1..(n - 1) : SubSeq(s, 1, n - 1)[i] = s[i]
  <2>1. 1 \in Int /\ n - 1 \in Int /\ \A i \in 1..(n - 1) : s[i] \in S
    BY <1>1, ElementOfSeq
  <2>2. /\ SubSeq(s, 1, n - 1) \in Seq(S)
        /\ Len(SubSeq(s, 1, n - 1)) = IF 1 <= n - 1 THEN (n - 1) - 1 + 1 ELSE 0
        /\ \A i \in 1..((n - 1) - 1 + 1) : SubSeq(s, 1, n - 1)[i] = s[1 + i - 1]
    BY <2>1, SubSeqProperties
  <2>3. \A i \in 1..(n - 1) : 1 + i - 1 = i /\ i \in 1..((n - 1) - 1 + 1)
    BY <1>1
  <2> QED
    BY <1>1, <2>2, <2>3
<1> DEFINE f == SubSeq(s, 1, n - 1)
<1>4. f \in Seq(S) /\ Len(f) = n - 1 /\ \A i \in 1..(n - 1) : f[i] = s[i]
  BY <1>3
<1> HIDE DEF f
<1>5. s[n] \in S
  BY <1>1, ElementOfSeq
<1>6. ASSUME NEW x \in S PROVE [s EXCEPT ![n] = x] = Append(f, x)
  <2> DEFINE a == Append(f, x)
             e == [s EXCEPT ![n] = x]
  <2>1. /\ a \in Seq(S) /\ Len(a) = n /\ a[n] = x
        /\ \A i \in 1..(n - 1) : a[i] = s[i]
    <3>1. (n - 1) + 1 = n
      BY <1>1
    <3> QED
      BY <1>4, <3>1, AppendProperties
  <2>2. e \in Seq(S) /\ Len(e) = n /\ \A i \in 1..n : e[i] = IF i = n THEN x ELSE s[i]
    <3>1. n \in 1..Len(s)
      BY <1>1
    <3> QED
      BY <3>1, ExceptSeq
  <2> HIDE DEF a, e
  <2>3. ASSUME NEW i \in 1..n PROVE e[i] = a[i]
    <3>1. CASE i = n
      BY <2>1, <2>2, <3>1
    <3>2. CASE i # n
      <4>1. i \in 1..(n - 1)
        <5>1. n \in Nat
          BY <1>1
        <5> HIDE DEF n
        <5> QED
          BY <3>2, <5>1
      <4> QED
        BY <2>1, <2>2, <3>2, <4>1
    <3> QED
      BY <3>1, <3>2
  <2>4. e = a
    BY <2>1, <2>2, <2>3, SeqEqual
  <2> QED
    BY <2>4 DEF a, e
<1>7. s = Append(f, s[n])
  <2>1. [s EXCEPT ![n] = s[n]] = Append(f, s[n])
    BY <1>5, <1>6
  <2>2. [s EXCEPT ![n] = s[n]] = s
    BY <1>1
  <2> QED
    BY <2>1, <2>2
<1> QED
  BY <1>1, <1>2, <1>4, <1>5, <1>6, <1>7 DEF f

\* One more is the last.
LEMMA LastOfAppend ==
  ASSUME NEW S, NEW s \in Seq(S), NEW x \in S
  PROVE  Append(s, x) # <<>> /\ Front(Append(s, x)) = s /\ Last(Append(s, x)) = x
<1> DEFINE a == Append(s, x)
<1>1. a \in Seq(S) /\ a # <<>>
  BY AppendProperties
<1>2. Front(a) \in Seq(S) /\ Last(a) \in S /\ a = Append(Front(a), Last(a))
  BY <1>1, FrontAndLast
<1>3. s = Front(a) /\ x = Last(a)
  <2> DEFINE f == Front(a)
             l == Last(a)
  <2>1. f \in Seq(S) /\ l \in S /\ Append(s, x) = Append(f, l)
    BY <1>2
  <2> HIDE DEF f, l
  <2>2. s = f /\ x = l
    BY <2>1, AppendInjective
  <2> QED
    BY <2>2 DEF f, l
<1> QED
  BY <1>1, <1>3

\* The same said on both sides.
LEMMA BothSay ==
  ASSUME NEW b \in Seq(Block), NEW s \in Seq(SentItem), NEW x \in Block, NEW y \in SentItem,
         SaySame(b, s), x.kind = y.kind, x.pieces = y.pieces
  PROVE  SaySame(Append(b, x), Append(s, y))
<1>1. ASSUME NEW kind
      PROVE  /\ content(Append(b, x), kind) =
                   IF x.kind = kind THEN content(b, kind) \o x.pieces ELSE content(b, kind)
             /\ content(Append(s, y), kind) =
                   IF y.kind = kind THEN content(s, kind) \o y.pieces ELSE content(s, kind)
  <2>1. content(Append(b, x), kind) =
           IF x.kind = kind THEN content(b, kind) \o x.pieces ELSE content(b, kind)
    BY ContentAdd, PiecedBlocks
  <2>2. content(Append(s, y), kind) =
           IF y.kind = kind THEN content(s, kind) \o y.pieces ELSE content(s, kind)
    BY ContentAdd, PiecedBlocks
  <2> QED
    BY <2>1, <2>2
<1>2. callsOf(Append(b, x)) =
         IF x.kind = "function_call" THEN Append(callsOf(b), x.pieces) ELSE callsOf(b)
  BY CallsAdd, PiecedBlocks
<1>3. callsOf(Append(s, y)) =
         IF y.kind = "function_call" THEN Append(callsOf(s), y.pieces) ELSE callsOf(s)
  BY CallsAdd, PiecedBlocks
<1>4. /\ content(b, "message") = content(s, "message")
      /\ content(b, "reasoning") = content(s, "reasoning")
      /\ callsOf(b) = callsOf(s)
  BY DEF SaySame
<1>5. content(Append(b, x), "message") = content(Append(s, y), "message")
  BY <1>1, <1>4
<1>6. content(Append(b, x), "reasoning") = content(Append(s, y), "reasoning")
  BY <1>1, <1>4
<1>7. callsOf(Append(b, x)) = callsOf(Append(s, y))
  BY <1>2, <1>3, <1>4
<1> QED
  BY <1>5, <1>6, <1>7 DEF SaySame

\* An empty block or item of text says nothing.
LEMMA EmptySays ==
  ASSUME NEW b \in Seq(Block), NEW s \in Seq(SentItem), SaySame(b, s)
  PROVE  /\ \A x \in Block : x.kind # "function_call" /\ x.pieces = <<>> => SaySame(Append(b, x), s)
         /\ \A y \in SentItem : y.kind # "function_call" /\ y.pieces = <<>> => SaySame(b, Append(s, y))
<1>1. ASSUME NEW S, Pieced(S), NEW q \in Seq(S), NEW x \in S, x.kind # "function_call", x.pieces = <<>>
      PROVE  SaySame(Append(q, x), q)
  <2>1. \A kind : content(q, kind) \in Seq(Nat) /\ content(q, kind) \o <<>> = content(q, kind)
    BY <1>1, ContentAdd, ConcatEmptySeq
  <2>2. \A kind : content(Append(q, x), kind) = content(q, kind)
    BY <1>1, <2>1, ContentAdd
  <2>3. callsOf(Append(q, x)) = callsOf(q)
    BY <1>1, CallsAdd
  <2> QED
    BY <2>2, <2>3 DEF SaySame
<1>2. ASSUME NEW x \in Block, x.kind # "function_call", x.pieces = <<>> PROVE SaySame(Append(b, x), s)
  <2>1. SaySame(Append(b, x), b)
    BY <1>1, <1>2, PiecedBlocks
  <2> QED
    BY <2>1 DEF SaySame
<1>3. ASSUME NEW y \in SentItem, y.kind # "function_call", y.pieces = <<>> PROVE SaySame(b, Append(s, y))
  <2>1. SaySame(Append(s, y), s)
    BY <1>1, <1>3, PiecedBlocks
  <2> QED
    BY <2>1 DEF SaySame
<1> QED
  BY <1>2, <1>3

\* Pieces that are joined twice.
LEMMA PiecesJoin ==
  ASSUME NEW u \in Seq(Nat), NEW v \in Seq(Nat), NEW w \in Seq(Nat)
  PROVE  (u \o v) \o w = u \o (v \o w)
OBVIOUS

\* A piece more of a text, on both sides.
LEMMA MoreSaid ==
  ASSUME NEW b \in Seq(Block), NEW s \in Seq(SentItem), NEW x \in Block, NEW y \in SentItem,
         NEW u \in Block, NEW v \in SentItem, NEW p \in Nat,
         x.kind = y.kind, x.kind # "function_call", SaySame(Append(b, x), Append(s, y)),
         u.kind = x.kind, u.pieces = x.pieces \o <<p>>,
         v.kind = y.kind, v.pieces = Append(y.pieces, p)
  PROVE  SaySame(Append(b, u), Append(s, v))
<1>1. ASSUME NEW S, Pieced(S), NEW q \in Seq(S), NEW a \in S, NEW c \in S, a.kind = c.kind,
             a.kind # "function_call", c.pieces = a.pieces \o <<p>>
      PROVE  /\ \A kind : content(Append(q, c), kind) =
                   IF a.kind = kind THEN content(Append(q, a), kind) \o <<p>> ELSE content(Append(q, a), kind)
             /\ callsOf(Append(q, c)) = callsOf(Append(q, a))
  <2>1. ASSUME NEW kind
        PROVE  /\ content(q, kind) \in Seq(Nat)
               /\ content(Append(q, a), kind) =
                     IF a.kind = kind THEN content(q, kind) \o a.pieces ELSE content(q, kind)
               /\ content(Append(q, c), kind) =
                     IF c.kind = kind THEN content(q, kind) \o c.pieces ELSE content(q, kind)
    <3>1. ASSUME NEW z \in S
          PROVE  /\ content(q, kind) \in Seq(Nat)
                 /\ content(Append(q, z), kind) =
                       IF z.kind = kind THEN content(q, kind) \o z.pieces ELSE content(q, kind)
      BY <1>1, ContentAdd
    <3> QED
      BY <3>1
  <2>2. a.pieces \in Seq(Nat) /\ <<p>> \in Seq(Nat)
    BY <1>1 DEF Pieced
  <2>3. ASSUME NEW kind
        PROVE  (content(q, kind) \o a.pieces) \o <<p>> = content(q, kind) \o c.pieces
    <3> DEFINE w == content(q, kind)
               h == a.pieces
               l == <<p>>
    <3>1. w \in Seq(Nat) /\ h \in Seq(Nat) /\ l \in Seq(Nat)
      BY <2>1, <2>2
    <3> HIDE DEF w, h, l
    <3>2. (w \o h) \o l = w \o (h \o l)
      BY <3>1, PiecesJoin
    <3> QED
      BY <1>1, <3>2 DEF w, h, l
  <2>4. callsOf(Append(q, c)) = callsOf(Append(q, a))
    BY <1>1, CallsAdd
  <2> QED
    BY <1>1, <2>1, <2>3, <2>4
<1>2. v.pieces = y.pieces \o <<p>>
  BY AppendIsConcat DEF SentItem
<1>3. /\ \A kind : content(Append(b, u), kind) =
            IF x.kind = kind THEN content(Append(b, x), kind) \o <<p>> ELSE content(Append(b, x), kind)
      /\ callsOf(Append(b, u)) = callsOf(Append(b, x))
  BY <1>1, PiecedBlocks
<1>4. /\ \A kind : content(Append(s, v), kind) =
            IF y.kind = kind THEN content(Append(s, y), kind) \o <<p>> ELSE content(Append(s, y), kind)
      /\ callsOf(Append(s, v)) = callsOf(Append(s, y))
  BY <1>1, <1>2, PiecedBlocks
<1> QED
  BY <1>3, <1>4 DEF SaySame

-----------------------------------------------------------------------------
(* What the client of Messages has, against what upstream has sent. *)

\* A call is open: its arguments are still in the translator's buffer.
OpenCall(t) == t.open /\ t.type = "function_call"

\* The client has all that upstream has sent but the arguments in the buffer.
Behind(c, t, items) ==
    /\ c.blocks \in Seq(Block) /\ items \in Seq(SentItem) /\ t.buffer \in Seq(Nat)
    /\ t.tools \in BOOLEAN
    /\ OpenCall(t) =>
          /\ items # <<>> /\ SaySame(Front(c.blocks), Front(items))
          /\ Last(c.blocks).pieces = <<>>
          /\ Last(items).kind = "function_call" /\ Last(items).pieces = t.buffer
    /\ ~OpenCall(t) => t.buffer = <<>> /\ SaySame(c.blocks, items)

KeepsBehind(c, w, items) == Behind(Received(c, w.out), w.t, items)

\* Behind depends on these fields only.
LEMMA BehindBy ==
  ASSUME NEW c, NEW t, NEW d, NEW u, NEW items, Behind(c, t, items), d.blocks = c.blocks,
         u.open = t.open, u.type = t.type, u.buffer = t.buffer, u.tools = t.tools
  PROVE  Behind(d, u, items)
BY DEF Behind, OpenCall

\* Two events, one after the other.
LEMMA ReceivedTwo ==
  ASSUME NEW c, NEW e, NEW m
  PROVE  Sequence(<<e, m>>) /\ Received(c, <<e, m>>) = ReceiveEvent(ReceiveEvent(c, e), m)
<1>1. Sequence(<<e>>) /\ Sequence(<<m>>) /\ <<e, m>> = <<e>> \o <<m>>
  BY SequenceShort, JoinedSequences
<1>2. Sequence(<<e>> \o <<m>>) /\ Received(c, <<e>> \o <<m>>) = Received(Received(c, <<e>>), <<m>>)
  BY <1>1, SequencesJoin, ReceivedJoin
<1> QED
  BY <1>1, <1>2, ReceivedOne

\* Pieces for the open block, and the block with them.
PiecesEvent(t, p) == [type |-> "content_block_delta", index |-> t.index - 1,
                      kind |-> t.type, pieces |-> p]

WithPieces(x, p) == [x EXCEPT !.pieces = @ \o p]

\* The open block takes them.
LEMMA DeltaTaken ==
  ASSUME NEW c, NEW t, NEW p \in Seq(Nat), InStep(c, t), t.open, c.blocks \in Seq(Block)
  PROVE  LET x == WithPieces(Last(c.blocks), p)
         IN  /\ c.blocks # <<>> /\ Last(c.blocks) \in Block /\ Last(c.blocks).kind = t.type
             /\ x \in Block /\ x.kind = t.type /\ x.pieces = Last(c.blocks).pieces \o p
             /\ ReceiveEvent(c, PiecesEvent(t, p)).blocks = Append(Front(c.blocks), x)
<1> DEFINE x == WithPieces(Last(c.blocks), p)
           e == PiecesEvent(t, p)
<1> DEFINE n == Len(c.blocks)
           l == c.blocks[n]
<1>1. t.index = n /\ n > 0 /\ l.kind = t.type
  BY DEF InStep
<1>2. c.blocks # <<>>
  BY <1>1, EmptySeq
<1>3. Last(c.blocks) = l /\ l \in Block /\ n \in Nat
  BY <1>2, FrontAndLast
<1>4. x = [l EXCEPT !.pieces = @ \o p]
  BY <1>3 DEF WithPieces
<1>5. ReceiveEvent(c, e) = [c EXCEPT !.blocks[n].pieces = @ \o p]
  BY <1>1 DEF InStep, Client, ReceiveEvent, PiecesEvent
<1>a. ReceiveEvent(c, e).blocks = [c.blocks EXCEPT ![n] = [l EXCEPT !.pieces = @ \o p]]
  BY <1>5 DEF InStep, Client
<1>6. ReceiveEvent(c, e).blocks = [c.blocks EXCEPT ![n] = x]
  BY <1>4, <1>a
<1>7. \A z \in Block : [c.blocks EXCEPT ![n] = z] = Append(Front(c.blocks), z)
  BY <1>2, FrontAndLast
<1> HIDE DEF n, l, x, e
<1>8. l.pieces \o p \in Seq(Nat)
  BY <1>3 DEF Block
<1>9. x \in Block /\ x.kind = l.kind /\ x.pieces = l.pieces \o p
  BY <1>3, <1>4, <1>8 DEF Block
<1>10. [c.blocks EXCEPT ![n] = x] = Append(Front(c.blocks), x)
  BY <1>7, <1>9
<1> QED
  BY <1>1, <1>2, <1>3, <1>6, <1>9, <1>10 DEF x, e

\* handleCreated says nothing.
LEMMA CreatedSays ==
  ASSUME NEW c, NEW t, NEW items, Translator(t), InStep(c, t), Behind(c, t, items)
  PROVE  LET w == handleCreated(t)
         IN  /\ KeepsBehind(c, w, items)
             /\ w.t.open = t.open /\ w.t.type = t.type /\ w.t.tools = t.tools
             /\ w.t.buffer = t.buffer
<1>1. CASE t.start
  BY <1>1, ReceivedNone DEF handleCreated, Written, KeepsBehind
<1>2. CASE ~t.start
  <2> DEFINE n == [t EXCEPT !.start = TRUE]
             e == [type |-> "message_start"]
  <2>1. handleCreated(t) = Written(n, <<e>>)
    BY <1>2 DEF handleCreated
  <2>2. ReceiveEvent(c, e) = [c EXCEPT !.started = TRUE]
    BY <1>2 DEF InStep, Client, ReceiveEvent
  <2>3. n.open = t.open /\ n.type = t.type /\ n.tools = t.tools /\ n.buffer = t.buffer
    BY DEF Translator
  <2>4. ReceiveEvent(c, e).blocks = c.blocks
    BY <2>2 DEF InStep, Client
  <2> HIDE DEF n, e
  <2>5. Behind(ReceiveEvent(c, e), n, items)
    BY <2>3, <2>4, BehindBy
  <2> QED
    BY <2>1, <2>3, <2>5, ReceivedOne DEF Written, KeepsBehind
<1> QED
  BY <1>1, <1>2

\* closeCurrentBlock hands out the buffer.
LEMMA ClosedSays ==
  ASSUME NEW c, NEW t, NEW items, Translator(t), InStep(c, t), Behind(c, t, items)
  PROVE  LET w == closeCurrentBlock(t)
         IN  KeepsBehind(c, w, items) /\ ~w.t.open /\ w.t.tools = t.tools
<1>1. CASE ~t.open
  BY <1>1, ReceivedNone DEF closeCurrentBlock, Written, KeepsBehind
<1>2. CASE t.open /\ ~(t.type = "function_call" /\ t.buffer # <<>>)
  <2> DEFINE n == [t EXCEPT !.open = FALSE]
             e == BlockStop(t)
             d == ReceiveEvent(c, e)
  <2>1. closeCurrentBlock(t) = Written(n, <<e>>)
    BY <1>2 DEF closeCurrentBlock
  <2>2. d = [c EXCEPT !.open = FALSE]
    BY <1>2 DEF InStep, Client, ReceiveEvent, BlockStop
  <2>3. n.open = FALSE /\ n.tools = t.tools /\ n.buffer = t.buffer
    BY DEF Translator
  <2>4. d.blocks = c.blocks
    BY <2>2 DEF InStep, Client
  <2> HIDE DEF n, e, d
  <2>5. t.buffer = <<>> /\ SaySame(c.blocks, items)
    <3>1. CASE ~OpenCall(t)
      BY <3>1 DEF Behind
    <3>2. CASE OpenCall(t)
      <4>1. t.buffer = <<>>
        BY <1>2, <3>2 DEF OpenCall
      <4>2. /\ items # <<>> /\ SaySame(Front(c.blocks), Front(items)) /\ Last(c.blocks).pieces = <<>>
            /\ Last(items).kind = "function_call" /\ Last(items).pieces = <<>>
            /\ c.blocks \in Seq(Block) /\ items \in Seq(SentItem)
        BY <3>2, <4>1 DEF Behind
      <4>3. c.blocks # <<>> /\ Last(c.blocks).kind = "function_call"
        <5>1. <<>> \in Seq(Nat)
          BY EmptySeq
        <5>2. t.open /\ t.type = "function_call"
          BY <3>2 DEF OpenCall
        <5> QED
          BY <4>2, <5>1, <5>2, DeltaTaken
      <4>4. /\ Front(c.blocks) \in Seq(Block) /\ Last(c.blocks) \in Block
            /\ c.blocks = Append(Front(c.blocks), Last(c.blocks))
        BY <4>2, <4>3, FrontAndLast
      <4>5. /\ Front(items) \in Seq(SentItem) /\ Last(items) \in SentItem
            /\ items = Append(Front(items), Last(items))
        BY <4>2, FrontAndLast
      <4>6. SaySame(Append(Front(c.blocks), Last(c.blocks)), Append(Front(items), Last(items)))
        BY <4>2, <4>3, <4>4, <4>5, BothSay
      <4> QED
        BY <4>1, <4>4, <4>5, <4>6
    <3> QED
      BY <3>1, <3>2
  <2>6. Behind(d, n, items)
    BY <2>3, <2>4, <2>5 DEF Behind, OpenCall
  <2> QED
    BY <2>1, <2>3, <2>6, ReceivedOne DEF Written, KeepsBehind, d
<1>3. CASE t.open /\ t.type = "function_call" /\ t.buffer # <<>>
  <2> DEFINE m == [t EXCEPT !.open = FALSE, !.buffer = <<>>]
             e == Arguments(t)
             s == BlockStop(t)
             d == ReceiveEvent(c, e)
             f == ReceiveEvent(d, s)
             x == WithPieces(Last(c.blocks), t.buffer)
  <2>1. closeCurrentBlock(t) = Written(m, <<e, s>>)
    BY <1>3 DEF closeCurrentBlock
  <2>2. m.open = FALSE /\ m.tools = t.tools /\ m.buffer = <<>>
    BY DEF Translator
  <2>3. /\ items # <<>> /\ SaySame(Front(c.blocks), Front(items)) /\ Last(c.blocks).pieces = <<>>
        /\ Last(items).kind = "function_call" /\ Last(items).pieces = t.buffer
        /\ c.blocks \in Seq(Block) /\ items \in Seq(SentItem) /\ t.buffer \in Seq(Nat)
        /\ t.tools \in BOOLEAN
    BY <1>3 DEF Behind, OpenCall
  <2>4. e = PiecesEvent(t, t.buffer)
    BY <1>3 DEF Arguments, PiecesEvent
  <2>5. /\ c.blocks # <<>> /\ x \in Block /\ x.kind = "function_call"
        /\ x.pieces = Last(c.blocks).pieces \o t.buffer
        /\ d.blocks = Append(Front(c.blocks), x)
    <3>1. t.open /\ t.type = "function_call" /\ t.buffer \in Seq(Nat) /\ c.blocks \in Seq(Block)
      BY <1>3, <2>3
    <3>2. c.blocks # <<>>
      BY <3>1, DeltaTaken
    <3>3. x \in Block /\ x.kind = t.type
      BY <3>1, DeltaTaken
    <3>4. x.pieces = Last(c.blocks).pieces \o t.buffer
      BY <3>1, DeltaTaken
    <3>5. ReceiveEvent(c, PiecesEvent(t, t.buffer)).blocks = Append(Front(c.blocks), x)
      BY <3>1, DeltaTaken
    <3> HIDE DEF x, e
    <3> QED
      BY <2>4, <3>1, <3>2, <3>3, <3>4, <3>5
  <2>6. x.pieces = t.buffer
    BY <2>3, <2>5, ConcatEmptySeq
  <2>7. InStep(d, t)
    BY <1>3, <2>4, DeltaInStep DEF PiecesEvent
  <2> HIDE DEF m, e, d, x
  <2>8. f = [d EXCEPT !.open = FALSE]
    BY <1>3, <2>7 DEF InStep, Client, ReceiveEvent, BlockStop
  <2>9. f.blocks = d.blocks
    BY <2>7, <2>8 DEF InStep, Client
  <2> HIDE DEF s, f
  <2>10. Front(c.blocks) \in Seq(Block)
    BY <2>3, <2>5, FrontAndLast
  <2>11. /\ Front(items) \in Seq(SentItem) /\ Last(items) \in SentItem
         /\ items = Append(Front(items), Last(items))
    BY <2>3, FrontAndLast
  <2>12. SaySame(f.blocks, items) /\ f.blocks \in Seq(Block)
    <3>1. SaySame(Append(Front(c.blocks), x), Append(Front(items), Last(items)))
      BY <2>3, <2>5, <2>6, <2>10, <2>11, BothSay
    <3>2. Append(Front(c.blocks), x) \in Seq(Block)
      BY <2>5, <2>10, AppendProperties
    <3> QED
      BY <2>5, <2>9, <2>11, <3>1, <3>2
  <2>13. Behind(f, m, items)
    BY <2>2, <2>3, <2>12, EmptySeq DEF Behind, OpenCall
  <2>14. Received(c, <<e, s>>) = f
    BY ReceivedTwo DEF d, f
  <2> QED
    BY <2>1, <2>2, <2>13, <2>14 DEF Written, KeepsBehind
<1> QED
  BY <1>1, <1>2, <1>3 DEF Translator

\* openBlock remembers that there is a call.
LEMMA OpenedTools ==
  ASSUME NEW t, NEW kind, Translator(t), t.tools \in BOOLEAN
  PROVE  openBlock(t, kind).t.tools = IF kind = "function_call" THEN TRUE ELSE t.tools
<1> DEFINE v == closeCurrentBlock(t)
           u == v.t
           n == [u EXCEPT !.index = @ + 1, !.open = TRUE, !.type = kind,
                          !.tools = @ \/ kind = "function_call"]
<1>1. u.tools = t.tools /\ "tools" \in DOMAIN u
  <2>1. \/ v.t = t \/ v.t = [t EXCEPT !.open = FALSE]
        \/ v.t = [t EXCEPT !.open = FALSE, !.buffer = <<>>]
    BY DEF closeCurrentBlock, Written
  <2> QED
    BY <2>1 DEF Translator
<1>2. openBlock(t, kind).t = n
  BY DEF openBlock, Written
<1> HIDE DEF v
<1>3. n.tools = (u.tools \/ kind = "function_call")
  BY <1>1
<1> HIDE DEF n
<1>4. n.tools = IF kind = "function_call" THEN TRUE ELSE t.tools
  BY <1>1, <1>3
<1> QED
  BY <1>2, <1>4

\* openBlock: the block of an item that is added, or another block of a text.
LEMMA OpenedSays ==
  ASSUME NEW c, NEW t, NEW items, NEW kind \in Kinds, Translator(t), InStep(c, t), t.start,
         Behind(c, t, items)
  PROVE  LET w == openBlock(t, kind)
         IN  /\ \A y \in SentItem : y.kind = kind /\ y.pieces = <<>> =>
                   KeepsBehind(c, w, Append(items, y))
             /\ kind # "function_call" => KeepsBehind(c, w, items)
<1> DEFINE w == closeCurrentBlock(t)
           d == Received(c, w.out)
           n == [w.t EXCEPT !.index = @ + 1, !.open = TRUE, !.type = kind,
                            !.tools = @ \/ kind = "function_call"]
           e == [type |-> "content_block_start", index |-> w.t.index, kind |-> kind]
           b == [kind |-> kind, pieces |-> <<>>]
           f == ReceiveEvent(d, e)
<1>1. KeepsInStep(c, w) /\ w.t.start /\ ~w.t.open
  BY ClosedInStep
<1>2. KeepsBehind(c, w, items) /\ w.t.tools = t.tools
  BY ClosedSays
<1>3. openBlock(t, kind) = Written(n, Append(w.out, e))
  BY DEF openBlock
<1>4. Translator(w.t) /\ InStep(d, w.t) /\ Sequence(w.out)
  BY <1>1 DEF KeepsInStep
<1>5. Behind(d, w.t, items)
  BY <1>2 DEF KeepsBehind
<1> HIDE DEF w, d
<1>6. /\ d.blocks \in Seq(Block) /\ items \in Seq(SentItem) /\ w.t.tools \in BOOLEAN
      /\ w.t.buffer = <<>> /\ SaySame(d.blocks, items)
  BY <1>1, <1>5 DEF Behind, OpenCall
<1>7. /\ n.open = TRUE /\ n.type = kind /\ n.buffer = w.t.buffer
      /\ n.tools = IF kind = "function_call" THEN TRUE ELSE w.t.tools
  BY <1>4, <1>6 DEF Translator
<1>8. f = [d EXCEPT !.open = TRUE, !.blocks = Append(@, b)]
  BY <1>1, <1>4 DEF InStep, Client, Translator, ReceiveEvent
<1>9. f.blocks = Append(d.blocks, b)
  BY <1>4, <1>8 DEF InStep, Client
<1>10. b \in Block /\ b.kind = kind /\ b.pieces = <<>>
  BY EmptySeq DEF Block
<1> HIDE DEF n, e, b, f
<1>11. /\ f.blocks \in Seq(Block) /\ f.blocks # <<>>
       /\ Front(f.blocks) = d.blocks /\ Last(f.blocks) = b
  BY <1>6, <1>9, <1>10, AppendProperties, LastOfAppend
<1>12. n.tools \in BOOLEAN /\ n.buffer = <<>> /\ n.buffer \in Seq(Nat)
  BY <1>6, <1>7, EmptySeq
<1>13. ASSUME NEW y \in SentItem, y.kind = kind, y.pieces = <<>>
       PROVE  Behind(f, n, Append(items, y))
  <2> DEFINE a == Append(items, y)
  <2>1. a \in Seq(SentItem) /\ a # <<>> /\ Front(a) = items /\ Last(a) = y
    BY <1>6, AppendProperties, LastOfAppend
  <2>2. OpenCall(n) <=> kind = "function_call"
    BY <1>7 DEF OpenCall
  <2>3. kind # "function_call" => SaySame(f.blocks, a)
    <3> SUFFICES ASSUME kind # "function_call" PROVE SaySame(f.blocks, a)
      OBVIOUS
    <3>1. SaySame(f.blocks, items)
      BY <1>6, <1>9, <1>10, EmptySays
    <3> QED
      BY <1>6, <1>11, <1>13, <3>1, EmptySays
  <2> HIDE DEF a
  <2>4. Behind(f, n, a)
    BY <1>6, <1>10, <1>11, <1>12, <1>13, <2>1, <2>2, <2>3 DEF Behind
  <2> QED
    BY <2>4 DEF a
<1>14. kind # "function_call" => Behind(f, n, items)
  <2> SUFFICES ASSUME kind # "function_call" PROVE Behind(f, n, items)
    OBVIOUS
  <2>1. SaySame(f.blocks, items)
    BY <1>6, <1>9, <1>10, EmptySays
  <2>2. ~OpenCall(n)
    BY <1>7 DEF OpenCall
  <2> QED
    BY <1>6, <1>11, <1>12, <2>1, <2>2 DEF Behind
<1>15. Received(c, Append(w.out, e)) = f
  <2>1. Append(w.out, e) = w.out \o <<e>> /\ Sequence(<<e>>)
    BY <1>4, JoinedSequences, SequenceShort
  <2>2. Received(c, w.out \o <<e>>) = Received(d, <<e>>)
    BY <1>4, <2>1, ReceivedJoin DEF d
  <2> QED
    BY <2>1, <2>2, ReceivedOne DEF f
<1> QED
  BY <1>3, <1>13, <1>14, <1>15 DEF KeepsBehind, Written

\* The translator of Messages follows the item that is open, which is the last one.
Follows(t, items) ==
    /\ t.tools <=> callsOf(items) # <<>>
    /\ \A i \in DOMAIN items : items[i].open => i = Len(items)
    /\ t.open => items # <<>> /\ Last(items).open /\ Last(items).kind = t.type
    /\ items # <<>> /\ Last(items).open /\ Last(items).kind = "function_call" => t.open

Tells(c, t, items) == Behind(c, t, items) /\ Follows(t, items)

KeepsTelling(c, w, items) == Tells(Received(c, w.out), w.t, items)

\* response.created tells nothing.
LEMMA CreatedTells ==
  ASSUME NEW c, NEW t, NEW items, Translator(t), InStep(c, t), Tells(c, t, items)
  PROVE  KeepsTelling(c, handleCreated(t), items)
BY CreatedSays DEF Tells, Follows, KeepsTelling, KeepsBehind

\* A list that an item is added to.
LEMMA ItemAdded ==
  ASSUME NEW items \in Seq(SentItem), NEW y \in SentItem, \A i \in DOMAIN items : ~items[i].open
  PROVE  LET a == Append(items, y)
         IN  a # <<>> /\ Last(a) = y /\ \A i \in DOMAIN a : a[i].open => i = Len(a)
<1> DEFINE a == Append(items, y)
<1>1. /\ a \in Seq(SentItem) /\ Len(a) = Len(items) + 1 /\ a[Len(items) + 1] = y
      /\ \A i \in 1..Len(items) : a[i] = items[i]
  BY AppendProperties
<1>2. DOMAIN a = 1..(Len(items) + 1) /\ DOMAIN items = 1..Len(items) /\ Len(items) \in Nat
  BY <1>1, LenProperties
<1>3. a # <<>> /\ Last(a) = y
  BY LastOfAppend
<1> HIDE DEF a
<1>4. ASSUME NEW i \in DOMAIN a, a[i].open PROVE i = Len(a)
  BY <1>1, <1>2, <1>4
<1> QED
  BY <1>3, <1>4 DEF a

\* An item that is added, none being open.
LEMMA AddedTells ==
  ASSUME NEW c, NEW t, NEW items, NEW kind \in Kinds, NEW y \in SentItem,
         y.kind = kind, y.pieces = <<>>, y.open,
         Translator(t), InStep(c, t), Tells(c, t, items), \A i \in DOMAIN items : ~items[i].open
  PROVE  KeepsTelling(c, handleOutputItemAdded(t, kind), Append(items, y))
<1> DEFINE s == handleCreated(t)
           d == Received(c, s.out)
           o == openBlock(s.t, kind)
           a == Append(items, y)
<1>1. KeepsInStep(c, s) /\ s.t.start
  BY CreatedInStep
<1>2. Behind(c, t, items) /\ items \in Seq(SentItem) /\ t.tools \in BOOLEAN
  BY DEF Tells, Follows, Behind
<1>3. KeepsBehind(c, s, items) /\ s.t.open = t.open /\ s.t.tools = t.tools
  BY <1>2, CreatedSays
<1>4. ~t.open
  <2> SUFFICES ASSUME t.open PROVE FALSE
    OBVIOUS
  <2>1. items # <<>> /\ Last(items).open
    BY DEF Tells, Follows
  <2>2. Last(items) = items[Len(items)] /\ Len(items) \in DOMAIN items
    <3>1. Last(items) = items[Len(items)] /\ Len(items) \in Nat /\ Len(items) > 0
      BY <1>2, <2>1, FrontAndLast
    <3>2. DOMAIN items = 1..Len(items)
      BY <1>2, LenProperties
    <3> QED
      BY <3>1, <3>2
  <2> QED
    BY <2>1, <2>2
<1>5. a # <<>> /\ Last(a) = y /\ \A i \in DOMAIN a : a[i].open => i = Len(a)
  BY <1>2, ItemAdded
<1>6. callsOf(a) # <<>> <=> (callsOf(items) # <<>> \/ kind = "function_call")
  <2>1. /\ callsOf(items) \in Seq(Seq(Nat))
        /\ callsOf(a) = IF y.kind = "function_call" THEN Append(callsOf(items), y.pieces)
                        ELSE callsOf(items)
    BY <1>2, CallsAdd, PiecedBlocks
  <2>2. y.pieces \in Seq(Nat)
    BY DEF SentItem
  <2>3. Append(callsOf(items), y.pieces) # <<>>
    BY <2>1, <2>2, AppendProperties
  <2> QED
    BY <2>1, <2>3
<1>7. t.tools <=> callsOf(items) # <<>>
  BY DEF Tells, Follows
<1> HIDE DEF a
<1>8. CASE kind = "message"
  <2>1. handleOutputItemAdded(t, kind) = s
    BY <1>8 DEF handleOutputItemAdded
  <2>2. Behind(d, s.t, items)
    BY <1>3 DEF KeepsBehind
  <2> HIDE DEF s, d
  <2>3. /\ d.blocks \in Seq(Block) /\ s.t.buffer = <<>> /\ SaySame(d.blocks, items)
        /\ s.t.buffer \in Seq(Nat)
    BY <1>3, <1>4, <2>2 DEF Behind, OpenCall
  <2>4. SaySame(d.blocks, a) /\ a \in Seq(SentItem)
    BY <1>2, <1>8, <2>3, EmptySays, AppendProperties DEF a
  <2>5. Behind(d, s.t, a)
    BY <1>2, <1>3, <1>4, <2>3, <2>4 DEF Behind, OpenCall
  <2>6. Tells(d, s.t, a)
    BY <1>3, <1>4, <1>5, <1>6, <1>7, <1>8, <2>5 DEF Tells, Follows
  <2> QED
    BY <2>1, <2>6 DEF KeepsTelling, d, a
<1>9. CASE kind # "message"
  <2>1. handleOutputItemAdded(t, kind) = Written(o.t, s.out \o o.out)
    BY <1>9 DEF handleOutputItemAdded
  <2>2. Translator(s.t) /\ InStep(d, s.t) /\ Behind(d, s.t, items) /\ Sequence(s.out)
    BY <1>1, <1>3 DEF KeepsInStep, KeepsBehind
  <2> HIDE DEF s, d
  <2>3. KeepsBehind(d, o, a) /\ o.t.open /\ o.t.type = kind
        /\ o.t.tools = IF kind = "function_call" THEN TRUE ELSE s.t.tools
    <3>1. \A z \in SentItem : z.kind = kind /\ z.pieces = <<>> => KeepsBehind(d, o, Append(items, z))
      BY <1>1, <2>2, OpenedSays
    <3>2. KeepsBehind(d, o, a)
      BY <3>1 DEF a
    <3> DEFINE u == s.t
    <3>3. Translator(u) /\ InStep(d, u) /\ u.start /\ Behind(d, u, items)
      BY <1>1, <2>2
    <3> HIDE DEF u
    <3>4. openBlock(u, kind).t.open
      BY <3>3, OpenedInStep
    <3>5. openBlock(u, kind).t.type = kind
      BY <3>3, OpenedInStep
    <3>6. openBlock(u, kind).t.tools = IF kind = "function_call" THEN TRUE ELSE u.tools
      BY <3>3, OpenedTools DEF Behind
    <3> QED
      BY <3>2, <3>4, <3>5, <3>6 DEF u
  <2>4. KeepsInStep(d, o)
    BY <1>1, <2>2, OpenedInStep
  <2> HIDE DEF o
  <2>5. Received(c, s.out \o o.out) = Received(d, o.out)
    BY <2>2, <2>4, ReceivedJoin DEF d, KeepsInStep
  <2>6. Tells(Received(d, o.out), o.t, a)
    BY <1>3, <1>5, <1>6, <1>7, <2>3 DEF Tells, Follows, KeepsBehind
  <2> QED
    BY <2>1, <2>5, <2>6 DEF KeepsTelling, Written, a
<1> QED
  BY <1>8, <1>9 DEF a

\* The last item with something else in it.
LEMMA LastChanges ==
  ASSUME NEW items \in Seq(SentItem), items # <<>>, NEW v \in SentItem, v.kind = Last(items).kind
  PROVE  LET a == Append(Front(items), v)
         IN  /\ a \in Seq(SentItem) /\ a # <<>> /\ Last(a) = v /\ Front(a) = Front(items)
             /\ callsOf(a) # <<>> <=> callsOf(items) # <<>>
             /\ (\A i \in DOMAIN items : items[i].open => i = Len(items))
                   => \A i \in DOMAIN a : a[i].open => i = Len(a)
<1> DEFINE f == Front(items)
           l == Last(items)
           a == Append(f, v)
           n == Len(items)
<1>1. f \in Seq(SentItem) /\ l \in SentItem /\ items = Append(f, l) /\ n \in Nat /\ Len(f) = n - 1
  BY FrontAndLast
<1>2. v.kind = l.kind
  OBVIOUS
<1> HIDE DEF f, l
<1>3. a \in Seq(SentItem) /\ a # <<>> /\ Last(a) = v /\ Front(a) = f
  BY <1>1, AppendProperties, LastOfAppend
<1>4. callsOf(a) # <<>> <=> callsOf(items) # <<>>
  <2>1. /\ callsOf(f) \in Seq(Seq(Nat))
        /\ callsOf(a) = IF v.kind = "function_call" THEN Append(callsOf(f), v.pieces) ELSE callsOf(f)
    BY <1>1, CallsAdd, PiecedBlocks
  <2>2. callsOf(Append(f, l)) = IF l.kind = "function_call" THEN Append(callsOf(f), l.pieces)
                                ELSE callsOf(f)
    BY <1>1, CallsAdd, PiecedBlocks
  <2>3. v.pieces \in Seq(Nat) /\ l.pieces \in Seq(Nat)
    BY <1>1 DEF SentItem
  <2>4. Append(callsOf(f), v.pieces) # <<>> /\ Append(callsOf(f), l.pieces) # <<>>
    BY <2>1, <2>3, AppendProperties
  <2> QED
    BY <1>1, <1>2, <2>1, <2>2, <2>4
<1>5. ASSUME \A i \in DOMAIN items : items[i].open => i = Len(items)
      PROVE  \A i \in DOMAIN a : a[i].open => i = Len(a)
  <2>1. ASSUME NEW x \in SentItem
        PROVE  /\ Len(Append(f, x)) = n /\ DOMAIN Append(f, x) = 1..n
               /\ \A i \in 1..(n - 1) : Append(f, x)[i] = f[i]
    <3>1. /\ Append(f, x) \in Seq(SentItem) /\ Len(Append(f, x)) = Len(f) + 1
          /\ \A i \in 1..Len(f) : Append(f, x)[i] = f[i]
      BY <1>1, AppendProperties
    <3>2. (n - 1) + 1 = n
      BY <1>1
    <3>3. DOMAIN Append(f, x) = 1..Len(Append(f, x))
      BY <3>1, LenProperties
    <3> QED
      BY <1>1, <3>1, <3>2, <3>3
  <2>2. /\ Len(a) = n /\ DOMAIN a = 1..n /\ DOMAIN items = 1..n
        /\ \A i \in 1..(n - 1) : a[i] = items[i]
    BY <1>1, <2>1
  <2> HIDE DEF a, n
  <2>3. n \in Nat
    BY <1>1
  <2>4. \A i \in DOMAIN items : items[i].open => i = n
    BY <1>5 DEF n
  <2>5. ASSUME NEW i \in DOMAIN a, a[i].open, i # n PROVE FALSE
    <3>1. i \in 1..(n - 1) /\ i \in 1..n
      BY <2>2, <2>3, <2>5
    <3> QED
      BY <2>2, <2>4, <2>5, <3>1
  <2> QED
    BY <2>2, <2>5
<1> QED
  BY <1>3, <1>4, <1>5 DEF f, l

\* What the translator follows then.
LEMMA FollowsOn ==
  ASSUME NEW t, NEW u, NEW items \in Seq(SentItem), Follows(t, items), items # <<>>,
         NEW v \in SentItem, v.kind = Last(items).kind, u.tools = t.tools,
         u.open => v.open /\ u.type = v.kind,
         v.open /\ v.kind = "function_call" => u.open
  PROVE  Follows(u, Append(Front(items), v))
<1> DEFINE a == Append(Front(items), v)
<1>1. /\ a # <<>> /\ Last(a) = v
      /\ callsOf(a) # <<>> <=> callsOf(items) # <<>>
      /\ (\A i \in DOMAIN items : items[i].open => i = Len(items))
            => \A i \in DOMAIN a : a[i].open => i = Len(a)
  BY LastChanges
<1> HIDE DEF a
<1>2. Follows(u, a)
  BY <1>1 DEF Follows
<1> QED
  BY <1>2 DEF a

\* The block for a piece of text: the one that is open, or another.
LEMMA TextBlock ==
  ASSUME NEW c, NEW t, NEW items, NEW kind \in Kinds, kind # "function_call",
         Translator(t), InStep(c, t), t.start, Behind(c, t, items)
  PROVE  LET o == IF t.open /\ t.type = kind THEN Written(t, <<>>) ELSE openBlock(t, kind)
         IN  /\ KeepsInStep(c, o) /\ KeepsBehind(c, o, items)
             /\ o.t.open /\ o.t.type = kind /\ o.t.tools = t.tools
<1> DEFINE o == IF t.open /\ t.type = kind THEN Written(t, <<>>) ELSE openBlock(t, kind)
<1>1. CASE t.open /\ t.type = kind
  <2>1. o = Written(t, <<>>)
    BY <1>1
  <2>2. KeepsInStep(c, o)
    BY <2>1, StepOfNothing
  <2>3. o.t = t /\ o.out = <<>>
    BY <2>1 DEF Written
  <2> HIDE DEF o
  <2>4. KeepsBehind(c, o, items)
    BY <2>3, ReceivedNone DEF KeepsBehind
  <2> QED
    BY <1>1, <2>2, <2>3, <2>4 DEF o
<1>2. CASE ~(t.open /\ t.type = kind)
  <2>1. o = openBlock(t, kind)
    BY <1>2
  <2> HIDE DEF o
  <2>2. KeepsInStep(c, o) /\ o.t.open /\ o.t.type = kind
    BY <2>1, OpenedInStep
  <2>3. KeepsBehind(c, o, items)
    BY <2>1, OpenedSays
  <2>4. o.t.tools = t.tools
    BY <2>1, OpenedTools DEF Behind
  <2> QED
    BY <2>2, <2>3, <2>4 DEF o
<1> QED
  BY <1>1, <1>2

\* The last item is the one that is open.
LEMMA OpenIsLast ==
  ASSUME NEW items \in Seq(SentItem), NEW i \in DOMAIN items, items[i].open,
         \A k \in DOMAIN items : items[k].open => k = Len(items)
  PROVE  /\ items # <<>> /\ i = Len(items) /\ items[i] = Last(items)
         /\ \A v \in SentItem : [items EXCEPT ![i] = v] = Append(Front(items), v)
<1>1. i = Len(items) /\ DOMAIN items = 1..Len(items)
  BY LenProperties
<1>2. items # <<>>
  BY <1>1
<1>3. Last(items) = items[Len(items)]
  BY <1>2, FrontAndLast
<1>4. \A v \in SentItem : [items EXCEPT ![Len(items)] = v] = Append(Front(items), v)
  BY <1>2, FrontAndLast
<1> QED
  BY <1>1, <1>2, <1>3, <1>4

\* A piece more of arguments is kept.
LEMMA ArgumentsTell ==
  ASSUME NEW c, NEW t, NEW items, NEW p \in Nat, NEW v \in SentItem,
         Translator(t), InStep(c, t), Tells(c, t, items),
         items # <<>>, Last(items).open, Last(items).kind = "function_call",
         v.kind = "function_call", v.open, v.pieces = Append(Last(items).pieces, p)
  PROVE  KeepsTelling(c, handleToolInputDelta(t, p), Append(Front(items), v))
<1> DEFINE n == [t EXCEPT !.buffer = Append(@, p)]
           a == Append(Front(items), v)
<1>1. handleToolInputDelta(t, p) = Written(n, <<>>)
  BY DEF handleToolInputDelta
<1>2. n.open = t.open /\ n.type = t.type /\ n.tools = t.tools /\ n.buffer = Append(t.buffer, p)
  BY DEF Translator
<1> HIDE DEF n
<1>3. Behind(c, t, items) /\ Follows(t, items) /\ items \in Seq(SentItem)
  BY DEF Tells, Behind
<1>4. t.open /\ t.type = "function_call"
  BY <1>3 DEF Follows
<1>5. a \in Seq(SentItem) /\ a # <<>> /\ Last(a) = v /\ Front(a) = Front(items)
  BY <1>3, LastChanges
<1>6. Follows(n, a)
  BY <1>2, <1>3, <1>4, FollowsOn
<1> HIDE DEF a
<1>7. n.buffer \in Seq(Nat)
  BY <1>2, <1>3, AppendProperties DEF Behind
<1>8. Behind(c, n, a)
  BY <1>2, <1>3, <1>4, <1>5, <1>7 DEF Behind, OpenCall
<1>9. Written(n, <<>>).t = n /\ Written(n, <<>>).out = <<>>
  BY DEF Written
<1> QED
  BY <1>1, <1>6, <1>8, <1>9, ReceivedNone DEF KeepsTelling, Tells, a

\* A piece more of a text is sent at once.
LEMMA TextTells ==
  ASSUME NEW c, NEW t, NEW items, NEW p \in Nat, NEW v \in SentItem, NEW kind \in Kinds,
         kind # "function_call", Translator(t), InStep(c, t), Tells(c, t, items),
         items # <<>>, Last(items).open, Last(items).kind = kind,
         v.kind = kind, v.open, v.pieces = Append(Last(items).pieces, p)
  PROVE  KeepsTelling(c, handleDelta(t, kind, p), Append(Front(items), v))
<1> DEFINE s == handleCreated(t)
           d == Received(c, s.out)
           u == s.t
           o == IF u.open /\ u.type = kind THEN Written(u, <<>>) ELSE openBlock(u, kind)
           g == Received(d, o.out)
           n == o.t
           e == [type |-> "content_block_delta", index |-> n.index - 1,
                 kind |-> kind, pieces |-> <<p>>]
           f == ReceiveEvent(g, e)
           a == Append(Front(items), v)
           y == Last(items)
           x == WithPieces(Last(g.blocks), <<p>>)
<1>1. handleDelta(t, kind, p) = Written(n, s.out \o o.out \o <<e>>)
  BY DEF handleDelta
<1>2. Behind(c, t, items) /\ Follows(t, items) /\ items \in Seq(SentItem)
  BY DEF Tells, Behind
<1>3. KeepsInStep(c, s) /\ u.start
  BY CreatedInStep
<1>4. KeepsBehind(c, s, items) /\ u.tools = t.tools
  BY <1>2, CreatedSays
<1>5. Sequence(s.out) /\ Translator(u) /\ InStep(d, u) /\ Behind(d, u, items)
  BY <1>3, <1>4 DEF KeepsInStep, KeepsBehind
<1> HIDE DEF s, d, u
<1>6. /\ KeepsInStep(d, o) /\ KeepsBehind(d, o, items)
      /\ o.t.open /\ o.t.type = kind /\ o.t.tools = u.tools
  BY <1>3, <1>5, TextBlock
<1> HIDE DEF o
<1>7. /\ Sequence(o.out) /\ Translator(n) /\ InStep(g, n) /\ Behind(g, n, items)
      /\ n.open /\ n.type = kind /\ n.tools = t.tools
  BY <1>4, <1>6 DEF KeepsInStep, KeepsBehind
<1> HIDE DEF g, n
<1>8. /\ g.blocks \in Seq(Block) /\ n.buffer = <<>> /\ SaySame(g.blocks, items)
      /\ n.tools \in BOOLEAN
  BY <1>7 DEF Behind, OpenCall
<1>9. <<p>> \in Seq(Nat)
  OBVIOUS
<1>10. e = PiecesEvent(n, <<p>>)
  BY <1>7 DEF PiecesEvent
<1> HIDE DEF e
<1>11. g.blocks # <<>> /\ Last(g.blocks) \in Block /\ Last(g.blocks).kind = kind
  BY <1>7, <1>8, <1>9, DeltaTaken
<1>12. x \in Block /\ x.kind = kind /\ x.pieces = Last(g.blocks).pieces \o <<p>>
  BY <1>7, <1>8, <1>9, DeltaTaken
<1>13. f.blocks = Append(Front(g.blocks), x)
  BY <1>7, <1>8, <1>9, <1>10, DeltaTaken
<1> HIDE DEF f, x
<1>14. Front(g.blocks) \in Seq(Block) /\ g.blocks = Append(Front(g.blocks), Last(g.blocks))
  BY <1>8, <1>11, FrontAndLast
<1>15. Front(items) \in Seq(SentItem) /\ y \in SentItem /\ items = Append(Front(items), y)
  BY <1>2, FrontAndLast
<1>16. y.kind = kind /\ v.pieces = Append(y.pieces, p)
  OBVIOUS
<1> HIDE DEF y
<1>17. SaySame(Append(Front(g.blocks), x), a)
  <2> DEFINE h == Front(g.blocks)
             l == Last(g.blocks)
             q == Front(items)
  <2>1. /\ h \in Seq(Block) /\ l \in Block /\ q \in Seq(SentItem) /\ y \in SentItem
        /\ SaySame(Append(h, l), Append(q, y))
        /\ x \in Block /\ x.kind = l.kind /\ x.pieces = l.pieces \o <<p>> /\ l.kind = y.kind
        /\ l.kind # "function_call"
    BY <1>8, <1>11, <1>12, <1>14, <1>15, <1>16
  <2> HIDE DEF h, l, q
  <2>2. SaySame(Append(h, x), Append(q, v))
    BY <1>16, <2>1, MoreSaid
  <2> QED
    BY <2>2 DEF h, q
<1>18. f.blocks \in Seq(Block)
  BY <1>12, <1>13, <1>14, AppendProperties
<1>19. a \in Seq(SentItem)
  BY <1>15, AppendProperties
<1>20. Follows(n, a)
  BY <1>2, <1>7, FollowsOn
<1> HIDE DEF a
<1>21. Behind(f, n, a)
  <2>1. ~OpenCall(n)
    BY <1>7 DEF OpenCall
  <2> QED
    BY <2>1, <1>8, <1>13, <1>17, <1>18, <1>19, EmptySeq DEF Behind
<1>22. Received(c, s.out \o o.out \o <<e>>) = f
  <2>1. Sequence(s.out \o o.out) /\ Received(c, s.out \o o.out) = g
    BY <1>5, <1>7, SequencesJoin, ReceivedJoin DEF d, g
  <2>2. Sequence(<<e>>) /\ Received(g, <<e>>) = f
    BY SequenceShort, ReceivedOne DEF f
  <2> DEFINE w == s.out \o o.out
  <2>3. Sequence(w) /\ Received(c, w) = g
    BY <2>1
  <2> HIDE DEF w
  <2>4. Received(c, w \o <<e>>) = f
    BY <2>2, <2>3, ReceivedJoin
  <2> QED
    BY <2>4 DEF w
<1> QED
  BY <1>1, <1>20, <1>21, <1>22 DEF KeepsTelling, Tells, Written, a

\* The end of a part, and of the item it is in.
LEMMA DoneTells ==
  ASSUME NEW c, NEW t, NEW items, Translator(t), InStep(c, t), Tells(c, t, items),
         items # <<>>, Last(items).open
  PROVE  /\ Last(items).kind # "function_call" => KeepsTelling(c, closeCurrentBlock(t), items)
         /\ \A v \in SentItem :
               v.kind = Last(items).kind /\ v.pieces = Last(items).pieces /\ ~v.open
               => KeepsTelling(c, closeCurrentBlock(t), Append(Front(items), v))
<1> DEFINE w == closeCurrentBlock(t)
           d == Received(c, w.out)
<1>1. Behind(c, t, items) /\ Follows(t, items) /\ items \in Seq(SentItem)
  BY DEF Tells, Behind
<1>2. KeepsBehind(c, w, items) /\ ~w.t.open /\ w.t.tools = t.tools
  BY <1>1, ClosedSays
<1> HIDE DEF w
<1>3. Behind(d, w.t, items)
  BY <1>2 DEF KeepsBehind
<1> HIDE DEF d
<1>4. Last(items).kind # "function_call" => KeepsTelling(c, w, items)
  BY <1>1, <1>2, <1>3 DEF KeepsTelling, Tells, Follows, d
<1>5. ASSUME NEW v \in SentItem, v.kind = Last(items).kind, v.pieces = Last(items).pieces, ~v.open
      PROVE  KeepsTelling(c, w, Append(Front(items), v))
  <2> DEFINE a == Append(Front(items), v)
             u == w.t
  <2>1. Follows(u, a)
    BY <1>1, <1>2, <1>5, FollowsOn
  <2>2. a \in Seq(SentItem)
    BY <1>1, <1>5, LastChanges
  <2>3. /\ d.blocks \in Seq(Block) /\ u.buffer = <<>> /\ SaySame(d.blocks, items)
        /\ u.buffer \in Seq(Nat) /\ u.tools \in BOOLEAN
    BY <1>2, <1>3 DEF Behind, OpenCall
  <2>4. SaySame(items, a)
    <3> DEFINE q == Front(items)
               y == Last(items)
    <3>1. q \in Seq(SentItem) /\ y \in SentItem /\ items = Append(q, y) /\ v.kind = y.kind /\ v.pieces = y.pieces
      BY <1>1, <1>5, FrontAndLast
    <3> HIDE DEF q, y
    <3>2. SaySame(Append(q, y), Append(q, v))
      <4>1. ASSUME NEW kind PROVE content(Append(q, y), kind) = content(Append(q, v), kind)
        <5>1. ASSUME NEW z \in SentItem
              PROVE  content(Append(q, z), kind) =
                        IF z.kind = kind THEN content(q, kind) \o z.pieces ELSE content(q, kind)
          BY <3>1, ContentAdd, PiecedBlocks
        <5> QED
          BY <3>1, <5>1
      <4>2. callsOf(Append(q, y)) = callsOf(Append(q, v))
        <5>1. ASSUME NEW z \in SentItem
              PROVE  callsOf(Append(q, z)) =
                        IF z.kind = "function_call" THEN Append(callsOf(q), z.pieces) ELSE callsOf(q)
          BY <3>1, CallsAdd, PiecedBlocks
        <5> QED
          BY <3>1, <5>1
      <4> QED
        BY <4>1, <4>2 DEF SaySame
    <3> QED
      BY <3>1, <3>2 DEF q
  <2> HIDE DEF a
  <2>5. SaySame(d.blocks, a)
    BY <2>3, <2>4 DEF SaySame
  <2>6. Behind(d, u, a)
    BY <1>2, <2>2, <2>3, <2>5 DEF Behind, OpenCall
  <2> QED
    BY <2>1, <2>6 DEF KeepsTelling, Tells, a, d
<1> QED
  BY <1>4, <1>5 DEF w

\* However the translation ends, the client has what upstream has said, and the reason.
LEMMA EndsSay ==
  ASSUME NEW c, NEW t, NEW items, NEW stop, Translator(t), InStep(c, t), Behind(c, t, items),
         stop # "none"
  PROVE  LET d == Received(c, ends(t, stop).out)
         IN  d.blocks \in Seq(Block) /\ SaySame(d.blocks, items) /\ d.stop = stop
<1> DEFINE s == handleCreated(t)
           k == closeCurrentBlock(s.t)
           e == [type |-> "message_delta", stop |-> stop]
           m == [type |-> "message_stop"]
           b == Received(c, s.out)
           d == Received(b, k.out)
<1>1. KeepsInStep(c, s) /\ s.t.start /\ KeepsBehind(c, s, items)
  BY CreatedInStep, CreatedSays
<1>2. ends(t, stop).out = s.out \o k.out \o <<e, m>>
  BY DEF ends, Written
<1>3. Sequence(s.out) /\ Translator(s.t) /\ InStep(b, s.t) /\ Behind(b, s.t, items)
  BY <1>1 DEF KeepsInStep, KeepsBehind
<1> HIDE DEF s, b
<1>4. KeepsInStep(b, k) /\ k.t.start /\ ~k.t.open /\ KeepsBehind(b, k, items)
  BY <1>1, <1>3, ClosedInStep, ClosedSays
<1> HIDE DEF k
<1>5. Sequence(k.out) /\ InStep(d, k.t) /\ Behind(d, k.t, items)
  BY <1>4 DEF KeepsInStep, KeepsBehind
<1> HIDE DEF d
<1>6. d.blocks \in Seq(Block) /\ SaySame(d.blocks, items)
  BY <1>4, <1>5 DEF Behind, OpenCall
<1> DEFINE f == ReceiveEvent(d, e)
           g == ReceiveEvent(f, m)
<1>7. f = [d EXCEPT !.stop = stop]
  BY <1>4, <1>5 DEF InStep, Client, ReceiveEvent
<1>8. f.blocks = d.blocks /\ f.stop = stop /\ f.ended = d.ended /\ Client(f)
  <2> DEFINE x == [d EXCEPT !.stop = stop]
  <2>1. x.blocks = d.blocks /\ x.stop = stop /\ x.ended = d.ended /\ Client(x)
    BY <1>5 DEF InStep, Client
  <2> HIDE DEF x
  <2> QED
    BY <1>7, <2>1 DEF x
<1> HIDE DEF f
<1>9. g = [f EXCEPT !.ended = TRUE]
  BY <1>5, <1>8 DEF InStep, Client, ReceiveEvent
<1>10. g.blocks = f.blocks /\ g.stop = f.stop
  BY <1>8, <1>9 DEF Client
<1>11. Received(d, <<e, m>>) = g /\ Sequence(<<e, m>>)
  BY ReceivedTwo DEF f
<1> HIDE DEF g, e, m
<1>12. Received(c, s.out \o k.out \o <<e, m>>) = g
  <2> DEFINE w == s.out \o k.out
  <2>1. Sequence(w) /\ Received(c, w) = d
    BY <1>3, <1>5, SequencesJoin, ReceivedJoin DEF b, d
  <2> HIDE DEF w
  <2>2. Received(c, w \o <<e, m>>) = g
    BY <1>11, <2>1, ReceivedJoin
  <2> QED
    BY <2>2 DEF w
<1> QED
  BY <1>2, <1>6, <1>8, <1>10, <1>12 DEF e, m

-----------------------------------------------------------------------------
(* What the client of a chat completion has. *)

\* The calls as a set: the pieces of the items that are calls.
LEMMA CallSet ==
  ASSUME NEW S, Pieced(S)
  PROVE  \A s \in Seq(S) :
            ToSet(callsOf(s)) = {s[i].pieces : i \in {i \in DOMAIN s : s[i].kind = "function_call"}}
<1> DEFINE Set(s) == {s[i].pieces : i \in {i \in DOMAIN s : s[i].kind = "function_call"}}
           T == {s \in Seq(S) : ToSet(callsOf(s)) = Set(s)}
<1>1. <<>> \in T
  <2>1. callsOf(<<>>) = <<>> /\ ToSet(<<>>) = {}
    BY NothingSaid DEF ToSet
  <2>2. Set(<<>>) = {}
    OBVIOUS
  <2> QED
    BY <2>1, <2>2, EmptySeq
<1>2. ASSUME NEW s \in Seq(S), s \in T, NEW x \in S PROVE Append(s, x) \in T
  <2> DEFINE a == Append(s, x)
             n == Len(s)
  <2>1. /\ a \in Seq(S) /\ Len(a) = n + 1 /\ a[n + 1] = x
        /\ \A i \in 1..n : a[i] = s[i]
    BY AppendProperties
  <2>2. DOMAIN a = 1..(n + 1) /\ DOMAIN s = 1..n /\ n \in Nat
    BY <2>1, LenProperties
  <2>3. /\ callsOf(s) \in Seq(Seq(Nat))
        /\ callsOf(a) = IF x.kind = "function_call" THEN Append(callsOf(s), x.pieces) ELSE callsOf(s)
    BY CallsAdd
  <2>4. x.pieces \in Seq(Nat)
    BY DEF Pieced
  <2>5. ToSet(Append(callsOf(s), x.pieces)) = ToSet(callsOf(s)) \cup {x.pieces}
    <3> DEFINE q == callsOf(s)
               v == x.pieces
               N == Seq(Nat)
    <3>1. q \in Seq(N) /\ v \in N
      BY <2>3, <2>4
    <3> HIDE DEF q, v, N
    <3>2. /\ Append(q, v) \in Seq(N) /\ Len(Append(q, v)) = Len(q) + 1 /\ Append(q, v)[Len(q) + 1] = v
          /\ \A i \in 1..Len(q) : Append(q, v)[i] = q[i]
      BY <3>1, AppendProperties
    <3>3. DOMAIN Append(q, v) = 1..(Len(q) + 1) /\ DOMAIN q = 1..Len(q) /\ Len(q) \in Nat
      BY <3>1, <3>2, LenProperties
    <3>4. DOMAIN Append(q, v) = DOMAIN q \cup {Len(q) + 1}
      BY <3>3
    <3>5. ToSet(Append(q, v)) = ToSet(q) \cup {v}
      BY <3>2, <3>3, <3>4 DEF ToSet
    <3> QED
      BY <3>5 DEF q, v
  <2> HIDE DEF a, n
  <2>6. DOMAIN a = DOMAIN s \cup {n + 1}
    BY <2>2
  <2>7. Set(a) = IF x.kind = "function_call" THEN Set(s) \cup {x.pieces} ELSE Set(s)
    BY <2>1, <2>2, <2>6
  <2>8. ToSet(callsOf(s)) = Set(s)
    BY <1>2
  <2>9. ToSet(callsOf(a)) = Set(a)
    BY <2>3, <2>5, <2>7, <2>8
  <2> QED
    BY <2>1, <2>9 DEF a
<1> HIDE DEF T
<1>3. \A s \in Seq(S) : s \in T
  BY <1>1, <1>2, SequencesByAppend
<1> QED
  BY <1>3 DEF T

\* Nothing but calls.
LEMMA AllCalls ==
  ASSUME NEW S, Pieced(S)
  PROVE  \A s \in Seq(S) : (\A i \in DOMAIN s : s[i].kind = "function_call")
                               => callsOf(s) = [i \in DOMAIN s |-> s[i].pieces]
<1> DEFINE T == {s \in Seq(S) : (\A i \in DOMAIN s : s[i].kind = "function_call")
                                   => callsOf(s) = [i \in DOMAIN s |-> s[i].pieces]}
<1>1. <<>> \in T
  <2>1. [i \in DOMAIN <<>> |-> <<>>[i].pieces] = <<>>
    OBVIOUS
  <2> QED
    BY <2>1, NothingSaid, EmptySeq
<1>2. ASSUME NEW s \in Seq(S), s \in T, NEW x \in S PROVE Append(s, x) \in T
  <2> DEFINE a == Append(s, x)
             m == [i \in DOMAIN s |-> s[i].pieces]
             n == [i \in DOMAIN a |-> a[i].pieces]
  <2>1. /\ a \in Seq(S) /\ Len(a) = Len(s) + 1 /\ a[Len(s) + 1] = x
        /\ \A i \in 1..Len(s) : a[i] = s[i]
    BY AppendProperties
  <2>2. DOMAIN a = 1..(Len(s) + 1) /\ DOMAIN s = 1..Len(s) /\ Len(s) \in Nat
    BY <2>1, LenProperties
  <2> SUFFICES ASSUME \A i \in DOMAIN a : a[i].kind = "function_call" PROVE callsOf(a) = n
    BY <2>1
  <2>3. x.kind = "function_call" /\ \A i \in DOMAIN s : s[i].kind = "function_call"
    BY <2>1, <2>2
  <2>4. callsOf(s) = m
    BY <1>2, <2>3
  <2>5. callsOf(a) = Append(callsOf(s), x.pieces)
    BY <2>3, CallsAdd
  <2>6. \A i \in DOMAIN s : m[i] \in Seq(Nat) /\ n[i] = m[i]
    BY <2>1, <2>2, ElementOfSeq DEF Pieced
  <2>7. n[Len(s) + 1] = x.pieces /\ x.pieces \in Seq(Nat)
    BY <2>1, <2>2 DEF Pieced
  <2>8. m = [i \in DOMAIN m |-> m[i]] /\ DOMAIN m = DOMAIN s /\ n = [i \in DOMAIN n |-> n[i]] /\ DOMAIN n = DOMAIN a
    OBVIOUS
  <2> HIDE DEF m, n
  <2>9. n = Append(m, n[Len(s) + 1])
    BY <2>6, <2>7, <2>8, MappedAdd
  <2> QED
    BY <2>4, <2>5, <2>7, <2>9
<1> HIDE DEF T
<1>3. \A s \in Seq(S) : s \in T
  BY <1>1, <1>2, SequencesByAppend
<1> QED
  BY <1>3 DEF T

\* Items that are calls in the same places.
SameKinds(s, items) == DOMAIN s = DOMAIN items /\ \A i \in DOMAIN items : s[i].kind = items[i].kind

\* The map lists the calls in their order, whatever their arguments.
Numbered(map, items) ==
    /\ \A j \in DOMAIN map : map[j] \in DOMAIN items /\ items[map[j]].kind = "function_call"
    /\ \A j, k \in DOMAIN map : map[j] = map[k] => j = k
    /\ \A s \in Seq(SentItem) :
          SameKinds(s, items) => callsOf(s) = [j \in DOMAIN map |-> s[map[j]].pieces]

\* No calls have no numbers.
LEMMA NumberedNone == Numbered(<<>>, <<>>)
<1>1. ASSUME NEW s \in Seq(SentItem), DOMAIN s = {} PROVE callsOf(s) = [j \in DOMAIN <<>> |-> s[<<>>[j]].pieces]
  <2>1. s = <<>>
    BY <1>1
  <2>2. [j \in DOMAIN <<>> |-> s[<<>>[j]].pieces] = <<>>
    OBVIOUS
  <2> QED
    BY <2>1, <2>2, NothingSaid
<1>2. DOMAIN <<>> = {}
  OBVIOUS
<1> QED
  BY <1>1, <1>2 DEF Numbered, SameKinds

\* Items that keep their kinds keep their numbers.
LEMMA NumberedSame ==
  ASSUME NEW map, NEW items, NEW later, Numbered(map, items), SameKinds(later, items)
  PROVE  Numbered(map, later)
BY DEF Numbered, SameKinds

\* An item that is added.
LEMMA NumberedAdd ==
  ASSUME NEW map \in Seq(Nat), NEW items \in Seq(SentItem), NEW y \in SentItem, Numbered(map, items)
  PROVE  Numbered(IF y.kind = "function_call" THEN Append(map, Len(items) + 1) ELSE map,
                  Append(items, y))
<1> DEFINE L == Len(items)
           a == Append(items, y)
           more == Append(map, L + 1)
           k == Len(map)
<1>1. /\ a \in Seq(SentItem) /\ Len(a) = L + 1 /\ a[L + 1] = y
      /\ \A i \in 1..L : a[i] = items[i]
  BY AppendProperties
<1>2. DOMAIN a = 1..(L + 1) /\ DOMAIN items = 1..L /\ L \in Nat
  BY <1>1, LenProperties
<1>3. /\ more \in Seq(Nat) /\ Len(more) = k + 1 /\ more[k + 1] = L + 1
      /\ \A i \in 1..k : more[i] = map[i]
  BY <1>2, AppendProperties
<1>4. DOMAIN more = 1..(k + 1) /\ DOMAIN map = 1..k /\ k \in Nat
  BY <1>3, LenProperties
<1>5. ASSUME NEW s \in Seq(SentItem), SameKinds(s, a)
      PROVE  /\ y.kind # "function_call" => callsOf(s) = [j \in DOMAIN map |-> s[map[j]].pieces]
             /\ y.kind = "function_call" => callsOf(s) = [j \in DOMAIN more |-> s[more[j]].pieces]
  <2> DEFINE f == Front(s)
             z == Last(s)
             m == [j \in DOMAIN map |-> s[map[j]].pieces]
             n == [j \in DOMAIN more |-> s[more[j]].pieces]
  <2>1. DOMAIN s = 1..(L + 1) /\ Len(s) = L + 1 /\ s # <<>>
    <3>1. DOMAIN s = 1..(L + 1)
      BY <1>2, <1>5 DEF SameKinds
    <3>2. DOMAIN s = 1..Len(s) /\ Len(s) \in Nat
      BY LenProperties
    <3>3. Len(s) = L + 1
      <4> DEFINE l == Len(s)
      <4>1. 1..l = 1..(L + 1) /\ l \in Nat /\ L \in Nat
        BY <1>2, <3>1, <3>2
      <4> HIDE DEF l, L
      <4>2. l = L + 1
        BY <4>1
      <4> QED
        BY <4>2 DEF l, L
    <3> QED
      BY <1>2, <3>1, <3>3, EmptySeq
  <2>2. f \in Seq(SentItem) /\ z \in SentItem /\ s = Append(f, z) /\ z = s[L + 1] /\ Len(f) = L
    <3>1. f \in Seq(SentItem) /\ z \in SentItem /\ s = Append(f, z)
      BY <2>1, FrontAndLast
    <3>2. z = s[Len(s)] /\ Len(f) = Len(s) - 1
      BY <2>1, FrontAndLast
    <3>3. (L + 1) - 1 = L
      BY <1>2
    <3> QED
      BY <2>1, <3>1, <3>2, <3>3
  <2> HIDE DEF f, z
  <2>3. DOMAIN f = 1..L /\ \A i \in 1..L : s[i] = f[i]
    BY <2>2, LenProperties, AppendProperties
  <2>4. SameKinds(f, items)
    BY <1>1, <1>2, <1>5, <2>3 DEF SameKinds
  <2>5. z.kind = y.kind
    BY <1>1, <1>2, <1>5, <2>2 DEF SameKinds
  <2>6. callsOf(f) = [j \in DOMAIN map |-> f[map[j]].pieces]
    BY <2>2, <2>4 DEF Numbered
  <2>7. \A j \in DOMAIN map : map[j] \in 1..L
    BY <1>2 DEF Numbered
  <2>8. callsOf(f) = m
    BY <2>3, <2>6, <2>7
  <2>9. callsOf(s) = IF z.kind = "function_call" THEN Append(callsOf(f), z.pieces) ELSE callsOf(f)
    BY <2>2, CallsAdd, PiecedBlocks
  <2>10. \A j \in DOMAIN map : m[j] \in Seq(Nat) /\ n[j] = m[j]
    <3>1. \A i \in 1..L : s[i].pieces \in Seq(Nat)
      <4> SUFFICES ASSUME NEW i \in 1..L PROVE s[i].pieces \in Seq(Nat)
        OBVIOUS
      <4>1. i \in 1..Len(s)
        BY <1>2, <2>1
      <4>2. s[i] \in SentItem
        BY <4>1, ElementOfSeq
      <4> QED
        BY <4>2 DEF SentItem
    <3> QED
      BY <1>3, <1>4, <2>7, <3>1
  <2>11. n[k + 1] = z.pieces /\ z.pieces \in Seq(Nat)
    BY <1>3, <1>4, <2>2 DEF SentItem
  <2>12. m = [i \in DOMAIN m |-> m[i]] /\ DOMAIN m = DOMAIN map /\ n = [i \in DOMAIN n |-> n[i]] /\ DOMAIN n = DOMAIN more
    OBVIOUS
  <2> HIDE DEF m, n
  <2>13. n = Append(m, n[k + 1])
    <3>1. L + 1 \in Nat
      BY <1>2
    <3> DEFINE N == Nat
    <3>2. map \in Seq(N) /\ L + 1 \in N
      BY <3>1
    <3> HIDE DEF N
    <3> QED
      BY <2>10, <2>11, <2>12, <3>2, MappedAdd
  <2> QED
    BY <2>5, <2>8, <2>9, <2>11, <2>13 DEF m, n
<1>6. /\ \A j \in DOMAIN map : map[j] \in 1..L /\ items[map[j]].kind = "function_call"
      /\ \A j, h \in DOMAIN map : map[j] = map[h] => j = h
  BY <1>2 DEF Numbered
<1> HIDE DEF a, more, L
<1>7. \A j \in DOMAIN map : map[j] \in DOMAIN a /\ a[map[j]].kind = "function_call"
  BY <1>1, <1>2, <1>6
<1>8. CASE y.kind # "function_call"
  <2>1. Numbered(map, a)
    BY <1>5, <1>6, <1>7, <1>8 DEF Numbered
  <2> QED
    BY <1>8, <2>1 DEF a
<1>9. CASE y.kind = "function_call"
  <2>1. \A j \in DOMAIN more : more[j] \in DOMAIN a /\ a[more[j]].kind = "function_call"
    <3> SUFFICES ASSUME NEW j \in DOMAIN more
                 PROVE  more[j] \in DOMAIN a /\ a[more[j]].kind = "function_call"
      OBVIOUS
    <3>1. CASE j = k + 1
      <4>1. L + 1 \in DOMAIN a
        BY <1>2
      <4> QED
        BY <1>1, <1>3, <1>9, <3>1, <4>1
    <3>2. CASE j # k + 1
      <4>1. j \in DOMAIN map /\ j \in 1..k
        BY <1>4, <3>2
      <4> QED
        BY <1>3, <1>7, <4>1
    <3> QED
      BY <3>1, <3>2
  <2>2. ASSUME NEW j \in DOMAIN more, NEW h \in DOMAIN more, more[j] = more[h] PROVE j = h
    <3>1. \A i \in DOMAIN more : IF i = k + 1 THEN more[i] = L + 1
                                 ELSE i \in DOMAIN map /\ more[i] = map[i] /\ more[i] # L + 1
      BY <1>2, <1>3, <1>4, <1>6
    <3> QED
      BY <1>6, <2>2, <3>1
  <2>3. Numbered(more, a)
    BY <1>5, <1>9, <2>1, <2>2 DEF Numbered
  <2> QED
    BY <1>9, <2>3 DEF a, more, L
<1> QED
  BY <1>8, <1>9

\* The numbers of the pieces of text.
SaidText(items) ==
    UNION {ToSet(items[i].pieces) : i \in {i \in DOMAIN items : items[i].kind = "message"}}

\* The same pieces in the same places.
LEMMA NumbersSame ==
  ASSUME NEW items, NEW later, SameKinds(later, items),
         \A i \in DOMAIN items : later[i].pieces = items[i].pieces
  PROVE  numbers(later) = numbers(items) /\ SaidText(later) = SaidText(items)
<1>1. numbers(later) = numbers(items)
  BY DEF numbers, SameKinds
<1>2. {i \in DOMAIN later : later[i].kind = "message"} = {i \in DOMAIN items : items[i].kind = "message"}
  BY DEF SameKinds
<1>3. SaidText(later) = SaidText(items)
  BY <1>2 DEF SaidText
<1> QED
  BY <1>1, <1>3

\* An item that is added, still empty.
LEMMA NumbersAdd ==
  ASSUME NEW items \in Seq(SentItem), NEW y \in SentItem, y.pieces = <<>>
  PROVE  numbers(Append(items, y)) = numbers(items) /\ SaidText(Append(items, y)) = SaidText(items)
<1> DEFINE a == Append(items, y)
           L == Len(items)
<1>1. /\ a \in Seq(SentItem) /\ Len(a) = L + 1 /\ a[L + 1] = y
      /\ \A i \in 1..L : a[i] = items[i]
  BY AppendProperties
<1>2. DOMAIN a = 1..(L + 1) /\ DOMAIN items = 1..L /\ L \in Nat
  BY <1>1, LenProperties
<1>3. DOMAIN a = DOMAIN items \cup {L + 1} /\ ToSet(a[L + 1].pieces) = {}
  BY <1>1, <1>2 DEF ToSet
<1>4. \A i \in DOMAIN items : a[i] = items[i]
  BY <1>1, <1>2
<1> HIDE DEF a, L
<1>5. numbers(a) = numbers(items)
  BY <1>3, <1>4 DEF numbers
<1>6. SaidText(a) = SaidText(items)
  BY <1>3, <1>4 DEF SaidText
<1> QED
  BY <1>5, <1>6 DEF a

\* Their elements.
LEMMA NumbersAre ==
  ASSUME NEW items, NEW x
  PROVE  /\ x \in numbers(items) <=> \E k \in DOMAIN items : x \in ToSet(items[k].pieces)
         /\ x \in SaidText(items) <=>
               \E k \in DOMAIN items : items[k].kind = "message" /\ x \in ToSet(items[k].pieces)
<1>1. x \in numbers(items) <=> \E k \in DOMAIN items : x \in ToSet(items[k].pieces)
  BY DEF numbers
<1>2. x \in SaidText(items) <=>
         \E k \in DOMAIN items : items[k].kind = "message" /\ x \in ToSet(items[k].pieces)
  BY DEF SaidText
<1> QED
  BY <1>1, <1>2

\* A piece more.
LEMMA NumbersMore ==
  ASSUME NEW items \in Seq(SentItem), NEW i \in DOMAIN items, NEW p \in Nat, NEW later,
         SameKinds(later, items), later[i].pieces = Append(items[i].pieces, p),
         \A k \in DOMAIN items : k # i => later[k].pieces = items[k].pieces
  PROVE  /\ numbers(later) = numbers(items) \cup {p}
         /\ SaidText(later) = IF items[i].kind = "message" THEN SaidText(items) \cup {p}
                              ELSE SaidText(items)
<1> DEFINE q == items[i].pieces
<1>1. q \in Seq(Nat)
  <2>1. i \in 1..Len(items)
    BY LenProperties
  <2>2. items[i] \in SentItem
    BY <2>1, ElementOfSeq
  <2> QED
    BY <2>2 DEF SentItem
<1> HIDE DEF q
<1>2. ToSet(Append(q, p)) = ToSet(q) \cup {p}
  <2> DEFINE N == Nat
  <2>1. q \in Seq(N) /\ p \in N
    BY <1>1
  <2> HIDE DEF N
  <2>2. /\ Append(q, p) \in Seq(N) /\ Len(Append(q, p)) = Len(q) + 1 /\ Append(q, p)[Len(q) + 1] = p
        /\ \A k \in 1..Len(q) : Append(q, p)[k] = q[k]
    BY <2>1, AppendProperties
  <2>3. DOMAIN Append(q, p) = 1..(Len(q) + 1) /\ DOMAIN q = 1..Len(q) /\ Len(q) \in Nat
    BY <2>1, <2>2, LenProperties
  <2>4. DOMAIN Append(q, p) = DOMAIN q \cup {Len(q) + 1}
    BY <2>3
  <2> QED
    BY <2>2, <2>3, <2>4 DEF ToSet
<1>3. ToSet(later[i].pieces) = ToSet(items[i].pieces) \cup {p}
  BY <1>2 DEF q
<1>4. \A k \in DOMAIN items : k # i => ToSet(later[k].pieces) = ToSet(items[k].pieces)
  OBVIOUS
<1>5. DOMAIN later = DOMAIN items /\ \A k \in DOMAIN items : later[k].kind = items[k].kind
  BY DEF SameKinds
<1>6. ASSUME NEW x
      PROVE  /\ x \in numbers(later) <=> x \in numbers(items) \cup {p}
             /\ x \in SaidText(later) <=>
                   x \in IF items[i].kind = "message" THEN SaidText(items) \cup {p} ELSE SaidText(items)
  <2> DEFINE In(k) == x \in ToSet(items[k].pieces)
             On(k) == x \in ToSet(later[k].pieces)
  <2>1. \A k \in DOMAIN items : On(k) <=> (In(k) \/ (k = i /\ x = p))
    BY <1>3, <1>4
  <2>2. /\ x \in numbers(items) <=> \E k \in DOMAIN items : In(k)
        /\ x \in SaidText(items) <=> \E k \in DOMAIN items : items[k].kind = "message" /\ In(k)
    BY NumbersAre
  <2>3. /\ x \in numbers(later) <=> \E k \in DOMAIN items : On(k)
        /\ x \in SaidText(later) <=> \E k \in DOMAIN items : items[k].kind = "message" /\ On(k)
    <3>1. /\ x \in numbers(later) <=> \E k \in DOMAIN later : On(k)
          /\ x \in SaidText(later) <=> \E k \in DOMAIN later : later[k].kind = "message" /\ On(k)
      BY NumbersAre
    <3> HIDE DEF On
    <3> QED
      BY <1>5, <3>1
  <2> HIDE DEF In, On
  <2>4. i \in DOMAIN items
    OBVIOUS
  <2>5. x \in numbers(later) <=> x \in numbers(items) \cup {p}
    BY <2>1, <2>2, <2>3, <2>4
  <2>6. x \in SaidText(later) <=> (x \in SaidText(items) \/ (items[i].kind = "message" /\ x = p))
    BY <2>1, <2>2, <2>3, <2>4
  <2> QED
    BY <2>5, <2>6
<1>7. numbers(later) = numbers(items) \cup {p}
  BY <1>6
<1>8. SaidText(later) = IF items[i].kind = "message" THEN SaidText(items) \cup {p} ELSE SaidText(items)
  BY <1>6
<1> QED
  BY <1>7, <1>8

\* The pieces have the numbers from 1 to n.
Counted(items) == \E n \in Nat : numbers(items) = 1..n

\* The numbers from 1 to n are n.
LEMMA CountedIs ==
  ASSUME NEW n \in Nat
  PROVE  Cardinality(1..n) = n
BY FS_Interval

\* The text in the order of arrival, with the piece that has just arrived.
LEMMA ArrivedMore ==
  ASSUME NEW items, NEW later, NEW n \in Nat, NEW kind,
         numbers(items) = 1..n, numbers(later) = 1..(n + 1),
         SaidText(later) = IF kind = "message" THEN SaidText(items) \cup {n + 1} ELSE SaidText(items)
  PROVE  arrived(later) = IF kind = "message" THEN Append(arrived(items), n + 1) ELSE arrived(items)
<1> DEFINE s == [k \in 1..n |-> k]
           a == Append(s, n + 1)
           m == [k \in 1..n |-> IF k \in SaidText(items) THEN <<k>> ELSE <<>>]
           g == [k \in 1..(n + 1) |-> IF k \in SaidText(later) THEN <<k>> ELSE <<>>]
<1>1. SaidText(items) \subseteq 1..n
  BY DEF SaidText, numbers
<1>2. Cardinality(numbers(items)) = n /\ Cardinality(numbers(later)) = n + 1
  BY CountedIs
<1>3. arrived(items) = FlattenSeq(m)
  BY <1>2 DEF arrived, SaidText
<1>4. arrived(later) = FlattenSeq(g)
  BY <1>2 DEF arrived, SaidText
<1>5. s \in Seq(Nat) /\ Len(s) = n /\ DOMAIN s = 1..n
  OBVIOUS
<1> HIDE DEF s
<1>6. DOMAIN a = 1..(n + 1)
  <2>1. a \in Seq(Nat) /\ Len(a) = n + 1
    BY <1>5, AppendProperties
  <2> QED
    BY <2>1, LenProperties
<1>7. \A k \in Nat : <<k>> \in Seq(Nat)
  OBVIOUS
<1>8. \A k \in 1..n : m[k] \in Seq(Nat) /\ g[k] = m[k]
  <2> SUFFICES ASSUME NEW k \in 1..n PROVE m[k] \in Seq(Nat) /\ g[k] = m[k]
    OBVIOUS
  <2>1. k \in 1..(n + 1) /\ k # n + 1 /\ k \in Nat
    OBVIOUS
  <2>2. k \in SaidText(later) <=> k \in SaidText(items)
    BY <2>1
  <2> QED
    BY <1>7, <2>1, <2>2, EmptySeq
<1>9. g[n + 1] = (IF kind = "message" THEN <<n + 1>> ELSE <<>>) /\ g[n + 1] \in Seq(Nat)
  <2>1. n + 1 \in 1..(n + 1) /\ n + 1 \in Nat /\ n + 1 \notin 1..n
    OBVIOUS
  <2>2. n + 1 \in SaidText(later) <=> kind = "message"
    BY <1>1, <2>1
  <2> QED
    BY <1>7, <2>1, <2>2, EmptySeq
<1>10. /\ m = [i \in DOMAIN m |-> m[i]] /\ DOMAIN m = 1..n
       /\ g = [i \in DOMAIN g |-> g[i]] /\ DOMAIN g = 1..(n + 1)
  OBVIOUS
<1> HIDE DEF m, g, a
<1>11. g = Append(m, g[n + 1]) /\ m \in Seq(Seq(Nat))
  <2> DEFINE N == Nat
             P == Seq(Nat)
             x == n + 1
  <2>1. /\ s \in Seq(N) /\ x \in N /\ Len(s) = n /\ DOMAIN m = DOMAIN s /\ DOMAIN g = DOMAIN Append(s, x)
        /\ \A i \in DOMAIN s : m[i] \in P /\ g[i] = m[i]
        /\ g[Len(s) + 1] \in P /\ g[Len(s) + 1] = g[n + 1]
    BY <1>5, <1>6, <1>8, <1>9, <1>10 DEF a
  <2> HIDE DEF N, P, x
  <2>2. g = Append(m, g[Len(s) + 1]) /\ m \in Seq(P)
    BY <1>10, <2>1, MappedAdd
  <2> QED
    BY <2>1, <2>2 DEF P
<1>12. FlattenSeq(m) \in Seq(Nat) /\ FlattenSeq(g) = FlattenSeq(m) \o g[n + 1]
  BY <1>9, <1>11, FlattenedAdd, FlattenedType
<1>13. CASE kind = "message"
  <2>1. FlattenSeq(m) \o <<n + 1>> = Append(FlattenSeq(m), n + 1)
    <3> DEFINE q == FlattenSeq(m)
               x == n + 1
               N == Nat
    <3>1. q \in Seq(N) /\ x \in N
      BY <1>12
    <3> HIDE DEF q, x, N
    <3>2. q \o <<x>> = Append(q, x)
      BY <3>1, AppendIsConcat
    <3> QED
      BY <3>2 DEF q, x
  <2> QED
    BY <1>3, <1>4, <1>9, <1>12, <1>13, <2>1
<1>14. CASE kind # "message"
  BY <1>3, <1>4, <1>9, <1>12, <1>14, ConcatEmptySeq
<1> QED
  BY <1>13, <1>14

\* The client of a chat completion has the calls so far, each with its arguments, and the
\* text; the translator's map lists the calls.
TellsChat(c, t, items) ==
    /\ c.stop = "none" /\ t.tools \in BOOLEAN
    /\ c.blocks \in Seq(Block) /\ items \in Seq(SentItem) /\ t.map \in Seq(Nat)
    /\ \A j \in DOMAIN c.blocks : c.blocks[j].kind = "function_call"
    /\ DOMAIN t.map = DOMAIN c.blocks
    /\ \A j \in DOMAIN t.map : c.blocks[j].pieces = items[t.map[j]].pieces
    /\ Numbered(t.map, items)
    /\ c.text = arrived(items)
    /\ t.tools <=> t.map # <<>>

KeepsChatting(c, w, items) == TellsChat(Received(c, w.out), w.t, items)

\* It has the calls that upstream has sent.
LEMMA ChatCalls ==
  ASSUME NEW c, NEW t, NEW items, TellsChat(c, t, items)
  PROVE  callsOf(c.blocks) = callsOf(items) /\ (t.tools <=> callsOf(items) # <<>>)
<1>1. /\ c.blocks \in Seq(Block) /\ items \in Seq(SentItem) /\ t.map \in Seq(Nat)
      /\ \A j \in DOMAIN c.blocks : c.blocks[j].kind = "function_call"
      /\ DOMAIN t.map = DOMAIN c.blocks
      /\ \A j \in DOMAIN t.map : c.blocks[j].pieces = items[t.map[j]].pieces
      /\ Numbered(t.map, items)
      /\ t.tools <=> t.map # <<>>
  BY DEF TellsChat
<1>2. callsOf(c.blocks) = [j \in DOMAIN c.blocks |-> c.blocks[j].pieces]
  BY <1>1, AllCalls, PiecedBlocks
<1>3. callsOf(items) = [j \in DOMAIN t.map |-> items[t.map[j]].pieces]
  BY <1>1 DEF Numbered, SameKinds
<1>4. callsOf(c.blocks) = callsOf(items)
  BY <1>1, <1>2, <1>3
<1>5. t.map # <<>> <=> callsOf(items) # <<>>
  <2> DEFINE m == t.map
             q == callsOf(items)
  <2>1. m \in Seq(Nat) /\ q \in Seq(Seq(Nat)) /\ DOMAIN q = DOMAIN m
    <3>1. m \in Seq(Nat)
      BY <1>1
    <3>2. q \in Seq(Seq(Nat))
      <4>1. Pieced(SentItem) /\ items \in Seq(SentItem)
        BY <1>1, PiecedBlocks
      <4>2. [kind |-> "message", pieces |-> <<>>, open |-> TRUE] \in SentItem
        BY EmptySeq DEF SentItem, Kinds
      <4> QED
        BY <4>1, <4>2, CallsAdd
    <3>3. DOMAIN q = DOMAIN m
      BY <1>3
    <3> QED
      BY <3>1, <3>2, <3>3
  <2> HIDE DEF m, q
  <2>2. m = <<>> <=> DOMAIN m = {}
    BY <2>1
  <2>3. q = <<>> <=> DOMAIN q = {}
    BY <2>1
  <2> QED
    BY <2>1, <2>2, <2>3 DEF m, q
<1> QED
  BY <1>1, <1>4, <1>5

\* What changes nothing for the client.
LEMMA ChatSame ==
  ASSUME NEW c, NEW t, NEW items, NEW later \in Seq(SentItem), TellsChat(c, t, items),
         Numbered(t.map, later), arrived(later) = arrived(items),
         \A j \in DOMAIN t.map : later[t.map[j]].pieces = items[t.map[j]].pieces
  PROVE  KeepsChatting(c, Written(t, <<>>), later)
<1>1. Written(t, <<>>).t = t /\ Written(t, <<>>).out = <<>>
  BY DEF Written
<1>2. TellsChat(c, t, later)
  BY DEF TellsChat
<1> QED
  BY <1>1, <1>2, ReceivedNone DEF KeepsChatting

\* A call that is added.
LEMMA ChatCallAdded ==
  ASSUME NEW c, NEW t, NEW items, NEW y \in SentItem, y.kind = "function_call", y.pieces = <<>>,
         Translator(t), InChat(c, t, items), TellsChat(c, t, items)
  PROVE  LET n == [t EXCEPT !.map = Append(@, Len(items) + 1), !.tools = TRUE]
             s == [type |-> "tool_call", index |-> Len(t.map)]
         IN  KeepsChatting(c, Written(n, <<s>>), Append(items, y))
<1> DEFINE n == [t EXCEPT !.map = Append(@, Len(items) + 1), !.tools = TRUE]
           s == [type |-> "tool_call", index |-> Len(t.map)]
           b == [kind |-> "function_call", pieces |-> <<>>]
           d == ReceiveEvent(c, s)
           a == Append(items, y)
           map == t.map
           more == Append(map, Len(items) + 1)
           k == Len(map)
<1>1. d = [c EXCEPT !.blocks = Append(@, b)]
  BY DEF ReceiveEvent, InChat
<1>2. d.stop = c.stop /\ d.text = c.text /\ d.blocks = Append(c.blocks, b)
  BY <1>1 DEF InChat, Client
<1>3. n.map = more /\ n.tools = TRUE
  BY DEF Translator
<1>4. b \in Block /\ b.kind = "function_call" /\ b.pieces = <<>>
  BY EmptySeq DEF Block, Kinds
<1>5. /\ c.stop = "none" /\ c.blocks \in Seq(Block) /\ items \in Seq(SentItem) /\ map \in Seq(Nat)
      /\ \A j \in DOMAIN c.blocks : c.blocks[j].kind = "function_call"
      /\ DOMAIN map = DOMAIN c.blocks
      /\ \A j \in DOMAIN map : c.blocks[j].pieces = items[map[j]].pieces
      /\ Numbered(map, items)
      /\ c.text = arrived(items)
  BY DEF TellsChat
<1>6. Len(items) \in Nat /\ Len(items) + 1 \in Nat /\ Len(c.blocks) = k /\ k \in Nat
  BY <1>5, LenProperties DEF InChat
<1> HIDE DEF map, more, b, d, n
<1>7. /\ a \in Seq(SentItem) /\ Len(a) = Len(items) + 1 /\ a[Len(items) + 1] = y
      /\ \A i \in 1..Len(items) : a[i] = items[i]
  BY <1>5, AppendProperties
<1>8. /\ more \in Seq(Nat) /\ Len(more) = k + 1 /\ more[k + 1] = Len(items) + 1
      /\ \A i \in 1..k : more[i] = map[i]
  <2> DEFINE N == Nat
             x == Len(items) + 1
  <2>1. map \in Seq(N) /\ x \in N
    BY <1>5, <1>6
  <2> HIDE DEF N, x
  <2>2. /\ Append(map, x) \in Seq(N) /\ Len(Append(map, x)) = Len(map) + 1
        /\ Append(map, x)[Len(map) + 1] = x
        /\ \A i \in 1..Len(map) : Append(map, x)[i] = map[i]
    BY <2>1, AppendProperties
  <2> QED
    BY <2>2 DEF more, N, x
<1>9. /\ d.blocks \in Seq(Block) /\ Len(d.blocks) = k + 1 /\ d.blocks[k + 1] = b
      /\ \A i \in 1..k : d.blocks[i] = c.blocks[i]
  BY <1>2, <1>4, <1>5, <1>6, AppendProperties
<1>10. /\ DOMAIN a = 1..(Len(items) + 1) /\ DOMAIN items = 1..Len(items)
       /\ DOMAIN more = 1..(k + 1) /\ DOMAIN d.blocks = 1..(k + 1) /\ DOMAIN map = 1..k
       /\ DOMAIN c.blocks = 1..k
  <2>1. DOMAIN a = 1..(Len(items) + 1) /\ DOMAIN items = 1..Len(items)
    BY <1>5, <1>7, LenProperties
  <2>2. DOMAIN more = 1..(k + 1) /\ DOMAIN map = 1..k
    BY <1>5, <1>8, LenProperties
  <2>3. DOMAIN d.blocks = 1..(k + 1)
    BY <1>9, LenProperties
  <2> QED
    BY <1>5, <2>1, <2>2, <2>3
<1>11. DOMAIN more = DOMAIN map \cup {k + 1}
  BY <1>6, <1>10
<1>12. \A j \in DOMAIN map : map[j] \in DOMAIN items /\ a[map[j]] = items[map[j]]
  <2>1. \A j \in DOMAIN map : map[j] \in DOMAIN items
    BY <1>5 DEF Numbered
  <2> QED
    BY <1>7, <1>10, <2>1
<1>13. ASSUME NEW j \in DOMAIN more
       PROVE  d.blocks[j].kind = "function_call" /\ d.blocks[j].pieces = a[more[j]].pieces
  <2>1. CASE j = k + 1
    BY <1>4, <1>7, <1>8, <1>9, <2>1
  <2>2. CASE j \in DOMAIN map
    <3>1. j \in 1..k
      BY <1>10, <2>2
    <3>2. d.blocks[j] = c.blocks[j] /\ more[j] = map[j] /\ a[map[j]] = items[map[j]]
      BY <1>8, <1>9, <1>12, <2>2, <3>1
    <3> QED
      BY <1>5, <2>2, <3>2
  <2> QED
    BY <1>11, <2>1, <2>2
<1>14. Numbered(more, a)
  <2>1. Numbered(IF y.kind = "function_call" THEN Append(map, Len(items) + 1) ELSE map, Append(items, y))
    BY <1>5, NumberedAdd
  <2> QED
    BY <2>1 DEF more
<1>15. arrived(a) = arrived(items)
  <2>1. numbers(a) = numbers(items) /\ SaidText(a) = SaidText(items)
    BY <1>5, NumbersAdd
  <2> QED
    BY <2>1 DEF arrived, SaidText
<1>16. more # <<>>
  BY <1>6, <1>8, EmptySeq
<1> HIDE DEF a
<1>17. TellsChat(d, n, a)
  BY <1>2, <1>3, <1>5, <1>7, <1>8, <1>9, <1>10, <1>13, <1>14, <1>15, <1>16 DEF TellsChat
<1>18. Received(c, <<s>>) = d
  BY ReceivedOne DEF d
<1> HIDE DEF s
<1>19. Written(n, <<s>>).t = n /\ Written(n, <<s>>).out = <<s>>
  BY DEF Written
<1>20. KeepsChatting(c, Written(n, <<s>>), a)
  BY <1>17, <1>18, <1>19 DEF KeepsChatting
<1> QED
  BY <1>20 DEF n, s, a

\* The text after a piece that is numbered next.
LEMMA ArrivedNext ==
  ASSUME NEW items \in Seq(SentItem), NEW i \in DOMAIN items, NEW n \in Nat, NEW later,
         numbers(items) = 1..n, SameKinds(later, items),
         later[i].pieces = Append(items[i].pieces, n + 1),
         \A k \in DOMAIN items : k # i => later[k].pieces = items[k].pieces
  PROVE  /\ numbers(later) = 1..(n + 1)
         /\ arrived(later) = IF items[i].kind = "message" THEN Append(arrived(items), n + 1)
                             ELSE arrived(items)
<1>1. /\ numbers(later) = numbers(items) \cup {n + 1}
      /\ SaidText(later) = IF items[i].kind = "message" THEN SaidText(items) \cup {n + 1}
                           ELSE SaidText(items)
  <2> DEFINE p == n + 1
  <2>1. p \in Nat /\ later[i].pieces = Append(items[i].pieces, p)
    OBVIOUS
  <2> HIDE DEF p
  <2>2. /\ numbers(later) = numbers(items) \cup {p}
        /\ SaidText(later) = IF items[i].kind = "message" THEN SaidText(items) \cup {p}
                             ELSE SaidText(items)
    BY <2>1, NumbersMore
  <2> QED
    BY <2>2 DEF p
<1>2. (1..n) \cup {n + 1} = 1..(n + 1)
  OBVIOUS
<1>3. numbers(later) = 1..(n + 1)
  BY <1>1, <1>2
<1>4. arrived(later) = IF items[i].kind = "message" THEN Append(arrived(items), n + 1)
                       ELSE arrived(items)
  BY <1>1, <1>3, ArrivedMore
<1> QED
  BY <1>3, <1>4

\* A piece of a text or of a summary.
LEMMA ChatText ==
  ASSUME NEW c, NEW t, NEW items, NEW i \in DOMAIN items, NEW n \in Nat, NEW later \in Seq(SentItem),
         items[i].kind # "function_call", numbers(items) = 1..n, SameKinds(later, items),
         later[i].pieces = Append(items[i].pieces, n + 1),
         \A k \in DOMAIN items : k # i => later[k].pieces = items[k].pieces,
         InChat(c, t, items), TellsChat(c, t, items)
  PROVE  LET s == [type |-> "content", kind |-> items[i].kind, piece |-> n + 1]
         IN  KeepsChatting(c, Written(t, <<s>>), later)
<1> DEFINE s == [type |-> "content", kind |-> items[i].kind, piece |-> n + 1]
           x == IF items[i].kind = "message" THEN Append(c.text, n + 1) ELSE c.text
           d == ReceiveEvent(c, s)
<1>1. d = [c EXCEPT !.text = x]
  BY DEF ReceiveEvent, InChat, Client
<1>2. arrived(later) = IF items[i].kind = "message" THEN Append(arrived(items), n + 1)
                       ELSE arrived(items)
  <2>1. items \in Seq(SentItem)
    BY DEF TellsChat
  <2> QED
    BY <2>1, ArrivedNext
<1>3. x = arrived(later)
  BY <1>2 DEF TellsChat
<1> HIDE DEF x
<1>4. d.text = x /\ d.blocks = c.blocks /\ d.stop = c.stop
  BY <1>1 DEF InChat, Client
<1> HIDE DEF d
<1>5. Numbered(t.map, later)
  BY NumberedSame DEF TellsChat
<1>6. \A j \in DOMAIN t.map : later[t.map[j]].pieces = items[t.map[j]].pieces
  BY DEF TellsChat, Numbered
<1>7. TellsChat(d, t, later)
  BY <1>3, <1>4, <1>5, <1>6 DEF TellsChat
<1>8. Received(c, <<s>>) = d
  BY ReceivedOne DEF d
<1> HIDE DEF s
<1>9. Written(t, <<s>>).t = t /\ Written(t, <<s>>).out = <<s>>
  BY DEF Written
<1>10. KeepsChatting(c, Written(t, <<s>>), later)
  BY <1>7, <1>8, <1>9 DEF KeepsChatting
<1> QED
  BY <1>10 DEF s

\* A piece of the arguments of a call.
LEMMA ChatArguments ==
  ASSUME NEW c, NEW t, NEW items, NEW i \in DOMAIN items, NEW n \in Nat, NEW later \in Seq(SentItem),
         items[i].kind = "function_call", numbers(items) = 1..n, SameKinds(later, items),
         later[i].pieces = Append(items[i].pieces, n + 1),
         \A k \in DOMAIN items : k # i => later[k].pieces = items[k].pieces,
         InChat(c, t, items), TellsChat(c, t, items)
  PROVE  LET s == [type |-> "arguments", index |-> callIndex(t, i), pieces |-> <<n + 1>>]
         IN  KeepsChatting(c, Written(t, <<s>>), later)
<1> DEFINE k == callIndex(t, i)
           j == k + 1
           p == n + 1
           s == [type |-> "arguments", index |-> k, pieces |-> <<p>>]
           d == ReceiveEvent(c, s)
           v == [c.blocks[j] EXCEPT !.pieces = @ \o <<p>>]
<1>1. j \in DOMAIN t.map /\ t.map[j] = i /\ k \in Nat /\ k < Len(c.blocks)
  <2> DEFINE h == CHOOSE x \in DOMAIN t.map : t.map[x] = i
  <2>1. h \in DOMAIN t.map /\ t.map[h] = i
    BY DEF InChat
  <2>2. DOMAIN t.map = 1..Len(t.map) /\ Len(t.map) \in Nat /\ Len(t.map) = Len(c.blocks)
    BY SequenceOf DEF InChat
  <2>3. k = h - 1
    BY DEF callIndex
  <2> HIDE DEF h, k
  <2>4. k + 1 = h
    BY <2>1, <2>2, <2>3
  <2> QED
    BY <2>1, <2>2, <2>3, <2>4
<1> HIDE DEF k
<1>2. d = [c EXCEPT !.blocks[j].pieces = @ \o <<p>>]
  BY <1>1 DEF InChat, ReceiveEvent
<1>3. d.blocks = [c.blocks EXCEPT ![j] = v] /\ d.stop = c.stop /\ d.text = c.text
  BY <1>2 DEF InChat, Client
<1> HIDE DEF d
<1>4. /\ c.blocks \in Seq(Block) /\ items \in Seq(SentItem) /\ t.map \in Seq(Nat)
      /\ \A h \in DOMAIN c.blocks : c.blocks[h].kind = "function_call"
      /\ DOMAIN t.map = DOMAIN c.blocks
      /\ \A h \in DOMAIN t.map : c.blocks[h].pieces = items[t.map[h]].pieces
      /\ Numbered(t.map, items)
  BY DEF TellsChat
<1>5. j \in DOMAIN c.blocks /\ c.blocks[j] \in Block
  <2>1. j \in DOMAIN c.blocks
    BY <1>1, <1>4
  <2>2. j \in 1..Len(c.blocks)
    BY <1>4, <2>1, LenProperties
  <2> HIDE DEF j
  <2> QED
    BY <1>4, <2>1, <2>2, ElementOfSeq
<1>6. v \in Block /\ v.kind = "function_call" /\ v.pieces = c.blocks[j].pieces \o <<p>>
  <2> DEFINE b == c.blocks[j]
             q == b.pieces \o <<p>>
  <2>1. b \in Block /\ b.kind = "function_call"
    BY <1>4, <1>5
  <2>2. <<p>> \in Seq(Nat)
    OBVIOUS
  <2> HIDE DEF b
  <2>3. q \in Seq(Nat)
    BY <2>1, <2>2, ConcatProperties DEF Block
  <2> HIDE DEF q
  <2>4. [b EXCEPT !.pieces = q] \in Block /\ [b EXCEPT !.pieces = q].kind = "function_call"
        /\ [b EXCEPT !.pieces = q].pieces = q
    BY <2>1, <2>3 DEF Block
  <2> QED
    BY <2>4 DEF b, q
<1>7. c.blocks[j].pieces \o <<p>> = later[i].pieces
  <2> DEFINE q == items[i].pieces
             N == Nat
  <2>1. q \in Seq(N) /\ p \in N /\ c.blocks[j].pieces = q /\ later[i].pieces = Append(q, p)
    <3>1. i \in 1..Len(items)
      BY <1>4, LenProperties
    <3>2. items[i] \in SentItem
      BY <1>4, <3>1, ElementOfSeq
    <3>3. q \in Seq(N)
      BY <3>2 DEF SentItem
    <3>4. c.blocks[j].pieces = q
      BY <1>1, <1>4
    <3> QED
      BY <3>3, <3>4
  <2> HIDE DEF q, N, p, j
  <2>2. Append(q, p) = q \o <<p>>
    BY <2>1, AppendIsConcat
  <2> QED
    BY <2>1, <2>2
<1> HIDE DEF v, j, p
<1>8. /\ d.blocks \in Seq(Block) /\ DOMAIN d.blocks = DOMAIN c.blocks
      /\ \A h \in DOMAIN c.blocks : d.blocks[h] = IF h = j THEN v ELSE c.blocks[h]
  <2>1. [c.blocks EXCEPT ![j] = v] \in Seq(Block)
    BY <1>4, <1>5, <1>6, LenProperties, ExceptSeq
  <2> QED
    BY <1>3, <1>5, <2>1
<1>9. ASSUME NEW h \in DOMAIN t.map PROVE d.blocks[h].pieces = later[t.map[h]].pieces
  <2>1. CASE h = j
    BY <1>1, <1>4, <1>6, <1>7, <1>8, <2>1
  <2>2. CASE h # j
    <3>1. t.map[h] # i /\ t.map[h] \in DOMAIN items
      BY <1>1, <1>4, <2>2 DEF Numbered
    <3> QED
      BY <1>4, <1>8, <2>2, <3>1
  <2> QED
    BY <2>1, <2>2
<1>10. Numbered(t.map, later)
  BY <1>4, NumberedSame
<1>11. arrived(later) = arrived(items)
  <2>1. arrived(later) = IF items[i].kind = "message" THEN Append(arrived(items), n + 1)
                         ELSE arrived(items)
    BY <1>4, ArrivedNext
  <2> QED
    BY <2>1
<1>12. \A h \in DOMAIN d.blocks : d.blocks[h].kind = "function_call"
  BY <1>4, <1>6, <1>8
<1>13. TellsChat(d, t, later)
  BY <1>3, <1>4, <1>8, <1>9, <1>10, <1>11, <1>12 DEF TellsChat
<1>14. Received(c, <<s>>) = d
  BY ReceivedOne DEF d
<1> HIDE DEF s
<1>15. Written(t, <<s>>).t = t /\ Written(t, <<s>>).out = <<s>>
  BY DEF Written
<1>16. KeepsChatting(c, Written(t, <<s>>), later)
  BY <1>13, <1>14, <1>15 DEF KeepsChatting
<1> QED
  BY <1>16 DEF s, p, k

\* The last chunk and [DONE].
LEMMA FinishSays ==
  ASSUME NEW c, NEW stop, Client(c), ~c.ended, stop # "none"
  PROVE  LET d == Received(c, <<[type |-> "finish", stop |-> stop], [type |-> "message_stop"]>>)
         IN  d.blocks = c.blocks /\ d.text = c.text /\ d.stop = stop
<1> DEFINE e == [type |-> "finish", stop |-> stop]
           m == [type |-> "message_stop"]
           f == [c EXCEPT !.stop = stop]
           g == [f EXCEPT !.ended = TRUE]
<1>1. Client(f) /\ f.ended = c.ended /\ f.stop = stop /\ f.blocks = c.blocks /\ f.text = c.text
  BY DEF Client
<1>2. ReceiveEvent(c, e) = f
  BY DEF ReceiveEvent
<1> HIDE DEF f
<1>3. g.stop = f.stop /\ g.blocks = f.blocks /\ g.text = f.text
  BY <1>1 DEF Client
<1>4. ReceiveEvent(f, m) = g
  BY <1>1 DEF ReceiveEvent
<1> HIDE DEF g
<1>5. Received(c, <<e, m>>) = g
  BY <1>2, <1>4, ReceivedTwo
<1> QED
  BY <1>1, <1>3, <1>5

-----------------------------------------------------------------------------
(* The stream says what upstream says: the invariant and its actions. *)

\* As long as the answer has not ended, a client that reads has what upstream has sent.
Telling ==
    /\ trClient.stop = "none"
    /\ trUp.items \in Seq(SentItem) /\ Counted(trUp.items)
    /\ ~trGone /\ trMode = "messages" => Tells(trClient, trState, trUp.items)
    /\ ~trGone /\ trMode = "chat" => TellsChat(trClient, trState, trUp.items)

SayInv == StreamSound /\ (~trTwice /\ ~trReturned => Telling)

\* An event that does not end the answer.
LEMMA HandleTells ==
  ASSUME TrInv, TrInv', Telling, ~trReturned, ~trTwice, NEW e, ~terminal(e), Handle(e),
         NEW later \in Seq(SentItem), trUp'.items = later, trUp'.end = "none", Counted(later),
         trMode = "messages" /\ ~trGone => KeepsTelling(trClient, translateEvent(trState, e), later),
         trMode = "chat" /\ ~trGone => KeepsChatting(trClient, Translate(trState, e), later)
  PROVE  SayInv'
<1> DEFINE s == IF trMode = "messages" THEN translateEvent(trState, e) ELSE Translate(trState, e)
<1>1. /\ trState' = s.t
      /\ trClient' = IF trGone THEN trClient ELSE Received(trClient, s.out)
      /\ trReturned' = (terminal(e) \/ (trMode = "messages" /\ trGone /\ s.out # <<>>))
      /\ trMode' = trMode /\ trGone' = trGone /\ trTwice' = trTwice
  BY DEF Handle, deliver
<1>2. trClient.stop = "none"
  BY DEF Telling
<1>3. CASE trGone
  <2>1. trClient' = trClient /\ trGone'
    BY <1>1, <1>3
  <2>2. StreamSound'
    BY <1>2, <2>1 DEF StreamSound, StreamedAsBuffered, AnnouncedCallsWhole
  <2>3. Telling'
    BY <1>2, <2>1 DEF Telling
  <2> QED
    BY <2>2, <2>3 DEF SayInv
<1>4. CASE ~trGone
  <2>1. ~trReturned' /\ ~trGone' /\ ~trTwice' /\ trClient' = Received(trClient, s.out)
    BY <1>1, <1>4
  <2>2. trMode' = "messages" => Tells(trClient', trState', later)
    <3> SUFFICES ASSUME trMode = "messages" PROVE Tells(trClient', trState', later)
      BY <1>1
    <3>1. s = translateEvent(trState, e)
      OBVIOUS
    <3> HIDE DEF s
    <3> QED
      BY <1>1, <1>4, <2>1, <3>1 DEF KeepsTelling
  <2>3. trMode' = "chat" => TellsChat(trClient', trState', later)
    <3> SUFFICES ASSUME trMode = "chat" PROVE TellsChat(trClient', trState', later)
      BY <1>1
    <3>1. s = Translate(trState, e)
      OBVIOUS
    <3> HIDE DEF s
    <3> QED
      BY <1>1, <1>4, <2>1, <3>1 DEF KeepsChatting
  <2>4. trClient'.stop = "none"
    <3>1. trMode' = "messages" => InStep(trClient', trState')
      BY <2>1 DEF TrInv, Relayed
    <3>2. trMode' \in {"messages", "chat"}
      BY DEF TrInv
    <3> QED
      BY <2>3, <3>1, <3>2 DEF InStep, TellsChat
  <2>5. StreamSound'
    BY <2>1, <2>4 DEF StreamSound, StreamedAsBuffered, AnnouncedCallsWhole
  <2>6. Telling'
    BY <2>2, <2>3, <2>4 DEF Telling
  <2> QED
    BY <2>5, <2>6 DEF SayInv
<1> QED
  BY <1>3, <1>4

\* What holds for the client of either protocol.
LEMMA TellingIs ==
  ASSUME TrInv, Telling, ~trReturned, ~trTwice
  PROVE  /\ trUp.items \in Seq(SentItem) /\ Upstream(trUp)
         /\ ~trGone /\ trMode = "messages" =>
               /\ Translator(trState) /\ InStep(trClient, trState)
               /\ Tells(trClient, trState, trUp.items)
         /\ ~trGone /\ trMode = "chat" =>
               /\ Translator(trState) /\ InChat(trClient, trState, trUp.items)
               /\ TellsChat(trClient, trState, trUp.items)
BY DEF TrInv, Telling, Relayed

\* response.created.
LEMMA CreatedSound ==
  ASSUME TrInv, TrInv', Telling, ~trTwice, Created
  PROVE  SayInv'
<1> DEFINE e == [type |-> "created"]
           items == trUp.items
<1>1. ~trReturned /\ trUp.end = "none" /\ trUp' = [trUp EXCEPT !.created = TRUE] /\ Handle(e)
  BY DEF Created, Reading
<1>2. items \in Seq(SentItem) /\ Upstream(trUp) /\ Counted(items)
  BY <1>1, TellingIs DEF Telling
<1>3. trUp'.items = items /\ trUp'.end = "none"
  BY <1>1, <1>2 DEF Upstream
<1>4. ~terminal(e)
  BY DEF terminal
<1>5. trMode = "messages" /\ ~trGone => KeepsTelling(trClient, translateEvent(trState, e), items)
  <2>1. translateEvent(trState, e) = handleCreated(trState)
    BY DEF translateEvent
  <2> QED
    BY <1>1, <2>1, TellingIs, CreatedTells
<1>6. trMode = "chat" /\ ~trGone => KeepsChatting(trClient, Translate(trState, e), items)
  <2>1. Translate(trState, e) = Written(trState, <<>>)
    BY DEF Translate
  <2>2. ASSUME trMode = "chat", ~trGone PROVE KeepsChatting(trClient, Written(trState, <<>>), items)
    <3>1. TellsChat(trClient, trState, items)
      BY <1>1, <2>2, TellingIs
    <3> HIDE DEF items
    <3>2. Numbered(trState.map, items)
      BY <3>1 DEF TellsChat
    <3> QED
      BY <1>2, <3>1, <3>2, ChatSame
  <2> QED
    BY <2>1, <2>2
<1> HIDE DEF e, items
<1> QED
  BY <1>1, <1>2, <1>3, <1>4, <1>5, <1>6, HandleTells

\* response.output_item.added.
LEMMA AddedSound ==
  ASSUME TrInv, TrInv', Telling, ~trTwice, NEW kind \in Kinds, Added(kind)
  PROVE  SayInv'
<1> DEFINE items == trUp.items
           e == [type |-> "added", kind |-> kind, item |-> Len(items) + 1]
           y == [kind |-> kind, pieces |-> <<>>, open |-> TRUE]
           later == Append(items, y)
<1>1. /\ ~trReturned /\ trUp.end = "none" /\ trUp' = [trUp EXCEPT !.items = Append(@, y)] /\ Handle(e)
      /\ trMode = "messages" => openItems = {}
  BY DEF Added, Reading
<1>2. items \in Seq(SentItem) /\ Upstream(trUp) /\ Counted(items)
  BY <1>1, TellingIs DEF Telling
<1>3. trUp'.items = later /\ trUp'.end = "none"
  BY <1>1, <1>2 DEF Upstream
<1>4. ~terminal(e)
  BY DEF terminal
<1>5. y \in SentItem /\ y.kind = kind /\ y.pieces = <<>> /\ y.open
  BY EmptySeq DEF SentItem
<1>6. trMode = "messages" => \A i \in DOMAIN items : ~items[i].open
  BY <1>1 DEF openItems
<1>7. trMode = "messages" /\ ~trGone => KeepsTelling(trClient, translateEvent(trState, e), later)
  <2>1. translateEvent(trState, e) = handleOutputItemAdded(trState, kind)
    BY DEF translateEvent
  <2>2. ASSUME trMode = "messages", ~trGone
        PROVE  KeepsTelling(trClient, handleOutputItemAdded(trState, kind), later)
    <3>1. Translator(trState) /\ InStep(trClient, trState) /\ Tells(trClient, trState, items)
      BY <1>1, <2>2, TellingIs
    <3> HIDE DEF items, y
    <3> QED
      BY <1>5, <1>6, <2>2, <3>1, AddedTells
  <2> QED
    BY <2>1, <2>2
<1>8. trMode = "chat" /\ ~trGone => KeepsChatting(trClient, Translate(trState, e), later)
  <2> SUFFICES ASSUME trMode = "chat", ~trGone
               PROVE  KeepsChatting(trClient, Translate(trState, e), later)
    OBVIOUS
  <2>1. /\ Translator(trState) /\ InChat(trClient, trState, items)
        /\ TellsChat(trClient, trState, items)
    BY <1>1, TellingIs
  <2>2. CASE kind = "function_call"
    <3> DEFINE n == [trState EXCEPT !.map = Append(@, Len(items) + 1), !.tools = TRUE]
               s == [type |-> "tool_call", index |-> Len(trState.map)]
    <3>1. Translate(trState, e) = Written(n, <<s>>)
      BY <2>2 DEF Translate
    <3> HIDE DEF items, y, e
    <3>2. KeepsChatting(trClient, Written(n, <<s>>), Append(items, y))
      BY <1>5, <2>1, <2>2, ChatCallAdded
    <3> QED
      BY <3>1, <3>2
  <2>3. CASE kind # "function_call"
    <3>1. Translate(trState, e) = Written(trState, <<>>)
      BY <2>3 DEF Translate
    <3> HIDE DEF items, y, e
    <3> DEFINE map == trState.map
    <3>2. map \in Seq(Nat) /\ Numbered(map, items)
      BY <2>1 DEF TellsChat
    <3> HIDE DEF map
    <3>3. Numbered(map, later)
      <4>1. Numbered(IF y.kind = "function_call" THEN Append(map, Len(items) + 1) ELSE map, later)
        BY <1>2, <1>5, <3>2, NumberedAdd
      <4> QED
        BY <1>5, <2>3, <4>1
    <3>4. arrived(later) = arrived(items)
      <4>1. numbers(later) = numbers(items) /\ SaidText(later) = SaidText(items)
        BY <1>2, <1>5, NumbersAdd
      <4> QED
        BY <4>1 DEF arrived, SaidText
    <3>5. later \in Seq(SentItem) /\ \A i \in DOMAIN items : later[i] = items[i]
      BY <1>2, <1>5, AppendProperties, LenProperties
    <3>6. \A j \in DOMAIN map : later[map[j]].pieces = items[map[j]].pieces
      BY <3>2, <3>5 DEF Numbered
    <3> HIDE DEF later
    <3>7. KeepsChatting(trClient, Written(trState, <<>>), later)
      BY <2>1, <3>3, <3>4, <3>5, <3>6, ChatSame DEF map
    <3> QED
      BY <3>1, <3>7
  <2> QED
    BY <2>2, <2>3
<1>9. later \in Seq(SentItem) /\ Counted(later)
  <2> HIDE DEF items, y
  <2>1. later \in Seq(SentItem)
    BY <1>2, <1>5, AppendProperties
  <2>2. numbers(later) = numbers(items)
    BY <1>2, <1>5, NumbersAdd
  <2> QED
    BY <1>2, <2>1, <2>2 DEF Counted
<1> HIDE DEF e, items, y, later
<1> QED
  BY <1>1, <1>3, <1>4, <1>7, <1>8, <1>9, HandleTells

\* An item with something else in it, of the same kind.
LEMMA ItemRefilled ==
  ASSUME NEW items \in Seq(SentItem), NEW i \in DOMAIN items, NEW v \in SentItem,
         v.kind = items[i].kind
  PROVE  LET later == [items EXCEPT ![i] = v]
         IN  /\ later \in Seq(SentItem) /\ SameKinds(later, items) /\ later[i] = v
             /\ \A k \in DOMAIN items : k # i => later[k] = items[k]
<1> DEFINE later == [items EXCEPT ![i] = v]
<1>1. later \in Seq(SentItem)
  BY LenProperties, ExceptSeq
<1>2. DOMAIN later = DOMAIN items /\ later[i] = v /\ \A k \in DOMAIN items : k # i => later[k] = items[k]
  OBVIOUS
<1> HIDE DEF later
<1>3. SameKinds(later, items)
  BY <1>2 DEF SameKinds
<1> QED
  BY <1>1, <1>2, <1>3 DEF later

\* A delta.
LEMMA DeltaSound ==
  ASSUME TrInv, TrInv', Telling, ~trTwice, NEW i, Delta(i)
  PROVE  SayInv'
<1> DEFINE items == trUp.items
           n == pieces
           kind == items[i].kind
           e == [type |-> "delta", kind |-> kind, item |-> i, piece |-> n + 1]
           v == [items[i] EXCEPT !.pieces = Append(@, n + 1)]
           later == [items EXCEPT ![i] = v]
<1>1. /\ ~trReturned /\ trUp.end = "none" /\ Handle(e)
      /\ i \in DOMAIN items /\ items[i].open
      /\ trUp' = [trUp EXCEPT !.items[i].pieces = Append(@, pieces + 1)]
  BY DEF Delta, Reading, openItems
<1>2. items \in Seq(SentItem) /\ Upstream(trUp) /\ Counted(items)
  BY <1>1, TellingIs DEF Telling
<1>3. trUp'.items = later /\ trUp'.end = "none"
  BY <1>1, <1>2 DEF Upstream
<1>4. ~terminal(e)
  BY DEF terminal
<1>5. n \in Nat /\ numbers(items) = 1..n
  <2>1. PICK k \in Nat : numbers(items) = 1..k
    BY <1>2 DEF Counted
  <2>2. n = k
    BY <2>1, CountedIs DEF pieces
  <2> QED
    BY <2>1, <2>2
<1> HIDE DEF n
<1>6. items[i] \in SentItem
  <2>1. i \in 1..Len(items)
    BY <1>1, <1>2, LenProperties
  <2> QED
    BY <1>2, <2>1, ElementOfSeq
<1>7. v \in SentItem /\ v.kind = kind /\ v.open /\ v.pieces = Append(items[i].pieces, n + 1) /\ kind \in Kinds
  <2> DEFINE q == items[i]
             p == Append(q.pieces, n + 1)
  <2>1. q \in SentItem /\ q.open
    BY <1>1, <1>6
  <2> HIDE DEF q
  <2>2. p \in Seq(Nat)
    <3>1. q.pieces \in Seq(Nat) /\ n + 1 \in Nat
      BY <1>5, <2>1 DEF SentItem
    <3> QED
      BY <3>1, AppendProperties
  <2> HIDE DEF p
  <2>3. /\ [q EXCEPT !.pieces = p] \in SentItem /\ [q EXCEPT !.pieces = p].kind = q.kind
        /\ [q EXCEPT !.pieces = p].open = q.open /\ [q EXCEPT !.pieces = p].pieces = p
        /\ q.kind \in Kinds
    BY <2>1, <2>2 DEF SentItem
  <2> QED
    BY <2>1, <2>3 DEF q, p
<1> HIDE DEF v
<1>8. /\ later \in Seq(SentItem) /\ SameKinds(later, items) /\ later[i] = v
      /\ \A k \in DOMAIN items : k # i => later[k] = items[k]
  BY <1>1, <1>2, <1>7, ItemRefilled
<1>9. later[i].pieces = Append(items[i].pieces, n + 1)
      /\ \A k \in DOMAIN items : k # i => later[k].pieces = items[k].pieces
  BY <1>7, <1>8
<1>10. Counted(later)
  <2> HIDE DEF items, later
  <2>1. numbers(later) = 1..(n + 1)
    BY <1>1, <1>2, <1>5, <1>8, <1>9, ArrivedNext
  <2> QED
    BY <1>5, <2>1 DEF Counted
<1>11. trMode = "messages" /\ ~trGone => KeepsTelling(trClient, translateEvent(trState, e), later)
  <2> SUFFICES ASSUME trMode = "messages", ~trGone
               PROVE  KeepsTelling(trClient, translateEvent(trState, e), later)
    OBVIOUS
  <2>1. Translator(trState) /\ InStep(trClient, trState) /\ Tells(trClient, trState, items)
    BY <1>1, TellingIs
  <2> HIDE DEF items
  <2>2. \A k \in DOMAIN items : items[k].open => k = Len(items)
    BY <2>1 DEF Tells, Follows
  <2>3. items # <<>> /\ items[i] = Last(items) /\ later = Append(Front(items), v)
    BY <1>1, <1>2, <1>7, <2>2, OpenIsLast
  <2> DEFINE p == n + 1
  <2>4. p \in Nat /\ v.pieces = Append(Last(items).pieces, p) /\ Last(items).open /\ Last(items).kind = kind
    BY <1>1, <1>5, <1>7, <2>3
  <2>5. CASE kind = "function_call"
    <3>1. translateEvent(trState, e) = handleToolInputDelta(trState, p)
      BY <2>5 DEF translateEvent
    <3> HIDE DEF p, e, later, kind
    <3>2. KeepsTelling(trClient, handleToolInputDelta(trState, p), Append(Front(items), v))
      BY <1>7, <2>1, <2>3, <2>4, <2>5, ArgumentsTell
    <3> QED
      BY <2>3, <3>1, <3>2
  <2>6. CASE kind # "function_call"
    <3>1. translateEvent(trState, e) = handleDelta(trState, kind, p)
      BY <2>6 DEF translateEvent
    <3> HIDE DEF p, e, later, kind
    <3>2. KeepsTelling(trClient, handleDelta(trState, kind, p), Append(Front(items), v))
      BY <1>7, <2>1, <2>3, <2>4, <2>6, TextTells
    <3> QED
      BY <2>3, <3>1, <3>2
  <2> QED
    BY <2>5, <2>6
<1>12. trMode = "chat" /\ ~trGone => KeepsChatting(trClient, Translate(trState, e), later)
  <2> SUFFICES ASSUME trMode = "chat", ~trGone
               PROVE  KeepsChatting(trClient, Translate(trState, e), later)
    OBVIOUS
  <2>1. /\ Translator(trState) /\ InChat(trClient, trState, items)
        /\ TellsChat(trClient, trState, items)
    BY <1>1, TellingIs
  <2>2. CASE kind = "function_call"
    <3> DEFINE s == [type |-> "arguments", index |-> callIndex(trState, i), pieces |-> <<n + 1>>]
    <3>1. Translate(trState, e) = Written(trState, <<s>>)
      BY <2>2 DEF Translate
    <3> HIDE DEF e
    <3>2. KeepsChatting(trClient, Written(trState, <<s>>), later)
      <4> HIDE DEF items, later
      <4>1. items[i].kind = "function_call"
        BY <2>2
      <4> QED
        BY <1>1, <1>5, <1>8, <1>9, <2>1, <4>1, ChatArguments
    <3> QED
      BY <3>1, <3>2
  <2>3. CASE kind # "function_call"
    <3> DEFINE s == [type |-> "content", kind |-> items[i].kind, piece |-> n + 1]
    <3>1. Translate(trState, e) = Written(trState, <<s>>)
      BY <2>3 DEF Translate
    <3> HIDE DEF e
    <3>2. KeepsChatting(trClient, Written(trState, <<s>>), later)
      <4> HIDE DEF items, later
      <4>1. items[i].kind # "function_call"
        BY <2>3
      <4> QED
        BY <1>1, <1>5, <1>8, <1>9, <2>1, <4>1, ChatText
    <3> QED
      BY <3>1, <3>2
  <2> QED
    BY <2>2, <2>3
<1> HIDE DEF e, items, later
<1> QED
  BY <1>1, <1>3, <1>4, <1>8, <1>10, <1>11, <1>12, HandleTells

\* The end of a part.
LEMMA ContentDoneSound ==
  ASSUME TrInv, TrInv', Telling, ~trTwice, NEW i, ContentDone(i)
  PROVE  SayInv'
<1> DEFINE items == trUp.items
           e == [type |-> "content_done"]
<1>1. /\ ~trReturned /\ trUp.end = "none" /\ trUp' = trUp /\ Handle(e)
      /\ i \in DOMAIN items /\ items[i].open /\ items[i].kind # "function_call"
  BY DEF ContentDone, Reading, openItems
<1>2. items \in Seq(SentItem) /\ Counted(items)
  BY <1>1, TellingIs DEF Telling
<1>3. trUp'.items = items /\ trUp'.end = "none"
  BY <1>1
<1>4. ~terminal(e)
  BY DEF terminal
<1>5. trMode = "messages" /\ ~trGone => KeepsTelling(trClient, translateEvent(trState, e), items)
  <2> SUFFICES ASSUME trMode = "messages", ~trGone
               PROVE  KeepsTelling(trClient, translateEvent(trState, e), items)
    OBVIOUS
  <2>1. Translator(trState) /\ InStep(trClient, trState) /\ Tells(trClient, trState, items)
    BY <1>1, TellingIs
  <2>2. translateEvent(trState, e) = closeCurrentBlock(trState)
    BY DEF translateEvent
  <2> HIDE DEF items
  <2>3. \A k \in DOMAIN items : items[k].open => k = Len(items)
    BY <2>1 DEF Tells, Follows
  <2>4. items # <<>> /\ items[i] = Last(items)
    BY <1>1, <1>2, <2>3, OpenIsLast
  <2>5. KeepsTelling(trClient, closeCurrentBlock(trState), items)
    BY <1>1, <2>1, <2>4, DoneTells
  <2> QED
    BY <2>2, <2>5
<1>6. trMode = "chat" /\ ~trGone => KeepsChatting(trClient, Translate(trState, e), items)
  <2>1. Translate(trState, e) = Written(trState, <<>>)
    BY DEF Translate
  <2>2. ASSUME trMode = "chat", ~trGone PROVE KeepsChatting(trClient, Written(trState, <<>>), items)
    <3>1. TellsChat(trClient, trState, items)
      BY <1>1, <2>2, TellingIs
    <3> HIDE DEF items
    <3>2. Numbered(trState.map, items)
      BY <3>1 DEF TellsChat
    <3> QED
      BY <1>2, <3>1, <3>2, ChatSame
  <2> QED
    BY <2>1, <2>2
<1> HIDE DEF e, items
<1> QED
  BY <1>1, <1>2, <1>3, <1>4, <1>5, <1>6, HandleTells

\* response.output_item.done.
LEMMA ItemDoneSound ==
  ASSUME TrInv, TrInv', Telling, ~trTwice, NEW i, ItemDone(i)
  PROVE  SayInv'
<1> DEFINE items == trUp.items
           e == [type |-> "item_done"]
           v == [items[i] EXCEPT !.open = FALSE]
           later == [items EXCEPT ![i] = v]
<1>1. /\ ~trReturned /\ trUp.end = "none" /\ Handle(e)
      /\ i \in DOMAIN items /\ items[i].open
      /\ trUp' = [trUp EXCEPT !.items[i].open = FALSE]
  BY DEF ItemDone, Reading, openItems
<1>2. items \in Seq(SentItem) /\ Upstream(trUp) /\ Counted(items)
  BY <1>1, TellingIs DEF Telling
<1>3. trUp'.items = later /\ trUp'.end = "none"
  BY <1>1, <1>2 DEF Upstream
<1>4. ~terminal(e)
  BY DEF terminal
<1>5. items[i] \in SentItem
  <2>1. i \in 1..Len(items)
    BY <1>1, <1>2, LenProperties
  <2> QED
    BY <1>2, <2>1, ElementOfSeq
<1>6. v \in SentItem /\ v.kind = items[i].kind /\ v.pieces = items[i].pieces /\ ~v.open
  BY <1>5 DEF SentItem
<1> HIDE DEF v
<1>7. /\ later \in Seq(SentItem) /\ SameKinds(later, items) /\ later[i] = v
      /\ \A k \in DOMAIN items : k # i => later[k] = items[k]
  BY <1>1, <1>2, <1>6, ItemRefilled
<1>8. \A k \in DOMAIN items : later[k].pieces = items[k].pieces
  <2> HIDE DEF items, later
  <2> QED
    BY <1>6, <1>7
<1>9. numbers(later) = numbers(items) /\ SaidText(later) = SaidText(items)
  <2> HIDE DEF items, later
  <2> QED
    BY <1>7, <1>8, NumbersSame
<1>10. Counted(later)
  BY <1>2, <1>9 DEF Counted
<1>11. trMode = "messages" /\ ~trGone => KeepsTelling(trClient, translateEvent(trState, e), later)
  <2> SUFFICES ASSUME trMode = "messages", ~trGone
               PROVE  KeepsTelling(trClient, translateEvent(trState, e), later)
    OBVIOUS
  <2>1. Translator(trState) /\ InStep(trClient, trState) /\ Tells(trClient, trState, items)
    BY <1>1, TellingIs
  <2>2. translateEvent(trState, e) = closeCurrentBlock(trState)
    BY DEF translateEvent
  <2> HIDE DEF items
  <2>3. \A k \in DOMAIN items : items[k].open => k = Len(items)
    BY <2>1 DEF Tells, Follows
  <2>4. items # <<>> /\ items[i] = Last(items) /\ later = Append(Front(items), v)
    BY <1>1, <1>2, <1>6, <2>3, OpenIsLast
  <2> HIDE DEF later
  <2>5. \A z \in SentItem : z.kind = Last(items).kind /\ z.pieces = Last(items).pieces /\ ~z.open
           => KeepsTelling(trClient, closeCurrentBlock(trState), Append(Front(items), z))
    BY <1>1, <2>1, <2>4, DoneTells
  <2> QED
    BY <1>6, <2>2, <2>4, <2>5
<1>12. trMode = "chat" /\ ~trGone => KeepsChatting(trClient, Translate(trState, e), later)
  <2>1. Translate(trState, e) = Written(trState, <<>>)
    BY DEF Translate
  <2>2. ASSUME trMode = "chat", ~trGone PROVE KeepsChatting(trClient, Written(trState, <<>>), later)
    <3>1. TellsChat(trClient, trState, items)
      BY <1>1, <2>2, TellingIs
    <3> HIDE DEF items, later
    <3>2. Numbered(trState.map, later)
      BY <1>7, <3>1, NumberedSame DEF TellsChat
    <3>3. arrived(later) = arrived(items)
      BY <1>9 DEF arrived, SaidText
    <3>4. \A j \in DOMAIN trState.map : later[trState.map[j]].pieces = items[trState.map[j]].pieces
      BY <1>8, <3>1 DEF TellsChat, Numbered
    <3> QED
      BY <1>7, <3>1, <3>2, <3>3, <3>4, ChatSame
  <2> QED
    BY <2>1, <2>2
<1> HIDE DEF e, items, later
<1> QED
  BY <1>1, <1>3, <1>4, <1>7, <1>10, <1>11, <1>12, HandleTells

\* The last of the items is a call only when there is a call.
LEMMA LastCallIsCall ==
  ASSUME NEW items \in Seq(SentItem), lastIsCall(items)
  PROVE  callsOf(items) # <<>>
<1>1. PICK i \in DOMAIN items : items[i].kind = "function_call"
  BY DEF lastIsCall
<1>2. items[i].pieces \in ToSet(callsOf(items))
  <2>1. ToSet(callsOf(items)) =
           {items[k].pieces : k \in {k \in DOMAIN items : items[k].kind = "function_call"}}
    BY CallSet, PiecedBlocks
  <2>2. i \in {k \in DOMAIN items : items[k].kind = "function_call"}
    BY <1>1
  <2> QED
    BY <2>1, <2>2
<1>3. DOMAIN <<>> = {}
  OBVIOUS
<1> QED
  BY <1>2, <1>3 DEF ToSet

\* response.completed: the client has the answer that is built at once, and its reason.
LEMMA CompletedSound ==
  ASSUME TrInv, TrInv', Telling, ~trTwice,
         NEW end \in {"completed", "max_output_tokens", "content_filter"}, Completed(end)
  PROVE  SayInv'
<1> DEFINE items == trUp.items
           e == [type |-> "completed", end |-> end]
<1>1. /\ ~trReturned /\ trUp.end = "none" /\ Handle(e)
      /\ trUp' = [trUp EXCEPT !.end = end]
      /\ end = "completed" => openItems = {}
  BY DEF Completed, Reading
<1>2. items \in Seq(SentItem) /\ Upstream(trUp) /\ trClient.stop = "none"
  BY <1>1, TellingIs DEF Telling
<1>3. trUp'.items = items /\ trUp'.end = end
  BY <1>1, <1>2 DEF Upstream
<1>4. openItems' = openItems
  BY <1>3 DEF openItems
<1>5. /\ trReturned' = TRUE /\ trMode' = trMode /\ trGone' = trGone
      /\ trGone => trClient' = trClient
      /\ ~trGone /\ trMode = "messages" => trClient' = Received(trClient, translateEvent(trState, e).out)
      /\ ~trGone /\ trMode = "chat" => trClient' = Received(trClient, Translate(trState, e).out)
  <2>1. terminal(e)
    BY DEF terminal
  <2> HIDE DEF e
  <2> QED
    BY <1>1, <2>1 DEF Handle, deliver
<1> SUFFICES StreamSound'
  BY <1>5 DEF SayInv
<1>6. CASE trGone
  BY <1>2, <1>5, <1>6 DEF StreamSound, StreamedAsBuffered, AnnouncedCallsWhole
<1>7. CASE ~trGone /\ trMode = "messages"
  <2> DEFINE stop == IF end = "max_output_tokens" THEN "max_tokens"
                     ELSE IF trState.tools THEN "tool_use" ELSE "end_turn"
             a == buildAnthropicResponseFromCompleted(items, end)
             blocks == trClient'.blocks
  <2>1. translateEvent(trState, e) = ends(trState, stop)
    BY DEF translateEvent, handleCompleted
  <2>2. Translator(trState) /\ InStep(trClient, trState) /\ Tells(trClient, trState, items)
    BY <1>1, <1>7, TellingIs
  <2>3. stop # "none"
    OBVIOUS
  <2>4. SaySame(blocks, items) /\ trClient'.stop = stop
    <3> DEFINE d == Received(trClient, ends(trState, stop).out)
    <3>1. trClient' = d
      BY <1>5, <1>7, <2>1
    <3> HIDE DEF stop, items
    <3>2. SaySame(d.blocks, items) /\ d.stop = stop
      BY <2>2, <2>3, EndsSay DEF Tells
    <3> HIDE DEF d
    <3> QED
      BY <3>1, <3>2
  <2>5. trState.tools <=> callsOf(items) # <<>>
    BY <2>2 DEF Tells, Follows
  <2>6. /\ content(blocks, "message") = content(items, "message")
        /\ content(blocks, "reasoning") = content(items, "reasoning")
        /\ callsOf(blocks) = callsOf(items)
    BY <2>4 DEF SaySame
  <2>7. lastIsCall(items) => callsOf(items) # <<>>
    BY <1>2, LastCallIsCall
  <2>8. /\ a.text = content(items, "message") /\ a.thinking = content(items, "reasoning")
        /\ a.calls = callsOf(items)
        /\ a.stop = CASE end = "max_output_tokens" -> "max_tokens"
                      [] end = "content_filter" -> "end_turn"
                      [] end = "completed" -> IF lastIsCall(items) THEN "tool_use" ELSE "end_turn"
    BY DEF buildAnthropicResponseFromCompleted
  <2> HIDE DEF a, blocks, items
  <2>9. (a.calls = <<>> \/ lastIsCall(items)) /\ end # "content_filter" => trClient'.stop = a.stop
    <3>1. CASE end = "max_output_tokens"
      <4>1. a.stop = "max_tokens"
        BY <2>8, <3>1
      <4> QED
        BY <2>4, <3>1, <4>1
    <3>2. CASE end = "completed"
      <4>1. a.stop = IF lastIsCall(items) THEN "tool_use" ELSE "end_turn"
        BY <2>8, <3>2
      <4>2. stop = IF trState.tools THEN "tool_use" ELSE "end_turn"
        BY <3>2
      <4> QED
        BY <2>4, <2>5, <2>7, <2>8, <4>1, <4>2
    <3> QED
      BY <3>1, <3>2
  <2>10. StreamedAsBuffered'
    BY <1>3, <1>5, <1>7, <2>6, <2>8, <2>9 DEF StreamedAsBuffered, a, blocks
  <2>11. AnnouncedCallsWhole'
    BY <1>1, <1>3, <1>4, <2>6 DEF AnnouncedCallsWhole, blocks
  <2> QED
    BY <2>10, <2>11 DEF StreamSound
<1>8. CASE ~trGone /\ trMode = "chat"
  <2> DEFINE stop == IF trState.tools THEN "tool_calls" ELSE "stop"
             o == BuildCompactResponse(items)
             calls == {items[i].pieces : i \in {i \in DOMAIN items :
                                                   items[i].kind = "function_call" /\ ~items[i].open}}
             blocks == trClient'.blocks
  <2>1. Translate(trState, e) =
           Written(trState, <<[type |-> "finish", stop |-> stop], [type |-> "message_stop"]>>)
    BY DEF Translate
  <2>2. /\ Translator(trState) /\ InChat(trClient, trState, items)
        /\ TellsChat(trClient, trState, items)
    BY <1>1, <1>8, TellingIs
  <2>3. stop # "none"
    OBVIOUS
  <2>4. blocks = trClient.blocks /\ trClient'.text = trClient.text /\ trClient'.stop = stop
    <3> DEFINE d == Received(trClient, <<[type |-> "finish", stop |-> stop], [type |-> "message_stop"]>>)
    <3>1. trClient' = d
      BY <1>5, <1>8, <2>1 DEF Written
    <3> HIDE DEF stop
    <3>2. d.blocks = trClient.blocks /\ d.text = trClient.text /\ d.stop = stop
      BY <2>2, <2>3, FinishSays DEF InChat
    <3> HIDE DEF d
    <3> QED
      BY <3>1, <3>2
  <2>5. callsOf(trClient.blocks) = callsOf(items) /\ (trState.tools <=> callsOf(items) # <<>>)
    BY <2>2, ChatCalls
  <2>6. trClient.text = arrived(items)
    BY <2>2 DEF TellsChat
  <2>7. o.text = arrived(items) /\ o.calls = calls /\ o.stop = IF calls = {} THEN "stop" ELSE "tool_calls"
    BY DEF BuildCompactResponse
  <2>8. end = "completed" => ToSet(callsOf(items)) = calls
    <3> SUFFICES ASSUME end = "completed" PROVE ToSet(callsOf(items)) = calls
      OBVIOUS
    <3>1. \A i \in DOMAIN items : ~items[i].open
      BY <1>1 DEF openItems
    <3> HIDE DEF items
    <3>2. {i \in DOMAIN items : items[i].kind = "function_call" /\ ~items[i].open} =
             {i \in DOMAIN items : items[i].kind = "function_call"}
      BY <3>1
    <3>3. ToSet(callsOf(items)) =
             {items[i].pieces : i \in {i \in DOMAIN items : items[i].kind = "function_call"}}
      BY <1>2, CallSet, PiecedBlocks
    <3> QED
      BY <3>2, <3>3
  <2>9. callsOf(items) = <<>> <=> ToSet(callsOf(items)) = {}
    <3> DEFINE q == callsOf(items)
    <3>1. q \in Seq(Seq(Nat))
      <4>1. Pieced(SentItem) /\ items \in Seq(SentItem)
        BY <1>2, PiecedBlocks
      <4>2. [kind |-> "message", pieces |-> <<>>, open |-> TRUE] \in SentItem
        BY EmptySeq DEF SentItem, Kinds
      <4> QED
        BY <4>1, <4>2, CallsAdd
    <3> HIDE DEF q
    <3>2. q = <<>> <=> DOMAIN q = {}
      BY <3>1
    <3>3. DOMAIN q = {} <=> ToSet(q) = {}
      BY DEF ToSet
    <3> QED
      BY <3>2, <3>3 DEF q
  <2> HIDE DEF o, calls, blocks, items
  <2>10. end = "completed" => trClient'.stop = o.stop
    BY <2>4, <2>5, <2>7, <2>8, <2>9
  <2>11. StreamedAsBuffered'
    BY <1>3, <1>5, <1>8, <2>4, <2>5, <2>6, <2>7, <2>8, <2>10 DEF StreamedAsBuffered, o, blocks
  <2>12. AnnouncedCallsWhole'
    BY <1>1, <1>3, <1>4, <2>4, <2>5 DEF AnnouncedCallsWhole, blocks
  <2> QED
    BY <2>11, <2>12 DEF StreamSound
<1> QED
  BY <1>6, <1>7, <1>8 DEF TrInv

\* An attempt that starts tells nothing yet.
LEMMA NothingTold ==
  /\ Nothing.items \in Seq(SentItem) /\ Counted(Nothing.items) /\ NoAnswer.stop = "none"
  /\ Tells(NoAnswer, NewTranslator, Nothing.items)
  /\ TellsChat(NoAnswer, NewTranslator, Nothing.items)
<1>1. /\ Nothing.items = <<>> /\ NoAnswer.blocks = <<>> /\ NoAnswer.text = <<>> /\ NoAnswer.stop = "none"
      /\ NewTranslator.map = <<>> /\ NewTranslator.buffer = <<>> /\ NewTranslator.tools = FALSE
      /\ NewTranslator.open = FALSE
  BY DEF Nothing, NoAnswer, NewTranslator
<1>2. <<>> \in Seq(SentItem) /\ <<>> \in Seq(Block) /\ <<>> \in Seq(Nat) /\ DOMAIN <<>> = {}
  BY EmptySeq
<1>3. numbers(<<>>) = {}
  BY <1>2 DEF numbers
<1>4. Counted(<<>>)
  <2>1. 1..0 = {}
    OBVIOUS
  <2> QED
    BY <1>3, <2>1 DEF Counted
<1>5. arrived(<<>>) = <<>>
  <2>1. Cardinality(numbers(<<>>)) = 0
    BY <1>3, FS_EmptySet
  <2> DEFINE f == [k \in 1..Cardinality(numbers(<<>>)) |-> IF k \in SaidText(<<>>) THEN <<k>> ELSE <<>>]
  <2>2. arrived(<<>>) = FlattenSeq(f)
    BY DEF arrived, SaidText
  <2>3. f = <<>>
    <3>1. DOMAIN f = {} /\ f = [k \in DOMAIN f |-> f[k]]
      BY <2>1
    <3> HIDE DEF f
    <3> QED
      BY <3>1
  <2> QED
    BY <2>2, <2>3, FlattenedNone
<1>6. callsOf(<<>>) = <<>> /\ SaySame(<<>>, <<>>)
  BY NothingSaid DEF SaySame
<1>7. Tells(NoAnswer, NewTranslator, <<>>)
  BY <1>1, <1>2, <1>6 DEF Tells, Behind, Follows, OpenCall
<1>8. TellsChat(NoAnswer, NewTranslator, <<>>)
  BY <1>1, <1>2, <1>5, NumberedNone DEF TellsChat
<1> QED
  BY <1>1, <1>2, <1>4, <1>7, <1>8

\* The next attempt, after nothing, or the error.
LEMMA NextAttemptSound ==
  ASSUME TrInv, Telling, ~trTwice, ~trReturned, trUp.end = "none", ~trWrote, NextAttempt,
         UNCHANGED trTwice
  PROVE  SayInv'
<1>1. trMode' = trMode /\ trGone' = trGone /\ trTwice' = trTwice /\ trClient.stop = "none"
  BY DEF NextAttempt, Telling
<1>2. CASE trAttempt < TrAttempts
  <2>1. /\ trUp' = Nothing /\ trState' = NewTranslator /\ trClient' = trClient
        /\ trReturned' = trReturned
    BY <1>2 DEF NextAttempt
  <2>2. ~trGone => trClient' = NoAnswer
    BY <2>1 DEF TrInv, Relayed
  <2>3. Telling'
    BY <1>1, <2>1, <2>2, NothingTold DEF Telling
  <2>4. StreamSound'
    BY <1>1, <2>1 DEF StreamSound, StreamedAsBuffered, AnnouncedCallsWhole, Nothing
  <2> QED
    BY <2>3, <2>4 DEF SayInv
<1>3. CASE ~(trAttempt < TrAttempts)
  <2> DEFINE x == [trClient EXCEPT !.stop = "error", !.ended = TRUE,
                                   !.bad = @ \/ trClient.started \/ trClient.blocks # <<>>]
  <2>1. trReturned' = TRUE /\ trClient' = (IF trGone THEN trClient ELSE x) /\ trUp' = trUp
    BY <1>3 DEF NextAttempt
  <2>2. x.stop = "error"
    BY DEF TrInv, Client
  <2> HIDE DEF x
  <2>3. StreamSound'
    BY <1>1, <2>1, <2>2 DEF StreamSound, StreamedAsBuffered, AnnouncedCallsWhole
  <2> QED
    BY <2>1, <2>3 DEF SayInv
<1> QED
  BY <1>2, <1>3

\* response.failed.
LEMMA FailedSound ==
  ASSUME TrInv, TrInv', Telling, ~trTwice, NEW capacity, Failed(capacity)
  PROVE  SayInv'
<1>1. CASE capacity /\ ~trWrote
  BY <1>1, NextAttemptSound DEF Failed, Reading
<1>2. CASE ~(capacity /\ ~trWrote)
  <2> DEFINE e == [type |-> "failed"]
  <2>1. trUp' = [trUp EXCEPT !.end = "failed"] /\ Handle(e) /\ ~trReturned
    BY <1>2 DEF Failed, Reading
  <2>2. trUp'.end = "failed"
    BY <2>1 DEF TrInv, Upstream
  <2>3. /\ trReturned' = TRUE /\ trMode' = trMode /\ trGone' = trGone
        /\ trGone => trClient' = trClient
        /\ ~trGone /\ trMode = "messages" => trClient' = Received(trClient, translateEvent(trState, e).out)
        /\ ~trGone /\ trMode = "chat" => trClient' = Received(trClient, Translate(trState, e).out)
    <3>1. terminal(e)
      BY DEF terminal
    <3> HIDE DEF e
    <3> QED
      BY <2>1, <3>1 DEF Handle, deliver
  <2>4. trClient'.stop \in {"none", "end_turn", "error"}
    <3>1. CASE trGone
      BY <2>3, <3>1 DEF Telling
    <3>2. CASE ~trGone /\ trMode = "messages"
      <4>1. translateEvent(trState, e) = ends(trState, "end_turn")
        BY DEF translateEvent, handleFailed
      <4>2. Translator(trState) /\ InStep(trClient, trState) /\ Behind(trClient, trState, trUp.items)
        BY <2>1, <3>2, TellingIs DEF Tells
      <4>3. Received(trClient, ends(trState, "end_turn").out).stop = "end_turn"
        BY <4>2, EndsSay
      <4> QED
        BY <2>3, <3>2, <4>1, <4>3
    <3>3. CASE ~trGone /\ trMode = "chat"
      <4> DEFINE out == <<[type |-> "finish", stop |-> "error"], [type |-> "message_stop"]>>
      <4>1. Translate(trState, e).out = out
        BY DEF Translate, Written
      <4>2. InChat(trClient, trState, trUp.items)
        BY <2>1, <3>3, TellingIs
      <4>3. Received(trClient, out).stop = "error"
        BY <4>2, FinishSays DEF InChat
      <4> HIDE DEF out
      <4> QED
        BY <2>3, <3>3, <4>1, <4>3
    <3> QED
      BY <3>1, <3>2, <3>3 DEF TrInv
  <2>5. StreamSound'
    BY <2>2, <2>4 DEF StreamSound, StreamedAsBuffered, AnnouncedCallsWhole
  <2> QED
    BY <2>3, <2>5 DEF SayInv
<1> QED
  BY <1>1, <1>2

\* A stream that breaks: the completion of Messages announces no call.
LEMMA BreakSound ==
  ASSUME TrInv, Telling, ~trTwice, Break
  PROVE  SayInv'
<1> DEFINE final == finalize(trState).out
           done == IF trMode = "messages" /\ ~trGone THEN Received(trClient, final) ELSE trClient
           again == ~trWrote /\ ~trGone /\ trAttempt < TrAttempts
<1>1. /\ ~trReturned /\ trUp.end = "none"
      /\ trClient' = done /\ trMode' = trMode /\ trGone' = trGone
      /\ again => /\ trTwice' = (trMode = "messages")
                  /\ trUp' = Nothing /\ trState' = NewTranslator /\ trReturned' = trReturned
      /\ ~again => trReturned' = TRUE /\ trUp' = trUp
  BY DEF Break, Reading
<1>2. done.stop \in {"none", "end_turn"}
  <2>1. CASE trMode = "messages" /\ ~trGone
    <3>1. done = Received(trClient, ends(trState, "end_turn").out)
      BY <2>1 DEF finalize
    <3>2. Translator(trState) /\ InStep(trClient, trState) /\ Behind(trClient, trState, trUp.items)
      BY <1>1, <2>1, TellingIs DEF Tells
    <3>3. Received(trClient, ends(trState, "end_turn").out).stop = "end_turn"
      BY <3>2, EndsSay
    <3> QED
      BY <3>1, <3>3
  <2>2. CASE ~(trMode = "messages" /\ ~trGone)
    BY <2>2 DEF Telling
  <2> QED
    BY <2>1, <2>2
<1>3. ~(trMode = "messages" /\ ~trGone) => done = trClient
  OBVIOUS
<1> HIDE DEF done, final
<1>4. CASE again
  <2>1. trUp' = Nothing /\ trState' = NewTranslator /\ trTwice' = (trMode = "messages") /\ ~trGone /\ ~trWrote
    BY <1>1, <1>4
  <2>2. StreamSound'
    BY <1>1, <1>2, <2>1 DEF StreamSound, StreamedAsBuffered, AnnouncedCallsWhole, Nothing
  <2>3. ~trTwice' => Telling'
    <3> SUFFICES ASSUME trMode # "messages" PROVE Telling'
      BY <2>1
    <3>1. trClient' = NoAnswer
      BY <1>1, <1>3, <2>1 DEF TrInv, Relayed
    <3> QED
      BY <1>1, <2>1, <3>1, NothingTold DEF Telling
  <2> QED
    BY <2>2, <2>3 DEF SayInv
<1>5. CASE ~again
  <2>1. trReturned' = TRUE /\ trUp' = trUp
    BY <1>1, <1>5
  <2> HIDE DEF again
  <2>2. StreamSound'
    BY <1>1, <1>2, <2>1 DEF StreamSound, StreamedAsBuffered, AnnouncedCallsWhole
  <2> QED
    BY <2>1, <2>2 DEF SayInv
<1> QED
  BY <1>4, <1>5

\* A client that leaves is told nothing more.
LEMMA ClientGoneSound ==
  ASSUME Telling, ClientGone
  PROVE  SayInv'
<1>1. /\ trGone' /\ trClient' = trClient /\ trUp' = trUp
      /\ trClient.stop = "none"
  BY DEF ClientGone, Telling
<1>2. StreamSound'
  BY <1>1 DEF StreamSound, StreamedAsBuffered, AnnouncedCallsWhole
<1>3. Telling'
  BY <1>1 DEF Telling
<1> QED
  BY <1>2, <1>3 DEF SayInv

\* A step keeps what is said true.
LEMMA SayStep ==
  ASSUME TrInv, TrInv', SayInv, [StreamTranslateNext]_trVars
  PROVE  SayInv'
<1>1. CASE UNCHANGED trVars
  BY <1>1 DEF trVars, SayInv, Telling, StreamSound, StreamedAsBuffered, AnnouncedCallsWhole, openItems
<1>2. CASE StreamTranslateNext
  <2>1. ~trReturned
    BY <1>2 DEF StreamTranslateNext, Created, Break, ClientGone, Added, Delta, ContentDone, ItemDone,
                Completed, Failed, Reading
  <2>2. CASE trTwice
    <3>1. trTwice' /\ trMode = "messages"
      BY <1>2, <2>2 DEF TrInv, StreamTranslateNext, Created, Break, ClientGone, Added, Delta, ContentDone,
                        ItemDone, Completed, Failed, Handle
    <3> QED
      BY <3>1 DEF SayInv, StreamSound, StreamedAsBuffered, AnnouncedCallsWhole
  <2>3. CASE ~trTwice
    <3>1. Telling
      BY <2>1, <2>3 DEF SayInv
    <3> QED
      BY <1>2, <2>3, <3>1, CreatedSound, BreakSound, ClientGoneSound, AddedSound, DeltaSound,
         ContentDoneSound, ItemDoneSound, CompletedSound, FailedSound DEF StreamTranslateNext
  <2> QED
    BY <2>2, <2>3
<1> QED
  BY <1>1, <1>2

\* A streaming client has the text, the summary and the calls that the answer built at once
\* would have, and is told to run the calls only when it has all their arguments
\* (StreamedAsBuffered, AnnouncedCallsWhole): for answers of any length, through retries,
\* breaks and overlapping items.
THEOREM StreamSoundHolds == StreamTranslateSpec => []StreamSound
<1>1. StreamTranslateInit => TrInv /\ SayInv
  <2> SUFFICES ASSUME StreamTranslateInit PROVE SayInv
    BY StreamStarts
  <2>1. trUp = Nothing /\ trState = NewTranslator /\ trClient = NoAnswer
    BY DEF StreamTranslateInit
  <2>2. Telling
    BY <2>1, NothingTold DEF Telling
  <2>3. StreamSound
    BY <2>1, NothingTold DEF StreamSound, StreamedAsBuffered, AnnouncedCallsWhole, Nothing
  <2> QED
    BY <2>2, <2>3 DEF SayInv
<1>2. TrInv /\ [StreamTranslateNext]_trVars => TrInv'
  BY StreamStep
<1>3. TrInv /\ TrInv' /\ SayInv /\ [StreamTranslateNext]_trVars => SayInv'
  BY SayStep
<1>4. SayInv => StreamSound
  BY DEF SayInv
<1> QED
  BY <1>1, <1>2, <1>3, <1>4, PTL DEF StreamTranslateSpec

-----------------------------------------------------------------------------
(* RequestTranslate: InputSound. *)

\* What a function gives for the elements of a sequence, one after the other.
Each(s, g) == FlattenSeq([i \in DOMAIN s |-> g[s[i]]])

\* The function applied at every place is a sequence of sequences.
LEMMA EachMapped ==
  ASSUME NEW S, NEW T, NEW g \in [S -> Seq(T)], NEW s \in Seq(S)
  PROVE  [i \in DOMAIN s |-> g[s[i]]] \in Seq(Seq(T))
<1> DEFINE m == [i \in DOMAIN s |-> g[s[i]]]
<1>1. DOMAIN m = DOMAIN s /\ m = [i \in DOMAIN m |-> m[i]]
  OBVIOUS
<1>2. \A i \in DOMAIN s : m[i] \in Seq(T)
  BY LenProperties, ElementOfSeq
<1> HIDE DEF m
<1>3. m \in Seq(Seq(T))
  BY <1>1, <1>2, MappedType
<1> QED
  BY <1>3 DEF m

\* It is a sequence of what the function gives.
LEMMA EachType ==
  ASSUME NEW S, NEW T, NEW g \in [S -> Seq(T)], NEW s \in Seq(S)
  PROVE  Each(s, g) \in Seq(T)
<1> DEFINE m == [i \in DOMAIN s |-> g[s[i]]]
<1>1. m \in Seq(Seq(T))
  BY EachMapped
<1> HIDE DEF m
<1>2. FlattenSeq(m) \in Seq(T)
  BY <1>1, FlattenedType
<1> QED
  BY <1>2 DEF Each, m

\* Nothing gives nothing.
LEMMA EachNone ==
  ASSUME NEW g
  PROVE  Each(<<>>, g) = <<>>
<1> DEFINE m == [i \in DOMAIN <<>> |-> g[<<>>[i]]]
<1>1. m = <<>>
  OBVIOUS
<1>2. FlattenSeq(m) = <<>>
  BY <1>1, FlattenedNone
<1> QED
  BY <1>2 DEF Each

\* An element more.
LEMMA EachAdd ==
  ASSUME NEW S, NEW T, NEW g \in [S -> Seq(T)], NEW s \in Seq(S), NEW x \in S
  PROVE  Each(Append(s, x), g) = Each(s, g) \o g[x]
<1> DEFINE a == Append(s, x)
           m == [i \in DOMAIN s |-> g[s[i]]]
           n == [i \in DOMAIN a |-> g[a[i]]]
           v == n[Len(s) + 1]
<1>1. /\ a \in Seq(S) /\ Len(a) = Len(s) + 1 /\ Len(s) \in Nat
      /\ a[Len(s) + 1] = x /\ \A i \in 1..Len(s) : a[i] = s[i]
  BY AppendProperties, LenProperties
<1>2. DOMAIN s = 1..Len(s) /\ DOMAIN a = 1..(Len(s) + 1)
  BY <1>1, LenProperties
<1>3. v = g[x] /\ v \in Seq(T)
  BY <1>1, <1>2
<1>4. \A i \in DOMAIN s : n[i] = m[i] /\ m[i] \in Seq(T)
  BY <1>1, <1>2, ElementOfSeq
<1>5. /\ DOMAIN m = DOMAIN s /\ m = [i \in DOMAIN m |-> m[i]]
      /\ DOMAIN n = DOMAIN Append(s, x) /\ n = [i \in DOMAIN n |-> n[i]]
  OBVIOUS
<1> HIDE DEF m, n
<1>6. n = Append(m, n[Len(s) + 1]) /\ m \in Seq(Seq(T))
  BY <1>3, <1>4, <1>5, MappedAdd
<1>7. FlattenSeq(n) = FlattenSeq(m) \o v
  BY <1>3, <1>6, FlattenedAdd
<1> QED
  BY <1>3, <1>7 DEF Each, m, n, a

\* One element.
LEMMA EachOne ==
  ASSUME NEW S, NEW T, NEW g \in [S -> Seq(T)], NEW x \in S
  PROVE  Each(<<x>>, g) = g[x]
<1>1. <<>> \in Seq(S) /\ <<x>> = Append(<<>>, x)
  BY EmptySeq
<1>2. Each(<<x>>, g) = Each(<<>>, g) \o g[x]
  BY <1>1, EachAdd
<1> QED
  BY <1>2, EachNone, ConcatEmptySeq

\* Two sequences, one after the other.
LEMMA EachJoin ==
  ASSUME NEW S, NEW T, NEW g \in [S -> Seq(T)], NEW s \in Seq(S)
  PROVE  \A t \in Seq(S) : Each(s \o t, g) = Each(s, g) \o Each(t, g)
<1> DEFINE P == {t \in Seq(S) : Each(s \o t, g) = Each(s, g) \o Each(t, g)}
<1>0. Each(s, g) \in Seq(T)
  BY EachType
<1>1. <<>> \in P
  BY <1>0, EachNone, EmptySeq, ConcatEmptySeq
<1>2. ASSUME NEW t \in Seq(S), t \in P, NEW x \in S PROVE Append(t, x) \in P
  <2>1. Append(t, x) \in Seq(S) /\ s \o t \in Seq(S) /\ Each(t, g) \in Seq(T) /\ g[x] \in Seq(T)
    BY AppendProperties, ConcatProperties, EachType
  <2>2. s \o Append(t, x) = Append(s \o t, x)
    OBVIOUS
  <2>3. Each(Append(s \o t, x), g) = Each(s \o t, g) \o g[x]
    BY <2>1, EachAdd
  <2>4. Each(Append(t, x), g) = Each(t, g) \o g[x]
    BY EachAdd
  <2>5. (Each(s, g) \o Each(t, g)) \o g[x] = Each(s, g) \o (Each(t, g) \o g[x])
    BY <1>0, <2>1, ConcatAssociative
  <2>6. Each(s \o t, g) = Each(s, g) \o Each(t, g)
    BY <1>2
  <2> QED
    BY <2>1, <2>2, <2>3, <2>4, <2>5, <2>6
<1> HIDE DEF P
<1>3. \A t \in Seq(S) : t \in P
  BY <1>1, <1>2, SequencesByAppend
<1> QED
  BY <1>3 DEF P

\* One function after another.
After(S, T, U, g, h, k) ==
    /\ g \in [S -> Seq(T)] /\ h \in [T -> Seq(U)] /\ k \in [S -> Seq(U)]
    /\ \A x \in S : Each(g[x], h) = k[x]

\* What they give together.
LEMMA EachOfEach ==
  ASSUME NEW S, NEW T, NEW U, NEW g, NEW h, NEW k, After(S, T, U, g, h, k)
  PROVE  \A s \in Seq(S) : Each(Each(s, g), h) = Each(s, k)
<1>0. /\ g \in [S -> Seq(T)] /\ h \in [T -> Seq(U)] /\ k \in [S -> Seq(U)]
      /\ \A x \in S : Each(g[x], h) = k[x]
  BY DEF After
<1> DEFINE P == {s \in Seq(S) : Each(Each(s, g), h) = Each(s, k)}
<1>1. <<>> \in P
  BY EachNone, EmptySeq
<1>2. ASSUME NEW s \in Seq(S), s \in P, NEW x \in S PROVE Append(s, x) \in P
  <2>1. Each(s, g) \in Seq(T) /\ g[x] \in Seq(T) /\ Append(s, x) \in Seq(S)
    BY <1>0, EachType, AppendProperties
  <2>2. Each(Append(s, x), g) = Each(s, g) \o g[x]
    BY <1>0, EachAdd
  <2>3. Each(Append(s, x), k) = Each(s, k) \o k[x]
    BY <1>0, EachAdd
  <2>4. Each(Each(s, g) \o g[x], h) = Each(Each(s, g), h) \o Each(g[x], h)
    <3> DEFINE e == Each(s, g)
               d == g[x]
    <3>1. e \in Seq(T) /\ d \in Seq(T)
      BY <2>1
    <3> HIDE DEF e, d
    <3>2. Each(e \o d, h) = Each(e, h) \o Each(d, h)
      <4>1. h \in [T -> Seq(U)]
        BY <1>0
      <4> QED
        BY <3>1, <4>1, EachJoin
    <3> QED
      BY <3>2 DEF e, d
  <2>5. Each(Each(s, g), h) = Each(s, k)
    BY <1>2
  <2> QED
    BY <1>0, <2>1, <2>2, <2>3, <2>4, <2>5
<1> HIDE DEF P
<1>3. \A s \in Seq(S) : s \in P
  BY <1>1, <1>2, SequencesByAppend
<1> QED
  BY <1>3 DEF P

\* A function that gives one element each.
Singles(S, T, h, g) == h \in [S -> T] /\ g \in [S -> Seq(T)] /\ \A x \in S : g[x] = <<h[x]>>

\* It only replaces the elements.
LEMMA EachSingle ==
  ASSUME NEW S, NEW T, NEW h, NEW g, Singles(S, T, h, g)
  PROVE  \A s \in Seq(S) : Each(s, g) = [i \in DOMAIN s |-> h[s[i]]]
<1>0. h \in [S -> T] /\ g \in [S -> Seq(T)] /\ \A x \in S : g[x] = <<h[x]>>
  BY DEF Singles
<1> DEFINE P == {s \in Seq(S) : Each(s, g) = [i \in DOMAIN s |-> h[s[i]]]}
<1>1. <<>> \in P
  <2>1. [i \in DOMAIN <<>> |-> h[<<>>[i]]] = <<>>
    OBVIOUS
  <2> QED
    BY <2>1, EachNone, EmptySeq
<1>2. ASSUME NEW s \in Seq(S), s \in P, NEW x \in S PROVE Append(s, x) \in P
  <2> DEFINE a == Append(s, x)
             m == [i \in DOMAIN s |-> h[s[i]]]
             n == [i \in DOMAIN a |-> h[a[i]]]
  <2>1. /\ a \in Seq(S) /\ Len(a) = Len(s) + 1 /\ Len(s) \in Nat
        /\ a[Len(s) + 1] = x /\ \A i \in 1..Len(s) : a[i] = s[i]
    BY AppendProperties, LenProperties
  <2>2. DOMAIN s = 1..Len(s) /\ DOMAIN a = 1..(Len(s) + 1)
    BY <2>1, LenProperties
  <2>3. n[Len(s) + 1] = h[x] /\ n[Len(s) + 1] \in T
    BY <1>0, <2>1, <2>2
  <2>4. \A i \in DOMAIN s : n[i] = m[i] /\ m[i] \in T
    BY <1>0, <2>1, <2>2, ElementOfSeq
  <2>5. /\ DOMAIN m = DOMAIN s /\ m = [i \in DOMAIN m |-> m[i]]
        /\ DOMAIN n = DOMAIN Append(s, x) /\ n = [i \in DOMAIN n |-> n[i]]
    OBVIOUS
  <2>6. Each(s, g) = m
    BY <1>2
  <2> HIDE DEF m, n
  <2>7. n = Append(m, n[Len(s) + 1]) /\ m \in Seq(T)
    BY <2>3, <2>4, <2>5, MappedAdd
  <2>8. Each(a, g) = Each(s, g) \o g[x]
    BY <1>0, EachAdd
  <2>9. m \o <<h[x]>> = Append(m, h[x])
    BY <2>7
  <2>10. Each(a, g) = n
    BY <1>0, <2>3, <2>6, <2>7, <2>8, <2>9
  <2> QED
    BY <2>1, <2>10 DEF n
<1> HIDE DEF P
<1>3. \A s \in Seq(S) : s \in P
  BY <1>1, <1>2, SequencesByAppend
<1> QED
  BY <1>3 DEF P
\* A list that a set is put into has every element once.
LEMMA ListsOfSet ==
  ASSUME NEW S, IsFiniteSet(S), NEW r \in SetToSeqs(S)
  PROVE  /\ r \in Seq(S) /\ Len(r) = Cardinality(S)
         /\ \A i, k \in DOMAIN r : r[i] = r[k] => i = k
         /\ \A x \in S : \E i \in DOMAIN r : r[i] = x
<1> DEFINE n == Cardinality(S)
           D == 1..n
<1>1. n \in Nat
  BY FS_CardinalityType
<1> HIDE DEF n
<1>2. r \in [D -> S] /\ \A i, k \in D : i # k => r[i] # r[k]
  BY DEF SetToSeqs, n
<1>3. r \in Seq(S) /\ DOMAIN r = D /\ Len(r) = n
  BY <1>1, <1>2, SeqDef, LenProperties
<1>4. IsFiniteSet(D) /\ Cardinality(D) = n
  BY <1>1, FS_Interval
<1>5. r \in Injection(D, S)
  BY <1>2 DEF Injection, IsInjective
<1>6. r \in Surjection(D, S)
  BY <1>4, <1>5, FS_Injection DEF n
<1> QED
  BY <1>2, <1>3, <1>6 DEF Surjection, n

\* The identifiers, the blocks of Messages, and the upstream's input items.
RtId == [fc : BOOLEAN, known : BOOLEAN, n : Nat]

RtBlock == [type : {"text", "thinking", "tool_use", "tool_result"}, id : RtId, text : Nat]

ItemTypes == {"message", "function_call", "function_call_output"}

InputItem == [type : ItemTypes, role : {"none", "user", "assistant"}, texts : Seq(Nat), ids : Seq(RtId)]

\* The identifiers of the items of a type.
Of(s, type) == {i \in DOMAIN s : s[i].type = type}

IdsOf(s, type) == {s[i].ids[1] : i \in Of(s, type)}

\* Without identifiers there are no items of the type.
LEMMA NoIds ==
  ASSUME NEW s, NEW type, IdsOf(s, type) = {}
  PROVE  Of(s, type) = {}
<1> SUFFICES ASSUME NEW i \in Of(s, type) PROVE FALSE
  OBVIOUS
<1>1. s[i].ids[1] \in IdsOf(s, type)
  BY DEF IdsOf
<1> QED
  BY <1>1

\* No two items of a type share an identifier.
Once(s, type) == \A i, k \in Of(s, type) : s[i].ids[1] = s[k].ids[1] => i = k

\* Every output comes after its call, and every call has an output.
Matched(s) ==
    /\ \A o \in Of(s, "function_call_output") : \E c \in Of(s, "function_call") :
          c < o /\ s[c].ids[1] = s[o].ids[1]
    /\ \A c \in Of(s, "function_call") : \E o \in Of(s, "function_call_output") :
          s[c].ids[1] = s[o].ids[1]

PairedIn(s) ==
    /\ Once(s, "function_call") /\ Once(s, "function_call_output")
    /\ Matched(s)

\* That is what upstream insists on.
LEMMA PairedInput ==
  ASSUME PairedIn(rtInput)
  PROVE  CallsPaired
BY DEF PairedIn, Once, Matched, Of, CallsPaired

\* The places of a type in two sequences, one after the other.
LEMMA OfJoin ==
  ASSUME NEW S, NEW s \in Seq(S), NEW t \in Seq(S), NEW type
  PROVE  /\ Len(s) \in Nat
         /\ \A i \in Of(s, type) : i \in 1..Len(s) /\ i \in Of(s \o t, type) /\ (s \o t)[i] = s[i]
         /\ \A k \in Of(t, type) :
               k \in Nat /\ k > 0 /\ Len(s) + k \in Of(s \o t, type) /\ (s \o t)[Len(s) + k] = t[k]
         /\ \A i \in Of(s \o t, type) :
               i \in Of(s, type) \/ \E k \in Of(t, type) : i = Len(s) + k
<1> DEFINE j == s \o t
           m == Len(s)
           n == Len(t)
<1>1. /\ j \in Seq(S) /\ Len(j) = m + n /\ m \in Nat /\ n \in Nat
      /\ \A i \in 1..(m + n) : j[i] = IF i <= m THEN s[i] ELSE t[i - m]
  BY ConcatProperties, LenProperties
<1> HIDE DEF j, m, n
<1>2. DOMAIN s = 1..m /\ DOMAIN t = 1..n /\ DOMAIN j = 1..(m + n)
  BY <1>1, LenProperties DEF m, n
<1>3. ASSUME NEW i \in Of(s, type) PROVE i \in 1..m /\ i \in Of(j, type) /\ j[i] = s[i]
  BY <1>1, <1>2, <1>3 DEF Of
<1>4. ASSUME NEW k \in Of(t, type)
      PROVE  k \in Nat /\ k > 0 /\ m + k \in Of(j, type) /\ j[m + k] = t[k]
  <2>1. k \in 1..n /\ t[k].type = type
    BY <1>2 DEF Of
  <2>2. m + k \in 1..(m + n) /\ (m + k) - m = k /\ ~(m + k <= m)
    BY <1>1, <2>1
  <2>3. j[m + k] = t[k]
    BY <1>1, <2>2
  <2> QED
    BY <1>2, <2>1, <2>2, <2>3 DEF Of
<1>5. ASSUME NEW i \in Of(j, type)
      PROVE  i \in Of(s, type) \/ \E k \in Of(t, type) : i = m + k
  <2>1. i \in 1..(m + n) /\ j[i].type = type
    BY <1>2 DEF Of
  <2>2. CASE i <= m
    BY <1>1, <1>2, <2>1, <2>2 DEF Of
  <2>3. CASE ~(i <= m)
    <3>1. i - m \in 1..n /\ i = m + (i - m)
      BY <1>1, <2>1, <2>3
    <3>2. j[i] = t[i - m]
      BY <1>1, <2>1, <2>3
    <3> QED
      BY <1>2, <2>1, <3>1, <3>2 DEF Of
  <2> QED
    BY <2>2, <2>3
<1> QED
  BY <1>1, <1>3, <1>4, <1>5 DEF j, m

\* The identifiers of both.
LEMMA IdsJoin ==
  ASSUME NEW S, NEW s \in Seq(S), NEW t \in Seq(S), NEW type
  PROVE  IdsOf(s \o t, type) = IdsOf(s, type) \cup IdsOf(t, type)
<1> DEFINE j == s \o t
<1>1. /\ \A i \in Of(s, type) : i \in Of(j, type) /\ j[i] = s[i]
      /\ \A k \in Of(t, type) : Len(s) + k \in Of(j, type) /\ j[Len(s) + k] = t[k]
      /\ \A i \in Of(j, type) : i \in Of(s, type) \/ \E k \in Of(t, type) : i = Len(s) + k
  BY OfJoin
<1> HIDE DEF j
<1>2. ASSUME NEW d \in IdsOf(j, type) PROVE d \in IdsOf(s, type) \cup IdsOf(t, type)
  <2>1. PICK i \in Of(j, type) : d = j[i].ids[1]
    BY DEF IdsOf
  <2>2. CASE i \in Of(s, type)
    BY <1>1, <2>1, <2>2 DEF IdsOf
  <2>3. CASE \E k \in Of(t, type) : i = Len(s) + k
    BY <1>1, <2>1, <2>3 DEF IdsOf
  <2> QED
    BY <1>1, <2>2, <2>3
<1>3. ASSUME NEW d \in IdsOf(s, type) PROVE d \in IdsOf(j, type)
  <2>1. PICK i \in Of(s, type) : d = s[i].ids[1]
    BY DEF IdsOf
  <2>2. i \in Of(j, type) /\ d = j[i].ids[1]
    BY <1>1, <2>1
  <2> QED
    BY <2>2 DEF IdsOf
<1>4. ASSUME NEW d \in IdsOf(t, type) PROVE d \in IdsOf(j, type)
  <2>1. PICK k \in Of(t, type) : d = t[k].ids[1]
    BY DEF IdsOf
  <2>2. Len(s) + k \in Of(j, type) /\ d = j[Len(s) + k].ids[1]
    BY <1>1, <2>1
  <2> QED
    BY <2>2 DEF IdsOf
<1> QED
  BY <1>2, <1>3, <1>4 DEF j

\* Two sequences that share no identifier.
LEMMA OnceJoin ==
  ASSUME NEW S, NEW s \in Seq(S), NEW t \in Seq(S), NEW type, Once(s, type), Once(t, type),
         \A d \in IdsOf(s, type) : d \notin IdsOf(t, type)
  PROVE  Once(s \o t, type)
<1> DEFINE j == s \o t
<1>1. /\ \A i \in Of(s, type) : i \in Of(j, type) /\ j[i] = s[i]
      /\ \A k \in Of(t, type) : Len(s) + k \in Of(j, type) /\ j[Len(s) + k] = t[k]
      /\ \A i \in Of(j, type) : i \in Of(s, type) \/ \E k \in Of(t, type) : i = Len(s) + k
  BY OfJoin
<1> HIDE DEF j
<1> SUFFICES ASSUME NEW i \in Of(j, type), NEW k \in Of(j, type), j[i].ids[1] = j[k].ids[1]
             PROVE  i = k
  BY DEF Once, j
<1>2. ASSUME NEW a \in Of(s, type), NEW b \in Of(t, type) PROVE s[a].ids[1] # t[b].ids[1]
  BY DEF IdsOf
<1> QED
  BY <1>1, <1>2 DEF Once

\* Pairs after pairs, with other identifiers.
LEMMA PairedJoin ==
  ASSUME NEW S, NEW s \in Seq(S), NEW t \in Seq(S), PairedIn(s), PairedIn(t),
         \A type \in {"function_call", "function_call_output"} :
             \A d \in IdsOf(s, type) : d \notin IdsOf(t, type)
  PROVE  PairedIn(s \o t)
<1>1. Once(s \o t, "function_call")
  BY OnceJoin DEF PairedIn
<1>2. Once(s \o t, "function_call_output")
  BY OnceJoin DEF PairedIn
<1>3. Matched(s \o t)
  <2> DEFINE j == s \o t
             m == Len(s)
  <2>1. ASSUME NEW type
        PROVE  /\ m \in Nat
               /\ \A i \in Of(s, type) : i \in 1..m /\ i \in Of(j, type) /\ j[i] = s[i]
               /\ \A k \in Of(t, type) : k \in Nat /\ k > 0 /\ m + k \in Of(j, type) /\ j[m + k] = t[k]
               /\ \A i \in Of(j, type) : i \in Of(s, type) \/ \E k \in Of(t, type) : i = m + k
    BY OfJoin
  <2> HIDE DEF j, m
  <2>2. ASSUME NEW o \in Of(j, "function_call_output")
        PROVE  \E c \in Of(j, "function_call") : c < o /\ j[c].ids[1] = j[o].ids[1]
    <3>1. CASE o \in Of(s, "function_call_output")
      <4>1. PICK c \in Of(s, "function_call") : c < o /\ s[c].ids[1] = s[o].ids[1]
        BY <3>1 DEF PairedIn, Matched
      <4>2. c \in Of(j, "function_call") /\ j[c] = s[c] /\ j[o] = s[o]
        BY <2>1, <3>1
      <4> QED
        BY <4>1, <4>2
    <3>2. CASE \E k \in Of(t, "function_call_output") : o = m + k
      <4>1. PICK k \in Of(t, "function_call_output") : o = m + k
        BY <3>2
      <4>2. PICK c \in Of(t, "function_call") : c < k /\ t[c].ids[1] = t[k].ids[1]
        BY DEF PairedIn, Matched
      <4>3. /\ m + c \in Of(j, "function_call") /\ j[m + c] = t[c] /\ j[o] = t[k]
            /\ c \in Nat /\ k \in Nat /\ m \in Nat
        BY <2>1, <4>1
      <4>4. m + c < o
        BY <4>1, <4>2, <4>3
      <4> QED
        BY <4>2, <4>3, <4>4
    <3> QED
      BY <2>1, <3>1, <3>2
  <2>3. ASSUME NEW c \in Of(j, "function_call")
        PROVE  \E o \in Of(j, "function_call_output") : j[c].ids[1] = j[o].ids[1]
    <3>1. CASE c \in Of(s, "function_call")
      <4>1. PICK o \in Of(s, "function_call_output") : s[c].ids[1] = s[o].ids[1]
        BY <3>1 DEF PairedIn, Matched
      <4>2. o \in Of(j, "function_call_output") /\ j[c] = s[c] /\ j[o] = s[o]
        BY <2>1, <3>1
      <4> QED
        BY <4>1, <4>2
    <3>2. CASE \E k \in Of(t, "function_call") : c = m + k
      <4>1. PICK k \in Of(t, "function_call") : c = m + k
        BY <3>2
      <4>2. PICK o \in Of(t, "function_call_output") : t[k].ids[1] = t[o].ids[1]
        BY DEF PairedIn, Matched
      <4>3. m + o \in Of(j, "function_call_output") /\ j[c] = t[k] /\ j[m + o] = t[o]
        BY <2>1, <4>1
      <4> QED
        BY <4>2, <4>3
    <3> QED
      BY <2>1, <3>1, <3>2
  <2> QED
    BY <2>2, <2>3 DEF Matched, j
<1> QED
  BY <1>1, <1>2, <1>3 DEF PairedIn

\* The calls of an answer, then the outputs for them.
LEMMA PairedOutputs ==
  ASSUME NEW S, NEW s \in Seq(S), NEW t \in Seq(S),
         Once(s, "function_call"), Of(s, "function_call_output") = {},
         Once(t, "function_call_output"), Of(t, "function_call") = {},
         IdsOf(s, "function_call") = IdsOf(t, "function_call_output")
  PROVE  PairedIn(s \o t)
<1>0. /\ IdsOf(s, "function_call_output") = {} /\ IdsOf(t, "function_call") = {}
      /\ Once(s, "function_call_output") /\ Once(t, "function_call")
  BY DEF IdsOf, Once
<1>1. Once(s \o t, "function_call")
  BY <1>0, OnceJoin
<1>2. Once(s \o t, "function_call_output")
  BY <1>0, OnceJoin
<1>3. Matched(s \o t)
  <2> DEFINE j == s \o t
             m == Len(s)
  <2>1. ASSUME NEW type
        PROVE  /\ m \in Nat
               /\ \A i \in Of(s, type) : i \in 1..m /\ i \in Of(j, type) /\ j[i] = s[i]
               /\ \A k \in Of(t, type) : k \in Nat /\ k > 0 /\ m + k \in Of(j, type) /\ j[m + k] = t[k]
               /\ \A i \in Of(j, type) : i \in Of(s, type) \/ \E k \in Of(t, type) : i = m + k
    BY OfJoin
  <2> HIDE DEF j, m
  <2>2. ASSUME NEW o \in Of(j, "function_call_output")
        PROVE  \E c \in Of(j, "function_call") : c < o /\ j[c].ids[1] = j[o].ids[1]
    <3>1. PICK k \in Of(t, "function_call_output") : o = m + k
      BY <2>1
    <3>2. t[k].ids[1] \in IdsOf(s, "function_call")
      BY DEF IdsOf
    <3>3. PICK c \in Of(s, "function_call") : s[c].ids[1] = t[k].ids[1]
      BY <3>2 DEF IdsOf
    <3>4. c \in 1..m /\ k \in Nat /\ k > 0 /\ m \in Nat
      BY <2>1
    <3>5. c < o
      BY <3>1, <3>4
    <3>6. c \in Of(j, "function_call") /\ j[c] = s[c] /\ j[o] = t[k]
      BY <2>1, <3>1
    <3> QED
      BY <3>3, <3>5, <3>6
  <2>3. ASSUME NEW c \in Of(j, "function_call")
        PROVE  \E o \in Of(j, "function_call_output") : j[c].ids[1] = j[o].ids[1]
    <3>1. c \in Of(s, "function_call") /\ j[c] = s[c]
      BY <2>1
    <3>2. s[c].ids[1] \in IdsOf(t, "function_call_output")
      BY <3>1 DEF IdsOf
    <3>3. PICK k \in Of(t, "function_call_output") : t[k].ids[1] = s[c].ids[1]
      BY <3>2 DEF IdsOf
    <3> QED
      BY <2>1, <3>1, <3>3
  <2> QED
    BY <2>2, <2>3 DEF Matched, j
<1> QED
  BY <1>1, <1>2, <1>3 DEF PairedIn
\* The identifiers of items, from those that each element gives.
LEMMA EachIds ==
  ASSUME NEW S, NEW g \in [S -> Seq(InputItem)], NEW type
  PROVE  \A s \in Seq(S) :
            \A d : d \in IdsOf(Each(s, g), type) <=> \E i \in DOMAIN s : d \in IdsOf(g[s[i]], type)
<1> DEFINE P == {s \in Seq(S) : \A d : d \in IdsOf(Each(s, g), type)
                                         <=> \E i \in DOMAIN s : d \in IdsOf(g[s[i]], type)}
<1>1. <<>> \in P
  <2>1. DOMAIN <<>> = {} /\ IdsOf(<<>>, type) = {}
    BY DEF IdsOf, Of
  <2> QED
    BY <2>1, EachNone, EmptySeq
<1>2. ASSUME NEW s \in Seq(S), s \in P, NEW x \in S PROVE Append(s, x) \in P
  <2> DEFINE a == Append(s, x)
             m == Len(s)
  <2>1. /\ a \in Seq(S) /\ Len(a) = m + 1 /\ m \in Nat
        /\ a[m + 1] = x /\ \A i \in 1..m : a[i] = s[i]
    BY AppendProperties, LenProperties
  <2>2. DOMAIN s = 1..m /\ DOMAIN a = 1..(m + 1)
    BY <2>1, LenProperties
  <2> HIDE DEF a, m
  <2>3. Each(a, g) = Each(s, g) \o g[x]
    BY EachAdd DEF a
  <2>4. IdsOf(Each(a, g), type) = IdsOf(Each(s, g), type) \cup IdsOf(g[x], type)
    <3>1. Each(s, g) \in Seq(InputItem) /\ g[x] \in Seq(InputItem)
      BY EachType
    <3> QED
      BY <2>3, <3>1, IdsJoin
  <2>5. \A d : d \in IdsOf(Each(s, g), type) <=> \E i \in DOMAIN s : d \in IdsOf(g[s[i]], type)
    BY <1>2
  <2>6. DOMAIN a = DOMAIN s \cup {m + 1} /\ \A i \in DOMAIN s : a[i] = s[i]
    BY <2>1, <2>2
  <2>7. ASSUME NEW d
        PROVE  d \in IdsOf(Each(a, g), type) <=> \E i \in DOMAIN a : d \in IdsOf(g[a[i]], type)
    <3>1. CASE d \in IdsOf(g[x], type)
      BY <2>1, <2>4, <2>6, <3>1
    <3>2. CASE d \notin IdsOf(g[x], type)
      BY <2>1, <2>4, <2>5, <2>6, <3>2
    <3> QED
      BY <3>1, <3>2
  <2> QED
    BY <2>1, <2>7 DEF a
<1> HIDE DEF P
<1>3. \A s \in Seq(S) : s \in P
  BY <1>1, <1>2, SequencesByAppend
<1> QED
  BY <1>3 DEF P

\* Elements that give items with different identifiers give every identifier once.
LEMMA EachOnce ==
  ASSUME NEW S, NEW g \in [S -> Seq(InputItem)], NEW type, \A x \in S : Once(g[x], type)
  PROVE  \A s \in Seq(S) :
            (\A i, k \in DOMAIN s : i # k => \A d \in IdsOf(g[s[i]], type) : d \notin IdsOf(g[s[k]], type))
            => Once(Each(s, g), type)
<1> DEFINE Apart(s) ==
             \A i, k \in DOMAIN s : i # k => \A d \in IdsOf(g[s[i]], type) : d \notin IdsOf(g[s[k]], type)
           P == {s \in Seq(S) : Apart(s) => Once(Each(s, g), type)}
<1>1. <<>> \in P
  <2>1. Once(<<>>, type)
    BY DEF Once, Of
  <2> QED
    BY <2>1, EachNone, EmptySeq
<1>2. ASSUME NEW s \in Seq(S), s \in P, NEW x \in S PROVE Append(s, x) \in P
  <2> DEFINE a == Append(s, x)
             m == Len(s)
  <2>1. /\ a \in Seq(S) /\ Len(a) = m + 1 /\ m \in Nat
        /\ a[m + 1] = x /\ \A i \in 1..m : a[i] = s[i]
    BY AppendProperties, LenProperties
  <2>2. DOMAIN s = 1..m /\ DOMAIN a = 1..(m + 1)
    BY <2>1, LenProperties
  <2>3. Apart(s) => Once(Each(s, g), type)
    BY <1>2
  <2> HIDE DEF a, m
  <2>4. ASSUME Apart(a) PROVE Once(Each(a, g), type)
    <3>1. Apart(s)
      <4>1. ASSUME NEW i \in DOMAIN s, NEW k \in DOMAIN s, i # k, NEW d \in IdsOf(g[s[i]], type)
            PROVE  d \notin IdsOf(g[s[k]], type)
        <5>1. i \in DOMAIN a /\ k \in DOMAIN a /\ a[i] = s[i] /\ a[k] = s[k]
          BY <2>1, <2>2
        <5>2. d \in IdsOf(g[a[i]], type)
          BY <4>1, <5>1
        <5>3. d \notin IdsOf(g[a[k]], type)
          BY <2>4, <4>1, <5>1, <5>2
        <5> QED
          BY <5>1, <5>3
      <4> QED
        BY <4>1
    <3>2. ASSUME NEW d \in IdsOf(Each(s, g), type) PROVE d \notin IdsOf(g[x], type)
      <4>1. PICK i \in DOMAIN s : d \in IdsOf(g[s[i]], type)
        BY EachIds
      <4>2. i \in DOMAIN a /\ m + 1 \in DOMAIN a /\ i # m + 1 /\ a[i] = s[i]
        BY <2>1, <2>2
      <4> QED
        BY <2>1, <2>4, <4>1, <4>2
    <3>3. Each(s, g) \in Seq(InputItem) /\ g[x] \in Seq(InputItem)
      BY EachType
    <3>4. Once(Each(s, g) \o g[x], type)
      BY <2>3, <3>1, <3>2, <3>3, OnceJoin
    <3>5. Each(a, g) = Each(s, g) \o g[x]
      BY EachAdd DEF a
    <3> QED
      BY <3>4, <3>5
  <2> QED
    BY <2>1, <2>4 DEF a
<1> HIDE DEF P
<1>3. \A s \in Seq(S) : s \in P
  BY <1>1, <1>2, SequencesByAppend
<1> QED
  BY <1>3 DEF P

\* A list of no item, and of one.
LEMMA NoItem ==
  ASSUME NEW type
  PROVE  Of(<<>>, type) = {} /\ IdsOf(<<>>, type) = {} /\ Once(<<>>, type)
BY DEF Of, IdsOf, Once

\* One item.
LEMMA OneItem ==
  ASSUME NEW x \in InputItem, NEW type
  PROVE  /\ <<x>> \in Seq(InputItem) /\ Once(<<x>>, type)
         /\ x.type = type => IdsOf(<<x>>, type) = {x.ids[1]}
         /\ x.type # type => Of(<<x>>, type) = {} /\ IdsOf(<<x>>, type) = {}
<1>1. <<x>> \in Seq(InputItem) /\ DOMAIN <<x>> = {1} /\ <<x>>[1] = x
  OBVIOUS
<1> DEFINE o == <<x>>
<1> HIDE DEF o
<1>2. o \in Seq(InputItem) /\ DOMAIN o = {1} /\ o[1] = x
  BY <1>1 DEF o
<1>3. Once(o, type)
  BY <1>2 DEF Once, Of
<1>4. ASSUME x.type = type PROVE IdsOf(o, type) = {x.ids[1]}
  <2>1. Of(o, type) = {1}
    BY <1>2, <1>4 DEF Of
  <2> QED
    BY <1>2, <2>1 DEF IdsOf
<1>5. ASSUME x.type # type PROVE Of(o, type) = {} /\ IdsOf(o, type) = {}
  BY <1>2, <1>5 DEF IdsOf, Of
<1> QED
  BY <1>2, <1>3, <1>4, <1>5 DEF o

\* The items, with their identifiers and texts.
LEMMA ItemKinds ==
  ASSUME NEW id \in RtId
  PROVE  /\ CallItem(id) \in InputItem /\ CallItem(id).type = "function_call"
         /\ CallItem(id).ids[1] = id /\ CallItem(id).texts = <<>>
         /\ OutputItem(id) \in InputItem /\ OutputItem(id).type = "function_call_output"
         /\ OutputItem(id).ids[1] = id /\ OutputItem(id).texts = <<>>
BY DEF CallItem, OutputItem, Item, InputItem, ItemTypes

\* The texts of an input list.
Texts == [x \in InputItem |-> x.texts]

\* They are texts.
LEMMA TextsType == Texts \in [InputItem -> Seq(Nat)]
BY DEF Texts, InputItem

\* The texts of two input lists, one after the other.
LEMMA TextsJoin ==
  ASSUME NEW s \in Seq(InputItem), NEW t \in Seq(InputItem)
  PROVE  /\ Each(s, Texts) \in Seq(Nat)
         /\ Each(s \o t, Texts) = Each(s, Texts) \o Each(t, Texts)
<1> DEFINE N == Nat
<1>1. Texts \in [InputItem -> Seq(N)]
  BY TextsType
<1> HIDE DEF N
<1>2. Each(s, Texts) \in Seq(N)
  BY <1>1, EachType
<1>3. Each(s \o t, Texts) = Each(s, Texts) \o Each(t, Texts)
  BY <1>1, EachJoin
<1> QED
  BY <1>2, <1>3 DEF N

\* A message has its texts and no identifier.
LEMMA MessageItemIs ==
  ASSUME NEW role \in {"user", "assistant"}, NEW texts \in Seq(Nat)
  PROVE  /\ MessageItem(role, texts) \in InputItem
         /\ MessageItem(role, texts).type = "message" /\ MessageItem(role, texts).texts = texts
BY DEF MessageItem, Item, InputItem, ItemTypes

\* A message has its texts and no identifiers; without texts there is none.
LEMMA MessageOfIs ==
  ASSUME NEW role \in {"user", "assistant"}, NEW texts \in Seq(Nat)
  PROVE  /\ messageOf(role, texts) \in Seq(InputItem)
         /\ Each(messageOf(role, texts), Texts) = texts
         /\ \A type \in {"function_call", "function_call_output"} :
               /\ Of(messageOf(role, texts), type) = {} /\ IdsOf(messageOf(role, texts), type) = {}
               /\ Once(messageOf(role, texts), type)
<1>1. CASE texts = <<>>
  BY <1>1, NoItem, EachNone, EmptySeq DEF messageOf
<1>2. CASE texts # <<>>
  <2> DEFINE x == MessageItem(role, texts)
  <2>1. x \in InputItem /\ x.type = "message" /\ x.texts = texts
    BY MessageItemIs
  <2>2. messageOf(role, texts) = <<x>>
    BY <1>2 DEF messageOf
  <2> HIDE DEF x
  <2>3. Each(<<x>>, Texts) = texts
    BY <2>1, TextsType, EachOne DEF Texts
  <2>4. <<x>> \in Seq(InputItem)
    BY <2>1
  <2>5. \A type \in {"function_call", "function_call_output"} :
           Of(<<x>>, type) = {} /\ IdsOf(<<x>>, type) = {} /\ Once(<<x>>, type)
    BY <2>1, OneItem
  <2> QED
    BY <2>2, <2>3, <2>4, <2>5
<1> QED
  BY <1>1, <1>2
\* A function at the places of a sequence, as a function of its elements.
LEMMA EachIs ==
  ASSUME NEW S, NEW s \in Seq(S), NEW g, NEW m, m = [i \in DOMAIN s |-> m[i]],
         \A i \in DOMAIN s : s[i] \in S => m[i] = g[s[i]]
  PROVE  FlattenSeq(m) = Each(s, g)
<1>1. \A i \in DOMAIN s : s[i] \in S
  BY LenProperties, ElementOfSeq
<1>2. m = [i \in DOMAIN s |-> g[s[i]]]
  BY <1>1
<1> QED
  BY <1>2 DEF Each

\* The text, the result and the identifier of a call that a block gives.
BlockText == [b \in RtBlock |-> IF b.type = "text" THEN <<b.text>> ELSE <<>>]

BlockResult == [b \in RtBlock |->
    IF b.type = "tool_result" THEN <<OutputItem(toCodexCallID(b.id))>> ELSE <<>>]

BlockCall == [b \in RtBlock |-> IF b.type = "tool_use" THEN <<b.id>> ELSE <<>>]

\* Identifiers keep their kind.
LEMMA CodexIds ==
  ASSUME NEW id \in RtId
  PROVE  /\ toCodexCallID(id) \in RtId /\ toCodexCallID(id).n = id.n
         /\ fromCodexCallID(id) \in RtId /\ fromCodexCallID(id).n = id.n
BY DEF toCodexCallID, fromCodexCallID, RtId

\* The three functions have their types.
LEMMA BlockTypes ==
  /\ BlockText \in [RtBlock -> Seq(Nat)]
  /\ BlockResult \in [RtBlock -> Seq(InputItem)]
  /\ BlockCall \in [RtBlock -> Seq(RtId)]
<1>1. \A b \in RtBlock : b.id \in RtId /\ b.text \in Nat
  BY DEF RtBlock
<1>2. BlockText \in [RtBlock -> Seq(Nat)]
  BY <1>1 DEF BlockText
<1>3. BlockCall \in [RtBlock -> Seq(RtId)]
  BY <1>1 DEF BlockCall
<1>4. \A b \in RtBlock : OutputItem(toCodexCallID(b.id)) \in InputItem
  BY <1>1, CodexIds, ItemKinds
<1>5. \A b \in RtBlock : <<OutputItem(toCodexCallID(b.id))>> \in Seq(InputItem)
  BY <1>4
<1>6. <<>> \in Seq(InputItem)
  BY EmptySeq
<1>7. BlockResult \in [RtBlock -> Seq(InputItem)]
  BY <1>5, <1>6 DEF BlockResult
<1> QED
  BY <1>2, <1>3, <1>7

\* The texts of blocks.
LEMMA TextsOfIs ==
  ASSUME NEW blocks \in Seq(RtBlock)
  PROVE  textsOf(blocks) = Each(blocks, BlockText) /\ textsOf(blocks) \in Seq(Nat)
<1> DEFINE m == [i \in DOMAIN blocks |-> IF blocks[i].type = "text" THEN <<blocks[i].text>> ELSE <<>>]
<1>1. m = [i \in DOMAIN blocks |-> m[i]]
  OBVIOUS
<1>2. \A i \in DOMAIN blocks : blocks[i] \in RtBlock => m[i] = BlockText[blocks[i]]
  BY DEF BlockText
<1>3. textsOf(blocks) = FlattenSeq(m)
  BY DEF textsOf
<1> HIDE DEF m
<1>4. textsOf(blocks) = Each(blocks, BlockText)
  BY <1>1, <1>2, <1>3, EachIs
<1> DEFINE N == Nat
<1>5. BlockText \in [RtBlock -> Seq(N)]
  BY BlockTypes
<1> HIDE DEF N
<1>6. Each(blocks, BlockText) \in Seq(N)
  BY <1>5, EachType
<1> QED
  BY <1>4, <1>6 DEF N

\* The identifiers of results are in the upstream's form.
Results(blocks) == {toCodexCallID(blocks[i].id) : i \in {i \in DOMAIN blocks : blocks[i].type = "tool_result"}}

Calls(blocks) == {toCodexCallID(blocks[i].id) : i \in {i \in DOMAIN blocks : blocks[i].type = "tool_use"}}

\* No two blocks of a type share a number.
Numbers(blocks, type) ==
    \A i, k \in DOMAIN blocks :
        blocks[i].type = type /\ blocks[k].type = type /\ blocks[i].id.n = blocks[k].id.n => i = k

\* A message of the user: its results as outputs, then its texts.
LEMMA UserBlocks ==
  ASSUME NEW blocks \in Seq(RtBlock)
  PROVE  /\ appendUserBlocks(blocks) \in Seq(InputItem)
         /\ Each(appendUserBlocks(blocks), Texts) = textsOf(blocks)
         /\ IdsOf(appendUserBlocks(blocks), "function_call") = {}
         /\ IdsOf(appendUserBlocks(blocks), "function_call_output") = Results(blocks)
         /\ Numbers(blocks, "tool_result") => Once(appendUserBlocks(blocks), "function_call_output")
<1> DEFINE m == [i \in DOMAIN blocks |->
                    IF blocks[i].type = "tool_result"
                    THEN <<OutputItem(toCodexCallID(blocks[i].id))>> ELSE <<>>]
           r == Each(blocks, BlockResult)
           t == messageOf("user", textsOf(blocks))
           out == "function_call_output"
<1>1. FlattenSeq(m) = r
  <2>1. m = [i \in DOMAIN blocks |-> m[i]]
    OBVIOUS
  <2>2. \A i \in DOMAIN blocks : blocks[i] \in RtBlock => m[i] = BlockResult[blocks[i]]
    BY DEF BlockResult
  <2> HIDE DEF m
  <2> QED
    BY <2>1, <2>2, EachIs
<1>2. appendUserBlocks(blocks) = r \o t
  BY <1>1 DEF appendUserBlocks
<1> HIDE DEF m
<1>3. textsOf(blocks) \in Seq(Nat)
  BY TextsOfIs
<1>4. /\ t \in Seq(InputItem) /\ Each(t, Texts) = textsOf(blocks)
      /\ \A type \in {"function_call", out} : IdsOf(t, type) = {} /\ Once(t, type)
  BY <1>3, MessageOfIs
<1>5. r \in Seq(InputItem)
  BY BlockTypes, EachType
<1>6. \A i \in DOMAIN blocks : blocks[i] \in RtBlock
  BY LenProperties, ElementOfSeq
<1>7. ASSUME NEW b \in RtBlock
      PROVE  /\ \A type : Once(BlockResult[b], type)
             /\ IdsOf(BlockResult[b], "function_call") = {}
             /\ IdsOf(BlockResult[b], out) =
                   IF b.type = "tool_result" THEN {toCodexCallID(b.id)} ELSE {}
             /\ Each(BlockResult[b], Texts) = <<>>
  <2> DEFINE d == toCodexCallID(b.id)
             x == OutputItem(d)
  <2>1. d \in RtId
    BY CodexIds DEF RtBlock
  <2>2. x \in InputItem /\ x.type = out /\ x.ids[1] = d /\ x.texts = <<>>
    BY <2>1, ItemKinds
  <2>3. BlockResult[b] = IF b.type = "tool_result" THEN <<x>> ELSE <<>>
    BY DEF BlockResult
  <2> HIDE DEF d, x
  <2>4. Each(<<x>>, Texts) = <<>>
    BY <2>2, TextsType, EachOne DEF Texts
  <2>5. /\ \A type : Once(<<x>>, type)
        /\ IdsOf(<<x>>, "function_call") = {}
        /\ IdsOf(<<x>>, out) = {d}
    <3>1. \A type : Once(<<x>>, type)
      BY <2>2, OneItem
    <3>2. x.type # "function_call"
      BY <2>2
    <3>3. IdsOf(<<x>>, "function_call") = {}
      BY <2>2, <3>2, OneItem
    <3>4. IdsOf(<<x>>, out) = {x.ids[1]}
      BY <2>2, OneItem
    <3> QED
      BY <2>2, <3>1, <3>3, <3>4
  <2>6. CASE b.type = "tool_result"
    BY <2>3, <2>4, <2>5, <2>6 DEF d
  <2>7. CASE b.type # "tool_result"
    BY <2>3, <2>7, NoItem, EachNone
  <2> QED
    BY <2>6, <2>7
<1>8. IdsOf(r, "function_call") = {}
  <2>1. \A d : d \in IdsOf(r, "function_call")
               <=> \E i \in DOMAIN blocks : d \in IdsOf(BlockResult[blocks[i]], "function_call")
    BY BlockTypes, EachIds
  <2> QED
    BY <1>6, <1>7, <2>1
<1>9. IdsOf(r, out) = Results(blocks)
  <2>1. \A d : d \in IdsOf(r, out) <=> \E i \in DOMAIN blocks : d \in IdsOf(BlockResult[blocks[i]], out)
    BY BlockTypes, EachIds
  <2>2. \A d : d \in IdsOf(r, out) <=>
               \E i \in DOMAIN blocks : blocks[i].type = "tool_result" /\ d = toCodexCallID(blocks[i].id)
    <3>1. ASSUME NEW d, NEW i \in DOMAIN blocks
          PROVE  d \in IdsOf(BlockResult[blocks[i]], out)
                    <=> blocks[i].type = "tool_result" /\ d = toCodexCallID(blocks[i].id)
      <4>1. IdsOf(BlockResult[blocks[i]], out) =
               IF blocks[i].type = "tool_result" THEN {toCodexCallID(blocks[i].id)} ELSE {}
        BY <1>6, <1>7
      <4> QED
        BY <4>1
    <3> HIDE DEF out, r
    <3> QED
      BY <2>1, <3>1
  <2> HIDE DEF r
  <2> QED
    BY <2>2 DEF Results
<1>10. ASSUME Numbers(blocks, "tool_result") PROVE Once(r, out)
  <2>1. ASSUME NEW i \in DOMAIN blocks, NEW k \in DOMAIN blocks, i # k,
               NEW d \in IdsOf(BlockResult[blocks[i]], out)
        PROVE  d \notin IdsOf(BlockResult[blocks[k]], out)
    <3> SUFFICES ASSUME d \in IdsOf(BlockResult[blocks[k]], out) PROVE FALSE
      OBVIOUS
    <3>1. /\ blocks[i].type = "tool_result" /\ d = toCodexCallID(blocks[i].id)
          /\ blocks[k].type = "tool_result" /\ d = toCodexCallID(blocks[k].id)
      BY <1>6, <1>7, <2>1
    <3>2. blocks[i].id \in RtId /\ blocks[k].id \in RtId
      BY <1>6 DEF RtBlock
    <3>3. blocks[i].id.n = blocks[k].id.n
      <4>1. toCodexCallID(blocks[i].id).n = blocks[i].id.n
        BY <3>2, CodexIds
      <4>2. toCodexCallID(blocks[k].id).n = blocks[k].id.n
        BY <3>2, CodexIds
      <4> QED
        BY <3>1, <4>1, <4>2
    <3> QED
      BY <1>10, <2>1, <3>1, <3>3 DEF Numbers
  <2>2. \A b \in RtBlock : Once(BlockResult[b], out)
    BY <1>7
  <2> QED
    BY <2>1, <2>2, BlockTypes, EachOnce
<1>11. Each(r, Texts) = <<>>
  <2> DEFINE k == [b \in RtBlock |-> <<>>]
             P == {s \in Seq(RtBlock) : Each(Each(s, BlockResult), Texts) = <<>>}
  <2>1. <<>> \in P
    BY EachNone, EmptySeq
  <2>2. ASSUME NEW s \in Seq(RtBlock), s \in P, NEW x \in RtBlock PROVE Append(s, x) \in P
    <3>1. Each(Append(s, x), BlockResult) = Each(s, BlockResult) \o BlockResult[x]
      BY BlockTypes, EachAdd
    <3>2. Each(s, BlockResult) \in Seq(InputItem) /\ BlockResult[x] \in Seq(InputItem)
      BY BlockTypes, EachType
    <3> DEFINE u == Each(s, BlockResult)
               v == BlockResult[x]
    <3> HIDE DEF u, v
    <3>3. Each(u \o v, Texts) = Each(u, Texts) \o Each(v, Texts)
      BY <3>2, TextsJoin DEF u, v
    <3>4. Each(u, Texts) = <<>> /\ Each(v, Texts) = <<>>
      BY <1>7, <2>2 DEF u, v
    <3>5. <<>> \o <<>> = <<>>
      OBVIOUS
    <3> QED
      BY <3>1, <3>3, <3>4, <3>5, AppendProperties DEF u, v
  <2> HIDE DEF P
  <2>3. \A s \in Seq(RtBlock) : s \in P
    BY <2>1, <2>2, SequencesByAppend
  <2> QED
    BY <2>3 DEF P
<1> HIDE DEF r, t
<1>12. r \o t \in Seq(InputItem)
  BY <1>4, <1>5, ConcatProperties
<1>13. Each(r \o t, Texts) = textsOf(blocks)
  <2>1. Each(r \o t, Texts) = Each(r, Texts) \o Each(t, Texts)
    BY <1>4, <1>5, TextsJoin
  <2> QED
    BY <1>3, <1>4, <1>11, <2>1, ConcatEmptySeq
<1>14. IdsOf(r \o t, "function_call") = {} /\ IdsOf(r \o t, out) = Results(blocks)
  <2>1. \A type : IdsOf(r \o t, type) = IdsOf(r, type) \cup IdsOf(t, type)
    BY <1>4, <1>5, IdsJoin
  <2> QED
    BY <1>4, <1>8, <1>9, <2>1
<1>15. ASSUME Numbers(blocks, "tool_result") PROVE Once(r \o t, out)
  BY <1>4, <1>5, <1>10, <1>15, OnceJoin
<1> QED
  BY <1>2, <1>12, <1>13, <1>14, <1>15
\* Nothing, however often, is nothing.
LEMMA EachEmpty ==
  ASSUME NEW S, NEW g, \A x \in S : g[x] = <<>>, DOMAIN g = S, g = [x \in DOMAIN g |-> g[x]]
  PROVE  \A s \in Seq(S) : Each(s, g) = <<>>
<1> DEFINE P == {s \in Seq(S) : Each(s, g) = <<>>}
<1>0. g \in [S -> Seq(Nat)]
  BY EmptySeq
<1>1. <<>> \in P
  BY EachNone, EmptySeq
<1>2. ASSUME NEW s \in Seq(S), s \in P, NEW x \in S PROVE Append(s, x) \in P
  <2>1. Each(Append(s, x), g) = Each(s, g) \o g[x]
    BY <1>0, EachAdd
  <2>2. <<>> \o <<>> = <<>>
    OBVIOUS
  <2> QED
    BY <1>2, <2>1, <2>2, AppendProperties
<1> HIDE DEF P
<1>3. \A s \in Seq(S) : s \in P
  BY <1>1, <1>2, SequencesByAppend
<1> QED
  BY <1>3 DEF P

\* The text that block k holds for block i.
HeldText(blocks, i, k) ==
    IF blocks[k].type = "text" /\ \A j \in k..(i - 1) : blocks[j].type # "tool_use"
    THEN <<blocks[k].text>> ELSE <<>>

\* A block more, and where the others are.
LEMMA BlockAppended ==
  ASSUME NEW blocks \in Seq(RtBlock), NEW x \in RtBlock
  PROVE  /\ Append(blocks, x) \in Seq(RtBlock) /\ Len(Append(blocks, x)) = Len(blocks) + 1
         /\ Len(blocks) \in Nat /\ Append(blocks, x)[Len(blocks) + 1] = x
         /\ DOMAIN blocks = 1..Len(blocks) /\ DOMAIN Append(blocks, x) = 1..(Len(blocks) + 1)
         /\ \A i \in 1..Len(blocks) : Append(blocks, x)[i] = blocks[i] /\ blocks[i] \in RtBlock
<1> DEFINE a == Append(blocks, x)
<1>1. /\ a \in Seq(RtBlock) /\ Len(a) = Len(blocks) + 1 /\ Len(blocks) \in Nat
      /\ a[Len(blocks) + 1] = x /\ \A i \in 1..Len(blocks) : a[i] = blocks[i]
  BY AppendProperties, LenProperties
<1> HIDE DEF a
<1>2. DOMAIN blocks = 1..Len(blocks) /\ DOMAIN a = 1..(Len(blocks) + 1)
  BY <1>1, LenProperties
<1>3. \A i \in 1..Len(blocks) : blocks[i] \in RtBlock
  BY ElementOfSeq
<1> QED
  BY <1>1, <1>2, <1>3 DEF a

\* The texts held are a sequence.
LEMMA PartsType ==
  ASSUME NEW blocks \in Seq(RtBlock), NEW i \in 1..(Len(blocks) + 1)
  PROVE  /\ textParts(blocks, i) = FlattenSeq([k \in 1..(i - 1) |-> HeldText(blocks, i, k)])
         /\ [k \in 1..(i - 1) |-> HeldText(blocks, i, k)] \in Seq(Seq(Nat))
         /\ textParts(blocks, i) \in Seq(Nat)
<1> DEFINE m == [k \in 1..(i - 1) |-> HeldText(blocks, i, k)]
           N == Nat
<1>1. textParts(blocks, i) = FlattenSeq(m)
  BY DEF textParts, HeldText
<1>2. Len(blocks) \in Nat /\ i \in Nat /\ i - 1 \in Nat
  BY LenProperties
<1>3. ASSUME NEW k \in 1..(i - 1) PROVE HeldText(blocks, i, k) \in Seq(N)
  <2>1. k \in 1..Len(blocks)
    BY <1>2
  <2>2. blocks[k].text \in N
    <3>1. blocks[k] \in RtBlock
      BY <2>1, ElementOfSeq
    <3> QED
      BY <3>1 DEF RtBlock
  <2> HIDE DEF N
  <2>3. <<blocks[k].text>> \in Seq(N) /\ <<>> \in Seq(N)
    BY <2>2
  <2> QED
    BY <2>3 DEF HeldText
<1>4. m \in [1..(i - 1) -> Seq(N)]
  BY <1>3
<1> HIDE DEF N, m
<1>5. m \in Seq(Seq(N))
  BY <1>2, <1>4, SeqDef
<1>6. FlattenSeq(m) \in Seq(N)
  BY <1>5, FlattenedType
<1> QED
  BY <1>1, <1>5, <1>6 DEF m, N

\* A block more leaves what the blocks before it hold.
LEMMA PartsSame ==
  ASSUME NEW blocks \in Seq(RtBlock), NEW x \in RtBlock, NEW i \in 1..(Len(blocks) + 1)
  PROVE  textParts(Append(blocks, x), i) = textParts(blocks, i)
<1> DEFINE a == Append(blocks, x)
           n == Len(blocks)
<1>1. n \in Nat /\ \A k \in 1..n : a[k] = blocks[k]
  BY BlockAppended
<1> HIDE DEF a, n
<1>2. i \in Nat /\ i - 1 <= n
  BY <1>1 DEF n
<1>3. ASSUME NEW k \in 1..(i - 1) PROVE HeldText(a, i, k) = HeldText(blocks, i, k)
  <2>1. \A j \in k..(i - 1) : a[j] = blocks[j]
    BY <1>1, <1>2
  <2>2. a[k] = blocks[k]
    BY <1>1, <1>2
  <2> QED
    BY <2>1, <2>2 DEF HeldText
<1>4. [k \in 1..(i - 1) |-> HeldText(a, i, k)] = [k \in 1..(i - 1) |-> HeldText(blocks, i, k)]
  BY <1>3
<1> QED
  BY <1>4 DEF textParts, HeldText, a

\* A text is held with those before it; a call has put them out; thinking changes nothing.
LEMMA PartsAdd ==
  ASSUME NEW blocks \in Seq(RtBlock), NEW x \in RtBlock
  PROVE  textParts(Append(blocks, x), Len(blocks) + 2) =
            IF x.type = "tool_use" THEN <<>>
            ELSE textParts(blocks, Len(blocks) + 1) \o BlockText[x]
<1> DEFINE a == Append(blocks, x)
           n == Len(blocks)
           m == [k \in 1..n |-> HeldText(blocks, n + 1, k)]
           p == [k \in 1..(n + 1) |-> HeldText(a, n + 2, k)]
           N == Nat
<1>1. /\ a \in Seq(RtBlock) /\ Len(a) = n + 1 /\ n \in Nat /\ a[n + 1] = x
      /\ DOMAIN blocks = 1..n /\ DOMAIN a = 1..(n + 1)
      /\ \A i \in 1..n : a[i] = blocks[i]
  BY BlockAppended
<1>2. textParts(a, n + 2) = FlattenSeq(p) /\ p \in Seq(Seq(N))
  <2> HIDE DEF a, n
  <2>1. n + 2 \in 1..(Len(a) + 1) /\ (n + 2) - 1 = n + 1
    BY <1>1
  <2> QED
    BY <1>1, <2>1, PartsType
<1>3. textParts(blocks, n + 1) = FlattenSeq(m) /\ m \in Seq(Seq(N))
  <2>1. n + 1 \in 1..(Len(blocks) + 1) /\ (n + 1) - 1 = n
    BY <1>1
  <2> QED
    BY <2>1, PartsType
<1>4. CASE x.type = "tool_use"
  <2> DEFINE z == [b \in RtBlock |-> <<>>]
  <2>1. \A k \in 1..(n + 1) : HeldText(a, n + 2, k) = <<>>
    <3> HIDE DEF a, n
    <3> SUFFICES ASSUME NEW k \in 1..(n + 1) PROVE HeldText(a, n + 2, k) = <<>>
      OBVIOUS
    <3>1. n + 1 \in k..((n + 2) - 1) /\ a[n + 1].type = "tool_use"
      BY <1>1, <1>4
    <3> QED
      BY <3>1 DEF HeldText
  <2>2. p = [k \in DOMAIN a |-> p[k]] /\ \A k \in DOMAIN a : a[k] \in RtBlock => p[k] = z[a[k]]
    BY <1>1, <2>1
  <2>3. DOMAIN z = RtBlock /\ (\A b \in RtBlock : z[b] = <<>>) /\ z = [b \in DOMAIN z |-> z[b]]
    OBVIOUS
  <2> HIDE DEF p, z, a
  <2>4. FlattenSeq(p) = Each(a, z)
    <3>1. \A k \in DOMAIN a : a[k] \in RtBlock
      BY <1>1, LenProperties, ElementOfSeq
    <3>2. p = [k \in DOMAIN a |-> z[a[k]]]
      BY <2>2, <3>1
    <3> QED
      BY <3>2 DEF Each
  <2>5. Each(a, z) = <<>>
    BY <1>1, <2>3, EachEmpty
  <2> QED
    BY <1>2, <1>4, <2>4, <2>5 DEF a
<1>5. CASE x.type # "tool_use"
  <2>1. p[n + 1] = BlockText[x]
    <3> HIDE DEF a, n
    <3>1. (n + 1)..((n + 2) - 1) = {n + 1}
      BY <1>1
    <3>2. HeldText(a, n + 2, n + 1) = BlockText[x]
      BY <1>1, <1>5, <3>1 DEF HeldText, BlockText
    <3> QED
      BY <1>1, <3>2
  <2>2. \A k \in 1..n : p[k] = m[k]
    <3> HIDE DEF a, n
    <3> SUFFICES ASSUME NEW k \in 1..n PROVE HeldText(a, n + 2, k) = HeldText(blocks, n + 1, k)
      BY <1>1
    <3>1. k..((n + 2) - 1) = k..((n + 1) - 1) \cup {n + 1} /\ a[k] = blocks[k]
      BY <1>1
    <3>2. \A j \in k..((n + 1) - 1) : a[j] = blocks[j]
      BY <1>1
    <3>3. (\A j \in k..((n + 2) - 1) : a[j].type # "tool_use")
             <=> \A j \in k..((n + 1) - 1) : blocks[j].type # "tool_use"
      BY <1>1, <1>5, <3>1, <3>2
    <3> QED
      BY <3>1, <3>3 DEF HeldText
  <2>3. /\ DOMAIN m = DOMAIN blocks /\ m = [k \in DOMAIN m |-> m[k]]
        /\ DOMAIN p = DOMAIN Append(blocks, x) /\ p = [k \in DOMAIN p |-> p[k]]
    BY <1>1
  <2> HIDE DEF p, m, N
  <2>4. BlockText[x] \in Seq(N)
    BY BlockTypes DEF N
  <2>5. \A k \in DOMAIN blocks : m[k] \in Seq(N)
    BY <1>3, <2>3, LenProperties, ElementOfSeq
  <2>6. p = Append(m, p[Len(blocks) + 1])
    BY <1>1, <2>1, <2>2, <2>3, <2>4, <2>5, MappedAdd
  <2>7. FlattenSeq(Append(m, BlockText[x])) = FlattenSeq(m) \o BlockText[x]
    BY <1>3, <2>4, FlattenedAdd
  <2> QED
    BY <1>2, <1>3, <1>5, <2>1, <2>6, <2>7
<1> QED
  BY <1>4, <1>5
\* What the message of an answer puts out up to its last call.
PutOut(blocks) ==
    FlattenSeq([i \in DOMAIN blocks |->
                    IF blocks[i].type = "tool_use"
                    THEN Append(messageOf("assistant", textParts(blocks, i)),
                                CallItem(toCodexCallID(blocks[i].id)))
                    ELSE <<>>])

\* The items of one call.
LEMMA CallItems ==
  ASSUME NEW texts \in Seq(Nat), NEW id \in RtId
  PROVE  LET t == messageOf("assistant", texts)
             c == CallItem(toCodexCallID(id))
         IN  /\ c \in InputItem /\ t \in Seq(InputItem) /\ Append(t, c) \in Seq(InputItem)
             /\ Each(Append(t, c), Texts) = texts
             /\ IdsOf(Append(t, c), "function_call") = {toCodexCallID(id)}
             /\ IdsOf(Append(t, c), "function_call_output") = {}
             /\ Once(Append(t, c), "function_call")
<1> DEFINE d == toCodexCallID(id)
           c == CallItem(d)
           t == messageOf("assistant", texts)
<1>1. d \in RtId
  BY CodexIds
<1>2. c \in InputItem /\ c.type = "function_call" /\ c.ids[1] = d /\ c.texts = <<>>
  BY <1>1, ItemKinds
<1>3. /\ t \in Seq(InputItem) /\ Each(t, Texts) = texts
      /\ \A type \in {"function_call", "function_call_output"} :
            Of(t, type) = {} /\ IdsOf(t, type) = {} /\ Once(t, type)
  BY MessageOfIs
<1> HIDE DEF c, t, d
<1>4. Append(t, c) = t \o <<c>> /\ <<c>> \in Seq(InputItem)
  BY <1>2, <1>3
<1>5. Append(t, c) \in Seq(InputItem)
  BY <1>2, <1>3, AppendProperties
<1>6. Each(<<c>>, Texts) = <<>>
  BY <1>2, TextsType, EachOne DEF Texts
<1>7. Each(t \o <<c>>, Texts) = texts
  <2>1. Each(t \o <<c>>, Texts) = Each(t, Texts) \o Each(<<c>>, Texts)
    BY <1>3, <1>4, TextsJoin
  <2>2. texts \o <<>> = texts
    OBVIOUS
  <2> QED
    BY <1>3, <1>6, <2>1, <2>2
<1>8. IdsOf(<<c>>, "function_call") = {d} /\ Once(<<c>>, "function_call")
  BY <1>2, OneItem
<1>9. IdsOf(<<c>>, "function_call_output") = {}
  BY <1>2, OneItem
<1>10. \A type : IdsOf(t \o <<c>>, type) = IdsOf(t, type) \cup IdsOf(<<c>>, type)
  <2> DEFINE q == <<c>>
  <2>1. q \in Seq(InputItem)
    BY <1>4
  <2> HIDE DEF q
  <2>2. \A type : IdsOf(t \o q, type) = IdsOf(t, type) \cup IdsOf(q, type)
    BY <1>3, <2>1, IdsJoin
  <2> QED
    BY <2>2 DEF q
<1>11. Once(t \o <<c>>, "function_call")
  BY <1>3, <1>4, <1>8, OnceJoin
<1>12. IdsOf(t \o <<c>>, "function_call") = {d} /\ IdsOf(t \o <<c>>, "function_call_output") = {}
  BY <1>3, <1>8, <1>9, <1>10
<1> QED
  BY <1>2, <1>3, <1>4, <1>5, <1>7, <1>11, <1>12 DEF c, t, d

\* A block more.
LEMMA PutOutAdd ==
  ASSUME NEW blocks \in Seq(RtBlock), NEW x \in RtBlock
  PROVE  /\ PutOut(blocks) \in Seq(InputItem)
         /\ PutOut(Append(blocks, x)) =
               IF x.type = "tool_use"
               THEN PutOut(blocks) \o Append(messageOf("assistant", textParts(blocks, Len(blocks) + 1)),
                                             CallItem(toCodexCallID(x.id)))
               ELSE PutOut(blocks) \o <<>>
<1> DEFINE F(b, i) == IF b[i].type = "tool_use"
                      THEN Append(messageOf("assistant", textParts(b, i)),
                                  CallItem(toCodexCallID(b[i].id)))
                      ELSE <<>>
           a == Append(blocks, x)
           k == Len(blocks)
           m == [i \in DOMAIN blocks |-> F(blocks, i)]
           n == [i \in DOMAIN a |-> F(a, i)]
<1>1. /\ a \in Seq(RtBlock) /\ Len(a) = k + 1 /\ k \in Nat /\ a[k + 1] = x
      /\ DOMAIN blocks = 1..k /\ DOMAIN a = 1..(k + 1)
      /\ \A i \in 1..k : a[i] = blocks[i] /\ blocks[i] \in RtBlock
  BY BlockAppended
<1>2. ASSUME NEW b \in Seq(RtBlock), NEW i \in DOMAIN b PROVE F(b, i) \in Seq(InputItem)
  <2>1. b[i] \in RtBlock /\ i \in 1..(Len(b) + 1)
    BY LenProperties, ElementOfSeq
  <2>2. textParts(b, i) \in Seq(Nat)
    BY <2>1, PartsType
  <2>3. b[i].id \in RtId
    BY <2>1 DEF RtBlock
  <2>4. Append(messageOf("assistant", textParts(b, i)), CallItem(toCodexCallID(b[i].id))) \in Seq(InputItem)
    BY <2>2, <2>3, CallItems
  <2>5. <<>> \in Seq(InputItem)
    BY EmptySeq
  <2> QED
    BY <2>4, <2>5
<1>3. /\ DOMAIN m = DOMAIN blocks /\ m = [i \in DOMAIN m |-> m[i]]
      /\ DOMAIN n = DOMAIN Append(blocks, x) /\ n = [i \in DOMAIN n |-> n[i]]
      /\ PutOut(blocks) = FlattenSeq(m) /\ PutOut(a) = FlattenSeq(n)
  BY DEF PutOut
<1>4. \A i \in DOMAIN blocks : n[i] = m[i] /\ m[i] \in Seq(InputItem)
  <2> SUFFICES ASSUME NEW i \in DOMAIN blocks PROVE n[i] = m[i] /\ m[i] \in Seq(InputItem)
    OBVIOUS
  <2>1. m[i] = F(blocks, i) /\ F(blocks, i) \in Seq(InputItem)
    BY <1>2
  <2>2. n[i] = F(a, i)
    BY <1>1
  <2>3. textParts(a, i) = textParts(blocks, i)
    BY <1>1, PartsSame
  <2>4. a[i] = blocks[i]
    BY <1>1
  <2>5. F(a, i) = F(blocks, i)
    BY <2>3, <2>4
  <2> QED
    BY <2>1, <2>2, <2>5
<1>5. n[k + 1] = F(a, k + 1) /\ n[k + 1] \in Seq(InputItem)
  <2>1. k + 1 \in DOMAIN a
    BY <1>1
  <2>2. n[k + 1] = F(a, k + 1)
    BY <2>1
  <2>3. F(a, k + 1) \in Seq(InputItem)
    BY <1>1, <1>2, <2>1
  <2> QED
    BY <2>2, <2>3
<1>6. F(a, k + 1) = IF x.type = "tool_use"
                    THEN Append(messageOf("assistant", textParts(blocks, k + 1)),
                                CallItem(toCodexCallID(x.id)))
                    ELSE <<>>
  <2>1. textParts(a, k + 1) = textParts(blocks, k + 1)
    BY <1>1, PartsSame
  <2> QED
    BY <1>1, <2>1
<1> HIDE DEF m, n, F
<1>7. n = Append(m, n[Len(blocks) + 1]) /\ m \in Seq(Seq(InputItem))
  BY <1>3, <1>4, <1>5, MappedAdd
<1>8. FlattenSeq(Append(m, n[k + 1])) = FlattenSeq(m) \o n[k + 1]
  BY <1>5, <1>7, FlattenedAdd
<1>9. FlattenSeq(m) \in Seq(InputItem)
  BY <1>7, FlattenedType
<1>10. PutOut(a) = PutOut(blocks) \o F(a, k + 1)
  BY <1>3, <1>5, <1>7, <1>8
<1> QED
  BY <1>3, <1>6, <1>9, <1>10

\* What is put out and what is still held have the texts and the calls of the blocks.
PutOutIs(blocks) ==
    /\ PutOut(blocks) \in Seq(InputItem)
    /\ Each(PutOut(blocks), Texts) \o textParts(blocks, Len(blocks) + 1) = textsOf(blocks)
    /\ IdsOf(PutOut(blocks), "function_call_output") = {}
    /\ IdsOf(PutOut(blocks), "function_call") = Calls(blocks)
    /\ Numbers(blocks, "tool_use") => Once(PutOut(blocks), "function_call")

\* The texts of blocks with one more.
LEMMA TextsOfAdd ==
  ASSUME NEW blocks \in Seq(RtBlock), NEW x \in RtBlock
  PROVE  /\ textsOf(Append(blocks, x)) = textsOf(blocks) \o BlockText[x]
         /\ textsOf(blocks) \in Seq(Nat) /\ BlockText[x] \in Seq(Nat)
<1> DEFINE N == Nat
<1>1. BlockText \in [RtBlock -> Seq(N)]
  BY BlockTypes
<1>2. Append(blocks, x) \in Seq(RtBlock)
  BY AppendProperties
<1>3. /\ textsOf(Append(blocks, x)) = Each(Append(blocks, x), BlockText)
      /\ textsOf(blocks) = Each(blocks, BlockText) /\ textsOf(blocks) \in Seq(N)
  BY <1>2, TextsOfIs
<1> HIDE DEF N
<1>4. Each(Append(blocks, x), BlockText) = Each(blocks, BlockText) \o BlockText[x]
  BY <1>1, EachAdd
<1> QED
  BY <1>1, <1>3, <1>4 DEF N

\* The calls of blocks with one more.
LEMMA BlockCallsAdd ==
  ASSUME NEW blocks \in Seq(RtBlock), NEW x \in RtBlock
  PROVE  Calls(Append(blocks, x)) =
            IF x.type = "tool_use" THEN Calls(blocks) \cup {toCodexCallID(x.id)} ELSE Calls(blocks)
<1> DEFINE a == Append(blocks, x)
           k == Len(blocks)
<1>1. /\ k \in Nat /\ a[k + 1] = x /\ DOMAIN blocks = 1..k /\ DOMAIN a = 1..(k + 1)
      /\ \A i \in 1..k : a[i] = blocks[i] /\ blocks[i] \in RtBlock
  BY BlockAppended
<1> HIDE DEF a, k
<1>2. ASSUME NEW d \in Calls(a)
      PROVE  d \in Calls(blocks) \/ (x.type = "tool_use" /\ d = toCodexCallID(x.id))
  <2>1. PICK i \in DOMAIN a : a[i].type = "tool_use" /\ d = toCodexCallID(a[i].id)
    BY DEF Calls
  <2>2. CASE i = k + 1
    BY <1>1, <2>1, <2>2
  <2>3. CASE i # k + 1
    <3>1. i \in DOMAIN blocks /\ a[i] = blocks[i]
      BY <1>1, <2>3
    <3> QED
      BY <2>1, <3>1 DEF Calls
  <2> QED
    BY <2>2, <2>3
<1>3. ASSUME NEW d \in Calls(blocks) PROVE d \in Calls(a)
  <2>1. PICK i \in DOMAIN blocks : blocks[i].type = "tool_use" /\ d = toCodexCallID(blocks[i].id)
    BY DEF Calls
  <2>2. i \in DOMAIN a /\ a[i] = blocks[i]
    BY <1>1
  <2> QED
    BY <2>1, <2>2 DEF Calls
<1>4. ASSUME x.type = "tool_use" PROVE toCodexCallID(x.id) \in Calls(a)
  <2>1. k + 1 \in DOMAIN a /\ a[k + 1] = x
    BY <1>1
  <2> QED
    BY <1>4, <2>1 DEF Calls
<1>5. Calls(a) = IF x.type = "tool_use" THEN Calls(blocks) \cup {toCodexCallID(x.id)} ELSE Calls(blocks)
  BY <1>2, <1>3, <1>4
<1> QED
  BY <1>5 DEF a

\* Blocks with different numbers, and the identifier of one more.
LEMMA BlockNumbersAdd ==
  ASSUME NEW blocks \in Seq(RtBlock), NEW x \in RtBlock, Numbers(Append(blocks, x), "tool_use")
  PROVE  /\ Numbers(blocks, "tool_use")
         /\ x.type = "tool_use" => toCodexCallID(x.id) \notin Calls(blocks)
<1> DEFINE a == Append(blocks, x)
           k == Len(blocks)
<1>1. /\ k \in Nat /\ a[k + 1] = x /\ DOMAIN blocks = 1..k /\ DOMAIN a = 1..(k + 1)
      /\ \A i \in 1..k : a[i] = blocks[i] /\ blocks[i] \in RtBlock
  BY BlockAppended
<1>0. Numbers(a, "tool_use")
  OBVIOUS
<1> HIDE DEF a, k
<1>2. Numbers(blocks, "tool_use")
  <2> SUFFICES ASSUME NEW i \in DOMAIN blocks, NEW j \in DOMAIN blocks,
                      blocks[i].type = "tool_use", blocks[j].type = "tool_use",
                      blocks[i].id.n = blocks[j].id.n
               PROVE  i = j
    BY DEF Numbers
  <2>1. i \in DOMAIN a /\ j \in DOMAIN a /\ a[i] = blocks[i] /\ a[j] = blocks[j]
    BY <1>1
  <2> QED
    BY <1>0, <2>1 DEF Numbers
<1>3. ASSUME x.type = "tool_use", toCodexCallID(x.id) \in Calls(blocks)
      PROVE  FALSE
  <2>1. PICK i \in DOMAIN blocks : blocks[i].type = "tool_use" /\ toCodexCallID(x.id) = toCodexCallID(blocks[i].id)
    BY <1>3 DEF Calls
  <2>2. /\ i \in DOMAIN a /\ k + 1 \in DOMAIN a /\ a[i] = blocks[i] /\ a[k + 1] = x /\ i # k + 1
        /\ blocks[i] \in RtBlock
    BY <1>1
  <2>3. x.id \in RtId /\ blocks[i].id \in RtId
    BY <2>2 DEF RtBlock
  <2>4. toCodexCallID(x.id).n = x.id.n
    BY <2>3, CodexIds
  <2>5. toCodexCallID(blocks[i].id).n = blocks[i].id.n
    BY <2>3, CodexIds
  <2>6. x.id.n = blocks[i].id.n
    BY <2>1, <2>4, <2>5
  <2> QED
    BY <1>0, <1>3, <2>1, <2>2, <2>6 DEF Numbers
<1> QED
  BY <1>2, <1>3

\* Texts after texts after texts.
LEMMA TextsAssociative ==
  ASSUME NEW u \in Seq(Nat), NEW v \in Seq(Nat), NEW w \in Seq(Nat)
  PROVE  u \o (v \o w) = (u \o v) \o w
<1> DEFINE N == Nat
<1>1. u \in Seq(N) /\ v \in Seq(N) /\ w \in Seq(N)
  OBVIOUS
<1> HIDE DEF N
<1> QED
  BY <1>1, ConcatAssociative

\* It holds for every message of an answer.
LEMMA PutOutHolds == \A blocks \in Seq(RtBlock) : PutOutIs(blocks)
<1> DEFINE P == {s \in Seq(RtBlock) : PutOutIs(s)}
<1>1. <<>> \in P
  <2>1. PutOut(<<>>) = <<>> /\ textsOf(<<>>) = <<>>
    <3>1. ASSUME NEW f, DOMAIN f = {}, f = [i \in DOMAIN f |-> f[i]] PROVE FlattenSeq(f) = <<>>
      <4>1. f = <<>>
        BY <3>1
      <4> QED
        BY <4>1, FlattenedNone
    <3>2. DOMAIN <<>> = {}
      OBVIOUS
    <3> QED
      BY <3>1, <3>2 DEF PutOut, textsOf
  <2>2. textParts(<<>>, Len(<<>>) + 1) = <<>>
    <3>1. Len(<<>>) = 0 /\ 1..((0 + 1) - 1) = {}
      OBVIOUS
    <3>2. ASSUME NEW f, DOMAIN f = {}, f = [i \in DOMAIN f |-> f[i]] PROVE FlattenSeq(f) = <<>>
      <4>1. f = <<>>
        BY <3>2
      <4> QED
        BY <4>1, FlattenedNone
    <3> QED
      BY <3>1, <3>2 DEF textParts
  <2>3. Calls(<<>>) = {}
    BY DEF Calls
  <2>4. Each(<<>>, Texts) \o <<>> = <<>>
    BY EachNone
  <2>5. <<>> \in Seq(RtBlock) /\ <<>> \in Seq(InputItem)
    BY EmptySeq
  <2> QED
    BY <2>1, <2>2, <2>3, <2>4, <2>5, NoItem DEF PutOutIs
<1>2. ASSUME NEW s \in Seq(RtBlock), s \in P, NEW x \in RtBlock PROVE Append(s, x) \in P
  <2> DEFINE a == Append(s, x)
             k == Len(s)
             held == textParts(s, k + 1)
             c == Append(messageOf("assistant", held), CallItem(toCodexCallID(x.id)))
             b == PutOut(s)
  <2>0. PutOutIs(s)
    BY <1>2
  <2>1. a \in Seq(RtBlock) /\ Len(a) = k + 1 /\ k \in Nat
    BY AppendProperties, LenProperties
  <2>2. held \in Seq(Nat) /\ x.id \in RtId
    <3>1. k + 1 \in 1..(Len(s) + 1)
      BY <2>1
    <3> QED
      BY <3>1, PartsType DEF RtBlock
  <2>3. textParts(a, (k + 1) + 1) = IF x.type = "tool_use" THEN <<>> ELSE held \o BlockText[x]
    <3>1. (k + 1) + 1 = k + 2
      BY <2>1
    <3> QED
      BY <3>1, PartsAdd
  <2>4. /\ textsOf(a) = textsOf(s) \o BlockText[x]
        /\ textsOf(s) \in Seq(Nat) /\ BlockText[x] \in Seq(Nat)
    BY TextsOfAdd
  <2>5. /\ b \in Seq(InputItem) /\ Each(b, Texts) \o held = textsOf(s)
        /\ IdsOf(b, "function_call_output") = {} /\ IdsOf(b, "function_call") = Calls(s)
        /\ Numbers(s, "tool_use") => Once(b, "function_call")
    BY <2>0 DEF PutOutIs
  <2>6. PutOut(a) = IF x.type = "tool_use" THEN b \o c ELSE b \o <<>>
    BY PutOutAdd
  <2>7. /\ Calls(a) = IF x.type = "tool_use" THEN Calls(s) \cup {toCodexCallID(x.id)} ELSE Calls(s)
        /\ Numbers(a, "tool_use") =>
              /\ Numbers(s, "tool_use")
              /\ x.type = "tool_use" => toCodexCallID(x.id) \notin Calls(s)
    <3>1. Calls(a) = IF x.type = "tool_use" THEN Calls(s) \cup {toCodexCallID(x.id)} ELSE Calls(s)
      BY BlockCallsAdd
    <3>2. ASSUME Numbers(a, "tool_use")
          PROVE  /\ Numbers(s, "tool_use")
                 /\ x.type = "tool_use" => toCodexCallID(x.id) \notin Calls(s)
      BY <3>2, BlockNumbersAdd
    <3> QED
      BY <3>1, <3>2
  <2>8. /\ c \in Seq(InputItem) /\ Each(c, Texts) = held
        /\ IdsOf(c, "function_call") = {toCodexCallID(x.id)}
        /\ IdsOf(c, "function_call_output") = {} /\ Once(c, "function_call")
    BY <2>2, CallItems
  <2>9. Each(b, Texts) \in Seq(Nat)
    BY <2>5, TextsJoin
  <2> HIDE DEF a, k, held, c, b
  <2>10. CASE x.type = "tool_use"
    <3>1. PutOut(a) = b \o c /\ textParts(a, Len(a) + 1) = <<>>
      BY <2>1, <2>3, <2>6, <2>10
    <3>2. b \o c \in Seq(InputItem)
      BY <2>5, <2>8, ConcatProperties
    <3>3. Each(b \o c, Texts) = Each(b, Texts) \o held
      BY <2>5, <2>8, TextsJoin
    <3>4. BlockText[x] = <<>>
      BY <2>10 DEF BlockText
    <3>5. textsOf(s) \o <<>> = textsOf(s)
      BY <2>4
    <3>6. Each(b \o c, Texts) \o <<>> = textsOf(a)
      BY <2>4, <2>5, <3>3, <3>4, <3>5
    <3>7. \A type : IdsOf(b \o c, type) = IdsOf(b, type) \cup IdsOf(c, type)
      BY <2>5, <2>8, IdsJoin
    <3>8. IdsOf(b \o c, "function_call_output") = {} /\ IdsOf(b \o c, "function_call") = Calls(a)
      BY <2>5, <2>7, <2>8, <2>10, <3>7
    <3>9. ASSUME Numbers(a, "tool_use") PROVE Once(b \o c, "function_call")
      BY <2>5, <2>7, <2>8, <2>10, <3>9, OnceJoin
    <3> QED
      BY <2>1, <3>1, <3>2, <3>6, <3>8, <3>9 DEF PutOutIs, a
  <2>11. CASE x.type # "tool_use"
    <3>1. PutOut(a) = b /\ textParts(a, Len(a) + 1) = held \o BlockText[x]
      BY <2>1, <2>3, <2>5, <2>6, <2>11, ConcatEmptySeq
    <3>2. Each(b, Texts) \o (held \o BlockText[x]) = (Each(b, Texts) \o held) \o BlockText[x]
      BY <2>2, <2>4, <2>9, TextsAssociative
    <3>3. Each(b, Texts) \o (held \o BlockText[x]) = textsOf(a)
      BY <2>4, <2>5, <3>2
    <3> QED
      BY <2>1, <2>5, <2>7, <2>11, <3>1, <3>3 DEF PutOutIs, a
  <2> QED
    BY <2>10, <2>11 DEF a
<1> HIDE DEF P
<1>3. \A s \in Seq(RtBlock) : s \in P
  BY <1>1, <1>2, SequencesByAppend
<1> QED
  BY <1>3 DEF P

\* A message of the upstream: its texts in front of its calls, and the rest of them.
LEMMA AssistantBlocks ==
  ASSUME NEW blocks \in Seq(RtBlock)
  PROVE  /\ appendAssistantBlocks(blocks) \in Seq(InputItem)
         /\ Each(appendAssistantBlocks(blocks), Texts) = textsOf(blocks)
         /\ IdsOf(appendAssistantBlocks(blocks), "function_call_output") = {}
         /\ IdsOf(appendAssistantBlocks(blocks), "function_call") = Calls(blocks)
         /\ Numbers(blocks, "tool_use") => Once(appendAssistantBlocks(blocks), "function_call")
<1> DEFINE held == textParts(blocks, Len(blocks) + 1)
           t == messageOf("assistant", held)
           b == PutOut(blocks)
<1>1. appendAssistantBlocks(blocks) = b \o t
  BY DEF appendAssistantBlocks, PutOut
<1>2. held \in Seq(Nat)
  <2>1. Len(blocks) + 1 \in 1..(Len(blocks) + 1)
    BY LenProperties
  <2> QED
    BY <2>1, PartsType
<1>3. /\ t \in Seq(InputItem) /\ Each(t, Texts) = held
      /\ \A type \in {"function_call", "function_call_output"} :
            IdsOf(t, type) = {} /\ Once(t, type)
  BY <1>2, MessageOfIs
<1>4. /\ b \in Seq(InputItem) /\ Each(b, Texts) \o held = textsOf(blocks)
      /\ IdsOf(b, "function_call_output") = {} /\ IdsOf(b, "function_call") = Calls(blocks)
      /\ Numbers(blocks, "tool_use") => Once(b, "function_call")
  BY PutOutHolds DEF PutOutIs
<1> HIDE DEF b, t, held
<1>5. b \o t \in Seq(InputItem)
  BY <1>3, <1>4, ConcatProperties
<1>6. Each(b \o t, Texts) = textsOf(blocks)
  BY <1>3, <1>4, TextsJoin
<1>7. \A type : IdsOf(b \o t, type) = IdsOf(b, type) \cup IdsOf(t, type)
  BY <1>3, <1>4, IdsJoin
<1>8. IdsOf(b \o t, "function_call_output") = {} /\ IdsOf(b \o t, "function_call") = Calls(blocks)
  BY <1>3, <1>4, <1>7
<1>9. ASSUME Numbers(blocks, "tool_use") PROVE Once(b \o t, "function_call")
  BY <1>3, <1>4, <1>9, OnceJoin
<1> QED
  BY <1>1, <1>5, <1>6, <1>8, <1>9

\* Items without text say nothing.
LEMMA NoTexts ==
  ASSUME NEW s \in Seq(InputItem), \A i \in DOMAIN s : s[i].texts = <<>>
  PROVE  Each(s, Texts) = <<>>
<1> DEFINE z == [x \in InputItem |-> <<>>]
<1>1. \A i \in DOMAIN s : s[i] \in InputItem
  BY LenProperties, ElementOfSeq
<1>2. [i \in DOMAIN s |-> Texts[s[i]]] = [i \in DOMAIN s |-> z[s[i]]]
  BY <1>1 DEF Texts
<1>3. DOMAIN z = InputItem /\ (\A x \in InputItem : z[x] = <<>>) /\ z = [x \in DOMAIN z |-> z[x]]
  OBVIOUS
<1> HIDE DEF z
<1>4. Each(s, z) = <<>>
  BY <1>3, EachEmpty
<1> QED
  BY <1>2, <1>4 DEF Each

\* The messages of Chat Completions.
ChatMessage ==
    {m \in [role : {"user", "assistant", "tool"}, texts : Seq(Nat), calls : Seq(RtId)] :
        m.role = "tool" => m.texts = <<>> /\ m.calls # <<>>}

\* Calls as items.
CallList(calls) == [i \in DOMAIN calls |-> CallItem(calls[i])]

\* They say nothing and have no outputs.
LEMMA CallListIs ==
  ASSUME NEW calls \in Seq(RtId)
  PROVE  /\ CallList(calls) \in Seq(InputItem) /\ Each(CallList(calls), Texts) = <<>>
         /\ Of(CallList(calls), "function_call_output") = {}
         /\ IdsOf(CallList(calls), "function_call_output") = {}
<1> DEFINE m == CallList(calls)
<1>1. \A i \in DOMAIN calls : calls[i] \in RtId
  BY LenProperties, ElementOfSeq
<1>2. /\ DOMAIN m = DOMAIN calls /\ m = [i \in DOMAIN m |-> m[i]]
      /\ \A i \in DOMAIN calls : m[i] = CallItem(calls[i])
  BY DEF CallList
<1> HIDE DEF m
<1>3. \A i \in DOMAIN calls : m[i] \in InputItem /\ m[i].texts = <<>> /\ m[i].type = "function_call"
  BY <1>1, <1>2, ItemKinds
<1>4. m \in Seq(InputItem)
  BY <1>2, <1>3, MappedType
<1>5. Each(m, Texts) = <<>>
  BY <1>2, <1>3, <1>4, NoTexts
<1>6. Of(m, "function_call_output") = {}
  BY <1>2, <1>3 DEF Of
<1> QED
  BY <1>4, <1>5, <1>6 DEF m, IdsOf

\* The calls of an answer as items have the identifiers of its blocks.
LEMMA CallListOf ==
  ASSUME NEW answer \in Seq(RtBlock)
  PROVE  /\ \A d : d \in IdsOf(CallList(Each(answer, BlockCall)), "function_call") <=>
                     \E i \in DOMAIN answer : answer[i].type = "tool_use" /\ d = answer[i].id
         /\ Numbers(answer, "tool_use") => Once(CallList(Each(answer, BlockCall)), "function_call")
<1> DEFINE calls == Each(answer, BlockCall)
           ci == [x \in RtId |-> CallItem(x)]
           g == [x \in RtId |-> <<ci[x]>>]
           k == [b \in RtBlock |-> IF b.type = "tool_use" THEN <<CallItem(b.id)>> ELSE <<>>]
<1>1. calls \in Seq(RtId)
  BY BlockTypes, EachType
<1>2. ci \in [RtId -> InputItem]
  BY ItemKinds
<1>3. \A i \in DOMAIN calls : calls[i] \in RtId
  BY <1>1, LenProperties, ElementOfSeq
<1>4. CallList(calls) = [i \in DOMAIN calls |-> ci[calls[i]]]
  <2> HIDE DEF calls
  <2> QED
    BY <1>3 DEF CallList
<1>5. Each(calls, g) = CallList(calls)
  <2>0. g \in [RtId -> Seq(InputItem)] /\ \A x \in RtId : g[x] = <<ci[x]>>
    BY <1>2
  <2> HIDE DEF calls, ci, g
  <2>1. \A s \in Seq(RtId) : Each(s, g) = [i \in DOMAIN s |-> ci[s[i]]]
    <3>1. Singles(RtId, InputItem, ci, g)
      BY <1>2, <2>0 DEF Singles
    <3> QED
      BY <3>1, EachSingle
  <2> QED
    BY <1>1, <1>4, <2>1
<1>6. \A b \in RtBlock : b.id \in RtId
  BY DEF RtBlock
<1>7. g \in [RtId -> Seq(InputItem)]
  BY <1>2
<1>8. k \in [RtBlock -> Seq(InputItem)]
  <2>1. \A b \in RtBlock : <<CallItem(b.id)>> \in Seq(InputItem)
    BY <1>6, ItemKinds
  <2>2. <<>> \in Seq(InputItem)
    BY EmptySeq
  <2> QED
    BY <2>1, <2>2
<1>9. \A b \in RtBlock : Each(BlockCall[b], g) = k[b]
  <2> SUFFICES ASSUME NEW b \in RtBlock PROVE Each(BlockCall[b], g) = k[b]
    OBVIOUS
  <2>1. b.id \in RtId /\ g[b.id] = <<CallItem(b.id)>>
    BY <1>6
  <2>2. BlockCall[b] = IF b.type = "tool_use" THEN <<b.id>> ELSE <<>>
    BY DEF BlockCall
  <2>3. k[b] = IF b.type = "tool_use" THEN <<CallItem(b.id)>> ELSE <<>>
    OBVIOUS
  <2> HIDE DEF g, k
  <2>4. Each(<<b.id>>, g) = g[b.id]
    BY <1>7, <2>1, EachOne
  <2> QED
    BY <2>1, <2>2, <2>3, <2>4, EachNone
<1>10. Each(calls, g) = Each(answer, k)
  <2> HIDE DEF g, k
  <2>1. BlockCall \in [RtBlock -> Seq(RtId)]
    BY BlockTypes
  <2>2. \A s \in Seq(RtBlock) : Each(Each(s, BlockCall), g) = Each(s, k)
    <3>1. After(RtBlock, RtId, InputItem, BlockCall, g, k)
      BY <1>7, <1>8, <1>9, <2>1 DEF After
    <3> QED
      BY <3>1, EachOfEach
  <2> QED
    BY <2>2
<1>11. ASSUME NEW b \in RtBlock
       PROVE  /\ Once(k[b], "function_call")
              /\ IdsOf(k[b], "function_call") = IF b.type = "tool_use" THEN {b.id} ELSE {}
  <2>1. k[b] = IF b.type = "tool_use" THEN <<CallItem(b.id)>> ELSE <<>>
    OBVIOUS
  <2> DEFINE x == CallItem(b.id)
  <2>2. x \in InputItem /\ x.type = "function_call" /\ x.ids[1] = b.id
    BY <1>6, ItemKinds
  <2> HIDE DEF k, x
  <2>3. Once(<<x>>, "function_call") /\ IdsOf(<<x>>, "function_call") = {b.id}
    BY <2>2, OneItem
  <2> QED
    BY <2>1, <2>3, NoItem DEF x
<1> HIDE DEF k, g, calls
<1>12. \A i \in DOMAIN answer : answer[i] \in RtBlock
  BY LenProperties, ElementOfSeq
<1>13. ASSUME NEW d
       PROVE  d \in IdsOf(Each(answer, k), "function_call") <=>
                 \E i \in DOMAIN answer : answer[i].type = "tool_use" /\ d = answer[i].id
  <2>1. d \in IdsOf(Each(answer, k), "function_call")
           <=> \E i \in DOMAIN answer : d \in IdsOf(k[answer[i]], "function_call")
    BY <1>8, EachIds
  <2>2. ASSUME NEW i \in DOMAIN answer
        PROVE  d \in IdsOf(k[answer[i]], "function_call") <=> answer[i].type = "tool_use" /\ d = answer[i].id
    <3>1. IdsOf(k[answer[i]], "function_call") = IF answer[i].type = "tool_use" THEN {answer[i].id} ELSE {}
      BY <1>11, <1>12
    <3> QED
      BY <3>1
  <2> QED
    BY <2>1, <2>2
<1>14. ASSUME Numbers(answer, "tool_use") PROVE Once(Each(answer, k), "function_call")
  <2>1. ASSUME NEW i \in DOMAIN answer, NEW j \in DOMAIN answer, i # j,
               NEW d \in IdsOf(k[answer[i]], "function_call")
        PROVE  d \notin IdsOf(k[answer[j]], "function_call")
    <3> SUFFICES ASSUME d \in IdsOf(k[answer[j]], "function_call") PROVE FALSE
      OBVIOUS
    <3>1. /\ IdsOf(k[answer[i]], "function_call") = IF answer[i].type = "tool_use" THEN {answer[i].id} ELSE {}
          /\ IdsOf(k[answer[j]], "function_call") = IF answer[j].type = "tool_use" THEN {answer[j].id} ELSE {}
      BY <1>11, <1>12
    <3>2. /\ answer[i].type = "tool_use" /\ d = answer[i].id
          /\ answer[j].type = "tool_use" /\ d = answer[j].id
      BY <2>1, <3>1
    <3> QED
      BY <1>14, <2>1, <3>2 DEF Numbers
  <2>2. \A b \in RtBlock : Once(k[b], "function_call")
    BY <1>11
  <2> QED
    BY <1>8, <2>1, <2>2, EachOnce
<1> QED
  BY <1>5, <1>10, <1>13, <1>14 DEF calls

\* What a message of Chat Completions becomes.
LEMMA ChatItem ==
  ASSUME NEW m \in ChatMessage
  PROVE  /\ convertMessage(m) \in Seq(InputItem)
         /\ Each(convertMessage(m), Texts) = m.texts
         /\ m.role # "tool" => IdsOf(convertMessage(m), "function_call_output") = {}
         /\ m.role # "assistant" => IdsOf(convertMessage(m), "function_call") = {}
         /\ m.role = "tool" => IdsOf(convertMessage(m), "function_call_output") = {m.calls[1]}
         /\ m.role = "assistant" =>
               /\ IdsOf(convertMessage(m), "function_call") = IdsOf(CallList(m.calls), "function_call")
               /\ Once(CallList(m.calls), "function_call") => Once(convertMessage(m), "function_call")
         /\ m.role # "assistant" => Once(convertMessage(m), "function_call_output")
<1> DEFINE v == convertMessage(m)
           out == "function_call_output"
           call == "function_call"
<1>0. /\ m.role \in {"user", "assistant", "tool"} /\ m.texts \in Seq(Nat) /\ m.calls \in Seq(RtId)
      /\ m.role = "tool" => m.texts = <<>> /\ m.calls # <<>>
  BY DEF ChatMessage
<1>1. CASE m.role = "tool"
  <2> DEFINE x == OutputItem(m.calls[1])
  <2>1. v = <<x>>
    BY <1>1 DEF convertMessage
  <2>2. m.calls[1] \in RtId
    <3>1. Len(m.calls) \in Nat /\ Len(m.calls) # 0
      BY <1>0, <1>1, EmptySeq, LenProperties
    <3>2. 1 \in 1..Len(m.calls)
      BY <3>1
    <3> QED
      BY <1>0, <3>2, ElementOfSeq
  <2>3. x \in InputItem /\ x.type = out /\ x.ids[1] = m.calls[1] /\ x.texts = <<>>
    BY <2>2, ItemKinds
  <2> HIDE DEF x
  <2>4. <<x>> \in Seq(InputItem) /\ Once(<<x>>, out)
    BY <2>3, OneItem
  <2>5. IdsOf(<<x>>, out) = {m.calls[1]}
    BY <2>3, OneItem
  <2>6. IdsOf(<<x>>, call) = {}
    BY <2>3, OneItem
  <2>7. Each(<<x>>, Texts) = <<>>
    BY <2>3, TextsType, EachOne DEF Texts
  <2> QED
    BY <1>0, <1>1, <2>1, <2>4, <2>5, <2>6, <2>7
<1>2. CASE m.role = "user" \/ (m.role = "assistant" /\ m.calls = <<>>)
  <2> DEFINE x == MessageItem(m.role, m.texts)
  <2>1. v = <<x>>
    BY <1>2 DEF convertMessage
  <2>2. x \in InputItem /\ x.type = "message" /\ x.texts = m.texts
    BY <1>0, <1>2, MessageItemIs
  <2> HIDE DEF x
  <2>3. <<x>> \in Seq(InputItem) /\ Once(<<x>>, out) /\ Once(<<x>>, call)
    BY <2>2, OneItem
  <2>4. IdsOf(<<x>>, out) = {} /\ IdsOf(<<x>>, call) = {}
    BY <2>2, OneItem
  <2>5. Each(<<x>>, Texts) = m.texts
    BY <2>2, TextsType, EachOne DEF Texts
  <2>6. m.calls = <<>> => IdsOf(CallList(m.calls), call) = {}
    BY NoItem DEF CallList, IdsOf, Of
  <2> QED
    BY <1>0, <1>2, <2>1, <2>3, <2>4, <2>5, <2>6
<1>3. CASE m.role = "assistant" /\ m.calls # <<>>
  <2> DEFINE t == messageOf("assistant", m.texts)
             c == CallList(m.calls)
  <2>1. v = t \o c
    BY <1>3 DEF convertMessage, CallList
  <2>2. /\ t \in Seq(InputItem) /\ Each(t, Texts) = m.texts
        /\ IdsOf(t, out) = {} /\ IdsOf(t, call) = {} /\ Once(t, call)
    BY <1>0, MessageOfIs
  <2>3. c \in Seq(InputItem) /\ Each(c, Texts) = <<>> /\ IdsOf(c, out) = {}
    BY <1>0, CallListIs
  <2> HIDE DEF t, c
  <2>4. t \o c \in Seq(InputItem)
    BY <2>2, <2>3, ConcatProperties
  <2>5. Each(t \o c, Texts) = m.texts
    <3>1. Each(t \o c, Texts) = Each(t, Texts) \o Each(c, Texts)
      BY <2>2, <2>3, TextsJoin
    <3>2. m.texts \o <<>> = m.texts
      BY <1>0
    <3> QED
      BY <2>2, <2>3, <3>1, <3>2
  <2>6. \A type : IdsOf(t \o c, type) = IdsOf(t, type) \cup IdsOf(c, type)
    BY <2>2, <2>3, IdsJoin
  <2>7. IdsOf(t \o c, out) = {} /\ IdsOf(t \o c, call) = IdsOf(c, call)
    BY <2>2, <2>3, <2>6
  <2>8. ASSUME Once(c, call) PROVE Once(t \o c, call)
    BY <2>2, <2>3, <2>8, OnceJoin
  <2> QED
    BY <1>3, <2>1, <2>4, <2>5, <2>7, <2>8 DEF c
<1> QED
  BY <1>0, <1>1, <1>2, <1>3

\* The messages of Messages, what each message becomes, and its texts.
MsgMessage == [role : {"user", "assistant"}, blocks : Seq(RtBlock)]

MsgItems == [m \in MsgMessage |->
    IF m.role = "user" THEN appendUserBlocks(m.blocks) ELSE appendAssistantBlocks(m.blocks)]

MsgTexts == [m \in MsgMessage |-> textsOf(m.blocks)]

ChatItems == [m \in ChatMessage |-> convertMessage(m)]

ChatTexts == [m \in ChatMessage |-> m.texts]

\* Their types.
LEMMA MessageTypes ==
  /\ MsgItems \in [MsgMessage -> Seq(InputItem)] /\ MsgTexts \in [MsgMessage -> Seq(Nat)]
  /\ ChatItems \in [ChatMessage -> Seq(InputItem)] /\ ChatTexts \in [ChatMessage -> Seq(Nat)]
<1>1. ASSUME NEW m \in MsgMessage PROVE m.blocks \in Seq(RtBlock)
  BY DEF MsgMessage
<1>2. ASSUME NEW m \in MsgMessage
      PROVE  /\ appendUserBlocks(m.blocks) \in Seq(InputItem)
             /\ appendAssistantBlocks(m.blocks) \in Seq(InputItem)
             /\ textsOf(m.blocks) \in Seq(Nat)
  BY <1>1, UserBlocks, AssistantBlocks, TextsOfIs
<1>3. MsgItems \in [MsgMessage -> Seq(InputItem)]
  BY <1>2 DEF MsgItems
<1>4. MsgTexts \in [MsgMessage -> Seq(Nat)]
  BY <1>2 DEF MsgTexts
<1>5. ChatItems \in [ChatMessage -> Seq(InputItem)]
  BY ChatItem DEF ChatItems
<1>6. ChatTexts \in [ChatMessage -> Seq(Nat)]
  BY DEF ChatTexts, ChatMessage
<1> QED
  BY <1>3, <1>4, <1>5, <1>6

\* A history in its protocol, translated, and its texts.
Kept == IF rtProtocol = "messages" THEN MsgMessage ELSE ChatMessage

ItemsOf == IF rtProtocol = "messages" THEN MsgItems ELSE ChatItems

Held == IF rtProtocol = "messages" THEN MsgTexts ELSE ChatTexts

\* The translation puts out what each message becomes, one after the other.
LEMMA TranslatedIs ==
  ASSUME NEW h \in Seq(Kept)
  PROVE  translated(h) = Each(h, ItemsOf)
<1>0. \A i \in DOMAIN h : h[i] \in Kept
  BY LenProperties, ElementOfSeq
<1>1. CASE rtProtocol = "messages"
  <2>1. \A i \in DOMAIN h : h[i] \in MsgMessage /\ h[i].role \in {"user", "assistant"}
    BY <1>0, <1>1 DEF Kept, MsgMessage
  <2>2. \A i \in DOMAIN h :
           (CASE h[i].role = "user" -> appendUserBlocks(h[i].blocks)
              [] h[i].role = "assistant" -> appendAssistantBlocks(h[i].blocks)) = MsgItems[h[i]]
    BY <2>1 DEF MsgItems
  <2>3. buildCodexInput(h) = FlattenSeq([i \in DOMAIN h |-> MsgItems[h[i]]])
    BY <2>2 DEF buildCodexInput
  <2> QED
    BY <1>1, <2>3 DEF translated, ItemsOf, Each
<1>2. CASE rtProtocol # "messages"
  <2>1. \A i \in DOMAIN h : convertMessage(h[i]) = ChatItems[h[i]]
    BY <1>0, <1>2 DEF Kept, ChatItems
  <2>2. convertMessagesToInputSlice(h) = FlattenSeq([i \in DOMAIN h |-> ChatItems[h[i]]])
    BY <2>1 DEF convertMessagesToInputSlice
  <2> QED
    BY <1>2, <2>2 DEF translated, ItemsOf, Each
<1> QED
  BY <1>1, <1>2

\* Every translated message says what it said.
LEMMA SentTexts ==
  /\ ItemsOf \in [Kept -> Seq(InputItem)]
  /\ After(Kept, InputItem, Nat, ItemsOf, Texts, Held)
<1>1. ASSUME NEW m \in MsgMessage PROVE Each(MsgItems[m], Texts) = MsgTexts[m]
  <2>1. m.blocks \in Seq(RtBlock)
    BY DEF MsgMessage
  <2>2. /\ Each(appendUserBlocks(m.blocks), Texts) = textsOf(m.blocks)
        /\ Each(appendAssistantBlocks(m.blocks), Texts) = textsOf(m.blocks)
    BY <2>1, UserBlocks, AssistantBlocks
  <2> QED
    BY <2>2 DEF MsgItems, MsgTexts
<1>2. ASSUME NEW m \in ChatMessage PROVE Each(ChatItems[m], Texts) = ChatTexts[m]
  BY ChatItem DEF ChatItems, ChatTexts
<1>3. CASE rtProtocol = "messages"
  <2>1. Kept = MsgMessage /\ ItemsOf = MsgItems /\ Held = MsgTexts
    BY <1>3 DEF Kept, ItemsOf, Held
  <2> QED
    BY <1>1, <2>1, MessageTypes, TextsType DEF After
<1>4. CASE rtProtocol # "messages"
  <2>1. Kept = ChatMessage /\ ItemsOf = ChatItems /\ Held = ChatTexts
    BY <1>4 DEF Kept, ItemsOf, Held
  <2> QED
    BY <1>2, <2>1, MessageTypes, TextsType DEF After
<1> QED
  BY <1>3, <1>4

\* So does a translated history.
LEMMA HistoryTexts ==
  ASSUME rtHistory \in Seq(Kept), rtInput = Each(rtHistory, ItemsOf)
  PROVE  TextsInOrder
<1>1. Each(Each(rtHistory, ItemsOf), Texts) = Each(rtHistory, Held)
  BY SentTexts, EachOfEach
<1>2. rtInput \in Seq(InputItem)
  BY SentTexts, EachType
<1>3. FlattenSeq([i \in DOMAIN rtInput |-> rtInput[i].texts]) = Each(rtInput, Texts)
  <2>1. \A i \in DOMAIN rtInput : rtInput[i] \in InputItem
    BY <1>2, LenProperties, ElementOfSeq
  <2>2. \A i \in DOMAIN rtInput : rtInput[i].texts = Texts[rtInput[i]]
    BY <2>1 DEF Texts
  <2>3. [i \in DOMAIN rtInput |-> rtInput[i].texts] = [i \in DOMAIN rtInput |-> Texts[rtInput[i]]]
    BY <2>2
  <2> QED
    BY <2>3 DEF Each
<1>4. \A i \in DOMAIN rtHistory : rtHistory[i] \in Kept
  BY LenProperties, ElementOfSeq
<1>5. CASE rtProtocol = "messages"
  <2>1. \A i \in DOMAIN rtHistory : textsOf(rtHistory[i].blocks) = MsgTexts[rtHistory[i]]
    BY <1>4, <1>5 DEF Kept, MsgTexts
  <2>2. FlattenSeq([i \in DOMAIN rtHistory |-> textsOf(rtHistory[i].blocks)]) = Each(rtHistory, Held)
    BY <1>5, <2>1 DEF Each, Held
  <2> QED
    BY <1>1, <1>3, <1>5, <2>2 DEF TextsInOrder
<1>6. CASE rtProtocol # "messages"
  <2>1. \A i \in DOMAIN rtHistory : rtHistory[i].texts = ChatTexts[rtHistory[i]]
    BY <1>4, <1>6 DEF Kept, ChatTexts
  <2>2. FlattenSeq([i \in DOMAIN rtHistory |-> rtHistory[i].texts]) = Each(rtHistory, Held)
    BY <1>6, <2>1 DEF Each, Held
  <2> QED
    BY <1>1, <1>3, <1>6, <2>2 DEF TextsInOrder
<1> QED
  BY <1>5, <1>6

\* The numbers of the identifiers in an input list are above one number and not above
\* another.
Between(s, low, high) ==
    \A type \in {"function_call", "function_call_output"} :
        \A d \in IdsOf(s, type) : d.n \in Nat /\ d.n > low /\ d.n <= high

\* The inductive invariant.
RtInv ==
    /\ rtProtocol \in {"messages", "chat"}
    /\ rtUsed \in Nat
    /\ rtHistory \in Seq(Kept)
    /\ rtInput = Each(rtHistory, ItemsOf)
    /\ PairedIn(rtInput)
    /\ Between(rtInput, 0, rtUsed)

\* It gives the property.
LEMMA RtInvSound == RtInv => InputSound
BY PairedInput, HistoryTexts DEF RtInv, InputSound

\* It holds of an empty conversation.
LEMMA RtInitInv == RequestTranslateInit => RtInv
<1> SUFFICES ASSUME RequestTranslateInit PROVE RtInv
  OBVIOUS
<1>1. rtHistory = <<>> /\ rtInput = <<>> /\ rtUsed = 0 /\ rtProtocol \in {"messages", "chat"}
  BY DEF RequestTranslateInit
<1>2. rtHistory \in Seq(Kept)
  BY <1>1, EmptySeq
<1>3. rtInput = Each(rtHistory, ItemsOf)
  BY <1>1, EachNone
<1>4. PairedIn(<<>>)
  BY NoItem DEF PairedIn, Matched
<1>5. Between(<<>>, 0, 0)
  BY NoItem DEF Between
<1> QED
  BY <1>1, <1>2, <1>3, <1>4, <1>5 DEF RtInv

\* What a turn adds: messages that become pairs with new numbers.
Adds(new, used) ==
    /\ new \in Seq(Kept)
    /\ PairedIn(Each(new, ItemsOf))
    /\ Between(Each(new, ItemsOf), rtUsed, used)

\* A history with them.
LEMMA HistoryAdds ==
  ASSUME RtInv, NEW used \in Nat, used >= rtUsed, NEW new, Adds(new, used)
  PROVE  /\ rtHistory \o new \in Seq(Kept)
         /\ PairedIn(Each(rtHistory \o new, ItemsOf))
         /\ Between(Each(rtHistory \o new, ItemsOf), 0, used)
<1> DEFINE s == Each(rtHistory, ItemsOf)
           t == Each(new, ItemsOf)
<1>1. /\ rtUsed \in Nat /\ rtHistory \in Seq(Kept) /\ PairedIn(s) /\ Between(s, 0, rtUsed)
      /\ new \in Seq(Kept) /\ PairedIn(t) /\ Between(t, rtUsed, used)
  BY DEF RtInv, Adds
<1>2. ItemsOf \in [Kept -> Seq(InputItem)]
  BY SentTexts
<1>3. s \in Seq(InputItem) /\ t \in Seq(InputItem)
  BY <1>1, <1>2, EachType
<1>4. rtHistory \o new \in Seq(Kept) /\ Each(rtHistory \o new, ItemsOf) = s \o t
  BY <1>1, <1>2, EachJoin, ConcatProperties
<1> HIDE DEF s, t
<1>5. ASSUME NEW type \in {"function_call", "function_call_output"}, NEW d \in IdsOf(s, type)
      PROVE  d \notin IdsOf(t, type)
  <2>1. d.n <= rtUsed /\ d.n \in Nat
    BY <1>1 DEF Between
  <2>2. d \in IdsOf(t, type) => d.n > rtUsed
    BY <1>1 DEF Between
  <2> QED
    BY <1>1, <2>1, <2>2
<1>6. PairedIn(s \o t)
  BY <1>1, <1>3, <1>5, PairedJoin
<1>7. ASSUME NEW type \in {"function_call", "function_call_output"}, NEW d \in IdsOf(s \o t, type)
      PROVE  d.n \in Nat /\ d.n > 0 /\ d.n <= used
  <2>1. IdsOf(s \o t, type) = IdsOf(s, type) \cup IdsOf(t, type)
    BY <1>3, IdsJoin
  <2>2. CASE d \in IdsOf(s, type)
    <3>1. d.n \in Nat /\ d.n > 0 /\ d.n <= rtUsed
      BY <1>1, <2>2 DEF Between
    <3> QED
      BY <1>1, <3>1
  <2>3. CASE d \in IdsOf(t, type)
    <3>1. d.n \in Nat /\ d.n > rtUsed /\ d.n <= used
      BY <1>1, <2>3 DEF Between
    <3> QED
      BY <1>1, <3>1
  <2> QED
    BY <2>1, <2>2, <2>3
<1> QED
  BY <1>4, <1>6, <1>7 DEF Between

\* An answer: its calls have the numbers of their places.
LEMMA AnswerIs ==
  ASSUME rtUsed \in Nat, NEW k \in 1..RtItems, NEW answer \in Answers(k)
  PROVE  /\ answer \in Seq(RtBlock) /\ Len(answer) = k /\ DOMAIN answer = 1..k /\ k \in Nat
         /\ \A i \in 1..k : /\ answer[i] \in RtBlock
                            /\ answer[i].type \in {"text", "thinking", "tool_use"}
                            /\ answer[i].type = "tool_use" => answer[i].id.n = rtUsed + i
<1>0. k \in Nat
  BY RequestTranslateAssumption
<1>1. /\ answer \in [1..k -> UNION {Items(rtUsed + i) : i \in 1..k}]
      /\ \A i \in 1..k : answer[i] \in Items(rtUsed + i)
  BY DEF Answers
<1>2. ASSUME NEW i \in 1..k
      PROVE  /\ answer[i] \in RtBlock
             /\ answer[i].type \in {"text", "thinking", "tool_use"}
             /\ answer[i].type = "tool_use" => answer[i].id.n = rtUsed + i
  <2> DEFINE n == rtUsed + i
  <2>1. n \in Nat
    BY <1>0
  <2>2. answer[i] \in Items(n)
    BY <1>1
  <2> HIDE DEF n
  <2>3. CASE answer[i] = [type |-> "text", id |-> CallId(FALSE, FALSE, 0), text |-> n]
    BY <2>1, <2>3 DEF RtBlock, RtId, CallId
  <2>4. CASE answer[i] = [type |-> "thinking", id |-> CallId(FALSE, FALSE, 0), text |-> 0]
    BY <2>4 DEF RtBlock, RtId, CallId
  <2>5. CASE \E fc \in BOOLEAN, known \in BOOLEAN :
                answer[i] = [type |-> "tool_use", id |-> CallId(fc, known, n), text |-> 0]
    <3>1. PICK fc \in BOOLEAN, known \in BOOLEAN :
             answer[i] = [type |-> "tool_use", id |-> CallId(fc, known, n), text |-> 0]
      BY <2>5
    <3>2. CallId(fc, known, n) \in RtId /\ CallId(fc, known, n).n = n
      BY <2>1 DEF RtId, CallId
    <3> QED
      BY <3>1, <3>2 DEF RtBlock, n
  <2>6. \/ answer[i] = [type |-> "text", id |-> CallId(FALSE, FALSE, 0), text |-> n]
        \/ answer[i] = [type |-> "thinking", id |-> CallId(FALSE, FALSE, 0), text |-> 0]
        \/ \E fc \in BOOLEAN, known \in BOOLEAN :
               answer[i] = [type |-> "tool_use", id |-> CallId(fc, known, n), text |-> 0]
    <3> DEFINE K == {[type |-> "tool_use", id |-> CallId(fc, known, n), text |-> 0] :
                        fc \in BOOLEAN, known \in BOOLEAN}
    <3>1. \/ answer[i] = [type |-> "text", id |-> CallId(FALSE, FALSE, 0), text |-> n]
          \/ answer[i] = [type |-> "thinking", id |-> CallId(FALSE, FALSE, 0), text |-> 0]
          \/ answer[i] \in K
      <4> DEFINE A == [type |-> "text", id |-> CallId(FALSE, FALSE, 0), text |-> n]
                 B == [type |-> "thinking", id |-> CallId(FALSE, FALSE, 0), text |-> 0]
      <4>1. Items(n) = {A, B} \cup K
        BY DEF Items
      <4> HIDE DEF A, B, K
      <4>2. answer[i] = A \/ answer[i] = B \/ answer[i] \in K
        BY <2>2, <4>1
      <4> QED
        BY <4>2 DEF A, B
    <3>2. ASSUME answer[i] \in K
          PROVE  \E fc \in BOOLEAN, known \in BOOLEAN :
                    answer[i] = [type |-> "tool_use", id |-> CallId(fc, known, n), text |-> 0]
      BY <3>2
    <3> QED
      BY <3>1, <3>2
  <2> QED
    BY <2>3, <2>4, <2>5, <2>6
<1>3. answer \in [1..k -> RtBlock]
  BY <1>1, <1>2
<1>4. answer \in Seq(RtBlock)
  BY <1>0, <1>3, SeqDef
<1>5. DOMAIN answer = 1..k /\ Len(answer) \in Nat /\ DOMAIN answer = 1..Len(answer)
  BY <1>3, <1>4, LenProperties
<1>6. Len(answer) = k
  BY <1>0, <1>5
<1> QED
  BY <1>0, <1>2, <1>4, <1>5, <1>6

\* The identifiers that the client answers are finitely many, and each has its number.
LEMMA OwnIdsAre ==
  ASSUME rtUsed \in Nat, NEW k \in 1..RtItems, NEW answer \in Answers(k)
  PROVE  /\ IsFiniteSet(ownIds(answer))
         /\ \A d \in ownIds(answer) :
               /\ d \in RtId
               /\ \E i \in 1..k : answer[i].type = "tool_use" /\ d = own(answer[i].id) /\ d.n = rtUsed + i
<1>1. /\ DOMAIN answer = 1..k /\ k \in Nat
      /\ \A i \in 1..k : /\ answer[i] \in RtBlock
                         /\ answer[i].type = "tool_use" => answer[i].id.n = rtUsed + i
  BY AnswerIs
<1> DEFINE I == {i \in 1..k : answer[i].type = "tool_use"}
           f == [i \in I |-> own(answer[i].id)]
<1>2. IsFiniteSet(I)
  <2>1. IsFiniteSet(1..k) /\ I \in SUBSET (1..k)
    BY <1>1, FS_Interval
  <2> QED
    BY <2>1, FS_Subset
<1>3. ownIds(answer) = {f[i] : i \in I}
  BY <1>1 DEF ownIds
<1>4. f \in Surjection(I, ownIds(answer))
  <2>1. f \in [I -> ownIds(answer)]
    BY <1>3
  <2>2. \A t \in ownIds(answer) : \E i \in I : f[i] = t
    BY <1>3
  <2> HIDE DEF f, I
  <2> QED
    BY <2>1, <2>2 DEF Surjection
<1>5. IsFiniteSet(ownIds(answer))
  <2> HIDE DEF f, I
  <2> QED
    BY <1>2, <1>4, FS_Surjection
<1>6. ASSUME NEW d \in ownIds(answer)
      PROVE  /\ d \in RtId
             /\ \E i \in 1..k : answer[i].type = "tool_use" /\ d = own(answer[i].id) /\ d.n = rtUsed + i
  <2>1. PICK i \in I : d = own(answer[i].id)
    BY <1>3
  <2>2. answer[i].id \in RtId /\ answer[i].id.n = rtUsed + i
    BY <1>1 DEF RtBlock
  <2>3. d \in RtId /\ d.n = rtUsed + i
    BY <2>1, <2>2, CodexIds DEF own
  <2> QED
    BY <2>1, <2>3
<1> QED
  BY <1>5, <1>6

\* The client's list of results: each identifier once, each number once.
LEMMA ResultsAre ==
  ASSUME rtUsed \in Nat, NEW k \in 1..RtItems, NEW answer \in Answers(k),
         NEW r \in SetToSeqs(ownIds(answer))
  PROVE  /\ r \in Seq(RtId) /\ Len(r) = Cardinality(ownIds(answer)) /\ Len(r) \in Nat
         /\ DOMAIN r = 1..Len(r)
         /\ \A i \in DOMAIN r : r[i] \in ownIds(answer)
         /\ \A d \in ownIds(answer) : \E i \in DOMAIN r : r[i] = d
         /\ \A i, j \in DOMAIN r : r[i].n = r[j].n => i = j
<1>1. /\ IsFiniteSet(ownIds(answer))
      /\ \A d \in ownIds(answer) :
            /\ d \in RtId
            /\ \E i \in 1..k : answer[i].type = "tool_use" /\ d = own(answer[i].id) /\ d.n = rtUsed + i
  BY OwnIdsAre
<1>2. /\ r \in Seq(ownIds(answer)) /\ Len(r) = Cardinality(ownIds(answer))
      /\ \A i, j \in DOMAIN r : r[i] = r[j] => i = j
      /\ \A d \in ownIds(answer) : \E i \in DOMAIN r : r[i] = d
  BY <1>1, ListsOfSet
<1>3. \A i \in DOMAIN r : r[i] \in ownIds(answer)
  BY <1>2, LenProperties, ElementOfSeq
<1>4. DOMAIN r = 1..Len(r) /\ Len(r) \in Nat
  BY <1>2, LenProperties
<1>5. r \in Seq(RtId)
  <2>1. r = [i \in DOMAIN r |-> r[i]] /\ \A i \in DOMAIN r : r[i] \in RtId
    BY <1>1, <1>2, <1>3, <1>4, SeqDef
  <2> QED
    BY <1>2, <2>1, MappedType
<1>6. ASSUME NEW i \in DOMAIN r, NEW j \in DOMAIN r, r[i].n = r[j].n PROVE i = j
  <2>1. PICK a \in 1..k : r[i] = own(answer[a].id) /\ r[i].n = rtUsed + a
    BY <1>1, <1>3
  <2>2. PICK b \in 1..k : r[j] = own(answer[b].id) /\ r[j].n = rtUsed + b
    BY <1>1, <1>3
  <2>3. k \in Nat
    BY RequestTranslateAssumption
  <2>4. a = b
    BY <1>6, <2>1, <2>2, <2>3
  <2> QED
    BY <1>2, <2>1, <2>2, <2>4
<1> QED
  BY <1>2, <1>3, <1>4, <1>5, <1>6

\* The message that the client of Messages keeps.
KeptBlocks(answer) == [i \in DOMAIN answer |->
    IF answer[i].type = "tool_use" THEN [answer[i] EXCEPT !.id = fromCodexCallID(@)] ELSE answer[i]]

\* Its calls have different numbers, and upstream's form of them are the answered calls.
LEMMA KeptBlocksAre ==
  ASSUME rtProtocol = "messages", rtUsed \in Nat, NEW k \in 1..RtItems, NEW answer \in Answers(k)
  PROVE  /\ KeptBlocks(answer) \in Seq(RtBlock)
         /\ Numbers(KeptBlocks(answer), "tool_use")
         /\ Calls(KeptBlocks(answer)) = {toCodexCallID(d) : d \in ownIds(answer)}
<1> DEFINE b == KeptBlocks(answer)
<1>1. /\ answer \in Seq(RtBlock) /\ DOMAIN answer = 1..k /\ k \in Nat
      /\ \A i \in 1..k : /\ answer[i] \in RtBlock
                         /\ answer[i].type = "tool_use" => answer[i].id.n = rtUsed + i
  BY AnswerIs
<1>2. /\ b = [i \in DOMAIN b |-> b[i]] /\ DOMAIN b = DOMAIN answer
      /\ \A i \in DOMAIN answer :
            b[i] = IF answer[i].type = "tool_use"
                   THEN [answer[i] EXCEPT !.id = fromCodexCallID(@)] ELSE answer[i]
  BY DEF KeptBlocks
<1> HIDE DEF b
<1>3. ASSUME NEW i \in 1..k
      PROVE  /\ b[i] \in RtBlock /\ b[i].type = answer[i].type
             /\ answer[i].type = "tool_use" =>
                   b[i].id = fromCodexCallID(answer[i].id) /\ b[i].id.n = rtUsed + i
  <2>1. answer[i] \in RtBlock /\ answer[i].id \in RtId
    BY <1>1 DEF RtBlock
  <2>2. fromCodexCallID(answer[i].id) \in RtId /\ fromCodexCallID(answer[i].id).n = answer[i].id.n
    BY <2>1, CodexIds
  <2>3. CASE answer[i].type = "tool_use"
    <3>1. b[i] = [answer[i] EXCEPT !.id = fromCodexCallID(answer[i].id)]
      BY <1>1, <1>2, <2>3
    <3>2. b[i] \in RtBlock /\ b[i].type = answer[i].type /\ b[i].id = fromCodexCallID(answer[i].id)
      BY <2>1, <2>2, <3>1 DEF RtBlock
    <3> QED
      BY <1>1, <2>2, <2>3, <3>2
  <2>4. CASE answer[i].type # "tool_use"
    BY <1>1, <1>2, <2>1, <2>4
  <2> QED
    BY <2>3, <2>4
<1>4. b \in Seq(RtBlock)
  BY <1>1, <1>2, <1>3, MappedType
<1>5. Numbers(b, "tool_use")
  <2> SUFFICES ASSUME NEW i \in 1..k, NEW j \in 1..k, b[i].type = "tool_use", b[j].type = "tool_use",
                      b[i].id.n = b[j].id.n
               PROVE  i = j
    BY <1>1, <1>2 DEF Numbers
  <2>1. b[i].id.n = rtUsed + i /\ b[j].id.n = rtUsed + j
    BY <1>3
  <2>2. rtUsed + i = rtUsed + j
    BY <2>1
  <2> QED
    BY <1>1, <2>2
<1>6. ASSUME NEW e \in Calls(b) PROVE e \in {toCodexCallID(d) : d \in ownIds(answer)}
  <2>1. PICK i \in DOMAIN b : b[i].type = "tool_use" /\ e = toCodexCallID(b[i].id)
    BY DEF Calls
  <2>2. i \in DOMAIN answer /\ answer[i].type = "tool_use" /\ b[i].id = own(answer[i].id)
    BY <1>1, <1>2, <1>3, <2>1 DEF own
  <2> QED
    BY <2>1, <2>2 DEF ownIds
<1>7. ASSUME NEW d \in ownIds(answer) PROVE toCodexCallID(d) \in Calls(b)
  <2>1. PICK i \in DOMAIN answer : answer[i].type = "tool_use" /\ d = own(answer[i].id)
    BY DEF ownIds
  <2>2. i \in DOMAIN b /\ b[i].type = "tool_use" /\ b[i].id = d
    BY <1>1, <1>2, <1>3, <2>1 DEF own
  <2> QED
    BY <2>2 DEF Calls
<1>8. Calls(b) = {toCodexCallID(d) : d \in ownIds(answer)}
  BY <1>6, <1>7
<1> QED
  BY <1>4, <1>5, <1>8 DEF b

\* The message that the client of Messages sends back.
ReplyBlocks(r, at, text) == InsertAt([i \in DOMAIN r |-> resultBlock(r[i])], at, spokenBlock(text))

\* Its places.
Placed(u, r, at, text) ==
    /\ u \in Seq(RtBlock) /\ DOMAIN u = 1..(Len(r) + 1) /\ Len(r) \in Nat
    /\ \A i \in 1..(Len(r) + 1) :
          u[i] = IF i < at THEN resultBlock(r[i])
                 ELSE IF i = at THEN spokenBlock(text) ELSE resultBlock(r[i - 1])

\* That is what they are.
LEMMA ReplyPlaces ==
  ASSUME NEW r \in Seq(RtId), NEW at \in 1..(Len(r) + 1), NEW text \in Nat,
         NEW u, u = ReplyBlocks(r, at, text)
  PROVE  Placed(u, r, at, text)
<1> DEFINE m == Len(r)
           bs == [i \in DOMAIN r |-> resultBlock(r[i])]
           x == spokenBlock(text)
           p == SubSeq(bs, 1, at - 1)
           q == SubSeq(bs, at, Len(bs))
<1>1. m \in Nat /\ DOMAIN r = 1..m /\ \A i \in 1..m : r[i] \in RtId
  BY LenProperties, ElementOfSeq
<1>2. x \in RtBlock
  BY DEF spokenBlock, CallId, RtBlock, RtId
<1>3. /\ DOMAIN bs = DOMAIN r /\ bs = [i \in DOMAIN bs |-> bs[i]]
      /\ \A i \in DOMAIN r : bs[i] = resultBlock(r[i]) /\ bs[i] \in RtBlock
  BY <1>1 DEF resultBlock, RtBlock
<1> HIDE DEF m, bs, x
<1>4. bs \in Seq(RtBlock) /\ Len(bs) = m
  BY <1>3, MappedType DEF m
<1>5. at \in Int /\ at - 1 \in Int /\ m \in Int /\ at \in 1..(m + 1)
  BY <1>1 DEF m
<1>6. /\ p \in Seq(RtBlock) /\ Len(p) = at - 1
      /\ \A i \in 1..(at - 1) : p[i] = bs[i]
  <2>1. \A i \in 1..(at - 1) : bs[i] \in RtBlock
    BY <1>1, <1>3, <1>5
  <2>2. /\ SubSeq(bs, 1, at - 1) \in Seq(RtBlock)
        /\ Len(SubSeq(bs, 1, at - 1)) = IF 1 <= at - 1 THEN (at - 1) - 1 + 1 ELSE 0
        /\ \A i \in 1..((at - 1) - 1 + 1) : SubSeq(bs, 1, at - 1)[i] = bs[1 + i - 1]
    BY <1>5, <2>1, SubSeqProperties
  <2> QED
    BY <1>5, <2>2
<1>7. /\ q \in Seq(RtBlock) /\ Len(q) = m - at + 1
      /\ \A i \in 1..(m - at + 1) : q[i] = bs[at + i - 1]
  <2>1. \A i \in at..m : bs[i] \in RtBlock
    BY <1>1, <1>3, <1>5
  <2>2. /\ SubSeq(bs, at, m) \in Seq(RtBlock)
        /\ Len(SubSeq(bs, at, m)) = IF at <= m THEN m - at + 1 ELSE 0
        /\ \A i \in 1..(m - at + 1) : SubSeq(bs, at, m)[i] = bs[at + i - 1]
    BY <1>5, <2>1, SubSeqProperties
  <2> QED
    BY <1>4, <1>5, <2>2
<1> HIDE DEF p, q
<1> DEFINE v == p \o <<x>>
           w == v \o q
<1>8. /\ v \in Seq(RtBlock) /\ Len(v) = at
      /\ \A i \in 1..at : v[i] = IF i < at THEN bs[i] ELSE x
  <2> DEFINE o == <<x>>
  <2>1. o \in Seq(RtBlock) /\ Len(o) = 1 /\ o[1] = x
    BY <1>2
  <2> HIDE DEF o
  <2>2. /\ p \o o \in Seq(RtBlock) /\ Len(p \o o) = Len(p) + Len(o)
        /\ \A i \in 1..(Len(p) + Len(o)) : (p \o o)[i] = IF i <= Len(p) THEN p[i] ELSE o[i - Len(p)]
    BY <1>6, <2>1, ConcatProperties
  <2>3. ASSUME NEW i \in 1..at PROVE (p \o o)[i] = IF i < at THEN bs[i] ELSE x
    BY <1>5, <1>6, <2>1, <2>2
  <2> QED
    BY <1>5, <1>6, <2>1, <2>2, <2>3 DEF o
<1> HIDE DEF v
<1>9. /\ w \in Seq(RtBlock) /\ Len(w) = m + 1
      /\ \A i \in 1..(m + 1) : w[i] = IF i <= at THEN v[i] ELSE q[i - at]
  <2>1. /\ v \o q \in Seq(RtBlock) /\ Len(v \o q) = Len(v) + Len(q)
        /\ \A i \in 1..(Len(v) + Len(q)) : (v \o q)[i] = IF i <= Len(v) THEN v[i] ELSE q[i - Len(v)]
    BY <1>7, <1>8, ConcatProperties
  <2>2. Len(v) + Len(q) = m + 1
    BY <1>5, <1>7, <1>8
  <2> QED
    BY <1>8, <2>1, <2>2
<1> HIDE DEF w
<1>10. ASSUME NEW i \in 1..(m + 1)
       PROVE  w[i] = IF i < at THEN resultBlock(r[i]) ELSE IF i = at THEN x ELSE resultBlock(r[i - 1])
  <2>1. CASE i < at
    BY <1>1, <1>3, <1>5, <1>8, <1>9, <2>1
  <2>2. CASE i = at
    BY <1>5, <1>8, <1>9, <2>2
  <2>3. CASE i > at
    <3>1. i - at \in 1..(m - at + 1) /\ at + (i - at) - 1 = i - 1 /\ i - 1 \in 1..m
      BY <1>5, <2>3
    <3>2. w[i] = q[i - at]
      BY <1>5, <1>9, <2>3
    <3>3. q[i - at] = bs[i - 1]
      BY <1>7, <3>1
    <3> QED
      BY <1>1, <1>3, <1>5, <2>3, <3>1, <3>2, <3>3
  <2> QED
    BY <1>5, <2>1, <2>2, <2>3
<1>11. u = w
  BY DEF ReplyBlocks, InsertAt, w, v, p, q, bs, x
<1>12. DOMAIN w = 1..(m + 1)
  BY <1>9, LenProperties
<1> QED
  BY <1>1, <1>9, <1>10, <1>11, <1>12 DEF Placed, m, x

\* Its results are those of the answer's calls.
LEMMA ReplyBlocksAre ==
  ASSUME rtProtocol = "messages", rtUsed \in Nat, NEW k \in 1..RtItems, NEW answer \in Answers(k),
         NEW r \in SetToSeqs(ownIds(answer)), NEW at \in 1..(Cardinality(ownIds(answer)) + 1),
         NEW text \in Nat, NEW u, u = ReplyBlocks(r, at, text)
  PROVE  /\ u \in Seq(RtBlock) /\ Numbers(u, "tool_result")
         /\ Results(u) = {toCodexCallID(d) : d \in ownIds(answer)}
<1> DEFINE m == Len(r)
<1>1. /\ r \in Seq(RtId) /\ m = Cardinality(ownIds(answer)) /\ m \in Nat /\ DOMAIN r = 1..m
      /\ \A i \in DOMAIN r : r[i] \in ownIds(answer)
      /\ \A d \in ownIds(answer) : \E i \in DOMAIN r : r[i] = d
      /\ \A i, j \in DOMAIN r : r[i].n = r[j].n => i = j
  BY ResultsAre
<1>2. /\ u \in Seq(RtBlock) /\ DOMAIN u = 1..(m + 1)
      /\ \A i \in 1..(m + 1) :
            u[i] = IF i < at THEN resultBlock(r[i])
                   ELSE IF i = at THEN spokenBlock(text) ELSE resultBlock(r[i - 1])
  <2>1. at \in 1..(Len(r) + 1)
    BY <1>1
  <2>0. Placed(u, r, at, text)
    BY <1>1, <2>1, ReplyPlaces
  <2>2. u \in Seq(RtBlock)
    BY <2>0 DEF Placed
  <2>3. DOMAIN u = 1..(m + 1)
    BY <2>0 DEF Placed
  <2>4. ASSUME NEW i \in 1..(m + 1)
        PROVE  u[i] = IF i < at THEN resultBlock(r[i])
                      ELSE IF i = at THEN spokenBlock(text) ELSE resultBlock(r[i - 1])
    <3>1. i \in 1..(Len(r) + 1) /\ r \in Seq(RtId)
      BY <1>1
    <3> QED
      BY <2>0, <3>1 DEF Placed
  <2> QED
    BY <2>2, <2>3, <2>4
<1> HIDE DEF m
<1> DEFINE w(i) == IF i < at THEN i ELSE i - 1
<1>3. at \in Nat /\ at \in 1..(m + 1)
  BY <1>1
<1>4. ASSUME NEW i \in 1..(m + 1), u[i].type = "tool_result"
      PROVE  i # at /\ w(i) \in 1..m /\ u[i].id = r[w(i)]
  <2>1. i # at
    <3>1. spokenBlock(text).type = "text"
      BY DEF spokenBlock
    <3>2. u[at] = spokenBlock(text)
      BY <1>2, <1>3
    <3>3. u[at].type # "tool_result"
      BY <3>1, <3>2
    <3> QED
      BY <1>4, <3>3
  <2>2. w(i) \in 1..m
    BY <1>1, <1>3, <2>1
  <2>3. u[i] = resultBlock(r[w(i)])
    BY <1>2, <1>3, <2>1
  <2> QED
    BY <2>1, <2>2, <2>3 DEF resultBlock
<1>5. Numbers(u, "tool_result")
  <2> SUFFICES ASSUME NEW i \in 1..(m + 1), NEW j \in 1..(m + 1),
                      u[i].type = "tool_result", u[j].type = "tool_result", u[i].id.n = u[j].id.n
               PROVE  i = j
    BY <1>2 DEF Numbers
  <2>1. /\ i # at /\ w(i) \in 1..m /\ u[i].id = r[w(i)]
        /\ j # at /\ w(j) \in 1..m /\ u[j].id = r[w(j)]
    BY <1>4
  <2>2. w(i) = w(j)
    <3> DEFINE a == w(i)
               b == w(j)
    <3>1. a \in DOMAIN r /\ b \in DOMAIN r /\ r[a].n = r[b].n
      BY <1>1, <2>1
    <3> HIDE DEF a, b
    <3>2. a = b
      BY <1>1, <3>1
    <3> QED
      BY <3>2 DEF a, b
  <2> QED
    BY <1>1, <1>3, <2>1, <2>2
<1>6. ASSUME NEW e \in Results(u) PROVE e \in {toCodexCallID(d) : d \in ownIds(answer)}
  <2>1. PICK i \in 1..(m + 1) : u[i].type = "tool_result" /\ e = toCodexCallID(u[i].id)
    BY <1>2 DEF Results
  <2>2. w(i) \in 1..m /\ u[i].id = r[w(i)]
    BY <1>4, <2>1
  <2>3. u[i].id \in ownIds(answer)
    BY <1>1, <2>2
  <2> QED
    BY <2>1, <2>3
<1>7. ASSUME NEW d \in ownIds(answer) PROVE toCodexCallID(d) \in Results(u)
  <2>1. PICK i \in 1..m : r[i] = d
    BY <1>1
  <2>2. CASE i < at
    <3>1. i \in DOMAIN u /\ u[i] = resultBlock(d)
      BY <1>1, <1>2, <2>1, <2>2
    <3>2. u[i].type = "tool_result" /\ u[i].id = d
      BY <3>1 DEF resultBlock
    <3> QED
      BY <3>1, <3>2 DEF Results
  <2>3. CASE ~(i < at)
    <3>1. i + 1 \in 1..(m + 1) /\ ~(i + 1 < at) /\ i + 1 # at /\ (i + 1) - 1 = i
      BY <1>1, <1>3, <2>3
    <3>2. i + 1 \in DOMAIN u /\ u[i + 1] = resultBlock(d)
      BY <1>2, <2>1, <3>1
    <3>3. u[i + 1].type = "tool_result" /\ u[i + 1].id = d
      BY <3>2 DEF resultBlock
    <3> QED
      BY <3>2, <3>3 DEF Results
  <2> QED
    BY <2>2, <2>3
<1>8. Results(u) = {toCodexCallID(d) : d \in ownIds(answer)}
  BY <1>6, <1>7
<1> QED
  BY <1>2, <1>5, <1>8

\* Identifiers of the upstream's form have the numbers of the turn.
LEMMA TurnNumbers ==
  ASSUME rtUsed \in Nat, NEW k \in 1..RtItems, NEW answer \in Answers(k), NEW d \in ownIds(answer)
  PROVE  /\ d.n \in Nat /\ d.n > rtUsed /\ d.n <= rtUsed + RtItems + 1
         /\ toCodexCallID(d).n = d.n
<1>1. d \in RtId /\ \E i \in 1..k : d.n = rtUsed + i
  BY OwnIdsAre
<1>2. k \in Nat /\ k <= RtItems /\ RtItems \in Nat
  BY RequestTranslateAssumption
<1>3. toCodexCallID(d).n = d.n
  BY <1>1, CodexIds
<1> QED
  BY <1>1, <1>2, <1>3

\* A turn of Messages.
LEMMA MessagesTurn ==
  ASSUME rtProtocol = "messages", rtUsed \in Nat, NEW k \in 1..RtItems, NEW answer \in Answers(k),
         NEW r \in SetToSeqs(ownIds(answer)), NEW at \in 1..(Cardinality(ownIds(answer)) + 1),
         NEW text \in Nat
  PROVE  Adds(<<[role |-> "assistant", blocks |-> KeptBlocks(answer)]>>
                  \o <<[role |-> "user", blocks |-> ReplyBlocks(r, at, text)]>>, rtUsed + RtItems + 1)
<1> DEFINE b == KeptBlocks(answer)
           u == ReplyBlocks(r, at, text)
           x == [role |-> "assistant", blocks |-> b]
           y == [role |-> "user", blocks |-> u]
           s == appendAssistantBlocks(b)
           t == appendUserBlocks(u)
           D == {toCodexCallID(d) : d \in ownIds(answer)}
           call == "function_call"
           out == "function_call_output"
<1>1. b \in Seq(RtBlock) /\ Numbers(b, "tool_use") /\ Calls(b) = D
  BY KeptBlocksAre
<1>2. u \in Seq(RtBlock) /\ Numbers(u, "tool_result") /\ Results(u) = D
  BY ReplyBlocksAre
<1> HIDE DEF b, u, D
<1>3. x \in MsgMessage /\ y \in MsgMessage
  BY <1>1, <1>2 DEF MsgMessage
<1>4. MsgItems[x] = s /\ MsgItems[y] = t
  BY <1>3 DEF MsgItems
<1>5. s \in Seq(InputItem) /\ IdsOf(s, out) = {} /\ IdsOf(s, call) = D /\ Once(s, call)
  BY <1>1, AssistantBlocks
<1>6. t \in Seq(InputItem) /\ IdsOf(t, call) = {} /\ IdsOf(t, out) = D /\ Once(t, out)
  BY <1>2, UserBlocks
<1> HIDE DEF x, y, s, t
<1>7. Kept = MsgMessage /\ ItemsOf = MsgItems
  BY DEF Kept, ItemsOf
<1>8. <<x>> \in Seq(MsgMessage) /\ <<y>> \in Seq(MsgMessage)
  BY <1>3
<1>9. <<x>> \o <<y>> \in Seq(MsgMessage) /\ Each(<<x>> \o <<y>>, MsgItems) = s \o t
  <2>1. Each(<<x>>, MsgItems) = s /\ Each(<<y>>, MsgItems) = t
    BY <1>3, <1>4, MessageTypes, EachOne
  <2> DEFINE p == <<x>>
             q == <<y>>
  <2>2. p \in Seq(MsgMessage) /\ q \in Seq(MsgMessage)
    BY <1>8
  <2>3. MsgItems \in [MsgMessage -> Seq(InputItem)]
    BY MessageTypes
  <2> HIDE DEF p, q
  <2>4. p \o q \in Seq(MsgMessage) /\ Each(p \o q, MsgItems) = Each(p, MsgItems) \o Each(q, MsgItems)
    BY <2>2, <2>3, EachJoin, ConcatProperties
  <2> QED
    BY <2>1, <2>4 DEF p, q
<1>10. Of(s, out) = {} /\ Of(t, call) = {}
  BY <1>5, <1>6, NoIds
<1>11. PairedIn(s \o t)
  BY <1>5, <1>6, <1>10, PairedOutputs
<1>12. Between(s \o t, rtUsed, rtUsed + RtItems + 1)
  <2>1. \A type : IdsOf(s \o t, type) = IdsOf(s, type) \cup IdsOf(t, type)
    BY <1>5, <1>6, IdsJoin
  <2>2. IdsOf(s \o t, call) = D /\ IdsOf(s \o t, out) = D
    BY <1>5, <1>6, <2>1
  <2>3. ASSUME NEW e \in D PROVE e.n \in Nat /\ e.n > rtUsed /\ e.n <= rtUsed + RtItems + 1
    <3>1. PICK d \in ownIds(answer) : e = toCodexCallID(d)
      BY DEF D
    <3> QED
      BY <3>1, TurnNumbers
  <2> QED
    BY <2>2, <2>3 DEF Between
<1>13. Adds(<<x>> \o <<y>>, rtUsed + RtItems + 1)
  BY <1>7, <1>9, <1>11, <1>12 DEF Adds
<1> QED
  BY <1>13 DEF x, y, b, u

\* The upstream's answer as the client of Chat Completions keeps it.
ChatAnswer(answer) ==
    [role |-> "assistant", texts |-> textsOf(answer), calls |-> Each(answer, BlockCall)]

\* What they become.
LEMMA ChatTurnItems ==
  /\ \A id \in RtId : /\ toolMessage(id) \in ChatMessage
                      /\ IdsOf(ChatItems[toolMessage(id)], "function_call_output") = {id}
                      /\ IdsOf(ChatItems[toolMessage(id)], "function_call") = {}
  /\ \A text \in Nat : /\ spokenMessage(text) \in ChatMessage
                       /\ IdsOf(ChatItems[spokenMessage(text)], "function_call_output") = {}
                       /\ IdsOf(ChatItems[spokenMessage(text)], "function_call") = {}
<1>1. ASSUME NEW id \in RtId
      PROVE  /\ toolMessage(id) \in ChatMessage
             /\ IdsOf(ChatItems[toolMessage(id)], "function_call_output") = {id}
             /\ IdsOf(ChatItems[toolMessage(id)], "function_call") = {}
  <2> DEFINE m == toolMessage(id)
  <2>1. m.role = "tool" /\ m.calls[1] = id
    BY DEF toolMessage
  <2>2. m \in ChatMessage
    <3> DEFINE c == <<id>>
               e == <<>>
               N == Nat
    <3>1. c \in Seq(RtId) /\ c # <<>> /\ e \in Seq(N) /\ e = <<>>
      BY EmptySeq
    <3>2. m = [role |-> "tool", texts |-> e, calls |-> c]
      BY DEF toolMessage
    <3> HIDE DEF c, e, m
    <3>3. m \in [role : {"user", "assistant", "tool"}, texts : Seq(Nat), calls : Seq(RtId)]
      BY <3>1, <3>2
    <3> QED
      BY <3>1, <3>2, <3>3 DEF ChatMessage
  <2> HIDE DEF m
  <2>3. IdsOf(convertMessage(m), "function_call_output") = {id}
    BY <2>1, <2>2, ChatItem
  <2>4. IdsOf(convertMessage(m), "function_call") = {}
    BY <2>1, <2>2, ChatItem
  <2>5. ChatItems[m] = convertMessage(m)
    BY <2>2 DEF ChatItems
  <2> QED
    BY <2>2, <2>3, <2>4, <2>5 DEF m
<1>2. ASSUME NEW text \in Nat
      PROVE  /\ spokenMessage(text) \in ChatMessage
             /\ IdsOf(ChatItems[spokenMessage(text)], "function_call_output") = {}
             /\ IdsOf(ChatItems[spokenMessage(text)], "function_call") = {}
  <2> DEFINE m == spokenMessage(text)
  <2>1. m.role = "user"
    BY DEF spokenMessage
  <2>2. m \in ChatMessage
    <3> DEFINE c == <<text>>
               e == <<>>
    <3>1. c \in Seq(Nat) /\ e \in Seq(RtId)
      BY EmptySeq
    <3>2. m = [role |-> "user", texts |-> c, calls |-> e]
      BY DEF spokenMessage
    <3> HIDE DEF c, e, m
    <3>3. m \in [role : {"user", "assistant", "tool"}, texts : Seq(Nat), calls : Seq(RtId)]
      BY <3>1, <3>2
    <3> QED
      BY <3>2, <3>3 DEF ChatMessage
  <2> HIDE DEF m
  <2>3. IdsOf(convertMessage(m), "function_call_output") = {}
    BY <2>1, <2>2, ChatItem
  <2>4. IdsOf(convertMessage(m), "function_call") = {}
    BY <2>1, <2>2, ChatItem
  <2>5. ChatItems[m] = convertMessage(m)
    BY <2>2 DEF ChatItems
  <2> QED
    BY <2>2, <2>3, <2>4, <2>5 DEF m
<1> QED
  BY <1>1, <1>2

\* An answer of Chat Completions: its calls, each once.
LEMMA ChatAnswerIs ==
  ASSUME rtProtocol = "chat", rtUsed \in Nat, NEW k \in 1..RtItems, NEW answer \in Answers(k),
         NEW m, m = ChatAnswer(answer)
  PROVE  /\ m \in ChatMessage
         /\ IdsOf(ChatItems[m], "function_call_output") = {}
         /\ IdsOf(ChatItems[m], "function_call") = ownIds(answer)
         /\ Once(ChatItems[m], "function_call")
<1> DEFINE c == Each(answer, BlockCall)
           x == textsOf(answer)
<1>1. /\ answer \in Seq(RtBlock) /\ DOMAIN answer = 1..k /\ k \in Nat
      /\ \A i \in 1..k : answer[i].type = "tool_use" => answer[i].id.n = rtUsed + i
  BY AnswerIs
<1>2. c \in Seq(RtId) /\ x \in Seq(Nat)
  BY <1>1, BlockTypes, EachType, TextsOfIs
<1>3. /\ \A d : d \in IdsOf(CallList(c), "function_call") <=>
                   \E i \in DOMAIN answer : answer[i].type = "tool_use" /\ d = answer[i].id
      /\ Numbers(answer, "tool_use") => Once(CallList(c), "function_call")
  BY <1>1, CallListOf
<1>4. m = [role |-> "assistant", texts |-> x, calls |-> c]
  BY DEF ChatAnswer
<1> HIDE DEF c, x
<1>5. m \in ChatMessage /\ m.role = "assistant" /\ m.calls = c
  <2>1. m \in [role : {"user", "assistant", "tool"}, texts : Seq(Nat), calls : Seq(RtId)]
    BY <1>2, <1>4
  <2> QED
    BY <1>4, <2>1 DEF ChatMessage
<1>6. Numbers(answer, "tool_use")
  <2> SUFFICES ASSUME NEW i \in 1..k, NEW j \in 1..k,
                      answer[i].type = "tool_use", answer[j].type = "tool_use",
                      answer[i].id.n = answer[j].id.n
               PROVE  i = j
    BY <1>1 DEF Numbers
  <2>1. answer[i].id.n = rtUsed + i /\ answer[j].id.n = rtUsed + j
    BY <1>1
  <2>2. rtUsed + i = rtUsed + j
    BY <2>1
  <2> QED
    BY <1>1, <2>2
<1>7. IdsOf(CallList(c), "function_call") = ownIds(answer)
  <2>1. \A d : d \in ownIds(answer) <=>
                  \E i \in DOMAIN answer : answer[i].type = "tool_use" /\ d = answer[i].id
    BY DEF ownIds, own
  <2> QED
    BY <1>3, <2>1
<1>8. ChatItems[m] = convertMessage(m)
  BY <1>5 DEF ChatItems
<1>9. IdsOf(convertMessage(m), "function_call_output") = {}
  BY <1>5, ChatItem
<1>10. IdsOf(convertMessage(m), "function_call") = ownIds(answer)
  <2>1. IdsOf(convertMessage(m), "function_call") = IdsOf(CallList(m.calls), "function_call")
    BY <1>5, ChatItem
  <2> QED
    BY <1>5, <1>7, <2>1
<1>11. Once(convertMessage(m), "function_call")
  <2>1. Once(CallList(m.calls), "function_call")
    BY <1>3, <1>5, <1>6
  <2> QED
    BY <1>5, <2>1, ChatItem
<1> QED
  BY <1>5, <1>8, <1>9, <1>10, <1>11

\* The results of Chat Completions: those of the answer's calls, each once.
LEMMA ChatResultsAre ==
  ASSUME rtProtocol = "chat", rtUsed \in Nat, NEW k \in 1..RtItems, NEW answer \in Answers(k),
         NEW r \in SetToSeqs(ownIds(answer)),
         NEW p, p = [i \in DOMAIN r |-> toolMessage(r[i])]
  PROVE  /\ p \in Seq(ChatMessage)
         /\ IdsOf(Each(p, ChatItems), "function_call") = {}
         /\ IdsOf(Each(p, ChatItems), "function_call_output") = ownIds(answer)
         /\ Once(Each(p, ChatItems), "function_call_output")
<1> DEFINE out == "function_call_output"
           call == "function_call"
<1>1. /\ r \in Seq(RtId)
      /\ \A i \in DOMAIN r : r[i] \in ownIds(answer) /\ r[i] \in RtId
      /\ \A d \in ownIds(answer) : \E i \in DOMAIN r : r[i] = d
      /\ \A i, j \in DOMAIN r : r[i] = r[j] => i = j
  <2>1. /\ r \in Seq(RtId)
        /\ \A i \in DOMAIN r : r[i] \in ownIds(answer)
        /\ \A d \in ownIds(answer) : \E i \in DOMAIN r : r[i] = d
        /\ \A i, j \in DOMAIN r : r[i].n = r[j].n => i = j
    BY ResultsAre
  <2>2. \A i \in DOMAIN r : r[i] \in RtId
    BY <2>1, OwnIdsAre
  <2> QED
    BY <2>1, <2>2
<1>2. DOMAIN p = DOMAIN r /\ p = [i \in DOMAIN p |-> p[i]]
  OBVIOUS
<1>3. ASSUME NEW i \in DOMAIN r
      PROVE  /\ p[i] \in ChatMessage /\ IdsOf(ChatItems[p[i]], out) = {r[i]}
             /\ IdsOf(ChatItems[p[i]], call) = {}
  <2>1. p[i] = toolMessage(r[i]) /\ r[i] \in RtId
    BY <1>1
  <2> QED
    BY <2>1, ChatTurnItems
<1>4. p \in Seq(ChatMessage)
  BY <1>1, <1>2, <1>3, MappedType
<1>5. ChatItems \in [ChatMessage -> Seq(InputItem)]
  BY MessageTypes
<1>6. \A type : \A d : d \in IdsOf(Each(p, ChatItems), type)
                         <=> \E i \in DOMAIN p : d \in IdsOf(ChatItems[p[i]], type)
  BY <1>4, <1>5, EachIds
<1>7. IdsOf(Each(p, ChatItems), call) = {}
  BY <1>2, <1>3, <1>6
<1>8. IdsOf(Each(p, ChatItems), out) = ownIds(answer)
  <2>1. ASSUME NEW d \in IdsOf(Each(p, ChatItems), out) PROVE d \in ownIds(answer)
    <3>1. PICK i \in DOMAIN p : d \in IdsOf(ChatItems[p[i]], out)
      BY <1>6, <2>1
    <3>2. d = r[i]
      BY <1>2, <1>3, <3>1
    <3> QED
      BY <1>1, <1>2, <3>2
  <2>2. ASSUME NEW d \in ownIds(answer) PROVE d \in IdsOf(Each(p, ChatItems), out)
    BY <1>1, <1>2, <1>3, <1>6
  <2> QED
    BY <2>1, <2>2
<1>9. \A m \in ChatMessage : Once(ChatItems[m], out)
  <2> SUFFICES ASSUME NEW m \in ChatMessage PROVE Once(ChatItems[m], out)
    OBVIOUS
  <2>1. ChatItems[m] = convertMessage(m)
    BY DEF ChatItems
  <2>2. m.role # "assistant" => Once(convertMessage(m), out)
    BY ChatItem
  <2>3. m.role = "assistant" => IdsOf(convertMessage(m), out) = {}
    BY ChatItem
  <2>4. IdsOf(convertMessage(m), out) = {} => Once(convertMessage(m), out)
    BY NoIds DEF Once
  <2> QED
    BY <2>1, <2>2, <2>3, <2>4
<1>10. Once(Each(p, ChatItems), out)
  <2>1. ASSUME NEW i \in DOMAIN p, NEW j \in DOMAIN p, i # j, NEW d \in IdsOf(ChatItems[p[i]], out)
        PROVE  d \notin IdsOf(ChatItems[p[j]], out)
    <3>1. /\ IdsOf(ChatItems[p[i]], out) = {r[i]} /\ IdsOf(ChatItems[p[j]], out) = {r[j]}
          /\ r[i] # r[j]
      BY <1>1, <1>2, <1>3, <2>1
    <3> QED
      BY <2>1, <3>1
  <2> QED
    BY <1>4, <1>5, <1>9, <2>1, EachOnce
<1> QED
  BY <1>4, <1>7, <1>8, <1>10

\* A turn of Chat Completions.
LEMMA ChatTurn ==
  ASSUME rtProtocol = "chat", rtUsed \in Nat, NEW k \in 1..RtItems, NEW answer \in Answers(k),
         NEW r \in SetToSeqs(ownIds(answer)), NEW text \in Nat
  PROVE  Adds(<<ChatAnswer(answer)>>
                  \o ([i \in DOMAIN r |-> toolMessage(r[i])] \o <<spokenMessage(text)>>),
              rtUsed + RtItems + 1)
<1> DEFINE m == ChatAnswer(answer)
           p == [i \in DOMAIN r |-> toolMessage(r[i])]
           y == spokenMessage(text)
           a == <<m>>
           b == <<y>>
           D == ownIds(answer)
           g == ChatItems
           s == ChatItems[m]
           q == Each(p, ChatItems)
           z == ChatItems[y]
           t == q \o z
           call == "function_call"
           out == "function_call_output"
<1>1. m \in ChatMessage /\ IdsOf(s, out) = {} /\ IdsOf(s, call) = D /\ Once(s, call)
  BY ChatAnswerIs
<1>2. /\ p \in Seq(ChatMessage) /\ IdsOf(q, call) = {} /\ IdsOf(q, out) = D /\ Once(q, out)
  BY ChatResultsAre
<1>3. y \in ChatMessage /\ IdsOf(z, out) = {} /\ IdsOf(z, call) = {}
  BY ChatTurnItems
<1>4. g \in [ChatMessage -> Seq(InputItem)]
  BY MessageTypes
<1> HIDE DEF m, p, y, D, g
<1>5. Kept = ChatMessage /\ ItemsOf = g
  BY DEF Kept, ItemsOf, g
<1>6. a \in Seq(ChatMessage) /\ b \in Seq(ChatMessage) /\ Each(a, g) = s /\ Each(b, g) = z
  <2>1. a \in Seq(ChatMessage) /\ b \in Seq(ChatMessage)
    BY <1>1, <1>3
  <2>2. Each(a, g) = g[m]
    BY <1>1, <1>4, EachOne
  <2>3. Each(b, g) = g[y]
    BY <1>3, <1>4, EachOne
  <2> QED
    BY <2>1, <2>2, <2>3 DEF g
<1>7. s \in Seq(InputItem) /\ q \in Seq(InputItem) /\ z \in Seq(InputItem)
  <2>1. g[m] \in Seq(InputItem) /\ g[y] \in Seq(InputItem)
    BY <1>1, <1>3, <1>4
  <2>2. Each(p, g) \in Seq(InputItem)
    BY <1>2, <1>4, EachType
  <2> QED
    BY <2>1, <2>2 DEF g
<1>8. q = Each(p, g)
  BY DEF g
<1> HIDE DEF a, b, s, q, z
<1>9. /\ p \o b \in Seq(ChatMessage) /\ Each(p \o b, g) = t
      /\ a \o (p \o b) \in Seq(ChatMessage) /\ Each(a \o (p \o b), g) = s \o t
  <2>1. p \o b \in Seq(ChatMessage) /\ Each(p \o b, g) = q \o z
    <3>1. p \o b \in Seq(ChatMessage)
      BY <1>2, <1>6, ConcatProperties
    <3>2. \A v \in Seq(ChatMessage) : Each(p \o v, g) = Each(p, g) \o Each(v, g)
      BY <1>2, <1>4, EachJoin
    <3> QED
      BY <1>6, <1>8, <3>1, <3>2
  <2> DEFINE c == p \o b
  <2>2. c \in Seq(ChatMessage) /\ Each(c, g) = t
    BY <2>1
  <2> HIDE DEF c, t
  <2>3. a \o c \in Seq(ChatMessage) /\ Each(a \o c, g) = s \o t
    <3>1. a \o c \in Seq(ChatMessage)
      BY <1>6, <2>2, ConcatProperties
    <3>2. \A v \in Seq(ChatMessage) : Each(a \o v, g) = Each(a, g) \o Each(v, g)
      BY <1>4, <1>6, EachJoin
    <3> QED
      BY <1>6, <2>2, <3>1, <3>2
  <2> QED
    BY <2>2, <2>3 DEF c
<1>10. t \in Seq(InputItem)
  BY <1>7, ConcatProperties
<1>11. IdsOf(t, call) = {} /\ IdsOf(t, out) = D
  <2>1. \A type : IdsOf(t, type) = IdsOf(q, type) \cup IdsOf(z, type)
    BY <1>7, IdsJoin
  <2> QED
    BY <1>2, <1>3, <2>1
<1>12. Once(t, out)
  <2>1. Once(z, out)
    BY <1>3, NoIds DEF Once
  <2> QED
    BY <1>2, <1>3, <1>7, <2>1, OnceJoin
<1>13. Of(s, out) = {} /\ Of(t, call) = {}
  BY <1>1, <1>11, NoIds
<1> HIDE DEF t
<1>14. PairedIn(s \o t)
  BY <1>1, <1>7, <1>10, <1>11, <1>12, <1>13, PairedOutputs
<1>15. Between(s \o t, rtUsed, rtUsed + RtItems + 1)
  <2>1. \A type : IdsOf(s \o t, type) = IdsOf(s, type) \cup IdsOf(t, type)
    BY <1>7, <1>10, IdsJoin
  <2>2. IdsOf(s \o t, call) = D /\ IdsOf(s \o t, out) = D
    BY <1>1, <1>11, <2>1
  <2>3. ASSUME NEW e \in D PROVE e.n \in Nat /\ e.n > rtUsed /\ e.n <= rtUsed + RtItems + 1
    <3>1. e \in ownIds(answer)
      BY DEF D
    <3> QED
      BY <3>1, TurnNumbers
  <2> QED
    BY <2>2, <2>3 DEF Between
<1>16. Adds(a \o (p \o b), rtUsed + RtItems + 1)
  BY <1>5, <1>9, <1>14, <1>15 DEF Adds
<1> QED
  BY <1>16 DEF a, b, m, p, y

\* What the client keeps of an answer is one of these.
LEMMA AnsweredIs ==
  ASSUME rtProtocol \in {"messages", "chat"}, rtUsed \in Nat, NEW k \in 1..RtItems,
         NEW answer \in Answers(k)
  PROVE  answered(answer) = IF rtProtocol = "messages"
                            THEN <<[role |-> "assistant", blocks |-> KeptBlocks(answer)]>>
                            ELSE <<ChatAnswer(answer)>>
<1>1. answer \in Seq(RtBlock)
  BY AnswerIs
<1>2. \A i \in DOMAIN answer : answer[i] \in RtBlock
  BY <1>1, LenProperties, ElementOfSeq
<1>3. [i \in DOMAIN answer |-> IF answer[i].type = "tool_use" THEN <<answer[i].id>> ELSE <<>>]
         = [i \in DOMAIN answer |-> BlockCall[answer[i]]]
  BY <1>2 DEF BlockCall
<1>4. ChatAnswer(answer)
         = [role |-> "assistant", texts |-> textsOf(answer),
            calls |-> FlattenSeq([i \in DOMAIN answer |->
                          IF answer[i].type = "tool_use" THEN <<answer[i].id>> ELSE <<>>])]
  BY <1>3 DEF ChatAnswer, Each
<1>5. CASE rtProtocol = "messages"
  BY <1>5 DEF answered, KeptBlocks
<1>6. CASE rtProtocol # "messages"
  BY <1>4, <1>6 DEF answered
<1> QED
  BY <1>5, <1>6

\* So is every reply of Messages.
LEMMA MessagesReplies ==
  ASSUME rtProtocol = "messages", NEW answer, NEW text, NEW reply \in replies(answer, text)
  PROVE  \E r \in SetToSeqs(ownIds(answer)) : \E at \in 1..(Cardinality(ownIds(answer)) + 1) :
            reply = <<[role |-> "user", blocks |-> ReplyBlocks(r, at, text)]>>
BY DEF replies, ReplyBlocks

\* A reply of Chat Completions.
ChatReply(reply, answer, text) ==
    \E r \in SetToSeqs(ownIds(answer)) :
        reply = [i \in DOMAIN r |-> toolMessage(r[i])] \o <<spokenMessage(text)>>

\* And every reply of Chat Completions.
LEMMA ChatReplies ==
  ASSUME rtProtocol = "chat", NEW answer, NEW text, NEW reply \in replies(answer, text)
  PROVE  ChatReply(reply, answer, text)
<1>1. rtProtocol # "messages"
  OBVIOUS
<1>2. replies(answer, text) = {[i \in DOMAIN r |-> toolMessage(r[i])] \o <<spokenMessage(text)>> :
                                  r \in SetToSeqs(ownIds(answer))}
  BY <1>1, SMT DEF replies
<1> QED
  BY <1>2, Zenon DEF ChatReply

\* Every turn adds messages that become pairs with new numbers.
LEMMA TurnAdds ==
  ASSUME rtProtocol \in {"messages", "chat"}, rtUsed \in Nat, NEW k \in 1..RtItems,
         NEW answer \in Answers(k), NEW reply \in replies(answer, rtUsed + k + 1)
  PROVE  Adds(answered(answer) \o reply, rtUsed + RtItems + 1)
<1> DEFINE text == rtUsed + k + 1
<1>1. text \in Nat
  BY RequestTranslateAssumption
<1>2. reply \in replies(answer, text)
  OBVIOUS
<1> HIDE DEF text
<1>4. CASE rtProtocol = "messages"
  <2>0. PICK r \in SetToSeqs(ownIds(answer)) : \E at \in 1..(Cardinality(ownIds(answer)) + 1) :
           reply = <<[role |-> "user", blocks |-> ReplyBlocks(r, at, text)]>>
    BY <1>2, <1>4, MessagesReplies
  <2>1. PICK at \in 1..(Cardinality(ownIds(answer)) + 1) :
           reply = <<[role |-> "user", blocks |-> ReplyBlocks(r, at, text)]>>
    BY <2>0
  <2>2. answered(answer) = <<[role |-> "assistant", blocks |-> KeptBlocks(answer)]>>
    BY <1>4, AnsweredIs
  <2> QED
    BY <1>1, <1>4, <2>1, <2>2, MessagesTurn
<1>5. CASE rtProtocol = "chat"
  <2>0. ChatReply(reply, answer, text)
    BY <1>2, <1>5, ChatReplies
  <2>1. PICK r \in SetToSeqs(ownIds(answer)) :
           reply = [i \in DOMAIN r |-> toolMessage(r[i])] \o <<spokenMessage(text)>>
    BY <2>0, Zenon DEF ChatReply
  <2>2. answered(answer) = <<ChatAnswer(answer)>>
    BY <1>5, AnsweredIs
  <2> QED
    BY <1>1, <1>5, <2>1, <2>2, ChatTurn
<1> QED
  BY <1>4, <1>5

\* They are messages of the protocol.
LEMMA TurnSequences ==
  ASSUME rtProtocol \in {"messages", "chat"}, rtUsed \in Nat, NEW k \in 1..RtItems,
         NEW answer \in Answers(k), NEW reply \in replies(answer, rtUsed + k + 1)
  PROVE  answered(answer) \in Seq(Kept) /\ reply \in Seq(Kept)
<1> DEFINE text == rtUsed + k + 1
<1>1. text \in Nat
  BY RequestTranslateAssumption
<1>2. reply \in replies(answer, text)
  OBVIOUS
<1> HIDE DEF text
<1>4. CASE rtProtocol = "messages"
  <2>0. PICK r \in SetToSeqs(ownIds(answer)) : \E at \in 1..(Cardinality(ownIds(answer)) + 1) :
           reply = <<[role |-> "user", blocks |-> ReplyBlocks(r, at, text)]>>
    BY <1>2, <1>4, MessagesReplies
  <2>1. PICK at \in 1..(Cardinality(ownIds(answer)) + 1) :
           reply = <<[role |-> "user", blocks |-> ReplyBlocks(r, at, text)]>>
    BY <2>0
  <2>2. answered(answer) = <<[role |-> "assistant", blocks |-> KeptBlocks(answer)]>>
    BY <1>4, AnsweredIs
  <2>3. KeptBlocks(answer) \in Seq(RtBlock)
    BY <1>4, KeptBlocksAre
  <2>4. ReplyBlocks(r, at, text) \in Seq(RtBlock)
    BY <1>1, <1>4, ReplyBlocksAre
  <2>5. /\ [role |-> "assistant", blocks |-> KeptBlocks(answer)] \in MsgMessage
        /\ [role |-> "user", blocks |-> ReplyBlocks(r, at, text)] \in MsgMessage
    BY <2>3, <2>4 DEF MsgMessage
  <2> QED
    BY <1>4, <2>1, <2>2, <2>5 DEF Kept
<1>5. CASE rtProtocol = "chat"
  <2>a. ChatReply(reply, answer, text)
    BY <1>2, <1>5, ChatReplies
  <2>0. PICK r \in SetToSeqs(ownIds(answer)) :
           reply = [i \in DOMAIN r |-> toolMessage(r[i])] \o <<spokenMessage(text)>>
    BY <2>a, Zenon DEF ChatReply
  <2> DEFINE p == [i \in DOMAIN r |-> toolMessage(r[i])]
             y == spokenMessage(text)
             m == ChatAnswer(answer)
  <2>1. reply = p \o <<y>>
    BY <2>0
  <2>2. answered(answer) = <<m>>
    BY <1>5, AnsweredIs
  <2>3. m \in ChatMessage
    BY <1>5, ChatAnswerIs
  <2>4. p \in Seq(ChatMessage)
    BY <1>5, ChatResultsAre
  <2>5. y \in ChatMessage
    BY <1>1, ChatTurnItems
  <2> HIDE DEF p, y, m
  <2>6. <<y>> \in Seq(ChatMessage) /\ <<m>> \in Seq(ChatMessage)
    BY <2>3, <2>5
  <2>7. p \o <<y>> \in Seq(ChatMessage)
    BY <2>4, <2>6, ConcatProperties
  <2> QED
    BY <1>5, <2>1, <2>2, <2>6, <2>7 DEF Kept
<1> QED
  BY <1>4, <1>5

\* A step keeps the invariant: what a turn adds to the history pairs its calls, with
\* numbers above those used so far.
LEMMA RtStepInv == RtInv /\ [RequestTranslateNext]_rtVars => RtInv'
<1> SUFFICES ASSUME RtInv, [RequestTranslateNext]_rtVars PROVE RtInv'
  OBVIOUS
<1>0. rtProtocol \in {"messages", "chat"} /\ rtUsed \in Nat /\ rtHistory \in Seq(Kept)
  BY DEF RtInv
<1>1. CASE Turn
  <2>1. PICK k \in 1..RtItems : \E answer \in Answers(k) :
           \E reply \in replies(answer, rtUsed + k + 1) :
              /\ rtHistory' = rtHistory \o answered(answer) \o reply
              /\ rtUsed' = rtUsed + RtItems + 1
    BY <1>1 DEF Turn
  <2>0. PICK answer \in Answers(k) :
           \E reply \in replies(answer, rtUsed + k + 1) :
              /\ rtHistory' = rtHistory \o answered(answer) \o reply
              /\ rtUsed' = rtUsed + RtItems + 1
    BY <2>1
  <2>2. PICK reply \in replies(answer, rtUsed + k + 1) :
              /\ rtHistory' = rtHistory \o answered(answer) \o reply
              /\ rtUsed' = rtUsed + RtItems + 1
    BY <2>0
  <2> DEFINE one == answered(answer)
             new == one \o reply
             used == rtUsed + RtItems + 1
  <2>3. Adds(new, used)
    BY <1>0, TurnAdds
  <2>4. used \in Nat /\ used >= rtUsed
    BY <1>0, RequestTranslateAssumption
  <2>5. rtInput' = translated(rtHistory') /\ rtProtocol' = rtProtocol
    BY <1>1 DEF Turn
  <2>6. one \in Seq(Kept) /\ reply \in Seq(Kept)
    BY <1>0, TurnSequences
  <2>7. rtHistory' = rtHistory \o new
    <3>1. (rtHistory \o one) \o reply = rtHistory \o (one \o reply)
      <4> HIDE DEF one
      <4> QED
        BY <1>0, <2>6, ConcatAssociative
    <3> QED
      BY <2>2, <3>1
  <2>8. rtUsed' = used
    BY <2>2
  <2> HIDE DEF new, used
  <2>9. /\ rtHistory' \in Seq(Kept) /\ PairedIn(Each(rtHistory', ItemsOf))
        /\ Between(Each(rtHistory', ItemsOf), 0, used)
    BY <2>3, <2>4, <2>7, HistoryAdds
  <2>10. Kept' = Kept /\ ItemsOf' = ItemsOf
    BY <2>5 DEF Kept, ItemsOf, MsgMessage, ChatMessage, MsgItems, ChatItems
  <2>11. translated(rtHistory') = Each(rtHistory', ItemsOf)
    BY <2>9, TranslatedIs
  <2> QED
    BY <1>0, <2>4, <2>5, <2>8, <2>9, <2>10, <2>11 DEF RtInv
<1>2. CASE UNCHANGED rtVars
  BY <1>2 DEF rtVars, RtInv, Kept, ItemsOf
<1> QED
  BY <1>1, <1>2 DEF RequestTranslateNext

\* However a conversation goes on, and however long it is, its history is translated to an
\* input in which every output follows the call with its identifier, every call has one
\* output and every text is said once, in its order (src/proxy/translator.go and
\* src/proxy/anthropic.go, the translators of requests).
THEOREM InputSoundHolds == RequestTranslateSpec => []InputSound
<1>1. RequestTranslateInit => RtInv
  BY RtInitInv
<1>2. RtInv /\ [RequestTranslateNext]_rtVars => RtInv'
  BY RtStepInv
<1>3. RtInv => InputSound
  BY RtInvSound
<1> QED
  BY <1>1, <1>2, <1>3, PTL DEF RequestTranslateSpec

===============================================================================
