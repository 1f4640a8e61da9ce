------------------------------ MODULE Keepalive -------------------------------
(***************************************************************************)
(* The writers that keep a silent response alive: SSEWriter for a stream,   *)
(* JSONKeepaliveWriter for a single JSON body, and the heartbeat goroutine  *)
(* that SetupKeepalive starts beside the handler.  The two share a mutex,   *)
(* so that every method is one step; what interleaves are the methods, the  *)
(* timers, and the plain gin writes of the error path, which take no lock.  *)
(* One response is modelled, from SetupKeepalive to the deferred Close and  *)
(* cancel.  Timers fire on time.                                            *)
(***************************************************************************)
EXTENDS Integers

CONSTANTS
    Interval,       \* DefaultHeartbeatInterval, in units of five seconds
    IdleThreshold,  \* DefaultHeartbeatIdleThreshold
    Grace,          \* DefaultJSONKeepaliveGrace
    KaHorizon       \* bound on the clock

ASSUME KeepaliveAssumption ==
    /\ {Interval, IdleThreshold, Grace, KaHorizon} \subseteq Nat \ {0}
    /\ IdleThreshold <= Interval

VARIABLES
    kaKind,       \* "sse" or "json", fixed
    kaNow,
    kaWriter,     \* the fields of the writer
    kaBeat,       \* the heartbeat goroutine: its stage and when its timer is due
    kaCancelled,  \* the context of the heartbeat
    kaHandler,    \* what the handler does next
    kaWire        \* what net/http has been given

kaVars == <<kaKind, kaNow, kaWriter, kaBeat, kaCancelled, kaHandler, kaWire>>

Never == -1

\* status is the field of gin's writer, line the status that went out with the
\* first byte.  endAt: when the last part of the answer ([DONE] or the body) was
\* written; bodies counts JSON bodies; after and late count the bytes written after
\* the end of the answer and after the handler returned; crossed records that the
\* heartbeat took its first step after Started() had said no.
KeepaliveInit ==
    /\ kaKind \in {"sse", "json"}
    /\ kaNow = 0
    /\ kaWriter = [started |-> FALSE, done |-> FALSE, lastWrite |-> 0]
    /\ kaBeat = [stage |-> IF kaKind = "json" THEN "grace" ELSE "ticking",
                 due   |-> IF kaKind = "json" THEN Grace ELSE Interval]
    /\ kaCancelled = FALSE
    /\ kaHandler = "working"
    /\ kaWire = [status |-> "200", line |-> "none", lastByte |-> 0, endAt |-> Never,
                 bodies |-> 0, after |-> 0, late |-> 0, crossed |-> FALSE]

-----------------------------------------------------------------------------

\* Bytes that are written and flushed; the status line goes out with the first.
Put(wire) ==
    [wire EXCEPT !.line     = IF @ = "none" THEN wire.status ELSE @,
                 !.lastByte = kaNow,
                 !.after    = IF wire.endAt = Never THEN @ ELSE @ + 1,
                 !.late     = IF kaHandler = "returned" THEN @ + 1 ELSE @]

Finish(wire) == [Put(wire) EXCEPT !.endAt = kaNow, !.after = wire.after]

Body(wire) == [Finish(wire) EXCEPT !.bodies = @ + 1]

\* Mutant: a heartbeat that does not look at the last write.
SSESendKeepaliveAlways ==
    /\ kaKind = "sse"
    /\ IF kaWriter.done
       THEN UNCHANGED <<kaWriter, kaWire>>
       ELSE /\ kaWire' = Put(kaWire)
            /\ kaWriter' = [kaWriter EXCEPT !.lastWrite = kaNow]

\* SendKeepalive of SSEWriter: a chunk the client ignores.
SSESendKeepalive ==
    /\ kaKind = "sse"
    /\ IF kaWriter.done \/ kaNow - kaWriter.lastWrite < IdleThreshold
       THEN UNCHANGED <<kaWriter, kaWire>>
       ELSE /\ kaWire' = Put(kaWire)
            /\ kaWriter' = [kaWriter EXCEPT !.lastWrite = kaNow]

\* SendKeepalive of JSONKeepaliveWriter.  The first call runs startUnlocked, which
\* sets the status in gin's writer and flushes nothing; the others write a space.
JSONSendKeepalive ==
    /\ kaKind = "json"
    /\ CASE kaWriter.done -> UNCHANGED <<kaWriter, kaWire>>
         [] ~kaWriter.done /\ ~kaWriter.started ->
              /\ kaWriter' = [kaWriter EXCEPT !.started = TRUE, !.lastWrite = kaNow]
              /\ kaWire' = [kaWire EXCEPT !.status = "200",
                                          !.crossed = kaHandler \in {"plain", "rendering"}]
         [] ~kaWriter.done /\ kaWriter.started ->
              IF kaNow - kaWriter.lastWrite < IdleThreshold
              THEN UNCHANGED <<kaWriter, kaWire>>
              ELSE /\ kaWire' = Put(kaWire)
                   /\ kaWriter' = [kaWriter EXCEPT !.lastWrite = kaNow]

\* One round of RunSSEHeartbeat or RunJSONHeartbeat.  When the context is cancelled
\* and the timer is due at once, select may take either.
Heartbeat ==
    /\ kaBeat.stage # "gone"
    /\ kaNow >= kaBeat.due
    /\ SSESendKeepalive \/ JSONSendKeepalive
    /\ kaBeat' = [stage |-> "ticking", due |-> kaNow + Interval]
    /\ UNCHANGED <<kaKind, kaNow, kaCancelled, kaHandler>>

HeartbeatStops ==
    /\ kaCancelled
    /\ kaBeat.stage # "gone"
    /\ kaBeat' = [stage |-> "gone", due |-> 0]
    /\ UNCHANGED <<kaKind, kaNow, kaWriter, kaCancelled, kaHandler, kaWire>>

-----------------------------------------------------------------------------

\* An upstream event that is passed on, or the error event that WriteErrorKA and
\* sendFinalUpstreamErrorKA write on a stream.
WriteEvent ==
    /\ kaKind = "sse"
    /\ kaHandler \in {"working", "failed"}
    /\ kaWire' = Put(kaWire)
    /\ kaWriter' = [kaWriter EXCEPT !.lastWrite = kaNow]
    /\ kaHandler' = IF kaHandler = "failed" THEN "closing" ELSE "working"
    /\ UNCHANGED <<kaKind, kaNow, kaBeat, kaCancelled>>

\* [DONE]: after a terminal event, with the heartbeat still running, or after an error.
WriteDone ==
    /\ kaKind = "sse"
    /\ kaHandler \in {"working", "closing"}
    /\ kaWire' = Finish(kaWire)
    /\ kaWriter' = [kaWriter EXCEPT !.lastWrite = kaNow]
    /\ kaHandler' = "answered"
    /\ UNCHANGED <<kaKind, kaNow, kaBeat, kaCancelled>>

\* Every other end begins with cancelHB, which does not wait for the heartbeat.
cancelHB(next) ==
    /\ kaHandler = "working"
    /\ kaCancelled' = TRUE
    /\ kaHandler' = next
    /\ UNCHANGED <<kaKind, kaNow, kaWriter, kaBeat, kaWire>>

\* Commit: the body, once, under the status that may already have been sent.
Commit ==
    /\ kaWriter' = [kaWriter EXCEPT !.done = TRUE, !.started = TRUE]
    /\ kaWire' = IF kaWriter.done THEN kaWire
                 ELSE Body([kaWire EXCEPT !.status = IF kaWriter.started THEN @ ELSE "200"])

CommitResult ==
    /\ kaKind = "json"
    /\ kaHandler = "completed"
    /\ Commit
    /\ kaHandler' = "answered"
    /\ UNCHANGED <<kaKind, kaNow, kaBeat, kaCancelled>>

\* WriteErrorKA, WriteUpstreamErrorKA and sendFinalUpstreamErrorKA without a stream:
\* Started() under the lock, then Commit, or an answer of gin's without the lock.
WriteErrorJSON ==
    /\ kaKind = "json"
    /\ kaHandler = "failed"
    /\ IF kaWriter.started
       THEN Commit /\ kaHandler' = "answered"
       ELSE kaHandler' = "plain" /\ UNCHANGED <<kaWriter, kaWire>>
    /\ UNCHANGED <<kaKind, kaNow, kaBeat, kaCancelled>>

\* c.JSON: gin's writer is given the status, then the body; a status set once the
\* line is out has no effect.
RenderStatus ==
    /\ kaHandler = "plain"
    /\ kaWire' = [kaWire EXCEPT !.status = "error"]
    /\ kaHandler' = "rendering"
    /\ UNCHANGED <<kaKind, kaNow, kaWriter, kaBeat, kaCancelled>>

RenderBody ==
    /\ kaHandler = "rendering"
    /\ kaWire' = Body(kaWire)
    /\ kaHandler' = "rendered"
    /\ UNCHANGED <<kaKind, kaNow, kaWriter, kaBeat, kaCancelled>>

\* The handler returns: the deferred calls run last first, Close and then cancelHB,
\* DeferredCancel.
Return ==
    /\ kaHandler \in {"answered", "rendered"}
    /\ kaWriter' = [kaWriter EXCEPT !.done = TRUE]
    /\ kaHandler' = "returned"
    /\ UNCHANGED <<kaKind, kaNow, kaBeat, kaCancelled, kaWire>>

DeferredCancel ==
    /\ kaHandler = "returned"
    /\ ~kaCancelled
    /\ kaCancelled' = TRUE
    /\ UNCHANGED <<kaKind, kaNow, kaWriter, kaBeat, kaHandler, kaWire>>

\* The steps of c.JSON take no time, a timer that is due fires and a cancelled
\* heartbeat stops at once, after at most one more round.
KeepaliveTick ==
    /\ kaNow < KaHorizon
    /\ kaBeat.stage # "gone" => ~kaCancelled /\ kaNow < kaBeat.due
    /\ kaHandler \in {"working", "answered", "rendered"}
    /\ kaNow' = kaNow + 1
    /\ UNCHANGED <<kaKind, kaWriter, kaBeat, kaCancelled, kaHandler, kaWire>>

KeepaliveNext ==
    \/ Heartbeat
    \/ HeartbeatStops
    \/ WriteEvent
    \/ WriteDone
    \/ cancelHB("failed")
    \/ kaKind = "json" /\ cancelHB("completed")
    \/ CommitResult
    \/ WriteErrorJSON
    \/ RenderStatus
    \/ RenderBody
    \/ Return
    \/ DeferredCancel
    \/ KeepaliveTick

KeepaliveSpec == KeepaliveInit /\ [][KeepaliveNext]_kaVars

-----------------------------------------------------------------------------

\* Types; with at most one JSON body, and no byte after the handler has returned, when
\* net/http no longer allows one (the deferred Close, keepalive.go:103).
KeepaliveTypeOK ==
    /\ kaKind \in {"sse", "json"}
    /\ kaNow \in 0..KaHorizon
    /\ kaWriter \in [started : BOOLEAN, done : BOOLEAN, lastWrite : Nat]
    /\ kaBeat \in [stage : {"grace", "ticking", "gone"}, due : Nat]
    /\ kaCancelled \in BOOLEAN
    /\ kaHandler \in {"working", "failed", "closing", "completed", "plain", "rendering",
                      "rendered", "answered", "returned"}
    /\ kaWire \in [status : {"200", "error"}, line : {"none", "200", "error"},
                   lastByte : Nat, endAt : Nat \cup {Never}, bodies : 0..1,
                   after : Nat, late : {0}, crossed : BOOLEAN]

\* While the handler waits for upstream, a proxy in front never sees the connection
\* silent for the sum of the interval and the threshold (keepalive.go:90, 113).  A JSON
\* response is silent for longer at first: startUnlocked only sets the status, so the
\* first byte is the space of the tick after it.
IdleGapBounded ==
    kaHandler = "working" =>
        kaNow - kaWire.lastByte <= IF kaKind = "json" /\ kaWire.line = "none"
                                   THEN Grace + Interval
                                   ELSE Interval + IdleThreshold - 1

\* No heartbeat follows the end of the answer, neither the JSON body nor [DONE], even
\* though [DONE] is written with the heartbeat running and cancelHB does not wait for
\* it: done stops it after a body, the threshold after [DONE], for as long as the
\* handler needs less than that to return.
NothingAfterTheEnd ==
    kaWire.after > 0 =>
        kaKind = "sse" /\ kaWire.lastByte - kaWire.endAt >= IdleThreshold

\* An error that is written by c.JSON carries its own status and not the heartbeat's
\* 200, unless the heartbeat took its first step after Started() had said no
\* (keepalive.go:391): the status is then whichever of the two was set last.
ErrorStatusKept ==
    kaHandler = "rendered" => kaWire.line = "error" \/ kaWire.crossed

\* The heartbeat neither lets a connection fall silent nor spoils an answer: not behind
\* its end, not its status, not after the handler has returned (keepalive.go).
KeepaliveSound == KeepaliveTypeOK /\ IdleGapBounded /\ NothingAfterTheEnd /\ ErrorStatusKept

=============================================================================
