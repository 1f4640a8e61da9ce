---------------------------- MODULE DialogCollector ---------------------------
(***************************************************************************)
(* The dialog collector: handlers hand finished conversations to a bounded  *)
(* channel and never wait, one goroutine writes them in batches, and Stop   *)
(* drains the channel when the server shuts down.  The counters are what    *)
(* the admin API shows of it.  Records are counted, not named.              *)
(***************************************************************************)
EXTENDS Integers, FiniteSets

CONSTANTS
    QueueCap,     \* capacity of the channel, 10000
    BatchSize,    \* 200
    RowsPerInsert,\* maxRowsPerStmt of InsertDialogLogs, 100
    Submitters,   \* requests that submit
    DcRecords     \* bound on the records

ASSUME DialogCollectorAssumption ==
    {QueueCap, BatchSize, RowsPerInsert, DcRecords} \subseteq Nat \ {0} /\ IsFiniteSet(Submitters)

VARIABLES
    dcEnabled, dcStopped,   \* enabled; the channel stop is closed
    dcQueue,                \* length of ch
    dcFlusher,              \* the goroutine: [pc, batch, done], done: rows inserted of batch
    dcSubmit,               \* where each Submit is
    dcCount,                \* the four counters
    dcRows,                 \* rows of dialog_logs
    dcMain                  \* main: "serving", "waiting" in Stop, "closed": the pool is closed

dcVars == <<dcEnabled, dcStopped, dcQueue, dcFlusher, dcSubmit, dcCount, dcRows, dcMain>>

DialogCollectorInit ==
    /\ dcEnabled = TRUE
    /\ dcStopped = FALSE
    /\ dcQueue = 0
    /\ dcFlusher = [pc |-> "select", batch |-> 0, done |-> 0]
    /\ dcSubmit = [s \in Submitters |-> "idle"]
    /\ dcCount = [submitted |-> 0, dropped |-> 0, written |-> 0, failed |-> 0, late |-> FALSE]
    /\ dcRows = 0
    /\ dcMain = "serving"

-----------------------------------------------------------------------------

\* Submit: the switch is read first, with no lock.
SubmitEnters(s) ==
    /\ dcSubmit[s] = "idle"
    /\ dcEnabled
    /\ dcSubmit' = [dcSubmit EXCEPT ![s] = "entered"]
    /\ UNCHANGED <<dcEnabled, dcStopped, dcQueue, dcFlusher, dcCount, dcRows, dcMain>>

pending == Cardinality({s \in Submitters : dcSubmit[s] = "sent"})

\* The record is in the channel before it is counted.  late: it arrived when the flusher
\* had been told to stop.
SubmitSends(s) ==
    /\ dcSubmit[s] = "entered"
    /\ dcQueue < QueueCap
    /\ dcCount.submitted + pending < DcRecords
    /\ dcQueue' = dcQueue + 1
    /\ dcSubmit' = [dcSubmit EXCEPT ![s] = "sent"]
    /\ dcCount' = [dcCount EXCEPT !.late = @ \/ dcStopped]
    /\ UNCHANGED <<dcEnabled, dcStopped, dcFlusher, dcRows, dcMain>>

SubmitCounts(s) ==
    /\ dcSubmit[s] = "sent"
    /\ dcSubmit' = [dcSubmit EXCEPT ![s] = "idle"]
    /\ dcCount' = [dcCount EXCEPT !.submitted = @ + 1]
    /\ UNCHANGED <<dcEnabled, dcStopped, dcQueue, dcFlusher, dcRows, dcMain>>

SubmitDrops(s) ==
    /\ dcSubmit[s] = "entered"
    /\ dcQueue = QueueCap
    /\ dcCount.dropped < DcRecords
    /\ dcSubmit' = [dcSubmit EXCEPT ![s] = "idle"]
    /\ dcCount' = [dcCount EXCEPT !.dropped = @ + 1]
    /\ UNCHANGED <<dcEnabled, dcStopped, dcQueue, dcFlusher, dcRows, dcMain>>

\* SetEnabled, from the admin API.
SetEnabled ==
    /\ dcMain = "serving"
    /\ dcEnabled' = ~dcEnabled
    /\ UNCHANGED <<dcStopped, dcQueue, dcFlusher, dcSubmit, dcCount, dcRows, dcMain>>

-----------------------------------------------------------------------------

\* A record is received; a full batch is flushed.  drain: the inner loop, after stop.
Receive ==
    /\ dcFlusher.pc \in {"select", "drain"}
    /\ dcQueue > 0
    /\ dcQueue' = dcQueue - 1
    /\ dcFlusher' = [dcFlusher EXCEPT
           !.batch = @ + 1,
           !.pc = IF dcFlusher.batch + 1 < BatchSize THEN @
                  ELSE IF @ = "drain" THEN "flushDrain" ELSE "flush"]
    /\ UNCHANGED <<dcEnabled, dcStopped, dcSubmit, dcCount, dcRows, dcMain>>

TickerFlushes ==
    /\ dcFlusher.pc = "select"
    /\ dcFlusher.batch > 0
    /\ dcFlusher' = [dcFlusher EXCEPT !.pc = "flush"]
    /\ UNCHANGED <<dcEnabled, dcStopped, dcQueue, dcSubmit, dcCount, dcRows, dcMain>>

SeesStop ==
    /\ dcFlusher.pc = "select"
    /\ dcStopped
    /\ dcFlusher' = [dcFlusher EXCEPT !.pc = "drain"]
    /\ UNCHANGED <<dcEnabled, dcStopped, dcQueue, dcSubmit, dcCount, dcRows, dcMain>>

\* Mutant: after stop the goroutine flushes its batch and leaves the channel.
DrainedAtOnce ==
    /\ dcFlusher.pc = "drain"
    /\ dcFlusher' = [dcFlusher EXCEPT !.pc = IF dcFlusher.batch = 0 THEN "gone" ELSE "flushLast"]
    /\ UNCHANGED <<dcEnabled, dcStopped, dcQueue, dcSubmit, dcCount, dcRows, dcMain>>

\* The channel is empty: the last flush, and the goroutine ends.
Drained ==
    /\ dcFlusher.pc = "drain"
    /\ dcQueue = 0
    /\ dcFlusher' = [dcFlusher EXCEPT !.pc = IF dcFlusher.batch = 0 THEN "gone" ELSE "flushLast"]
    /\ UNCHANGED <<dcEnabled, dcStopped, dcQueue, dcSubmit, dcCount, dcRows, dcMain>>

inFlush == dcFlusher.pc \in {"flush", "flushDrain", "flushLast"}

afterFlush == [pc    |-> CASE dcFlusher.pc = "flush" -> "select"
                           [] dcFlusher.pc = "flushDrain" -> "drain"
                           [] OTHER -> "gone",
               batch |-> 0, done |-> 0]

\* One INSERT of InsertDialogLogs; written is counted after the last of a batch.
InsertDialogLogs ==
    LET rest == dcFlusher.batch - dcFlusher.done
        n    == IF rest < RowsPerInsert THEN rest ELSE RowsPerInsert
    IN  /\ inFlush
        /\ dcMain # "closed"
        /\ dcRows' = dcRows + n
        /\ IF n = rest
           THEN /\ dcFlusher' = afterFlush
                /\ dcCount' = [dcCount EXCEPT !.written = @ + dcFlusher.batch]
           ELSE /\ dcFlusher' = [dcFlusher EXCEPT !.done = @ + n]
                /\ UNCHANGED dcCount
        /\ UNCHANGED <<dcEnabled, dcStopped, dcQueue, dcSubmit, dcMain>>

\* An INSERT fails: the whole batch counts as failed and is dropped, the rows of the
\* INSERTs before it are in the table.
InsertFails ==
    /\ inFlush
    /\ dcFlusher' = afterFlush
    /\ dcCount' = [dcCount EXCEPT !.failed = @ + dcFlusher.batch]
    /\ UNCHANGED <<dcEnabled, dcStopped, dcQueue, dcSubmit, dcRows, dcMain>>

-----------------------------------------------------------------------------

\* Stop, called by main once the server has shut down or its 90 seconds have passed:
\* requests may still run.
Stop ==
    /\ dcMain = "serving"
    /\ dcEnabled' = FALSE
    /\ dcStopped' = TRUE
    /\ dcMain' = "waiting"
    /\ UNCHANGED <<dcQueue, dcFlusher, dcSubmit, dcCount, dcRows>>

\* Stop returns when the goroutine has ended; main then closes the database.
StopReturns ==
    /\ dcMain = "waiting"
    /\ dcFlusher.pc = "gone"
    /\ dcMain' = "closed"
    /\ UNCHANGED <<dcEnabled, dcStopped, dcQueue, dcFlusher, dcSubmit, dcCount, dcRows>>

\* ... or after 15 seconds, with the goroutine still at work.
StopTimesOut ==
    /\ dcMain = "waiting"
    /\ dcFlusher.pc # "gone"
    /\ dcMain' = "closed"
    /\ UNCHANGED <<dcEnabled, dcStopped, dcQueue, dcFlusher, dcSubmit, dcCount, dcRows>>

DialogCollectorNext ==
    \/ \E s \in Submitters :
          SubmitEnters(s) \/ SubmitSends(s) \/ SubmitCounts(s) \/ SubmitDrops(s)
    \/ SetEnabled
    \/ Receive \/ TickerFlushes \/ SeesStop \/ Drained
    \/ InsertDialogLogs \/ InsertFails
    \/ Stop \/ StopReturns \/ StopTimesOut

DialogCollectorSpec == DialogCollectorInit /\ [][DialogCollectorNext]_dcVars

-----------------------------------------------------------------------------

DialogCollectorTypeOK ==
    /\ dcEnabled \in BOOLEAN /\ dcStopped \in BOOLEAN
    /\ dcQueue \in 0..QueueCap
    /\ dcFlusher \in [pc : {"select", "flush", "drain", "flushDrain", "flushLast", "gone"},
                      batch : 0..BatchSize, done : 0..BatchSize]
    /\ dcSubmit \in [Submitters -> {"idle", "entered", "sent"}]
    /\ dcCount \in [submitted : Nat, dropped : Nat, written : Nat, failed : Nat, late : BOOLEAN]
    /\ dcRows \in Nat
    /\ dcMain \in {"serving", "waiting", "closed"}

\* The counters account for every record: what was submitted, and what is in the
\* channel but not counted yet, is queued, in the batch, written or failed
\* (dialog_collector.go:107-112, 197-203).
CountersAddUp ==
    dcCount.submitted + pending =
        dcQueue + dcFlusher.batch + dcCount.written + dcCount.failed

\* The table holds what is counted as written and at most what failed besides: a batch
\* of which only a later INSERT failed counts as failed as a whole (dialog_logs.go:197).
RowsWithinCounters ==
    /\ dcCount.written <= dcRows
    /\ dcRows <= dcCount.written + dcCount.failed + dcFlusher.done

\* A shutdown loses no record that was in the channel when Stop began: when the
\* goroutine has ended nothing is left behind but what a Submit that had read the
\* switch before Stop sent after it.
NothingLeftBehind ==
    dcFlusher.pc = "gone" /\ ~dcCount.late => dcQueue = 0

\* Every conversation handed to the collector is accounted for, in the counters, in the
\* table and through a shutdown (CountersAddUp, RowsWithinCounters, NothingLeftBehind).
DialogSound ==
    DialogCollectorTypeOK /\ CountersAddUp /\ RowsWithinCounters /\ NothingLeftBehind

=============================================================================
