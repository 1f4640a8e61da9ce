------------------------------- MODULE UsageLog -------------------------------
(***************************************************************************)
(* The usage log of package database: handlers append to a buffer in        *)
(* memory, a ticker and every append that fills the buffer write it out in  *)
(* batches, ClearUsageLogs folds the table into a baseline, and Close       *)
(* writes what is left when the process ends.  Entries are counted, not     *)
(* named.  Statements may fail; a failed batch is dropped.  The table holds *)
(* the entries that count (status 499 is left out of every sum).            *)
(***************************************************************************)
EXTENDS Integers, FiniteSets

CONSTANTS
    FlushAt,      \* 200: the length at which an append starts a flush
    RowsPerStmt,  \* maxRowsPerBatch of batchInsertLogs
    Flushers,     \* bound on the goroutines that "go db.flushLogs()" starts
    Clearers,     \* admin requests that clear the log
    UlEntries     \* bound on the entries

\* The goroutine of startLogFlusher and the last flush of Close; the others are Flushers.
Ticker == "ticker"
Closer == "closer"
AllFlushers == Flushers \cup {Ticker, Closer}

ASSUME UsageLogAssumption ==
    /\ {FlushAt, RowsPerStmt, UlEntries} \subseteq Nat \ {0}
    /\ IsFiniteSet(Flushers) /\ {Ticker, Closer} \cap Flushers = {}

VARIABLES
    ulBuf,      \* length of logBuf
    ulFlush,    \* what each flusher still has to insert
    ulRows,     \* rows of usage_logs
    ulBase,     \* usage_stats_baseline
    ulClear,    \* the clearing requests
    ulClose,    \* how far Close is: "open", "stopping", "flushing", "closed"
    ulCount     \* what happened so far

ulVars == <<ulBuf, ulFlush, ulRows, ulBase, ulClear, ulClose, ulCount>>

NoFlush == [pc |-> "idle", rest |-> 0]
NoClear == [pc |-> "idle", snap |-> 0]

\* overtaken: an entry came, or a flush was still running, when Close had done its last
\* flush.  disturbed: a clearing failed half way, met another one, or rows came between
\* its two statements.
UsageLogInit ==
    /\ ulBuf = 0
    /\ ulFlush = [f \in AllFlushers |-> NoFlush]
    /\ ulRows = 0
    /\ ulBase = 0
    /\ ulClear = [x \in Clearers |-> NoClear]
    /\ ulClose = "open"
    /\ ulCount = [logged |-> 0, written |-> 0, failed |-> 0,
                  overtaken |-> FALSE, disturbed |-> FALSE]

-----------------------------------------------------------------------------

flushing(f) == ulFlush[f].pc # "idle"

\* InsertUsageLog, from a handler; one may outlive the shutdown of the server.  The
\* goroutine that a full buffer starts is not counted in logWg.
InsertUsageLog ==
    /\ ulCount.logged < UlEntries
    /\ ulBuf' = ulBuf + 1
    /\ ulCount' = [ulCount EXCEPT !.logged = @ + 1,
                                  !.overtaken = @ \/ ulClose \in {"flushing", "closed"}]
    /\ IF ulBuf + 1 < FlushAt THEN UNCHANGED ulFlush
       ELSE \E f \in Flushers :
               ~flushing(f) /\ ulFlush' = [ulFlush EXCEPT ![f].pc = "start"]
    /\ UNCHANGED <<ulRows, ulBase, ulClear, ulClose>>

\* flushLogs swaps the buffer under logMu and works on its batch without the lock.
TakeBatch(f) ==
    /\ ulFlush[f].pc = "start"
    /\ ulFlush' = [ulFlush EXCEPT ![f] = IF ulBuf = 0 THEN NoFlush
                                         ELSE [pc |-> "insert", rest |-> ulBuf]]
    /\ ulBuf' = 0
    /\ UNCHANGED <<ulRows, ulBase, ulClear, ulClose, ulCount>>

\* One statement of batchInsertLogs.  Once the connection is closed none succeeds.
batchInsertLogsChunk(f) ==
    LET rest == ulFlush[f].rest
        n    == IF rest < RowsPerStmt THEN rest ELSE RowsPerStmt
    IN  /\ ulFlush[f].pc = "insert"
        /\ ulClose # "closed"
        /\ ulRows' = ulRows + n
        /\ ulFlush' = [ulFlush EXCEPT ![f] = IF rest = n THEN NoFlush
                                             ELSE [pc |-> "insert", rest |-> rest - n]]
        /\ ulCount' = [ulCount EXCEPT
               !.written = @ + n,
               !.disturbed = @ \/ \E x \in Clearers : ulClear[x].pc = "truncate"]
        /\ UNCHANGED <<ulBuf, ulBase, ulClear, ulClose>>

\* A statement fails: the rest of the batch is dropped with a line in the log.
BatchFails(f) ==
    /\ ulFlush[f].pc = "insert"
    /\ ulCount' = [ulCount EXCEPT !.failed = @ + ulFlush[f].rest]
    /\ ulFlush' = [ulFlush EXCEPT ![f] = NoFlush]
    /\ UNCHANGED <<ulBuf, ulRows, ulBase, ulClear, ulClose>>

\* The five-second ticker of startLogFlusher; its select may still pick the tick when
\* Close has closed logStop.
TickerFlush ==
    /\ ulClose \in {"open", "stopping"}
    /\ ~flushing(Ticker)
    /\ ulBuf > 0
    /\ ulFlush' = [ulFlush EXCEPT ![Ticker].pc = "start"]
    /\ UNCHANGED <<ulBuf, ulRows, ulBase, ulClear, ulClose, ulCount>>

-----------------------------------------------------------------------------

\* Close: stop the ticker's goroutine, wait for it, flush once more, close.
CloseBegins ==
    /\ ulClose = "open"
    /\ ulClose' = "stopping"
    /\ UNCHANGED <<ulBuf, ulFlush, ulRows, ulBase, ulClear, ulCount>>

\* Mutant: the last flush does not wait for the goroutine of the ticker.
LastFlushAtOnce ==
    /\ ulClose = "stopping"
    /\ ulClose' = "flushing"
    /\ ulFlush' = [ulFlush EXCEPT ![Closer].pc = "start"]
    /\ UNCHANGED <<ulBuf, ulRows, ulBase, ulClear, ulCount>>

LastFlush ==
    /\ ulClose = "stopping"
    /\ ~flushing(Ticker)
    /\ ulClose' = "flushing"
    /\ ulFlush' = [ulFlush EXCEPT ![Closer].pc = "start"]
    /\ UNCHANGED <<ulBuf, ulRows, ulBase, ulClear, ulCount>>

ConnectionCloses ==
    /\ ulClose = "flushing"
    /\ ~flushing(Closer)
    /\ ulClose' = "closed"
    /\ ulCount' = [ulCount EXCEPT !.overtaken = @ \/ \E f \in Flushers : flushing(f)]
    /\ UNCHANGED <<ulBuf, ulFlush, ulRows, ulBase, ulClear>>

-----------------------------------------------------------------------------

\* ClearUsageLogs: the sums are added to the baseline in one statement...
ClearSnapshot(x) ==
    /\ ulClear[x].pc = "idle"
    /\ ulClose # "closed"
    /\ ulBase' = ulBase + ulRows
    /\ ulClear' = [ulClear EXCEPT ![x] = [pc |-> "truncate", snap |-> ulRows]]
    /\ ulCount' = [ulCount EXCEPT
           !.disturbed = @ \/ \E y \in Clearers : ulClear[y].pc = "truncate"]
    /\ UNCHANGED <<ulBuf, ulFlush, ulRows, ulClose>>

\* ... and the table is emptied in another.
ClearTruncate(x) ==
    /\ ulClear[x].pc = "truncate"
    /\ ulClose # "closed"
    /\ ulRows' = 0
    /\ ulClear' = [ulClear EXCEPT ![x] = [pc |-> "cleared", snap |-> 0]]
    /\ UNCHANGED <<ulBuf, ulFlush, ulBase, ulClose, ulCount>>

ClearFails(x) ==
    /\ ulClear[x].pc = "truncate"
    /\ ulClear' = [ulClear EXCEPT ![x] = [pc |-> "cleared", snap |-> 0]]
    /\ ulCount' = [ulCount EXCEPT !.disturbed = TRUE]
    /\ UNCHANGED <<ulBuf, ulFlush, ulRows, ulBase, ulClose>>

UsageLogNext ==
    \/ InsertUsageLog
    \/ \E f \in AllFlushers : TakeBatch(f) \/ batchInsertLogsChunk(f) \/ BatchFails(f)
    \/ TickerFlush
    \/ CloseBegins \/ LastFlush \/ ConnectionCloses
    \/ \E x \in Clearers : ClearSnapshot(x) \/ ClearTruncate(x) \/ ClearFails(x)

UsageLogSpec == UsageLogInit /\ [][UsageLogNext]_ulVars

-----------------------------------------------------------------------------

\* When Close has closed the connection, every entry that was logged is in the table
\* or belongs to a batch whose statement failed: nothing stays in the buffer and no
\* batch is cut off, unless a request outlived the shutdown or a flush that a full
\* buffer had started was still running, which logWg does not count (postgres.go:784).
FlushedAtExit ==
    ulClose = "closed" /\ ~ulCount.overtaken =>
        /\ ulBuf = 0
        /\ ulCount.logged = ulCount.written + ulCount.failed

\* What the flushers still have to insert, all of them together.
Unwritten == UNION {{f} \X (1..ulFlush[f].rest) : f \in AllFlushers}

\* An entry is written once or dropped once: concurrent flushes never share a part of
\* the buffer, and a batch that fails half way counts only for what was left of it.
EntriesOnce ==
    ulCount.logged = ulBuf + ulCount.written + ulCount.failed + Cardinality(Unwritten)

\* GetUsageStats adds the table and the baseline.  Clearing the log never changes that
\* sum: it is the number of rows ever written, between the two statements more by what
\* was already added, unless a clearing failed in the middle, ran beside another one,
\* or rows were written between its statements (postgres.go:1464-1485).
ClearKeepsTotals ==
    ~ulCount.disturbed =>
        LET x == {y \in Clearers : ulClear[y].pc = "truncate"}
        IN  ulBase + ulRows = ulCount.written
               + (IF x = {} THEN 0 ELSE ulClear[CHOOSE y \in x : TRUE].snap)

\* No usage is lost or counted twice between the buffer, the table and the baseline, by
\* flushes that overlap, by a clearing or by the end of the process (FlushedAtExit,
\* EntriesOnce, ClearKeepsTotals).
UsageLogSound == FlushedAtExit /\ EntriesOnce /\ ClearKeepsTotals

=============================================================================
