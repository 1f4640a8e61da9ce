--------------------------- MODULE RefreshScheduler ---------------------------
(***************************************************************************)
(* The refresh scheduler of the token refresh: a heap of scheduled tasks,   *)
(* a bounded channel of tasks to execute, and three loops.  scheduleLoop    *)
(* moves due tasks from the heap to the channel (it looks at the head, and  *)
(* pops the head in a second step), executeLoop starts one goroutine per    *)
(* task under a semaphore, retryLoop puts failed tasks back.  The map of    *)
(* tasks holds one task per account; a task that was replaced or cancelled  *)
(* may still be in the channel.                                             *)
(* The heap is the set of its tasks with its order (every change of a       *)
(* task's key is followed by heap.Fix); a time is whether it has come.      *)
(***************************************************************************)
EXTENDS Integers, Sequences, FiniteSets, FiniteSetsExt

CONSTANTS
    RsAccounts,      \* accounts
    MaxTasks,        \* calls of Schedule, ScheduleImmediate and CancelTask, so tasks too
    Priorities,      \* what calculatePriority may give
    Urgent,          \* the priority of an immediate refresh, above all others
    RsQueueCap,      \* capacity of the channel
    MaxConcurrency,  \* semaphore
    RetryMaxAttempts,
    NoTask

ASSUME RefreshSchedulerAssumption ==
    /\ Priorities \subseteq Nat /\ \A p \in Priorities : p < Urgent
    /\ MaxTasks \in Nat /\ RsQueueCap \in Nat \ {0} /\ MaxConcurrency \in Nat \ {0}
    /\ RetryMaxAttempts \in Nat \ {0}
    /\ NoTask \notin 1..MaxTasks

VARIABLES
    rsTask,     \* the tasks created so far
    rsMap,      \* tasks: account -> task
    rsHeap,     \* pq
    rsQueue,    \* queue
    rsLoop,     \* scheduleLoop: its next step and the task it has popped
    rsExec,     \* the task executeLoop waits with for the semaphore
    rsRuns,     \* goroutines of executeTask, per task
    rsEnded,    \* goroutines that have a result and not yet cleaned the map
    rsRetry,    \* the tasks processRetries has collected
    rsPhase,    \* of Stop: "on", "stopping" or "stopped"
    rsDropped,  \* tasks an immediate refresh could not queue
    rsCalls,    \* calls made so far
    rsMissed    \* pending tasks popped in the place of another one, and thrown away

rsVars == <<rsTask, rsMap, rsHeap, rsQueue, rsLoop, rsExec, rsRuns, rsEnded, rsRetry, rsPhase,
            rsDropped, rsMissed, rsCalls>>

RsTasks == DOMAIN rsTask

RefreshSchedulerInit ==
    /\ rsTask = <<>>
    /\ rsMap = [a \in RsAccounts |-> NoTask]
    /\ rsHeap = {} /\ rsQueue = <<>>
    /\ rsLoop = [at |-> "idle", task |-> NoTask]
    /\ rsExec = NoTask
    /\ rsRuns = [t \in 1..MaxTasks |-> 0]
    /\ rsEnded = [t \in 1..MaxTasks |-> 0]
    /\ rsRetry = {}
    /\ rsPhase = "on"
    /\ rsDropped = {} /\ rsMissed = {}
    /\ rsCalls = 0

\* due: ScheduledAt, or NextRetryAt of a retrying task, has passed.
NewTask(a, priority, due) ==
    [account |-> a, state |-> "pending", priority |-> priority, due |-> due, attempts |-> 0]

Known(a) == rsMap[a] # NoTask

\* A task that is in the heap already only takes its new place (heap.Fix).
pushToQueue(t) == rsHeap \cup {t}

removeFromQueue(t) == rsHeap \ {t}

-----------------------------------------------------------------------------
\* Callers: the administrator and whatever asks for a refresh.

\* A running task is left alone; any other one starts over, wherever it is.
Schedule(a) ==
    \E priority \in Priorities, due \in BOOLEAN :
        \/ /\ Known(a) /\ rsTask[rsMap[a]].state # "running"
           /\ rsTask' = [rsTask EXCEPT ![rsMap[a]] = NewTask(a, priority, due)]
           /\ rsHeap' = pushToQueue(rsMap[a])
           /\ rsDropped' = rsDropped \ {rsMap[a]}
           /\ rsMissed' = rsMissed \ {rsMap[a]}
           /\ UNCHANGED <<rsMap, rsQueue, rsLoop, rsExec, rsRuns, rsEnded, rsRetry, rsPhase>>
        \/ /\ ~Known(a)
           /\ rsTask' = Append(rsTask, NewTask(a, priority, due))
           /\ rsMap' = [rsMap EXCEPT ![a] = Len(rsTask) + 1]
           /\ rsHeap' = pushToQueue(Len(rsTask) + 1)
           /\ UNCHANGED <<rsQueue, rsLoop, rsExec, rsRuns, rsEnded, rsRetry, rsPhase, rsDropped,
                          rsMissed>>

\* The old task is marked as done and taken from the heap; the new one goes straight to
\* the channel, or is lost when the channel is full.  A call after Stop has closed the
\* channel panics and is left out.
ScheduleImmediate(a) ==
    /\ rsPhase # "stopped"
    /\ LET new == Len(rsTask) + 1
           old == rsMap[a]
           marked == IF Known(a) THEN [rsTask EXCEPT ![old].state = "success"] ELSE rsTask
       IN  /\ rsTask' = Append(marked, NewTask(a, Urgent, TRUE))
           /\ rsHeap' = removeFromQueue(old)
           /\ rsMap' = [rsMap EXCEPT ![a] = new]
           /\ IF Len(rsQueue) < RsQueueCap
              THEN rsQueue' = Append(rsQueue, new) /\ UNCHANGED rsDropped
              ELSE rsDropped' = rsDropped \cup {new} /\ UNCHANGED rsQueue
    /\ UNCHANGED <<rsLoop, rsExec, rsRuns, rsEnded, rsRetry, rsPhase, rsMissed>>

CancelTask(a) ==
    /\ Known(a)
    /\ LET t == rsMap[a]
       IN  /\ rsTask[t].state \in {"pending", "retrying"}
           /\ rsTask' = [rsTask EXCEPT ![t].state = "success"]
           /\ rsHeap' = removeFromQueue(t)
    /\ rsMap' = [rsMap EXCEPT ![a] = NoTask]
    /\ UNCHANGED <<rsQueue, rsLoop, rsExec, rsRuns, rsEnded, rsRetry, rsPhase, rsDropped, rsMissed>>

-----------------------------------------------------------------------------
\* scheduleLoop: processScheduledTasks.

\* Less: the higher priority, then the earlier time.
Before(t, u) == \/ rsTask[t].priority > rsTask[u].priority
                \/ rsTask[t].priority = rsTask[u].priority /\ rsTask[t].due /\ ~rsTask[u].due

Heads == {t \in rsHeap : \A u \in rsHeap : ~Before(u, t)}

unchangedByLoop == UNCHANGED <<rsMap, rsExec, rsRuns, rsEnded, rsRetry, rsPhase, rsDropped, rsCalls>>

Idle == [at |-> "idle", task |-> NoTask]

tick == /\ rsPhase = "on" /\ rsLoop.at = "idle"
        /\ rsLoop' = [at |-> "peek", task |-> NoTask]
        /\ UNCHANGED <<rsTask, rsHeap, rsQueue, rsMissed>> /\ unchangedByLoop

peekQueue ==
    /\ rsLoop.at = "peek"
    /\ \/ /\ rsHeap = {}
          /\ rsLoop' = Idle
       \/ \E t \in Heads :
             rsLoop' = IF ~rsTask[t].due THEN Idle
                       ELSE [at |-> IF rsTask[t].state = "pending" THEN "pop" ELSE "discard", task |-> t]
    /\ UNCHANGED <<rsTask, rsHeap, rsQueue, rsMissed>> /\ unchangedByLoop

\* The head may be another task by now.
discard ==
    /\ rsLoop.at = "discard"
    /\ \/ /\ rsHeap = {}
          /\ UNCHANGED <<rsHeap, rsMissed>>
       \/ \E t \in Heads :
             /\ rsHeap' = rsHeap \ {t}
             /\ rsMissed' = IF rsTask[t].state = "pending" THEN rsMissed \cup {t} ELSE rsMissed
    /\ rsLoop' = IF rsHeap = {} THEN Idle ELSE [at |-> "peek", task |-> NoTask]
    /\ UNCHANGED <<rsTask, rsQueue>> /\ unchangedByLoop

popFromQueue ==
    /\ rsLoop.at = "pop"
    /\ \/ /\ rsHeap = {}
          /\ rsLoop' = Idle
          /\ UNCHANGED rsHeap
       \/ \E t \in Heads :
             /\ rsHeap' = rsHeap \ {t}
             /\ rsLoop' = [at |-> "send", task |-> t]
    /\ UNCHANGED <<rsTask, rsQueue, rsMissed>> /\ unchangedByLoop

\* Mutant: a task that finds the channel full is not put back.
sendLossy ==
    /\ rsLoop.at = "send"
    /\ IF Len(rsQueue) < RsQueueCap THEN rsQueue' = Append(rsQueue, rsLoop.task) ELSE UNCHANGED rsQueue
    /\ rsLoop' = Idle
    /\ UNCHANGED <<rsTask, rsHeap, rsMissed>> /\ unchangedByLoop

send ==
    /\ rsLoop.at = "send"
    /\ IF Len(rsQueue) < RsQueueCap
       THEN /\ rsQueue' = Append(rsQueue, rsLoop.task)
            /\ rsLoop' = [at |-> "peek", task |-> NoTask]
            /\ UNCHANGED rsHeap
       ELSE /\ rsHeap' = pushToQueue(rsLoop.task)
            /\ rsLoop' = Idle
            /\ UNCHANGED rsQueue
    /\ UNCHANGED <<rsTask, rsMissed>> /\ unchangedByLoop

-----------------------------------------------------------------------------
\* executeLoop and its goroutines.

running == FoldSet(LAMBDA t, n : n + rsRuns[t] + rsEnded[t], 0, 1..MaxTasks)

unchangedByExec == UNCHANGED <<rsLoop, rsRetry, rsPhase, rsDropped, rsMissed, rsCalls>>

Receives ==
    /\ rsPhase = "on" /\ rsExec = NoTask /\ rsQueue # <<>>
    /\ rsExec' = Head(rsQueue)
    /\ rsQueue' = Tail(rsQueue)
    /\ UNCHANGED <<rsTask, rsMap, rsHeap, rsRuns, rsEnded>> /\ unchangedByExec

\* The semaphore is free: the task runs, whatever its state says.
executeTask ==
    /\ rsExec # NoTask /\ running < MaxConcurrency
    /\ rsTask' = [rsTask EXCEPT ![rsExec].state = "running"]
    /\ rsRuns' = [rsRuns EXCEPT ![rsExec] = @ + 1]
    /\ rsExec' = NoTask
    /\ UNCHANGED <<rsMap, rsHeap, rsQueue, rsEnded>> /\ unchangedByExec

givesUp ==
    /\ rsExec # NoTask /\ rsPhase = "stopping"
    /\ rsExec' = NoTask
    /\ UNCHANGED <<rsTask, rsMap, rsHeap, rsQueue, rsRuns, rsEnded>> /\ unchangedByExec

\* refreshAccount has returned; a failure may be retried a little later.  Attempts past
\* the last one are not told apart.
Ends(t, outcome) ==
    /\ rsRuns[t] > 0
    /\ LET task     == rsTask[t]
           attempts == Min({task.attempts + 1, RetryMaxAttempts})
       IN  rsTask' = [rsTask EXCEPT ![t] =
               CASE outcome = "success" -> [task EXCEPT !.state = "success"]
                 [] outcome = "failed" /\ attempts < RetryMaxAttempts ->
                      [task EXCEPT !.state = "retrying", !.attempts = attempts, !.due = FALSE]
                 [] outcome = "failed" /\ attempts >= RetryMaxAttempts ->
                      [task EXCEPT !.state = "failed", !.attempts = attempts]
                 [] outcome = "refused" -> [task EXCEPT !.state = "failed", !.attempts = attempts]]
    /\ rsRuns' = [rsRuns EXCEPT ![t] = @ - 1]
    /\ rsEnded' = [rsEnded EXCEPT ![t] = @ + 1]
    /\ UNCHANGED <<rsMap, rsHeap, rsQueue, rsExec>> /\ unchangedByExec

\* The entry of the account is deleted, whichever task it holds by now.
CleansUp(t) ==
    /\ rsEnded[t] > 0
    /\ rsMap' = IF \/ rsTask[t].state = "success"
                   \/ rsTask[t].state = "failed" /\ rsTask[t].attempts >= RetryMaxAttempts
                THEN [rsMap EXCEPT ![rsTask[t].account] = NoTask] ELSE rsMap
    /\ rsEnded' = [rsEnded EXCEPT ![t] = @ - 1]
    /\ UNCHANGED <<rsTask, rsHeap, rsQueue, rsExec, rsRuns>> /\ unchangedByExec

-----------------------------------------------------------------------------
\* retryLoop, the clock and Stop.

unchangedByRetry == UNCHANGED <<rsMap, rsQueue, rsLoop, rsExec, rsRuns, rsEnded, rsDropped, rsMissed,
                                rsCalls>>

collectRetries ==
    /\ rsPhase = "on" /\ rsRetry = {}
    /\ rsRetry' = {t \in {rsMap[a] : a \in RsAccounts} \ {NoTask} :
                       rsTask[t].state = "retrying" /\ rsTask[t].due}
    /\ rsRetry' # {}
    /\ UNCHANGED <<rsTask, rsHeap, rsPhase>> /\ unchangedByRetry

processRetries(t) ==
    /\ t \in rsRetry
    /\ rsTask' = [rsTask EXCEPT ![t].state = "pending", ![t].due = TRUE]
    /\ rsHeap' = pushToQueue(t)
    /\ rsRetry' = rsRetry \ {t}
    /\ UNCHANGED rsPhase /\ unchangedByRetry

TimeComes(t) ==
    /\ ~rsTask[t].due
    /\ rsTask' = [rsTask EXCEPT ![t].due = TRUE]
    /\ UNCHANGED <<rsHeap, rsRetry, rsPhase>> /\ unchangedByRetry

\* cancel; wg.Wait; close(queue).
StopBegins ==
    /\ rsPhase = "on"
    /\ rsPhase' = "stopping"
    /\ UNCHANGED <<rsTask, rsHeap, rsRetry>> /\ unchangedByRetry

SchedulerStopped ==
    /\ rsPhase = "stopping"
    /\ rsLoop.at = "idle" /\ rsExec = NoTask /\ running = 0 /\ rsRetry = {}
    /\ rsPhase' = "stopped"
    /\ UNCHANGED <<rsTask, rsHeap, rsRetry>> /\ unchangedByRetry

Outcomes == {"success", "failed", "refused"}

ScheduleLoopStep == tick \/ peekQueue \/ discard \/ popFromQueue \/ send
ExecuteStep == Receives \/ executeTask \/ givesUp
               \/ \E t \in RsTasks : CleansUp(t) \/ \E o \in Outcomes : Ends(t, o)
RetryStep == collectRetries \/ \E t \in RsTasks : processRetries(t)

Call == /\ rsCalls < MaxTasks
        /\ \E a \in RsAccounts : Schedule(a) \/ ScheduleImmediate(a) \/ CancelTask(a)
        /\ rsCalls' = rsCalls + 1

RefreshSchedulerNext ==
    \/ Call
    \/ ScheduleLoopStep \/ ExecuteStep \/ RetryStep
    \/ \E t \in RsTasks : TimeComes(t)
    \/ StopBegins \/ SchedulerStopped

-----------------------------------------------------------------------------

\* The task of an account that waits for its refresh is where one of the loops will find
\* it: in the heap, in the channel, or in a loop's hands.  It is nowhere, and waits until
\* the account is scheduled again, in two cases: an immediate refresh that met a full
\* channel, and a task that became the head after processScheduledTasks had looked at a
\* head to throw away (discard).
\* While the scheduler runs: Stop abandons the task executeLoop holds.
PendingPlaced ==
    \A a \in RsAccounts :
        LET t == rsMap[a]
        IN  rsPhase = "on" /\ Known(a) /\ rsTask[t].state = "pending" =>
                \/ t \in rsHeap
                \/ \E i \in DOMAIN rsQueue : rsQueue[i] = t
                \/ rsLoop.at = "send" /\ rsLoop.task = t
                \/ rsExec = t
                \/ t \in rsDropped \cup rsMissed

RefreshSchedulerSpec == RefreshSchedulerInit /\ [][RefreshSchedulerNext]_rsVars

=============================================================================
