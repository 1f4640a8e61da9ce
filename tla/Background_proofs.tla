--------------------------- MODULE Background_proofs ---------------------------
(***************************************************************************)
(* Theorems about what runs beside the requests and what it keeps up: the   *)
(* refresh scheduler, the partitions of the dialog log, the accounts in the *)
(* table and in memory, the system settings, the proxy pool.                *)
(***************************************************************************)
EXTENDS RefreshScheduler, DialogPartitions, AccountLifecycle, Settings, ProxyPool,
        FiniteSetTheorems, TLAPS

-----------------------------------------------------------------------------
(* The refresh scheduler. *)

TaskRec == [account : RsAccounts, state : {"pending", "running", "retrying", "success", "failed"},
            priority : Priorities \cup {Urgent}, due : BOOLEAN, attempts : Nat]

RsTypeOK ==
    /\ rsTask \in Seq(TaskRec) /\ rsCalls \in Nat /\ Len(rsTask) <= rsCalls /\ rsCalls <= MaxTasks
    /\ rsMap \in [RsAccounts -> RsTasks \cup {NoTask}]
    /\ rsHeap \subseteq RsTasks /\ rsQueue \in Seq(RsTasks)
    /\ rsExec \in RsTasks \cup {NoTask} /\ rsRetry \subseteq RsTasks
    /\ rsLoop.at = "send" => rsLoop.task \in RsTasks

\* The map holds an account's own task.
OwnTask == \A a \in RsAccounts : Known(a) => rsTask[rsMap[a]].account = a

Queued(t) == \E i \in DOMAIN rsQueue : rsQueue[i] = t

\* Where a waiting task is found, or that it is one of those that are lost.
Placed(t) ==
    \/ t \in rsHeap \/ Queued(t) \/ (rsLoop.at = "send" /\ rsLoop.task = t) \/ rsExec = t
    \/ t \in rsDropped \cup rsMissed

RsInv ==
    /\ RsTypeOK /\ OwnTask
    /\ \A a \in RsAccounts :
          rsPhase = "on" /\ Known(a) /\ rsTask[rsMap[a]].state = "pending" => Placed(rsMap[a])

\* A step that changes neither the map nor any task that waits, and places what it displaces.
LEMMA PlacesKeep ==
    ASSUME RsInv, RsTypeOK', OwnTask', rsPhase' = "on" => rsPhase = "on",
           \A a \in RsAccounts : rsMap'[a] \in {rsMap[a], NoTask},
           \A t \in RsTasks : rsTask'[t].state = "pending" =>
              \/ rsTask[t].state = "pending" /\ (Placed(t) => Placed(t)')
              \/ Placed(t)'
    PROVE  RsInv'
<1> SUFFICES ASSUME NEW a \in RsAccounts, rsPhase' = "on", Known(a)',
                    rsTask'[rsMap'[a]].state = "pending"
             PROVE  Placed(rsMap[a])'
  BY DEF RsInv
<1>1. rsMap'[a] = rsMap[a] /\ Known(a) /\ rsMap[a] \in RsTasks
  BY DEF Known, RsInv, RsTypeOK
<1> QED
  BY <1>1 DEF RsInv

\* What the invariant says of each variable.
LEMMA RsTypes ==
    ASSUME RsInv
    PROVE  /\ rsTask \in Seq(TaskRec) /\ RsTasks = 1..Len(rsTask) /\ Len(rsTask) \in Nat
           /\ NoTask \notin RsTasks
           /\ \A t \in RsTasks : rsTask[t] \in TaskRec
           /\ rsMap \in [RsAccounts -> RsTasks \cup {NoTask}]
           /\ rsHeap \subseteq RsTasks /\ rsQueue \in Seq(RsTasks)
           /\ rsExec \in RsTasks \cup {NoTask} /\ rsRetry \subseteq RsTasks
           /\ rsLoop.at = "send" => rsLoop.task \in RsTasks
<1>1. /\ rsTask \in Seq(TaskRec) /\ Len(rsTask) <= rsCalls /\ rsCalls <= MaxTasks
      /\ rsCalls \in Nat /\ MaxTasks \in Nat /\ NoTask \notin 1..MaxTasks
  BY RefreshSchedulerAssumption DEF RsInv, RsTypeOK
<1>2. RsTasks = 1..Len(rsTask) /\ Len(rsTask) \in Nat
  BY <1>1 DEF RsTasks
<1>3. NoTask \notin RsTasks
  BY <1>1, <1>2
<1>4. \A t \in RsTasks : rsTask[t] \in TaskRec
  BY <1>1, <1>2
<1> QED
  BY <1>1, <1>2, <1>3, <1>4 DEF RsInv, RsTypeOK

\* A task that starts over: everything but its account is new.
LEMMA NewTaskIs ==
    ASSUME NEW a \in RsAccounts, NEW p \in Priorities \cup {Urgent}, NEW due \in BOOLEAN
    PROVE  NewTask(a, p, due) \in TaskRec /\ NewTask(a, p, due).account = a
BY DEF NewTask, TaskRec

\* A task of the sequence is replaced by another of the same account.
LEMMA TaskReplaced ==
    ASSUME RsInv, NEW t \in RsTasks, NEW x \in TaskRec, x.account = rsTask[t].account,
           rsTask' = [rsTask EXCEPT ![t] = x]
    PROVE  /\ rsTask' \in Seq(TaskRec) /\ RsTasks' = RsTasks /\ Len(rsTask') = Len(rsTask)
           /\ rsTask'[t] = x /\ \A u \in RsTasks \ {t} : rsTask'[u] = rsTask[u]
           /\ \A u \in RsTasks : rsTask'[u].account = rsTask[u].account
<1>1. /\ rsTask' \in Seq(TaskRec) /\ Len(rsTask') = Len(rsTask)
      /\ rsTask'[t] = x /\ \A u \in RsTasks \ {t} : rsTask'[u] = rsTask[u]
  BY RsTypes
<1>2. RsTasks' = 1..Len(rsTask')
  BY <1>1 DEF RsTasks
<1> QED
  BY <1>1, <1>2, RsTypes

\* A task that is appended gets the next number; the others are those of the marked table.
LEMMA TaskAppended ==
    ASSUME RsInv, NEW marked \in Seq(TaskRec), Len(marked) = Len(rsTask), NEW x \in TaskRec,
           rsTask' = Append(marked, x)
    PROVE  /\ rsTask' \in Seq(TaskRec) /\ Len(rsTask') = Len(rsTask) + 1
           /\ RsTasks' = RsTasks \cup {Len(rsTask) + 1}
           /\ rsTask'[Len(rsTask) + 1] = x /\ \A u \in RsTasks : rsTask'[u] = marked[u]
<1>1. rsTask' \in Seq(TaskRec) /\ Len(rsTask') = Len(rsTask) + 1
      /\ rsTask'[Len(rsTask) + 1] = x /\ \A u \in RsTasks : rsTask'[u] = marked[u]
  BY RsTypes
<1>2. RsTasks' = 1..(Len(rsTask) + 1)
  BY <1>1 DEF RsTasks
<1> QED
  BY <1>1, <1>2, RsTypes

\* A sequence over a set is one over any larger set.
LEMMA SeqWider ==
    ASSUME NEW S, NEW T, S \subseteq T, NEW q \in Seq(S)
    PROVE  q \in Seq(T)
OBVIOUS

\* The channel: what is appended is in it, with what was, and the head is all it loses.
LEMMA QueueSent ==
    ASSUME NEW S, rsQueue \in Seq(S), NEW t \in S, rsQueue' = Append(rsQueue, t)
    PROVE  rsQueue' \in Seq(S) /\ Queued(t)' /\ \A u : Queued(u) => Queued(u)'
<1>1. rsQueue' \in Seq(S) /\ DOMAIN rsQueue' = 1..(Len(rsQueue) + 1)
      /\ DOMAIN rsQueue = 1..Len(rsQueue) /\ Len(rsQueue) \in Nat
      /\ rsQueue'[Len(rsQueue) + 1] = t
      /\ \A i \in 1..Len(rsQueue) : rsQueue'[i] = rsQueue[i]
  OBVIOUS
<1>2. Queued(t)'
  BY <1>1 DEF Queued
<1>3. ASSUME NEW u, Queued(u) PROVE Queued(u)'
  BY <1>1, <1>3 DEF Queued
<1> QED
  BY <1>1, <1>2, <1>3

\* Receiving takes the head off the queue and leaves the rest queued.
LEMMA QueueReceived ==
    ASSUME NEW S, rsQueue \in Seq(S), rsQueue # <<>>, rsQueue' = Tail(rsQueue)
    PROVE  /\ rsQueue' \in Seq(S) /\ Head(rsQueue) \in S
           /\ \A u : Queued(u) => u = Head(rsQueue) \/ Queued(u)'
<1>1. /\ rsQueue' \in Seq(S) /\ Len(rsQueue) \in Nat \ {0} /\ DOMAIN rsQueue = 1..Len(rsQueue)
      /\ DOMAIN rsQueue' = 1..(Len(rsQueue) - 1) /\ Head(rsQueue) = rsQueue[1]
      /\ Head(rsQueue) \in S
      /\ \A i \in 1..(Len(rsQueue) - 1) : rsQueue'[i] = rsQueue[i + 1]
  OBVIOUS
<1>2. ASSUME NEW u, Queued(u), u # Head(rsQueue) PROVE Queued(u)'
  <2>1. PICK i \in 1..Len(rsQueue) : rsQueue[i] = u
    BY <1>1, <1>2 DEF Queued
  <2>2. i - 1 \in 1..(Len(rsQueue) - 1) /\ rsQueue'[i - 1] = u
    BY <1>1, <1>2, <2>1
  <2> QED
    BY <1>1, <2>2 DEF Queued
<1> QED
  BY <1>1, <1>2

\* The calls.
LEMMA ScheduleKeeps ==
    ASSUME RsInv, NEW a \in RsAccounts, Schedule(a), rsCalls < MaxTasks, rsCalls' = rsCalls + 1
    PROVE  RsInv'
<1> USE RefreshSchedulerAssumption
<1>1. PICK p \in Priorities, due \in BOOLEAN :
         \/ /\ Known(a) /\ rsTask[rsMap[a]].state # "running"
            /\ rsTask' = [rsTask EXCEPT ![rsMap[a]] = NewTask(a, p, due)]
            /\ rsHeap' = pushToQueue(rsMap[a])
            /\ rsDropped' = rsDropped \ {rsMap[a]}
            /\ rsMissed' = rsMissed \ {rsMap[a]}
            /\ UNCHANGED <<rsMap, rsQueue, rsLoop, rsExec, rsRuns, rsEnded, rsRetry, rsPhase>>
         \/ /\ ~Known(a)
            /\ rsTask' = Append(rsTask, NewTask(a, p, due))
            /\ rsMap' = [rsMap EXCEPT ![a] = Len(rsTask) + 1]
            /\ rsHeap' = pushToQueue(Len(rsTask) + 1)
            /\ UNCHANGED <<rsQueue, rsLoop, rsExec, rsRuns, rsEnded, rsRetry, rsPhase, rsDropped,
                           rsMissed>>
  BY DEF Schedule
<1>2. PICK x \in TaskRec : x = NewTask(a, p, due) /\ x.account = a
  BY NewTaskIs
<1>3. rsCalls' \in Nat /\ rsCalls' <= MaxTasks /\ Len(rsTask) + 1 <= rsCalls'
  BY DEF RsInv, RsTypeOK
<1>4. CASE Known(a)
  <2> DEFINE t == rsMap[a]
  <2>1. t \in RsTasks /\ rsTask[t].account = a
    BY <1>4, RsTypes DEF Known, RsInv, OwnTask
  <2>2. /\ rsTask' = [rsTask EXCEPT ![t] = x] /\ rsHeap' = rsHeap \cup {t}
        /\ rsDropped' = rsDropped \ {t} /\ rsMissed' = rsMissed \ {t}
        /\ UNCHANGED <<rsMap, rsQueue, rsLoop, rsExec, rsRetry, rsPhase>>
    BY <1>1, <1>2, <1>4 DEF pushToQueue
  <2> HIDE DEF t
  <2>3. /\ rsTask' \in Seq(TaskRec) /\ RsTasks' = RsTasks /\ Len(rsTask') = Len(rsTask)
        /\ rsTask'[t] = x /\ \A u \in RsTasks \ {t} : rsTask'[u] = rsTask[u]
        /\ \A u \in RsTasks : rsTask'[u].account = rsTask[u].account
    BY <1>2, <2>1, <2>2, TaskReplaced
  <2>4. RsTypeOK'
    BY <1>3, <2>1, <2>2, <2>3, RsTypes DEF RsTypeOK
  <2>5. OwnTask'
    BY <2>2, <2>3, RsTypes DEF OwnTask, Known, RsInv
  <2>6. \A u \in RsTasks : u = t \/ Placed(u) => Placed(u)'
    BY <2>2 DEF Placed, Queued
  <2> QED
    BY <2>1, <2>2, <2>3, <2>4, <2>5, <2>6, PlacesKeep
<1>5. CASE ~Known(a)
  <2>0. PICK t \in Nat : t = Len(rsTask) + 1
    BY RsTypes
  <2>1. /\ rsTask' = Append(rsTask, x) /\ rsMap' = [rsMap EXCEPT ![a] = t]
        /\ rsHeap' = rsHeap \cup {t}
        /\ UNCHANGED <<rsQueue, rsLoop, rsExec, rsRetry, rsPhase, rsDropped, rsMissed>>
    BY <1>1, <1>2, <1>5, <2>0 DEF pushToQueue
  <2>2. /\ rsTask' \in Seq(TaskRec) /\ Len(rsTask') = t /\ RsTasks' = RsTasks \cup {t}
        /\ rsTask'[t] = x /\ \A u \in RsTasks : rsTask'[u] = rsTask[u]
    BY <2>0, <2>1, RsTypes, TaskAppended
  <2>3. t \notin RsTasks /\ t # NoTask
    <3>1. t \in 1..MaxTasks
      BY <1>3, <2>0, RsTypes DEF RsInv, RsTypeOK
    <3> QED
      BY <2>0, <3>1, RsTypes
  <2>4. t <= rsCalls'
    BY <1>3, <2>0
  <2>5. RsTypeOK'
    <3>1. rsMap' \in [RsAccounts -> RsTasks' \cup {NoTask}] /\ rsHeap' \subseteq RsTasks'
          /\ rsExec' \in RsTasks' \cup {NoTask} /\ rsRetry' \subseteq RsTasks'
          /\ (rsLoop'.at = "send" => rsLoop'.task \in RsTasks')
      BY <2>1, <2>2, RsTypes
    <3>2. rsQueue' \in Seq(RsTasks')
      BY <2>1, <2>2, RsTypes, SeqWider
    <3> QED
      BY <1>3, <2>2, <2>4, <3>1, <3>2 DEF RsTypeOK
  <2>6. rsMap'[a] = t /\ \A b \in RsAccounts \ {a} : rsMap'[b] = rsMap[b]
    BY <2>1, RsTypes
  <2>7. OwnTask'
    <3>1. \A b \in RsAccounts \ {a} : Known(b)' =>
             rsMap[b] \in RsTasks /\ rsTask[rsMap[b]].account = b
      BY <2>6, RsTypes DEF OwnTask, Known, RsInv
    <3> QED
      BY <1>2, <2>2, <2>6, <3>1 DEF OwnTask
  <2>8. Placed(t)' /\ \A u \in RsTasks : Placed(u) => Placed(u)'
    BY <2>1 DEF Placed, Queued
  <2>9. ASSUME NEW b \in RsAccounts, rsPhase' = "on", Known(b)', rsTask'[rsMap'[b]].state = "pending"
        PROVE  Placed(rsMap[b])'
    <3>1. CASE b = a
      BY <2>6, <2>8, <3>1
    <3>2. CASE b # a
      <4>1. Known(b) /\ rsMap'[b] = rsMap[b] /\ rsMap[b] \in RsTasks
        BY <2>6, <2>9, <3>2, RsTypes DEF Known
      <4>2. Placed(rsMap[b])
        BY <2>1, <2>2, <2>9, <4>1 DEF RsInv
      <4> QED
        BY <2>8, <4>1, <4>2
    <3> QED
      BY <3>1, <3>2
  <2> QED
    BY <2>5, <2>7, <2>9 DEF RsInv
<1> QED
  BY <1>4, <1>5

\* An urgent task replaces the account's waiting one and is placed at once.
LEMMA ScheduleImmediateKeeps ==
    ASSUME RsInv, NEW a \in RsAccounts, ScheduleImmediate(a), rsCalls < MaxTasks,
           rsCalls' = rsCalls + 1
    PROVE  RsInv'
<1> USE RefreshSchedulerAssumption
<1>0. PICK t \in Nat : t = Len(rsTask) + 1
  BY RsTypes
<1>1. PICK x \in TaskRec : x = NewTask(a, Urgent, TRUE) /\ x.account = a
  BY NewTaskIs
<1>2. PICK marked \in Seq(TaskRec) :
         /\ Len(marked) = Len(rsTask)
         /\ marked = IF Known(a) THEN [rsTask EXCEPT ![rsMap[a]].state = "success"] ELSE rsTask
         /\ \A u \in RsTasks : /\ marked[u].account = rsTask[u].account
                               /\ marked[u].state = "pending" =>
                                     rsTask[u].state = "pending" /\ (Known(a) => u # rsMap[a])
  <2>1. CASE Known(a)
    <3>1. rsMap[a] \in RsTasks
      BY <2>1, RsTypes DEF Known
    <3>2. PICK z \in TaskRec : z = [rsTask[rsMap[a]] EXCEPT !.state = "success"]
      BY <3>1, RsTypes DEF TaskRec
    <3>3. z.account = rsTask[rsMap[a]].account /\ z.state = "success"
      BY <3>1, <3>2, RsTypes DEF TaskRec
    <3>4. [rsTask EXCEPT ![rsMap[a]].state = "success"] = [rsTask EXCEPT ![rsMap[a]] = z]
      BY <3>2
    <3>5. PICK m \in Seq(TaskRec) : m = [rsTask EXCEPT ![rsMap[a]] = z]
      <4>1. rsTask \in Seq(TaskRec) /\ rsMap[a] \in 1..Len(rsTask)
        BY <3>1, RsTypes
      <4>2. [rsTask EXCEPT ![rsMap[a]] = z] \in Seq(TaskRec)
        BY <4>1
      <4> QED
        BY <4>2
    <3>6. /\ Len(m) = Len(rsTask) /\ m[rsMap[a]] = z
          /\ \A u \in RsTasks \ {rsMap[a]} : m[u] = rsTask[u]
      BY <3>1, <3>5, RsTypes
    <3> QED
      BY <2>1, <3>3, <3>4, <3>5, <3>6
  <2>2. CASE ~Known(a)
    BY <2>2, RsTypes
  <2> QED
    BY <2>1, <2>2
<1>3. /\ rsPhase # "stopped" /\ rsTask' = Append(marked, x)
      /\ rsHeap' = rsHeap \ {rsMap[a]} /\ rsMap' = [rsMap EXCEPT ![a] = t]
      /\ \/ rsQueue' = Append(rsQueue, t) /\ UNCHANGED rsDropped
         \/ rsDropped' = rsDropped \cup {t} /\ UNCHANGED rsQueue
      /\ UNCHANGED <<rsLoop, rsExec, rsRetry, rsPhase, rsMissed>>
  BY <1>0, <1>1, <1>2 DEF ScheduleImmediate, removeFromQueue
<1>4. /\ rsTask' \in Seq(TaskRec) /\ Len(rsTask') = t /\ RsTasks' = RsTasks \cup {t}
      /\ rsTask'[t] = x /\ \A u \in RsTasks : rsTask'[u] = marked[u]
  BY <1>0, <1>2, <1>3, TaskAppended
<1>5. rsCalls' \in Nat /\ rsCalls' <= MaxTasks /\ t <= rsCalls'
  BY <1>0 DEF RsInv, RsTypeOK
<1>6. t \notin RsTasks /\ t # NoTask
  <2>1. t \in 1..MaxTasks
    BY <1>0, <1>5, RsTypes
  <2> QED
    BY <1>0, <2>1, RsTypes
<1>7. /\ rsQueue' \in Seq(RsTasks') /\ \A u : Queued(u) => Queued(u)'
      /\ Queued(t)' \/ t \in rsDropped'
  <2>1. rsQueue \in Seq(RsTasks') /\ t \in RsTasks'
    BY <1>4, RsTypes, SeqWider
  <2>2. CASE rsQueue' = Append(rsQueue, t) /\ UNCHANGED rsDropped
    <3>1. PICK S : S = RsTasks'
      OBVIOUS
    <3>2. rsQueue' \in Seq(S) /\ Queued(t)' /\ \A u : Queued(u) => Queued(u)'
      BY <2>1, <2>2, <3>1, QueueSent
    <3> QED
      BY <3>1, <3>2
  <2>3. CASE rsDropped' = rsDropped \cup {t} /\ UNCHANGED rsQueue
    BY <2>1, <2>3 DEF Queued
  <2> QED
    BY <1>3, <2>2, <2>3
<1>8. rsMap'[a] = t /\ \A b \in RsAccounts \ {a} : rsMap'[b] = rsMap[b]
  BY <1>3, RsTypes
<1>9. RsTypeOK'
  <2>1. rsMap' \in [RsAccounts -> RsTasks' \cup {NoTask}] /\ rsHeap' \subseteq RsTasks'
        /\ rsExec' \in RsTasks' \cup {NoTask} /\ rsRetry' \subseteq RsTasks'
        /\ (rsLoop'.at = "send" => rsLoop'.task \in RsTasks')
    BY <1>3, <1>4, RsTypes
  <2> QED
    BY <1>4, <1>5, <1>7, <2>1 DEF RsTypeOK
<1>10. \A b \in RsAccounts \ {a} : Known(b)' =>
          Known(b) /\ rsMap[b] \in RsTasks /\ rsTask[rsMap[b]].account = b
  BY <1>8, RsTypes DEF OwnTask, Known, RsInv
<1>11. OwnTask'
  <2>1. rsTask'[rsMap'[a]].account = a
    BY <1>1, <1>4, <1>8
  <2>2. ASSUME NEW b \in RsAccounts \ {a}, Known(b)' PROVE rsTask'[rsMap'[b]].account = b
    <3>1. rsMap[b] \in RsTasks /\ rsTask[rsMap[b]].account = b /\ rsMap'[b] = rsMap[b]
      BY <1>8, <1>10, <2>2
    <3> QED
      BY <1>2, <1>4, <3>1
  <2> QED
    BY <2>1, <2>2 DEF OwnTask
<1>12. ASSUME NEW b \in RsAccounts, rsPhase' = "on", Known(b)', rsTask'[rsMap'[b]].state = "pending"
      PROVE  Placed(rsMap[b])'
  <2>1. CASE b = a
    <3>1. Placed(t)'
      BY <1>7 DEF Placed
    <3> QED
      BY <1>8, <2>1, <3>1
  <2>2. CASE b # a
    <3>1. PICK u \in RsTasks : u = rsMap[b] /\ rsMap'[b] = u /\ rsTask[u].state = "pending"
                               /\ u # rsMap[a]
      <4>1. PICK u \in RsTasks : u = rsMap[b] /\ rsMap'[b] = u
        BY <1>8, <1>10, <1>12, <2>2
      <4>2. marked[u].state = "pending"
        BY <1>4, <1>12, <4>1
      <4>3. rsTask[u].state = "pending" /\ (Known(a) => u # rsMap[a])
        BY <1>2, <4>2
      <4>4. ~Known(a) => u # rsMap[a]
        BY <4>1, RsTypes DEF Known
      <4> QED
        BY <4>1, <4>3, <4>4
    <3>2. Placed(u)
      BY <1>3, <1>10, <1>12, <2>2, <3>1 DEF RsInv
    <3>3. Placed(u)'
      BY <1>3, <1>7, <3>1, <3>2 DEF Placed
    <3> QED
      BY <3>1, <3>3
  <2> QED
    BY <2>1, <2>2
<1> QED
  BY <1>9, <1>11, <1>12 DEF RsInv

\* A cancelled task leaves the map and the heap together.
LEMMA CancelTaskKeeps ==
    ASSUME RsInv, NEW a \in RsAccounts, CancelTask(a), rsCalls < MaxTasks, rsCalls' = rsCalls + 1
    PROVE  RsInv'
<1> USE RefreshSchedulerAssumption
<1>1. PICK t \in RsTasks : t = rsMap[a]
  BY RsTypes DEF CancelTask, Known
<1>2. /\ rsTask' = [rsTask EXCEPT ![t].state = "success"] /\ rsHeap' = rsHeap \ {t}
      /\ rsMap' = [rsMap EXCEPT ![a] = NoTask]
      /\ UNCHANGED <<rsQueue, rsLoop, rsExec, rsRetry, rsPhase, rsDropped, rsMissed>>
  BY <1>1 DEF CancelTask, removeFromQueue
<1>3. PICK x \in TaskRec : x = [rsTask[t] EXCEPT !.state = "success"]
                           /\ x.account = rsTask[t].account /\ x.state = "success"
  <2>1. PICK y \in TaskRec : y = rsTask[t]
    BY RsTypes
  <2>2. PICK x \in TaskRec : x = [y EXCEPT !.state = "success"]
    BY DEF TaskRec
  <2>3. x.account = y.account /\ x.state = "success"
    BY <2>2 DEF TaskRec
  <2> QED
    BY <2>1, <2>2, <2>3
<1>4. rsTask' = [rsTask EXCEPT ![t] = x]
  BY <1>2, <1>3
<1>5. /\ rsTask' \in Seq(TaskRec) /\ RsTasks' = RsTasks /\ Len(rsTask') = Len(rsTask)
      /\ rsTask'[t] = x /\ \A u \in RsTasks \ {t} : rsTask'[u] = rsTask[u]
      /\ \A u \in RsTasks : rsTask'[u].account = rsTask[u].account
  BY <1>3, <1>4, TaskReplaced
<1>6. rsCalls' \in Nat /\ rsCalls' <= MaxTasks /\ Len(rsTask) <= rsCalls'
  BY DEF RsInv, RsTypeOK
<1>7. rsMap' \in [RsAccounts -> RsTasks \cup {NoTask}]
      /\ \A b \in RsAccounts : rsMap'[b] \in {rsMap[b], NoTask}
  BY <1>2, RsTypes
<1>8. RsTypeOK'
  BY <1>2, <1>5, <1>6, <1>7, RsTypes DEF RsTypeOK
<1>9. OwnTask'
  BY <1>5, <1>7, RsTypes DEF OwnTask, Known, RsInv
<1>10. \A u \in RsTasks \ {t} : Placed(u) => Placed(u)'
  BY <1>2 DEF Placed, Queued
<1> QED
  BY <1>2, <1>3, <1>5, <1>7, <1>8, <1>9, <1>10, PlacesKeep

-----------------------------------------------------------------------------
(* The three loops. *)

\* What the loops leave of the tasks' number and the calls.
LEMMA RsTypedAsBefore ==
    ASSUME RsInv, rsTask' \in Seq(TaskRec), Len(rsTask') = Len(rsTask), rsCalls' = rsCalls,
           rsMap' \in [RsAccounts -> RsTasks \cup {NoTask}],
           rsHeap' \subseteq RsTasks, rsQueue' \in Seq(RsTasks),
           rsExec' \in RsTasks \cup {NoTask}, rsRetry' \subseteq RsTasks,
           rsLoop'.at = "send" => rsLoop'.task \in RsTasks
    PROVE  RsTypeOK' /\ RsTasks' = RsTasks
<1>1. RsTasks' = 1..Len(rsTask')
  BY DEF RsTasks
<1>2. RsTasks' = RsTasks
  BY <1>1, RsTypes
<1> QED
  BY <1>2 DEF RsInv, RsTypeOK

\* A step that leaves tasks and map alone and loses the place of none that waits.
LEMMA MovesKeep ==
    ASSUME RsInv, UNCHANGED <<rsTask, rsMap, rsCalls>>, rsPhase' = "on" => rsPhase = "on",
           rsHeap' \subseteq RsTasks, rsQueue' \in Seq(RsTasks),
           rsExec' \in RsTasks \cup {NoTask}, rsRetry' \subseteq RsTasks,
           rsLoop'.at = "send" => rsLoop'.task \in RsTasks,
           rsPhase' = "on" =>
              \A t \in RsTasks : rsTask[t].state = "pending" /\ Placed(t) => Placed(t)'
    PROVE  RsInv'
<1>1. RsTypeOK'
  BY RsTypes, RsTypedAsBefore
<1>2. OwnTask'
  BY DEF OwnTask, Known, RsInv
<1>3. ASSUME NEW a \in RsAccounts, rsPhase' = "on", Known(a)', rsTask'[rsMap'[a]].state = "pending"
      PROVE  Placed(rsMap[a])'
  <2>1. PICK t \in RsTasks : t = rsMap[a] /\ rsMap'[a] = t
    BY <1>3, RsTypes DEF Known
  <2>2. Placed(t)
    BY <1>3, <2>1 DEF RsInv, Known
  <2>3. Placed(t)'
    BY <1>3, <2>1, <2>2
  <2> QED
    BY <2>1, <2>3
<1> QED
  BY <1>1, <1>2, <1>3 DEF RsInv

\* The scheduling loop moves a due task from the heap to its hand and on to the queue.
LEMMA ScheduleLoopKeeps ==
    ASSUME RsInv, ScheduleLoopStep
    PROVE  RsInv'
<1> USE RsTypes
<1>1. UNCHANGED <<rsTask, rsMap, rsCalls, rsExec, rsRetry, rsPhase, rsDropped>>
  BY DEF ScheduleLoopStep, tick, peekQueue, discard, popFromQueue, send, unchangedByLoop
<1>2. CASE tick \/ peekQueue
  <2>1. UNCHANGED <<rsHeap, rsQueue, rsMissed>> /\ rsLoop'.at # "send" /\ rsLoop.at # "send"
    BY <1>2 DEF tick, peekQueue, Idle
  <2> QED
    BY <1>1, <2>1, MovesKeep DEF Placed, Queued
<1>3. CASE discard
  <2>1. UNCHANGED rsQueue /\ rsLoop'.at # "send" /\ rsLoop.at # "send"
    BY <1>3 DEF discard, Idle
  <2>2. /\ rsHeap' \subseteq rsHeap /\ rsMissed \subseteq rsMissed'
        /\ \A t \in rsHeap \ rsHeap' : rsTask[t].state = "pending" => t \in rsMissed'
    BY <1>3 DEF discard
  <2> QED
    BY <1>1, <2>1, <2>2, MovesKeep DEF Placed, Queued
<1>4. CASE popFromQueue
  <2>1. UNCHANGED <<rsQueue, rsMissed>> /\ rsLoop.at = "pop"
    BY <1>4 DEF popFromQueue
  <2>2. CASE UNCHANGED rsHeap /\ rsLoop' = Idle
    BY <1>1, <2>1, <2>2, MovesKeep DEF Placed, Queued, Idle
  <2>3. ASSUME NEW t \in rsHeap, rsHeap' = rsHeap \ {t}, rsLoop' = [at |-> "send", task |-> t]
        PROVE  RsInv'
    <3>1. rsLoop'.at = "send" /\ rsLoop'.task = t /\ rsHeap' \subseteq RsTasks /\ t \in RsTasks
      BY <2>3
    <3>2. \A u \in RsTasks : Placed(u) => Placed(u)'
      BY <1>1, <2>1, <2>3, <3>1 DEF Placed, Queued
    <3> QED
      BY <1>1, <2>1, <3>1, <3>2, MovesKeep
  <2> QED
    BY <1>4, <2>2, <2>3 DEF popFromQueue, Heads
<1>5. CASE send
  <2>1. PICK t \in RsTasks : t = rsLoop.task /\ rsLoop.at = "send"
    BY <1>5 DEF send
  <2>2. UNCHANGED rsMissed /\ rsLoop'.at # "send"
    BY <1>5 DEF send, Idle
  <2>3. CASE rsQueue' = Append(rsQueue, t) /\ UNCHANGED rsHeap
    <3>1. PICK S : S = RsTasks
      OBVIOUS
    <3>2. rsQueue' \in Seq(S) /\ Queued(t)' /\ \A u : Queued(u) => Queued(u)'
      BY <2>3, <3>1, QueueSent
    <3>3. \A u \in RsTasks : Placed(u) => Placed(u)'
      BY <1>1, <2>1, <2>2, <2>3, <3>2 DEF Placed
    <3> QED
      BY <1>1, <2>2, <2>3, <3>1, <3>2, <3>3, MovesKeep
  <2>4. CASE rsHeap' = rsHeap \cup {t} /\ UNCHANGED rsQueue
    <3>1. \A u \in RsTasks : Placed(u) => Placed(u)'
      BY <1>1, <2>1, <2>2, <2>4 DEF Placed, Queued
    <3> QED
      BY <1>1, <2>2, <2>4, <3>1, MovesKeep
  <2> QED
    BY <1>5, <2>1, <2>3, <2>4 DEF send, pushToQueue
<1> QED
  BY <1>2, <1>3, <1>4, <1>5 DEF ScheduleLoopStep

\* A step that gives one task another state and leaves the map alone: the task does not
\* wait, or is placed, and no other task loses its place.
LEMMA OneTaskKeeps ==
    ASSUME RsInv, NEW t \in RsTasks, NEW x \in TaskRec, x.account = rsTask[t].account,
           rsTask' = [rsTask EXCEPT ![t] = x], rsCalls' = rsCalls,
           \A a \in RsAccounts : rsMap'[a] \in {rsMap[a], NoTask},
           rsMap' \in [RsAccounts -> RsTasks \cup {NoTask}],
           rsPhase' = "on" => rsPhase = "on",
           rsHeap' \subseteq RsTasks, rsQueue' \in Seq(RsTasks),
           rsExec' \in RsTasks \cup {NoTask}, rsRetry' \subseteq RsTasks,
           rsLoop'.at = "send" => rsLoop'.task \in RsTasks,
           x.state = "pending" => rsTask[t].state = "pending" \/ t \in rsHeap',
           x.state = "pending" /\ Placed(t) => Placed(t)',
           \A u \in RsTasks \ {t} : Placed(u) => Placed(u)'
    PROVE  RsInv'
<1>1. /\ rsTask' \in Seq(TaskRec) /\ Len(rsTask') = Len(rsTask)
      /\ rsTask'[t] = x /\ \A u \in RsTasks \ {t} : rsTask'[u] = rsTask[u]
      /\ \A u \in RsTasks : rsTask'[u].account = rsTask[u].account
  BY TaskReplaced
<1>2. RsTypeOK'
  BY <1>1, RsTypedAsBefore
<1>3. OwnTask'
  <2> SUFFICES ASSUME NEW a \in RsAccounts, Known(a)'
               PROVE  rsTask'[rsMap'[a]].account = a
    BY DEF OwnTask
  <2>1. rsMap'[a] = rsMap[a] /\ rsMap[a] \in RsTasks /\ Known(a)
    BY RsTypes DEF Known
  <2>2. rsTask[rsMap[a]].account = a
    BY <2>1 DEF RsInv, OwnTask
  <2> QED
    BY <1>1, <2>1, <2>2
<1>4. t \in rsHeap' => Placed(t)'
  BY DEF Placed
<1>5. \A u \in RsTasks : rsTask'[u].state = "pending" =>
         \/ rsTask[u].state = "pending" /\ (Placed(u) => Placed(u)')
         \/ Placed(u)'
  BY <1>1, <1>4
<1> QED
  BY <1>2, <1>3, <1>5, PlacesKeep

\* The executor takes the task it received into its hand.
LEMMA ReceivesKeeps ==
    ASSUME RsInv, Receives
    PROVE  RsInv'
<1> USE RsTypes
<1>1. /\ rsPhase = "on" /\ rsExec = NoTask /\ rsQueue # <<>>
      /\ rsExec' = Head(rsQueue) /\ rsQueue' = Tail(rsQueue)
      /\ UNCHANGED <<rsTask, rsMap, rsHeap, rsLoop, rsRetry, rsPhase, rsDropped, rsMissed, rsCalls>>
  BY DEF Receives, unchangedByExec
<1>2. PICK S : S = RsTasks
  OBVIOUS
<1>3. /\ rsQueue' \in Seq(S) /\ Head(rsQueue) \in S
      /\ \A u : Queued(u) => u = Head(rsQueue) \/ Queued(u)'
  BY <1>1, <1>2, QueueReceived
<1>4. \A u \in RsTasks : Placed(u) => Placed(u)'
  BY <1>1, <1>3 DEF Placed
<1> QED
  BY <1>1, <1>2, <1>3, <1>4, MovesKeep

\* A task that is executed is running and waits nowhere.
LEMMA executeTaskKeeps ==
    ASSUME RsInv, executeTask
    PROVE  RsInv'
<1> USE RsTypes
<1>1. PICK t \in RsTasks : t = rsExec
  BY DEF executeTask
<1>2. /\ rsTask' = [rsTask EXCEPT ![t].state = "running"] /\ rsExec' = NoTask
      /\ UNCHANGED <<rsMap, rsHeap, rsQueue, rsLoop, rsRetry, rsPhase, rsDropped, rsMissed, rsCalls>>
  BY <1>1 DEF executeTask, unchangedByExec
<1>3. PICK y \in TaskRec : y = rsTask[t]
  OBVIOUS
<1>4. PICK x \in TaskRec : x = [y EXCEPT !.state = "running"]
                        /\ x.account = y.account /\ x.state = "running"
  <2>1. PICK x \in TaskRec : x = [y EXCEPT !.state = "running"]
    BY DEF TaskRec
  <2>2. x.account = y.account /\ x.state = "running"
    BY <2>1 DEF TaskRec
  <2> QED
    BY <2>1, <2>2
<1>5. rsTask' = [rsTask EXCEPT ![t] = x]
  BY <1>2, <1>3, <1>4
<1>6. \A u \in RsTasks \ {t} : Placed(u) => Placed(u)'
  BY <1>1, <1>2 DEF Placed, Queued
<1> QED
  BY <1>2, <1>3, <1>4, <1>5, <1>6, OneTaskKeeps

\* A task given up is failed, not pending.
LEMMA givesUpKeeps ==
    ASSUME RsInv, givesUp
    PROVE  RsInv'
BY RsTypes, MovesKeep DEF givesUp, unchangedByExec

\* Any outcome leaves a task that does not wait.
LEMMA EndsKeeps ==
    ASSUME RsInv, NEW t \in RsTasks, NEW outcome \in Outcomes, Ends(t, outcome)
    PROVE  RsInv'
<1> USE RsTypes
<1>1. PICK y \in TaskRec : y = rsTask[t]
  OBVIOUS
<1>2. Min({y.attempts + 1, RetryMaxAttempts}) \in Nat
  <2>1. y.attempts + 1 \in Nat /\ RetryMaxAttempts \in Nat
    BY RefreshSchedulerAssumption DEF TaskRec
  <2>2. \A m \in Nat, n \in Nat : Min({m, n}) \in Nat
    <3> SUFFICES ASSUME NEW m \in Nat, NEW n \in Nat PROVE Min({m, n}) \in Nat
      OBVIOUS
    <3>1. \E x \in {m, n} : \A z \in {m, n} : x <= z
      OBVIOUS
    <3>2. Min({m, n}) \in {m, n}
      BY <3>1 DEF Min
    <3> QED
      BY <3>2
  <2> QED
    BY <2>1, <2>2
<1>3. PICK n \in Nat : n = Min({y.attempts + 1, RetryMaxAttempts})
  BY <1>2
<1>4. PICK x \in TaskRec : /\ x.account = y.account /\ x.state # "pending"
                           /\ rsTask' = [rsTask EXCEPT ![t] = x]
  <2>1. CASE outcome = "success"
    <3>1. rsTask' = [rsTask EXCEPT ![t] = [y EXCEPT !.state = "success"]]
      BY <1>1, <2>1 DEF Ends
    <3>2. PICK x \in TaskRec : x = [y EXCEPT !.state = "success"]
                            /\ x.account = y.account /\ x.state = "success"
      <4>1. PICK x \in TaskRec : x = [y EXCEPT !.state = "success"]
        BY DEF TaskRec
      <4>2. x.account = y.account /\ x.state = "success"
        BY <4>1 DEF TaskRec
      <4> QED
        BY <4>1, <4>2
    <3> QED
      BY <3>1, <3>2
  <2>2. CASE outcome = "failed" /\ n < RetryMaxAttempts
    <3>0. ~(n >= RetryMaxAttempts)
      BY <2>2, RefreshSchedulerAssumption
    <3>1. rsTask' = [rsTask EXCEPT ![t] =
                        [y EXCEPT !.state = "retrying", !.attempts = n, !.due = FALSE]]
      BY <1>1, <1>3, <2>2, <3>0 DEF Ends
    <3>2. PICK x \in TaskRec : x = [y EXCEPT !.state = "retrying", !.attempts = n, !.due = FALSE]
                            /\ x.account = y.account /\ x.state = "retrying"
      <4>1. PICK x \in TaskRec : x = [y EXCEPT !.state = "retrying", !.attempts = n, !.due = FALSE]
        BY DEF TaskRec
      <4>2. x.account = y.account /\ x.state = "retrying"
        BY <4>1 DEF TaskRec
      <4> QED
        BY <4>1, <4>2
    <3> QED
      BY <3>1, <3>2
  <2>3. CASE outcome = "refused" \/ (outcome = "failed" /\ ~(n < RetryMaxAttempts))
    <3>0. outcome = "failed" => n >= RetryMaxAttempts
      BY <2>3, RefreshSchedulerAssumption
    <3>1. rsTask' = [rsTask EXCEPT ![t] = [y EXCEPT !.state = "failed", !.attempts = n]]
      BY <1>1, <1>3, <2>3, <3>0 DEF Ends
    <3>2. PICK x \in TaskRec : x = [y EXCEPT !.state = "failed", !.attempts = n]
                            /\ x.account = y.account /\ x.state = "failed"
      <4>1. PICK x \in TaskRec : x = [y EXCEPT !.state = "failed", !.attempts = n]
        BY DEF TaskRec
      <4>2. x.account = y.account /\ x.state = "failed"
        BY <4>1 DEF TaskRec
      <4> QED
        BY <4>1, <4>2
    <3> QED
      BY <3>1, <3>2
  <2> QED
    BY <2>1, <2>2, <2>3 DEF Outcomes
<1>5. UNCHANGED <<rsMap, rsHeap, rsQueue, rsExec, rsLoop, rsRetry, rsPhase, rsDropped, rsMissed,
                  rsCalls>>
  BY DEF Ends, unchangedByExec
<1>6. \A u \in RsTasks \ {t} : Placed(u) => Placed(u)'
  BY <1>5 DEF Placed, Queued
<1> QED
  BY <1>1, <1>4, <1>5, <1>6, OneTaskKeeps

\* The map may lose an entry: nothing is claimed of an account without one.
LEMMA CleansUpKeeps ==
    ASSUME RsInv, NEW t \in RsTasks, CleansUp(t)
    PROVE  RsInv'
<1> USE RsTypes
<1>1. /\ rsMap' \in {rsMap, [rsMap EXCEPT ![rsTask[t].account] = NoTask]}
      /\ UNCHANGED <<rsTask, rsHeap, rsQueue, rsExec, rsLoop, rsRetry, rsPhase, rsDropped, rsMissed,
                     rsCalls>>
  BY DEF CleansUp, unchangedByExec
<1>2. rsMap' \in [RsAccounts -> RsTasks \cup {NoTask}]
      /\ \A a \in RsAccounts : rsMap'[a] \in {rsMap[a], NoTask}
  BY <1>1
<1>3. RsTypeOK'
  BY <1>1, <1>2, RsTypedAsBefore
<1>4. OwnTask'
  BY <1>1, <1>2 DEF OwnTask, Known, RsInv
<1>5. \A u \in RsTasks : Placed(u) => Placed(u)'
  BY <1>1 DEF Placed, Queued
<1> QED
  BY <1>1, <1>2, <1>3, <1>4, <1>5, PlacesKeep

\* Retries are collected and scheduled again without losing a pending task.
LEMMA RetryStepKeeps ==
    ASSUME RsInv, NEW t \in RsTasks, collectRetries \/ processRetries(t) \/ TimeComes(t)
    PROVE  RsInv'
<1> USE RsTypes
<1>1. UNCHANGED <<rsMap, rsQueue, rsLoop, rsExec, rsDropped, rsMissed, rsCalls, rsPhase>>
  BY DEF collectRetries, processRetries, TimeComes, unchangedByRetry
<1>2. PICK y \in TaskRec : y = rsTask[t]
  OBVIOUS
<1>3. CASE collectRetries
  <2>1. rsRetry' \subseteq RsTasks /\ UNCHANGED <<rsTask, rsHeap>>
    BY <1>3 DEF collectRetries
  <2> QED
    BY <1>1, <2>1, MovesKeep DEF Placed, Queued
<1>4. CASE processRetries(t)
  <2>1. rsTask' = [rsTask EXCEPT ![t] = [y EXCEPT !.state = "pending", !.due = TRUE]]
    BY <1>2, <1>4 DEF processRetries
  <2>2. PICK x \in TaskRec : x = [y EXCEPT !.state = "pending", !.due = TRUE]
                          /\ x.account = y.account
    <3>1. PICK x \in TaskRec : x = [y EXCEPT !.state = "pending", !.due = TRUE]
      BY DEF TaskRec
    <3>2. x.account = y.account
      BY <3>1 DEF TaskRec
    <3> QED
      BY <3>1, <3>2
  <2>3. rsHeap' = rsHeap \cup {t} /\ rsRetry' \subseteq rsRetry
    BY <1>4 DEF processRetries, pushToQueue
  <2>4. Placed(t)' /\ \A u \in RsTasks : Placed(u) => Placed(u)'
    BY <1>1, <2>3 DEF Placed, Queued
  <2> QED
    BY <1>1, <1>2, <2>1, <2>2, <2>3, <2>4, OneTaskKeeps
<1>5. CASE TimeComes(t)
  <2>1. rsTask' = [rsTask EXCEPT ![t] = [y EXCEPT !.due = TRUE]] /\ UNCHANGED <<rsHeap, rsRetry>>
    BY <1>2, <1>5 DEF TimeComes
  <2>2. PICK x \in TaskRec : x = [y EXCEPT !.due = TRUE]
                          /\ x.account = y.account /\ x.state = y.state
    <3>1. PICK x \in TaskRec : x = [y EXCEPT !.due = TRUE]
      BY DEF TaskRec
    <3>2. x.account = y.account /\ x.state = y.state
      BY <3>1 DEF TaskRec
    <3> QED
      BY <3>1, <3>2
  <2>3. \A u \in RsTasks : Placed(u) => Placed(u)'
    BY <1>1, <2>1 DEF Placed, Queued
  <2> QED
    BY <1>1, <1>2, <2>1, <2>2, <2>3, OneTaskKeeps
<1> QED
  BY <1>3, <1>4, <1>5

\* Every step of the refresh scheduler keeps its invariant.
LEMMA RsInvKept ==
    ASSUME RsInv, [RefreshSchedulerNext]_rsVars
    PROVE  RsInv'
<1> USE RsTypes
<1>1. CASE UNCHANGED rsVars
  BY <1>1, MovesKeep DEF rsVars, Placed, Queued
<1>2. CASE Call
  BY <1>2, ScheduleKeeps, ScheduleImmediateKeeps, CancelTaskKeeps DEF Call
<1>3. CASE ExecuteStep
  BY <1>3, ReceivesKeeps, executeTaskKeeps, givesUpKeeps, EndsKeeps, CleansUpKeeps DEF ExecuteStep
<1>4. CASE RetryStep \/ \E t \in RsTasks : TimeComes(t)
  <2>1. CASE collectRetries
    <3>1. rsRetry' \subseteq RsTasks /\ rsRetry' # {}
      BY <2>1 DEF collectRetries
    <3> QED
      BY <2>1, <3>1, RetryStepKeeps
  <2> QED
    BY <1>4, <2>1, RetryStepKeeps DEF RetryStep
<1>5. CASE StopBegins \/ SchedulerStopped
  BY <1>5, MovesKeep DEF StopBegins, SchedulerStopped, unchangedByRetry, Placed, Queued
<1> QED
  BY <1>1, <1>2, <1>3, <1>4, <1>5, ScheduleLoopKeeps DEF RefreshSchedulerNext

\* While the scheduler runs, the waiting task of an account is in the heap, in the channel or
\* in a loop's hands, but for the two ways in which one is lost: an immediate refresh that met
\* a full channel, and a head that changed under processScheduledTasks.
THEOREM PendingPlacedHolds == RefreshSchedulerSpec => []PendingPlaced
<1>1. RefreshSchedulerInit => RsInv
  <2> SUFFICES ASSUME RefreshSchedulerInit PROVE RsInv
    OBVIOUS
  <2>1. RsTypeOK
    <3>1. rsTask = <<>> /\ rsTask \in Seq(TaskRec) /\ Len(rsTask) = 0 /\ RsTasks = {}
      BY DEF RefreshSchedulerInit, RsTasks
    <3> QED
      BY <3>1, RefreshSchedulerAssumption DEF RefreshSchedulerInit, RsTypeOK
  <2> QED
    BY <2>1 DEF RefreshSchedulerInit, RsInv, OwnTask, Known
<1>2. RsInv /\ [RefreshSchedulerNext]_rsVars => RsInv'
  BY RsInvKept
<1>3. RsInv => PendingPlaced
  BY DEF RsInv, Placed, Queued, PendingPlaced
<1> QED
  BY <1>1, <1>2, <1>3, PTL DEF RefreshSchedulerSpec

-----------------------------------------------------------------------------
(* The partitions of the dialog log. *)

\* What holds of the date, and of the month it is in: a check that did not fail leaves a
\* partition for it, and no half day but the first one of a month starts without.
DpInv ==
    /\ dpDate \in [month : Nat, day : Nat \ {0}, half : 0..1]
    /\ dpDate.day <= DaysIn(dpDate.month)
    /\ dpFailed \in BOOLEAN /\ dpChecked \in BOOLEAN
    /\ ~dpFailed /\ dpChecked => dpDate.month \in dpParts
    /\ ~dpFailed => dpDate.month \in dpParts \/ (dpDate.day = 1 /\ dpDate.half = 0)

\* A month has its 28 days at least (time.AddDate).
LEMMA DaysInMonth ==
    ASSUME NEW m \in Nat
    PROVE  DaysIn(m) \in Nat /\ 28 <= DaysIn(m)
BY DEF DaysIn

\* The partitions around a date include the one of its own month.
LEMMA TodayEnsured ==
    ASSUME NEW m \in Nat, NEW d \in Nat, d <= DaysIn(m)
    PROVE  m \in EnsureDialogPartitionsAround(m, d)
<1>1. m + 0 = m /\ AddDate(m, d, 0) = m
  BY DaysInMonth DEF AddDate
<1> QED
  BY <1>1 DEF EnsureDialogPartitionsAround

\* The date half a day later exists, in the same month or on the first of the next.
LEMMA NextHalfDay ==
    ASSUME NEW t \in [month : Nat, day : Nat \ {0}, half : 0..1], t.day <= DaysIn(t.month)
    PROVE  LET n == nextHalfDay(t)
           IN  /\ n \in [month : Nat, day : Nat \ {0}, half : 0..1] /\ n.day <= DaysIn(n.month)
               /\ n.month = t.month \/ (n.day = 1 /\ n.half = 0)
<1>1. CASE t.half = 0
  BY <1>1 DEF nextHalfDay
<1>2. CASE t.half # 0 /\ t.day < DaysIn(t.month)
  <2>1. nextHalfDay(t) = [t EXCEPT !.half = 0, !.day = t.day + 1]
    BY <1>2 DEF nextHalfDay
  <2>2. t.month \in Nat /\ t.day \in Nat \ {0} /\ t.day + 1 \in Nat \ {0}
    OBVIOUS
  <2>3. nextHalfDay(t) = [month |-> t.month, day |-> t.day + 1, half |-> 0]
    BY <2>1
  <2>4. /\ nextHalfDay(t).half = 0 /\ nextHalfDay(t).day = t.day + 1 /\ nextHalfDay(t).month = t.month
        /\ nextHalfDay(t) \in [month : Nat, day : Nat \ {0}, half : 0..1]
    BY <2>2, <2>3
  <2> QED
    BY <1>2, <2>4, DaysInMonth
<1>3. CASE t.half # 0 /\ ~(t.day < DaysIn(t.month))
  <2>1. nextHalfDay(t) = [month |-> t.month + 1, day |-> 1, half |-> 0]
    BY <1>3 DEF nextHalfDay
  <2>2. 28 <= DaysIn(t.month + 1) /\ DaysIn(t.month + 1) \in Nat
    BY DaysInMonth
  <2> QED
    BY <2>1, <2>2
<1> QED
  BY <1>1, <1>2, <1>3

\* A row of the dialog log finds the partition of its month (EnsureDialogPartitionsAround,
\* the ticker of main), whatever the date of the start, as long as no check fails.
THEOREM PartitionInTimeHolds == DialogPartitionsSpec => []PartitionInTime
<1>1. DialogPartitionsInit => DpInv
  <2> SUFFICES ASSUME DialogPartitionsInit PROVE DpInv
    OBVIOUS
  <2>1. /\ dpDate \in [month : 12..23, day : 1..31, half : 0..1] /\ dpDate.day <= DaysIn(dpDate.month)
        /\ dpDate.month \in Nat /\ dpDate.day \in Nat
    BY DEF DialogPartitionsInit
  <2>2. dpDate.month \in dpParts
    BY <2>1, TodayEnsured DEF DialogPartitionsInit
  <2>3. dpDate \in [month : Nat, day : Nat \ {0}, half : 0..1]
    BY <2>1
  <2> QED
    BY <2>1, <2>2, <2>3 DEF DialogPartitionsInit, DpInv
<1>2. DpInv /\ [DialogPartitionsNext]_dpVars => DpInv'
  <2> SUFFICES ASSUME DpInv, [DialogPartitionsNext]_dpVars PROVE DpInv'
    OBVIOUS
  <2>1. CASE HalfDayPasses
    <3>1. /\ dpDate' = nextHalfDay(dpDate) /\ dpDate'.day <= DaysIn(dpDate'.month)
          /\ dpDate' \in [month : Nat, day : Nat \ {0}, half : 0..1]
          /\ dpDate'.month = dpDate.month \/ (dpDate'.day = 1 /\ dpDate'.half = 0)
      BY <2>1, NextHalfDay DEF HalfDayPasses, DpInv
    <3> QED
      BY <2>1, <3>1 DEF HalfDayPasses, DpInv
  <2>2. CASE CheckPartitions
    <3>1. dpDate.month \in EnsureDialogPartitionsAround(dpDate.month, dpDate.day)
      BY TodayEnsured DEF DpInv
    <3> QED
      BY <2>2, <3>1 DEF CheckPartitions, DpInv
  <2>3. CASE UNCHANGED dpVars
    BY <2>3 DEF dpVars, DpInv
  <2> QED
    BY <2>1, <2>2, <2>3 DEF DialogPartitionsNext
<1>3. DpInv => PartitionInTime
  BY DEF DpInv, PartitionInTime
<1> QED
  BY <1>1, <1>2, <1>3, PTL DEF DialogPartitionsSpec

-----------------------------------------------------------------------------
(* Accounts between the table and the pool. *)

RowStatus == {"active", "error", "deleted", "gone"}

RowRec == [status : RowStatus, kind : {"rt", "at"}, token : LcTokens, seen : Nat,
           rotated : BOOLEAN]

JobRec == [at : {"idle", "insert", "add", "remove", "confirm", "sweep", "expired", "upstream"},
           kind : {"rt", "at", "none"}, token : LcTokens \cup {"none"},
           rows : SUBSET Rows, left : SUBSET Rows, seen : Nat]

\* An account about to be inserted has its token, and looked at rows that exist.
Inserting(job) ==
    job.at = "insert" =>
        job.kind \in {"rt", "at"} /\ job.token \in LcTokens /\ job.seen <= Len(lcRow)

LcTypeOK ==
    /\ lcRow \in Seq(RowRec)
    /\ lcPool \subseteq Rows
    /\ lcJob \in [LcJobs -> JobRec]
    /\ \A j \in LcJobs : Inserting(lcJob[j])

\* What is about to leave the pool is not active in the table, or could not be written.
LeavesForAReason ==
    \A j \in LcJobs : lcJob[j].at = "remove" =>
        \A i \in lcJob[j].rows : lcRow[i].status # "active" \/ i \in lcUnsaved

\* A token about to be inserted was not in the rows that were looked at, or left them since.
LookedUp ==
    \A j \in LcJobs : lcJob[j].at = "insert" =>
        \A i \in Rows : i <= lcJob[j].seen /\ lcRow[i].kind = lcJob[j].kind
                           /\ lcRow[i].token = lcJob[j].token /\ lcRow[i].status = "active"
                        => lcRow[i].rotated

LcInv == LcTypeOK /\ PoolFollowsTable /\ LeavesForAReason /\ DuplicatesExplained /\ LookedUp

\* The steps leave the rows that exist as they are, or older: a status is not active again,
\* a token that was replaced stays replaced.
RowsAge ==
    /\ lcRow' \in Seq(RowRec) /\ Len(lcRow') = Len(lcRow)
    /\ \A i \in Rows :
          /\ lcRow'[i].kind = lcRow[i].kind /\ lcRow'[i].token = lcRow[i].token
          /\ lcRow'[i].seen = lcRow[i].seen
          /\ lcRow'[i].status = "active" => lcRow[i].status = "active"
          /\ lcRow[i].rotated => lcRow'[i].rotated

\* Types of what the table and the jobs hold.
LEMMA LcTypes ==
    ASSUME LcTypeOK
    PROVE  /\ lcRow \in Seq(RowRec) /\ Rows = 1..Len(lcRow) /\ Len(lcRow) \in Nat
           /\ \A i \in Rows : lcRow[i] \in RowRec /\ i \in Nat
           /\ \A j \in LcJobs : /\ lcJob[j] \in JobRec
                                /\ lcJob[j].rows \subseteq Rows /\ lcJob[j].left \subseteq Rows
<1>1. lcRow \in Seq(RowRec) /\ lcJob \in [LcJobs -> JobRec]
  BY DEF LcTypeOK
<1>2. Rows = 1..Len(lcRow) /\ Len(lcRow) \in Nat
  BY <1>1 DEF Rows
<1>3. \A i \in Rows : lcRow[i] \in RowRec /\ i \in Nat
  BY <1>1, <1>2
<1>4. \A j \in LcJobs : lcJob[j] \in JobRec
  BY <1>1
<1>5. \A j \in LcJobs : lcJob[j].rows \subseteq Rows /\ lcJob[j].left \subseteq Rows
  BY <1>4 DEF JobRec
<1> QED
  BY <1>1, <1>2, <1>3, <1>4, <1>5

\* An UPDATE of the status of some rows (SetError, SoftDeleteAccount).
LEMMA StatusWritten ==
    ASSUME LcTypeOK, NEW rows \in SUBSET Rows, NEW s \in RowStatus \ {"active"},
           SetErrorOf(rows, s)
    PROVE  /\ RowsAge /\ Rows' = Rows
           /\ \A i \in Rows : lcRow'[i].status = IF i \in rows THEN s ELSE lcRow[i].status
<1> USE LcTypes
<1>1. lcRow' = [i \in Rows |-> IF i \in rows THEN [lcRow[i] EXCEPT !.status = s] ELSE lcRow[i]]
  BY DEF SetErrorOf, written
<1>2. \A i \in Rows : [lcRow[i] EXCEPT !.status = s] \in RowRec
  BY DEF RowRec
<1>3. \A i \in Rows : lcRow'[i] \in RowRec
  BY <1>1, <1>2
<1>4. lcRow' \in [1..Len(lcRow) -> RowRec]
  BY <1>1, <1>3
<1>5. lcRow' \in Seq(RowRec) /\ Len(lcRow') = Len(lcRow)
  BY <1>4
<1>6. ASSUME NEW i \in Rows
      PROVE  /\ lcRow'[i].kind = lcRow[i].kind /\ lcRow'[i].token = lcRow[i].token
             /\ lcRow'[i].seen = lcRow[i].seen /\ lcRow'[i].rotated = lcRow[i].rotated
             /\ lcRow'[i].status = IF i \in rows THEN s ELSE lcRow[i].status
  <2>1. lcRow[i] \in RowRec
    OBVIOUS
  <2> QED
    BY <1>1, <2>1 DEF RowRec
<1>7. Rows' = Rows
  BY <1>5 DEF Rows
<1> QED
  BY <1>5, <1>6, <1>7 DEF RowsAge

\* A refresh replaces the token of some rows.
LEMMA TokenWritten ==
    ASSUME LcTypeOK, NEW rows \in SUBSET Rows,
           lcRow' = written(rows, [i \in Rows |-> [lcRow[i] EXCEPT !.rotated = TRUE]])
    PROVE  /\ RowsAge /\ Rows' = Rows
           /\ \A i \in Rows : lcRow'[i].status = lcRow[i].status
<1> USE LcTypes
<1>1. lcRow' = [i \in Rows |-> IF i \in rows THEN [lcRow[i] EXCEPT !.rotated = TRUE] ELSE lcRow[i]]
  BY DEF written
<1>2. \A i \in Rows : [lcRow[i] EXCEPT !.rotated = TRUE] \in RowRec
  BY DEF RowRec
<1>3. \A i \in Rows : lcRow'[i] \in RowRec
  BY <1>1, <1>2
<1>4. lcRow' \in [1..Len(lcRow) -> RowRec]
  BY <1>1, <1>3
<1>5. lcRow' \in Seq(RowRec) /\ Len(lcRow') = Len(lcRow)
  BY <1>4
<1>6. ASSUME NEW i \in Rows
      PROVE  /\ lcRow'[i].kind = lcRow[i].kind /\ lcRow'[i].token = lcRow[i].token
             /\ lcRow'[i].seen = lcRow[i].seen /\ lcRow'[i].status = lcRow[i].status
             /\ lcRow[i].rotated => lcRow'[i].rotated
  <2>1. lcRow[i] \in RowRec /\ lcRow[i].rotated \in BOOLEAN
    BY DEF RowRec
  <2>2. lcRow'[i] = IF i \in rows THEN [lcRow[i] EXCEPT !.rotated = TRUE] ELSE lcRow[i]
    BY <1>1
  <2>3. CASE i \in rows
    <3>1. lcRow'[i] = [lcRow[i] EXCEPT !.rotated = TRUE]
      BY <2>2, <2>3
    <3> QED
      BY <2>1, <3>1 DEF RowRec
  <2>4. CASE i \notin rows
    BY <2>2, <2>4
  <2> QED
    BY <2>3, <2>4
<1>7. Rows' = Rows
  BY <1>5 DEF Rows
<1> QED
  BY <1>5, <1>6, <1>7 DEF RowsAge

\* Rows that stay as they are count as aged.
LEMMA RowsUntouched ==
    ASSUME LcTypeOK, UNCHANGED lcRow
    PROVE  RowsAge /\ Rows' = Rows
BY DEF RowsAge, Rows, LcTypeOK

\* One job changes while rows age.  An insertion goes on as it was, or starts with a token
\* that was looked up.
LEMMA JobsTyped ==
    ASSUME LcInv, RowsAge, Rows' = Rows, NEW j \in LcJobs, NEW job \in JobRec,
           lcJob' = [lcJob EXCEPT ![j] = job], Inserting(job),
           job.at = "insert" =>
               /\ UNCHANGED lcRow
               /\ \A i \in Rows :
                     i <= job.seen /\ lcRow[i].kind = job.kind /\ lcRow[i].token = job.token
                        /\ lcRow[i].status = "active"
                     => lcRow[i].rotated,
           lcPool' \subseteq Rows
    PROVE  LcTypeOK' /\ DuplicatesExplained' /\ LookedUp'
<1> USE LcTypes DEF LcInv
<1>1. \A k \in LcJobs : lcJob'[k] = IF k = j THEN job ELSE lcJob[k]
  BY DEF LcTypeOK
<1>2. JobRec' = JobRec /\ lcJob' \in [LcJobs -> JobRec]
  BY DEF LcTypeOK, JobRec
<1>3. \A k \in LcJobs : Inserting(lcJob[k])'
  BY <1>1 DEF Inserting, RowsAge, LcTypeOK
<1>4. LcTypeOK'
  BY <1>2, <1>3 DEF LcTypeOK, RowsAge
<1>5. DuplicatesExplained'
  BY DEF DuplicatesExplained, RowsAge
<1>6. LookedUp'
  <2> SUFFICES ASSUME NEW k \in LcJobs, lcJob'[k].at = "insert", NEW i \in Rows,
                      i <= lcJob'[k].seen, lcRow'[i].kind = lcJob'[k].kind,
                      lcRow'[i].token = lcJob'[k].token, lcRow'[i].status = "active"
               PROVE  lcRow'[i].rotated
    BY DEF LookedUp
  <2>1. CASE k = j
    BY <1>1, <2>1
  <2>2. CASE k # j
    BY <1>1, <2>2 DEF LookedUp, RowsAge
  <2> QED
    BY <2>1, <2>2
<1> QED
  BY <1>4, <1>5, <1>6

\* A job moves on that neither adds nor removes an account in this step or the next.
LEMMA JobMoves ==
    ASSUME LcInv, NEW j \in LcJobs, NEW job \in JobRec,
           lcJob' = [lcJob EXCEPT ![j] = job], Inserting(job),
           job.at = "insert" =>
               \A i \in Rows :
                  i <= job.seen /\ lcRow[i].kind = job.kind /\ lcRow[i].token = job.token
                     /\ lcRow[i].status = "active"
                  => lcRow[i].rotated,
           lcJob[j].at \notin {"add", "remove"}, job.at \notin {"add", "remove"},
           UNCHANGED <<lcRow, lcPool, lcLate, lcUnsaved>>
    PROVE  LcInv'
<1> USE LcTypes DEF LcInv
<1>1. RowsAge /\ Rows' = Rows
  BY RowsUntouched
<1>2. LcTypeOK' /\ DuplicatesExplained' /\ LookedUp'
  BY <1>1, JobsTyped DEF LcTypeOK
<1>3. \A k \in LcJobs : lcJob'[k] = IF k = j THEN job ELSE lcJob[k]
  BY DEF LcTypeOK
<1>4. \A i \in Rows : (Handling("add", i) => Handling("add", i)')
                      /\ (Handling("remove", i) => Handling("remove", i)')
  BY <1>3 DEF Handling
<1>5. PoolFollowsTable'
  BY <1>1, <1>4 DEF PoolFollowsTable, Removed
<1>6. LeavesForAReason'
  BY <1>3 DEF LeavesForAReason
<1> QED
  BY <1>2, <1>5, <1>6

\* Rows are marked as deleted, and the same job is about to take their accounts out.
LEMMA RowsLeave ==
    ASSUME LcInv, NEW j \in LcJobs, NEW rows \in SUBSET Rows, NEW s \in {"deleted", "gone"},
           NEW job \in JobRec, job.at = "remove", job.rows = rows,
           lcJob' = [lcJob EXCEPT ![j] = job],
           lcJob[j].at \notin {"add", "remove"},
           SetErrorOf(rows, s), UNCHANGED <<lcPool, lcLate, lcUnsaved>>
    PROVE  LcInv'
<1> USE LcTypes DEF LcInv
<1>1. /\ RowsAge /\ Rows' = Rows
      /\ \A i \in Rows : lcRow'[i].status = IF i \in rows THEN s ELSE lcRow[i].status
  BY StatusWritten DEF RowStatus
<1>2. LcTypeOK' /\ DuplicatesExplained' /\ LookedUp'
  <2>1. Inserting(job) /\ lcPool' \subseteq Rows
    BY DEF Inserting, LcTypeOK
  <2> QED
    BY <1>1, <2>1, JobsTyped
<1>3. \A k \in LcJobs : lcJob'[k] = IF k = j THEN job ELSE lcJob[k]
  BY DEF LcTypeOK
<1>4. \A i \in Rows : /\ Handling("add", i) => Handling("add", i)'
                      /\ Handling("remove", i) => Handling("remove", i)'
                      /\ i \in rows => Handling("remove", i)'
  BY <1>3 DEF Handling
<1>5. PoolFollowsTable'
  BY <1>1, <1>4 DEF PoolFollowsTable, Removed
<1>6. LeavesForAReason'
  BY <1>1, <1>3 DEF LeavesForAReason
<1> QED
  BY <1>2, <1>5, <1>6

\* AddAccount, AddATAccount and the imports: what they looked up is what is not inserted again.
LEMMA AddingKeeps ==
    ASSUME LcInv, NEW j \in LcJobs, NEW t \in LcTokens,
           \/ AddAccount(j, t) \/ AddATAccount(j, t)
           \/ importAccountsTXT(j, t) \/ importAccountsJSON(j, t) \/ importAccountsATTXT(j, t)
           \/ MigrateAccounts(j, t)
    PROVE  LcInv'
<1> USE LcTypes DEF LcInv
<1>1. PICK kind \in {"rt", "at"}, seen \in {0, Len(lcRow)} :
         AddsOne(j, kind, t, seen) /\ (seen # 0 => t \notin stored(kind))
  BY DEF AddAccount, AddATAccount, importAccountsTXT, importAccountsJSON, importAccountsATTXT,
         MigrateAccounts, importAccountsCommon, GetAllRefreshTokens, GetAllAccessTokens
<1>2. PICK job : /\ job = [at |-> "insert", kind |-> kind, token |-> t, rows |-> {}, left |-> {},
                           seen |-> seen]
                 /\ lcJob' = [lcJob EXCEPT ![j] = job]
  BY <1>1 DEF AddsOne
<1>3. job \in JobRec /\ Inserting(job) /\ job.at = "insert"
  BY <1>2 DEF JobRec, Inserting
<1>4. \A i \in Rows :
         i <= job.seen /\ lcRow[i].kind = job.kind /\ lcRow[i].token = job.token
            /\ lcRow[i].status = "active"
         => lcRow[i].rotated
  BY <1>1, <1>2 DEF stored, Removed
<1>5. lcJob[j].at = "idle" /\ UNCHANGED <<lcRow, lcPool, lcLate, lcUnsaved>>
  BY <1>1 DEF AddsOne
<1> QED
  BY <1>2, <1>3, <1>4, <1>5, JobMoves

\* A job that has no rows or some, and is not adding.
LEMMA PlainJob ==
    ASSUME LcInv, NEW rows \in SUBSET Rows, NEW left \in SUBSET Rows,
           NEW at \in {"idle", "add", "remove", "confirm", "sweep", "expired", "upstream"},
           NEW job, job = [LcIdle EXCEPT !.at = at, !.rows = rows, !.left = left]
    PROVE  job \in JobRec /\ Inserting(job) /\ job.at = at /\ job.rows = rows /\ job.left = left
<1>1. job = [at |-> at, kind |-> "none", token |-> "none", rows |-> rows, left |-> left, seen |-> 0]
  BY DEF LcIdle
<1> QED
  BY <1>1 DEF JobRec, Inserting

\* What JobAt and JobEnds set a job to.
LEMMA JobsSet ==
    ASSUME LcInv, NEW j \in LcJobs, NEW rows \in SUBSET Rows,
           NEW at \in {"add", "remove", "confirm", "sweep", "expired", "upstream"}
    PROVE  /\ JobAt(j, at, rows) =>
                 \E job \in JobRec : /\ lcJob' = [lcJob EXCEPT ![j] = job] /\ Inserting(job)
                                     /\ job.at = at /\ job.rows = rows
           /\ JobEnds(j) =>
                 \E job \in JobRec : /\ lcJob' = [lcJob EXCEPT ![j] = job] /\ Inserting(job)
                                     /\ job.at = "idle"
<1>1. PICK job : job = [LcIdle EXCEPT !.at = at, !.rows = rows]
  OBVIOUS
<1>2. job = [at |-> at, kind |-> "none", token |-> "none", rows |-> rows, left |-> {}, seen |-> 0]
  BY <1>1 DEF LcIdle
<1>3. job \in JobRec /\ Inserting(job) /\ job.at = at /\ job.rows = rows
  BY <1>2 DEF JobRec, Inserting
<1>4. LcIdle \in JobRec /\ Inserting(LcIdle) /\ LcIdle.at = "idle"
  BY DEF LcIdle, JobRec, Inserting
<1> QED
  BY <1>1, <1>3, <1>4 DEF JobAt, JobEnds

\* InsertAccount: the new row is the only one the look-up could not see.
LEMMA InsertKeeps ==
    ASSUME LcInv, NEW j \in LcJobs, Insert(j)
    PROVE  LcInv'
<1> USE LcTypes DEF LcInv
<1>0. PICK n \in Nat : n = Len(lcRow) + 1
  OBVIOUS
<1> DEFINE row == [status |-> "active", kind |-> lcJob[j].kind, token |-> lcJob[j].token,
                   seen |-> lcJob[j].seen, rotated |-> FALSE]
<1>1. lcJob[j].at = "insert" /\ lcRow' = Append(lcRow, row)
      /\ UNCHANGED <<lcPool, lcLate, lcUnsaved>>
  BY DEF Insert
<1>2. /\ lcJob[j].kind \in {"rt", "at"} /\ lcJob[j].token \in LcTokens /\ lcJob[j].seen \in Nat
      /\ lcJob[j].seen <= Len(lcRow)
  BY <1>1 DEF LcTypeOK, Inserting, JobRec
<1>3. row \in RowRec
  BY <1>2 DEF RowRec, RowStatus
<1>4. /\ lcRow' \in Seq(RowRec) /\ Len(lcRow') = n /\ lcRow'[n] = row
      /\ \A i \in Rows : lcRow'[i] = lcRow[i]
  BY <1>0, <1>1, <1>3
<1>5. Rows' = 1..n /\ Rows \subseteq Rows' /\ Rows' = Rows \cup {n} /\ n \notin Rows
  BY <1>0, <1>4 DEF Rows
<1>6. PICK job : /\ job = [LcIdle EXCEPT !.at = "add", !.rows = {n}]
                 /\ lcJob' = [lcJob EXCEPT ![j] = job]
  BY <1>0 DEF Insert, JobAt
<1>7. job = [at |-> "add", kind |-> "none", token |-> "none", rows |-> {n}, left |-> {}, seen |-> 0]
  BY <1>6 DEF LcIdle
<1>8. /\ \A k \in LcJobs : lcJob'[k] = IF k = j THEN job ELSE lcJob[k]
      /\ lcJob' \in [LcJobs -> JobRec']
  <2>1. JobRec \subseteq JobRec'
    BY <1>5 DEF JobRec
  <2>2. job \in JobRec'
    BY <1>5, <1>7 DEF JobRec
  <2> QED
    BY <1>6, <2>1, <2>2 DEF LcTypeOK
<1>9. LcTypeOK'
  <2>1. ASSUME NEW k \in LcJobs PROVE Inserting(lcJob[k])'
    <3>1. CASE k = j
      BY <1>7, <1>8, <3>1 DEF Inserting
    <3>2. CASE k # j
      <4>1. Inserting(lcJob[k]) /\ lcJob[k].seen \in Nat /\ lcJob'[k] = lcJob[k]
        BY <1>8, <3>2 DEF LcTypeOK, JobRec
      <4> QED
        BY <1>0, <1>4, <4>1 DEF Inserting
    <3> QED
      BY <3>1, <3>2
  <2> QED
    BY <1>1, <1>4, <1>5, <1>8, <2>1 DEF LcTypeOK
<1>10. PoolFollowsTable'
  <2>1. \A i \in Rows : /\ Handling("add", i) => Handling("add", i)'
                        /\ Handling("remove", i) => Handling("remove", i)'
    BY <1>1, <1>8 DEF Handling
  <2>2. Handling("add", n)' /\ n \notin lcPool'
    <3>1. n \notin lcPool'
      BY <1>1, <1>5 DEF LcTypeOK
    <3>2. lcJob'[j].at = "add" /\ n \in lcJob'[j].rows
      BY <1>7, <1>8
    <3> QED
      BY <3>1, <3>2 DEF Handling
  <2>3. lcRow'[n].status = "active"
    BY <1>4
  <2> QED
    <3>1. \A i \in Rows : Removed(i)' <=> Removed(i)
      BY <1>4 DEF Removed
    <3>2. ~Removed(n)'
      BY <2>3 DEF Removed
    <3> HIDE DEF row
    <3> QED
      BY <1>1, <1>4, <1>5, <2>1, <2>2, <3>1, <3>2 DEF PoolFollowsTable
<1>11. LeavesForAReason'
  BY <1>1, <1>4, <1>5, <1>7, <1>8 DEF LeavesForAReason
<1>12. DuplicatesExplained'
  <2> SUFFICES ASSUME NEW i \in Rows', NEW k \in Rows', i < k, lcRow'[i].kind = lcRow'[k].kind,
                      lcRow'[i].token = lcRow'[k].token, lcRow'[i].status = "active"
               PROVE  i > lcRow'[k].seen \/ lcRow'[i].rotated
    BY DEF DuplicatesExplained
  <2>1. i \in Rows
    BY <1>0, <1>5
  <2>2. CASE k = n
    BY <1>0, <1>1, <1>2, <1>4, <2>1, <2>2 DEF LookedUp
  <2>3. CASE k # n
    BY <1>4, <1>5, <2>1, <2>3 DEF DuplicatesExplained
  <2> QED
    BY <2>2, <2>3
<1>13. LookedUp'
  <2> SUFFICES ASSUME NEW k \in LcJobs, lcJob'[k].at = "insert", NEW i \in Rows',
                      i <= lcJob'[k].seen, lcRow'[i].kind = lcJob'[k].kind,
                      lcRow'[i].token = lcJob'[k].token, lcRow'[i].status = "active"
               PROVE  lcRow'[i].rotated
    BY DEF LookedUp
  <2>1. lcJob'[k] = lcJob[k] /\ lcJob[k].seen <= Len(lcRow) /\ lcJob[k].seen \in Nat
    BY <1>7, <1>8 DEF LcTypeOK, Inserting, JobRec
  <2>2. i \in Rows
    BY <1>0, <1>5, <2>1
  <2> QED
    BY <1>4, <2>1, <2>2 DEF LookedUp
<1> QED
  BY <1>9, <1>10, <1>11, <1>12, <1>13

\* store.AddAccount: what it adds for a row that was deleted meanwhile counts as late.
LEMMA StoreAddAccountKeeps ==
    ASSUME LcInv, NEW j \in LcJobs, StoreAddAccount(j)
    PROVE  LcInv'
<1> USE LcTypes DEF LcInv
<1>1. /\ lcJob[j].at = "add" /\ lcPool' = lcPool \cup lcJob[j].rows
      /\ lcLate' = lcLate \cup {i \in lcJob[j].rows : lcRow[i].status # "active"}
      /\ UNCHANGED <<lcRow, lcUnsaved>> /\ JobEnds(j)
  BY DEF StoreAddAccount
<1>2. PICK job \in JobRec : /\ lcJob' = [lcJob EXCEPT ![j] = job] /\ Inserting(job)
                            /\ job.at = "idle"
  BY <1>1, JobsSet
<1>3. RowsAge /\ Rows' = Rows
  BY <1>1, RowsUntouched
<1>4. LcTypeOK' /\ DuplicatesExplained' /\ LookedUp'
  <2>1. lcPool' \subseteq Rows
    BY <1>1 DEF LcTypeOK
  <2> QED
    BY <1>2, <1>3, <2>1, JobsTyped
<1>5. \A k \in LcJobs : lcJob'[k] = IF k = j THEN job ELSE lcJob[k]
  BY <1>2 DEF LcTypeOK
<1>6. \A i \in Rows :
         /\ Handling("remove", i) => Handling("remove", i)'
         /\ i \notin lcJob[j].rows => (Handling("add", i) => Handling("add", i)')
  BY <1>1, <1>5 DEF Handling
<1>7. PoolFollowsTable'
  <2> SUFFICES ASSUME NEW i \in Rows
               PROVE  /\ i \in lcPool' /\ Removed(i) => Handling("remove", i)' \/ i \in lcLate'
                      /\ i \notin lcPool' /\ lcRow[i].status = "active" =>
                             Handling("add", i)' \/ i \in lcUnsaved
    BY <1>1, <1>3 DEF PoolFollowsTable, Removed
  <2>1. CASE i \in lcJob[j].rows
    BY <1>1, <2>1 DEF Removed
  <2>2. CASE i \notin lcJob[j].rows
    BY <1>1, <1>6, <2>2 DEF PoolFollowsTable
  <2> QED
    BY <2>1, <2>2
<1>8. LeavesForAReason'
  BY <1>1, <1>2, <1>5 DEF LeavesForAReason
<1> QED
  BY <1>4, <1>7, <1>8

\* RemoveAccount: what leaves the pool is not active in the table any more.
LEMMA RemoveAccountsKeeps ==
    ASSUME LcInv, NEW j \in LcJobs, RemoveAccounts(j)
    PROVE  LcInv'
<1> USE LcTypes DEF LcInv
<1>1. /\ lcJob[j].at = "remove" /\ lcPool' = lcPool \ lcJob[j].rows
      /\ lcLate' = lcLate \ lcJob[j].rows
      /\ UNCHANGED <<lcRow, lcUnsaved>>
  BY DEF RemoveAccounts
<1>2. PICK job \in JobRec : /\ lcJob' = [lcJob EXCEPT ![j] = job] /\ Inserting(job)
                            /\ job.at \in {"idle", "sweep"}
  <2>1. LcIdle \in JobRec /\ Inserting(LcIdle) /\ LcIdle.at = "idle"
    BY DEF LcIdle, JobRec, Inserting
  <2>2. PICK job : job = [lcJob[j] EXCEPT !.at = "sweep", !.rows = {}]
    OBVIOUS
  <2>3. job \in JobRec /\ job.at = "sweep" /\ Inserting(job)
    BY <2>2 DEF JobRec, Inserting
  <2>4. lcJob' = [lcJob EXCEPT ![j] = IF lcJob[j].left = {} THEN LcIdle ELSE job]
    BY <2>2 DEF RemoveAccounts, LcTypeOK
  <2> QED
    BY <2>1, <2>3, <2>4
<1>3. RowsAge /\ Rows' = Rows
  BY <1>1, RowsUntouched
<1>4. LcTypeOK' /\ DuplicatesExplained' /\ LookedUp'
  <2>1. lcPool' \subseteq Rows
    BY <1>1 DEF LcTypeOK
  <2> QED
    BY <1>2, <1>3, <2>1, JobsTyped
<1>5. \A k \in LcJobs : lcJob'[k] = IF k = j THEN job ELSE lcJob[k]
  BY <1>2 DEF LcTypeOK
<1>6. \A i \in Rows :
         /\ Handling("add", i) => Handling("add", i)'
         /\ i \notin lcJob[j].rows => (Handling("remove", i) => Handling("remove", i)')
  BY <1>1, <1>5 DEF Handling
<1>7. PoolFollowsTable'
  <2> SUFFICES ASSUME NEW i \in Rows
               PROVE  /\ i \in lcPool' /\ Removed(i) => Handling("remove", i)' \/ i \in lcLate'
                      /\ i \notin lcPool' /\ lcRow[i].status = "active" =>
                             Handling("add", i)' \/ i \in lcUnsaved
    BY <1>1, <1>3 DEF PoolFollowsTable, Removed
  <2>1. CASE i \in lcJob[j].rows
    BY <1>1, <2>1 DEF LeavesForAReason
  <2>2. CASE i \notin lcJob[j].rows
    BY <1>1, <1>6, <2>2 DEF PoolFollowsTable
  <2> QED
    BY <2>1, <2>2
<1>8. LeavesForAReason'
  BY <1>1, <1>2, <1>5 DEF LeavesForAReason
<1> QED
  BY <1>4, <1>7, <1>8

\* Deletions: by the administrator, after a preview, by a sweep, after a 401.
LEMMA DeletingKeeps ==
    ASSUME LcInv, NEW j \in LcJobs,
           \/ \E i \in Rows : DeleteAccount(j, i) \/ SweepDeletes(j, i)
           \/ DedupeAccounts(j) \/ BatchSoftDelete(j)
    PROVE  LcInv'
<1> USE LcTypes DEF LcInv
<1>1. CASE \E i \in Rows : DeleteAccount(j, i)
  <2>1. PICK i \in Rows : DeleteAccount(j, i)
    BY <1>1
  <2>2. PICK job \in JobRec : /\ lcJob' = [lcJob EXCEPT ![j] = job] /\ Inserting(job)
                              /\ job.at = "remove" /\ job.rows = {i}
    BY <2>1, JobsSet DEF DeleteAccount
  <2>3. SetErrorOf({i}, "deleted") /\ lcJob[j].at = "idle" /\ UNCHANGED <<lcPool, lcLate, lcUnsaved>>
    BY <2>1 DEF DeleteAccount, SoftDelete, SetErrorOf
  <2> QED
    BY <2>2, <2>3, RowsLeave
<1>2. CASE \E i \in Rows : SweepDeletes(j, i)
  <2>1. PICK i \in Rows : SweepDeletes(j, i)
    BY <1>2
  <2>2. PICK job : job = [lcJob[j] EXCEPT !.at = "remove", !.rows = {i}, !.left = lcJob[j].left \ {i}]
    OBVIOUS
  <2>3. job \in JobRec /\ job.at = "remove" /\ job.rows = {i}
    BY <2>2 DEF JobRec
  <2>4. lcJob' = [lcJob EXCEPT ![j] = job]
    BY <2>1, <2>2 DEF SweepDeletes, sweepsOn, LcTypeOK
  <2>5. SetErrorOf({i}, "deleted") /\ lcJob[j].at = "sweep" /\ UNCHANGED <<lcPool, lcLate, lcUnsaved>>
    BY <2>1 DEF SweepDeletes, SoftDelete, SetErrorOf
  <2> QED
    BY <2>3, <2>4, <2>5, RowsLeave
<1>3. CASE DedupeAccounts(j) \/ BatchSoftDelete(j)
  <2>1. PICK rows \in SUBSET Rows : rows = lcJob[j].rows
    OBVIOUS
  <2>2. PICK job \in JobRec : /\ lcJob' = [lcJob EXCEPT ![j] = job] /\ Inserting(job)
                              /\ job.at = "remove" /\ job.rows = rows
    BY <1>3, <2>1, JobsSet DEF DedupeAccounts, BatchSoftDelete
  <2>3. /\ SetErrorOf(rows, "deleted") /\ lcJob[j].at \in {"confirm", "expired"}
        /\ UNCHANGED <<lcPool, lcLate, lcUnsaved>>
    BY <1>3, <2>1 DEF DedupeAccounts, BatchSoftDelete, SoftDelete, SetErrorOf
  <2> QED
    BY <2>2, <2>3, RowsLeave
<1> QED
  BY <1>1, <1>2, <1>3

\* A 401 with automatic cleaning, whether or not its row could be written.
LEMMA CleanedAt401Keeps ==
    ASSUME LcInv, NEW j \in LcJobs, CleanedAt401(j)
    PROVE  LcInv'
<1> USE LcTypes DEF LcInv
<1>1. PICK rows \in SUBSET Rows : rows = lcJob[j].rows
  OBVIOUS
<1>2. PICK job \in JobRec : /\ lcJob' = [lcJob EXCEPT ![j] = job] /\ Inserting(job)
                            /\ job.at = "remove" /\ job.rows = rows
  BY <1>1, JobsSet DEF CleanedAt401
<1>3. lcJob[j].at = "upstream" /\ UNCHANGED <<lcPool, lcLate>>
  BY DEF CleanedAt401
<1>4. CASE SetErrorOf(rows, "gone") /\ UNCHANGED lcUnsaved
  BY <1>2, <1>3, <1>4, RowsLeave
<1>5. CASE lcUnsaved' = lcUnsaved \cup rows /\ UNCHANGED lcRow
  <2>1. RowsAge /\ Rows' = Rows
    BY <1>5, RowsUntouched
  <2>2. LcTypeOK' /\ DuplicatesExplained' /\ LookedUp'
    <3>1. lcPool' \subseteq Rows
      BY <1>3 DEF LcTypeOK
    <3> QED
      BY <1>2, <2>1, <3>1, JobsTyped
  <2>3. \A k \in LcJobs : lcJob'[k] = IF k = j THEN job ELSE lcJob[k]
    BY <1>2 DEF LcTypeOK
  <2>4. \A i \in Rows : (Handling("add", i) => Handling("add", i)')
                        /\ (Handling("remove", i) => Handling("remove", i)')
    BY <1>3, <2>3 DEF Handling
  <2>5. PoolFollowsTable'
    BY <1>3, <1>5, <2>1, <2>4 DEF PoolFollowsTable, Removed
  <2>6. LeavesForAReason'
    BY <1>2, <1>5, <2>3 DEF LeavesForAReason
  <2> QED
    BY <2>2, <2>5, <2>6
<1> QED
  BY <1>1, <1>4, <1>5 DEF CleanedAt401

\* A refresh that ends: a new token, or an error whatever the status was.
LEMMA RefreshKeeps ==
    ASSUME LcInv, NEW j \in LcJobs, RefreshSucceeds(j) \/ RefreshRefused(j)
    PROVE  LcInv'
<1> USE LcTypes DEF LcInv
<1>1. PICK rows \in SUBSET Rows : rows = lcJob[j].rows
  OBVIOUS
<1>2. lcJob[j].at = "upstream" /\ UNCHANGED <<lcPool, lcLate, lcUnsaved>> /\ JobEnds(j)
  BY DEF RefreshSucceeds, RefreshRefused
<1>3. PICK job \in JobRec : /\ lcJob' = [lcJob EXCEPT ![j] = job] /\ Inserting(job)
                            /\ job.at = "idle"
  BY <1>1, <1>2, JobsSet
<1>4. /\ RowsAge /\ Rows' = Rows
      /\ \A i \in Rows : lcRow'[i].status \in {lcRow[i].status, "error"}
  <2>1. CASE RefreshSucceeds(j)
    BY <1>1, <2>1, TokenWritten DEF RefreshSucceeds
  <2>2. CASE RefreshRefused(j)
    <3>1. SetErrorOf(rows, "error")
      BY <1>1, <2>2 DEF RefreshRefused
    <3>2. "error" \in RowStatus \ {"active"}
      BY DEF RowStatus
    <3>3. /\ RowsAge /\ Rows' = Rows
          /\ \A i \in Rows : lcRow'[i].status = IF i \in rows THEN "error" ELSE lcRow[i].status
      BY <3>1, <3>2, StatusWritten
    <3> QED
      BY <3>3
  <2> QED
    BY <2>1, <2>2
<1>5. LcTypeOK' /\ DuplicatesExplained' /\ LookedUp'
  <2>1. lcPool' \subseteq Rows
    BY <1>2 DEF LcTypeOK
  <2> QED
    BY <1>3, <1>4, <2>1, JobsTyped
<1>6. \A k \in LcJobs : lcJob'[k] = IF k = j THEN job ELSE lcJob[k]
  BY <1>3 DEF LcTypeOK
<1>7. \A i \in Rows : (Handling("add", i) => Handling("add", i)')
                      /\ (Handling("remove", i) => Handling("remove", i)')
  BY <1>2, <1>6 DEF Handling
<1>8. PoolFollowsTable'
  <2>1. \A i \in Rows : /\ Removed(i)' => Removed(i)
                        /\ lcRow'[i].status = "active" => lcRow[i].status = "active"
    BY <1>4 DEF Removed
  <2> QED
    BY <1>2, <1>4, <1>7, <2>1 DEF PoolFollowsTable
<1>9. LeavesForAReason'
  BY <1>2, <1>3, <1>4, <1>6 DEF LeavesForAReason, RowsAge
<1> QED
  BY <1>5, <1>8, <1>9

\* What is left: jobs that begin, end or go on without a change of table or pool.
LEMMA OnlyJobsKeep ==
    ASSUME LcInv, NEW j \in LcJobs,
           \/ InsertFailed(j) \/ \E t \in LcTokens : ListDuplicateAccounts(j, t)
           \/ \E i \in Rows : \/ CleanByRuntimeStatus(j, i) \/ CleanFullUsageAccounts(j, i)
                              \/ SweepFails(j, i) \/ TakesAccount(j, i)
           \/ CleanExpiredAccounts(j) \/ cleanExpiredFallback(j) \/ UpstreamEnds(j)
    PROVE  LcInv'
<1> USE LcTypes DEF LcInv
<1> SUFFICES /\ lcJob[j].at \notin {"add", "remove"}
             /\ UNCHANGED <<lcRow, lcPool, lcLate, lcUnsaved>>
             /\ \E job \in JobRec : /\ lcJob' = [lcJob EXCEPT ![j] = job] /\ Inserting(job)
                                    /\ job.at \notin {"add", "remove", "insert"}
  BY JobMoves
<1>1. CASE InsertFailed(j) \/ UpstreamEnds(j)
  BY <1>1, JobsSet DEF InsertFailed, UpstreamEnds
<1>2. CASE \E t \in LcTokens : ListDuplicateAccounts(j, t)
  <2>1. PICK t \in LcTokens : ListDuplicateAccounts(j, t)
    BY <1>2
  <2>2. PICK losers \in computeDuplicateGroups(t) : JobAt(j, "confirm", losers)
    BY <2>1 DEF ListDuplicateAccounts
  <2>3. losers \in SUBSET Rows
    BY <2>2 DEF computeDuplicateGroups
  <2> QED
    BY <2>1, <2>2, <2>3, JobsSet DEF ListDuplicateAccounts
<1>3. CASE \E i \in Rows : CleanByRuntimeStatus(j, i) \/ CleanFullUsageAccounts(j, i)
  <2>1. PICK i \in Rows : Sweeps(j, {i})
    BY <1>3 DEF CleanByRuntimeStatus, CleanFullUsageAccounts
  <2>2. PICK job : job = [LcIdle EXCEPT !.at = "sweep", !.left = {i}]
    OBVIOUS
  <2>3. job \in JobRec /\ Inserting(job) /\ job.at = "sweep"
    BY <2>2 DEF LcIdle, JobRec, Inserting
  <2> QED
    BY <2>1, <2>2, <2>3 DEF Sweeps
<1>4. CASE \E i \in Rows : SweepFails(j, i)
  <2>1. PICK i \in Rows : SweepFails(j, i)
    BY <1>4
  <2>2. PICK job : job = [lcJob[j] EXCEPT !.at = "sweep", !.rows = {}, !.left = lcJob[j].left \ {i}]
    OBVIOUS
  <2>3. job \in JobRec /\ job.at = "sweep" /\ Inserting(job)
    BY <2>2 DEF JobRec, Inserting
  <2>4. LcIdle \in JobRec /\ Inserting(LcIdle) /\ LcIdle.at = "idle"
    BY DEF LcIdle, JobRec, Inserting
  <2>5. lcJob' = [lcJob EXCEPT ![j] = IF lcJob[j].left = {i} THEN LcIdle ELSE job]
    BY <2>1, <2>2 DEF SweepFails, sweepsOn, LcTypeOK
  <2> QED
    BY <2>1, <2>3, <2>4, <2>5 DEF SweepFails
<1>5. CASE \E i \in Rows : TakesAccount(j, i)
  BY <1>5, JobsSet DEF TakesAccount
<1>6. CASE CleanExpiredAccounts(j)
  <2>1. PICK rows \in SUBSET {i \in lcPool : ~InUse(i)} : JobAt(j, "expired", rows)
    BY <1>6 DEF CleanExpiredAccounts
  <2>2. rows \in SUBSET Rows
    BY DEF LcTypeOK
  <2> QED
    BY <1>6, <2>1, <2>2, JobsSet DEF CleanExpiredAccounts
<1>7. CASE cleanExpiredFallback(j)
  <2>1. PICK job : job = [LcIdle EXCEPT !.at = "sweep", !.left = lcJob[j].rows]
    OBVIOUS
  <2>2. job \in JobRec /\ Inserting(job) /\ job.at = "sweep"
    BY <2>1 DEF LcIdle, JobRec, Inserting
  <2> QED
    BY <1>7, <2>1, <2>2 DEF cleanExpiredFallback
<1> QED
  BY <1>1, <1>2, <1>3, <1>4, <1>5, <1>6, <1>7

\* A restart puts the pool where the table is.
LEMMA LoadFromDBKeeps ==
    ASSUME LcInv, LoadFromDB
    PROVE  LcInv'
<1> USE LcTypes DEF LcInv
<1>1. /\ lcPool' = {i \in Rows : lcRow[i].status = "active"} /\ UNCHANGED lcRow
      /\ lcJob' = [j \in LcJobs |-> LcIdle]
  BY DEF LoadFromDB
<1>2. LcIdle \in JobRec /\ LcIdle.at = "idle"
  BY DEF LcIdle, JobRec
<1>3. Rows' = Rows /\ JobRec' = JobRec
  BY <1>1 DEF Rows, JobRec
<1>4. LcTypeOK'
  BY <1>1, <1>2, <1>3 DEF LcTypeOK, Inserting
<1>5. PoolFollowsTable' /\ LeavesForAReason' /\ DuplicatesExplained' /\ LookedUp'
  BY <1>1, <1>2, <1>3 DEF PoolFollowsTable, LeavesForAReason, DuplicatesExplained, LookedUp, Removed
<1> QED
  BY <1>4, <1>5

\* Nothing is stored and nothing runs at the beginning.
LEMMA LcInvInitially == LifecycleInit => LcInv
<1> SUFFICES ASSUME LifecycleInit PROVE LcInv
  OBVIOUS
<1>1. lcRow = <<>> /\ Rows = {} /\ lcPool = {} /\ lcJob = [j \in LcJobs |-> LcIdle]
  BY DEF LifecycleInit, Rows
<1>2. LcIdle \in JobRec /\ LcIdle.at = "idle"
  BY DEF LcIdle, JobRec
<1>3. LcTypeOK
  BY <1>1, <1>2 DEF LcTypeOK, Inserting
<1> QED
  BY <1>1, <1>2, <1>3
     DEF LcInv, PoolFollowsTable, LeavesForAReason, DuplicatesExplained, LookedUp

\* Every step of every goroutine, and a restart between any two.
LEMMA LcInvKept == LcInv /\ [LifecycleNext]_lcVars => LcInv'
<1> SUFFICES ASSUME LcInv, [LifecycleNext]_lcVars PROVE LcInv'
  OBVIOUS
<1>1. CASE UNCHANGED lcVars
  BY <1>1 DEF lcVars, LcInv, LcTypeOK, PoolFollowsTable, LeavesForAReason, DuplicatesExplained,
              LookedUp, Rows, JobRec, Inserting, Removed, Handling
<1>2. CASE LoadFromDB
  BY <1>2, LoadFromDBKeeps
<1>3. ASSUME NEW j \in LcJobs, Adding(j) PROVE LcInv'
  BY <1>3, AddingKeeps, InsertKeeps, StoreAddAccountKeeps, OnlyJobsKeep DEF Adding
<1>4. ASSUME NEW j \in LcJobs, Removing(j) PROVE LcInv'
  BY <1>4, DeletingKeeps, RemoveAccountsKeeps, OnlyJobsKeep DEF Removing
<1>5. ASSUME NEW j \in LcJobs, Using(j) PROVE LcInv'
  BY <1>5, RefreshKeeps, CleanedAt401Keeps, OnlyJobsKeep DEF Using
<1> QED
  BY <1>1, <1>2, <1>3, <1>4, <1>5 DEF LifecycleNext

\* Imports, deletions, sweeps, refreshes and restarts in any order keep the pool and the
\* accounts table together, and an import never inserts a token that it could have seen
\* (importAccountsCommon, RemoveAccount, AddAccount, SetError).
THEOREM LifecycleSoundHolds == LifecycleSpec => []LifecycleSound
<1>1. LcInv => LifecycleSound
  BY DEF LcInv, LifecycleSound
<1> QED
  BY <1>1, LcInvInitially, LcInvKept, PTL DEF LifecycleSpec

-----------------------------------------------------------------------------
(* The system settings. *)

StRow == [limit : {1, 2}, retries : {0, 1, 2}, scheduler : BOOLEAN, migrate : BOOLEAN,
          secret : {0, 1, 2}, resin : {0, 1}, rt : {0, 1}]

StMem == [limit : {1, 2}, retries : {0, 1, 2}, scheduler : BOOLEAN, migrate : BOOLEAN,
          resin : {0, 1}, rt : {0, 1}, decorated : BOOLEAN]

\* The locals of a request: before, while it applies its fields, with its Resin address, with
\* the row it will write, after.
FieldsRec == [at : {"fields", "migrate", "overrides", "resin"}, u : Updates,
              secret : {0, 1, 2}, has : BOOLEAN]
RtRec     == [at : {"rt"}, u : Updates, secret : {0, 1, 2}, has : BOOLEAN, resin : {0, 1}]
WriteRec  == [at : {"write"}, u : Updates, row : StRow]

StTypeOK ==
    /\ stRow \in StRow /\ stMem \in StMem
    /\ stEnv \in BOOLEAN /\ stExcused \in BOOLEAN
    /\ stReq \in [StRequests -> [at : {"new", "done"}] \cup FieldsRec \cup RtRec \cup WriteRec]

Applying(r) == stReq[r].at \in {"fields", "migrate", "overrides", "resin", "rt"}

\* What a request believes of the secret is right, and it saves no migration without one.
SecretSettled(r) ==
    /\ Applying(r) => (stReq[r].has <=> stReq[r].secret # 0 \/ stEnv)
    /\ stReq[r].at = "write" => (stReq[r].row.migrate => stReq[r].row.secret # 0 \/ stEnv)

\* The retries of a running program: those it loaded, or 0 since a request asked for that.
LoadedRetries == stMem.retries = 0 \/ stMem.retries = Loaded(stRow).retries

\* How far the memory and the row a request is about to write have come apart from the
\* stored row, field by field, as long as it is the only one and nothing failed.
Halfway(r) ==
    /\ stReq[r].at = "fields" => stMem.limit = stRow.limit /\ LoadedRetries
    /\ stReq[r].at \in {"fields", "migrate"} => stMem.migrate = stRow.migrate
    /\ stReq[r].at \in {"overrides", "resin", "rt"} => (stMem.migrate => stReq[r].has)
    /\ stReq[r].at \in {"fields", "migrate", "overrides", "resin"} => stMem.resin = stRow.resin
    /\ stReq[r].at = "rt" => stMem.resin = stReq[r].resin
    /\ Applying(r) =>
         /\ stMem.rt = stRow.rt
         /\ stReq[r].u.secret = Keep => stReq[r].secret = stRow.secret
    /\ stReq[r].at = "rt" /\ stReq[r].u.resin = Keep => stReq[r].resin = stRow.resin
    /\ stReq[r].at = "write" =>
         /\ stReq[r].row.limit = stMem.limit /\ stReq[r].row.retries = stMem.retries
         /\ stReq[r].row.migrate = stMem.migrate
         /\ stReq[r].row.resin = stMem.resin /\ stReq[r].row.rt = stMem.rt
         /\ stReq[r].u.secret = Keep => stReq[r].row.secret = stRow.secret
         /\ stReq[r].u.resin = Keep => stReq[r].row.resin = stRow.resin
         /\ stReq[r].u.rt = Keep => stReq[r].row.rt = stRow.rt

\* Between requests memory and row agree.
Settled ==
    /\ stMem.limit = stRow.limit /\ stMem.migrate = stRow.migrate
    /\ stMem.resin = stRow.resin /\ stMem.rt = stRow.rt
    /\ LoadedRetries

StInv ==
    /\ StTypeOK /\ MigrationNeedsSecret
    /\ \A r \in StRequests : SecretSettled(r)
    /\ ~stExcused =>
         /\ \A r, q \in StRequests : Busy(r) /\ Busy(q) => r = q
         /\ \A r \in StRequests : Busy(r) => Halfway(r)
         /\ (\A r \in StRequests : ~Busy(r)) => Settled

\* What the locals of a request are, by where it is.
LEMMA StTypes ==
    ASSUME StTypeOK, NEW r \in StRequests
    PROVE  /\ stReq[r].at \in {"fields", "migrate", "overrides", "resin"} => stReq[r] \in FieldsRec
           /\ stReq[r].at = "rt" => stReq[r] \in RtRec
           /\ stReq[r].at = "write" => stReq[r] \in WriteRec
           /\ stReq[r].at \in {"new", "done", "fields", "migrate", "overrides", "resin", "rt", "write"}
<1>1. stReq[r] \in [at : {"new", "done"}] \cup FieldsRec \cup RtRec \cup WriteRec
  BY DEF StTypeOK
<1>2. CASE stReq[r] \in [at : {"new", "done"}]
  BY <1>2
<1>3. CASE stReq[r] \in FieldsRec
  BY <1>3 DEF FieldsRec
<1>4. CASE stReq[r] \in RtRec
  BY <1>4 DEF RtRec
<1>5. CASE stReq[r] \in WriteRec
  BY <1>5 DEF WriteRec
<1> QED
  BY <1>1, <1>2, <1>3, <1>4, <1>5

\* What may be asked for.
LEMMA UpdateTypes ==
    ASSUME NEW u \in Updates
    PROVE  /\ u.limit # Keep => u.limit \in {1, 2}
           /\ u.retries # Keep => u.retries \in {0, 1}
           /\ u.scheduler # Keep => u.scheduler \in BOOLEAN
           /\ u.migrate # Keep => u.migrate \in BOOLEAN
           /\ u.secret # Keep => u.secret \in {0, 1, 2}
           /\ u.resin # Keep => u.resin \in {0, 1}
           /\ u.rt # Keep => u.rt \in {0, 1}
<1>1. u \in SettingsBody
  BY UpdatesAssumption
<1> QED
  BY <1>1 DEF SettingsBody

\* What a read of the row brings, when it fails too.
LEMMA RowRead ==
    ASSUME StTypeOK, NEW ok \in BOOLEAN
    PROVE  GetSystemSettings(ok) \in StRow /\ (ok => GetSystemSettings(ok) = stRow)
<1>1. Defaults \in StRow
  BY DEF Defaults, StRow
<1> QED
  BY <1>1 DEF GetSystemSettings, StTypeOK

\* What a start makes of a row.
LEMMA LoadedTypes ==
    ASSUME NEW row \in StRow
    PROVE  /\ Loaded(row) \in StMem
           /\ Loaded(row).limit = row.limit /\ Loaded(row).migrate = row.migrate
           /\ Loaded(row).resin = row.resin /\ Loaded(row).rt = row.rt
           /\ Loaded(row).retries = IF row.retries = 0 THEN 2 ELSE row.retries
BY DEF Loaded, StRow, StMem

\* One request takes a step.  If nothing failed so far, it is the only one, and how far it
\* is decides what memory and row have in common.
LEMMA RequestStep ==
    ASSUME StInv, NEW r \in StRequests,
           NEW new \in [at : {"done"}] \cup FieldsRec \cup RtRec \cup WriteRec,
           stReq' = [stReq EXCEPT ![r] = new],
           stRow' \in StRow, stMem' \in StMem, stExcused' \in BOOLEAN, UNCHANGED stEnv,
           MigrationNeedsSecret', SecretSettled(r)',
           ~stExcused' => ~stExcused /\ \A q \in StRequests : Busy(q) => q = r,
           ~stExcused' => (Busy(r)' => Halfway(r)'),
           ~stExcused' => (~Busy(r)' => Settled')
    PROVE  StInv'
<1>1. \A q \in StRequests : stReq'[q] = IF q = r THEN new ELSE stReq[q]
  BY DEF StInv, StTypeOK
<1>2. StTypeOK'
  BY DEF StInv, StTypeOK
<1>3. \A q \in StRequests : SecretSettled(q)'
  BY <1>1 DEF StInv, SecretSettled, Applying
<1>4. \A q \in StRequests : q # r => (Busy(q)' <=> Busy(q))
  BY <1>1 DEF Busy
<1> QED
  BY <1>2, <1>3, <1>4 DEF StInv

\* A request that is under way in an undisturbed program is the only one.
LEMMA OnlyRequest ==
    ASSUME StInv, NEW r \in StRequests, Applying(r) \/ stReq[r].at = "write", ~stExcused
    PROVE  Busy(r) /\ Halfway(r) /\ \A q \in StRequests : Busy(q) => q = r
<1>1. Busy(r)
  BY DEF Busy, Applying
<1> QED
  BY <1>1 DEF StInv

\* GetSystemSettings and the secret to be saved.
LEMMA ReadSecretKeeps ==
    ASSUME StInv, NEW r \in StRequests, ReadSecret(r)
    PROVE  StInv'
<1>1. StTypeOK /\ stReq[r].at = "new" /\ UNCHANGED <<stRow, stMem, stEnv>>
  BY DEF StInv, ReadSecret
<1>2. PICK u \in Updates, ok \in BOOLEAN :
         /\ stReq' = [stReq EXCEPT ![r] = [at |-> "fields", u |-> u, secret |-> SecretToSave(u, ok),
                                           has |-> SecretToSave(u, ok) # 0 \/ stEnv]]
         /\ stExcused' = (stExcused \/ ~ok \/ \E q \in StRequests : Busy(q))
  BY DEF ReadSecret
<1>3. PICK secret \in {0, 1, 2} : /\ secret = SecretToSave(u, ok)
                                  /\ ok /\ u.secret = Keep => secret = stRow.secret
  <2>1. GetSystemSettings(ok).secret \in {0, 1, 2}
    BY <1>1, RowRead DEF StRow
  <2> QED
    BY <1>1, <2>1, RowRead, UpdateTypes DEF SecretToSave, Asked
<1>4. PICK has \in BOOLEAN : has <=> secret # 0 \/ stEnv
  OBVIOUS
<1>5. PICK new : /\ new = [at |-> "fields", u |-> u, secret |-> secret, has |-> has]
                 /\ stReq' = [stReq EXCEPT ![r] = new]
  <2>1. (SecretToSave(u, ok) # 0 \/ stEnv) = has
    BY <1>1, <1>3, <1>4 DEF StTypeOK
  <2> QED
    BY <1>2, <1>3, <2>1
<1>6. /\ new \in FieldsRec /\ new.at = "fields" /\ new.u = u /\ new.secret = secret /\ new.has = has
      /\ stReq'[r] = new
  BY <1>1, <1>5 DEF FieldsRec, StTypeOK
<1>7. SecretSettled(r)' /\ MigrationNeedsSecret' /\ Busy(r)'
  BY <1>1, <1>4, <1>6 DEF SecretSettled, Applying, MigrationNeedsSecret, StInv, Busy
<1>8. /\ stExcused' \in BOOLEAN
      /\ ~stExcused' => ~stExcused /\ ok /\ \A q \in StRequests : ~Busy(q)
  BY <1>1, <1>2 DEF StTypeOK
<1>9. ~stExcused' => Halfway(r)'
  BY <1>1, <1>3, <1>6, <1>8 DEF StInv, Settled, Halfway, Applying, LoadedRetries
<1> QED
  BY <1>1, <1>5, <1>6, <1>7, <1>8, <1>9, RequestStep DEF StTypeOK

\* The fields that are taken as they come.
LEMMA ApplyFieldsKeeps ==
    ASSUME StInv, NEW r \in StRequests, ApplyFields(r)
    PROVE  StInv'
<1>1. /\ StTypeOK /\ stReq[r].at = "fields" /\ UNCHANGED <<stRow, stEnv, stExcused>>
      /\ stReq[r] \in FieldsRec
  BY StTypes DEF StInv, ApplyFields
<1>2. PICK u \in Updates : u = stReq[r].u
  BY <1>1 DEF FieldsRec
<1>3. PICK new : new = [stReq[r] EXCEPT !.at = "migrate"] /\ stReq' = [stReq EXCEPT ![r] = new]
  BY DEF ApplyFields, Step
<1>4. /\ new \in FieldsRec /\ new.at = "migrate" /\ new.u = u /\ new.secret = stReq[r].secret
      /\ new.has = stReq[r].has
  BY <1>1, <1>2, <1>3 DEF FieldsRec
<1>5. stReq'[r] = new
  BY <1>1, <1>3 DEF StTypeOK
<1>6. PICK mem : /\ mem = [stMem EXCEPT !.limit = Asked(@, u.limit), !.retries = Asked(@, u.retries),
                                        !.scheduler = Asked(@, u.scheduler)]
                 /\ stMem' = mem
  BY <1>2 DEF ApplyFields
<1>7. /\ mem \in StMem /\ mem.migrate = stMem.migrate /\ mem.resin = stMem.resin
      /\ mem.rt = stMem.rt
  <2>1. /\ Asked(stMem.limit, u.limit) \in {1, 2} /\ Asked(stMem.retries, u.retries) \in {0, 1, 2}
        /\ Asked(stMem.scheduler, u.scheduler) \in BOOLEAN
    BY <1>1, UpdateTypes DEF StTypeOK, StMem, Asked
  <2> QED
    BY <1>1, <1>6, <2>1 DEF StTypeOK, StMem
<1>8. SecretSettled(r)' /\ MigrationNeedsSecret' /\ Busy(r)'
  BY <1>1, <1>4, <1>5 DEF SecretSettled, Applying, MigrationNeedsSecret, StInv, Busy
<1>9. ~stExcused => Halfway(r)'
  BY <1>1, <1>2, <1>4, <1>5, <1>6, <1>7, OnlyRequest DEF Halfway, Applying
<1>10. ~stExcused => \A q \in StRequests : Busy(q) => q = r
  BY <1>1, OnlyRequest DEF Applying
<1> QED
  BY <1>1, <1>3, <1>4, <1>6, <1>7, <1>8, <1>9, <1>10, RequestStep DEF StTypeOK

\* A request that is refused is done, and excuses what it leaves behind.
LEMMA RefuseKeeps ==
    ASSUME StInv, NEW r \in StRequests, Refuse(r), UNCHANGED <<stRow, stMem, stEnv>>
    PROVE  StInv'
<1>1. StTypeOK /\ stExcused' = TRUE
  BY DEF StInv, Refuse
<1>2. PICK new : new = [at |-> "done"] /\ stReq' = [stReq EXCEPT ![r] = new]
  BY DEF Refuse
<1>3. new \in [at : {"done"}] /\ new.at = "done" /\ stReq'[r] = new
  BY <1>1, <1>2 DEF StTypeOK
<1>4. SecretSettled(r)' /\ MigrationNeedsSecret'
  BY <1>3 DEF SecretSettled, Applying, MigrationNeedsSecret, StInv
<1> QED
  BY <1>1, <1>2, <1>3, <1>4, RequestStep DEF StTypeOK

\* Remote migration: on only with a secret, off when there is none.
LEMMA ApplyMigrationKeeps ==
    ASSUME StInv, NEW r \in StRequests, ApplyMigration(r)
    PROVE  StInv'
<1>1. CASE Refuse(r) /\ UNCHANGED stMem
  BY <1>1, RefuseKeeps DEF ApplyMigration
<1>2. CASE ~(Refuse(r) /\ UNCHANGED stMem)
  <2>1. /\ StTypeOK /\ stReq[r].at = "migrate" /\ UNCHANGED <<stRow, stEnv, stExcused>>
        /\ stReq[r] \in FieldsRec
    BY <1>2, StTypes DEF StInv, ApplyMigration
  <2>2. PICK u \in Updates : u = stReq[r].u
    BY <2>1 DEF FieldsRec
  <2>3. PICK new : new = [stReq[r] EXCEPT !.at = "overrides"] /\ stReq' = [stReq EXCEPT ![r] = new]
    BY <1>2 DEF ApplyMigration, Step
  <2>4. /\ new \in FieldsRec /\ new.at = "overrides" /\ new.u = u /\ new.secret = stReq[r].secret
        /\ new.has = stReq[r].has /\ stReq[r].has \in BOOLEAN
    BY <2>1, <2>2, <2>3 DEF FieldsRec
  <2>5. stReq'[r] = new
    BY <2>1, <2>3 DEF StTypeOK
  <2>6. PICK migrate : /\ migrate = IF u.migrate = Keep /\ ~stReq[r].has THEN FALSE
                                    ELSE Asked(stMem.migrate, u.migrate)
                       /\ stMem' = [stMem EXCEPT !.migrate = migrate]
    BY <1>2, <2>2 DEF ApplyMigration
  <2>7. migrate \in BOOLEAN
    BY <2>1, <2>6, UpdateTypes DEF Asked, StTypeOK, StMem
  <2>8. migrate => stReq[r].has
    <3>1. u.migrate # TRUE \/ stReq[r].has
      BY <1>2, <2>2 DEF ApplyMigration
    <3>2. CASE stReq[r].has
      BY <3>2
    <3>3. CASE ~stReq[r].has
      <4>1. u.migrate # TRUE
        BY <3>1, <3>3
      <4>2. CASE u.migrate = Keep
        BY <2>6, <3>3, <4>2
      <4>3. CASE u.migrate # Keep
        BY <2>6, <4>1, <4>3, UpdateTypes DEF Asked
      <4> QED
        BY <4>2, <4>3
    <3> QED
      BY <3>2, <3>3
  <2>9. /\ stMem' \in StMem /\ stMem'.migrate = migrate /\ stMem'.resin = stMem.resin
        /\ stMem'.rt = stMem.rt
    BY <2>1, <2>6, <2>7 DEF StTypeOK, StMem
  <2>10. SecretSettled(r)' /\ MigrationNeedsSecret' /\ Busy(r)'
    BY <2>1, <2>4, <2>5 DEF SecretSettled, Applying, MigrationNeedsSecret, StInv, Busy
  <2>11. ~stExcused => /\ Halfway(r)'
                       /\ \A q \in StRequests : Busy(q) => q = r
    BY <2>1, <2>2, <2>4, <2>5, <2>8, <2>9, OnlyRequest DEF Halfway, Applying
  <2> QED
    BY <2>1, <2>3, <2>4, <2>9, <2>10, <2>11, RequestStep DEF StTypeOK
<1> QED
  BY <1>1, <1>2

\* The overrides are valid JSON, or the request is refused.
LEMMA CheckOverridesKeeps ==
    ASSUME StInv, NEW r \in StRequests, CheckOverrides(r)
    PROVE  StInv'
<1>1. CASE Refuse(r)
  BY <1>1, RefuseKeeps DEF CheckOverrides
<1>2. CASE ~Refuse(r)
  <2>1. /\ StTypeOK /\ stReq[r].at = "overrides" /\ UNCHANGED <<stRow, stMem, stEnv, stExcused>>
        /\ stReq[r] \in FieldsRec
    BY <1>2, StTypes DEF StInv, CheckOverrides
  <2>2. PICK new : new = [stReq[r] EXCEPT !.at = "resin"] /\ stReq' = [stReq EXCEPT ![r] = new]
    BY <1>2 DEF CheckOverrides, Step
  <2>3. /\ new \in FieldsRec /\ new.at = "resin" /\ new.u = stReq[r].u
        /\ new.secret = stReq[r].secret /\ new.has = stReq[r].has
    BY <2>1, <2>2 DEF FieldsRec
  <2>4. stReq'[r] = new
    BY <2>1, <2>2 DEF StTypeOK
  <2>5. SecretSettled(r)' /\ MigrationNeedsSecret' /\ Busy(r)'
    BY <2>1, <2>3, <2>4 DEF SecretSettled, Applying, MigrationNeedsSecret, StInv, Busy
  <2>6. ~stExcused => /\ Halfway(r)'
                      /\ \A q \in StRequests : Busy(q) => q = r
    BY <2>1, <2>3, <2>4, OnlyRequest DEF Halfway, Applying
  <2> QED
    BY <2>1, <2>2, <2>3, <2>5, <2>6, RequestStep DEF StTypeOK
<1> QED
  BY <1>1, <1>2

\* The Resin address, as stored or as asked for.
LEMMA ApplyResinKeeps ==
    ASSUME StInv, NEW r \in StRequests, ApplyResin(r)
    PROVE  StInv'
<1>1. /\ StTypeOK /\ stReq[r].at = "resin" /\ UNCHANGED <<stRow, stEnv>> /\ stReq[r] \in FieldsRec
  BY StTypes DEF StInv, ApplyResin
<1>2. PICK u \in Updates : u = stReq[r].u
  BY <1>1 DEF FieldsRec
<1>20. PICK ok \in BOOLEAN : \E resin :
         /\ resin = Asked(GetSystemSettings(ok).resin, u.resin)
         /\ stReq' = [stReq EXCEPT ![r] = [at |-> "rt", u |-> u, secret |-> stReq[r].secret,
                                           has |-> stReq[r].has, resin |-> resin]]
         /\ stMem' = [stMem EXCEPT !.resin = IF u.resin = Keep THEN @ ELSE resin]
         /\ stExcused' = (stExcused \/ ~ok)
  BY <1>1, <1>2 DEF ApplyResin, StTypeOK
<1>3. PICK resin :
         /\ resin = Asked(GetSystemSettings(ok).resin, u.resin)
         /\ stReq' = [stReq EXCEPT ![r] = [at |-> "rt", u |-> u, secret |-> stReq[r].secret,
                                           has |-> stReq[r].has, resin |-> resin]]
         /\ stMem' = [stMem EXCEPT !.resin = IF u.resin = Keep THEN @ ELSE resin]
         /\ stExcused' = (stExcused \/ ~ok)
  BY <1>20
<1>4. resin \in {0, 1} /\ (ok /\ u.resin = Keep => resin = stRow.resin)
  BY <1>1, <1>3, RowRead, UpdateTypes DEF Asked, StRow
<1>5. PICK new : /\ new = [at |-> "rt", u |-> u, secret |-> stReq[r].secret, has |-> stReq[r].has,
                           resin |-> resin]
                 /\ stReq' = [stReq EXCEPT ![r] = new]
  BY <1>3
<1>6. /\ new \in RtRec /\ new.at = "rt" /\ new.u = u /\ new.secret = stReq[r].secret
      /\ new.has = stReq[r].has /\ new.resin = resin
  BY <1>1, <1>4, <1>5 DEF FieldsRec, RtRec
<1>7. stReq'[r] = new
  BY <1>1, <1>5 DEF StTypeOK
<1>8. /\ stMem' \in StMem /\ stMem'.migrate = stMem.migrate /\ stMem'.rt = stMem.rt
      /\ stMem'.limit = stMem.limit
      /\ stMem'.resin = IF u.resin = Keep THEN stMem.resin ELSE resin
  BY <1>1, <1>3, <1>4 DEF StTypeOK, StMem
<1>9. SecretSettled(r)' /\ MigrationNeedsSecret' /\ Busy(r)'
  BY <1>1, <1>6, <1>7 DEF SecretSettled, Applying, MigrationNeedsSecret, StInv, Busy
<1>10. stExcused' \in BOOLEAN /\ (~stExcused' => ~stExcused /\ ok)
  BY <1>1, <1>3 DEF StTypeOK
<1>11. ~stExcused' => /\ Halfway(r)'
                      /\ \A q \in StRequests : Busy(q) => q = r
  BY <1>1, <1>2, <1>4, <1>6, <1>7, <1>8, <1>10, OnlyRequest DEF Halfway, Applying
<1> QED
  BY <1>1, <1>5, <1>6, <1>8, <1>9, <1>10, <1>11, RequestStep DEF StTypeOK

\* The rt-manager account likewise, and the row to be saved.
LEMMA ApplyRTManagerKeeps ==
    ASSUME StInv, NEW r \in StRequests, ApplyRTManager(r)
    PROVE  StInv'
<1>1. /\ StTypeOK /\ stReq[r].at = "rt" /\ UNCHANGED <<stRow, stEnv>> /\ stReq[r] \in RtRec
  BY StTypes DEF StInv, ApplyRTManager
<1>2. PICK u \in Updates : u = stReq[r].u
  BY <1>1 DEF RtRec
<1>20. PICK ok \in BOOLEAN : \E rt :
         /\ rt = Asked(GetSystemSettings(ok).rt, u.rt)
         /\ stReq' = [stReq EXCEPT ![r] = [at |-> "write", u |-> u, row |-> RowToSave(r, rt)]]
         /\ stMem' = [stMem EXCEPT !.rt = IF u.rt = Keep THEN @ ELSE rt]
         /\ stExcused' = (stExcused \/ ~ok)
  BY <1>1, <1>2 DEF ApplyRTManager
<1>3. PICK rt :
         /\ rt = Asked(GetSystemSettings(ok).rt, u.rt)
         /\ stReq' = [stReq EXCEPT ![r] = [at |-> "write", u |-> u, row |-> RowToSave(r, rt)]]
         /\ stMem' = [stMem EXCEPT !.rt = IF u.rt = Keep THEN @ ELSE rt]
         /\ stExcused' = (stExcused \/ ~ok)
  BY <1>20
<1>4. rt \in {0, 1} /\ (ok /\ u.rt = Keep => rt = stRow.rt)
  BY <1>1, <1>3, RowRead, UpdateTypes DEF Asked, StRow
<1>5. PICK row : row = RowToSave(r, rt)
  OBVIOUS
<1>6. /\ row \in StRow /\ row.limit = stMem.limit /\ row.retries = stMem.retries
      /\ row.migrate = SavedMigration(r) /\ row.secret = stReq[r].secret
      /\ row.resin = stReq[r].resin /\ row.rt = rt
  <2>1. SavedMigration(r) \in BOOLEAN
    BY DEF SavedMigration
  <2> QED
    BY <1>1, <1>4, <1>5, <2>1 DEF RowToSave, StRow, RtRec, StTypeOK, StMem
<1>7. PICK new : /\ new = [at |-> "write", u |-> u, row |-> row]
                 /\ stReq' = [stReq EXCEPT ![r] = new]
  BY <1>3, <1>5
<1>8. new \in WriteRec /\ new.at = "write" /\ new.u = u /\ new.row = row
  BY <1>6, <1>7 DEF WriteRec
<1>9. stReq'[r] = new
  BY <1>1, <1>7 DEF StTypeOK
<1>10. /\ stMem' \in StMem /\ stMem'.migrate = stMem.migrate /\ stMem'.resin = stMem.resin
       /\ stMem'.limit = stMem.limit /\ stMem'.retries = stMem.retries
       /\ stMem'.rt = IF u.rt = Keep THEN stMem.rt ELSE rt
  BY <1>1, <1>3, <1>4 DEF StTypeOK, StMem
<1>11. SecretSettled(r)' /\ MigrationNeedsSecret' /\ Busy(r)'
  BY <1>1, <1>6, <1>8, <1>9
     DEF SecretSettled, SavedMigration, Applying, MigrationNeedsSecret, StInv, Busy
<1>12. stExcused' \in BOOLEAN /\ (~stExcused' => ~stExcused /\ ok)
  BY <1>1, <1>3 DEF StTypeOK
<1>13. ~stExcused' => /\ Halfway(r)'
                      /\ \A q \in StRequests : Busy(q) => q = r
  <2> SUFFICES ASSUME ~stExcused'
               PROVE  Halfway(r)' /\ \A q \in StRequests : Busy(q) => q = r
    OBVIOUS
  <2>1. Halfway(r) /\ \A q \in StRequests : Busy(q) => q = r
    BY <1>1, <1>12, OnlyRequest DEF Applying
  <2>2. row.migrate = stMem.migrate
    BY <1>1, <1>6, <2>1 DEF Halfway, SavedMigration, StTypeOK, StMem, RtRec
  <2> QED
    BY <1>1, <1>2, <1>4, <1>6, <1>8, <1>9, <1>10, <1>12, <2>1, <2>2 DEF Halfway, Applying
<1> QED
  BY <1>1, <1>7, <1>8, <1>10, <1>11, <1>12, <1>13, RequestStep DEF StTypeOK

\* The row is replaced as a whole, or stays and the failure is logged.
LEMMA SaveKeeps ==
    ASSUME StInv, NEW r \in StRequests, Save(r)
    PROVE  StInv'
<1>1. /\ StTypeOK /\ stReq[r].at = "write" /\ UNCHANGED <<stMem, stEnv>> /\ stReq[r] \in WriteRec
  BY StTypes DEF StInv, Save
<1>2. PICK new : new = [at |-> "done"] /\ stReq' = [stReq EXCEPT ![r] = new]
  BY DEF Save
<1>3. new \in [at : {"done"}] /\ new.at = "done" /\ stReq'[r] = new
  BY <1>1, <1>2 DEF StTypeOK
<1>4. SecretSettled(r)' /\ ~Busy(r)'
  BY <1>3 DEF SecretSettled, Applying, Busy
<1>5. CASE stRow' = stReq[r].row /\ UNCHANGED stExcused
  <2>1. stRow' \in StRow
    BY <1>1, <1>5 DEF WriteRec
  <2>2. MigrationNeedsSecret'
    BY <1>1, <1>5 DEF MigrationNeedsSecret, StInv, SecretSettled
  <2>3. ~stExcused => /\ Settled'
                      /\ \A q \in StRequests : Busy(q) => q = r
    <3> SUFFICES ASSUME ~stExcused PROVE Settled' /\ \A q \in StRequests : Busy(q) => q = r
      OBVIOUS
    <3>1. Halfway(r) /\ \A q \in StRequests : Busy(q) => q = r
      BY <1>1, OnlyRequest
    <3>2. LoadedRetries'
      BY <1>1, <1>5, <2>1, <3>1, LoadedTypes DEF Halfway, LoadedRetries
    <3> QED
      BY <1>1, <1>5, <3>1, <3>2 DEF Halfway, Settled
  <2> QED
    BY <1>1, <1>2, <1>3, <1>4, <1>5, <2>1, <2>2, <2>3, RequestStep DEF StTypeOK
<1>6. CASE stExcused' = TRUE /\ UNCHANGED stRow
  <2>1. MigrationNeedsSecret'
    BY <1>1, <1>6 DEF MigrationNeedsSecret, StInv
  <2> QED
    BY <1>1, <1>2, <1>3, <1>4, <1>6, <2>1, RequestStep DEF StTypeOK
<1> QED
  BY <1>5, <1>6 DEF Save

\* A start loads the row, or the defaults when it cannot be read.
LEMMA StartAgainKeeps ==
    ASSUME StInv, StartAgain
    PROVE  StInv'
<1>1. StTypeOK /\ UNCHANGED <<stRow, stEnv>>
  BY DEF StInv, StartAgain
<1>2. PICK ok \in BOOLEAN, row \in StRow :
         /\ row = (IF ok THEN stRow ELSE Defaults) /\ stMem' = Loaded(row) /\ stExcused' = ~ok
  BY <1>1, RowRead DEF StartAgain, GetSystemSettings
<1>3. [at |-> "done"] \in [at : {"new", "done"}] /\ [at |-> "done"].at = "done"
  OBVIOUS
<1>4. \A r \in StRequests : stReq'[r] = IF Busy(r) THEN [at |-> "done"] ELSE stReq[r]
  BY DEF StartAgain
<1>5. \A r \in StRequests : stReq'[r] \in [at : {"new", "done"}] /\ ~Busy(r)'
  <2> TAKE r \in StRequests
  <2>1. CASE Busy(r)
    BY <1>3, <1>4, <2>1 DEF Busy
  <2>2. CASE ~Busy(r)
    <3>1. stReq'[r] = stReq[r] /\ stReq[r].at \in {"new", "done"}
      BY <1>4, <2>2 DEF Busy
    <3>2. stReq[r] \in [at : {"new", "done"}]
      BY <1>1, <3>1 DEF StTypeOK, FieldsRec, RtRec, WriteRec
    <3> QED
      BY <3>1, <3>2 DEF Busy
  <2> QED
    BY <2>1, <2>2
<1>6. StTypeOK'
  <2>1. stReq' \in [StRequests -> [at : {"new", "done"}] \cup FieldsRec \cup RtRec \cup WriteRec]
    BY <1>5 DEF StartAgain
  <2> QED
    BY <1>1, <1>2, <2>1, LoadedTypes DEF StTypeOK
<1>7. \A r \in StRequests : SecretSettled(r)'
  BY <1>5 DEF SecretSettled, Applying, Busy
<1>8. ~stExcused' => Settled'
  BY <1>1, <1>2, LoadedTypes DEF Settled, LoadedRetries
<1> QED
  BY <1>1, <1>5, <1>6, <1>7, <1>8 DEF StInv, MigrationNeedsSecret

\* The program starts with a row that protects what it allows.
LEMMA StInvInitially == SettingsInit => StInv
<1> SUFFICES ASSUME SettingsInit PROVE StInv
  OBVIOUS
<1>1. PICK secret \in {0, 1}, migrate \in BOOLEAN :
         /\ migrate => secret # 0 \/ stEnv
         /\ stRow = [Defaults EXCEPT !.retries = 1, !.secret = secret, !.migrate = migrate,
                                     !.resin = 1, !.rt = 1]
  BY DEF SettingsInit
<1>2. stRow \in StRow /\ stRow.migrate = migrate /\ stRow.secret = secret
  BY <1>1 DEF Defaults, StRow
<1>3. stEnv \in BOOLEAN /\ stMem = Loaded(stRow) /\ stExcused = FALSE
  BY DEF SettingsInit
<1>4. \A r \in StRequests : stReq[r] \in [at : {"new", "done"}] /\ stReq[r].at = "new"
  BY DEF SettingsInit, NotYet
<1>5. StTypeOK
  BY <1>2, <1>3, <1>4, LoadedTypes DEF StTypeOK, SettingsInit
<1>6. \A r \in StRequests : SecretSettled(r) /\ ~Busy(r)
  BY <1>4 DEF SecretSettled, Applying, Busy
<1>7. Settled
  BY <1>2, <1>3, LoadedTypes DEF Settled, LoadedRetries
<1> QED
  BY <1>1, <1>2, <1>5, <1>6, <1>7 DEF StInv, MigrationNeedsSecret

\* Every step of every request, and a restart between any two.
LEMMA StInvKept == StInv /\ [SettingsNext]_stVars => StInv'
<1> SUFFICES ASSUME StInv, [SettingsNext]_stVars PROVE StInv'
  OBVIOUS
<1>1. CASE UNCHANGED stVars
  BY <1>1 DEF stVars, StInv, StTypeOK, MigrationNeedsSecret, SecretSettled, Applying, Busy, Halfway,
              Settled, LoadedRetries
<1>2. ASSUME NEW r \in StRequests,
             \/ ReadSecret(r) \/ ApplyFields(r) \/ ApplyMigration(r) \/ CheckOverrides(r)
             \/ ApplyResin(r) \/ ApplyRTManager(r) \/ Save(r)
      PROVE  StInv'
  BY <1>2, ReadSecretKeeps, ApplyFieldsKeeps, ApplyMigrationKeeps, CheckOverridesKeeps,
     ApplyResinKeeps, ApplyRTManagerKeeps, SaveKeeps
<1> QED
  BY <1>1, <1>2, StartAgainKeeps DEF SettingsNext

\* Between undisturbed requests the memory is what a start would load.
LEMMA SettledIsLoaded ==
    ASSUME StInv
    PROVE  RestartChangesNothing
<1> SUFFICES ASSUME ~stExcused, \A r \in StRequests : ~Busy(r)
             PROVE  stMem = [Loaded(stRow) EXCEPT !.retries = IF stMem.retries = 0 THEN 0 ELSE @,
                                                  !.scheduler = stMem.scheduler,
                                                  !.decorated = stMem.decorated]
  BY DEF RestartChangesNothing
<1>1. Settled /\ stRow \in StRow /\ stMem \in StMem
  BY DEF StInv, StTypeOK
<1>2. PICK l \in StMem : l = Loaded(stRow)
  BY <1>1, LoadedTypes
<1>3. /\ stMem.limit = l.limit /\ stMem.migrate = l.migrate /\ stMem.resin = l.resin
      /\ stMem.rt = l.rt /\ stMem.retries = IF stMem.retries = 0 THEN 0 ELSE l.retries
  BY <1>1, <1>2, LoadedTypes DEF Settled, LoadedRetries
<1> QED
  BY <1>1, <1>2, <1>3 DEF StMem

\* A credential in the row changes only by the row of a request that asks for it.
LEMMA CredentialsKeptStep ==
    ASSUME StInv, [SettingsNext]_stVars, ~stExcused', NEW f \in {"secret", "resin", "rt"},
           stRow'[f] # stRow[f]
    PROVE  \E r \in StRequests : stReq[r].at = "write" /\ stReq[r].u[f] # Keep
<1>1. PICK r \in StRequests : Save(r)
  BY DEF SettingsNext, stVars, ReadSecret, ApplyFields, ApplyMigration, CheckOverrides, ApplyResin,
         ApplyRTManager, StartAgain
<1>2. stReq[r].at = "write" /\ stRow' = stReq[r].row /\ ~stExcused
  BY <1>1 DEF Save
<1>3. Halfway(r)
  BY <1>2, OnlyRequest
<1>4. stReq[r].u[f] # Keep
  BY <1>2, <1>3 DEF Halfway
<1> QED
  BY <1>2, <1>4

\* Requests to change the settings, half-way or overlapping, failing reads and writes and
\* restarts: migration stays protected, what is in force is what is stored, and a credential
\* changes only by a request for it (UpdateSettings).
THEOREM SettingsSoundHolds == SettingsSpec => SettingsSound
<1>1. StInv => MigrationNeedsSecret /\ RestartChangesNothing
  BY SettledIsLoaded DEF StInv
<1>2. StInv /\ [SettingsNext]_stVars =>
         [~stExcused' =>
            \A f \in {"secret", "resin", "rt"} :
               stRow'[f] # stRow[f] => \E r \in StRequests : stReq[r].at = "write" /\ stReq[r].u[f] # Keep
         ]_stVars
  BY CredentialsKeptStep
<1> QED
  BY <1>1, <1>2, StInvInitially, StInvKept, PTL DEF SettingsSpec, SettingsSound, CredentialsKept

-----------------------------------------------------------------------------
(* The proxy pool. *)

EntryRec == [url : Urls, healthy : BOOLEAN, status : {"healthy", "unhealthy", "isolated"},
             fails : Int, served : BOOLEAN, conns : Int]

PpEntries == 1..Len(ppEntry)

PpJobRec == [at : {"idle", "found", "rebuild", "drop"},
             op : {"none", "success", "failure", "passed", "unreachable", "acquire", "release"},
             entry : PpEntries \cup {NoEntry}]

PpTypeOK ==
    /\ ppEntry \in Seq(EntryRec) /\ Len(ppEntry) <= MaxPpEntries
    /\ ppPool \subseteq PpEntries
    /\ ppJob \in [PpWorkers -> PpJobRec]
    /\ ppHeld \in [PpWorkers -> PpEntries \cup {NoEntry}]
    /\ \A w \in PpWorkers : ppJob[w].at # "idle" => ppJob[w].entry \in PpEntries

\* An entry of the pool is the last one that its URL has had.
NewestInPool ==
    \A e \in ppPool : \A d \in PpEntries : ppEntry[d].url = ppEntry[e].url => d <= e

\* Who is about to release holds a connection of the same URL, who is about to acquire none.
JobsHold ==
    \A w \in PpWorkers :
        /\ ppJob[w].at = "drop" =>
              ppHeld[w] # NoEntry /\ ppEntry[ppHeld[w]].url = ppEntry[ppJob[w].entry].url
        /\ ppJob[w].at = "found" /\ ppJob[w].op = "acquire" => ppHeld[w] = NoEntry

PpInv == PpTypeOK /\ NewestInPool /\ JobsHold /\ HealthyListCurrent /\ ConnectionsCounted

Holders(e) == {w \in PpWorkers : ppHeld[w] = e}

\* The entry was the first of its URL.
Original(e) == \A d \in 1..(e - 1) : ppEntry[d].url # ppEntry[e].url

\* Types of what the pool and the goroutines hold.
LEMMA PpTypes ==
    ASSUME PpTypeOK
    PROVE  /\ ppEntry \in Seq(EntryRec) /\ Len(ppEntry) \in Nat /\ DOMAIN ppEntry = PpEntries
           /\ \A e \in PpEntries : ppEntry[e] \in EntryRec /\ e \in Nat /\ e # NoEntry
           /\ \A w \in PpWorkers : ppJob[w] \in PpJobRec /\ ppHeld[w] \in PpEntries \cup {NoEntry}
           /\ ppPool \subseteq PpEntries
<1>1. ppEntry \in Seq(EntryRec) /\ Len(ppEntry) \in Nat /\ DOMAIN ppEntry = PpEntries
  BY DEF PpTypeOK, PpEntries
<1>2. \A e \in PpEntries : ppEntry[e] \in EntryRec /\ e \in Nat /\ e <= MaxPpEntries
  BY <1>1, ProxyPoolAssumption DEF PpTypeOK, PpEntries
<1>3. \A e \in PpEntries : e # NoEntry
  BY <1>2, ProxyPoolAssumption DEF PpEntries
<1> QED
  BY <1>1, <1>2, <1>3 DEF PpTypeOK

\* The entry of an URL in the pool, if it is the original, is the only one there ever was.
LEMMA OriginalIsOnly ==
    ASSUME PpInv, NEW e \in ppPool, Original(e), NEW d \in PpEntries,
           ppEntry[d].url = ppEntry[e].url
    PROVE  d = e
<1>1. d <= e /\ d \in Nat /\ e \in Nat /\ d \in 1..Len(ppEntry) /\ Len(ppEntry) \in Nat
  BY PpTypes DEF PpInv, NewestInPool, PpEntries
<1>2. ~(d \in 1..(e - 1))
  BY DEF Original
<1> QED
  BY <1>1, <1>2

\* A list that was rebuilt from what the pool is now is current.
LEMMA RebuiltIsCurrent ==
    ASSUME ppHealthy' = rebuildHealthyList(ppPool', ppEntry')
    PROVE  HealthyListCurrent'
BY DEF HealthyListCurrent

\* A step of one goroutine that leaves entries, pool, list and connections alone.
LEMMA GoroutineMoves ==
    ASSUME PpInv, UNCHANGED <<ppEntry, ppPool, ppHealthy, ppHeld>>,
           NEW w \in PpWorkers, NEW job \in PpJobRec, ppJob' = [ppJob EXCEPT ![w] = job],
           job.at # "idle" => job.entry \in PpEntries,
           job.at = "drop" =>
              ppHeld[w] # NoEntry /\ ppEntry[ppHeld[w]].url = ppEntry[job.entry].url,
           job.at = "found" /\ job.op = "acquire" => ppHeld[w] = NoEntry,
           ppJob[w].at # "rebuild"
    PROVE  PpInv'
<1> USE PpTypes DEF PpInv
<1>1. \A v \in PpWorkers : ppJob'[v] = IF v = w THEN job ELSE ppJob[v]
  BY DEF PpTypeOK
<1>2. PpEntries' = PpEntries /\ PpJobRec' = PpJobRec
  BY DEF PpEntries, PpJobRec
<1>3. PpTypeOK'
  BY <1>1, <1>2 DEF PpTypeOK
<1>4. NewestInPool'
  BY <1>2 DEF NewestInPool
<1>5. JobsHold'
  BY <1>1 DEF JobsHold
<1>6. HealthyListCurrent'
  <2>1. (\A v \in PpWorkers : ppJob'[v].at # "rebuild") => \A v \in PpWorkers : ppJob[v].at # "rebuild"
    BY <1>1
  <2> QED
    BY <2>1 DEF HealthyListCurrent
<1>7. ConnectionsCounted'
  BY DEF ConnectionsCounted
<1> QED
  BY <1>3, <1>4, <1>5, <1>6, <1>7

\* Entries change, but neither their URLs nor their counters.
EntriesChange ==
    /\ ppEntry' \in Seq(EntryRec) /\ Len(ppEntry') = Len(ppEntry)
    /\ \A e \in PpEntries : /\ ppEntry'[e].url = ppEntry[e].url
                            /\ ppEntry'[e].conns = ppEntry[e].conns

\* Then all but the list stays right, while the pool and the goroutines stay as they are,
\* or one of them goes on to rebuild the list.
LEMMA EntriesChangeKeeps ==
    ASSUME PpInv, EntriesChange, UNCHANGED <<ppPool, ppHeld>>,
           \/ UNCHANGED ppJob
           \/ \E w \in PpWorkers : /\ ppJob[w].at = "found"
                                   /\ ppJob' = [ppJob EXCEPT ![w].at = "rebuild"],
           HealthyListCurrent'
    PROVE  PpInv'
<1> USE PpTypes DEF PpInv, EntriesChange
<1>1. PpEntries' = PpEntries /\ PpJobRec' = PpJobRec
  BY DEF PpEntries, PpJobRec
<1>2. /\ ppJob' \in [PpWorkers -> PpJobRec]
      /\ \A w \in PpWorkers : /\ ppJob'[w].entry = ppJob[w].entry /\ ppJob'[w].op = ppJob[w].op
                              /\ ppJob'[w].at # ppJob[w].at =>
                                    ppJob[w].at = "found" /\ ppJob'[w].at = "rebuild"
  <2>1. CASE UNCHANGED ppJob
    BY <2>1 DEF PpTypeOK
  <2>2. CASE \E w \in PpWorkers : /\ ppJob[w].at = "found"
                                  /\ ppJob' = [ppJob EXCEPT ![w].at = "rebuild"]
    <3>1. PICK w \in PpWorkers : /\ ppJob[w].at = "found"
                                 /\ ppJob' = [ppJob EXCEPT ![w].at = "rebuild"]
      BY <2>2
    <3>2. PICK job : job = [ppJob[w] EXCEPT !.at = "rebuild"] /\ ppJob' = [ppJob EXCEPT ![w] = job]
      BY <3>1 DEF PpTypeOK
    <3>3. job \in PpJobRec /\ job.at = "rebuild" /\ job.op = ppJob[w].op
          /\ job.entry = ppJob[w].entry
      BY <3>2 DEF PpJobRec
    <3>4. \A v \in PpWorkers : ppJob'[v] = IF v = w THEN job ELSE ppJob[v]
      BY <3>2 DEF PpTypeOK
    <3> QED
      BY <3>1, <3>2, <3>3, <3>4 DEF PpTypeOK
  <2> QED
    BY <2>1, <2>2
<1>3. PpTypeOK'
  BY <1>1, <1>2 DEF PpTypeOK
<1>4. NewestInPool'
  BY <1>1 DEF NewestInPool
<1>5. JobsHold'
  <2> SUFFICES ASSUME NEW w \in PpWorkers
               PROVE  /\ ppJob'[w].at = "drop" =>
                           ppHeld[w] # NoEntry /\ ppEntry'[ppHeld[w]].url = ppEntry'[ppJob'[w].entry].url
                      /\ ppJob'[w].at = "found" /\ ppJob'[w].op = "acquire" => ppHeld[w] = NoEntry
    BY DEF JobsHold
  <2>1. ppJob'[w].at = "drop" =>
           /\ ppJob[w].at = "drop" /\ ppJob[w].entry \in PpEntries /\ ppJob'[w].entry = ppJob[w].entry
           /\ ppHeld[w] # NoEntry /\ ppHeld[w] \in PpEntries
    BY <1>2 DEF JobsHold, PpTypeOK
  <2>2. ppJob'[w].at = "found" => ppJob[w].at = "found" /\ ppJob'[w].op = ppJob[w].op
    BY <1>2
  <2> QED
    BY <2>1, <2>2 DEF JobsHold
<1>6. ConnectionsCounted'
  <2>1. \A e \in PpEntries : \A d \in 1..(e - 1) : d \in PpEntries
    BY DEF PpEntries
  <2> QED
    BY <2>1 DEF ConnectionsCounted
<1> QED
  BY <1>3, <1>4, <1>5, <1>6

\* AddProxy: the new entry has no connection, and its URL none in the pool.
LEMMA AddProxyKeeps ==
    ASSUME PpInv, NEW url \in Urls, AddProxy(url)
    PROVE  PpInv'
<1> USE PpTypes DEF PpInv
<1>0. PICK n \in Nat : n = Len(ppEntry) + 1
  OBVIOUS
<1>1. /\ findEntry(url) = {} /\ Len(ppEntry) < MaxPpEntries
      /\ ppEntry' = Append(ppEntry, NewProxyEntry(url)) /\ ppPool' = ppPool \cup {n}
      /\ UNCHANGED <<ppChecks, ppJob, ppHeld>>
  BY <1>0 DEF AddProxy
<1>2. /\ NewProxyEntry(url) \in EntryRec /\ NewProxyEntry(url).url = url
      /\ NewProxyEntry(url).conns = 0
  BY DEF NewProxyEntry, EntryRec
<1>3. /\ ppEntry' \in Seq(EntryRec) /\ Len(ppEntry') = n /\ ppEntry'[n] = NewProxyEntry(url)
      /\ \A e \in PpEntries : ppEntry'[e] = ppEntry[e]
  BY <1>0, <1>1, <1>2 DEF PpEntries
<1>4. PpEntries' = 1..n /\ PpEntries' = PpEntries \cup {n} /\ n \notin PpEntries
  BY <1>0, <1>3 DEF PpEntries
<1>5. PpTypeOK'
  <2>1. ppJob' \in [PpWorkers -> PpJobRec']
    BY <1>1, <1>4 DEF PpTypeOK, PpJobRec
  <2>2. ppPool' \subseteq PpEntries' /\ ppHeld' \in [PpWorkers -> PpEntries' \cup {NoEntry}]
    BY <1>1, <1>4 DEF PpTypeOK
  <2>3. \A w \in PpWorkers : ppJob'[w].at # "idle" => ppJob'[w].entry \in PpEntries'
    BY <1>1, <1>4 DEF PpTypeOK
  <2>4. Len(ppEntry') <= MaxPpEntries
    BY <1>0, <1>1, <1>3, ProxyPoolAssumption
  <2> QED
    BY <1>3, <2>1, <2>2, <2>3, <2>4 DEF PpTypeOK
<1>6. NewestInPool'
  <2> SUFFICES ASSUME NEW e \in ppPool', NEW d \in PpEntries', ppEntry'[d].url = ppEntry'[e].url
               PROVE  d <= e
    BY DEF NewestInPool
  <2>1. CASE e = n
    BY <1>4, <2>1
  <2>2. CASE e # n
    <3>1. e \in ppPool /\ ppEntry[e].url # url
      BY <1>1, <2>2 DEF findEntry
    <3>2. d \in PpEntries
      BY <1>2, <1>3, <1>4, <3>1
    <3> QED
      BY <1>3, <3>1, <3>2 DEF NewestInPool
  <2> QED
    BY <2>1, <2>2
<1>7. JobsHold'
  BY <1>1, <1>3 DEF JobsHold, PpTypeOK
<1>8. HealthyListCurrent'
  BY RebuiltIsCurrent DEF AddProxy
<1>9. ConnectionsCounted'
  <2> SUFFICES ASSUME NEW e \in ppPool', Original(e)'
               PROVE  ppEntry'[e].conns = Cardinality({w \in PpWorkers : ppHeld[w] = e})
    BY <1>1 DEF ConnectionsCounted, Original
  <2>1. CASE e = n
    <3>1. {w \in PpWorkers : ppHeld[w] = e} = {}
      BY <1>1, <1>4, <2>1, ProxyPoolAssumption DEF PpEntries
    <3> QED
      BY <1>2, <1>3, <2>1, <3>1, FS_EmptySet
  <2>2. CASE e # n
    <3>1. e \in ppPool /\ \A d \in 1..(e - 1) : d \in PpEntries
      BY <1>1, <2>2 DEF PpEntries
    <3>2. Original(e)
      BY <1>3, <3>1 DEF Original
    <3> QED
      BY <1>3, <3>1, <3>2 DEF ConnectionsCounted, Original
  <2> QED
    BY <2>1, <2>2
<1> QED
  BY <1>5, <1>6, <1>7, <1>8, <1>9

\* RemoveProxy and a rebuild of the list alone.
LEMMA PoolShrinksKeeps ==
    ASSUME PpInv, ppPool' \subseteq ppPool, UNCHANGED <<ppEntry, ppHeld, ppJob>>,
           HealthyListCurrent'
    PROVE  PpInv'
<1> USE PpTypes DEF PpInv
<1>1. PpEntries' = PpEntries /\ PpJobRec' = PpJobRec
  BY DEF PpEntries, PpJobRec
<1>2. PpTypeOK' /\ NewestInPool' /\ JobsHold'
  BY <1>1 DEF PpTypeOK, NewestInPool, JobsHold
<1>3. ConnectionsCounted'
  BY DEF ConnectionsCounted
<1> QED
  BY <1>2, <1>3

\* What a mark or a check makes of an entry.
LEMMA ChangedEntry ==
    ASSUME NEW entry \in EntryRec, NEW op \in {"success", "failure", "passed", "unreachable"}
    PROVE  /\ changed(entry, op) \in EntryRec
           /\ changed(entry, op).url = entry.url /\ changed(entry, op).conns = entry.conns
<1>1. PICK m \in Int : m = Min({entry.fails + 1, IsolationThreshold})
  <2>1. entry.fails + 1 \in Int /\ IsolationThreshold \in Int
    BY ProxyPoolAssumption DEF EntryRec
  <2>2. \E x \in {entry.fails + 1, IsolationThreshold} :
           \A y \in {entry.fails + 1, IsolationThreshold} : x <= y
    BY <2>1
  <2>3. Min({entry.fails + 1, IsolationThreshold}) \in {entry.fails + 1, IsolationThreshold}
    BY <2>2 DEF Min
  <2> QED
    BY <2>1, <2>3
<1>2. PICK f \in EntryRec : /\ f = failed(entry) /\ f.url = entry.url /\ f.conns = entry.conns
                            /\ f.status = entry.status /\ f.healthy = entry.healthy
  <2>1. PICK f : f = [entry EXCEPT !.fails = m]
    OBVIOUS
  <2>2. f = failed(entry)
    BY <1>1, <2>1 DEF failed
  <2> QED
    BY <2>1, <2>2 DEF EntryRec
<1>3. CASE op = "success"
  <2>1. PICK s \in {"healthy", "unhealthy", "isolated"} :
           s = IF entry.status = "isolated" THEN "healthy" ELSE entry.status
    BY DEF EntryRec
  <2>2. changed(entry, op) = [entry EXCEPT !.fails = 0, !.status = s]
    BY <1>3, <2>1 DEF changed, EntryRec
  <2>3. changed(entry, op) = [url |-> entry.url, healthy |-> entry.healthy, status |-> s, fails |-> 0,
                              served |-> entry.served, conns |-> entry.conns]
    BY <2>2 DEF EntryRec
  <2>4. /\ entry.url \in Urls /\ entry.served \in BOOLEAN /\ entry.conns \in Int
        /\ entry.healthy \in BOOLEAN
    BY DEF EntryRec
  <2> QED
    BY <2>3, <2>4 DEF EntryRec
<1>4. CASE op = "failure"
  <2>1. PICK g : g = [f EXCEPT !.status = "isolated", !.served = FALSE]
    OBVIOUS
  <2>2. PICK h : h = [g EXCEPT !.healthy = FALSE]
    OBVIOUS
  <2>3. g \in EntryRec /\ g.url = entry.url /\ g.conns = entry.conns /\ g = isolated(f)
    BY <1>2, <2>1 DEF EntryRec, isolated
  <2>4. h \in EntryRec /\ h.url = entry.url /\ h.conns = entry.conns
    BY <2>2, <2>3 DEF EntryRec
  <2>5. changed(entry, op) = f \/ changed(entry, op) = h
    BY <1>2, <1>4, <2>2, <2>3 DEF changed
  <2> QED
    BY <1>2, <2>4, <2>5
<1>5. CASE op = "passed"
  <2>1. PICK s \in {"healthy", "unhealthy", "isolated"} :
           s = IF entry.status = "isolated" /\ entry.served THEN "healthy" ELSE entry.status
    BY DEF EntryRec
  <2>2. PICK g : g = [entry EXCEPT !.healthy = TRUE, !.fails = 0, !.status = s]
    OBVIOUS
  <2>3. changed(entry, op) = g
    BY <1>5, <2>1, <2>2 DEF changed, EntryRec
  <2>4. g = [url |-> entry.url, healthy |-> TRUE, status |-> s, fails |-> 0,
             served |-> entry.served, conns |-> entry.conns]
    BY <2>2 DEF EntryRec
  <2>5. entry.url \in Urls /\ entry.served \in BOOLEAN /\ entry.conns \in Int
    BY DEF EntryRec
  <2> QED
    BY <2>3, <2>4, <2>5 DEF EntryRec
<1>6. CASE op = "unreachable"
  <2>1. PICK h : h = [f EXCEPT !.healthy = FALSE, !.status = "unhealthy"]
    OBVIOUS
  <2>2. h \in EntryRec /\ h.url = entry.url /\ h.conns = entry.conns
    BY <1>2, <2>1 DEF EntryRec
  <2>3. PICK g : g = [h EXCEPT !.status = "isolated", !.served = FALSE]
    OBVIOUS
  <2>4. g \in EntryRec /\ g.url = entry.url /\ g.conns = entry.conns /\ g = isolated(h)
    BY <2>2, <2>3 DEF EntryRec, isolated
  <2>5. changed(entry, op) = h \/ changed(entry, op) = g
    BY <1>2, <1>6, <2>1, <2>4 DEF changed
  <2> QED
    BY <2>2, <2>4, <2>5
<1> QED
  BY <1>3, <1>4, <1>5, <1>6

\* MarkSuccess, MarkFailure, a result of a health check: the list is rebuilt next.
LEMMA UpdateKeeps ==
    ASSUME PpInv, NEW w \in PpWorkers, Update(w)
    PROVE  PpInv'
<1> USE PpTypes DEF PpInv
<1>1. PICK e \in PpEntries, op \in {"success", "failure", "passed", "unreachable"} :
         e = ppJob[w].entry /\ op = ppJob[w].op
  BY DEF Update, PpTypeOK
<1>2. PICK entry \in EntryRec : /\ entry = changed(ppEntry[e], op)
                                /\ entry.url = ppEntry[e].url /\ entry.conns = ppEntry[e].conns
  BY ChangedEntry
<1>3. ppEntry' = [ppEntry EXCEPT ![e] = entry]
  BY <1>1, <1>2 DEF Update
<1>4. \A d \in PpEntries : ppEntry'[d] = IF d = e THEN entry ELSE ppEntry[d]
  BY <1>3
<1>5. EntriesChange
  <2>1. ppEntry' \in Seq(EntryRec) /\ Len(ppEntry') = Len(ppEntry)
    BY <1>1, <1>3 DEF PpEntries
  <2> QED
    BY <1>2, <1>4, <2>1 DEF EntriesChange
<1>6. /\ ppJob[w].at = "found" /\ ppJob' = [ppJob EXCEPT ![w].at = "rebuild"]
      /\ UNCHANGED <<ppPool, ppHeld>>
  BY DEF Update
<1>7. HealthyListCurrent'
  BY <1>6 DEF HealthyListCurrent, PpTypeOK, PpJobRec
<1> QED
  BY <1>5, <1>6, <1>7, EntriesChangeKeeps

\* RecoverIsolatedProxies rebuilds the list at once.
LEMMA RecoverIsolatedProxiesKeeps ==
    ASSUME PpInv, RecoverIsolatedProxies
    PROVE  PpInv'
<1> USE PpTypes DEF PpInv
<1>1. PICK over \in SUBSET PpEntries :
         ppEntry' = [e \in DOMAIN ppEntry |->
                        IF e \in over
                        THEN [ppEntry[e] EXCEPT !.status = "healthy", !.healthy = TRUE, !.fails = 0]
                        ELSE ppEntry[e]]
  <2>1. {e \in ppPool : ppEntry[e].status = "isolated" /\ ppEntry[e].served} \in SUBSET PpEntries
    OBVIOUS
  <2> QED
    BY <2>1 DEF RecoverIsolatedProxies
<1>2. ASSUME NEW e \in PpEntries
      PROVE  /\ ppEntry'[e] \in EntryRec /\ ppEntry'[e].url = ppEntry[e].url
             /\ ppEntry'[e].conns = ppEntry[e].conns
  <2>1. PICK g : g = [ppEntry[e] EXCEPT !.status = "healthy", !.healthy = TRUE, !.fails = 0]
    OBVIOUS
  <2>2. g = [url |-> ppEntry[e].url, healthy |-> TRUE, status |-> "healthy", fails |-> 0,
             served |-> ppEntry[e].served, conns |-> ppEntry[e].conns]
    BY <2>1 DEF EntryRec
  <2>4. ppEntry[e].url \in Urls /\ ppEntry[e].served \in BOOLEAN /\ ppEntry[e].conns \in Int
    BY DEF EntryRec
  <2>5. g \in EntryRec /\ g.url = ppEntry[e].url /\ g.conns = ppEntry[e].conns
    BY <2>2, <2>4 DEF EntryRec
  <2>3. ppEntry'[e] = IF e \in over THEN g ELSE ppEntry[e]
    BY <1>1, <2>1
  <2> QED
    BY <2>3, <2>5
<1>3. EntriesChange
  <2>1. ppEntry' \in [1..Len(ppEntry) -> EntryRec]
    BY <1>1, <1>2 DEF PpEntries
  <2>2. ppEntry' \in Seq(EntryRec) /\ Len(ppEntry') = Len(ppEntry)
    BY <2>1
  <2> QED
    BY <1>2, <2>2 DEF EntriesChange
<1>4. HealthyListCurrent' /\ UNCHANGED <<ppPool, ppHeld, ppJob>>
  BY RebuiltIsCurrent DEF RecoverIsolatedProxies
<1> QED
  BY <1>3, <1>4, EntriesChangeKeeps

\* Time passes for an isolated proxy, which is on no list.
LEMMA IsolationPassesKeeps ==
    ASSUME PpInv, NEW e \in PpEntries, IsolationPasses(e)
    PROVE  PpInv'
<1> USE PpTypes DEF PpInv
<1>1. PICK g : g = [ppEntry[e] EXCEPT !.served = TRUE]
  OBVIOUS
<1>2. /\ g \in EntryRec /\ g.url = ppEntry[e].url /\ g.conns = ppEntry[e].conns
      /\ g.status = ppEntry[e].status /\ g.healthy = ppEntry[e].healthy
  BY <1>1 DEF EntryRec
<1>3. ppEntry' = [ppEntry EXCEPT ![e] = g]
  BY <1>1 DEF IsolationPasses
<1>4. \A d \in PpEntries : ppEntry'[d] = IF d = e THEN g ELSE ppEntry[d]
  BY <1>3
<1>5. EntriesChange
  <2>1. ppEntry' \in Seq(EntryRec) /\ Len(ppEntry') = Len(ppEntry)
    BY <1>2, <1>3 DEF PpEntries
  <2> QED
    BY <1>2, <1>4, <2>1 DEF EntriesChange
<1>6. UNCHANGED <<ppPool, ppHealthy, ppHeld, ppJob>>
  BY DEF IsolationPasses
<1>7. rebuildHealthyList(ppPool', ppEntry') = rebuildHealthyList(ppPool, ppEntry)
  BY <1>2, <1>4, <1>6 DEF rebuildHealthyList
<1>8. HealthyListCurrent'
  BY <1>6, <1>7 DEF HealthyListCurrent
<1> QED
  BY <1>5, <1>6, <1>8, EntriesChangeKeeps

\* An entry is found under its URL, to be changed or acquired later.
LEMMA FindsKeeps ==
    ASSUME PpInv, NEW w \in PpWorkers, NEW url \in Urls,
           NEW op \in {"success", "failure", "passed", "unreachable", "acquire"}, Finds(w, op, url),
           op = "acquire" => ppHeld[w] = NoEntry
    PROVE  PpInv'
<1> USE PpTypes DEF PpInv
<1>1. PICK e \in PpEntries : ppJob' = [ppJob EXCEPT ![w] = [at |-> "found", op |-> op, entry |-> e]]
  BY DEF Finds, findEntry
<1>2. PICK job : /\ job = [at |-> "found", op |-> op, entry |-> e]
                 /\ ppJob' = [ppJob EXCEPT ![w] = job]
  BY <1>1
<1>3. job \in PpJobRec /\ job.at = "found" /\ job.op = op /\ job.entry = e
  BY <1>2 DEF PpJobRec
<1> QED
  BY <1>2, <1>3, GoroutineMoves DEF Finds

\* The list is rebuilt after a change.
LEMMA RebuildKeeps ==
    ASSUME PpInv, NEW w \in PpWorkers, rebuildHealthyListIfNeeded(w)
    PROVE  PpInv'
<1> USE PpTypes DEF PpInv
<1>1. UNCHANGED <<ppEntry, ppPool, ppHeld>> /\ ppJob' = [ppJob EXCEPT ![w] = PpIdle]
  BY DEF rebuildHealthyListIfNeeded
<1>2. PpIdle \in PpJobRec /\ PpIdle.at = "idle"
  BY DEF PpIdle, PpJobRec
<1>3. \A v \in PpWorkers : ppJob'[v] = IF v = w THEN PpIdle ELSE ppJob[v]
  BY <1>1 DEF PpTypeOK
<1>4. PpEntries' = PpEntries /\ PpJobRec' = PpJobRec
  BY <1>1 DEF PpEntries, PpJobRec
<1>5. PpTypeOK' /\ NewestInPool' /\ JobsHold'
  BY <1>1, <1>2, <1>3, <1>4 DEF PpTypeOK, NewestInPool, JobsHold
<1>6. HealthyListCurrent'
  BY RebuiltIsCurrent DEF rebuildHealthyListIfNeeded
<1>7. ConnectionsCounted'
  BY <1>1 DEF ConnectionsCounted
<1> QED
  BY <1>5, <1>6, <1>7

\* A goroutine that becomes idle.
LEMMA BecomesIdle ==
    ASSUME PpInv, NEW w \in PpWorkers, ppJob' = [ppJob EXCEPT ![w] = PpIdle], UNCHANGED ppPool,
           ppEntry' \in Seq(EntryRec), Len(ppEntry') = Len(ppEntry),
           \A e \in PpEntries : ppEntry'[e].url = ppEntry[e].url,
           ppHeld' \in [PpWorkers -> PpEntries \cup {NoEntry}],
           \A v \in PpWorkers : v # w => ppHeld'[v] = ppHeld[v]
    PROVE  PpTypeOK' /\ NewestInPool' /\ JobsHold'
<1> USE PpTypes DEF PpInv
<1>1. PpIdle \in PpJobRec /\ PpIdle.at = "idle"
  BY DEF PpIdle, PpJobRec
<1>2. \A v \in PpWorkers : ppJob'[v] = IF v = w THEN PpIdle ELSE ppJob[v]
  BY DEF PpTypeOK
<1>3. PpEntries' = PpEntries /\ PpJobRec' = PpJobRec
  BY DEF PpEntries, PpJobRec
<1>4. PpTypeOK'
  BY <1>1, <1>2, <1>3 DEF PpTypeOK
<1>5. NewestInPool'
  BY <1>3 DEF NewestInPool
<1>6. ASSUME NEW v \in PpWorkers
      PROVE  /\ ppJob'[v].at = "drop" =>
                  ppHeld'[v] # NoEntry /\ ppEntry'[ppHeld'[v]].url = ppEntry'[ppJob'[v].entry].url
             /\ ppJob'[v].at = "found" /\ ppJob'[v].op = "acquire" => ppHeld'[v] = NoEntry
  <2>1. CASE v = w
    BY <1>1, <1>2, <2>1
  <2>2. CASE v # w
    <3>1. ppJob'[v] = ppJob[v] /\ ppHeld'[v] = ppHeld[v]
      BY <1>2, <2>2
    <3>2. ppJob[v].at = "drop" => ppJob[v].entry \in PpEntries /\ ppHeld[v] \in PpEntries \cup {NoEntry}
      BY DEF PpTypeOK
    <3>3. ppJob[v].at = "drop" =>
             /\ ppHeld[v] # NoEntry /\ ppHeld[v] \in PpEntries
             /\ ppEntry'[ppHeld[v]].url = ppEntry'[ppJob[v].entry].url
      BY <3>2 DEF JobsHold
    <3>4. ppJob[v].at = "found" /\ ppJob[v].op = "acquire" => ppHeld[v] = NoEntry
      BY DEF JobsHold
    <3> QED
      BY <3>1, <3>3, <3>4
  <2> QED
    BY <2>1, <2>2
<1> QED
  BY <1>4, <1>5, <1>6 DEF JobsHold

\* Who holds an entry, when one goroutine takes or drops one.
LEMMA HoldersChange ==
    ASSUME PpTypeOK, NEW w \in PpWorkers, NEW to \in PpEntries \cup {NoEntry},
           ppHeld' = [ppHeld EXCEPT ![w] = to]
    PROVE  \A e \in PpEntries :
              /\ IsFiniteSet(Holders(e)) /\ Cardinality(Holders(e)) \in Nat
              /\ ppHeld[w] # e /\ to # e => Holders(e)' = Holders(e)
              /\ ppHeld[w] # e /\ to = e => Cardinality(Holders(e)') = Cardinality(Holders(e)) + 1
              /\ ppHeld[w] = e /\ to # e => Cardinality(Holders(e)') = Cardinality(Holders(e)) - 1
              /\ ppHeld[w] = e => Cardinality(Holders(e)) > 0
<1> TAKE e \in PpEntries
<1>1. \A v \in PpWorkers : ppHeld'[v] = IF v = w THEN to ELSE ppHeld[v]
  BY DEF PpTypeOK
<1>2. IsFiniteSet(Holders(e)) /\ Cardinality(Holders(e)) \in Nat
  <2>1. IsFiniteSet(PpWorkers) /\ Holders(e) \subseteq PpWorkers
    BY ProxyPoolAssumption DEF Holders
  <2> QED
    BY <2>1, FS_Subset, FS_CardinalityType
<1>3. ppHeld[w] # e /\ to # e => Holders(e)' = Holders(e)
  BY <1>1 DEF Holders
<1>4. ASSUME ppHeld[w] # e, to = e
      PROVE  Cardinality(Holders(e)') = Cardinality(Holders(e)) + 1
  <2>1. w \notin Holders(e) /\ Holders(e)' = Holders(e) \cup {w}
    BY <1>1, <1>4 DEF Holders
  <2> QED
    BY <1>2, <2>1, FS_AddElement
<1>5. ASSUME ppHeld[w] = e
      PROVE  /\ Cardinality(Holders(e)) > 0
             /\ to # e => Cardinality(Holders(e)') = Cardinality(Holders(e)) - 1
  <2>1. w \in Holders(e) /\ (to # e => Holders(e)' = Holders(e) \ {w})
    BY <1>1, <1>5 DEF Holders
  <2>2. Cardinality(Holders(e)) # 0
    BY <1>2, <2>1, FS_EmptySet
  <2>3. Cardinality(Holders(e) \ {w}) = Cardinality(Holders(e)) - 1
    BY <1>2, <2>1, FS_RemoveElement
  <2> QED
    BY <1>2, <2>1, <2>2, <2>3
<1> QED
  BY <1>2, <1>3, <1>4, <1>5

\* The list depends on no counter.
LEMMA ListIgnoresCounters ==
    ASSUME PpInv, NEW w \in PpWorkers, ppJob' = [ppJob EXCEPT ![w] = PpIdle],
           ppJob[w].at # "rebuild", UNCHANGED <<ppPool, ppHealthy>>,
           \A e \in PpEntries : ppEntry'[e].healthy = ppEntry[e].healthy
                                /\ ppEntry'[e].status = ppEntry[e].status
    PROVE  HealthyListCurrent'
<1> USE PpTypes DEF PpInv
<1>1. \A v \in PpWorkers : ppJob'[v] = IF v = w THEN PpIdle ELSE ppJob[v]
  BY DEF PpTypeOK
<1>2. rebuildHealthyList(ppPool', ppEntry') = rebuildHealthyList(ppPool, ppEntry)
  BY DEF rebuildHealthyList
<1>3. (\A v \in PpWorkers : ppJob'[v].at # "rebuild") => \A v \in PpWorkers : ppJob[v].at # "rebuild"
  BY <1>1
<1> QED
  BY <1>2, <1>3 DEF HealthyListCurrent

\* One counter moves, and with it who holds that entry.
LEMMA CounterMoves ==
    ASSUME PpInv, NEW e \in PpEntries, NEW n \in Int, NEW g,
           g = [ppEntry[e] EXCEPT !.conns = n],
           ppEntry' = [ppEntry EXCEPT ![e] = g]
    PROVE  /\ ppEntry' \in Seq(EntryRec) /\ Len(ppEntry') = Len(ppEntry)
           /\ \A d \in PpEntries :
                 /\ ppEntry'[d].url = ppEntry[d].url /\ ppEntry'[d].healthy = ppEntry[d].healthy
                 /\ ppEntry'[d].status = ppEntry[d].status
                 /\ ppEntry'[d].conns = IF d = e THEN n ELSE ppEntry[d].conns
<1> USE PpTypes DEF PpInv
<1>1. /\ g \in EntryRec /\ g.url = ppEntry[e].url /\ g.healthy = ppEntry[e].healthy
      /\ g.status = ppEntry[e].status /\ g.conns = n
  <2>1. ppEntry[e] \in EntryRec
    OBVIOUS
  <2>2. g = [url |-> ppEntry[e].url, healthy |-> ppEntry[e].healthy, status |-> ppEntry[e].status,
             fails |-> ppEntry[e].fails, served |-> ppEntry[e].served, conns |-> n]
    BY <2>1 DEF EntryRec
  <2>3. /\ ppEntry[e].url \in Urls /\ ppEntry[e].healthy \in BOOLEAN
        /\ ppEntry[e].status \in {"healthy", "unhealthy", "isolated"}
        /\ ppEntry[e].fails \in Int /\ ppEntry[e].served \in BOOLEAN
    BY <2>1 DEF EntryRec
  <2> QED
    BY <2>2, <2>3 DEF EntryRec
<1>2. \A d \in PpEntries : ppEntry'[d] = IF d = e THEN g ELSE ppEntry[d]
  OBVIOUS
<1>3. ppEntry' \in Seq(EntryRec) /\ Len(ppEntry') = Len(ppEntry)
  BY <1>1 DEF PpEntries
<1> QED
  BY <1>1, <1>2, <1>3

\* AcquireConnection counts the connection it hands out, and refuses without a trace.
LEMMA AcquireConnectionKeeps ==
    ASSUME PpInv, NEW w \in PpWorkers, AcquireConnection(w)
    PROVE  PpInv'
<1> USE PpTypes DEF PpInv
<1>1. /\ ppJob[w].at = "found" /\ ppHeld[w] = NoEntry
      /\ UNCHANGED <<ppPool, ppHealthy>> /\ ppJob' = [ppJob EXCEPT ![w] = PpIdle]
  BY DEF AcquireConnection, JobsHold
<1>2. PICK e \in PpEntries : e = ppJob[w].entry
  BY <1>1 DEF PpTypeOK
<1>3. CASE ppEntry[e].status = "healthy"
  <2>0. PICK n \in Int : n = ppEntry[e].conns + 1
    BY DEF EntryRec
  <2>1. PICK g : g = [ppEntry[e] EXCEPT !.conns = n]
    OBVIOUS
  <2>2. ppEntry' = [ppEntry EXCEPT ![e] = g] /\ ppHeld' = [ppHeld EXCEPT ![w] = e]
    BY <1>2, <1>3, <2>0, <2>1 DEF AcquireConnection
  <2>3. /\ ppEntry' \in Seq(EntryRec) /\ Len(ppEntry') = Len(ppEntry)
        /\ \A d \in PpEntries :
              /\ ppEntry'[d].url = ppEntry[d].url /\ ppEntry'[d].healthy = ppEntry[d].healthy
              /\ ppEntry'[d].status = ppEntry[d].status
              /\ ppEntry'[d].conns = IF d = e THEN n ELSE ppEntry[d].conns
    BY <2>1, <2>2, CounterMoves
  <2>4. PpTypeOK' /\ NewestInPool' /\ JobsHold'
    <3>1. /\ ppHeld' \in [PpWorkers -> PpEntries \cup {NoEntry}]
          /\ \A v \in PpWorkers : v # w => ppHeld'[v] = ppHeld[v]
      BY <2>2 DEF PpTypeOK
    <3> QED
      BY <1>1, <2>3, <3>1, BecomesIdle
  <2>5. HealthyListCurrent'
    BY <1>1, <2>3, ListIgnoresCounters
  <2>6. ConnectionsCounted'
    <3> SUFFICES ASSUME NEW d \in ppPool, Original(d)'
                 PROVE  ppEntry'[d].conns = Cardinality(Holders(d)')
      BY <1>1 DEF ConnectionsCounted, Original, Holders
    <3>1. Original(d)
      BY <2>3 DEF Original, PpEntries
    <3>2. ppEntry[d].conns = Cardinality(Holders(d))
      BY <3>1 DEF ConnectionsCounted, Original, Holders
    <3>3. IF d = e THEN Cardinality(Holders(d)') = Cardinality(Holders(d)) + 1
          ELSE Holders(d)' = Holders(d)
      BY <1>1, <2>2, HoldersChange
    <3> QED
      BY <2>0, <2>3, <3>2, <3>3
  <2> QED
    BY <2>4, <2>5, <2>6
<1>4. CASE ppEntry[e].status # "healthy"
  <2>1. UNCHANGED <<ppEntry, ppHeld>>
    BY <1>2, <1>4 DEF AcquireConnection
  <2>2. PpIdle \in PpJobRec /\ PpIdle.at = "idle"
    BY DEF PpIdle, PpJobRec
  <2> QED
    BY <1>1, <2>1, <2>2, GoroutineMoves
<1> QED
  BY <1>3, <1>4

\* ReleaseConnection, its first half: it will decrement the counter of an entry of the same
\* URL, or drops its connection when no entry counts one.
LEMMA FindToReleaseKeeps ==
    ASSUME PpInv, NEW w \in PpWorkers, FindToRelease(w)
    PROVE  PpInv'
<1> USE PpTypes DEF PpInv
<1>1. PICK h \in PpEntries : h = ppHeld[w]
  BY DEF FindToRelease
<1>2. ppJob[w].at = "idle" /\ UNCHANGED <<ppEntry, ppPool, ppHealthy>>
  BY DEF FindToRelease
<1>3. CASE \E e \in findEntry(ppEntry[h].url) : ppEntry[e].conns > 0
  <2>1. PICK e \in findEntry(ppEntry[h].url) :
           /\ ppJob' = [ppJob EXCEPT ![w] = [at |-> "drop", op |-> "release", entry |-> e]]
           /\ UNCHANGED ppHeld
    BY <1>1, <1>3 DEF FindToRelease
  <2>2. e \in PpEntries /\ ppEntry[e].url = ppEntry[h].url
    BY DEF findEntry
  <2>3. PICK job : /\ job = [at |-> "drop", op |-> "release", entry |-> e]
                   /\ ppJob' = [ppJob EXCEPT ![w] = job]
    BY <2>1
  <2>4. job \in PpJobRec /\ job.at = "drop" /\ job.entry = e
    BY <2>2, <2>3 DEF PpJobRec
  <2> QED
    BY <1>1, <1>2, <2>1, <2>2, <2>3, <2>4, GoroutineMoves
<1>4. CASE ~\E e \in findEntry(ppEntry[h].url) : ppEntry[e].conns > 0
  <2>1. ppHeld' = [ppHeld EXCEPT ![w] = NoEntry] /\ UNCHANGED ppJob
    BY <1>1, <1>4 DEF FindToRelease
  <2>2. PpEntries' = PpEntries /\ PpJobRec' = PpJobRec
    BY <1>2 DEF PpEntries, PpJobRec
  <2>3. PpTypeOK' /\ NewestInPool' /\ HealthyListCurrent'
    BY <1>2, <2>1, <2>2 DEF PpTypeOK, NewestInPool, HealthyListCurrent
  <2>4. JobsHold'
    BY <1>2, <2>1 DEF JobsHold, PpTypeOK
  <2>5. ConnectionsCounted'
    <3> SUFFICES ASSUME NEW d \in ppPool, Original(d)
                 PROVE  ppEntry[d].conns = Cardinality(Holders(d)')
      BY <1>2 DEF ConnectionsCounted, Original, Holders
    <3>1. ppEntry[d].conns = Cardinality(Holders(d))
      BY DEF ConnectionsCounted, Original, Holders
    <3>2. d # h
      <4> SUFFICES ASSUME d = h PROVE FALSE
        OBVIOUS
      <4>1. Cardinality(Holders(d)) > 0
        BY <1>1, <2>1, HoldersChange
      <4>2. d \in findEntry(ppEntry[h].url)
        BY DEF findEntry
      <4> QED
        BY <1>4, <3>1, <4>1, <4>2
    <3>3. Holders(d)' = Holders(d)
      BY <1>1, <2>1, <3>2, HoldersChange
    <3> QED
      BY <3>1, <3>3
  <2> QED
    BY <2>3, <2>4, <2>5
<1> QED
  BY <1>3, <1>4

\* ReleaseConnection, its second half: what it decrements is what it held, if that was the
\* original entry of its URL.
LEMMA ReleaseConnectionKeeps ==
    ASSUME PpInv, NEW w \in PpWorkers, ReleaseConnection(w)
    PROVE  PpInv'
<1> USE PpTypes DEF PpInv
<1>1. /\ ppJob[w].at = "drop" /\ UNCHANGED <<ppPool, ppHealthy>>
      /\ ppJob' = [ppJob EXCEPT ![w] = PpIdle] /\ ppHeld' = [ppHeld EXCEPT ![w] = NoEntry]
  BY DEF ReleaseConnection
<1>2. PICK e \in PpEntries, h \in PpEntries :
         e = ppJob[w].entry /\ h = ppHeld[w] /\ ppEntry[h].url = ppEntry[e].url
  BY <1>1 DEF PpTypeOK, JobsHold
<1>0. PICK n \in Int : n = ppEntry[e].conns - 1
  BY DEF EntryRec
<1>3. PICK g : g = [ppEntry[e] EXCEPT !.conns = n]
  OBVIOUS
<1>4. ppEntry' = [ppEntry EXCEPT ![e] = g]
  BY <1>0, <1>2, <1>3 DEF ReleaseConnection
<1>5. /\ ppEntry' \in Seq(EntryRec) /\ Len(ppEntry') = Len(ppEntry)
      /\ \A d \in PpEntries :
            /\ ppEntry'[d].url = ppEntry[d].url /\ ppEntry'[d].healthy = ppEntry[d].healthy
            /\ ppEntry'[d].status = ppEntry[d].status
            /\ ppEntry'[d].conns = IF d = e THEN n ELSE ppEntry[d].conns
  BY <1>3, <1>4, CounterMoves
<1>6. PpTypeOK' /\ NewestInPool' /\ JobsHold'
  <2>1. /\ ppHeld' \in [PpWorkers -> PpEntries \cup {NoEntry}]
        /\ \A v \in PpWorkers : v # w => ppHeld'[v] = ppHeld[v]
    BY <1>1 DEF PpTypeOK
  <2> QED
    BY <1>1, <1>5, <2>1, BecomesIdle
<1>7. HealthyListCurrent'
  BY <1>1, <1>5, ListIgnoresCounters
<1>8. ConnectionsCounted'
  <2> SUFFICES ASSUME NEW d \in ppPool, Original(d)'
               PROVE  ppEntry'[d].conns = Cardinality(Holders(d)')
    BY <1>1 DEF ConnectionsCounted, Original, Holders
  <2>1. Original(d)
    BY <1>5 DEF Original, PpEntries
  <2>2. ppEntry[d].conns = Cardinality(Holders(d)) /\ ppEntry[d].conns \in Int
    BY <2>1 DEF ConnectionsCounted, Original, Holders, EntryRec
  <2>3. d = e <=> d = h
    BY <1>2, <2>1, OriginalIsOnly
  <2>4. CASE d = h
    <3>1. Cardinality(Holders(d)') = Cardinality(Holders(d)) - 1
      BY <1>1, <1>2, <2>4, HoldersChange
    <3> QED
      BY <1>0, <1>5, <2>2, <2>3, <2>4, <3>1
  <2>5. CASE d # h
    <3>1. Holders(d)' = Holders(d)
      BY <1>1, <1>2, <2>5, HoldersChange
    <3> QED
      BY <1>5, <2>2, <2>3, <2>5, <3>1
  <2> QED
    BY <2>4, <2>5
<1> QED
  BY <1>6, <1>7, <1>8

\* The pool starts empty.
LEMMA PpInvInitially == ProxyPoolInit => PpInv
<1> SUFFICES ASSUME ProxyPoolInit PROVE PpInv
  OBVIOUS
<1>1. /\ ppEntry = <<>> /\ ppPool = {} /\ ppHealthy = {} /\ ppJob = [w \in PpWorkers |-> PpIdle]
      /\ ppHeld = [w \in PpWorkers |-> NoEntry]
  BY DEF ProxyPoolInit
<1>2. PpIdle \in PpJobRec /\ PpIdle.at = "idle"
  BY DEF PpIdle, PpJobRec
<1>3. PpTypeOK
  BY <1>1, <1>2, ProxyPoolAssumption DEF PpTypeOK
<1> QED
  BY <1>1, <1>2, <1>3
     DEF PpInv, NewestInPool, JobsHold, HealthyListCurrent, rebuildHealthyList, ConnectionsCounted

\* Every step of every goroutine, of the page and of time.
LEMMA PpInvKept == PpInv /\ [ProxyPoolNext]_ppVars => PpInv'
<1> SUFFICES ASSUME PpInv, [ProxyPoolNext]_ppVars PROVE PpInv'
  OBVIOUS
<1>1. ASSUME UNCHANGED <<ppEntry, ppPool, ppHealthy, ppJob, ppHeld>> PROVE PpInv'
  BY <1>1 DEF PpInv, PpTypeOK, NewestInPool, JobsHold, HealthyListCurrent, ConnectionsCounted,
              PpEntries, PpJobRec
<1>2. CASE UNCHANGED ppVars
  BY <1>1, <1>2 DEF ppVars
<1>3. ASSUME NEW url \in Urls, AddProxy(url) \/ RemoveProxy(url) PROVE PpInv'
  <2>1. CASE AddProxy(url)
    BY <2>1, AddProxyKeeps
  <2>2. CASE RemoveProxy(url)
    <3>1. HealthyListCurrent'
      BY <2>2, RebuiltIsCurrent DEF RemoveProxy
    <3> QED
      BY <2>2, <3>1, PoolShrinksKeeps DEF RemoveProxy
  <2> QED
    BY <1>3, <2>1, <2>2
<1>4. ASSUME NEW e \in DOMAIN ppEntry, IsolationPasses(e) PROVE PpInv'
  BY <1>4, IsolationPassesKeeps, PpTypes DEF PpInv
<1>5. CASE HealthCheck
  BY <1>1, <1>5 DEF HealthCheck
<1>6. ASSUME NEW w \in PpWorkers, Goroutine(w) PROVE PpInv'
  <2>1. ASSUME NEW url \in Urls, NEW op \in {"success", "failure"}, Mark(w, op, url) PROVE PpInv'
    BY <2>1, FindsKeeps DEF Mark
  <2>2. ASSUME NEW url \in Urls, NEW op \in {"passed", "unreachable"},
               processHealthCheckResult(w, op, url)
        PROVE  PpInv'
    BY <1>1, <2>2, FindsKeeps DEF processHealthCheckResult
  <2>3. ASSUME NEW url \in Urls, FindToAcquire(w, url) PROVE PpInv'
    BY <2>3, FindsKeeps DEF FindToAcquire
  <2> QED
    BY <1>6, <2>1, <2>2, <2>3, UpdateKeeps, RebuildKeeps, AcquireConnectionKeeps,
       FindToReleaseKeeps, ReleaseConnectionKeeps DEF Goroutine
<1> QED
  BY <1>2, <1>3, <1>4, <1>5, <1>6, RecoverIsolatedProxiesKeeps DEF ProxyPoolNext

\* Marks, checks, additions, removals and connections of any goroutines at once: the list that
\* Select reads is current between changes, and a proxy that has been in the pool from the
\* start counts exactly its connections (rebuildHealthyList, AcquireConnection,
\* ReleaseConnection).
THEOREM ProxiesSoundHolds == ProxyPoolSpec => []ProxiesSound
<1>1. PpInv => ProxiesSound
  BY DEF PpInv, ProxiesSound
<1> QED
  BY <1>1, PpInvInitially, PpInvKept, PTL DEF ProxyPoolSpec

=============================================================================
