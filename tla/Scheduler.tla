----------------------------- MODULE Scheduler -----------------------------
(***************************************************************************)
(* pkg/sched/sched.go: a list of tasks, a goroutine that on every tick     *)
(* moves the due ones to a queue (scheduleTasks), and worker goroutines    *)
(* that take tasks from the queue and run them (runTasks).                 *)
(*                                                                         *)
(* s.Lock guards the list, enqueuedTasksLock the queue, and each task's    *)
(* lock its enqueued flag; a step of the model is what happens under one   *)
(* of these locks.  The list is only ever appended to and IDs grow, so it  *)
(* is the set of its task IDs, visited in increasing order.  Time is kept  *)
(* as whether each task's runAt has passed.                                *)
(***************************************************************************)
EXTENDS Integers, Sequences, FiniteSets

CONSTANTS Workers,     \* the goroutines in runTasks (numGoRoutines of them)
          MaxTasks,    \* bound on the calls of Schedule
          MaxStarts,   \* bound on the calls of Start
          None         \* no task

ASSUME SchedulerAssumption ==
  /\ MaxTasks \in Nat
  /\ MaxStarts \in Nat
  /\ None \notin 1 .. MaxTasks

Tasks == 1 .. MaxTasks
Tickers == 0 .. MaxStarts

VARIABLES
  tasks, currTaskID,                 \* manager.tasks and manager.currTaskID
  onlyOnce, valid, enqueued, due,    \* of each taskInfo; due: runAt has passed
  enqueuedTasks,                     \* manager.enqueuedTasks
  ticker,                            \* manager.ticker
  live, ticked,   \* tickers not stopped; tickers with a tick in their channel
  pcS, selected, cursor, tasksReady, \* scheduleTasks: the ticker it waits for,
                                     \* the task it visited last, its ready list
  pcW, current,                      \* runTasks: each worker and its task
  stop,           \* Stop: "no" call, "clearing" before its second half, "done"
  runs            \* history: how often a one-time task was started, at most 2

taskVars == <<tasks, currTaskID, onlyOnce, valid>>
tickVars == <<ticker, live, ticked>>
scanVars == <<pcS, selected, cursor, tasksReady>>
workVars == <<pcW, current, runs>>
vars == <<taskVars, enqueued, due, enqueuedTasks, tickVars, scanVars, workVars, stop>>

TypeOK ==
  /\ tasks \subseteq Tasks
  /\ currTaskID \in 0 .. MaxTasks
  /\ onlyOnce \in [Tasks -> BOOLEAN] /\ valid \in [Tasks -> BOOLEAN]
  /\ enqueued \in [Tasks -> BOOLEAN] /\ due \in [Tasks -> BOOLEAN]
  /\ enqueuedTasks \in Seq(Tasks) /\ tasksReady \in Seq(Tasks)
  /\ ticker \in Tickers /\ live \subseteq Tickers /\ ticked \subseteq Tickers
  /\ pcS \in {"select", "scan", "push"} /\ selected \in Tickers
  /\ cursor \in 0 .. MaxTasks
  /\ pcW \in [Workers -> {"top", "waiting", "woken", "picked", "running"}]
  /\ current \in [Workers -> Tasks \cup {None}]
  /\ stop \in {"no", "clearing", "done"}
  /\ runs \in [Tasks -> 0 .. 2]

\* New: no task yet, the workers at the top of their loops, scheduleTasks
\* waiting for the ticker that Start made (the one New made is dropped).
Init ==
  /\ tasks = {} /\ currTaskID = 0
  /\ onlyOnce = [t \in Tasks |-> FALSE] /\ valid = [t \in Tasks |-> FALSE]
  /\ enqueued = [t \in Tasks |-> FALSE] /\ due = [t \in Tasks |-> FALSE]
  /\ enqueuedTasks = <<>> /\ tasksReady = <<>>
  /\ ticker = 0 /\ live = {0} /\ ticked = {}
  /\ pcS = "select" /\ selected = 0 /\ cursor = 0
  /\ pcW = [w \in Workers |-> "top"]
  /\ current = [w \in Workers |-> None]
  /\ stop = "no"
  /\ runs = [t \in Tasks |-> 0]

\* scheduleTasks holds s.Lock while it visits the list.
LockFree == pcS # "scan"

-----------------------------------------------------------------------------
(* The interface                                                           *)

NextTaskID == currTaskID + 1

\* A task is scheduled; its first runAt may pass at once (ComeDue).  Calls that
\* are refused (no task function, an interval under a second) change nothing.
Schedule(once) ==
  /\ LockFree
  /\ currTaskID < MaxTasks
  /\ LET t == NextTaskID IN
     /\ currTaskID' = t
     /\ tasks' = tasks \cup {t}
     /\ onlyOnce' = [onlyOnce EXCEPT ![t] = once]
     /\ valid' = [valid EXCEPT ![t] = TRUE]
     /\ enqueued' = [enqueued EXCEPT ![t] = FALSE]
     /\ due' = [due EXCEPT ![t] = FALSE]
  /\ UNCHANGED <<enqueuedTasks, tickVars, scanVars, workVars, stop>>

\* A task that is no longer in the list cannot be cancelled: an error, and
\* nothing changes.
Cancel(t) ==
  /\ LockFree
  /\ t \in tasks
  /\ valid' = [valid EXCEPT ![t] = FALSE]
  /\ tasks' = tasks \ {t}
  /\ due' = [due EXCEPT ![t] = FALSE]   \* runAt of such a task is not read any more
  /\ UNCHANGED <<currTaskID, onlyOnce, enqueued, enqueuedTasks, tickVars,
                 scanVars, workVars, stop>>

\* Stop, first half: the ticker.  A tick already in its channel stays there.
StopTicker ==
  /\ LockFree
  /\ stop # "clearing"
  /\ live' = live \ {ticker}
  /\ stop' = "clearing"
  /\ UNCHANGED <<taskVars, enqueued, due, enqueuedTasks, ticker, ticked, scanVars,
                 workVars>>

\* Stop, second half: the queue.
StopClear ==
  /\ stop = "clearing"
  /\ enqueuedTasks' = <<>>
  /\ stop' = "done"
  /\ UNCHANGED <<taskVars, enqueued, due, tickVars, scanVars, workVars>>

\* started is never set, so Start always makes a new ticker.
Start ==
  /\ LockFree
  /\ stop # "clearing"
  /\ ticker < MaxStarts
  /\ ticker' = ticker + 1
  /\ live' = live \cup {ticker + 1}
  /\ stop' = "no"
  /\ UNCHANGED <<taskVars, enqueued, due, enqueuedTasks, ticked, scanVars, workVars>>

-----------------------------------------------------------------------------
(* Time                                                                    *)

\* A ticker that was replaced and is not waited for ticks for nobody.
Tick(k) ==
  /\ k \in live \cap {ticker, selected}
  /\ ticked' = ticked \cup {k}
  /\ UNCHANGED <<taskVars, enqueued, due, enqueuedTasks, ticker, live, scanVars,
                 workVars, stop>>

ComeDue(t) ==
  /\ t \in tasks
  /\ due' = [due EXCEPT ![t] = TRUE]
  /\ UNCHANGED <<taskVars, enqueued, enqueuedTasks, tickVars, scanVars, workVars, stop>>

-----------------------------------------------------------------------------
(* scheduleTasks                                                           *)

BeginScan ==
  /\ pcS = "select"
  /\ selected \in ticked
  /\ ticked' = ticked \ {selected}
  /\ pcS' = "scan"
  /\ cursor' = 0
  /\ tasksReady' = <<>>
  /\ UNCHANGED <<taskVars, enqueued, due, enqueuedTasks, ticker, live, selected,
                 workVars, stop>>

Unvisited == {t \in tasks : t > cursor}

IsNext(t) == t \in Unvisited /\ \A u \in Unvisited : t <= u

\* Mutant: a task is ready although it is still queued or running.
IsDue(t) == due[t]

IsReady(t) == ~enqueued[t] /\ due[t]

\* Mutant: a one-time task stays in the list.
ListKept(t) == tasks

ListAfter(t) == IF onlyOnce[t] THEN tasks \ {t} ELSE tasks

\* Removing a one-time task from the list ends the visit: e.Next() of a
\* removed element is nil.
ScanTask(t) ==
  /\ pcS = "scan"
  /\ IsNext(t)
  /\ cursor' = t
  /\ \/ /\ IsReady(t)
        /\ tasksReady' = Append(tasksReady, t)
        /\ enqueued' = [enqueued EXCEPT ![t] = TRUE]
        /\ tasks' = ListAfter(t)
        /\ pcS' = IF onlyOnce[t] THEN "push" ELSE "scan"
     \/ /\ ~IsReady(t)
        /\ UNCHANGED <<tasksReady, enqueued, tasks, pcS>>
  /\ UNCHANGED <<currTaskID, onlyOnce, valid, due, enqueuedTasks, tickVars, selected,
                 workVars, stop>>

EndScan ==
  /\ pcS = "scan"
  /\ Unvisited = {}
  /\ pcS' = "push"
  /\ UNCHANGED <<taskVars, enqueued, due, enqueuedTasks, tickVars, selected, cursor,
                 tasksReady, workVars, stop>>

\* Mutant: the ready tasks replace the queued ones.
QueueReplaced == tasksReady

QueueExtended == enqueuedTasks \o tasksReady

\* Mutant: the waiting workers are not woken.
NoBroadcast == pcW

Broadcast == [w \in Workers |-> IF pcW[w] = "waiting" THEN "woken" ELSE pcW[w]]

\* Queue the ready tasks, wake every waiting worker, and wait for a tick of
\* the ticker there is now.
PushReady ==
  /\ pcS = "push"
  /\ enqueuedTasks' = QueueExtended
  /\ pcW' = Broadcast
  /\ pcS' = "select"
  /\ tasksReady' = <<>>
  /\ selected' = ticker
  /\ cursor' = 0
  /\ UNCHANGED <<taskVars, enqueued, due, tickVars, current, runs, stop>>

-----------------------------------------------------------------------------
(* runTasks                                                                *)

Wait(w) ==
  /\ pcW[w] = "top"
  /\ enqueuedTasks = <<>>
  /\ pcW' = [pcW EXCEPT ![w] = "waiting"]
  /\ UNCHANGED <<taskVars, enqueued, due, enqueuedTasks, tickVars, scanVars, current,
                 runs, stop>>

TakeTask(w) ==
  /\ pcW[w] \in {"top", "woken"}
  /\ enqueuedTasks # <<>>
  /\ current' = [current EXCEPT ![w] = Head(enqueuedTasks)]
  /\ enqueuedTasks' = Tail(enqueuedTasks)
  /\ pcW' = [pcW EXCEPT ![w] = "picked"]
  /\ UNCHANGED <<taskVars, enqueued, due, tickVars, scanVars, runs, stop>>

\* Another worker emptied the queue first: t stays nil.
WokenForNothing(w) ==
  /\ pcW[w] = "woken"
  /\ enqueuedTasks = <<>>
  /\ pcW' = [pcW EXCEPT ![w] = "top"]
  /\ UNCHANGED <<taskVars, enqueued, due, enqueuedTasks, tickVars, scanVars, current,
                 runs, stop>>

StartTask(w) ==
  /\ pcW[w] = "picked"
  /\ valid[current[w]]
  /\ pcW' = [pcW EXCEPT ![w] = "running"]
  /\ runs' = [runs EXCEPT ![current[w]] =
                 IF onlyOnce[current[w]] /\ @ < 2 THEN @ + 1 ELSE @]
  /\ UNCHANGED <<taskVars, enqueued, due, enqueuedTasks, tickVars, scanVars, current,
                 stop>>

SkipCancelled(w) ==
  /\ pcW[w] = "picked"
  /\ ~valid[current[w]]
  /\ pcW' = [pcW EXCEPT ![w] = "top"]
  /\ current' = [current EXCEPT ![w] = None]
  /\ UNCHANGED <<taskVars, enqueued, due, enqueuedTasks, tickVars, scanVars, runs, stop>>

\* The task returned: its next runAt is in the future.
FinishTask(w) ==
  /\ pcW[w] = "running"
  /\ enqueued' = [enqueued EXCEPT ![current[w]] = FALSE]
  /\ due' = [due EXCEPT ![current[w]] = FALSE]
  /\ pcW' = [pcW EXCEPT ![w] = "top"]
  /\ current' = [current EXCEPT ![w] = None]
  /\ UNCHANGED <<taskVars, enqueuedTasks, tickVars, scanVars, runs, stop>>

-----------------------------------------------------------------------------
Calls == (\E once \in BOOLEAN : Schedule(once)) \/ (\E t \in Tasks : Cancel(t))
Stop == StopTicker \/ StopClear
Time == (\E k \in Tickers : Tick(k)) \/ (\E t \in Tasks : ComeDue(t))
scheduleTasks == BeginScan \/ (\E t \in Tasks : ScanTask(t)) \/ EndScan \/ PushReady
runTasks(w) ==
  \/ Wait(w) \/ TakeTask(w) \/ WokenForNothing(w)
  \/ StartTask(w) \/ SkipCancelled(w) \/ FinishTask(w)

Next ==
  \/ Calls \/ Time \/ scheduleTasks \/ Stop \/ Start
  \/ \E w \in Workers : runTasks(w)

Spec == Init /\ [][Next]_vars

\* The ticker of a scheduler that nobody stops ticks, tasks return, and the
\* goroutines are scheduled by the Go runtime.
Fairness ==
  /\ \A k \in Tickers : WF_vars(Tick(k))
  /\ WF_vars(scheduleTasks)
  /\ \A w \in Workers : WF_vars(runTasks(w))
  /\ WF_vars(StopClear)

FairSpec == Spec /\ Fairness

-----------------------------------------------------------------------------
(* Properties                                                              *)

Has(w, t) == pcW[w] \in {"picked", "running"} /\ current[w] = t

Queued(s, t) == \E i \in 1 .. Len(s) : s[i] = t

\* A task never runs twice at the same time: enqueued stays set from the scan
\* that found the task due until the worker that ran it is done, whatever
\* calls of Cancel, Stop and Start come between.
NoConcurrentRun ==
  \A v, w \in Workers :
    pcW[v] = "running" /\ pcW[w] = "running" /\ current[v] = current[w] => v = w

\* A task scheduled with onlyOnce is started at most once.
OneTimeRunsOnce == \A t \in Tasks : onlyOnce[t] => runs[t] <= 1

\* Neither Stop nor Start has been called since New.
NeverStopped == ticker = 0 /\ stop = "no"

\* The comment on taskInfo.enqueued, "true if task is scheduled to run": as
\* long as nobody calls Stop such a task is on its way to the queue, in it, or
\* with a worker.  Otherwise it would never be found ready again; Stop, which
\* empties the queue without clearing the flags, does that to tasks.
EnqueuedIsOnItsWay ==
  NeverStopped =>
    \A t \in Tasks : enqueued[t] /\ valid[t] =>
      \/ Queued(tasksReady, t)
      \/ Queued(enqueuedTasks, t)
      \/ \E w \in Workers : Has(w, t)

\* A task that is due runs, or is cancelled first, also when one-time tasks
\* cut visits of the list short; unless the scheduler is stopped.
DueTaskRuns ==
  \A t \in Tasks : t \in tasks /\ due[t] ~>
    \/ \E w \in Workers : pcW[w] = "running" /\ current[w] = t
    \/ ~valid[t] \/ ~NeverStopped
=============================================================================
