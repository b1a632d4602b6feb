-------------------------- MODULE SchedulerProofs --------------------------
(***************************************************************************)
(* Proofs about Scheduler for any number of workers, tasks and restarts.   *)
(***************************************************************************)
EXTENDS Scheduler, TLAPS

\* No task is in a sequence twice.
Distinct(s) == \A i, j \in 1 .. Len(s) : s[i] = s[j] => i = j

\* The task is on its way to the queue, in it, or with a worker.
OnItsWay(t) ==
  \/ Queued(tasksReady, t)
  \/ Queued(enqueuedTasks, t)
  \/ \E w \in Workers : Has(w, t)

\* A task is in at most one of those places, and there only once.
OnePlace ==
  /\ Distinct(tasksReady) /\ Distinct(enqueuedTasks)
  /\ \A t \in Tasks :
       /\ Queued(tasksReady, t) => ~Queued(enqueuedTasks, t)
       /\ \A w \in Workers : Has(w, t) =>
            /\ ~Queued(tasksReady, t) /\ ~Queued(enqueuedTasks, t)
            /\ \A v \in Workers : Has(v, t) => v = w

\* Such a task has its enqueued flag set, so no scan takes it again.
FlagSet == \A t \in Tasks : OnItsWay(t) => enqueued[t]

\* IDs above currTaskID are unused.
Fresh ==
  /\ \A t \in tasks : t <= currTaskID
  /\ \A t \in Tasks : t > currTaskID => ~OnItsWay(t) /\ runs[t] = 0

\* A one-time task has left the list before it is queued, and has not been
\* started while a worker can still start it.
OneTime ==
  \A t \in Tasks : onlyOnce[t] =>
    /\ OnItsWay(t) \/ runs[t] # 0 => t \notin tasks
    /\ Queued(tasksReady, t) \/ Queued(enqueuedTasks, t) => runs[t] = 0
    /\ \A w \in Workers : pcW[w] = "picked" /\ current[w] = t => runs[t] = 0
    /\ runs[t] <= 1

\* A worker that has a task has one of the scheduled ones.
HasTask == \A w \in Workers : pcW[w] \in {"picked", "running"} => current[w] \in Tasks

\* The inductive invariant.
SchedInv == TypeOK /\ HasTask /\ OnePlace /\ FlagSet /\ Fresh /\ OneTime

USE SchedulerAssumption DEF Tasks

-----------------------------------------------------------------------------
(* Sequences                                                               *)

\* What a sequence holds after one more element is appended.
LEMMA QueuedAppend ==
  ASSUME NEW S, NEW s \in Seq(S), NEW e \in S
  PROVE  /\ \A t : Queued(Append(s, e), t) <=> Queued(s, t) \/ t = e
         /\ Distinct(s) /\ ~Queued(s, e) => Distinct(Append(s, e))
<1>1. /\ Len(Append(s, e)) = Len(s) + 1 /\ Len(s) \in Nat
      /\ \A i \in 1 .. Len(s) : Append(s, e)[i] = s[i]
      /\ Append(s, e)[Len(s) + 1] = e
  OBVIOUS
<1>2. \A t : Queued(Append(s, e), t) <=> Queued(s, t) \/ t = e
  BY <1>1 DEF Queued
<1>3. Distinct(s) /\ ~Queued(s, e) => Distinct(Append(s, e))
  BY <1>1, SMTT(60) DEF Queued, Distinct
<1>. QED  BY <1>2, <1>3

\* What the concatenation of two sequences holds.
LEMMA QueuedConcat ==
  ASSUME NEW S, NEW s \in Seq(S), NEW r \in Seq(S)
  PROVE  /\ \A t : Queued(s \o r, t) <=> Queued(s, t) \/ Queued(r, t)
         /\ Distinct(s) /\ Distinct(r) /\ (\A t \in S : ~(Queued(s, t) /\ Queued(r, t)))
              => Distinct(s \o r)
<1>1. /\ Len(s \o r) = Len(s) + Len(r) /\ Len(s) \in Nat /\ Len(r) \in Nat
      /\ \A i \in 1 .. Len(s) : (s \o r)[i] = s[i]
      /\ \A i \in 1 .. Len(r) : (s \o r)[Len(s) + i] = r[i]
  OBVIOUS
<1>2. \A i \in 1 .. Len(s \o r) : i \in 1 .. Len(s)
                                  \/ \E j \in 1 .. Len(r) : i = Len(s) + j
  <2>. SUFFICES ASSUME NEW i \in 1 .. Len(s \o r), i \notin 1 .. Len(s)
                PROVE  i - Len(s) \in 1 .. Len(r) /\ i = Len(s) + (i - Len(s))
    BY SMTT(60)
  <2>. QED  BY <1>1
<1>3. \A t : Queued(s \o r, t) <=> Queued(s, t) \/ Queued(r, t)
  <2>. TAKE t
  <2>1. ASSUME Queued(s \o r, t) PROVE Queued(s, t) \/ Queued(r, t)
    <3>1. PICK i \in 1 .. Len(s \o r) : (s \o r)[i] = t
      BY <2>1 DEF Queued
    <3>. QED  BY <1>1, <1>2, <3>1, SMTT(60) DEF Queued
  <2>2. ASSUME Queued(s, t) PROVE Queued(s \o r, t)
    BY <1>1, <2>2 DEF Queued
  <2>3. ASSUME Queued(r, t) PROVE Queued(s \o r, t)
    <3>1. PICK j \in 1 .. Len(r) : r[j] = t
      BY <2>3 DEF Queued
    <3>2. Len(s) + j \in 1 .. Len(s \o r) /\ (s \o r)[Len(s) + j] = t
      BY <1>1, <3>1
    <3>. QED  BY <3>2 DEF Queued
  <2>. QED  BY <2>1, <2>2, <2>3
<1>4. ASSUME Distinct(s), Distinct(r), \A t \in S : ~(Queued(s, t) /\ Queued(r, t))
      PROVE  Distinct(s \o r)
  <2>. SUFFICES ASSUME NEW i \in 1 .. Len(s \o r), NEW j \in 1 .. Len(s \o r),
                       (s \o r)[i] = (s \o r)[j], i < j
                PROVE  FALSE
    BY <1>1, SMTT(60) DEF Distinct
  <2>1. CASE j \in 1 .. Len(s)
    BY <1>1, <1>4, <2>1 DEF Distinct
  <2>2. CASE i \in 1 .. Len(s) /\ j \notin 1 .. Len(s)
    <3>1. PICK n \in 1 .. Len(r) : j = Len(s) + n
      BY <1>2, <2>2, SMTT(60)
    <3>2. s[i] = r[n] /\ s[i] \in S
      BY <1>1, <2>2, <3>1
    <3>. QED  BY <1>4, <2>2, <3>2, SMTT(60) DEF Queued
  <2>3. CASE i \notin 1 .. Len(s)
    <3>1. PICK m \in 1 .. Len(r) : i = Len(s) + m
      BY <1>2, <2>3
    <3>0. j \notin 1 .. Len(s)
      BY <1>1, <2>3
    <3>2. PICK n \in 1 .. Len(r) : j = Len(s) + n
      BY <1>2, <3>0
    <3>3. r[m] = r[n] /\ m # n
      BY <1>1, <3>1, <3>2, SMTT(60)
    <3>. QED  BY <1>4, <3>3, SMTT(60) DEF Distinct
  <2>. QED  BY <2>1, <2>2, <2>3
<1>. QED  BY <1>3, <1>4

\* What is left of a sequence without its first element.
LEMMA QueuedTail ==
  ASSUME NEW S, NEW s \in Seq(S), s # <<>>
  PROVE  /\ Head(s) \in S /\ Tail(s) \in Seq(S) /\ Queued(s, Head(s))
         /\ \A t : Queued(Tail(s), t) => Queued(s, t)
         /\ \A t : Queued(s, t) => Queued(Tail(s), t) \/ t = Head(s)
         /\ Distinct(s) => Distinct(Tail(s)) /\ ~Queued(Tail(s), Head(s))
<1>1. /\ Len(s) \in Nat \ {0} /\ Len(Tail(s)) = Len(s) - 1 /\ Head(s) = s[1]
      /\ \A i \in 1 .. Len(Tail(s)) : Tail(s)[i] = s[i + 1] /\ i + 1 \in 1 .. Len(s)
      /\ Head(s) \in S /\ Tail(s) \in Seq(S)
  OBVIOUS
<1>2. Queued(s, Head(s)) /\ \A t : Queued(Tail(s), t) => Queued(s, t)
  BY <1>1 DEF Queued
<1>3. \A t : Queued(s, t) => Queued(Tail(s), t) \/ t = Head(s)
  <2>. SUFFICES ASSUME NEW i \in 1 .. Len(s), i # 1
                PROVE  Queued(Tail(s), s[i])
    BY <1>1 DEF Queued
  <2>1. i - 1 \in 1 .. Len(Tail(s)) /\ Tail(s)[i - 1] = s[i]
    BY <1>1
  <2>. QED  BY <2>1 DEF Queued
<1>4. Distinct(s) => Distinct(Tail(s)) /\ ~Queued(Tail(s), Head(s))
  BY <1>1 DEF Queued, Distinct
<1>. QED  BY <1>1, <1>2, <1>3, <1>4

-----------------------------------------------------------------------------
(* Initial states                                                          *)

\* A new scheduler has no tasks anywhere.
LEMMA InitSchedInv == Init => SchedInv
<1>. SUFFICES ASSUME Init PROVE SchedInv
  OBVIOUS
<1>1. /\ Len(tasksReady) = 0 /\ Len(enqueuedTasks) = 0
      /\ tasksReady \in Seq(Tasks) /\ enqueuedTasks \in Seq(Tasks)
  BY DEF Init
<1>2. TypeOK
  BY <1>1 DEF Init, TypeOK, Tickers
<1>3. HasTask /\ \A t : ~OnItsWay(t)
  BY <1>1 DEF Init, HasTask, OnItsWay, Queued, Has
<1>4. OnePlace
  BY <1>1 DEF Init, OnePlace, Distinct, Queued, Has
<1>. QED  BY <1>2, <1>3, <1>4, Zenon DEF Init, SchedInv, FlagSet, Fresh, OneTime, OnItsWay

-----------------------------------------------------------------------------
(* Steps                                                                   *)

\* Calls of Schedule use an ID that no place has.
LEMMA ScheduleInv ==
  ASSUME SchedInv, NEW once \in BOOLEAN, Schedule(once)
  PROVE  SchedInv'
<1>. DEFINE n == currTaskID + 1
<1>1. /\ TypeOK /\ HasTask /\ OnePlace /\ FlagSet /\ Fresh /\ OneTime
  BY DEF SchedInv
<1>2. /\ n \in Tasks
      /\ currTaskID' = n /\ tasks' = tasks \cup {n}
      /\ onlyOnce' = [onlyOnce EXCEPT ![n] = once]
      /\ valid' = [valid EXCEPT ![n] = TRUE]
      /\ enqueued' = [enqueued EXCEPT ![n] = FALSE]
      /\ due' = [due EXCEPT ![n] = FALSE]
      /\ UNCHANGED <<enqueuedTasks, tickVars, scanVars, workVars, stop>>
  BY <1>1 DEF Schedule, NextTaskID, TypeOK
<1>. HIDE DEF n
<1>3. /\ \A t : Queued(tasksReady, t)' = Queued(tasksReady, t)
      /\ \A t : Queued(enqueuedTasks, t)' = Queued(enqueuedTasks, t)
      /\ \A w, t : Has(w, t)' = Has(w, t)
      /\ \A t : OnItsWay(t)' = OnItsWay(t)
  BY <1>2 DEF scanVars, workVars, Queued, Has, OnItsWay
<1>4. TypeOK'
  BY <1>1, <1>2 DEF TypeOK, tickVars, scanVars, workVars
<1>5. HasTask' /\ OnePlace'
  BY <1>1, <1>2, <1>3 DEF HasTask, OnePlace, Distinct, scanVars, workVars
<1>6. n > currTaskID /\ ~OnItsWay(n) /\ runs[n] = 0
  BY <1>1, <1>2 DEF Fresh, TypeOK, n
<1>7. FlagSet'
  BY <1>1, <1>2, <1>3, <1>6, SMTT(60) DEF FlagSet, TypeOK
<1>8. Fresh'
  BY <1>1, <1>2, <1>3, <1>6, SMTT(60) DEF Fresh, TypeOK, workVars, n
<1>9. OneTime'
  <2>. SUFFICES ASSUME NEW t \in Tasks, onlyOnce'[t]
                PROVE  /\ OnItsWay(t)' \/ runs'[t] # 0 => t \notin tasks'
                       /\ (Queued(tasksReady, t) \/ Queued(enqueuedTasks, t))'
                            => runs'[t] = 0
                       /\ \A w \in Workers : pcW'[w] = "picked" /\ current'[w] = t
                            => runs'[t] = 0
                       /\ runs'[t] <= 1
    BY SMTT(60) DEF OneTime
  <2>1. CASE t = n
    BY <1>2, <1>3, <1>6, <2>1, SMTT(60) DEF OnItsWay, Has, workVars
  <2>2. CASE t # n
    BY <1>1, <1>2, <1>3, <2>2 DEF OneTime, TypeOK, workVars
  <2>. QED  BY <2>1, <2>2
<1>. QED  BY <1>4, <1>5, <1>7, <1>8, <1>9 DEF SchedInv

\* Steps after which every place has at most the tasks it had, and neither
\* flags nor counts change.
LEMMA ShrinkInv ==
  ASSUME SchedInv, TypeOK',
         tasks' \subseteq tasks,
         UNCHANGED <<currTaskID, onlyOnce, enqueued, runs>>,
         tasksReady' = tasksReady \/ tasksReady' = <<>>,
         enqueuedTasks' = enqueuedTasks \/ enqueuedTasks' = <<>>,
         \A w \in Workers : pcW'[w] \in {"picked", "running"} =>
                               pcW'[w] = pcW[w] /\ current'[w] = current[w]
  PROVE  SchedInv'
<1>1. /\ TypeOK /\ HasTask /\ OnePlace /\ FlagSet /\ Fresh /\ OneTime
  BY SMTT(60) DEF SchedInv
<1>2. /\ \A t : Queued(tasksReady, t)' => Queued(tasksReady, t)
      /\ \A t : Queued(enqueuedTasks, t)' => Queued(enqueuedTasks, t)
      /\ Distinct(tasksReady)' /\ Distinct(enqueuedTasks)'
  BY <1>1, SMTT(60) DEF Queued, OnePlace, Distinct
<1>3. /\ \A w \in Workers : \A t : Has(w, t)' => Has(w, t)
      /\ \A t : OnItsWay(t)' => OnItsWay(t)
  BY <1>2 DEF Has, OnItsWay
<1>4. HasTask' /\ OnePlace'
  BY <1>1, <1>2, <1>3, Zenon DEF HasTask, OnePlace
<1>5. FlagSet' /\ Fresh'
  BY <1>1, <1>3, SMTT(60) DEF FlagSet, Fresh
<1>6. OneTime'
  BY <1>1, <1>2, <1>3 DEF OneTime
<1>. QED  BY <1>4, <1>5, <1>6 DEF SchedInv

\* A scan takes a task that is in no place, sets its flag, and drops a
\* one-time task from the list.
LEMMA ScanTaskInv ==
  ASSUME SchedInv, NEW n \in Tasks, ScanTask(n)
  PROVE  SchedInv'
<1>1. /\ TypeOK /\ HasTask /\ OnePlace /\ FlagSet /\ Fresh /\ OneTime
  BY DEF SchedInv
<1>2. /\ n \in tasks /\ cursor' = n
      /\ UNCHANGED <<currTaskID, onlyOnce, valid, due, enqueuedTasks, tickVars, selected,
                      workVars, stop>>
  BY DEF ScanTask, IsNext, Unvisited
<1>3. CASE IsReady(n)
  <2>1. /\ tasksReady' = Append(tasksReady, n)
        /\ enqueued' = [enqueued EXCEPT ![n] = TRUE]
        /\ tasks' = IF onlyOnce[n] THEN tasks \ {n} ELSE tasks
        /\ pcS' \in {"push", "scan"}
        /\ ~enqueued[n]
    BY <1>3, SMTT(60) DEF ScanTask, ListAfter, IsReady
  <2>2. TypeOK'
    BY <1>1, <1>2, <2>1, SMTT(60) DEF TypeOK, tickVars, workVars
  <2>3. ~OnItsWay(n)
    BY <1>1, <2>1 DEF FlagSet
  <2>4. /\ \A t : Queued(tasksReady, t)' <=> Queued(tasksReady, t) \/ t = n
        /\ Distinct(tasksReady)'
    BY <1>1, <2>1, <2>3, QueuedAppend, SMTT(60) DEF TypeOK, OnePlace, OnItsWay
  <2>5. /\ \A t : Queued(enqueuedTasks, t)' = Queued(enqueuedTasks, t)
        /\ Distinct(enqueuedTasks)'
        /\ \A w, t : Has(w, t)' = Has(w, t)
    BY <1>1, <1>2 DEF workVars, Queued, Has, OnePlace, Distinct
  <2>6. \A t : OnItsWay(t)' <=> OnItsWay(t) \/ t = n
    BY <2>4, <2>5, SMTT(60) DEF OnItsWay
  <2>7. HasTask' /\ OnePlace'
    BY <1>1, <1>2, <2>3, <2>4, <2>5 DEF HasTask, OnePlace, OnItsWay, workVars
  <2>8. FlagSet'
    BY <1>1, <2>1, <2>6 DEF FlagSet, TypeOK
  <2>9. Fresh'
    BY <1>1, <1>2, <2>1, <2>6, SMTT(60) DEF Fresh, TypeOK, workVars
  <2>10. OneTime'
    BY <1>1, <1>2, <2>1, <2>3, <2>4, <2>5, <2>6, SMTT(60)
    DEF OneTime, OnItsWay, Has, TypeOK, workVars
  <2>. QED  BY <2>2, <2>7, <2>8, <2>9, <2>10 DEF SchedInv
<1>4. CASE ~IsReady(n)
  <2>1. UNCHANGED <<tasksReady, enqueued, tasks, pcS>>
    BY <1>4 DEF ScanTask
  <2>2. TypeOK'
    BY <1>1, <1>2, <2>1 DEF TypeOK, tickVars, workVars
  <2>. QED  BY <1>1, <1>2, <2>1, <2>2, ShrinkInv DEF workVars
<1>. QED  BY <1>3, <1>4

\* The ready tasks move to the queue.
LEMMA PushReadyInv ==
  ASSUME SchedInv, PushReady
  PROVE  SchedInv'
<1>1. /\ TypeOK /\ HasTask /\ OnePlace /\ FlagSet /\ Fresh /\ OneTime
  BY DEF SchedInv
<1>2. /\ enqueuedTasks' = enqueuedTasks \o tasksReady
      /\ pcW' = [w \in Workers |-> IF pcW[w] = "waiting" THEN "woken" ELSE pcW[w]]
      /\ tasksReady' = <<>> /\ pcS' = "select" /\ selected' = ticker /\ cursor' = 0
      /\ UNCHANGED <<taskVars, enqueued, due, tickVars, current, runs, stop>>
  BY SMTT(60) DEF PushReady, QueueExtended, Broadcast
<1>3. TypeOK'
  BY <1>1, <1>2 DEF TypeOK, taskVars, tickVars
<1>4. /\ \A t : ~Queued(tasksReady, t)'
      /\ \A t : Queued(enqueuedTasks, t)' <=> Queued(enqueuedTasks, t) \/ Queued(tasksReady, t)
      /\ Distinct(tasksReady)' /\ Distinct(enqueuedTasks)'
  <2>1. (\A t : ~Queued(tasksReady, t)') /\ Distinct(tasksReady)'
    BY <1>2 DEF Queued, Distinct
  <2>2. /\ enqueuedTasks \in Seq(Tasks) /\ tasksReady \in Seq(Tasks)
        /\ Distinct(enqueuedTasks) /\ Distinct(tasksReady)
        /\ \A t \in Tasks : ~(Queued(enqueuedTasks, t) /\ Queued(tasksReady, t))
    BY <1>1 DEF TypeOK, OnePlace
  <2>3. /\ \A t : Queued(enqueuedTasks \o tasksReady, t)
                   <=> Queued(enqueuedTasks, t) \/ Queued(tasksReady, t)
        /\ Distinct(enqueuedTasks \o tasksReady)
    BY <2>2, QueuedConcat
  <2>4. /\ \A t : Queued(enqueuedTasks, t)' <=> Queued(enqueuedTasks \o tasksReady, t)
        /\ Distinct(enqueuedTasks)' <=> Distinct(enqueuedTasks \o tasksReady)
    BY <1>2, SMTT(60) DEF Queued, Distinct
  <2>. QED  BY <2>1, <2>3, <2>4
<1>5. \A w \in Workers : /\ \A t : Has(w, t)' <=> Has(w, t)
                         /\ pcW'[w] = "picked" <=> pcW[w] = "picked"
  BY <1>1, <1>2 DEF Has, TypeOK
<1>6. \A t : OnItsWay(t)' <=> OnItsWay(t)
  <2>. TAKE t
  <2>1. (\E w \in Workers : Has(w, t))' <=> \E w \in Workers : Has(w, t)
    BY <1>5, SMTT(60)
  <2>. QED  BY <1>4, <2>1 DEF OnItsWay
<1>7. HasTask'
  BY <1>1, <1>2, SMTT(60) DEF HasTask, TypeOK
<1>8. OnePlace'
  <2>. SUFFICES ASSUME NEW t \in Tasks, NEW w \in Workers, Has(w, t)'
                PROVE  /\ ~Queued(tasksReady, t)' /\ ~Queued(enqueuedTasks, t)'
                       /\ \A v \in Workers : Has(v, t)' => v = w
    BY <1>4, SMTT(60) DEF OnePlace
  <2>. QED  BY <1>1, <1>4, <1>5, SMTT(60) DEF OnePlace
<1>9. FlagSet' /\ Fresh'
  BY <1>1, <1>2, <1>6, SMTT(60) DEF FlagSet, Fresh, taskVars
<1>10. OneTime'
  BY <1>1, <1>2, <1>4, <1>5, <1>6, SMTT(60) DEF OneTime, taskVars
<1>. QED  BY <1>3, <1>7, <1>8, <1>9, <1>10 DEF SchedInv

\* The first queued task moves to a worker.
LEMMA TakeTaskInv ==
  ASSUME SchedInv, NEW w \in Workers, TakeTask(w)
  PROVE  SchedInv'
<1>1. /\ TypeOK /\ HasTask /\ OnePlace /\ FlagSet /\ Fresh /\ OneTime
  BY DEF SchedInv
<1>2. PICK h : h = Head(enqueuedTasks)
  OBVIOUS
<1>3. /\ pcW[w] \in {"top", "woken"} /\ enqueuedTasks # <<>>
      /\ current' = [current EXCEPT ![w] = h]
      /\ enqueuedTasks' = Tail(enqueuedTasks)
      /\ pcW' = [pcW EXCEPT ![w] = "picked"]
      /\ UNCHANGED <<taskVars, enqueued, due, tickVars, scanVars, runs, stop>>
  BY <1>2, SMTT(60) DEF TakeTask
<1>4. /\ h \in Tasks /\ enqueuedTasks' \in Seq(Tasks) /\ Queued(enqueuedTasks, h)
      /\ \A t : Queued(enqueuedTasks, t)' => Queued(enqueuedTasks, t)
      /\ ~Queued(enqueuedTasks, h)' /\ Distinct(enqueuedTasks)'
  BY <1>1, <1>2, <1>3, QueuedTail, SMTT(60) DEF TypeOK, OnePlace
<1>5. TypeOK'
  BY <1>1, <1>3, <1>4, SMTT(60) DEF TypeOK, taskVars, tickVars, scanVars
<1>6. /\ \A t : Queued(tasksReady, t)' = Queued(tasksReady, t)
      /\ Distinct(tasksReady)'
  BY <1>1, <1>3, SMTT(60) DEF scanVars, Queued, OnePlace, Distinct
<1>7. /\ \A t : Has(w, t)' <=> t = h
      /\ \A v \in Workers \ {w} : /\ \A t : Has(v, t)' <=> Has(v, t)
                                   /\ pcW'[v] = pcW[v] /\ current'[v] = current[v]
  BY <1>1, <1>3, SMTT(60) DEF Has, TypeOK
<1>8. \A t : OnItsWay(t)' => OnItsWay(t)
  BY <1>4, <1>6, <1>7, Zenon DEF OnItsWay
<1>9. HasTask'
  BY <1>1, <1>3, <1>4, SMTT(60) DEF HasTask, TypeOK
<1>10. OnePlace'
  BY <1>1, <1>4, <1>6, <1>7, SMTT(60) DEF OnePlace
<1>11. FlagSet' /\ Fresh'
  BY <1>1, <1>3, <1>8, SMTT(60) DEF FlagSet, Fresh, taskVars
<1>12. OneTime'
  BY <1>1, <1>3, <1>4, <1>6, <1>7, <1>8, SMTT(60) DEF OneTime, TypeOK, taskVars
<1>. QED  BY <1>5, <1>9, <1>10, <1>11, <1>12 DEF SchedInv

\* A worker starts its task: a one-time task for the first time.
LEMMA StartTaskInv ==
  ASSUME SchedInv, NEW w \in Workers, StartTask(w)
  PROVE  SchedInv'
<1>1. /\ TypeOK /\ HasTask /\ OnePlace /\ FlagSet /\ Fresh /\ OneTime
  BY DEF SchedInv
<1>2. PICK h \in Tasks : h = current[w]
  BY <1>1, SMTT(60) DEF StartTask, HasTask
<1>3. /\ pcW[w] = "picked"
      /\ pcW' = [pcW EXCEPT ![w] = "running"]
      /\ runs' = [runs EXCEPT ![h] = IF onlyOnce[h] /\ @ < 2 THEN @ + 1 ELSE @]
      /\ UNCHANGED <<taskVars, enqueued, due, enqueuedTasks, tickVars, scanVars, current,
                      stop>>
  BY <1>2, SMTT(60) DEF StartTask
<1>4. TypeOK'
  <2>1. runs' \in [Tasks -> 0 .. 2]
    BY <1>1, <1>3, SMTT(60) DEF TypeOK
  <2>. QED  BY <1>1, <1>3, <2>1, SMTT(60) DEF TypeOK, taskVars, tickVars, scanVars
<1>5. /\ \A t : Queued(tasksReady, t)' = Queued(tasksReady, t)
      /\ \A t : Queued(enqueuedTasks, t)' = Queued(enqueuedTasks, t)
      /\ Distinct(tasksReady)' /\ Distinct(enqueuedTasks)'
  BY <1>1, <1>3, SMTT(60) DEF scanVars, Queued, OnePlace, Distinct
<1>6. \A v \in Workers : \A t : Has(v, t)' <=> Has(v, t)
  BY <1>1, <1>3 DEF Has, TypeOK
<1>7. \A t : OnItsWay(t)' <=> OnItsWay(t)
  BY <1>5, <1>6, SMTT(60) DEF OnItsWay
<1>8. HasTask' /\ OnePlace'
  BY <1>1, <1>3, <1>5, <1>6, Zenon DEF HasTask, OnePlace, TypeOK
<1>9. FlagSet'
  BY <1>1, <1>3, <1>7 DEF FlagSet
<1>10. Has(w, h) /\ OnItsWay(h)
  BY <1>2, <1>3, SMTT(60) DEF Has, OnItsWay
<1>11. Fresh'
  BY <1>1, <1>3, <1>7, <1>10, SMTT(60) DEF Fresh, TypeOK, taskVars
<1>12. OneTime'
  <2>. SUFFICES ASSUME NEW t \in Tasks, onlyOnce[t]
                PROVE  /\ OnItsWay(t)' \/ runs'[t] # 0 => t \notin tasks'
                       /\ (Queued(tasksReady, t) \/ Queued(enqueuedTasks, t))'
                            => runs'[t] = 0
                       /\ \A v \in Workers : pcW'[v] = "picked" /\ current'[v] = t
                            => runs'[t] = 0
                       /\ runs'[t] <= 1
    BY <1>3, SMTT(60) DEF OneTime, taskVars
  <2>1. CASE t = h
    <3>1. runs[h] = 0 /\ h \notin tasks /\ runs'[h] = 1
      BY <1>1, <1>2, <1>3, <1>10, <2>1, SMTT(60) DEF OneTime, TypeOK
    <3>2. ~Queued(tasksReady, h) /\ ~Queued(enqueuedTasks, h)
      BY <1>1, <1>10, SMTT(60) DEF OnePlace
    <3>3. \A v \in Workers : pcW'[v] = "picked" => current'[v] # h
      BY <1>1, <1>3, <1>6, <1>10, SMTT(60) DEF OnePlace, Has, TypeOK
    <3>. QED  BY <1>3, <1>5, <2>1, <3>1, <3>2, <3>3, SMTT(60) DEF taskVars
  <2>2. CASE t # h
    BY <1>1, <1>3, <1>5, <1>7, <2>2, Zenon DEF OneTime, TypeOK, taskVars
  <2>. QED  BY <2>1, <2>2, Zenon
<1>. QED  BY <1>4, <1>8, <1>9, <1>11, <1>12, SMTT(60) DEF SchedInv

\* A worker is done with its task: nobody else has it, so its flag can go.
LEMMA FinishTaskInv ==
  ASSUME SchedInv, NEW w \in Workers, FinishTask(w)
  PROVE  SchedInv'
<1>1. /\ TypeOK /\ HasTask /\ OnePlace /\ FlagSet /\ Fresh /\ OneTime
  BY DEF SchedInv
<1>2. PICK h \in Tasks : h = current[w]
  BY <1>1, SMTT(60) DEF FinishTask, HasTask
<1>3. /\ pcW[w] = "running"
      /\ pcW' = [pcW EXCEPT ![w] = "top"]
      /\ current' = [current EXCEPT ![w] = None]
      /\ enqueued' = [enqueued EXCEPT ![h] = FALSE]
      /\ due' = [due EXCEPT ![h] = FALSE]
      /\ UNCHANGED <<taskVars, enqueuedTasks, tickVars, scanVars, runs, stop>>
  BY <1>2, SMTT(60) DEF FinishTask
<1>4. TypeOK'
  BY <1>1, <1>3, SMTT(60) DEF TypeOK, taskVars, tickVars, scanVars
<1>5. /\ \A t : Queued(tasksReady, t)' = Queued(tasksReady, t)
      /\ \A t : Queued(enqueuedTasks, t)' = Queued(enqueuedTasks, t)
      /\ Distinct(tasksReady)' /\ Distinct(enqueuedTasks)'
  BY <1>1, <1>3, SMTT(60) DEF scanVars, Queued, OnePlace, Distinct
<1>6. /\ \A t : ~Has(w, t)'
      /\ \A v \in Workers \ {w} : /\ \A t : Has(v, t)' <=> Has(v, t)
                                   /\ pcW'[v] = pcW[v] /\ current'[v] = current[v]
  BY <1>1, <1>3, SMTT(60) DEF Has, TypeOK
<1>7. \A t : OnItsWay(t)' => OnItsWay(t)
  BY <1>5, <1>6, Zenon DEF OnItsWay
<1>8. ~OnItsWay(h)'
  <2>1. Has(w, h)
    BY <1>2, <1>3 DEF Has
  <2>. QED  BY <1>1, <1>5, <1>6, <2>1 DEF OnePlace, OnItsWay
<1>9. HasTask' /\ OnePlace'
  <2>1. HasTask'
    BY <1>1, <1>3, SMTT(60) DEF HasTask, TypeOK
  <2>2. OnePlace'
    BY <1>1, <1>5, <1>6, SMTT(60) DEF OnePlace
  <2>. QED  BY <2>1, <2>2, SMTT(60)
<1>10. FlagSet'
  BY <1>1, <1>3, <1>7, <1>8, SMTT(60) DEF FlagSet, TypeOK
<1>11. Fresh'
  BY <1>1, <1>3, <1>7, SMTT(60) DEF Fresh, taskVars
<1>12. OneTime'
  BY <1>1, <1>3, <1>5, <1>6, <1>7, ZenonT(60) DEF OneTime, TypeOK, taskVars
<1>. QED  BY <1>4, <1>9, <1>10, <1>11, <1>12 DEF SchedInv

\* Every step preserves the invariant, those of Stop and Start included.
LEMMA NextSchedInv == SchedInv /\ [Next]_vars => SchedInv'
<1>. SUFFICES ASSUME SchedInv, [Next]_vars PROVE SchedInv'
  OBVIOUS
<1>. USE DEF taskVars, tickVars, scanVars, workVars
<1>0. TypeOK
  BY DEF SchedInv
<1>1. ASSUME NEW once \in BOOLEAN, Schedule(once)
      PROVE  SchedInv'
  BY <1>1, ScheduleInv, SMTT(60)
<1>2. ASSUME NEW t \in Tasks, Cancel(t) PROVE SchedInv'
  <2>1. TypeOK'
    BY <1>0, <1>2, Zenon DEF Cancel, TypeOK
  <2>. QED  BY <1>2, <2>1, ShrinkInv, SMTT(60) DEF Cancel
<1>3. ASSUME NEW t \in Tasks, ScanTask(t) PROVE SchedInv'
  BY <1>3, ScanTaskInv
<1>4. CASE PushReady
  BY <1>4, PushReadyInv
<1>5. ASSUME NEW w \in Workers, TakeTask(w) PROVE SchedInv'
  BY <1>5, TakeTaskInv
<1>6. ASSUME NEW w \in Workers, StartTask(w) PROVE SchedInv'
  BY <1>6, StartTaskInv, SMTT(60)
<1>7. ASSUME NEW w \in Workers, FinishTask(w) PROVE SchedInv'
  BY <1>7, FinishTaskInv
<1>8. ASSUME NEW w \in Workers, Wait(w) \/ WokenForNothing(w) \/ SkipCancelled(w)
      PROVE  SchedInv'
  <2>1. TypeOK'
    BY <1>0, <1>8, ZenonT(60) DEF Wait, WokenForNothing, SkipCancelled, TypeOK
  <2>2. \A v \in Workers : pcW'[v] \in {"picked", "running"} =>
                              pcW'[v] = pcW[v] /\ current'[v] = current[v]
    BY <1>0, <1>8, Zenon DEF Wait, WokenForNothing, SkipCancelled, TypeOK
  <2>. QED
    BY <1>8, <2>1, <2>2, ShrinkInv, Zenon DEF Wait, WokenForNothing, SkipCancelled
<1>9. CASE \/ StopTicker \/ StopClear \/ BeginScan \/ EndScan
           \/ (\E k \in Tickers : Tick(k)) \/ (\E t \in Tasks : ComeDue(t))
  <2>1. TypeOK'
    <3>1. CASE StopTicker
      BY <1>0, <3>1, Zenon DEF StopTicker, TypeOK
    <3>2. CASE StopClear
      BY <1>0, <3>2, SMTT(60) DEF StopClear, TypeOK
    <3>3. CASE BeginScan
      BY <1>0, <3>3, SMTT(60) DEF BeginScan, TypeOK
    <3>4. CASE EndScan
      BY <1>0, <3>4, Zenon DEF EndScan, TypeOK
    <3>5. ASSUME NEW k \in Tickers, Tick(k) PROVE TypeOK'
      BY <1>0, <3>5, Zenon DEF Tick, TypeOK
    <3>6. ASSUME NEW t \in Tasks, ComeDue(t) PROVE TypeOK'
      BY <1>0, <3>6, Zenon DEF ComeDue, TypeOK
    <3>. QED  BY <1>9, <3>1, <3>2, <3>3, <3>4, <3>5, <3>6
  <2>. QED
    BY <1>9, <2>1, ShrinkInv, Zenon DEF StopTicker, StopClear, BeginScan, EndScan, Tick, ComeDue
<1>10. CASE Start
  <2>1. TypeOK'
    BY <1>0, <1>10, SMTT(60) DEF Start, TypeOK, Tickers
  <2>. QED  BY <1>10, <2>1, ShrinkInv, Zenon DEF Start
<1>11. CASE UNCHANGED vars
  <2>1. TypeOK'
    BY <1>0, <1>11, Zenon DEF vars, TypeOK
  <2>. QED  BY <1>11, <2>1, ShrinkInv, Zenon DEF vars
<1>. QED
  BY <1>1, <1>2, <1>3, <1>4, <1>5, <1>6, <1>7, <1>8, <1>9, <1>10, <1>11, SMTT(60)
  DEF Next, Calls, Stop, Time, scheduleTasks, runTasks

\* The inductive invariant holds in every reachable state.
THEOREM SchedInvariant == Spec => []SchedInv
BY InitSchedInv, NextSchedInv, PTL DEF Spec

\* Every variable keeps its type.
THEOREM TypeCorrect == Spec => []TypeOK
<1>1. SchedInv => TypeOK
  BY SMTT(60) DEF SchedInv
<1>. QED  BY <1>1, SchedInvariant, PTL

\* No two workers ever run the same task at the same time, for any number of
\* workers and tasks and any use of Cancel, Stop and Start.
THEOREM NoConcurrentRunHolds == Spec => []NoConcurrentRun
<1>1. SchedInv => NoConcurrentRun
  BY Zenon  DEF SchedInv, NoConcurrentRun, OnePlace, HasTask, Has
<1>. QED  BY <1>1, SchedInvariant, PTL

\* A one-time task is started at most once.
THEOREM OneTimeRunsOnceHolds == Spec => []OneTimeRunsOnce
<1>1. SchedInv => OneTimeRunsOnce
  BY Zenon  DEF SchedInv, OneTimeRunsOnce, OneTime
<1>. QED  BY <1>1, SchedInvariant, PTL

-----------------------------------------------------------------------------
(* A scheduler that is never stopped loses no task                         *)

\* While scheduleTasks waits for a tick it has no ready tasks in hand.
WaitsEmpty == pcS = "select" => tasksReady = <<>>

\* No task whose flag is set is lost, unless it was cancelled.
NoneLost == \A t \in Tasks : enqueued[t] /\ valid[t] => OnItsWay(t)

\* scheduleTasks goes back to waiting only after it has pushed its list.
LEMMA WaitsEmptyInv ==
  ASSUME WaitsEmpty, [Next]_vars
  PROVE  WaitsEmpty'
<1>. USE DEF scanVars, WaitsEmpty
<1>1. CASE scheduleTasks
  BY <1>1, SMTT(60) DEF scheduleTasks, BeginScan, ScanTask, EndScan, PushReady
<1>2. CASE Calls \/ Time \/ Stop \/ Start \/ UNCHANGED vars
  BY <1>2, Zenon DEF Calls, Schedule, Cancel, Time, Tick, ComeDue, Stop, StopTicker, StopClear,
     Start, vars
<1>3. ASSUME NEW w \in Workers, runTasks(w) PROVE WaitsEmpty'
  BY <1>3, Zenon DEF runTasks, Wait, TakeTask, WokenForNothing, StartTask, SkipCancelled, FinishTask
<1>. QED  BY <1>1, <1>2, <1>3, SMTT(60) DEF Next

\* A step that is not one of Stop leaves a task that is on its way on its way,
\* unless it clears the enqueued flag.
LEMMA NoTaskLost ==
  ASSUME SchedInv, WaitsEmpty, NoneLost, [Next]_vars, ~Stop, ~Start
  PROVE  NoneLost'
<1>. USE DEF taskVars, tickVars, scanVars, workVars, NoneLost
<1>0. TypeOK
  BY SMTT(60) DEF SchedInv
<1>c. ASSUME UNCHANGED <<tasksReady, enqueuedTasks, pcW, current>>
      PROVE  \A t : OnItsWay(t)' <=> OnItsWay(t)
  BY <1>c, SMTT(60) DEF OnItsWay, Queued, Has
<1>1. ASSUME NEW once \in BOOLEAN, Schedule(once)
      PROVE  NoneLost'
  BY <1>0, <1>0, <1>c, <1>1, Zenon DEF Schedule, WaitsEmpty, TypeOK
<1>2. ASSUME NEW u \in Tasks, Cancel(u) \/ ComeDue(u)
      PROVE  NoneLost'
  BY <1>0, <1>0, <1>c, <1>2, Zenon DEF Cancel, ComeDue, WaitsEmpty, TypeOK
<1>3. CASE EndScan \/ (\E k \in Tickers : Tick(k)) \/ UNCHANGED vars
  BY <1>0, <1>c, <1>3, Zenon DEF EndScan, Tick, vars, WaitsEmpty
<1>4. CASE BeginScan
  <2>1. UNCHANGED <<tasksReady, enqueuedTasks, pcW, current, enqueued, valid>> /\ pcS' = "scan"
    BY <1>4 DEF BeginScan, WaitsEmpty
  <2>. QED  BY <1>0, <1>c, <2>1 DEF WaitsEmpty
<1>5. ASSUME NEW n \in Tasks, ScanTask(n)
      PROVE  NoneLost'
  <2>1. CASE IsReady(n)
    <3>1. /\ tasksReady' = Append(tasksReady, n)
          /\ enqueued' = [enqueued EXCEPT ![n] = TRUE]
          /\ pcS' # "select"
          /\ UNCHANGED <<valid, enqueuedTasks, pcW, current>>
      BY <1>5, <2>1 DEF ScanTask
    <3>2. \A t : Queued(tasksReady, t)' <=> Queued(tasksReady, t) \/ t = n
      <4>1. tasksReady \in Seq(Tasks)
        BY <1>0 DEF TypeOK
      <4>2. \A t : Queued(Append(tasksReady, n), t) <=> Queued(tasksReady, t) \/ t = n
        BY <4>1, QueuedAppend, Zenon
      <4>. QED  BY <3>1, <4>2, SMTT(60) DEF Queued
    <3>3. \A t : Queued(enqueuedTasks, t)' <=> Queued(enqueuedTasks, t)
      BY <3>1, SMTT(60) DEF Queued
    <3>4. \A t : \A w \in Workers : Has(w, t)' <=> Has(w, t)
      BY <3>1, SMTT(60) DEF Has
    <3>5. \A t : OnItsWay(t) \/ t = n => OnItsWay(t)'
      BY <3>2, <3>3, <3>4, SMTT(60) DEF OnItsWay
    <3>. QED  BY <1>0, <1>0, <3>1, <3>5, Zenon DEF WaitsEmpty, TypeOK
  <2>2. CASE ~IsReady(n)
    BY <1>0, <1>c, <1>5, <2>2, SMTT(60) DEF ScanTask, WaitsEmpty
  <2>. QED  BY <2>1, <2>2
<1>6. CASE PushReady
  <2>1. /\ enqueuedTasks' = enqueuedTasks \o tasksReady /\ tasksReady' = <<>>
        /\ pcW' = [w \in Workers |-> IF pcW[w] = "waiting" THEN "woken" ELSE pcW[w]]
        /\ UNCHANGED <<enqueued, valid, current>>
    BY <1>6, SMTT(60) DEF PushReady, QueueExtended, Broadcast
  <2>2. \A t : Queued(enqueuedTasks \o tasksReady, t)
                 <=> Queued(enqueuedTasks, t) \/ Queued(tasksReady, t)
    BY <1>0, QueuedConcat, SMTT(60) DEF TypeOK
  <2>3. \A t : Queued(enqueuedTasks, t) \/ Queued(tasksReady, t) => Queued(enqueuedTasks, t)'
    BY <2>1, <2>2, Zenon DEF Queued
  <2>4. \A t : \A w \in Workers : Has(w, t) => Has(w, t)'
    BY <1>0, <2>1 DEF Has, TypeOK
  <2>5. \A t : OnItsWay(t) => OnItsWay(t)'
    BY <2>3, <2>4 DEF OnItsWay
  <2>. QED  BY <1>0, <2>1, <2>5, SMTT(60) DEF WaitsEmpty
<1>7. ASSUME NEW w \in Workers, Wait(w) \/ WokenForNothing(w) \/ StartTask(w)
      PROVE  NoneLost'
  <2>1. /\ UNCHANGED <<tasksReady, enqueuedTasks, enqueued, valid, pcS>>
        /\ \A t : \A v \in Workers : Has(v, t) => Has(v, t)'
    BY <1>0, <1>7, Zenon DEF Wait, WokenForNothing, StartTask, Has, TypeOK
  <2>2. \A t : OnItsWay(t) => OnItsWay(t)'
    BY <2>1, SMTT(60) DEF OnItsWay, Queued
  <2>. QED  BY <1>0, <2>1, <2>2 DEF WaitsEmpty
<1>8. ASSUME NEW w \in Workers, TakeTask(w)
      PROVE  NoneLost'
  <2>1. /\ UNCHANGED <<tasksReady, enqueued, valid, pcS>>
        /\ enqueuedTasks # <<>> /\ enqueuedTasks' = Tail(enqueuedTasks)
        /\ pcW'[w] = "picked" /\ current'[w] = Head(enqueuedTasks)
        /\ \A t : \A v \in Workers : Has(v, t) => Has(v, t)'
    BY <1>0, <1>8, Zenon DEF TakeTask, Has, TypeOK
  <2>2. \A t : Queued(enqueuedTasks, t) =>
              Queued(enqueuedTasks, t)' \/ t = Head(enqueuedTasks)
    BY <1>0, <2>1, QueuedTail, ZenonT(60) DEF TypeOK, Queued
  <2>3. \A t : Queued(tasksReady, t)' <=> Queued(tasksReady, t)
    BY <2>1, Zenon DEF Queued
  <2>4. \A t : t = Head(enqueuedTasks) => Has(w, t)'
    BY <2>1, Zenon DEF Has
  <2>5. \A t : OnItsWay(t) => OnItsWay(t)'
    BY <2>1, <2>2, <2>3, <2>4, Zenon DEF OnItsWay
  <2>. QED  BY <1>0, <2>1, <2>5, Zenon DEF WaitsEmpty
<1>9. ASSUME NEW w \in Workers, FinishTask(w) \/ SkipCancelled(w)
      PROVE  NoneLost'
  <2>1. /\ UNCHANGED <<tasksReady, enqueuedTasks, valid, pcS>>
        /\ \A t \in Tasks : t # current[w] \/ ~valid[t] =>
             (enqueued'[t] /\ valid'[t] => enqueued[t] /\ valid[t])
        /\ \A t \in Tasks : enqueued'[t] /\ valid'[t] => t # current[w]
        /\ \A t : \A v \in Workers : t # current[w] /\ Has(v, t) => Has(v, t)'
    BY <1>0, <1>9, Zenon DEF FinishTask, SkipCancelled, Has, TypeOK
  <2>2. \A t : t # current[w] /\ OnItsWay(t) => OnItsWay(t)'
    BY <2>1, Zenon DEF OnItsWay, Queued
  <2>. QED  BY <1>0, <2>1, <2>2 DEF WaitsEmpty
<1>. QED
  BY <1>1, <1>2, <1>3, <1>4, <1>5, <1>6, <1>7, <1>8, <1>9, Zenon
  DEF Next, Calls, Time, scheduleTasks, runTasks

\* As long as nobody calls Stop, a task whose enqueued flag is set and that is
\* not cancelled is on its way to the queue, in it, or with a worker.
THEOREM EnqueuedIsOnItsWayHolds == Spec => []EnqueuedIsOnItsWay
<1>. DEFINE I == WaitsEmpty /\ (NeverStopped => NoneLost)
<1>1. Init => I
  BY DEF Init, WaitsEmpty, NoneLost
<1>2. SchedInv /\ I /\ [Next]_vars => I'
  <2>. SUFFICES ASSUME SchedInv, I, [Next]_vars, NeverStopped' PROVE NoneLost'
    BY WaitsEmptyInv, SMTT(60)
  <2>1. ~Stop /\ ~Start
    BY DEF NeverStopped, SchedInv, TypeOK, Tickers, Stop, StopTicker, StopClear, Start
  <2>2. UNCHANGED <<ticker, stop>>
    <3>1. CASE Calls \/ Time \/ UNCHANGED vars
      BY <3>1, Zenon DEF Calls, Schedule, Cancel, Time, Tick, ComeDue, vars, tickVars
    <3>2. CASE scheduleTasks
      BY <3>2, Zenon DEF scheduleTasks, BeginScan, ScanTask, EndScan, PushReady, tickVars
    <3>3. ASSUME NEW w \in Workers, runTasks(w) PROVE UNCHANGED <<ticker, stop>>
      BY <3>3, Zenon DEF runTasks, Wait, TakeTask, WokenForNothing, StartTask, SkipCancelled,
         FinishTask, tickVars
    <3>. QED  BY <2>1, <3>1, <3>2, <3>3, SMTT(60) DEF Next
  <2>3. NoneLost
    BY <2>2, SMTT(60) DEF NeverStopped
  <2>. QED  BY <2>1, <2>3, NoTaskLost
<1>3. I => EnqueuedIsOnItsWay
  BY DEF NoneLost, OnItsWay, EnqueuedIsOnItsWay
<1>. QED  BY <1>1, <1>2, <1>3, SchedInvariant, PTL DEF Spec
=============================================================================
