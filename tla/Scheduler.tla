----------------------------- MODULE Scheduler -----------------------------
(***************************************************************************)
(* FIFOScheduler, LIFOScheduler and TimerEventScheduler of                 *)
(* include/scheduler.h with the threads that ThreadPool                    *)
(* (include/thread_pool.h) runs on one of them.  The three share the shape *)
(* of add(), execute() and stop(); `kind' says which one it is.            *)
(*                                                                         *)
(* A critical section of the mutex is one step.  notify_one() comes after  *)
(* the unlock, so it is a step of its own; it wakes any one of the waiting *)
(* threads, or nobody.  A woken thread takes the mutex again later, and    *)
(* finds what others left.  Tasks may add and cancel tasks.  Times are     *)
(* ticks of a clock that does not go back.                                 *)
(***************************************************************************)
EXTENDS Integers, Sequences, FiniteSets

CONSTANTS Workers,    \* the pool's threads
          Clients,    \* threads of the program that use the pool
          NoTask,
          MaxTasks,   \* bound: calls of add()
          MaxTime     \* bound: the last tick, and the latest trigger time

ASSUME TaskAssumption == MaxTasks \in Nat /\ MaxTime \in Nat
ASSUME ThreadAssumption == Workers # {} /\ Workers \cap Clients = {}

VARIABLES kind,       \* "fifo", "lifo" or "timer"
          now,        \* system_clock::now()
          tasks,      \* tasks_, in the order of the container
          ids,        \* the keys of id_it_map_
          ID,         \* ID_
          stop,       \* stop_
          pc,         \* where each worker is in its loop of execute()
          task,       \* execute()'s local task
          call,       \* where each thread is in add(): "none", "insert", "notify"
          arg,        \* the task it adds
          main,       \* where ~ThreadPool is: "open", "stopped", "joining", "destroyed"
          accepted,   \* history: ids of the tasks added, in order
          done,       \* history: ids of the tasks run to the end
          cancelled   \* history: ids of the tasks that cancel() removed

poolVars == <<stop, pc, task, main, done>>
vars == <<kind, now, tasks, ids, ID, call, arg, accepted, cancelled, poolVars>>

Threads == Workers \cup Clients
Ids == 0 .. MaxTasks - 1
Tasks == [id : Ids, time : 0 .. MaxTime]

ASSUME NoTaskAssumption == NoTask \notin Tasks

\* Of SequencesExt, which as a whole makes every step of the proofs slow.
ToSet(q) == { q[i] : i \in DOMAIN q }
InsertAt(q, i, e) == SubSeq(q, 1, i - 1) \o <<e>> \o SubSeq(q, i, Len(q))
RemoveAt(q, i) == SubSeq(q, 1, i - 1) \o SubSeq(q, i + 1, Len(q))

Init == /\ kind \in {"fifo", "lifo", "timer"} /\ now = 0
        /\ tasks = << >> /\ ids = {} /\ ID = 0 /\ stop = FALSE
        /\ pc = [w \in Workers |-> "test"]
        /\ task = [w \in Workers |-> NoTask]
        /\ call = [t \in Threads |-> "none"]
        /\ arg = [t \in Threads |-> NoTask]
        /\ main = "open"
        /\ accepted = << >> /\ done = {} /\ cancelled = {}

\* The threads that wait on the condition variable.
Waiting == { w \in Workers : pc[w] = "wait" }

\* A thread that may call add() or cancel(): a client, or a worker inside a task.  The
\* clients begin no call once the pool is being destroyed.
MayCall(t) == /\ call[t] = "none"
              /\ \/ t \in Clients /\ main = "open"
                 \/ t \in Workers /\ pc[t] = "run"

\* The set of the timer takes two tasks of one time for the same.
SameTime(e) == kind = "timer" /\ \E i \in DOMAIN tasks : tasks[i].time = e.time
-----------------------------------------------------------------------------
\* add(): the task is made, and its id and its trigger time are fixed, before the mutex
\* is taken.
AddMake(t, delay) == /\ MayCall(t) /\ ID < MaxTasks /\ now + delay <= MaxTime
                     /\ kind = "timer" \/ delay = 0
                     /\ arg' = [arg EXCEPT ![t] = [id |-> ID, time |-> now + delay]]
                     /\ ID' = ID + 1
                     /\ call' = [call EXCEPT ![t] = "insert"]
                     /\ UNCHANGED <<kind, now, tasks, ids, accepted, cancelled, poolVars>>

\* add(): a stopped scheduler throws; so does the timer, with "double add".
AddThrow(t) == /\ call[t] = "insert" /\ (stop \/ SameTime(arg[t]))
               /\ call' = [call EXCEPT ![t] = "none"]
               /\ arg' = [arg EXCEPT ![t] = NoTask]
               /\ UNCHANGED <<kind, now, tasks, ids, ID, accepted, cancelled, poolVars>>

\* Mutant of insert: the task goes before those that wait.
insertFront(e) == tasks' = <<e>> \o tasks

\* e goes to its place in tasks_: the end, or in the set of the timer the one of its time.
insert(e) == IF kind = "timer"
             THEN \E k \in 0 .. Len(tasks) :
                    /\ \A i \in 1 .. k : tasks[i].time < e.time
                    /\ \A i \in k + 1 .. Len(tasks) : e.time < tasks[i].time
                    /\ tasks' = InsertAt(tasks, k + 1, e)
             ELSE tasks' = Append(tasks, e)

\* Mutant of AddInsert: the result of the insertion is not looked at.
AddInsertAny(t) == /\ call[t] = "insert" /\ ~stop
                   /\ IF SameTime(arg[t]) THEN UNCHANGED tasks ELSE insert(arg[t])
                   /\ ids' = IF kind = "timer" THEN ids \cup {arg[t].id} ELSE ids
                   /\ accepted' = Append(accepted, arg[t].id)
                   /\ arg' = [arg EXCEPT ![t] = NoTask]
                   /\ call' = [call EXCEPT ![t] = "notify"]
                   /\ UNCHANGED <<kind, now, ID, cancelled, poolVars>>

\* add(): the critical section.
AddInsert(t) == /\ call[t] = "insert" /\ ~stop /\ ~SameTime(arg[t])
                /\ insert(arg[t])
                /\ ids' = IF kind = "timer" THEN ids \cup {arg[t].id} ELSE ids
                /\ accepted' = Append(accepted, arg[t].id)
                /\ arg' = [arg EXCEPT ![t] = NoTask]
                /\ call' = [call EXCEPT ![t] = "notify"]
                /\ UNCHANGED <<kind, now, ID, cancelled, poolVars>>

\* Mutant of Notify: add() returns without notify_one().
NotifyNobody(t) == /\ call[t] = "notify"
                   /\ call' = [call EXCEPT ![t] = "none"]
                   /\ UNCHANGED <<kind, now, tasks, ids, ID, arg, accepted, cancelled, poolVars>>

\* add(): notify_one().
Notify(t) == /\ call[t] = "notify"
             /\ call' = [call EXCEPT ![t] = "none"]
             /\ \/ Waiting = {} /\ UNCHANGED pc
                \/ \E w \in Waiting : pc' = [pc EXCEPT ![w] = "test"]
             /\ UNCHANGED <<kind, now, tasks, ids, ID, stop, task, arg, main, accepted, done, cancelled>>

\* cancel(i) of a task that no thread has taken; of any other it does nothing.
Cancel(t, i) == /\ MayCall(t) /\ i \in ids
                /\ \E n \in DOMAIN tasks : tasks[n].id = i /\ tasks' = RemoveAt(tasks, n)
                /\ ids' = ids \ {i}
                /\ cancelled' = cancelled \cup {i}
                /\ UNCHANGED <<kind, now, ID, call, arg, accepted, poolVars>>

\* execute(): the predicate is false, and the thread waits.
ExecuteWait(w) == /\ pc[w] = "test" /\ ~stop /\ tasks = << >>
                  /\ pc' = [pc EXCEPT ![w] = "wait"]
                  /\ UNCHANGED <<kind, now, tasks, ids, ID, stop, task, call, arg, main,
                                 accepted, done, cancelled>>

\* A wait may end for no reason.
SpuriousWakeup(w) == /\ pc[w] = "wait"
                     /\ pc' = [pc EXCEPT ![w] = "test"]
                     /\ UNCHANGED <<kind, now, tasks, ids, ID, stop, task, call, arg, main,
                                    accepted, done, cancelled>>

\* The task that is next, and the container without it.
NextIndex == IF kind = "lifo" THEN Len(tasks) ELSE 1
NextTask == tasks[NextIndex]
RestOfTasks == RemoveAt(tasks, NextIndex)

\* Mutant of ExecuteTake: the task is read and left in the container.
ExecuteTakeNoPop(w) == /\ pc[w] = "test" /\ tasks # << >>
                       /\ task' = [task EXCEPT ![w] = NextTask]
                       /\ ids' = ids \ {NextTask.id}
                       /\ pc' = [pc EXCEPT ![w] = IF kind = "timer" THEN "sleep" ELSE "run"]
                       /\ UNCHANGED <<kind, now, tasks, ID, stop, call, arg, main, accepted, done, cancelled>>

\* execute(): a task is taken, due or not, stopped or not.
ExecuteTake(w) == /\ pc[w] = "test" /\ tasks # << >>
                  /\ task' = [task EXCEPT ![w] = NextTask]
                  /\ tasks' = RestOfTasks
                  /\ ids' = ids \ {NextTask.id}
                  /\ pc' = [pc EXCEPT ![w] = IF kind = "timer" THEN "sleep" ELSE "run"]
                  /\ UNCHANGED <<kind, now, ID, stop, call, arg, main, accepted, done, cancelled>>

\* execute() of the timer: the sleep outside the mutex ends.
ExecuteWake(w) == /\ pc[w] = "sleep" /\ now >= task[w].time
                  /\ pc' = [pc EXCEPT ![w] = "run"]
                  /\ UNCHANGED <<kind, now, tasks, ids, ID, stop, task, call, arg, main,
                                 accepted, done, cancelled>>

\* execute(): the task has run, and whatever it called has returned.
ExecuteRun(w) == /\ pc[w] = "run" /\ call[w] = "none"
                 /\ done' = done \cup {task[w].id}
                 /\ task' = [task EXCEPT ![w] = NoTask]
                 /\ pc' = [pc EXCEPT ![w] = "test"]
                 /\ UNCHANGED <<kind, now, tasks, ids, ID, stop, call, arg, main, accepted, cancelled>>

\* Mutant of ExecuteExit: a stopped scheduler drops what is queued.
ExecuteExitEarly(w) == /\ pc[w] = "test" /\ stop
                       /\ pc' = [pc EXCEPT ![w] = "exit"]
                       /\ UNCHANGED <<kind, now, tasks, ids, ID, stop, task, call, arg, main,
                                      accepted, done, cancelled>>

\* execute() returns false and the thread ends.
ExecuteExit(w) == /\ pc[w] = "test" /\ stop /\ tasks = << >>
                  /\ pc' = [pc EXCEPT ![w] = "exit"]
                  /\ UNCHANGED <<kind, now, tasks, ids, ID, stop, task, call, arg, main,
                                 accepted, done, cancelled>>

\* ~ThreadPool: stop() takes the mutex, then notify_all(); then every thread is joined.
\* stop() may overtake a call of add(), which returns before the destructor does.
Stop == /\ main = "open"
        /\ stop' = TRUE /\ main' = "stopped"
        /\ UNCHANGED <<kind, now, tasks, ids, ID, pc, task, call, arg, accepted, done, cancelled>>

\* Mutant of NotifyAll: one thread is told.
NotifyAllOne == /\ main = "stopped"
                /\ main' = "joining"
                /\ \/ Waiting = {} /\ UNCHANGED pc
                   \/ \E w \in Waiting : pc' = [pc EXCEPT ![w] = "test"]
                /\ UNCHANGED <<kind, now, tasks, ids, ID, stop, task, call, arg, accepted, done, cancelled>>

NotifyAll == /\ main = "stopped"
             /\ main' = "joining"
             /\ pc' = [w \in Workers |-> IF w \in Waiting THEN "test" ELSE pc[w]]
             /\ UNCHANGED <<kind, now, tasks, ids, ID, stop, task, call, arg, accepted, done, cancelled>>

Join == /\ main = "joining" /\ \A w \in Workers : pc[w] = "exit"
        /\ \A t \in Clients : call[t] = "none"
        /\ main' = "destroyed"
        /\ UNCHANGED <<kind, now, tasks, ids, ID, stop, pc, task, call, arg, accepted, done, cancelled>>

ClockTick == /\ kind = "timer" /\ now < MaxTime
             /\ now' = now + 1
             /\ UNCHANGED <<kind, tasks, ids, ID, call, arg, accepted, cancelled, poolVars>>

AddRest(t) == AddThrow(t) \/ AddInsert(t) \/ Notify(t)
Execute(w) == ExecuteWait(w) \/ ExecuteTake(w) \/ ExecuteWake(w) \/ ExecuteRun(w) \/ ExecuteExit(w)

Next == \/ \E t \in Threads : \/ AddRest(t)
                              \/ \E d \in 0 .. MaxTime : AddMake(t, d)
                              \/ \E i \in Ids : Cancel(t, i)
        \/ \E w \in Workers : Execute(w) \/ SpuriousWakeup(w)
        \/ Stop \/ NotifyAll \/ Join \/ ClockTick

Spec == Init /\ [][Next]_vars

\* Threads run when they can, tasks end and time passes.  Nobody has to add or cancel a
\* task, to destroy the pool or to wake up spuriously.
Fairness == /\ \A t \in Threads : WF_vars(AddRest(t))
            /\ \A w \in Workers : WF_vars(Execute(w))
            /\ WF_vars(NotifyAll \/ Join) /\ WF_vars(ClockTick)
FairSpec == Spec /\ Fairness
-----------------------------------------------------------------------------
\* The ids of the tasks that are queued, the threads with a task in hand, and its ids.
IdsIn(s) == { s[i].id : i \in DOMAIN s }
Queued == IdsIn(tasks)
Holders == { w \in Workers : task[w] # NoTask }
InHand == { task[w].id : w \in Holders }

Distinct(s) == \A i, j \in DOMAIN s : s[i].id = s[j].id => i = j

\* Type invariant.  A thread has a task in hand just while it sleeps or runs.
TypeOK == /\ kind \in {"fifo", "lifo", "timer"} /\ now \in 0 .. MaxTime
          /\ tasks \in Seq(Tasks) /\ ids \subseteq Ids /\ ID \in 0 .. MaxTasks
          /\ stop \in BOOLEAN
          /\ pc \in [Workers -> {"test", "wait", "sleep", "run", "exit"}]
          /\ task \in [Workers -> Tasks \cup {NoTask}]
          /\ \A w \in Workers : pc[w] \in {"sleep", "run"} <=> task[w] # NoTask
          /\ call \in [Threads -> {"none", "insert", "notify"}]
          /\ arg \in [Threads -> Tasks \cup {NoTask}]
          /\ main \in {"open", "stopped", "joining", "destroyed"}
          /\ accepted \in Seq(Ids) /\ done \subseteq Ids /\ cancelled \subseteq Ids

\* Every task that add() accepted is in one place: queued, in the hands of one thread,
\* done or cancelled.  None is lost, run twice, or run after cancel() has removed it, by
\* whichever thread and in whichever order.  And id_it_map_ (line 260) names exactly the
\* tasks of the timer's set: cancel() erases through no iterator of a task that was taken.
InOnePlace ==
    /\ TypeOK
    /\ ToSet(accepted) = Queued \cup InHand \cup done \cup cancelled
    /\ Queued \cap (InHand \cup done \cup cancelled) = {}
    /\ InHand \cap (done \cup cancelled) = {} /\ done \cap cancelled = {}
    /\ Distinct(tasks)
    /\ \A v, w \in Holders : task[v].id = task[w].id => v = w
    /\ ids = IF kind = "timer" THEN Queued ELSE {}

\* ~ThreadPool (thread_pool.h:83) returns only after every accepted task has been run or
\* cancelled: those that were queued when stop() was called, those that tasks added, and
\* those due far in the future included.
DestroyedDrained == main = "destroyed" => ToSet(accepted) = done \cup cancelled

\* FIFOScheduler begins tasks in the order in which add() accepted them: what has not
\* begun is what was accepted last.
FifoOrder == kind = "fifo" =>
                /\ Len(tasks) <= Len(accepted)
                /\ \A i \in DOMAIN tasks : tasks[i].id = accepted[Len(accepted) - Len(tasks) + i]

\* No wake-up is lost: a queued task is never left to threads that all wait, unless a
\* thread that queued one is still to call notify_one() (lines 61, 123, 200).
NoLostWakeup == tasks # << >> /\ (\A t \in Threads : call[t] # "notify") => Waiting # Workers

\* The rest of what the threads keep true, which makes the invariants above inductive: a
\* task that add() is about to insert is new; the clients and the destructor agree with
\* stop_; a thread ends only when nothing is queued, and nothing is queued again.
AddInv ==
    /\ \A t \in Threads : call[t] = "insert" <=> arg[t] # NoTask
    /\ \A t \in Threads : arg[t] # NoTask => arg[t].id < ID /\ arg[t].id \notin ToSet(accepted)
    /\ \A t, u \in Threads : arg[t] # NoTask /\ arg[u] # NoTask /\ arg[t].id = arg[u].id => t = u
    /\ \A i \in ToSet(accepted) : i < ID
StopInv ==
    /\ main = "open" <=> ~stop
    /\ \A w \in Workers : pc[w] = "exit" => stop /\ tasks = << >>
    /\ main = "destroyed" => \A w \in Workers : pc[w] = "exit"
PoolInv == InOnePlace /\ AddInv /\ StopInv /\ NoLostWakeup /\ FifoOrder

\* A future that add() returned becomes ready, unless its task is cancelled.
EveryTaskRuns == \A i \in Ids : i \in ToSet(accepted) ~> i \in done \cup cancelled

\* ~ThreadPool returns.
DestructorReturns == main = "stopped" ~> main = "destroyed"
=============================================================================
