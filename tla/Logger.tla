------------------------------- MODULE Logger -------------------------------
(***************************************************************************)
(* The asynchronous logger of include/logger.h and logger.cpp: threads put *)
(* their lines into the MPMC queue (see MPMCQueue: the n-th pop gets the   *)
(* n-th emplace), one thread takes them out and writes them to the file    *)
(* (see UringFile), which the destructor closes.                           *)
(*                                                                         *)
(* A line is known by the ticket its emplace() drew.                       *)
(***************************************************************************)
EXTENDS Integers, Sequences

CONSTANTS Threads,    \* threads that log
          Capacity,   \* slots of taskQueue_
          Levels,     \* a set of integers: the order of LogLevel
          DefaultLevel,   \* INFO
          MaxLines,   \* bound: lines put into the queue
          QueueDepth, CompleteBatch, PendingMod   \* of the file

ASSUME LoggerAssumption == /\ Capacity \in Nat \ {0} /\ MaxLines \in Nat
                           /\ Levels \subseteq Nat /\ DefaultLevel \in Levels
                           /\ QueueDepth \in Nat \ {0, 1} /\ CompleteBatch \in Nat \ {0}
                           /\ PendingMod \in Nat /\ PendingMod > MaxLines + 1

VARIABLES level,      \* level_
          stop,       \* stop_
          head, tail, \* taskQueue_: tickets drawn
          ready,      \* tickets whose emplace() has been published
          freed,      \* number of slots that pop() has handed back
          pc,         \* where each logging thread is: "idle" or in "emplace"
          mine,       \* its ticket
          worker,     \* processThread_: "none", "test", "take", "pop", "write", "file", "exit"
          owner,      \* the thread that calls init() and ends the program
          owed        \* history: lines whose log() had returned when ~Logger began

\* file_
VARIABLES fd, registered, sq, visible, kern, cq, pending, live, call, line, disk, lost, broken

queue == <<head, tail, ready, freed>>
Lines == 1 .. MaxLines
file == <<fd, registered, sq, visible, kern, cq, pending, live, call, line, disk, lost, broken>>
File == INSTANCE UringFile

vars == <<level, stop, queue, pc, mine, worker, owner, owed, file>>

Init == /\ level = DefaultLevel /\ stop = FALSE
        /\ head = 0 /\ tail = 0 /\ ready = {} /\ freed = 0
        /\ pc = [t \in Threads |-> "idle"] /\ mine = [t \in Threads |-> 0]
        /\ worker = "none" /\ owner = "start"
        /\ owed = {}
        /\ File!Init
-----------------------------------------------------------------------------
\* init(): the first call opens the file, whatever comes of it, and starts the thread.
InitFirst(l) == /\ owner = "start" /\ worker = "none"
                /\ level' = l /\ worker' = "test" /\ owner' = "ready"
                /\ File!OpenFile
                /\ UNCHANGED <<stop, queue, pc, mine, owed>>

\* init(): a second call joins the thread, and nobody has told it to stop.
InitAgain == /\ owner = "ready"
             /\ owner' = "join"
             /\ UNCHANGED <<level, stop, queue, pc, mine, worker, owed, file>>

\* log<l>(): below the level nothing happens; else emplace() draws a ticket.
Log(t, l) == /\ pc[t] = "idle" /\ owner # "end" /\ l >= level /\ tail < MaxLines
             /\ tail' = tail + 1
             /\ mine' = [mine EXCEPT ![t] = tail + 1]
             /\ pc' = [pc EXCEPT ![t] = "emplace"]
             /\ UNCHANGED <<level, stop, head, ready, freed, worker, owner, owed, file>>

\* emplace(): the slot is free and the line is published.
Emplace(t) == /\ pc[t] = "emplace" /\ mine[t] <= freed + Capacity
              /\ ready' = ready \cup {mine[t]}
              /\ pc' = [pc EXCEPT ![t] = "idle"]
              /\ mine' = [mine EXCEPT ![t] = 0]
              /\ UNCHANGED <<level, stop, head, tail, freed, worker, owner, owed, file>>

\* Mutant of WorkerTest: the thread leaves when it is told to, whatever is queued.
WorkerTestStop == /\ worker = "test"
                  /\ worker' = IF stop THEN "exit" ELSE "take"
                  /\ UNCHANGED <<level, stop, queue, pc, mine, owner, owed, file>>

\* processLogTasks(): the test of the loop.
WorkerTest == /\ worker = "test"
              /\ worker' = IF stop /\ head = tail THEN "exit" ELSE "take"
              /\ UNCHANGED <<level, stop, queue, pc, mine, owner, owed, file>>

\* ...: an empty queue sends it round again; else pop() draws a ticket.
WorkerTake == /\ worker = "take"
              /\ worker' = IF head = tail THEN "test" ELSE "pop"
              /\ head' = IF head = tail THEN head ELSE head + 1
              /\ UNCHANGED <<level, stop, tail, ready, freed, pc, mine, owner, owed, file>>

\* Mutant of WorkerPop: the slot is not handed back.
WorkerPopKeep == /\ worker = "pop" /\ head \in ready
                 /\ worker' = "write"
                 /\ UNCHANGED <<level, stop, queue, pc, mine, owner, owed, file>>

\* ...: pop() waits until the line is there, and frees the slot.
WorkerPop == /\ worker = "pop" /\ head \in ready
             /\ freed' = freed + 1
             /\ worker' = "write"
             /\ UNCHANGED <<level, stop, head, tail, ready, pc, mine, owner, owed, file>>

\* ...: the task writes its line.
WorkerWrite == /\ worker = "write"
               /\ \/ File!Write(head) /\ worker' = "file"
                  \/ File!WriteNoFile(head) /\ worker' = "test"
               /\ UNCHANGED <<level, stop, queue, pc, mine, owner, owed>>

WorkerWritten == /\ worker = "file" /\ call = "none"
                 /\ worker' = "test"
                 /\ UNCHANGED <<level, stop, queue, pc, mine, owner, owed, file>>

\* Mutant of Destroy: stop_ is not set before the join.
DestroyNoStop == /\ owner \in {"start", "ready"}
                 /\ owner' = "stop"
                 /\ owed' = ready
                 /\ UNCHANGED <<level, stop, queue, pc, mine, worker, file>>

\* ~Logger: stop_ is set; then the thread, if there is one, is joined.
Destroy == /\ owner \in {"start", "ready"}
           /\ stop' = TRUE /\ owner' = "stop"
           /\ owed' = ready
           /\ UNCHANGED <<level, queue, pc, mine, worker, file>>

DestroyJoined == /\ owner = "stop" /\ worker \in {"none", "exit"}
                 /\ \/ File!CloseFile /\ owner' = "close"
                    \/ ~fd /\ owner' = "end" /\ UNCHANGED file
                 /\ UNCHANGED <<level, stop, queue, pc, mine, worker, owed>>

DestroyClosed == /\ owner = "close" /\ call = "none"
                 /\ owner' = "end"
                 /\ UNCHANGED <<level, stop, queue, pc, mine, worker, owed, file>>

\* A step inside a call on file_, by the thread that made it, or of the kernel.
FileStep(A) == A /\ UNCHANGED <<level, stop, queue, pc, mine, worker, owner, owed>>

Worker == WorkerTest \/ WorkerTake \/ WorkerPop \/ WorkerWrite \/ WorkerWritten

Next == \/ \E l \in Levels : InitFirst(l) \/ \E t \in Threads : Log(t, l)
        \/ \E t \in Threads : Emplace(t)
        \/ InitAgain \/ Worker \/ Destroy \/ DestroyJoined \/ DestroyClosed
        \/ FileStep(File!User) \/ FileStep(File!Kernel)

Spec == Init /\ [][Next]_vars

\* Threads inside emplace(), the log thread and ~Logger run when they can, in the calls
\* on the file as well, and the kernel executes what has been submitted.
Fairness == /\ \A t \in Threads : WF_vars(Emplace(t))
            /\ WF_vars(Worker) /\ WF_vars(DestroyJoined \/ DestroyClosed)
            /\ WF_vars(FileStep(File!User)) /\ WF_vars(FileStep(File!Kernel))
FairSpec == Spec /\ Fairness
-----------------------------------------------------------------------------
\* Type invariant.
TypeOK == /\ level \in Levels /\ stop \in BOOLEAN
          /\ head \in 0 .. tail /\ tail \in 0 .. MaxLines
          /\ ready \subseteq Lines /\ freed \in 0 .. head
          /\ pc \in [Threads -> {"idle", "emplace"}] /\ mine \in [Threads -> 0 .. MaxLines]
          /\ worker \in {"none", "test", "take", "pop", "write", "file", "exit"}
          /\ owner \in {"start", "ready", "join", "stop", "close", "end"}
          /\ owed \subseteq Lines

\* Unless a submit to the ring has failed, the file's buffers and counts are in order
\* whatever the log thread and the kernel do: see UringFile.
BuffersAlive == File!BuffersAlive

\* Once init() has been called, ~Logger (logger.cpp:8-14) ends only after every line whose
\* log() had returned is in the file, however many were queued here or in the ring, unless
\* the file could not be opened or written, or a submit has failed.
NothingUnwritten ==
    /\ TypeOK
    /\ owner = "end" /\ worker = "exit" /\ ~broken => owed \subseteq disk \cup lost

\* How many lines the log thread has handed to the file.
Written == IF worker \in {"pop", "write"} \/ call = "write" THEN head - 1 ELSE head

\* Who uses the queue and the file, and when: the inductive invariant of the threads.
ThreadsInv ==
    /\ TypeOK
    /\ \A t \in Threads : pc[t] = "emplace" => mine[t] \in 1 .. tail
    /\ ready \subseteq 1 .. tail /\ owed \subseteq 1 .. tail
    /\ freed = IF worker = "pop" THEN head - 1 ELSE head
    /\ worker \in {"pop", "write", "file"} => head > 0
    /\ stop <=> owner \in {"stop", "close", "end"}
    /\ owner = "start" => worker = "none"
    /\ owner \in {"close", "end"} => worker \in {"none", "exit"}
    /\ worker = "exit" => stop /\ owed \subseteq 1 .. head
    /\ call = "write" => worker = "file" /\ line = head
    /\ call \in {"flush", "wait"} => owner = "close"
    /\ fd => owner \notin {"start", "end"} /\ (owner = "close" => call # "none")
    /\ call # "none" => fd

\* Where the lines are while no submit has failed: the inductive invariant of the file.
\* An entry is in one place at a time, and a line that was handed to the file is in it,
\* lost, or in an entry that the kernel has not completed.
EntriesInv ==
    LET queued == File!Range(sq)
        done == File!Range(cq)
    IN /\ File!IsInjective(sq) /\ File!IsInjective(cq)
       /\ queued \cap kern = {} /\ queued \cap done = {} /\ kern \cap done = {}
       /\ queued \cup kern \cup done \subseteq 1 .. Written \cup {File!Fsync}
       /\ File!Fsync \in queued \cup kern \cup done => call = "wait"
       /\ 1 .. Written \subseteq disk \cup lost \cup queued \cup kern
       /\ pending <= Written + (IF call = "wait" THEN 1 ELSE 0)
       /\ ~fd => pending = 0

LoggerInv == ThreadsInv /\ File!BuffersAlive /\ (~broken => EntriesInv)

\* While the log thread runs, a thread that has drawn a ticket for its line returns from
\* log(), also when the queue or the ring is full and when the thread has been told to
\* stop, unless a submit has failed.
LogReturns == \A t \in Threads :
                 (pc[t] = "emplace" /\ worker \notin {"none", "exit"}) ~> (pc[t] = "idle" \/ broken)

\* ~Logger returns once no more lines come (the bound on lines sees to that): it waits for
\* the lines that are queued, for the writes in progress and for nothing else.  After a
\* failed submit pending_ may have passed below zero, and it waits for ever.
DestructorReturns == owner = "stop" ~> (owner = "end" \/ broken)
=============================================================================
