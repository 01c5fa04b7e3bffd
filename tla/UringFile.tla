----------------------------- MODULE UringFile -----------------------------
(***************************************************************************)
(* The log file: File<true, true> of include/file.h over UringAIO<true,    *)
(* true> of include/uring_aio.h, used by one thread at a time.  The kernel *)
(* takes entries from the submission queue in order once a submit has made *)
(* them visible, executes them in any order, an fsync among the writes     *)
(* included, and posts a completion for each.                              *)
(*                                                                         *)
(* An entry is known by the line it writes; Fsync is the entry of an fsync.*)
(***************************************************************************)
EXTENDS Integers, Sequences, FiniteSets, Functions

CONSTANTS Lines,          \* what is written, a set of positive integers
          QueueDepth,     \* QUEUE_DEPTH
          CompleteBatch,  \* COMPLETE_BATCH
          PendingMod      \* pending_ is unsigned: 2^64

VARIABLES fd,         \* fd_ is not -1
          registered, \* registered_files_ > 0
          sq,         \* entries the kernel has not taken
          visible,    \* how many of them have been submitted
          kern,       \* entries the kernel is executing
          cq,         \* entries whose completion has not been seen
          pending,    \* pending_
          live,       \* WriteRequests that are allocated
          call,       \* the call in progress: "none", "write", "flush", "wait" (wait_all)
          line,       \* the line it writes
          disk,       \* lines that are in the file
          lost,       \* history: lines not accepted, or whose write failed or was short
          broken      \* history: a submit has failed

Fsync == 0
SUBMIT_BATCH == QueueDepth \div 2

Init == /\ fd = FALSE /\ registered = FALSE
        /\ sq = <<>> /\ visible = 0 /\ kern = {} /\ cq = <<>> /\ pending = 0 /\ live = {}
        /\ call = "none" /\ line = 0
        /\ disk = {} /\ lost = {} /\ broken = FALSE
-----------------------------------------------------------------------------
\* open_file(): open() may fail; then lseek64() or the registration may.
OpenFile == /\ \/ fd' = FALSE /\ registered' = FALSE
               \/ fd' = TRUE /\ registered' \in BOOLEAN
            /\ UNCHANGED <<sq, visible, kern, cq, pending, live, call, line, disk, lost, broken>>

\* Mutant of Handle: the counter is left alone.
HandleUncounted(n) == /\ live' = live \ Range(SubSeq(cq, 1, n))
                      /\ cq' = SubSeq(cq, n + 1, Len(cq))
                      /\ UNCHANGED pending

\* handle_cqe() for the first n completions, whatever their result.
Handle(n) == /\ live' = live \ Range(SubSeq(cq, 1, n))
             /\ cq' = SubSeq(cq, n + 1, Len(cq))
             /\ pending' = (pending - n) % PendingMod

\* peek_completions()
peek_completions == Handle(IF Len(cq) < CompleteBatch THEN Len(cq) ELSE CompleteBatch)

\* write(): without a file, or a registered one, the line is gone.
WriteNoFile(l) == /\ call = "none" /\ ~(fd /\ registered)
                  /\ lost' = lost \cup {l}
                  /\ UNCHANGED <<fd, registered, sq, visible, kern, cq, pending, live, call, line,
                                 disk, broken>>

\* write() and write_async(): completions are harvested when there are many.
Write(l) == /\ call = "none" /\ fd /\ registered
            /\ IF pending >= CompleteBatch THEN peek_completions ELSE UNCHANGED <<live, cq, pending>>
            /\ call' = "write" /\ line' = l
            /\ UNCHANGED <<fd, registered, sq, visible, kern, disk, lost, broken>>

\* wait_sq_space_left(): no free entry, completions are harvested until there is one.
Spin == /\ call \in {"write", "flush"} /\ Len(sq) = QueueDepth
        /\ cq # <<>> /\ peek_completions
        /\ UNCHANGED <<fd, registered, sq, visible, kern, call, line, disk, lost, broken>>

\* write_async(): the entry is prepared, and submitted with those before it if enough
\* are pending.  If that fails the request is deleted and not counted, but its entry
\* stays.
WriteEntry == /\ call = "write" /\ Len(sq) < QueueDepth
              /\ sq' = Append(sq, line)
              /\ visible' = IF pending >= SUBMIT_BATCH THEN Len(sq') ELSE visible
              /\ \/ /\ live' = live \cup {line} /\ pending' = (pending + 1) % PendingMod
                    /\ UNCHANGED broken
                 \/ /\ pending >= SUBMIT_BATCH
                    /\ UNCHANGED <<live, pending>>
                    /\ broken' = TRUE
              /\ call' = "none"
              /\ UNCHANGED <<fd, registered, kern, cq, line, disk, lost>>

\* close_file() and with it flush(), if there is a file.
CloseFile == /\ call = "none" /\ fd
             /\ call' = "flush"
             /\ UNCHANGED <<fd, registered, sq, visible, kern, cq, pending, live, line, disk, lost, broken>>

\* fsync_and_wait(): the entry of the fsync is prepared and submitted with all before it.
\* If that fails it is not counted; UringAIO::close() waits all the same.
FsyncEntry == /\ call = "flush" /\ Len(sq) < QueueDepth
              /\ sq' = Append(sq, Fsync) /\ visible' = Len(sq')
              /\ \/ pending' = (pending + 1) % PendingMod /\ UNCHANGED broken
                 \/ broken' = TRUE /\ UNCHANGED pending
              /\ call' = "wait"
              /\ UNCHANGED <<fd, registered, kern, cq, live, line, disk, lost>>

\* wait_all(): one turn of its loop.
WaitOne == /\ call = "wait" /\ pending > 0 /\ cq # <<>>
           /\ Handle(1)
           /\ UNCHANGED <<fd, registered, sq, visible, kern, call, line, disk, lost, broken>>

\* wait_all() is over: the ring and the file are closed.
WaitDone == /\ call = "wait" /\ pending = 0
            /\ fd' = FALSE /\ registered' = FALSE /\ call' = "none"
            /\ UNCHANGED <<sq, visible, kern, cq, pending, live, line, disk, lost, broken>>

User == Spin \/ WriteEntry \/ FsyncEntry \/ WaitOne \/ WaitDone
-----------------------------------------------------------------------------
\* The kernel's thread takes the next entry it can see.
Poll == /\ visible > 0
        /\ kern' = kern \cup {Head(sq)} /\ sq' = Tail(sq) /\ visible' = visible - 1
        /\ UNCHANGED <<fd, registered, cq, pending, live, call, line, disk, lost, broken>>

\* It completes an entry.  A write is in the file unless it fails, is short, or reads a
\* buffer that has been deleted.
Complete(e) == /\ e \in kern
               /\ kern' = kern \ {e} /\ cq' = Append(cq, e)
               /\ \/ /\ e = Fsync \/ e \in live
                     /\ disk' = disk \cup ({e} \ {Fsync}) /\ UNCHANGED lost
                  \/ /\ e # Fsync
                     /\ lost' = lost \cup {e} /\ UNCHANGED disk
               /\ UNCHANGED <<fd, registered, sq, visible, pending, live, call, line, broken>>

Kernel == Poll \/ (\E e \in Lines \cup {Fsync} : Complete(e))
-----------------------------------------------------------------------------
TypeOK == /\ {fd, registered, broken} \subseteq BOOLEAN
          /\ sq \in Seq(Lines \cup {Fsync}) /\ cq \in Seq(Lines \cup {Fsync})
          /\ kern \subseteq Lines \cup {Fsync} /\ visible \in 0 .. Len(sq)
          /\ pending \in 0 .. PendingMod - 1 /\ live \subseteq Lines
          /\ call \in {"none", "write", "flush", "wait"} /\ line \in Lines \cup {0}
          /\ disk \subseteq Lines /\ lost \subseteq Lines

\* Unless a submit has failed, the copy that write_async() makes of a line
\* (uring_aio.h:88-91) exists until the completion of its entry has been seen and no
\* longer, and pending_ counts the entries, so that wait_all() waits for all there is and
\* for no more.  At most SUBMIT_BATCH entries wait for a submit: a queue full of entries
\* the kernel cannot see would keep wait_sq_space_left() for ever, for it submits nothing.
BuffersAlive == /\ TypeOK
                /\ ~broken => /\ live = (Range(sq) \cup kern \cup Range(cq)) \ {Fsync}
                              /\ pending = Len(sq) + Cardinality(kern) + Len(cq)
                              /\ Len(sq) - visible <= SUBMIT_BATCH
=============================================================================
