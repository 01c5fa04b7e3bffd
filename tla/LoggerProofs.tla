---------------------------- MODULE LoggerProofs ----------------------------
(***************************************************************************)
(* Proofs about the logger for any number of threads, lines, slots of the  *)
(* queue and entries of the ring.                                          *)
(***************************************************************************)
EXTENDS Logger, FiniteSetTheorems, TLAPS

\* The provers, tried in this order, and how long each may take.
USE SMTT(20), Z3T(20), Zenon

Entry == Lines \cup {File!Fsync}

\* What the submission and completion queues hold after an entry is added, after the
\* oldest is taken, and after the n oldest are taken.
LEMMA Added ==
    ASSUME NEW S, NEW q \in Seq(S), NEW x \in S
    PROVE  /\ Append(q, x) \in Seq(S) /\ Len(Append(q, x)) = Len(q) + 1 /\ Len(q) \in Nat
           /\ File!Range(Append(q, x)) = File!Range(q) \cup {x}
           /\ File!IsInjective(q) /\ x \notin File!Range(q) => File!IsInjective(Append(q, x))
<1> DEFINE r == Append(q, x)
<1>1. /\ r \in Seq(S) /\ Len(q) \in Nat /\ Len(r) = Len(q) + 1 /\ r[Len(q) + 1] = x
      /\ \A i \in 1 .. Len(q) : r[i] = q[i]
      /\ DOMAIN r = 1 .. Len(q) + 1 /\ DOMAIN q = 1 .. Len(q)
  OBVIOUS
<1> HIDE DEF r
<1>2. /\ \A i \in DOMAIN q : i \in DOMAIN r /\ r[i] = q[i]
      /\ Len(q) + 1 \in DOMAIN r /\ Len(q) + 1 \notin DOMAIN q
      /\ \A i \in DOMAIN r : i \in DOMAIN q \/ i = Len(q) + 1
  BY <1>1
<1>3. File!Range(r) = File!Range(q) \cup {x}
  BY <1>1, <1>2, Zenon DEF File!Range
<1>4. File!IsInjective(q) /\ x \notin File!Range(q) => File!IsInjective(r)
  BY <1>1, <1>2, ZenonT(60) DEF File!Range, File!IsInjective
<1> QED BY <1>1, <1>3, <1>4 DEF r

LEMMA Taken ==
    ASSUME NEW S, NEW q \in Seq(S), q # << >>
    PROVE  /\ Head(q) \in S /\ Tail(q) \in Seq(S) /\ Len(q) \in Nat \ {0} /\ Len(Tail(q)) = Len(q) - 1
           /\ File!Range(q) = File!Range(Tail(q)) \cup {Head(q)}
           /\ File!IsInjective(q) => File!IsInjective(Tail(q)) /\ Head(q) \notin File!Range(Tail(q))
<1> DEFINE r == Tail(q)
           h == Head(q)
<1>1. /\ h \in S /\ r \in Seq(S) /\ Len(q) \in Nat \ {0} /\ Len(r) = Len(q) - 1 /\ h = q[1]
      /\ DOMAIN r = 1 .. Len(q) - 1 /\ DOMAIN q = 1 .. Len(q)
      /\ \A i \in 1 .. Len(q) - 1 : r[i] = q[i + 1]
  OBVIOUS
<1> HIDE DEF r, h
<1>2. /\ \A i \in DOMAIN r : i + 1 \in DOMAIN q /\ r[i] = q[i + 1] /\ i + 1 # 1
      /\ \A i \in DOMAIN q : i = 1 \/ (i - 1 \in DOMAIN r /\ r[i - 1] = q[i])
      /\ \A i, j \in DOMAIN r : i + 1 = j + 1 => i = j
      /\ 1 \in DOMAIN q /\ h = q[1]
  BY <1>1
<1>3. File!Range(q) = File!Range(r) \cup {h}
  BY <1>2 DEF File!Range
<1>4. File!IsInjective(q) => File!IsInjective(r) /\ h \notin File!Range(r)
  BY <1>2 DEF File!Range, File!IsInjective
<1> QED BY <1>1, <1>3, <1>4 DEF r, h

LEMMA Dropped ==
    ASSUME NEW S, NEW q \in Seq(S), NEW n \in 0 .. Len(q)
    PROVE  LET first == SubSeq(q, 1, n)
               rest == SubSeq(q, n + 1, Len(q))
           IN /\ rest \in Seq(S) /\ Len(q) \in Nat /\ Len(rest) = Len(q) - n
              /\ File!Range(q) = File!Range(first) \cup File!Range(rest)
              /\ File!IsInjective(q) => /\ File!IsInjective(rest)
                                        /\ File!Range(first) \cap File!Range(rest) = {}
<1> DEFINE first == SubSeq(q, 1, n)
           rest == SubSeq(q, n + 1, Len(q))
<1>1. /\ rest \in Seq(S) /\ Len(q) \in Nat /\ Len(rest) = Len(q) - n /\ n \in Nat
      /\ DOMAIN q = 1 .. Len(q)
  OBVIOUS
<1>2. DOMAIN first = 1 .. n /\ \A i \in 1 .. n : first[i] = q[i]
  OBVIOUS
<1>3. DOMAIN rest = 1 .. Len(q) - n /\ \A i \in 1 .. Len(q) - n : rest[i] = q[i + n]
  OBVIOUS
<1> HIDE DEF first, rest
<1>4. /\ \A i \in DOMAIN first : i \in DOMAIN q /\ first[i] = q[i]
      /\ \A i \in DOMAIN rest : i + n \in DOMAIN q /\ rest[i] = q[i + n]
      /\ \A i \in DOMAIN q : \/ i \in DOMAIN first /\ first[i] = q[i]
                             \/ i - n \in DOMAIN rest /\ rest[i - n] = q[i]
      /\ \A i \in DOMAIN first, j \in DOMAIN rest : i # j + n
      /\ \A i, j \in DOMAIN rest : i + n = j + n => i = j
  BY <1>1, <1>2, <1>3
<1>5. File!Range(q) = File!Range(first) \cup File!Range(rest)
  BY <1>4 DEF File!Range
<1>6. File!IsInjective(q) => File!IsInjective(rest) /\ File!Range(first) \cap File!Range(rest) = {}
  BY <1>4 DEF File!Range, File!IsInjective
<1> QED BY <1>1, <1>5, <1>6, Zenon DEF first, rest

\* Sets of entries are finite; what adding and removing one does to their size.
LEMMA EntrySets ==
    ASSUME NEW S \in SUBSET Entry
    PROVE  /\ Cardinality(S) \in Nat /\ (Cardinality(S) = 0 => S = {})
           /\ \A e : /\ e \in S => Cardinality(S \ {e}) = Cardinality(S) - 1
                     /\ e \notin S => Cardinality(S \cup {e}) = Cardinality(S) + 1
<1>1. IsFiniteSet(Entry)
  <2>1. IsFiniteSet(1 .. MaxLines)
    BY LoggerAssumption, FS_Interval
  <2> QED BY <2>1, FS_AddElement, Zenon DEF Entry, Lines
<1>2. IsFiniteSet(S)
  BY <1>1, FS_Subset
<1>3. Cardinality(S) \in Nat /\ (Cardinality(S) = 0 <=> S = {})
  BY <1>2, FS_CardinalityType, FS_EmptySet
<1>4. ASSUME NEW e PROVE Cardinality(S \ {e}) = IF e \in S THEN Cardinality(S) - 1 ELSE Cardinality(S)
  BY <1>2, FS_RemoveElement
<1>5. ASSUME NEW e PROVE Cardinality(S \cup {e}) = IF e \in S THEN Cardinality(S) ELSE Cardinality(S) + 1
  BY <1>2, FS_AddElement
<1> QED BY <1>3, <1>4, <1>5
-----------------------------------------------------------------------------
\* The type of the file without what is true or false of it.
FileType == /\ sq \in Seq(Entry) /\ cq \in Seq(Entry)
            /\ kern \subseteq Entry /\ visible \in 0 .. Len(sq)
            /\ pending \in 0 .. PendingMod - 1 /\ live \subseteq Lines
            /\ call \in {"none", "write", "flush", "wait"} /\ line \in Lines \cup {0}
            /\ disk \subseteq Lines /\ lost \subseteq Lines
FileFlags == {fd, registered, broken} \subseteq BOOLEAN

\* What BuffersAlive says while no submit has failed.
Counted == /\ live = (File!Range(sq) \cup kern \cup File!Range(cq)) \ {File!Fsync}
           /\ pending = Len(sq) + Cardinality(kern) + Len(cq)
           /\ Len(sq) - visible <= File!SUBMIT_BATCH

LEMMA FileSplit == File!BuffersAlive <=> FileFlags /\ FileType /\ (~broken => Counted)
<1>1. File!TypeOK <=> FileFlags /\ FileType
  BY DEF File!TypeOK, FileFlags, FileType, Entry
<1>2. File!Cardinality(kern) = Cardinality(kern)
  BY DEF File!Cardinality, Cardinality, File!IsFiniteSet, IsFiniteSet
<1> QED BY <1>1, <1>2, Zenon DEF File!BuffersAlive, Counted

\* No entry is in two places.
Apart == /\ File!IsInjective(sq) /\ File!IsInjective(cq)
         /\ File!Range(sq) \cap kern = {} /\ File!Range(sq) \cap File!Range(cq) = {}
         /\ kern \cap File!Range(cq) = {}

InFlight == File!Range(sq) \cup kern \cup File!Range(cq)

\* handle_cqe() frees the buffers of the completions it counts, and no other.
LEMMA Harvest ==
    ASSUME FileType, Counted, Apart, NEW n \in 0 .. Len(cq), File!Handle(n),
           UNCHANGED <<sq, visible, kern>>
    PROVE  /\ Counted' /\ Apart' /\ InFlight' \subseteq InFlight
           /\ cq' \in Seq(Entry) /\ live' \subseteq Lines
           /\ pending' \in 0 .. PendingMod - 1 /\ pending' = pending - n
<1> DEFINE first == File!Range(SubSeq(cq, 1, n))
           rest == File!Range(SubSeq(cq, n + 1, Len(cq)))
<1>1. /\ live' = live \ first /\ cq' = SubSeq(cq, n + 1, Len(cq))
      /\ pending' = (pending - n) % PendingMod
  BY DEF File!Handle
<1>2. /\ cq' \in Seq(Entry) /\ Len(cq) \in Nat /\ Len(cq') = Len(cq) - n
      /\ File!Range(cq) = first \cup rest /\ File!Range(cq') = rest
      /\ File!IsInjective(cq') /\ first \cap rest = {}
  BY <1>1, Dropped DEF FileType, Apart
<1> HIDE DEF first, rest
<1>3. Len(sq) \in Nat /\ Cardinality(kern) \in Nat
  BY EntrySets DEF FileType
<1>4. pending' = pending - n /\ pending' \in 0 .. PendingMod - 1
  <2>1. pending - n \in 0 .. PendingMod - 1
    <3>1. pending \in 0 .. PendingMod - 1
      BY DEF FileType
    <3>2. pending = Len(sq) + Cardinality(kern) + Len(cq)
      BY DEF Counted
    <3>3. PendingMod \in Nat
      BY LoggerAssumption
    <3>4. Len(cq) \in Nat
      BY <1>2
    <3> QED BY <1>3, <3>1, <3>2, <3>3, <3>4
  <2> QED BY <1>1, <2>1, LoggerAssumption
<1>5. live' = (File!Range(sq') \cup kern' \cup File!Range(cq')) \ {File!Fsync}
  BY <1>1, <1>2 DEF Counted, Apart
<1>6. pending' = Len(sq') + Cardinality(kern') + Len(cq')
  BY <1>2, <1>3, <1>4 DEF Counted
<1>7. Counted'
  BY <1>5, <1>6 DEF Counted, File!SUBMIT_BATCH
<1>8. Apart' /\ InFlight' \subseteq InFlight
  BY <1>2 DEF Apart, InFlight
<1> QED BY <1>1, <1>2, <1>4, <1>7, <1>8 DEF FileType

\* write_async() and fsync_and_wait() put an entry e that is not in flight into the queue.
LEMMA Queue ==
    ASSUME FileType, Counted, Apart, NEW e \in Entry, e \notin InFlight,
           sq' = Append(sq, e), pending' = (pending + 1) % PendingMod,
           live' = live \cup ({e} \ {File!Fsync}), pending + 1 < PendingMod,
           visible' = Len(sq') \/ (visible' = visible /\ pending < File!SUBMIT_BATCH),
           UNCHANGED <<kern, cq>>
    PROVE  /\ Counted' /\ Apart' /\ InFlight' = InFlight \cup {e}
           /\ File!Range(sq') = File!Range(sq) \cup {e} /\ pending' = pending + 1
<1>1. /\ sq' \in Seq(Entry) /\ Len(sq') = Len(sq) + 1 /\ Len(sq) \in Nat
      /\ File!Range(sq') = File!Range(sq) \cup {e} /\ File!IsInjective(sq')
  BY Added DEF FileType, Apart, InFlight
<1>2. Cardinality(kern) \in Nat /\ Len(cq) \in Nat
  BY EntrySets DEF FileType
<1>3. pending' = pending + 1
  <2>1. pending + 1 \in 0 .. PendingMod - 1
    BY LoggerAssumption DEF FileType
  <2> QED BY <2>1, LoggerAssumption
<1>4. live' = (File!Range(sq') \cup kern' \cup File!Range(cq')) \ {File!Fsync}
  BY <1>1 DEF Counted
<1>5. pending' = Len(sq') + Cardinality(kern') + Len(cq')
  BY <1>1, <1>2, <1>3 DEF Counted
<1>6. Len(sq') - visible' <= File!SUBMIT_BATCH
  <2>1. File!SUBMIT_BATCH \in Nat
    BY LoggerAssumption DEF File!SUBMIT_BATCH
  <2>2. Len(sq) <= pending /\ visible \in Nat /\ Len(sq') \in Nat
    BY <1>1, <1>2 DEF Counted, FileType
  <2> QED BY <1>1, <2>1, <2>2 DEF FileType
<1>7. Counted'
  BY <1>4, <1>5, <1>6 DEF Counted, File!SUBMIT_BATCH
<1>8. Apart'
  BY <1>1 DEF Apart, InFlight
<1> QED BY <1>1, <1>3, <1>7, <1>8 DEF InFlight

\* The kernel takes an entry from the queue, and completes one.
LEMMA PollStep ==
    ASSUME FileType, File!Poll
    PROVE  /\ FileType'
           /\ Counted /\ Apart => /\ Counted' /\ Apart' /\ InFlight' = InFlight
                                  /\ File!Range(sq') \cup kern' = File!Range(sq) \cup kern
<1>1. sq # << >> /\ kern' = kern \cup {Head(sq)} /\ sq' = Tail(sq) /\ visible' = visible - 1
  BY DEF File!Poll, FileType
<1>2. /\ Head(sq) \in Entry /\ sq' \in Seq(Entry) /\ Len(sq) \in Nat \ {0} /\ Len(sq') = Len(sq) - 1
      /\ File!Range(sq) = File!Range(sq') \cup {Head(sq)}
      /\ File!IsInjective(sq) => File!IsInjective(sq') /\ Head(sq) \notin File!Range(sq')
  BY <1>1, Taken DEF FileType
<1>3. FileType'
  BY <1>1, <1>2 DEF File!Poll, FileType
<1>4. ASSUME Counted, Apart PROVE Counted' /\ Apart'
  <2>1. Head(sq) \notin kern /\ Cardinality(kern') = Cardinality(kern) + 1 /\ Cardinality(kern) \in Nat
    BY <1>1, <1>2, <1>4, EntrySets DEF FileType, Apart
  <2>2. live' = (File!Range(sq') \cup kern' \cup File!Range(cq')) \ {File!Fsync}
    BY <1>1, <1>2, <1>4 DEF File!Poll, Counted
  <2>3. pending' = Len(sq') + Cardinality(kern') + Len(cq')
    BY <1>2, <1>4, <2>1 DEF File!Poll, Counted, FileType
  <2>4. Len(sq') - visible' <= File!SUBMIT_BATCH
    BY <1>1, <1>2, <1>4 DEF File!Poll, Counted, FileType
  <2>5. Apart'
    BY <1>1, <1>2, <1>4 DEF File!Poll, Apart
  <2> QED BY <2>2, <2>3, <2>4, <2>5 DEF Counted, File!SUBMIT_BATCH
<1>5. File!Range(sq') \cup kern' = File!Range(sq) \cup kern /\ InFlight' = InFlight
  BY <1>1, <1>2 DEF File!Poll, InFlight
<1> QED BY <1>3, <1>4, <1>5

LEMMA CompleteStep ==
    ASSUME FileType, NEW e \in Entry, File!Complete(e)
    PROVE  /\ FileType'
           /\ Counted /\ Apart => /\ Counted' /\ Apart' /\ InFlight' = InFlight
                                  /\ disk \cup lost \subseteq disk' \cup lost'
                                  /\ kern \ kern' \subseteq disk' \cup lost' \cup {File!Fsync}
<1>1. e \in kern /\ kern' = kern \ {e} /\ cq' = Append(cq, e)
  BY DEF File!Complete
<1>2. /\ cq' \in Seq(Entry) /\ Len(cq') = Len(cq) + 1 /\ Len(cq) \in Nat
      /\ File!Range(cq') = File!Range(cq) \cup {e}
      /\ File!IsInjective(cq) /\ e \notin File!Range(cq) => File!IsInjective(cq')
  BY <1>1, Added DEF FileType
<1>3. FileType'
  BY <1>1, <1>2 DEF File!Complete, FileType, Entry
<1>4. ASSUME Counted, Apart PROVE Counted' /\ Apart'
  <2>1. Cardinality(kern') = Cardinality(kern) - 1 /\ Cardinality(kern) \in Nat
    BY <1>1, EntrySets DEF FileType
  <2>2. live' = (File!Range(sq') \cup kern' \cup File!Range(cq')) \ {File!Fsync}
    BY <1>1, <1>2, <1>4 DEF File!Complete, Counted
  <2>3. pending' = Len(sq') + Cardinality(kern') + Len(cq')
    <3>1. pending' = pending /\ Len(sq') = Len(sq) /\ Len(sq) \in Nat
      BY DEF File!Complete, FileType
    <3>2. pending = Len(sq) + Cardinality(kern) + Len(cq)
      BY <1>4 DEF Counted
    <3> QED BY <1>2, <2>1, <3>1, <3>2
  <2>4. Apart'
    BY <1>1, <1>2, <1>4 DEF File!Complete, Apart
  <2> QED BY <1>4, <2>2, <2>3, <2>4 DEF Counted, File!SUBMIT_BATCH, File!Complete
<1>5. InFlight' = InFlight
  BY <1>1, <1>2 DEF File!Complete, InFlight
<1>6. /\ disk \cup lost \subseteq disk' \cup lost'
      /\ kern \ kern' \subseteq disk' \cup lost' \cup {File!Fsync}
  BY <1>1 DEF File!Complete
<1> QED BY <1>3, <1>4, <1>5, <1>6
-----------------------------------------------------------------------------
\* ThreadsInv in two parts: numbers and sets, and what is true or false.
QueueInv ==
    /\ level \in Levels /\ head \in 0 .. tail /\ tail \in 0 .. MaxLines
    /\ pc \in [Threads -> {"idle", "emplace"}] /\ mine \in [Threads -> 0 .. MaxLines]
    /\ worker \in {"none", "test", "take", "pop", "write", "file", "exit"}
    /\ owner \in {"start", "ready", "join", "stop", "close", "end"}
    /\ \A t \in Threads : pc[t] = "emplace" => mine[t] \in 1 .. tail
    /\ ready \subseteq 1 .. tail /\ owed \subseteq 1 .. tail
    /\ freed = IF worker = "pop" THEN head - 1 ELSE head
    /\ worker \in {"pop", "write", "file"} => head > 0
    /\ worker = "exit" => owed \subseteq 1 .. head

ControlInv ==
    /\ stop \in BOOLEAN /\ (stop <=> owner \in {"stop", "close", "end"})
    /\ owner = "start" => worker = "none"
    /\ owner \in {"close", "end"} => worker \in {"none", "exit"}
    /\ worker = "exit" => stop
    /\ call = "write" => worker = "file" /\ line = head
    /\ call \in {"flush", "wait"} => owner = "close"
    /\ fd => owner \notin {"start", "end"} /\ (owner = "close" => call # "none")
    /\ call # "none" => fd

LEMMA ThreadsSplit == ThreadsInv <=> QueueInv /\ ControlInv
<1>1. QueueInv => ready \subseteq Lines /\ freed \in 0 .. head /\ owed \subseteq Lines
  BY LoggerAssumption DEF QueueInv, Lines
<1> QED BY <1>1, Zenon DEF ThreadsInv, TypeOK, QueueInv, ControlInv

LEMMA QueueStep == QueueInv /\ ControlInv /\ [Next]_vars => QueueInv'
<1> SUFFICES ASSUME QueueInv, ControlInv, [Next]_vars PROVE QueueInv'
  OBVIOUS
<1>1. ASSUME NEW l \in Levels, InitFirst(l) PROVE QueueInv'
  BY <1>1, LoggerAssumption DEF InitFirst, File!OpenFile, queue, file, QueueInv
<1>2. ASSUME NEW t \in Threads, NEW l \in Levels, Log(t, l) PROVE QueueInv'
  BY <1>2, LoggerAssumption DEF Log, queue, file, QueueInv
<1>3. ASSUME NEW t \in Threads, Emplace(t) PROVE QueueInv'
  <2>1. mine[t] \in 1 .. tail /\ ready' \subseteq 1 .. tail
    BY <1>3, Zenon DEF Emplace, QueueInv
  <2>2. /\ pc' \in [Threads -> {"idle", "emplace"}] /\ mine' \in [Threads -> 0 .. MaxLines]
        /\ \A u \in Threads : pc'[u] = "emplace" => pc[u] = "emplace" /\ mine'[u] = mine[u]
    BY <1>3, LoggerAssumption DEF Emplace, QueueInv
  <2> QED BY <1>3, <2>1, <2>2 DEF Emplace, QueueInv
<1>4. CASE InitAgain
  BY <1>4, LoggerAssumption DEF InitAgain, queue, file, QueueInv
<1>5. CASE WorkerTest
  BY <1>5, LoggerAssumption DEF WorkerTest, queue, file, QueueInv
<1>6. CASE WorkerTake
  BY <1>6, LoggerAssumption DEF WorkerTake, queue, file, QueueInv
<1>7. CASE WorkerPop
  BY <1>7, LoggerAssumption DEF WorkerPop, queue, file, QueueInv
<1>8. CASE WorkerWrite
  BY <1>8, LoggerAssumption DEF WorkerWrite, File!Write, File!WriteNoFile, queue, file, QueueInv
<1>9. CASE WorkerWritten
  BY <1>9, LoggerAssumption DEF WorkerWritten, queue, file, QueueInv
<1>10. CASE Destroy
  <2>1. worker # "exit"
    BY <1>10, Zenon DEF Destroy, ControlInv
  <2> QED BY <1>10, <2>1 DEF Destroy, queue, QueueInv
<1>11. CASE DestroyJoined
  BY <1>11, LoggerAssumption DEF DestroyJoined, File!CloseFile, queue, file, QueueInv
<1>12. CASE DestroyClosed
  BY <1>12, LoggerAssumption DEF DestroyClosed, queue, file, QueueInv
<1>13. CASE FileStep(File!User)
  BY <1>13, LoggerAssumption DEF FileStep, File!User, File!Spin, File!WriteEntry, File!FsyncEntry,
     File!WaitOne, File!WaitDone, queue, file, QueueInv
<1>14. CASE FileStep(File!Kernel)
  BY <1>14, LoggerAssumption DEF FileStep, File!Kernel, File!Poll, File!Complete, queue, file,
     QueueInv
<1>15. CASE UNCHANGED vars
  BY <1>15, LoggerAssumption DEF vars, queue, file, QueueInv
<1> QED BY <1>1, <1>2, <1>3, <1>4, <1>5, <1>6, <1>7, <1>8, <1>9, <1>10, <1>11, <1>12, <1>13, <1>14,
           <1>15
    DEF Next, Worker

LEMMA ControlStep == QueueInv /\ ControlInv /\ FileType /\ [Next]_vars => ControlInv'
<1> SUFFICES ASSUME QueueInv, ControlInv, FileType, [Next]_vars PROVE ControlInv'
  OBVIOUS
<1>1. ASSUME NEW l \in Levels, InitFirst(l) PROVE ControlInv'
  BY <1>1, Zenon DEF InitFirst, File!OpenFile, queue, file, QueueInv, ControlInv, FileType
<1>2. ASSUME NEW t \in Threads, NEW l \in Levels, Log(t, l) PROVE ControlInv'
  BY <1>2, Zenon DEF Log, queue, file, QueueInv, ControlInv, FileType
<1>3. ASSUME NEW t \in Threads, Emplace(t) PROVE ControlInv'
  BY <1>3, Zenon DEF Emplace, queue, file, QueueInv, ControlInv, FileType
<1>4. CASE InitAgain
  BY <1>4, Zenon DEF InitAgain, queue, file, QueueInv, ControlInv, FileType
<1>5. CASE WorkerTest
  BY <1>5, Zenon DEF WorkerTest, queue, file, QueueInv, ControlInv, FileType
<1>6. CASE WorkerTake
  BY <1>6, Zenon DEF WorkerTake, queue, file, QueueInv, ControlInv, FileType
<1>7. CASE WorkerPop
  BY <1>7, Zenon DEF WorkerPop, queue, file, QueueInv, ControlInv, FileType
<1>8. CASE WorkerWrite
  BY <1>8, Zenon DEF WorkerWrite, File!Write, File!WriteNoFile, queue, file, QueueInv, ControlInv,
     FileType
<1>9. CASE WorkerWritten
  BY <1>9, Zenon DEF WorkerWritten, queue, file, QueueInv, ControlInv, FileType
<1>10. CASE Destroy
  BY <1>10, Zenon DEF Destroy, queue, file, QueueInv, ControlInv, FileType
<1>11. CASE DestroyJoined
  <2>1. CASE File!CloseFile /\ owner' = "close"
    BY <1>11, <2>1, Zenon DEF DestroyJoined, File!CloseFile, queue, ControlInv
  <2>2. CASE ~fd /\ owner' = "end" /\ UNCHANGED file
    BY <1>11, <2>2, Zenon DEF DestroyJoined, queue, file, ControlInv
  <2> QED BY <1>11, <2>1, <2>2, Zenon DEF DestroyJoined
<1>12. CASE DestroyClosed
  BY <1>12, Zenon DEF DestroyClosed, queue, file, QueueInv, ControlInv, FileType
<1>13. CASE FileStep(File!User)
  BY <1>13, Zenon DEF FileStep, File!User, File!Spin, File!WriteEntry, File!FsyncEntry,
     File!WaitOne, File!WaitDone, queue, file, QueueInv, ControlInv, FileType
<1>14. CASE FileStep(File!Kernel)
  <2>1. UNCHANGED <<call, line, fd, stop, owner, worker, head>>
    BY <1>14, Zenon DEF FileStep, File!Kernel, File!Poll, File!Complete, queue
  <2> QED BY <2>1, Zenon DEF ControlInv
<1>15. CASE UNCHANGED vars
  BY <1>15, Zenon DEF vars, queue, file, QueueInv, ControlInv, FileType
<1> QED BY <1>1, <1>2, <1>3, <1>4, <1>5, <1>6, <1>7, <1>8, <1>9, <1>10, <1>11, <1>12, <1>13, <1>14,
           <1>15
    DEF Next, Worker
-----------------------------------------------------------------------------
\* EntriesInv in three parts: Apart, where the lines are, and a closed file.
Placed == /\ InFlight \subseteq 1 .. Written \cup {File!Fsync}
          /\ File!Fsync \in InFlight => call = "wait"
          /\ 1 .. Written \subseteq disk \cup lost \cup File!Range(sq) \cup kern
          /\ pending <= Written + (IF call = "wait" THEN 1 ELSE 0)
Closed == ~fd => pending = 0

LEMMA EntriesSplit == EntriesInv <=> Apart /\ Placed /\ Closed
  BY Zenon DEF EntriesInv, Apart, Placed, Closed, InFlight

LEMMA WrittenIsNat == QueueInv /\ ControlInv => Written \in 0 .. head /\ head \in Nat /\ head <= MaxLines
<1>1. ControlInv => (call = "write" => worker = "file")
  BY Zenon DEF ControlInv
<1> QED BY <1>1, LoggerAssumption DEF QueueInv, Written

LEMMA ClosedStep == ControlInv /\ Closed /\ [Next]_vars => Closed'
<1> SUFFICES ASSUME ControlInv, Closed, [Next]_vars, ~fd' PROVE pending' = 0
  BY DEF Closed
<1>1. CASE UNCHANGED <<fd, pending>>
  BY <1>1 DEF Closed
<1>2. ASSUME NEW l \in Levels, InitFirst(l) PROVE pending' = 0
  BY <1>2, Zenon DEF InitFirst, File!OpenFile, ControlInv, Closed
<1>3. CASE WorkerWrite
  <2>1. ~File!Write(head)
    <3>1. File!Write(head) => fd /\ fd' = fd
      BY Zenon DEF File!Write
    <3> QED BY <3>1
  <2>2. File!WriteNoFile(head) => UNCHANGED <<fd, pending>>
    BY Zenon DEF File!WriteNoFile
  <2> QED BY <1>1, <1>3, <2>1, <2>2, Zenon DEF WorkerWrite
<1>4. CASE FileStep(File!User)
  <2>1. CASE File!WaitDone
    BY <2>1, Zenon DEF File!WaitDone
  <2>2. CASE File!Spin \/ File!WriteEntry \/ File!FsyncEntry \/ File!WaitOne
    <3>1. call # "none" /\ fd' = fd
      BY <2>2, Zenon DEF File!Spin, File!WriteEntry, File!FsyncEntry, File!WaitOne
    <3> QED BY <3>1, Zenon DEF ControlInv
  <2> QED BY <1>4, <2>1, <2>2, Zenon DEF FileStep, File!User
<1>5. CASE FileStep(File!Kernel) \/ DestroyJoined
  BY <1>1, <1>5, Zenon DEF FileStep, File!Kernel, File!Poll, File!Complete, DestroyJoined,
                           File!CloseFile, file
<1> QED BY <1>1, <1>2, <1>3, <1>4, <1>5, Zenon
    DEF Next, Worker, Log, Emplace, InitAgain, WorkerTest, WorkerTake, WorkerPop, WorkerWritten,
        Destroy, DestroyClosed, file, vars

\* A step outside the file that hands it no line.
LEMMA QuietStep == ASSUME UNCHANGED file, Written' = Written
                   PROVE  /\ FileType => FileType'
                          /\ Counted => Counted'
                          /\ Apart => Apart'
                          /\ Placed => Placed'
<1>1. FileType => FileType'
  BY DEF file, FileType
<1>2. Counted => Counted'
  BY DEF file, Counted, File!SUBMIT_BATCH
<1>3. (Apart => Apart') /\ (Placed => Placed')
  BY DEF file, Apart, Placed, InFlight
<1> QED BY <1>1, <1>2, <1>3

LEMMA FlagsStep == FileFlags /\ [Next]_vars => FileFlags'
<1> SUFFICES ASSUME FileFlags, [Next]_vars PROVE FileFlags'
  OBVIOUS
<1>1. CASE UNCHANGED <<fd, registered, broken>>
  BY <1>1, Zenon DEF FileFlags
<1>2. ASSUME NEW l \in Levels, InitFirst(l) PROVE FileFlags'
  BY <1>2, Zenon DEF InitFirst, File!OpenFile, FileFlags
<1>3. CASE WorkerWrite
  BY <1>1, <1>3, Zenon DEF WorkerWrite, File!Write, File!WriteNoFile
<1>4. CASE FileStep(File!User)
  <2>1. CASE File!Spin \/ File!WaitOne
    BY <1>1, <2>1, Zenon DEF File!Spin, File!WaitOne
  <2>2. CASE File!WriteEntry \/ File!FsyncEntry
    <3>1. UNCHANGED <<fd, registered>> /\ (broken' = TRUE \/ broken' = broken)
      BY <2>2, Zenon DEF File!WriteEntry, File!FsyncEntry
    <3> QED BY <3>1, Zenon DEF FileFlags
  <2>3. CASE File!WaitDone
    BY <2>3, Zenon DEF File!WaitDone, FileFlags
  <2> QED BY <1>4, <2>1, <2>2, <2>3, Zenon DEF FileStep, File!User
<1>5. CASE FileStep(File!Kernel) \/ DestroyJoined
  BY <1>1, <1>5, Zenon DEF FileStep, File!Kernel, File!Poll, File!Complete, DestroyJoined,
                           File!CloseFile, file
<1> QED BY <1>1, <1>2, <1>3, <1>4, <1>5, ZenonT(60)
    DEF Next, Worker, Log, Emplace, InitAgain, WorkerTest, WorkerTake, WorkerPop, WorkerWritten,
        Destroy, DestroyClosed, file, vars

\* A submit that has failed stays failed.
LEMMA BrokenStays == [Next]_vars /\ ~broken' => ~broken
<1> SUFFICES ASSUME [Next]_vars, ~broken' PROVE ~broken
  OBVIOUS
<1>1. CASE UNCHANGED broken
  BY <1>1
<1>2. ASSUME NEW l \in Levels, InitFirst(l) PROVE ~broken
  BY <1>1, <1>2, Zenon DEF InitFirst, File!OpenFile
<1>3. CASE WorkerWrite
  BY <1>1, <1>3, Zenon DEF WorkerWrite, File!Write, File!WriteNoFile
<1>4. CASE FileStep(File!User)
  <2>1. CASE File!Spin \/ File!WaitOne \/ File!WaitDone
    BY <1>1, <2>1, Zenon DEF File!Spin, File!WaitOne, File!WaitDone
  <2>2. CASE File!WriteEntry \/ File!FsyncEntry
    <3>1. broken' = TRUE \/ broken' = broken
      BY <2>2, Zenon DEF File!WriteEntry, File!FsyncEntry
    <3> QED BY <3>1, Zenon
  <2> QED BY <1>4, <2>1, <2>2, Zenon DEF FileStep, File!User
<1>5. CASE FileStep(File!Kernel) \/ DestroyJoined
  BY <1>1, <1>5, Zenon DEF FileStep, File!Kernel, File!Poll, File!Complete, DestroyJoined,
                           File!CloseFile, file
<1> QED BY <1>1, <1>2, <1>3, <1>4, <1>5, ZenonT(60)
    DEF Next, Worker, Log, Emplace, InitAgain, WorkerTest, WorkerTake, WorkerPop, WorkerWritten,
        Destroy, DestroyClosed, file, vars
-----------------------------------------------------------------------------
\* How many completions peek_completions() sees.
Peeked == IF Len(cq) < CompleteBatch THEN Len(cq) ELSE CompleteBatch

LEMMA PeekedSome == FileType => Peeked \in 0 .. Len(cq) /\ (File!peek_completions <=> File!Handle(Peeked))
<1>1. FileType => Peeked \in 0 .. Len(cq)
  BY LoggerAssumption DEF FileType, Peeked
<1> QED BY <1>1 DEF File!peek_completions, Peeked

\* The type of what handle_cqe() changes, whatever pending_ counts.
LEMMA HandleType ==
    ASSUME FileType, NEW n \in 0 .. Len(cq), File!Handle(n)
    PROVE  cq' \in Seq(Entry) /\ live' \subseteq Lines /\ pending' \in 0 .. PendingMod - 1
<1>1. cq' \in Seq(Entry)
  BY Dropped DEF File!Handle, FileType
<1>2. pending' \in 0 .. PendingMod - 1
  <2>1. pending - n \in Int
    BY LoggerAssumption DEF FileType
  <2> QED BY <2>1, LoggerAssumption DEF File!Handle
<1> QED BY <1>1, <1>2 DEF File!Handle, FileType

LEMMA FileTypeStep == QueueInv /\ ControlInv /\ FileType /\ [Next]_vars => FileType'
<1> SUFFICES ASSUME QueueInv, ControlInv, FileType, [Next]_vars PROVE FileType'
  OBVIOUS
<1>l. worker \in {"write", "file"} => head \in Lines
  BY LoggerAssumption DEF QueueInv, Lines
<1>1. CASE UNCHANGED file
  BY <1>1 DEF file, FileType
<1>2. ASSUME NEW l \in Levels, InitFirst(l) PROVE FileType'
  BY <1>2 DEF InitFirst, File!OpenFile, FileType
<1>3. CASE WorkerWrite
  <2>1. CASE File!WriteNoFile(head)
    BY <1>3, <1>l, <2>1 DEF WorkerWrite, File!WriteNoFile, FileType
  <2>2. CASE File!Write(head)
    <3>1. cq' \in Seq(Entry) /\ live' \subseteq Lines /\ pending' \in 0 .. PendingMod - 1
      <4>1. File!peek_completions \/ UNCHANGED <<live, cq, pending>>
        BY <2>2 DEF File!Write
      <4> QED BY <4>1, HandleType, PeekedSome DEF FileType
    <3> QED BY <1>3, <1>l, <2>2, <3>1 DEF WorkerWrite, File!Write, FileType
  <2> QED BY <1>3, <2>1, <2>2 DEF WorkerWrite
<1>4. CASE DestroyJoined
  BY <1>1, <1>4 DEF DestroyJoined, File!CloseFile, FileType
<1>5. CASE File!Spin
  <2>1. cq' \in Seq(Entry) /\ live' \subseteq Lines /\ pending' \in 0 .. PendingMod - 1
    BY <1>5, HandleType, PeekedSome DEF File!Spin
  <2> QED BY <1>5, <2>1 DEF File!Spin, FileType
<1>6. CASE File!WriteEntry
  <2>1. line \in Lines
    BY <1>6, <1>l DEF File!WriteEntry, ControlInv
  <2>2. sq' \in Seq(Entry) /\ Len(sq') = Len(sq) + 1 /\ Len(sq) \in Nat
    BY <1>6, <2>1, Added DEF File!WriteEntry, FileType, Entry
  <2>3. pending' \in 0 .. PendingMod - 1 /\ live' \subseteq Lines
    BY <1>6, <2>1, LoggerAssumption DEF File!WriteEntry, FileType
  <2>4. visible' \in 0 .. Len(sq')
    BY <1>6, <2>2 DEF File!WriteEntry, FileType
  <2> QED BY <1>6, <2>2, <2>3, <2>4 DEF File!WriteEntry, FileType
<1>7. CASE File!FsyncEntry
  <2>1. sq' \in Seq(Entry) /\ Len(sq') = Len(sq) + 1 /\ Len(sq) \in Nat
    BY <1>7, Added DEF File!FsyncEntry, FileType, Entry
  <2>2. pending' \in 0 .. PendingMod - 1
    BY <1>7, LoggerAssumption DEF File!FsyncEntry, FileType
  <2> QED BY <1>7, <2>1, <2>2 DEF File!FsyncEntry, FileType
<1>8. CASE File!WaitOne
  <2>1. 1 \in 0 .. Len(cq)
    BY <1>8 DEF File!WaitOne, FileType
  <2>2. cq' \in Seq(Entry) /\ live' \subseteq Lines /\ pending' \in 0 .. PendingMod - 1
    BY <1>8, <2>1, HandleType DEF File!WaitOne
  <2> QED BY <1>8, <2>2 DEF File!WaitOne, FileType
<1>9. CASE File!WaitDone
  BY <1>9 DEF File!WaitDone, FileType
<1>10. CASE File!Kernel
  BY <1>10, PollStep, CompleteStep DEF File!Kernel, Entry
<1> QED BY <1>1, <1>2, <1>3, <1>4, <1>5, <1>6, <1>7, <1>8, <1>9, <1>10
    DEF Next, Worker, Log, Emplace, InitAgain, WorkerTest, WorkerTake, WorkerPop, WorkerWritten,
        Destroy, DestroyClosed, vars, FileStep, File!User

\* A step that only harvests completions.
LEMMA HarvestStep ==
    ASSUME QueueInv, ControlInv, FileType, Counted, Apart, Placed,
           NEW n \in 0 .. Len(cq), File!Handle(n), UNCHANGED <<sq, visible, kern, disk, lost>>,
           Written' = Written, call' = "wait" <=> call = "wait"
    PROVE  Counted' /\ Apart' /\ Placed'
<1>1. Counted' /\ Apart' /\ InFlight' \subseteq InFlight /\ pending' = pending - n
  BY Harvest
<1>2. pending' <= pending /\ pending \in Nat /\ pending' \in Int
  BY <1>1 DEF FileType
<1>3. Written \in Nat
  BY WrittenIsNat
<1>4. pending' <= Written' + (IF call' = "wait" THEN 1 ELSE 0)
  BY <1>2, <1>3 DEF Placed
<1>5. InFlight' \subseteq 1 .. Written' \cup {File!Fsync} /\ (File!Fsync \in InFlight' => call' = "wait")
  BY <1>1 DEF Placed, File!Fsync
<1>6. 1 .. Written' \subseteq disk' \cup lost' \cup File!Range(sq') \cup kern'
  BY DEF Placed
<1> QED BY <1>1, <1>4, <1>5, <1>6 DEF Placed, File!Fsync

LEMMA EntriesStep ==
    ASSUME QueueInv, ControlInv, FileType, Counted, Apart, Placed, [Next]_vars, ~broken'
    PROVE  Counted' /\ Apart' /\ Placed'
<1>c. /\ call = "write" => worker = "file" /\ line = head
      /\ call \in {"flush", "wait"} => owner = "close"
      /\ owner \in {"close", "end"} => worker \in {"none", "exit"}
  BY Zenon DEF ControlInv
<1>w. Written \in 0 .. head /\ head \in Nat /\ head <= MaxLines /\ pending \in Nat
  BY WrittenIsNat DEF FileType
<1>q. ASSUME UNCHANGED file, Written' = Written PROVE Counted' /\ Apart' /\ Placed'
  BY <1>q, QuietStep
<1>1. CASE \E l \in Levels : InitFirst(l)
  <2>1. Written' = Written /\ UNCHANGED <<sq, visible, kern, cq, pending, live, call, disk, lost>>
    BY <1>1 DEF InitFirst, File!OpenFile, queue, Written
  <2> QED BY <2>1 DEF Counted, File!SUBMIT_BATCH, Apart, Placed, InFlight, File!Fsync
<1>2. CASE WorkerTake
  <2>1. call # "write" /\ Written' = Written
    BY <1>2, <1>c, <1>w DEF WorkerTake, file, Written, QueueInv
  <2> QED BY <1>2, <1>q, <2>1 DEF WorkerTake
<1>3. CASE WorkerWrite
  <2>1. CASE File!Write(head)
    <3>1. call = "none" /\ call' = "write" /\ Written' = Written
      BY <1>3, <2>1 DEF WorkerWrite, File!Write, Written, queue
    <3>2. UNCHANGED <<sq, visible, kern, disk, lost>>
      BY <2>1 DEF File!Write
    <3>3. CASE File!peek_completions
      BY <3>1, <3>2, <3>3, PeekedSome, HarvestStep
    <3>4. CASE UNCHANGED <<live, cq, pending>>
      BY <3>1, <3>2, <3>4 DEF Counted, File!SUBMIT_BATCH, Apart, Placed, InFlight,
         File!Fsync
    <3> QED BY <2>1, <3>3, <3>4 DEF File!Write
  <2>2. CASE File!WriteNoFile(head)
    <3>1. /\ UNCHANGED <<sq, visible, kern, cq, pending, live, call, disk>> /\ lost' = lost \cup {head}
          /\ call = "none" /\ Written = head - 1 /\ Written' = head /\ head > 0
      <4>1. CASE File!Write(head)
        BY <2>2, <4>1 DEF File!Write, File!WriteNoFile
      <4>2. CASE worker' = "test"
        BY <1>3, <2>2, <4>2 DEF WorkerWrite, File!WriteNoFile, Written, queue, QueueInv
      <4> QED BY <1>3, <4>1, <4>2 DEF WorkerWrite
    <3>2. Counted' /\ Apart'
      BY <3>1 DEF Counted, File!SUBMIT_BATCH, Apart
    <3>3. 1 .. Written' = 1 .. Written \cup {head} /\ pending' <= Written'
      BY <1>w, <3>1 DEF Placed
    <3> QED BY <3>1, <3>2, <3>3 DEF Placed, InFlight, File!Fsync
  <2> QED BY <1>3, <2>1, <2>2 DEF WorkerWrite
<1>4. CASE File!CloseFile /\ DestroyJoined
  <2>1. Written' = Written /\ call = "none" /\ call' = "flush"
    BY <1>4 DEF DestroyJoined, File!CloseFile, Written, queue
  <2> QED BY <1>4, <2>1 DEF File!CloseFile, Counted, File!SUBMIT_BATCH, Apart, Placed, InFlight,
             File!Fsync
<1>5. CASE FileStep(File!Spin \/ File!WaitOne)
  <2>1. PICK n \in 0 .. Len(cq) : File!Handle(n)
    <3>1. File!WaitOne => 1 \in 0 .. Len(cq) /\ File!Handle(1)
      BY DEF File!WaitOne, FileType
    <3>2. File!Spin => File!peek_completions
      BY DEF File!Spin
    <3> QED BY <1>5, <3>1, <3>2, PeekedSome DEF FileStep
  <2>2. UNCHANGED <<sq, visible, kern, disk, lost, call>> /\ Written' = Written
    BY <1>5 DEF FileStep, File!Spin, File!WaitOne, Written, queue
  <2> QED BY <2>1, <2>2, HarvestStep
<1>6. CASE FileStep(File!WriteEntry)
  <2>1. /\ line = head /\ worker = "file" /\ head > 0 /\ head \in Lines
        /\ call = "write" /\ call' = "none" /\ Written = head - 1 /\ Written' = head
    BY <1>6, <1>c, LoggerAssumption DEF FileStep, File!WriteEntry, Written, queue,
       QueueInv, Lines
  <2>2. /\ sq' = Append(sq, head) /\ pending' = (pending + 1) % PendingMod /\ live' = live \cup {head}
        /\ visible' = Len(sq') \/ (visible' = visible /\ pending < File!SUBMIT_BATCH)
        /\ UNCHANGED <<kern, cq, disk, lost>>
    <3>1. live' = live \cup {line} /\ pending' = (pending + 1) % PendingMod
      BY <1>6, Zenon DEF FileStep, File!WriteEntry
    <3>2. File!SUBMIT_BATCH \in Nat
      BY LoggerAssumption DEF File!SUBMIT_BATCH
    <3>3. visible' = IF pending >= File!SUBMIT_BATCH THEN Len(sq') ELSE visible
      BY <1>6 DEF FileStep, File!WriteEntry
    <3>4. sq' = Append(sq, line) /\ UNCHANGED <<kern, cq, disk, lost>>
      BY <1>6 DEF FileStep, File!WriteEntry
    <3> QED BY <1>w, <2>1, <3>1, <3>2, <3>3, <3>4
  <2>3. head \notin InFlight /\ head # File!Fsync /\ File!Fsync \notin InFlight /\ pending <= head - 1
    BY <1>w, <2>1 DEF Placed, File!Fsync
  <2>4. /\ Counted' /\ Apart' /\ InFlight' = InFlight \cup {head}
        /\ File!Range(sq') = File!Range(sq) \cup {head} /\ pending' = pending + 1
    <3>1. head \in Entry /\ live' = live \cup ({head} \ {File!Fsync}) /\ pending + 1 < PendingMod
      BY <1>w, <2>1, <2>2, <2>3, LoggerAssumption DEF Entry
    <3> QED BY <2>2, <2>3, <3>1, Queue
  <2>5. 1 .. Written' = 1 .. Written \cup {head} /\ pending' <= Written'
    BY <1>w, <2>1, <2>3, <2>4
  <2>6. InFlight' \subseteq 1 .. Written' \cup {File!Fsync}
    BY <2>4, <2>5, Zenon DEF Placed
  <2>7. 1 .. Written' \subseteq disk' \cup lost' \cup File!Range(sq') \cup kern'
    BY <2>2, <2>4, <2>5 DEF Placed
  <2> QED BY <2>1, <2>3, <2>4, <2>5, <2>6, <2>7, <1>w DEF Placed, File!Fsync
<1>7. CASE FileStep(File!FsyncEntry)
  <2>1. /\ worker \in {"none", "exit"} /\ call = "flush" /\ call' = "wait"
        /\ Written = head /\ Written' = head
    BY <1>7, <1>c DEF FileStep, File!FsyncEntry, Written, queue
  <2>2. /\ sq' = Append(sq, File!Fsync) /\ pending' = (pending + 1) % PendingMod /\ visible' = Len(sq')
        /\ UNCHANGED <<kern, cq, live, disk, lost>>
    <3>1. pending' = (pending + 1) % PendingMod
      BY <1>7, Zenon DEF FileStep, File!FsyncEntry
    <3> QED BY <1>7, <3>1 DEF FileStep, File!FsyncEntry
  <2>3. File!Fsync \notin InFlight /\ pending <= head
    BY <1>w, <2>1 DEF Placed
  <2>4. /\ Counted' /\ Apart' /\ InFlight' = InFlight \cup {File!Fsync}
        /\ File!Range(sq') = File!Range(sq) \cup {File!Fsync} /\ pending' = pending + 1
    <3>1. /\ File!Fsync \in Entry /\ live' = live \cup ({File!Fsync} \ {File!Fsync})
          /\ pending + 1 < PendingMod
      BY <1>w, <2>2, <2>3, LoggerAssumption DEF Entry
    <3> QED BY <2>2, <2>3, <3>1, Queue
  <2> QED BY <1>w, <2>1, <2>2, <2>3, <2>4 DEF Placed, File!Fsync
<1>8. CASE FileStep(File!WaitDone)
  <2>1. /\ call = "wait" /\ call' = "none" /\ Written' = Written /\ pending = 0
        /\ UNCHANGED <<sq, visible, kern, cq, pending, live, disk, lost>>
    BY <1>8 DEF FileStep, File!WaitDone, Written, queue
  <2>2. InFlight = {}
    <3>1. Len(sq) = 0 /\ Cardinality(kern) = 0 /\ Len(cq) = 0
      <4>1. Len(sq) \in Nat /\ Cardinality(kern) \in Nat /\ Len(cq) \in Nat
        BY EntrySets DEF FileType
      <4> QED BY <2>1, <4>1 DEF Counted
    <3>2. kern = {} /\ sq = << >> /\ cq = << >>
      BY <3>1, EntrySets DEF FileType
    <3> QED BY <3>2 DEF InFlight, File!Range
  <2> QED BY <1>w, <2>1, <2>2 DEF Counted, File!SUBMIT_BATCH, Apart, Placed, InFlight,
             File!Fsync
<1>9. CASE FileStep(File!Poll)
  <2>1. /\ Counted' /\ Apart' /\ InFlight' = InFlight
        /\ File!Range(sq') \cup kern' = File!Range(sq) \cup kern
    BY <1>9, PollStep DEF FileStep
  <2>2. UNCHANGED <<pending, call, disk, lost>> /\ Written' = Written
    BY <1>9 DEF FileStep, File!Poll, Written, queue
  <2> QED BY <2>1, <2>2 DEF Placed, File!Fsync
<1>10. ASSUME NEW e \in Entry, FileStep(File!Complete(e)) PROVE Counted' /\ Apart' /\ Placed'
  <2>1. /\ Counted' /\ Apart' /\ InFlight' = InFlight
        /\ disk \cup lost \subseteq disk' \cup lost'
        /\ kern \ kern' \subseteq disk' \cup lost' \cup {File!Fsync}
    BY <1>10, CompleteStep DEF FileStep
  <2>2. UNCHANGED <<pending, call, sq>> /\ Written' = Written
    BY <1>10 DEF FileStep, File!Complete, Written, queue
  <2>3. File!Fsync \notin 1 .. Written
    BY <1>w DEF File!Fsync
  <2>4. 1 .. Written \subseteq disk' \cup lost' \cup File!Range(sq) \cup kern'
    BY <2>1, <2>3 DEF Placed
  <2> QED BY <2>1, <2>2, <2>4 DEF Placed, File!Fsync
<1>11. CASE WorkerTest \/ WorkerPop \/ WorkerWritten
  <2>1. UNCHANGED file /\ Written' = Written
    BY <1>11, <1>c DEF WorkerTest, WorkerPop, WorkerWritten, file, queue, Written
  <2> QED BY <1>q, <2>1
<1>12. ASSUME UNCHANGED <<file, head, worker>> PROVE Counted' /\ Apart' /\ Placed'
  BY <1>12, <1>q DEF file, Written
<1>13. CASE \E t \in Threads : Emplace(t) \/ \E l \in Levels : Log(t, l)
  BY <1>12, <1>13 DEF Emplace, Log, queue
<1>14. CASE InitAgain \/ Destroy \/ DestroyClosed \/ UNCHANGED vars
  BY <1>12, <1>14 DEF InitAgain, Destroy, DestroyClosed, vars, queue
<1>15. CASE DestroyJoined
  BY <1>4, <1>12, <1>15 DEF DestroyJoined, queue
<1>16. CASE FileStep(File!Kernel)
  BY <1>9, <1>10, <1>16 DEF FileStep, File!Kernel, Entry
<1>17. CASE FileStep(File!User)
  BY <1>5, <1>6, <1>7, <1>8, <1>17 DEF FileStep, File!User
<1> QED BY <1>1, <1>2, <1>3, <1>11, <1>13, <1>14, <1>15, <1>16, <1>17 DEF Next, Worker
-----------------------------------------------------------------------------
LEMMA InitLogger == Init => LoggerInv
<1> SUFFICES ASSUME Init PROVE LoggerInv
  OBVIOUS
<1>1. QueueInv
  BY LoggerAssumption DEF Init, QueueInv
<1>2. ControlInv
  BY Zenon DEF Init, File!Init, ControlInv
<1>3. FileType
  BY LoggerAssumption DEF Init, File!Init, FileType, Entry
<1>4. FileFlags
  BY Zenon DEF Init, File!Init, FileFlags
<1>5. sq = << >> /\ cq = << >> /\ kern = {} /\ live = {} /\ pending = 0 /\ visible = 0 /\ Written = 0
  BY DEF Init, File!Init, Written
<1>6. File!Range(sq) = {} /\ File!Range(cq) = {} /\ Cardinality(kern) = 0
  BY <1>5, FS_EmptySet DEF File!Range
<1>7. Counted
  <2>1. File!SUBMIT_BATCH \in Nat
    BY LoggerAssumption DEF File!SUBMIT_BATCH
  <2> QED BY <1>5, <1>6, <2>1 DEF Counted
<1>8. Apart /\ Placed /\ Closed
  BY <1>5, <1>6 DEF Apart, Placed, Closed, InFlight, File!IsInjective
<1> QED BY <1>1, <1>2, <1>3, <1>4, <1>7, <1>8, ThreadsSplit, FileSplit, EntriesSplit, ZenonT(60)
    DEF LoggerInv

LEMMA NextLogger == LoggerInv /\ [Next]_vars => LoggerInv'
<1> SUFFICES ASSUME LoggerInv, [Next]_vars PROVE LoggerInv'
  OBVIOUS
<1>1. QueueInv /\ ControlInv /\ FileFlags /\ FileType /\ (~broken => Counted /\ Apart /\ Placed /\ Closed)
  BY ThreadsSplit, FileSplit, EntriesSplit, Zenon DEF LoggerInv
<1>2. QueueInv' /\ ControlInv'
  BY <1>1, QueueStep, ControlStep
<1>3. FileFlags' /\ FileType'
  BY <1>1, FlagsStep, FileTypeStep
<1>4. ~broken' => Counted' /\ Apart' /\ Placed' /\ Closed'
  BY <1>1, BrokenStays, EntriesStep, ClosedStep, Zenon
<1>5. ThreadsInv' /\ File!BuffersAlive' /\ (~broken' => EntriesInv')
  <2>1. ThreadsInv' <=> QueueInv' /\ ControlInv'
    BY ThreadsSplit, PTL
  <2>2. File!BuffersAlive' <=> FileFlags' /\ FileType' /\ (~broken' => Counted')
    BY FileSplit, PTL
  <2>3. EntriesInv' <=> Apart' /\ Placed' /\ Closed'
    BY EntriesSplit, PTL
  <2> QED BY <1>2, <1>3, <1>4, <2>1, <2>2, <2>3, Zenon
<1> QED BY <1>5, Zenon DEF LoggerInv

\* The inductive invariant of the logger and its file (logger.cpp, uring_aio.h): the file is
\* used by one thread at a time, first the log thread and then ~Logger, an entry of the ring
\* is in one place, and every line that was handed to the file is in it, lost, or in flight.
THEOREM LoggerInvariant == Spec => []LoggerInv
<1> QED BY InitLogger, NextLogger, PTL DEF Spec

\* Unless a submit has failed, a WriteRequest of write_async() (uring_aio.h) is allocated
\* exactly while its entry is in flight, pending_ counts the entries in flight without ever
\* passing below zero, and at most SUBMIT_BATCH of them wait to be submitted.
THEOREM BuffersStayAlive == Spec => []BuffersAlive
<1>1. LoggerInv => BuffersAlive
  BY Zenon DEF LoggerInv, BuffersAlive
<1> QED BY <1>1, LoggerInvariant, PTL

\* When ~Logger has returned after an init(), every line whose log() had returned before it
\* began is in the file, or its write failed, unless a submit has failed.
THEOREM NothingLeftUnwritten == Spec => []NothingUnwritten
<1>1. LoggerInv => NothingUnwritten
  <2> SUFFICES ASSUME LoggerInv PROVE NothingUnwritten
    OBVIOUS
  <2>1. /\ QueueInv /\ ControlInv /\ FileType /\ TypeOK
        /\ ~broken => Counted /\ Apart /\ Placed /\ Closed
    BY ThreadsSplit, FileSplit, EntriesSplit, Zenon DEF LoggerInv, ThreadsInv
  <2>2. ASSUME owner = "end", worker = "exit", ~broken PROVE owed \subseteq disk \cup lost
    <3>1. ~fd /\ call # "write"
      BY <2>1, <2>2, Zenon DEF ControlInv
    <3>2. pending = 0
      BY <2>1, <2>2, <3>1, Zenon DEF Closed
    <3>3. sq = << >> /\ kern = {}
      <4>1. Len(sq) \in Nat /\ Cardinality(kern) \in Nat /\ Len(cq) \in Nat
        BY <2>1, EntrySets DEF FileType
      <4>2. pending = Len(sq) + Cardinality(kern) + Len(cq)
        BY <2>1, <2>2 DEF Counted
      <4>3. Len(sq) = 0 /\ Cardinality(kern) = 0
        BY <3>2, <4>1, <4>2
      <4> QED BY <2>1, <4>3, EntrySets DEF FileType
    <3>4. File!Range(sq) = {}
      BY <3>3 DEF File!Range
    <3>5. Written = head
      BY <2>2, <3>1 DEF Written
    <3>6. 1 .. head \subseteq disk \cup lost
      BY <2>1, <2>2, <3>3, <3>4, <3>5 DEF Placed
    <3> QED BY <2>1, <2>2, <3>6 DEF QueueInv
  <2> QED BY <2>1, <2>2, Zenon DEF NothingUnwritten
<1> QED BY <1>1, LoggerInvariant, PTL
=============================================================================
