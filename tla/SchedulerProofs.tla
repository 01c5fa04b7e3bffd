--------------------------- MODULE SchedulerProofs ---------------------------
(***************************************************************************)
(* Proofs about the schedulers and the pool, for every set of threads and  *)
(* every number of tasks: PoolInv is an inductive invariant.               *)
(***************************************************************************)
EXTENDS Scheduler, SequenceTheorems, TLAPS

\* The provers, tried in this order, and how long each may take.
USE SMTT(20), Z3T(20), Zenon

\* What InsertAt does to the ids of a queue: one more, nothing else.
LEMMA InsertIds ==
    ASSUME NEW s \in Seq(Tasks), NEW k \in 0 .. Len(s), NEW e \in Tasks
    PROVE  LET q == InsertAt(s, k + 1, e) IN
           /\ q \in Seq(Tasks) /\ Len(q) = Len(s) + 1
           /\ IdsIn(q) = IdsIn(s) \cup {e.id}
           /\ Distinct(s) /\ e.id \notin IdsIn(s) => Distinct(q)
<1> DEFINE q == InsertAt(s, k + 1, e)
<1> DEFINE a == SubSeq(s, 1, k)
           b == SubSeq(s, k + 1, Len(s))
           c == Append(a, e)
<1>a. /\ a \in Seq(Tasks) /\ Len(a) = k /\ \A j \in 1 .. k : a[j] = s[j]
      /\ b \in Seq(Tasks) /\ Len(b) = Len(s) - k
      /\ \A j \in 1 .. Len(s) - k : b[j] = s[k + j]
  OBVIOUS
<1>b. q = a \o <<e>> \o b
  <2>1. (k + 1) - 1 = k
    OBVIOUS
  <2> QED BY <2>1, Zenon DEF InsertAt
<1> HIDE DEF q, a, b
<1>c. /\ a \o <<e>> = c /\ c \in Seq(Tasks) /\ Len(c) = k + 1
      /\ c[k + 1] = e /\ \A j \in 1 .. k : c[j] = s[j]
  BY <1>a, AppendProperties, AppendIsConcat DEF c
<1> HIDE DEF c
<1>1. q \in Seq(Tasks) /\ Len(q) = Len(s) + 1
  <2>1. q = c \o b
    BY <1>b, <1>c, Zenon
  <2>2. Len(s) \in Nat /\ k \in Nat
    OBVIOUS
  <2>3. Len(c) + Len(b) = Len(s) + 1
    BY <1>a, <1>c, <2>2
  <2>4. c \o b \in Seq(Tasks) /\ Len(c \o b) = Len(c) + Len(b)
    BY <1>a, <1>c, ConcatProperties, ZenonT(40)
  <2> QED BY <2>1, <2>3, <2>4
<1>d. \A j \in 1 .. Len(s) + 1 : q[j] = IF j <= k + 1 THEN c[j] ELSE b[j - (k + 1)]
  BY <1>a, <1>b, <1>c, ConcatProperties
<1>2. /\ \A j \in 1 .. k : q[j] = s[j]
      /\ q[k + 1] = e
      /\ \A j \in k + 2 .. Len(s) + 1 : q[j] = s[j - 1]
  <2>1. ASSUME NEW j \in k + 2 .. Len(s) + 1 PROVE q[j] = s[j - 1]
    <3>1. j - (k + 1) \in 1 .. Len(s) - k /\ k + (j - (k + 1)) = j - 1
      OBVIOUS
    <3>2. q[j] = b[j - (k + 1)]
      BY <1>d
    <3> QED BY <1>a, <3>1, <3>2, ZenonT(40)
  <2>2. ASSUME NEW j \in 1 .. k PROVE q[j] = s[j]
    <3>1. j \in 1 .. Len(s) + 1 /\ j <= k + 1
      OBVIOUS
    <3> QED BY <1>c, <1>d, <3>1
  <2>3. q[k + 1] = e
    BY <1>c, <1>d
  <2> QED BY <2>1, <2>2, <2>3
<1>3. IdsIn(q) \subseteq IdsIn(s) \cup {e.id}
  <2>1. ASSUME NEW j \in DOMAIN q PROVE q[j].id \in IdsIn(s) \cup {e.id}
    <3>1. CASE j <= k
      BY <1>1, <1>2, <3>1 DEF IdsIn
    <3>2. CASE j > k + 1
      <4>1. j - 1 \in DOMAIN s /\ q[j] = s[j - 1]
        BY <1>1, <1>2, <3>2
      <4> QED BY <4>1 DEF IdsIn
    <3> QED BY <1>1, <1>2, <3>1, <3>2
  <2> QED BY <2>1 DEF IdsIn
<1>4. IdsIn(s) \cup {e.id} \subseteq IdsIn(q)
  <2>1. ASSUME NEW i \in DOMAIN s PROVE s[i].id \in IdsIn(q)
    <3>1. CASE i <= k
      <4>1. i \in DOMAIN q /\ q[i] = s[i]
        BY <1>1, <1>2, <3>1
      <4> QED BY <4>1 DEF IdsIn
    <3>2. CASE i > k
      <4>1. i + 1 \in DOMAIN q /\ q[i + 1] = s[i]
        BY <1>1, <1>2, <3>2
      <4> QED BY <4>1 DEF IdsIn
    <3> QED BY <3>1, <3>2
  <2>2. k + 1 \in DOMAIN q /\ q[k + 1] = e
    BY <1>1, <1>2
  <2> QED BY <2>1, <2>2 DEF IdsIn
<1>5. ASSUME Distinct(s), e.id \notin IdsIn(s) PROVE Distinct(q)
  <2>1. \A i \in DOMAIN s : s[i].id # e.id
    BY <1>5 DEF IdsIn
  <2>2. SUFFICES ASSUME NEW i \in DOMAIN q, NEW j \in DOMAIN q, i < j PROVE q[i].id # q[j].id
    BY <1>1 DEF Distinct
  <2>3. CASE j <= k
    BY <1>1, <1>2, <1>5, <2>2, <2>3 DEF Distinct
  <2>4. CASE j = k + 1
    BY <1>1, <1>2, <2>1, <2>2, <2>4
  <2>5. CASE i = k + 1
    BY <1>1, <1>2, <2>1, <2>2, <2>5
  <2>6. CASE i <= k /\ j > k + 1
    <3>1. i \in DOMAIN s /\ j - 1 \in DOMAIN s /\ i # j - 1
      BY <1>1, <2>6
    <3>2. q[i] = s[i] /\ q[j] = s[j - 1]
      BY <1>1, <1>2, <2>6
    <3> QED BY <1>5, <3>1, <3>2 DEF Distinct
  <2>7. CASE i > k + 1
    <3>1. i - 1 \in DOMAIN s /\ j - 1 \in DOMAIN s /\ i - 1 # j - 1
      BY <1>1, <2>2, <2>7
    <3>2. q[i] = s[i - 1] /\ q[j] = s[j - 1]
      BY <1>1, <1>2, <2>2, <2>7
    <3> QED BY <1>5, <3>1, <3>2 DEF Distinct
  <2> QED BY <1>1, <2>3, <2>4, <2>5, <2>6, <2>7
<1> QED BY <1>1, <1>3, <1>4, <1>5 DEF q

\* What RemoveAt does to the ids of a queue: the one at n is gone.
LEMMA RemoveIds ==
    ASSUME NEW s \in Seq(Tasks), NEW n \in DOMAIN s
    PROVE  LET q == RemoveAt(s, n) IN
           /\ q \in Seq(Tasks) /\ Len(q) = Len(s) - 1
           /\ \A j \in 1 .. Len(q) : q[j] = IF j < n THEN s[j] ELSE s[j + 1]
           /\ IdsIn(s) = IdsIn(q) \cup {s[n].id}
           /\ Distinct(s) => Distinct(q) /\ s[n].id \notin IdsIn(q)
<1> DEFINE q == RemoveAt(s, n)
<1> DEFINE a == SubSeq(s, 1, n - 1)
           b == SubSeq(s, n + 1, Len(s))
<1>n. n \in 1 .. Len(s) /\ Len(s) \in Nat
  OBVIOUS
<1>a. /\ a \in Seq(Tasks) /\ Len(a) = n - 1
      /\ \A j \in 1 .. n - 1 : a[j] = s[j]
  OBVIOUS
<1>b. /\ b \in Seq(Tasks) /\ Len(b) = Len(s) - n
      /\ \A j \in 1 .. Len(s) - n : b[j] = s[n + j]
  OBVIOUS
<1>c. q = a \o b
  BY DEF RemoveAt
<1> HIDE DEF q, a, b
<1>d. /\ q \in Seq(Tasks) /\ Len(q) = Len(a) + Len(b)
      /\ \A j \in 1 .. Len(a) + Len(b) : q[j] = IF j <= Len(a) THEN a[j] ELSE b[j - Len(a)]
  BY <1>a, <1>b, <1>c, ConcatProperties, ZenonT(40)
<1>e. Len(a) = n - 1 /\ Len(a) + Len(b) = Len(s) - 1
  BY <1>n, <1>a, <1>b
<1>1. q \in Seq(Tasks) /\ Len(q) = Len(s) - 1
  BY <1>d, <1>e
<1>2. ASSUME NEW j \in 1 .. Len(s) - 1 PROVE q[j] = IF j < n THEN s[j] ELSE s[j + 1]
  <2>1. q[j] = IF j <= n - 1 THEN a[j] ELSE b[j - (n - 1)]
    BY <1>d, <1>e
  <2>2. CASE j < n
    <3>1. j \in 1 .. n - 1
      BY <1>n, <2>2
    <3> QED BY <1>a, <2>1, <2>2, <3>1
  <2>3. CASE j >= n
    <3>1. j - (n - 1) \in 1 .. Len(s) - n /\ n + (j - (n - 1)) = j + 1
      BY <1>n, <2>3
    <3>2. b[j - (n - 1)] = s[j + 1]
      BY <1>b, <3>1
    <3>3. ~(j <= n - 1) /\ ~(j < n)
      BY <1>n, <2>3
    <3> QED BY <2>1, <3>2, <3>3
  <2> QED BY <1>n, <2>2, <2>3
<1>3. IdsIn(q) \cup {s[n].id} \subseteq IdsIn(s)
  BY <1>1, <1>2 DEF IdsIn
<1>4. ASSUME NEW i \in DOMAIN s PROVE s[i].id \in IdsIn(q) \cup {s[n].id}
  <2>1. CASE i < n
    BY <1>1, <1>2, <2>1 DEF IdsIn
  <2>2. CASE i > n
    <3>1. i - 1 \in DOMAIN q /\ q[i - 1] = s[i]
      BY <1>1, <1>2, <2>2
    <3> QED BY <3>1 DEF IdsIn
  <2> QED BY <2>1, <2>2
<1>5. ASSUME Distinct(s) PROVE Distinct(q) /\ s[n].id \notin IdsIn(q)
  <2>1. ASSUME NEW i \in DOMAIN q PROVE q[i].id # s[n].id
    <3>1. PICK k \in DOMAIN s : q[i] = s[k] /\ k # n
      BY <1>n, <1>1, <1>2
    <3> QED BY <1>5, <3>1 DEF Distinct
  <2>2. SUFFICES ASSUME NEW i \in DOMAIN q, NEW j \in DOMAIN q, i < j PROVE q[i].id # q[j].id
    BY <1>1, <2>1 DEF Distinct, IdsIn
  <2>3. CASE j < n
    <3>1. i \in DOMAIN s /\ j \in DOMAIN s /\ i # j
      BY <1>1, <2>2, <2>3
    <3>2. q[i] = s[i] /\ q[j] = s[j]
      BY <1>1, <1>2, <2>2, <2>3
    <3> QED BY <1>5, <3>1, <3>2 DEF Distinct
  <2>4. CASE i < n /\ j >= n
    <3>1. i \in DOMAIN s /\ j + 1 \in DOMAIN s /\ i # j + 1
      BY <1>1, <2>4
    <3>2. q[i] = s[i] /\ q[j] = s[j + 1]
      BY <1>1, <1>2, <2>4
    <3> QED BY <1>5, <3>1, <3>2 DEF Distinct
  <2>5. CASE i >= n
    <3>1. i + 1 \in DOMAIN s /\ j + 1 \in DOMAIN s /\ i + 1 # j + 1
      BY <1>1, <2>2, <2>5
    <3>2. q[i] = s[i + 1] /\ q[j] = s[j + 1]
      BY <1>1, <1>2, <2>2, <2>5
    <3> QED BY <1>5, <3>1, <3>2 DEF Distinct
  <2> QED BY <1>1, <2>3, <2>4, <2>5
<1>6. IdsIn(s) \subseteq IdsIn(q) \cup {s[n].id}
  BY <1>4 DEF IdsIn
<1> QED BY <1>1, <1>2, <1>3, <1>5, <1>6 DEF q

\* One id more at the end of `accepted'.
LEMMA AppendSet ==
    ASSUME NEW S, NEW s \in Seq(S), NEW x \in S
    PROVE  ToSet(Append(s, x)) = ToSet(s) \cup {x}
<1> DEFINE q == Append(s, x)
<1>1. /\ q \in Seq(S) /\ Len(q) = Len(s) + 1
      /\ \A i \in 1 .. Len(s) : q[i] = s[i]
      /\ q[Len(s) + 1] = x
  BY AppendProperties
<1> HIDE DEF q
<1>2. DOMAIN q = DOMAIN s \cup {Len(s) + 1}
  BY <1>1
<1>3. DOMAIN s = 1 .. Len(s)
  OBVIOUS
<1>4. ToSet(q) = ToSet(s) \cup {x}
  BY <1>1, <1>2, <1>3 DEF ToSet
<1> QED BY <1>4 DEF q

\* insert() adds one task, whichever container it is.
LEMMA InsertStep ==
    ASSUME tasks \in Seq(Tasks), NEW e \in Tasks, insert(e)
    PROVE  /\ tasks' \in Seq(Tasks) /\ Len(tasks') = Len(tasks) + 1
           /\ IdsIn(tasks') = IdsIn(tasks) \cup {e.id}
           /\ Distinct(tasks) /\ e.id \notin IdsIn(tasks) => Distinct(tasks')
<1>1. CASE kind = "timer"
  <2>1. PICK k \in 0 .. Len(tasks) : tasks' = InsertAt(tasks, k + 1, e)
    BY <1>1 DEF insert
  <2> QED BY <2>1, InsertIds, ZenonT(40)
<1>2. CASE kind # "timer"
  <2>1. tasks' = Append(tasks, e)
    BY <1>2 DEF insert
  <2>2. /\ tasks' \in Seq(Tasks) /\ Len(tasks') = Len(tasks) + 1
        /\ \A i \in 1 .. Len(tasks) : tasks'[i] = tasks[i]
        /\ tasks'[Len(tasks) + 1] = e
    BY <2>1, AppendProperties
  <2>3. DOMAIN tasks' = DOMAIN tasks \cup {Len(tasks) + 1} /\ DOMAIN tasks = 1 .. Len(tasks)
    BY <2>2
  <2>4. IdsIn(tasks') = IdsIn(tasks) \cup {e.id}
    BY <2>2, <2>3 DEF IdsIn
  <2>5. Distinct(tasks) /\ e.id \notin IdsIn(tasks) => Distinct(tasks')
    BY <2>2, <2>3 DEF IdsIn, Distinct
  <2> QED BY <2>2, <2>4, <2>5
<1> QED BY <1>1, <1>2

\* The task that execute() takes is one of those queued.
LEMMA TakeIndex ==
    ASSUME tasks \in Seq(Tasks), tasks # << >>
    PROVE  NextIndex \in DOMAIN tasks /\ NextTask \in Tasks
BY DEF NextIndex, NextTask

-----------------------------------------------------------------------------
LEMMA InitInv == Init => PoolInv
<1> SUFFICES ASSUME Init PROVE PoolInv
  OBVIOUS
<1> USE DEF Init
<1>1. TypeOK
  <2>1. stop \in BOOLEAN
    BY Zenon
  <2>2. kind \in {"fifo", "lifo", "timer"}
    BY Zenon
  <2>3. now \in 0 .. MaxTime /\ ID \in 0 .. MaxTasks
    BY TaskAssumption
  <2>4. tasks \in Seq(Tasks) /\ accepted \in Seq(Ids)
    OBVIOUS
  <2> QED BY <2>1, <2>2, <2>3, <2>4 DEF TypeOK
<1>2. ToSet(accepted) = {} /\ Queued = {} /\ Holders = {} /\ InHand = {}
  BY DEF ToSet, Queued, IdsIn, Holders, InHand
<1>3. InOnePlace
  BY <1>1, <1>2 DEF InOnePlace, Distinct
<1>4. AddInv /\ StopInv
  BY <1>2 DEF AddInv, StopInv
<1>5. NoLostWakeup /\ FifoOrder
  BY DEF NoLostWakeup, FifoOrder
<1> QED BY <1>3, <1>4, <1>5 DEF PoolInv

-----------------------------------------------------------------------------
\* The type of every variable, and that a thread has a task while it sleeps or runs.
LEMMA TypeStep == PoolInv /\ [Next]_vars => TypeOK'
<1> SUFFICES ASSUME PoolInv, [Next]_vars PROVE TypeOK'
  OBVIOUS
<1>0. TypeOK /\ AddInv
  BY DEF PoolInv, InOnePlace
<1> USE DEF poolVars
<1>1. ASSUME NEW t \in Threads, NEW d \in 0 .. MaxTime, AddMake(t, d) PROVE TypeOK'
  <2>1. [id |-> ID, time |-> now + d] \in Tasks
    BY <1>0, <1>1, TaskAssumption DEF TypeOK, AddMake, Tasks, Ids
  <2>2. ID' \in 0 .. MaxTasks
    BY <1>0, <1>1, TaskAssumption DEF TypeOK, AddMake
  <2> QED BY <1>0, <1>1, <2>1, <2>2 DEF TypeOK, AddMake
<1>2. ASSUME NEW t \in Threads, AddThrow(t) PROVE TypeOK'
  BY <1>0, <1>2 DEF TypeOK, AddThrow
<1>3. ASSUME NEW t \in Threads, AddInsert(t) PROVE TypeOK'
  <2>1. arg[t] \in Tasks /\ arg[t].id \in Ids
    BY <1>0, <1>3 DEF TypeOK, AddInv, AddInsert, Tasks
  <2>2. tasks' \in Seq(Tasks)
    BY <1>0, <1>3, <2>1, InsertStep DEF TypeOK, AddInsert
  <2>3. accepted' \in Seq(Ids)
    <3>1. accepted \in Seq(Ids) /\ accepted' = Append(accepted, arg[t].id)
      BY <1>0, <1>3 DEF TypeOK, AddInsert
    <3> HIDE DEF Ids
    <3> QED BY <2>1, <3>1, AppendProperties
  <2>4. ids' \subseteq Ids
    BY <1>0, <1>3, <2>1 DEF TypeOK, AddInsert
  <2> QED BY <1>0, <1>3, <2>2, <2>3, <2>4 DEF TypeOK, AddInsert
<1>4. ASSUME NEW t \in Threads, Notify(t) PROVE TypeOK'
  BY <1>0, <1>4 DEF TypeOK, Notify, Waiting
<1>5. ASSUME NEW t \in Threads, NEW i \in Ids, Cancel(t, i) PROVE TypeOK'
  <2>1. PICK n \in DOMAIN tasks : tasks' = RemoveAt(tasks, n)
    BY <1>5 DEF Cancel
  <2>2. tasks' \in Seq(Tasks)
    BY <1>0, <2>1, RemoveIds DEF TypeOK
  <2> QED BY <1>0, <1>5, <2>2 DEF TypeOK, Cancel
<1>6. ASSUME NEW w \in Workers, ExecuteWait(w) PROVE TypeOK'
  BY <1>0, <1>6 DEF TypeOK, ExecuteWait
<1>7. ASSUME NEW w \in Workers, ExecuteTake(w) PROVE TypeOK'
  <2>1. NextTask \in Tasks /\ tasks' \in Seq(Tasks)
    BY <1>0, <1>7, TakeIndex, RemoveIds DEF TypeOK, ExecuteTake, RestOfTasks
  <2> QED BY <1>0, <1>7, <2>1, NoTaskAssumption DEF TypeOK, ExecuteTake
<1>8. ASSUME NEW w \in Workers, ExecuteWake(w) PROVE TypeOK'
  BY <1>0, <1>8 DEF TypeOK, ExecuteWake
<1>9. ASSUME NEW w \in Workers, ExecuteRun(w) PROVE TypeOK'
  <2>1. task[w].id \in Ids
    BY <1>0, <1>9 DEF TypeOK, ExecuteRun, Tasks
  <2> QED BY <1>0, <1>9, <2>1 DEF TypeOK, ExecuteRun
<1>10. ASSUME NEW w \in Workers, ExecuteExit(w) PROVE TypeOK'
  BY <1>0, <1>10 DEF TypeOK, ExecuteExit
<1>11. ASSUME NEW w \in Workers, SpuriousWakeup(w) PROVE TypeOK'
  BY <1>0, <1>11 DEF TypeOK, SpuriousWakeup
<1>12. CASE Stop
  BY <1>0, <1>12 DEF TypeOK, Stop
<1>13. CASE NotifyAll
  BY <1>0, <1>13 DEF TypeOK, NotifyAll, Waiting
<1>14. CASE Join
  BY <1>0, <1>14 DEF TypeOK, Join
<1>15. CASE ClockTick
  BY <1>0, <1>15, TaskAssumption DEF TypeOK, ClockTick
<1>16. CASE UNCHANGED vars
  BY <1>0, <1>16 DEF TypeOK, vars
<1> QED BY <1>1, <1>2, <1>3, <1>4, <1>5, <1>6, <1>7, <1>8, <1>9, <1>10, <1>11, <1>12,
           <1>13,
           <1>14, <1>15, <1>16 DEF Next, AddRest, Execute

\* A step that moves no task and changes no history keeps every task in its place.
LEMMA SamePlace ==
    ASSUME PoolInv, TypeOK', UNCHANGED <<kind, tasks, ids, task, accepted, done, cancelled>>
    PROVE  InOnePlace'
<1>1. Queued' = Queued /\ Holders' = Holders /\ InHand' = InHand
  BY DEF Queued, Holders, InHand
<1> QED BY <1>1 DEF PoolInv, InOnePlace

\* Every task stays in one place.
LEMMA PlaceStep == PoolInv /\ [Next]_vars => InOnePlace'
<1> SUFFICES ASSUME PoolInv, [Next]_vars PROVE InOnePlace'
  OBVIOUS
<1>0. TypeOK /\ TypeOK' /\ InOnePlace /\ AddInv
  BY TypeStep DEF PoolInv, InOnePlace
<1>1. ASSUME NEW t \in Threads, AddInsert(t) PROVE InOnePlace'
  <2>1. arg[t] \in Tasks /\ arg[t].id \in Ids /\ arg[t].id \notin ToSet(accepted)
    BY <1>0, <1>1 DEF TypeOK, AddInv, AddInsert, Tasks
  <2>2. Queued' = Queued \cup {arg[t].id}
    BY <1>0, <1>1, <2>1, InsertStep DEF TypeOK, AddInsert, Queued
  <2>3. arg[t].id \notin Queued \cup InHand \cup done \cup cancelled
    BY <1>0, <2>1 DEF InOnePlace
  <2>4. Distinct(tasks')
    BY <1>0, <1>1, <2>1, <2>3, InsertStep DEF TypeOK, InOnePlace, AddInsert, Queued
  <2>5. ToSet(accepted') = ToSet(accepted) \cup {arg[t].id}
    <3>1. accepted \in Seq(Ids) /\ accepted' = Append(accepted, arg[t].id)
      BY <1>0, <1>1 DEF TypeOK, AddInsert
    <3> QED BY <2>1, <3>1, AppendSet
  <2>6. UNCHANGED <<kind, task, done, cancelled>> /\ Holders' = Holders /\ InHand' = InHand
    BY <1>1 DEF AddInsert, poolVars, Holders, InHand
  <2>7. ids' = IF kind' = "timer" THEN Queued' ELSE {}
    BY <1>0, <1>1, <2>2 DEF InOnePlace, AddInsert
  <2> QED BY <1>0, <2>2, <2>3, <2>4, <2>5, <2>6, <2>7 DEF InOnePlace
<1>2. ASSUME NEW t \in Threads, NEW i \in Ids, Cancel(t, i) PROVE InOnePlace'
  <2>1. PICK n \in DOMAIN tasks : tasks[n].id = i /\ tasks' = RemoveAt(tasks, n)
    BY <1>2 DEF Cancel
  <2>2. Queued = Queued' \cup {i} /\ i \notin Queued' /\ Distinct(tasks')
    BY <1>0, <2>1, RemoveIds DEF TypeOK, InOnePlace, Queued
  <2>3. UNCHANGED <<kind, task, accepted, done>> /\ Holders' = Holders /\ InHand' = InHand
    BY <1>2 DEF Cancel, poolVars, Holders, InHand
  <2>4. ids' = IF kind' = "timer" THEN Queued' ELSE {}
    BY <1>0, <1>2, <2>2 DEF InOnePlace, Cancel
  <2> QED BY <1>0, <1>2, <2>2, <2>3, <2>4 DEF InOnePlace, Cancel
<1>3. ASSUME NEW w \in Workers, ExecuteTake(w) PROVE InOnePlace'
  <2>1. NextIndex \in DOMAIN tasks /\ NextTask \in Tasks
    BY <1>0, <1>3, TakeIndex DEF TypeOK, ExecuteTake
  <2> DEFINE i == NextTask.id
  <2>2. Queued = Queued' \cup {i} /\ i \notin Queued' /\ Distinct(tasks')
    BY <1>0, <1>3, <2>1, RemoveIds DEF TypeOK, InOnePlace, Queued, ExecuteTake, NextTask,
       RestOfTasks
  <2> HIDE DEF i
  <2>3. task[w] = NoTask
    BY <1>0, <1>3 DEF TypeOK, ExecuteTake
  <2>4. /\ Holders' = Holders \cup {w} /\ w \notin Holders
        /\ \A v \in Holders : task'[v] = task[v] /\ task[v].id \in InHand
        /\ task'[w].id = i
    BY <1>0, <1>3, <2>1, <2>3, NoTaskAssumption DEF TypeOK, ExecuteTake, Holders, InHand, i
  <2>5. InHand' = InHand \cup {i}
    BY <2>4 DEF InHand
  <2>6. UNCHANGED <<kind, accepted, done, cancelled>>
    BY <1>3 DEF ExecuteTake
  <2>7. ids' = IF kind' = "timer" THEN Queued' ELSE {}
    BY <1>0, <1>3, <2>2 DEF InOnePlace, ExecuteTake, i
  <2>8. \A u, v \in Holders' : task'[u].id = task'[v].id => u = v
    BY <1>0, <2>2, <2>4 DEF InOnePlace
  <2> QED BY <1>0, <2>2, <2>5, <2>6, <2>7, <2>8 DEF InOnePlace
<1>4. ASSUME NEW w \in Workers, ExecuteRun(w) PROVE InOnePlace'
  <2> DEFINE i == task[w].id
  <2>1. /\ w \in Holders /\ Holders' = Holders \ {w}
        /\ \A v \in Holders' : task'[v] = task[v]
        /\ done' = done \cup {i}
    BY <1>0, <1>4 DEF TypeOK, ExecuteRun, Holders
  <2>2. InHand = InHand' \cup {i} /\ i \notin InHand'
    BY <1>0, <2>1 DEF InOnePlace, InHand
  <2>3. UNCHANGED <<kind, tasks, ids, accepted, cancelled>> /\ Queued' = Queued
    BY <1>4 DEF ExecuteRun, Queued
  <2>4. \A u, v \in Holders' : task'[u].id = task'[v].id => u = v
    BY <1>0, <2>1 DEF InOnePlace
  <2> HIDE DEF i
  <2> QED BY <1>0, <2>1, <2>2, <2>3, <2>4 DEF InOnePlace
<1>5. CASE UNCHANGED <<kind, tasks, ids, task, accepted, done, cancelled>>
  BY <1>0, <1>5, SamePlace
<1> QED BY <1>1, <1>2, <1>3, <1>4, <1>5, ZenonT(60)
        DEF Next, AddRest, Execute, vars, poolVars, AddMake, AddThrow, Notify, ExecuteWait,
            ExecuteWake, ExecuteExit, SpuriousWakeup, Stop, NotifyAll, Join, ClockTick

\* What add() is about to insert stays new.
LEMMA AddStep == PoolInv /\ [Next]_vars => AddInv'
<1> SUFFICES ASSUME PoolInv, [Next]_vars PROVE AddInv'
  OBVIOUS
<1>0. TypeOK /\ TypeOK' /\ AddInv
  BY TypeStep DEF PoolInv, InOnePlace
<1>1. ASSUME NEW t \in Threads, NEW d \in 0 .. MaxTime, AddMake(t, d) PROVE AddInv'
  <2> DEFINE e == [id |-> ID, time |-> now + d]
  <2>1. e \in Tasks /\ e # NoTask /\ e.id = ID /\ ID \in Nat
    BY <1>0, <1>1, TaskAssumption, NoTaskAssumption DEF TypeOK, AddMake, Tasks, Ids
  <2>2. /\ arg' = [arg EXCEPT ![t] = e] /\ ID' = ID + 1 /\ UNCHANGED accepted
        /\ call' = [call EXCEPT ![t] = "insert"]
    BY <1>1 DEF AddMake
  <2> HIDE DEF e
  <2>3. \A u \in Threads : arg[u] # NoTask => arg[u].id < ID /\ arg[u].id \in Nat
    BY <1>0 DEF TypeOK, AddInv, Tasks, Ids
  <2>4. \A i \in ToSet(accepted) : i < ID /\ i \in Nat
    <3>1. \A i \in ToSet(accepted) : i \in Ids
      BY <1>0 DEF TypeOK, ToSet
    <3> QED BY <1>0, <3>1 DEF AddInv, Ids
  <2>5. arg \in [Threads -> Tasks \cup {NoTask}] /\ DOMAIN call = Threads
    BY <1>0 DEF TypeOK
  <2>6. \A u \in Threads : call'[u] = "insert" <=> arg'[u] # NoTask
    BY <1>0, <2>1, <2>2, <2>5 DEF AddInv
  <2>7. \A u \in Threads : arg'[u] # NoTask => arg'[u].id < ID' /\ arg'[u].id \notin ToSet(accepted')
    <3>1. ID < ID' /\ ID \notin ToSet(accepted)
      BY <2>1, <2>2, <2>4
    <3>2. arg'[t].id = ID
      BY <2>1, <2>2, <2>5
    <3>3. ASSUME NEW u \in Threads, u # t, arg'[u] # NoTask
          PROVE  arg'[u].id < ID' /\ arg'[u].id \notin ToSet(accepted)
      <4>1. arg'[u] = arg[u]
        BY <2>2, <2>5, <3>3
      <4> QED BY <1>0, <2>1, <2>2, <2>3, <3>3, <4>1 DEF AddInv
    <3> QED BY <2>2, <3>1, <3>2, <3>3
  <2>8. \A u, v \in Threads : arg'[u] # NoTask /\ arg'[v] # NoTask /\ arg'[u].id = arg'[v].id => u = v
    BY <1>0, <2>1, <2>2, <2>3, <2>5 DEF AddInv
  <2>9. \A i \in ToSet(accepted') : i < ID'
    BY <2>1, <2>2, <2>4
  <2> QED BY <2>6, <2>7, <2>8, <2>9 DEF AddInv
<1>2. ASSUME NEW t \in Threads, AddThrow(t) PROVE AddInv'
  BY <1>0, <1>2 DEF TypeOK, AddInv, AddThrow
<1>3. ASSUME NEW t \in Threads, AddInsert(t) PROVE AddInv'
  <2>1. arg[t] \in Tasks /\ arg[t].id \in Ids /\ arg[t].id < ID
    BY <1>0, <1>3 DEF TypeOK, AddInv, AddInsert, Tasks
  <2>2. ToSet(accepted') = ToSet(accepted) \cup {arg[t].id}
    <3>1. accepted \in Seq(Ids) /\ accepted' = Append(accepted, arg[t].id)
      BY <1>0, <1>3 DEF TypeOK, AddInsert
    <3> QED BY <2>1, <3>1, AppendSet
  <2>3. /\ arg' = [arg EXCEPT ![t] = NoTask] /\ UNCHANGED ID
        /\ call' = [call EXCEPT ![t] = "notify"]
    BY <1>3 DEF AddInsert
  <2> QED BY <1>0, <1>3, <2>1, <2>2, <2>3 DEF TypeOK, AddInv, AddInsert
<1>4. ASSUME NEW t \in Threads, Notify(t) PROVE AddInv'
  BY <1>0, <1>4 DEF TypeOK, AddInv, Notify
<1>5. CASE UNCHANGED <<call, arg, ID, accepted>>
  BY <1>0, <1>5 DEF AddInv
<1> QED BY <1>1, <1>2, <1>3, <1>4, <1>5, ZenonT(60)
        DEF Next, AddRest, Execute, vars, Cancel, ExecuteWait, ExecuteTake, ExecuteRun,
            ExecuteWake, ExecuteExit, SpuriousWakeup, Stop, NotifyAll, Join, ClockTick

\* The destructor, stop_ and the threads that have ended agree.
LEMMA StopStep == PoolInv /\ [Next]_vars => StopInv'
<1> SUFFICES ASSUME PoolInv, [Next]_vars PROVE StopInv'
  OBVIOUS
<1>0. TypeOK /\ StopInv
  BY DEF PoolInv, InOnePlace
<1> USE DEF poolVars
<1>1. ASSUME NEW t \in Threads, NEW d \in 0 .. MaxTime, AddMake(t, d) PROVE StopInv'
  BY <1>0, <1>1 DEF StopInv, AddMake
<1>2. ASSUME NEW t \in Threads, AddThrow(t) PROVE StopInv'
  BY <1>0, <1>2 DEF StopInv, AddThrow
<1>3. ASSUME NEW t \in Threads, AddInsert(t) PROVE StopInv'
  BY <1>0, <1>3 DEF StopInv, AddInsert
<1>4. ASSUME NEW t \in Threads, Notify(t) PROVE StopInv'
  <2>1. \A v \in Workers : pc'[v] = "exit" <=> pc[v] = "exit"
    BY <1>0, <1>4 DEF TypeOK, Notify, Waiting
  <2> QED BY <1>0, <1>4, <2>1 DEF StopInv, Notify
<1>5. ASSUME NEW t \in Threads, NEW i \in Ids, Cancel(t, i) PROVE StopInv'
  <2>1. tasks # << >>
    BY <1>5 DEF Cancel
  <2> QED BY <1>0, <1>5, <2>1 DEF StopInv, Cancel
<1>6. ASSUME NEW w \in Workers, ExecuteWait(w) PROVE StopInv'
  BY <1>0, <1>6 DEF TypeOK, StopInv, ExecuteWait
<1>7. ASSUME NEW w \in Workers, ExecuteTake(w) PROVE StopInv'
  BY <1>0, <1>7 DEF TypeOK, StopInv, ExecuteTake
<1>8. ASSUME NEW w \in Workers, ExecuteWake(w) PROVE StopInv'
  BY <1>0, <1>8 DEF TypeOK, StopInv, ExecuteWake
<1>9. ASSUME NEW w \in Workers, ExecuteRun(w) PROVE StopInv'
  BY <1>0, <1>9 DEF TypeOK, StopInv, ExecuteRun
<1>10. ASSUME NEW w \in Workers, ExecuteExit(w) PROVE StopInv'
  BY <1>0, <1>10 DEF TypeOK, StopInv, ExecuteExit
<1>11. ASSUME NEW w \in Workers, SpuriousWakeup(w) PROVE StopInv'
  BY <1>0, <1>11 DEF TypeOK, StopInv, SpuriousWakeup
<1>12. CASE Stop
  BY <1>0, <1>12 DEF StopInv, Stop
<1>13. CASE NotifyAll
  BY <1>0, <1>13 DEF TypeOK, StopInv, NotifyAll, Waiting
<1>14. CASE Join
  BY <1>0, <1>14 DEF StopInv, Join
<1>15. CASE ClockTick
  BY <1>0, <1>15 DEF StopInv, ClockTick
<1>16. CASE UNCHANGED vars
  BY <1>0, <1>16 DEF StopInv, vars
<1> QED BY <1>1, <1>2, <1>3, <1>4, <1>5, <1>6, <1>7, <1>8, <1>9, <1>10, <1>11, <1>12, <1>13,
           <1>14, <1>15, <1>16 DEF Next, AddRest, Execute

\* A queued task is left to a thread that does not wait, or a notify_one() is to come.
LEMMA WakeStep == PoolInv /\ [Next]_vars => NoLostWakeup'
<1> SUFFICES ASSUME PoolInv, [Next]_vars, tasks' # << >>, \A t \in Threads : call'[t] # "notify"
             PROVE  \E v \in Workers : pc'[v] # "wait"
  BY DEF NoLostWakeup, Waiting
<1>0. TypeOK /\ NoLostWakeup
  BY DEF PoolInv, InOnePlace
<1> USE DEF poolVars
<1>1. ASSUME NEW w \in Workers, ExecuteTake(w) \/ ExecuteWake(w) \/ ExecuteRun(w) \/ SpuriousWakeup(w)
      PROVE  pc'[w] # "wait"
  BY <1>0, <1>1 DEF TypeOK, ExecuteTake, ExecuteWake, ExecuteRun, SpuriousWakeup
<1>2. ASSUME NEW w \in Workers, ExecuteWait(w) \/ ExecuteExit(w) PROVE FALSE
  BY <1>2 DEF ExecuteWait, ExecuteExit
<1>3. ASSUME NEW t \in Threads, AddInsert(t) PROVE FALSE
  <2>1. call'[t] = "notify"
    BY <1>0, <1>3 DEF TypeOK, AddInsert
  <2> QED BY <2>1
<1>4. ASSUME NEW t \in Threads, Notify(t) PROVE \E v \in Workers : pc'[v] # "wait"
  <2>1. CASE Waiting = {}
    BY <1>0, <1>4, <2>1, ThreadAssumption DEF TypeOK, Notify, Waiting
  <2>2. CASE Waiting # {}
    BY <1>0, <1>4, <2>2 DEF TypeOK, Notify, Waiting
  <2> QED BY <2>1, <2>2
<1>5. CASE NotifyAll
  <2>1. \A v \in Workers : pc'[v] # "wait"
    BY <1>5 DEF NotifyAll, Waiting
  <2> QED BY <2>1, ThreadAssumption
<1>6. ASSUME UNCHANGED pc, tasks # << >>, \A t \in Threads : call[t] # "notify"
      PROVE  \E v \in Workers : pc'[v] # "wait"
  BY <1>0, <1>6 DEF NoLostWakeup, Waiting
<1>7. ASSUME NEW t \in Threads, NEW d \in 0 .. MaxTime, AddMake(t, d)
      PROVE  \E v \in Workers : pc'[v] # "wait"
  BY <1>0, <1>6, <1>7 DEF TypeOK, AddMake, MayCall
<1>8. ASSUME NEW t \in Threads, AddThrow(t) PROVE \E v \in Workers : pc'[v] # "wait"
  BY <1>0, <1>6, <1>8 DEF TypeOK, AddThrow
<1>9. ASSUME NEW t \in Threads, NEW i \in Ids, Cancel(t, i)
      PROVE  \E v \in Workers : pc'[v] # "wait"
  <2>1. tasks # << >>
    BY <1>9 DEF Cancel
  <2> QED BY <1>6, <1>9, <2>1 DEF Cancel
<1>10. CASE Stop \/ Join \/ ClockTick \/ UNCHANGED vars
  BY <1>6, <1>10 DEF Stop, Join, ClockTick, vars
<1> QED BY <1>1, <1>2, <1>3, <1>4, <1>5, <1>7, <1>8, <1>9, <1>10 DEF Next, AddRest,
           Execute

\* The queue of the FIFO scheduler stays the end of what was accepted.
LEMMA FifoStep == PoolInv /\ [Next]_vars => FifoOrder'
<1> SUFFICES ASSUME PoolInv, [Next]_vars, kind' = "fifo"
             PROVE  /\ Len(tasks') <= Len(accepted')
                    /\ \A i \in DOMAIN tasks' :
                          tasks'[i].id = accepted'[Len(accepted') - Len(tasks') + i]
  BY DEF FifoOrder
<1>0. TypeOK /\ InOnePlace
  BY DEF PoolInv, InOnePlace
<1>1. UNCHANGED kind
  BY ZenonT(40) DEF Next, AddRest, Execute, vars, poolVars, AddMake, AddThrow, AddInsert, Notify,
     Cancel,
         ExecuteWait, ExecuteTake, ExecuteRun, ExecuteWake, ExecuteExit, SpuriousWakeup, Stop,
         NotifyAll, Join, ClockTick
<1>2. /\ tasks \in Seq(Tasks) /\ accepted \in Seq(Ids)
      /\ Len(tasks) \in Nat /\ Len(accepted) \in Nat /\ Len(tasks) <= Len(accepted)
      /\ \A i \in DOMAIN tasks : tasks[i].id = accepted[Len(accepted) - Len(tasks) + i]
  BY <1>0, <1>1 DEF TypeOK, PoolInv, FifoOrder
<1>3. ASSUME NEW t \in Threads, AddInsert(t)
      PROVE  /\ Len(tasks') <= Len(accepted')
             /\ \A i \in DOMAIN tasks' :
                   tasks'[i].id = accepted'[Len(accepted') - Len(tasks') + i]
  <2> DEFINE e == arg[t]
  <2>1. e \in Tasks /\ e.id \in Ids
    BY <1>0, <1>3 DEF PoolInv, TypeOK, AddInv, AddInsert, Tasks
  <2>2. tasks' = Append(tasks, e) /\ accepted' = Append(accepted, e.id)
    BY <1>1, <1>3 DEF AddInsert, insert
  <2> HIDE DEF e
  <2>3. /\ tasks' \in Seq(Tasks) /\ Len(tasks') = Len(tasks) + 1
        /\ \A i \in 1 .. Len(tasks) : tasks'[i] = tasks[i]
        /\ tasks'[Len(tasks) + 1] = e
    BY <1>2, <2>1, <2>2, AppendProperties
  <2>4. /\ Len(accepted') = Len(accepted) + 1
        /\ \A i \in 1 .. Len(accepted) : accepted'[i] = accepted[i]
        /\ accepted'[Len(accepted) + 1] = e.id
    BY <1>2, <2>1, <2>2, AppendProperties
  <2>5. ASSUME NEW i \in DOMAIN tasks'
        PROVE  tasks'[i].id = accepted'[Len(accepted') - Len(tasks') + i]
    <3>1. CASE i = Len(tasks) + 1
      <4>1. Len(accepted') - Len(tasks') + i = Len(accepted) + 1
        BY <1>2, <2>3, <2>4, <3>1
      <4> QED BY <2>3, <2>4, <3>1, <4>1
    <3>2. CASE i \in 1 .. Len(tasks)
      <4>1. /\ Len(accepted') - Len(tasks') + i = Len(accepted) - Len(tasks) + i
            /\ Len(accepted) - Len(tasks) + i \in 1 .. Len(accepted)
        BY <1>2, <2>3, <2>4, <3>2
      <4>2. tasks'[i] = tasks[i] /\ tasks[i].id = accepted[Len(accepted) - Len(tasks) + i]
        BY <1>2, <2>3, <3>2
      <4>3. accepted'[Len(accepted) - Len(tasks) + i] = accepted[Len(accepted) - Len(tasks) + i]
        BY <2>4, <4>1
      <4> QED BY <4>1, <4>2, <4>3
    <3> QED BY <1>2, <2>3, <3>1, <3>2
  <2> QED BY <1>2, <2>3, <2>4, <2>5
<1>4. ASSUME NEW w \in Workers, ExecuteTake(w)
      PROVE  /\ Len(tasks') <= Len(accepted')
             /\ \A i \in DOMAIN tasks' :
                   tasks'[i].id = accepted'[Len(accepted') - Len(tasks') + i]
  <2>0. tasks # << >> /\ tasks' = RemoveAt(tasks, NextIndex) /\ UNCHANGED accepted
    BY <1>4 DEF ExecuteTake, RestOfTasks
  <2>1. PICK n \in DOMAIN tasks : n = 1 /\ tasks' = RemoveAt(tasks, n)
    BY <1>1, <1>2, <2>0 DEF NextIndex
  <2>2. /\ tasks' \in Seq(Tasks) /\ Len(tasks') = Len(tasks) - 1
        /\ \A i \in 1 .. Len(tasks') : tasks'[i] = tasks[i + 1]
    <3>1. /\ tasks' \in Seq(Tasks) /\ Len(tasks') = Len(tasks) - 1
          /\ \A i \in 1 .. Len(tasks') : tasks'[i] = IF i < n THEN tasks[i] ELSE tasks[i + 1]
      <4>1. tasks \in Seq(Tasks)
        BY <1>2
      <4>2. /\ RemoveAt(tasks, n) \in Seq(Tasks) /\ Len(RemoveAt(tasks, n)) = Len(tasks) - 1
            /\ \A i \in 1 .. Len(RemoveAt(tasks, n)) :
                  RemoveAt(tasks, n)[i] = IF i < n THEN tasks[i] ELSE tasks[i + 1]
        BY <4>1, RemoveIds
      <4>3. tasks' = RemoveAt(tasks, n)
        BY <2>1
      <4> QED BY <4>2, <4>3
    <3>2. Len(tasks') \in Nat
      BY <3>1
    <3> QED BY <2>1, <3>1, <3>2
  <2>3. ASSUME NEW i \in DOMAIN tasks'
        PROVE  tasks'[i].id = accepted[Len(accepted) - Len(tasks') + i]
    <3>1. /\ i + 1 \in DOMAIN tasks /\ tasks'[i] = tasks[i + 1]
          /\ Len(accepted) - Len(tasks') + i = Len(accepted) - Len(tasks) + (i + 1)
      BY <1>2, <2>2
    <3> QED BY <1>2, <3>1
  <2> QED BY <1>2, <2>0, <2>2, <2>3
<1>5. ASSUME NEW t \in Threads, NEW i \in Ids, Cancel(t, i) PROVE FALSE
  BY <1>0, <1>1, <1>5 DEF InOnePlace, Cancel
<1>6. CASE UNCHANGED <<tasks, accepted>>
  BY <1>2, <1>6
<1> QED BY <1>3, <1>4, <1>5, <1>6, ZenonT(40)
        DEF Next, AddRest, Execute, vars, poolVars, AddMake, AddThrow, Notify, ExecuteWait,
            ExecuteRun, ExecuteWake, ExecuteExit, SpuriousWakeup, Stop, NotifyAll, Join, ClockTick

-----------------------------------------------------------------------------
\* PoolInv holds of FIFOScheduler, LIFOScheduler and TimerEventScheduler with any number of
\* threads, tasks and ticks.
THEOREM PoolInvariant == Spec => []PoolInv
<1>1. PoolInv /\ [Next]_vars => PoolInv'
  BY PlaceStep, AddStep, StopStep, WakeStep, FifoStep DEF PoolInv
<1> QED BY InitInv, <1>1, PTL DEF Spec

\* No task that add() accepted is lost, run twice or run after it was cancelled, and
\* cancel() erases through no iterator of a task that execute() has taken.
THEOREM TasksInOnePlace == Spec => []InOnePlace
<1>1. PoolInv => InOnePlace
  BY DEF PoolInv
<1> QED BY PoolInvariant, <1>1, PTL

\* ~ThreadPool returns only when every accepted task has been run or cancelled.
THEOREM DestructorDrains == Spec => []DestroyedDrained
<1>1. PoolInv => DestroyedDrained
  <2> SUFFICES ASSUME PoolInv, main = "destroyed" PROVE ToSet(accepted) = done \cup cancelled
    BY DEF DestroyedDrained
  <2>1. tasks = << >> /\ \A w \in Workers : pc[w] = "exit"
    BY ThreadAssumption DEF PoolInv, StopInv
  <2>2. Queued = {} /\ InHand = {}
    BY <2>1 DEF PoolInv, InOnePlace, TypeOK, Queued, IdsIn, Holders, InHand
  <2> QED BY <2>2 DEF PoolInv, InOnePlace
<1> QED BY PoolInvariant, <1>1, PTL

\* FIFOScheduler takes the tasks in the order in which add() accepted them.
THEOREM FifoInOrder == Spec => []FifoOrder
<1>1. PoolInv => FifoOrder
  BY DEF PoolInv
<1> QED BY PoolInvariant, <1>1, PTL

\* No task waits for threads that all wait: notify_one() after the unlock loses no wake-up.
THEOREM WakeupsKept == Spec => []NoLostWakeup
<1>1. PoolInv => NoLostWakeup
  BY DEF PoolInv
<1> QED BY PoolInvariant, <1>1, PTL
=============================================================================
