-------------------------- MODULE RpcClientProofs --------------------------
(***************************************************************************)
(* Proofs about RpcClient for any number of coroutines and calls, any      *)
(* timeout and any queue length.                                           *)
(***************************************************************************)
EXTENDS RpcClient, TLAPS

\* The provers, tried in this order, and how long each may take.
USE SMTT(20), Z3T(20), Zenon

\* The client starts with nothing suspended.
LEMMA InitClient == Init => ClientInv
  BY CorosAssumption, BoundsAssumption
     DEF Init, ClientInv, TypeOK, ControlInv, ContextsAreWaiting, NoneForgotten,
         SuccessMeansOwnReply, NoExpiredLeft, Uids, Errors

\* The texts that the code gives SetFailed() are errors.
LEMMA ErrorTexts == {"none", "coro timeout", "read rsp failed", "rpc failed", "killed"} \subseteq Errors
  BY DEF Errors

\* An assignment to one entry keeps a function's type.
LEMMA FunUpdate == ASSUME NEW S, NEW T, NEW f \in [S -> T], NEW x, NEW t \in T
                   PROVE  [f EXCEPT ![x] = t] \in [S -> T]
  BY Zenon

\* Taking packets from a ring and offering them to it.
LEMMA RingOps == ASSUME NEW S, NEW q \in Seq(S)
                 PROVE  /\ \A x \in S : Push(q, x) \in Seq(S)
                        /\ q # <<>> => Head(q) \in S /\ Tail(q) \in Seq(S)
  BY DEF Push

\* What KillCoro and a resumption assign is of the right type.
LEMMA KillType == ASSUME TypeOK, NEW u \in Uids, NEW e \in Errors, Kill(u, e)
                  PROVE  /\ error' \in [Coros -> Errors]
                         /\ run' \in Coros \cup {NoCoro}
                         /\ cstate' \in [Coros -> {"new", "running", "suspended", "done"}]
                         /\ killing' \in 0 .. MaxUid
<1>1. error' \in [Coros -> Errors]
  BY Zenon DEF TypeOK, Kill
<1>2. run' \in Coros \cup {NoCoro}
  BY DEF TypeOK, Kill, Resume
<1>3. cstate' \in [Coros -> {"new", "running", "suspended", "done"}]
  BY Zenon DEF TypeOK, Kill, Resume
<1>4. killing' \in 0 .. MaxUid
  BY BoundsAssumption DEF Kill, Uids
<1> QED BY <1>1, <1>2, <1>3, <1>4

\* Every step keeps every variable in its type.
LEMMA NextType == TypeOK /\ [Next]_vars => TypeOK'
<1> SUFFICES ASSUME TypeOK, [Next]_vars PROVE TypeOK'
  OBVIOUS
<1> USE CorosAssumption, BoundsAssumption DEF TypeOK, Uids, coroVars, ctxVars, netVars, mainVars
<1>1. ASSUME NEW c \in Coros, Start(c) PROVE TypeOK'
  BY <1>1, Zenon DEF Start
<1>2. ASSUME NEW c \in Coros, Call(c) PROVE TypeOK'
  <2>1. uidGen' \in Uids /\ uidGen' \in 0 .. MaxUid /\ now + TimeOut \in 0 .. MaxTime
    BY <1>2 DEF Call
  <2>2. sendQ' \in Seq(Uids)
    <3>1. sendQ' = sendQ \/ sendQ' = Push(sendQ, uidGen')
      BY <1>2 DEF Call
    <3> QED BY <3>1, <2>1, RingOps
  <2>3. error' \in [Coros -> Errors]
    BY <1>2, ErrorTexts, Zenon DEF Call
  <2>4. susp' \subseteq Uids /\ heap' \subseteq Uids
    BY <1>2, <2>1 DEF Call
  <2>5. /\ owner' \in [Uids -> Coros \cup {NoCoro}]
        /\ deadline' \in [Uids -> 0 .. MaxTime]
    BY <1>2, <2>1 DEF Call
  <2>6. /\ cstate' \in [Coros -> {"new", "running", "suspended", "done"}]
        /\ run' \in Coros \cup {NoCoro}
    BY <1>2 DEF Call
  <2>7. wait' \in [Coros -> 0 .. MaxUid] /\ reply' \in [Coros -> 0 .. MaxUid]
    BY <1>2, <2>1 DEF Call
  <2> QED BY <1>2, <2>1, <2>2, <2>3, <2>4, <2>5, <2>6, <2>7, Zenon DEF Call
<1>3. ASSUME NEW c \in Coros, Finish(c) PROVE TypeOK'
  BY <1>3 DEF Finish
<1>4. CASE KillReturn
  <2>1. killing' \in 0 .. MaxUid
    BY <1>4 DEF KillReturn
  <2>2. susp' \subseteq Uids
    BY <1>4 DEF KillReturn
  <2> QED BY <1>4, <2>1, <2>2 DEF KillReturn
<1>5. ASSUME NEW u \in Uids, KillByUid(u) PROVE TypeOK'
  BY <1>5, ErrorTexts, KillType, Zenon DEF KillByUid
<1>6. CASE Update
  BY <1>6 DEF Update
<1>7. CASE TimeoutBreak
  BY <1>7 DEF TimeoutBreak
<1>8. ASSUME NEW u \in Uids, TimeoutSkip(u) PROVE TypeOK'
  BY <1>8 DEF TimeoutSkip
<1>9. ASSUME NEW u \in Uids, TimeoutKill(u) PROVE TypeOK'
  BY <1>9, ErrorTexts, KillType, Zenon DEF TimeoutKill
<1>10. CASE TickResume
  <2> DEFINE p == Head(recvQ)
  <2>1. p \in Rsp /\ p.uid \in Uids /\ recvQ' \in Seq(Rsp)
    BY <1>10, RingOps, Zenon DEF TickResume, Rsp
  <2>2. PICK readable \in BOOLEAN :
          /\ error' = [error EXCEPT ![owner[p.uid]] = ErrorAfter(p, owner[p.uid], readable)]
          /\ reply' = IF ReadsReply(p, owner[p.uid], readable)
                      THEN [reply EXCEPT ![owner[p.uid]] = p.uid] ELSE reply
          /\ killing' = IF error[owner[p.uid]] = "none" /\ error'[owner[p.uid]] = "read rsp failed"
                        THEN p.uid ELSE 0
    BY <1>10, Zenon DEF TickResume
  <2>3. error' \in [Coros -> Errors]
    <3>1. ASSUME owner[p.uid] \in Coros
          PROVE  ErrorAfter(p, owner[p.uid], readable) \in Errors
      BY <3>1, ErrorTexts, Zenon DEF ErrorAfter
    <3> HIDE DEF p
    <3> QED BY <2>2, <3>1, Zenon
  <2>4. reply' \in [Coros -> 0 .. MaxUid] /\ killing' \in 0 .. MaxUid
    <3>1. killing' \in {0, p.uid} /\ reply' \in {reply, [reply EXCEPT ![owner[p.uid]] = p.uid]}
      BY <2>2, Zenon
    <3>2. p.uid \in 0 .. MaxUid
      BY <2>1
    <3> QED BY <3>2, <3>1, FunUpdate
  <2> QED BY <1>10, <2>1, <2>3, <2>4, Zenon DEF TickResume, Resume
<1>11. CASE TickDrop
  BY <1>11, RingOps, Zenon DEF TickDrop
<1>12. CASE TickDone
  BY <1>12 DEF TickDone
<1>13. CASE OnUpdate
  <2>1. Head(sendQ) \in Uids /\ sendQ' \in Seq(Uids)
    BY <1>13, RingOps, Zenon DEF OnUpdate
  <2>2. reqNet' = reqNet \cup {Head(sendQ)} \/ reqNet' = reqNet
    BY <1>13 DEF OnUpdate
  <2> QED BY <1>13, <2>1, <2>2, Zenon DEF OnUpdate
<1>14. ASSUME NEW p \in Rsp, OnRecvPacket(p) PROVE TypeOK'
  <2>1. [p EXCEPT !.status = "ok"] \in Rsp
    BY Zenon DEF Rsp
  <2>2. recvQ' \in Seq(Rsp)
    BY <1>14, <2>1, RingOps DEF OnRecvPacket
  <2> QED BY <1>14, <2>2, Zenon DEF OnRecvPacket
<1>15. ASSUME NEW u \in Uids, NEW s \in {"ok", "failed"}, ServerReply(u, s) PROVE TypeOK'
  <2>1. [uid |-> u, status |-> s] \in Rsp
    BY DEF Rsp
  <2>2. rspNet' \subseteq Rsp /\ srvFailed' \subseteq Uids
    BY <1>15, <2>1 DEF ServerReply
  <2> QED BY <1>15, <2>2 DEF ServerReply
<1>16. ASSUME NEW u \in Uids, LoseRequest(u) PROVE TypeOK'
  BY <1>16 DEF LoseRequest
<1>17. ASSUME NEW p \in Rsp, LoseResponse(p) PROVE TypeOK'
  BY <1>17 DEF LoseResponse
<1>18. CASE ClockTick
  <2>1. now' \in 0 .. MaxTime
    BY <1>18 DEF ClockTick
  <2> QED BY <1>18, <2>1 DEF ClockTick
<1>19. CASE UNCHANGED vars
  BY <1>19, Zenon DEF vars
<1> QED
  BY ZenonT(40), <1>1, <1>2, <1>3, <1>4, <1>5, <1>6, <1>7, <1>8, <1>9, <1>10, <1>11, <1>12, <1>13,
     <1>14,
     <1>15, <1>16, <1>17, <1>18, <1>19
     DEF Next, Main, CoroStep, KillStep, TimeoutStep, TickStep, NetThread, Environment, Server, Loss

-----------------------------------------------------------------------------
\* Steps of the network thread, the network, the server and the clock leave the
\* main thread's state alone.
LEMMA OthersKeepInv == ASSUME ClientInv, TypeOK', UNCHANGED mainVars, now' >= now PROVE ClientInv'
  BY DEF ClientInv, TypeOK, ControlInv, ContextsAreWaiting, NoneForgotten,
     SuccessMeansOwnReply,
         NoExpiredLeft, mainVars, coroVars, ctxVars

\* A call made by the coroutine that has control.  Its new context is nobody else's,
\* and no context other than the one being killed belongs to a running coroutine.
LEMMA CallKeepsInv == ASSUME ClientInv, TypeOK', NEW c \in Coros, Call(c) PROVE ClientInv'
<1> DEFINE n == uidGen + 1
<1>t. TypeOK
  BY DEF ClientInv
<1>1. /\ n \in Uids /\ n \notin susp /\ n \notin heap /\ n # killing /\ n # 0
      /\ cstate[c] = "running"
  BY BoundsAssumption DEF ClientInv, TypeOK, ControlInv, Call, Uids
<1>2. /\ susp' = susp \cup {n} /\ heap' = heap \cup {n} /\ uidGen' = n
      /\ owner' = [owner EXCEPT ![n] = c] /\ deadline' = [deadline EXCEPT ![n] = now + TimeOut]
      /\ cstate' = [cstate EXCEPT ![c] = "suspended"] /\ wait' = [wait EXCEPT ![c] = n]
      /\ run = c /\ run' = NoCoro /\ killing' = killing /\ pc' = pc /\ tnow' = tnow /\ now' = now
  BY DEF Call
<1>3. \A d \in Coros \ {c} : error'[d] = error[d] /\ reply'[d] = reply[d]
  BY <1>t DEF Call, TypeOK
<1> HIDE DEF n
<1>4. ControlInv'
  <2>1. n = uidGen + 1 /\ uidGen \in Nat
    BY <1>t DEF n, TypeOK
  <2> QED BY <1>1, <1>2, <1>t, <2>1, CorosAssumption, BoundsAssumption DEF ControlInv,
             ClientInv, TypeOK
<1>5. ContextsAreWaiting'
  BY <1>1, <1>2, <1>t DEF ContextsAreWaiting, ClientInv, TypeOK
<1>6. NoneForgotten'
  BY <1>1, <1>2, <1>t DEF NoneForgotten, ClientInv, TypeOK
<1>7. SuccessMeansOwnReply'
  BY <1>1, <1>2, <1>3, <1>t DEF SuccessMeansOwnReply, ClientInv, TypeOK
<1>8. NoExpiredLeft'
  BY <1>1, <1>2, <1>t, BoundsAssumption DEF NoExpiredLeft, ClientInv, TypeOK, ControlInv
<1> QED BY <1>4, <1>5, <1>6, <1>7, <1>8 DEF ClientInv

\* KillCoro, from the user or from HandleCoroTimeout, resumes the one coroutine that
\* waits for the call it ends; the others keep their contexts.
LEMMA KillKeepsInv ==
  ASSUME ClientInv, TypeOK', NEW u \in Uids, NEW e \in Errors \ {"none"}, u \in susp, Idle,
         Kill(u, e), heap' \in {heap, heap \ {u}},
         UNCHANGED <<now, pc, tnow, uidGen, susp, owner, deadline, wait, reply>>
  PROVE  ClientInv'
<1> DEFINE c == owner[u]
<1>t. TypeOK
  BY DEF ClientInv
<1>0. susp \ {killing} = susp /\ killing = 0 /\ run = NoCoro
  BY <1>t DEF TypeOK, Idle, Uids
<1>1. c \in Coros /\ cstate[c] = "suspended" /\ wait[c] = u
  BY <1>0 DEF ClientInv, ContextsAreWaiting
<1>2. /\ run' = c /\ killing' = u /\ cstate' = [cstate EXCEPT ![c] = "running"]
      /\ error' = [error EXCEPT ![c] = e]
  BY DEF Kill, Resume
<1> HIDE DEF c
<1>4. ControlInv'
  BY <1>0, <1>1, <1>2, <1>t, CorosAssumption DEF ControlInv, ClientInv, TypeOK, Uids
<1>5. ContextsAreWaiting'
  <2>1. \A v \in susp : v # u => owner[v] # c
    BY <1>0, <1>1 DEF ClientInv, ContextsAreWaiting
  <2>2. \A v \in susp : owner[v] \in Coros /\ cstate[owner[v]] = "suspended" /\ wait[owner[v]] = v
    BY <1>0 DEF ClientInv, ContextsAreWaiting
  <2> QED BY <1>2, <1>t, <2>1, <2>2 DEF ContextsAreWaiting, TypeOK
<1>6. NoneForgotten'
  <2>1. \A d \in Coros : d # c /\ cstate[d] = "suspended" => wait[d] # u
    BY <1>1 DEF ClientInv, NoneForgotten, c
  <2> QED BY <1>0, <1>1, <1>2, <1>t, <2>1 DEF NoneForgotten, ClientInv, TypeOK
<1>7. SuccessMeansOwnReply'
  BY <1>0, <1>1, <1>2, <1>t DEF SuccessMeansOwnReply, ClientInv, TypeOK
<1>8. NoExpiredLeft'
  BY <1>0, <1>1, <1>2, <1>t DEF NoExpiredLeft, ClientInv
<1> QED BY <1>4, <1>5, <1>6, <1>7, <1>8 DEF ClientInv

\* A response resumes the one coroutine that waits for it.
LEMMA ResumeKeepsInv == ASSUME ClientInv, TypeOK', TickResume PROVE ClientInv'
<1> DEFINE u == Head(recvQ).uid
           c == owner[u]
<1>t. TypeOK
  BY DEF ClientInv
<1>0. susp \ {killing} = susp /\ killing = 0 /\ run = NoCoro /\ u \in susp /\ 0 \notin susp
  <2>1. run = NoCoro /\ killing = 0 /\ u \in susp
    BY Zenon DEF TickResume, InTick, Idle
  <2>2. 0 \notin susp
    BY <1>t DEF TypeOK, Uids
  <2> QED BY <2>1, <2>2
<1>1. c \in Coros /\ cstate[c] = "suspended" /\ wait[c] = u
  BY <1>0 DEF ClientInv, ContextsAreWaiting
<1>2. /\ run' = c /\ cstate' = [cstate EXCEPT ![c] = "running"]
      /\ susp' = susp \ {u} /\ killing' \in {0, u}
      /\ UNCHANGED <<now, pc, tnow, uidGen, heap, owner, deadline, wait>>
  <2>1. killing' = u \/ killing' = 0
    BY ZenonT(40) DEF TickResume
  <2> QED BY <2>1, Zenon DEF TickResume, Resume
<1>3. \A d \in Coros \ {c} : error'[d] = error[d] /\ reply'[d] = reply[d]
  BY <1>t, ZenonT(40) DEF TickResume, TypeOK
<1>4. error'[c] = "none" /\ c \notin VoidCoros => reply'[c] = u
  <2>1. PICK readable \in BOOLEAN :
          /\ error' = [error EXCEPT ![c] = ErrorAfter(Head(recvQ), c, readable)]
          /\ reply' = IF ReadsReply(Head(recvQ), c, readable)
                      THEN [reply EXCEPT ![c] = u] ELSE reply
    BY ZenonT(40) DEF TickResume
  <2>2. /\ error'[c] = ErrorAfter(Head(recvQ), c, readable)
        /\ ReadsReply(Head(recvQ), c, readable) => reply'[c] = u
    BY <1>1, <1>t, <2>1 DEF TypeOK
  <2>3. error'[c] = "none" /\ c \notin VoidCoros => ReadsReply(Head(recvQ), c, readable)
    BY <2>2, Zenon DEF ErrorAfter, ReadsReply
  <2> QED BY <2>2, <2>3
<1> HIDE DEF u, c
<1>5. \A v \in susp : owner[v] \in Coros /\ cstate[owner[v]] = "suspended" /\ wait[owner[v]] = v
  BY <1>0 DEF ClientInv, ContextsAreWaiting
<1>6. ControlInv'
  BY <1>0, <1>1, <1>2, <1>t, CorosAssumption DEF ControlInv, ClientInv, TypeOK, Uids
<1>7. ContextsAreWaiting'
  <2>1. \A v \in susp : v # u => owner[v] # c
    BY <1>1, <1>5
  <2> QED BY <1>2, <1>t, <1>5, <2>1 DEF ContextsAreWaiting, TypeOK
<1>8. NoneForgotten'
  <2>1. \A d \in Coros : d # c /\ cstate[d] = "suspended" => wait[d] # u /\ wait[d] # 0
    BY <1>0, <1>1 DEF ClientInv, NoneForgotten, c
  <2> QED BY <1>0, <1>1, <1>2, <1>t, <2>1 DEF NoneForgotten, ClientInv, TypeOK
<1>9. SuccessMeansOwnReply'
  BY <1>1, <1>2, <1>3, <1>4, <1>t DEF SuccessMeansOwnReply, ClientInv, TypeOK
<1>10. NoExpiredLeft'
  BY <1>0, <1>2 DEF NoExpiredLeft, ClientInv
<1> QED BY <1>6, <1>7, <1>8, <1>9, <1>10 DEF ClientInv

\* The strengthened invariant is inductive.
LEMMA NextClient == ClientInv /\ [Next]_vars => ClientInv'
<1> SUFFICES ASSUME ClientInv, [Next]_vars PROVE ClientInv'
  OBVIOUS
<1>t. TypeOK /\ TypeOK'
  BY NextType DEF ClientInv
<1>1. ASSUME NEW c \in Coros, Start(c) \/ Finish(c) PROVE ClientInv'
  <2>1. /\ UNCHANGED <<now, pc, tnow, killing, uidGen, susp, heap, owner, deadline, wait, error, reply>>
        /\ cstate[c] \in {"new", "running"} /\ cstate[c] = "new" => run = NoCoro
        /\ cstate[c] = "running" => run = c
        /\ \/ cstate[c] = "new" /\ run' = c /\ cstate' = [cstate EXCEPT ![c] = "running"]
           \/ cstate[c] = "running" /\ run' = NoCoro /\ cstate' = [cstate EXCEPT ![c] = "done"]
    BY <1>1 DEF Start, Finish, Idle, ctxVars, ClientInv, ControlInv
  <2>2. ControlInv'
    <3>0. ControlInv /\ cstate \in [Coros -> {"new", "running", "suspended", "done"}]
      BY <1>t DEF ClientInv, TypeOK
    <3>1. \A d \in Coros \ {c} : cstate'[d] = cstate[d]
      BY <2>1, <3>0
    <3>2. cstate'[c] \in {"running", "done"} /\ (cstate'[c] = "running" <=> run' = c)
      BY <2>1, <3>0, CorosAssumption
    <3>3. \A d \in Coros \ {c} : run # d /\ run' # d
      BY <2>1, CorosAssumption
    <3>4. \A d \in Coros : cstate'[d] = "running" <=> run' = d
      BY <3>0, <3>1, <3>2, <3>3 DEF ControlInv
    <3>5. \A d \in Coros : cstate'[d] = "new" => wait'[d] = 0
      BY <2>1, <3>0, <3>1, <3>2 DEF ControlInv
    <3> QED BY <2>1, <3>0, <3>4, <3>5 DEF ControlInv
  <2>3. ContextsAreWaiting' /\ NoneForgotten'
    BY <2>1, <1>t DEF ContextsAreWaiting, NoneForgotten, ClientInv, TypeOK
  <2>4. SuccessMeansOwnReply' /\ NoExpiredLeft'
    BY <2>1, <1>t DEF SuccessMeansOwnReply, NoExpiredLeft, ControlInv, ClientInv, TypeOK
  <2> QED BY <1>t, <2>2, <2>3, <2>4 DEF ClientInv
<1>2. ASSUME NEW c \in Coros, Call(c) PROVE ClientInv'
  BY <1>2, <1>t, CallKeepsInv
<1>3. ASSUME NEW u \in Uids, KillByUid(u) \/ TimeoutKill(u) PROVE ClientInv'
  <2>1. PICK e \in Errors \ {"none"} : Kill(u, e)
    <3>1. Kill(u, "killed") \/ Kill(u, "coro timeout")
      BY <1>3, Zenon DEF KillByUid, TimeoutKill
    <3> QED BY <3>1, ErrorTexts, Zenon
  <2>2. /\ u \in susp /\ Idle /\ heap' \in {heap, heap \ {u}}
        /\ UNCHANGED <<now, pc, tnow, uidGen, susp, owner, deadline, wait, reply>>
    BY <1>3, Zenon DEF KillByUid, TimeoutKill, InTimeout, ctxVars
  <2> QED BY <1>t, <2>1, <2>2, KillKeepsInv
<1>4. CASE KillReturn
  <2>1. /\ susp' = susp \ {killing} /\ susp' \ {killing'} = susp \ {killing} /\ killing' = 0
        /\ UNCHANGED <<now, pc, tnow, run, uidGen, heap, owner, deadline, cstate, wait, error, reply>>
    BY <1>4, <1>t DEF KillReturn, coroVars, TypeOK, Uids
  <2>2. ControlInv' /\ ContextsAreWaiting' /\ SuccessMeansOwnReply' /\ NoExpiredLeft'
    BY <2>1, <1>t DEF ControlInv, ContextsAreWaiting, SuccessMeansOwnReply, NoExpiredLeft,
       ClientInv, TypeOK
  <2>3. NoneForgotten'
    BY <2>1, <1>t DEF NoneForgotten, ClientInv, TypeOK, Uids
  <2> QED BY <1>t, <2>2, <2>3 DEF ClientInv
<1>5. CASE Update
  BY <1>5, <1>t DEF Update, ClientInv, TypeOK, ControlInv, ContextsAreWaiting,
     NoneForgotten,
                    SuccessMeansOwnReply, NoExpiredLeft, ctxVars, coroVars
<1>6. CASE TimeoutBreak
  <2>1. \A u \in susp \ {killing} : u \in heap
    BY DEF ClientInv, ContextsAreWaiting, NoneForgotten
  <2>2. /\ UNCHANGED <<now, tnow, run, killing, ctxVars, coroVars>>
        /\ \A u \in heap : deadline[u] > tnow
    BY <1>6 DEF TimeoutBreak
  <2> QED BY <1>t, <2>1, <2>2 DEF ClientInv, ControlInv, ContextsAreWaiting, NoneForgotten,
                    SuccessMeansOwnReply, NoExpiredLeft, ctxVars, coroVars
<1>7. ASSUME NEW u \in Uids, TimeoutSkip(u) PROVE ClientInv'
  BY <1>7, <1>t DEF TimeoutSkip, ClientInv, ControlInv, ContextsAreWaiting, NoneForgotten,
                    SuccessMeansOwnReply, NoExpiredLeft, coroVars
<1>8. CASE TickResume
  BY <1>8, <1>t, ResumeKeepsInv
<1>9. CASE TickDrop
  BY <1>9, <1>t, OthersKeepInv DEF TickDrop, mainVars, TypeOK
<1>10. CASE TickDone
  BY <1>10, <1>t DEF TickDone, ClientInv, ControlInv, ContextsAreWaiting, NoneForgotten,
                    SuccessMeansOwnReply, NoExpiredLeft, ctxVars, coroVars
<1>11. CASE NetThread \/ Environment
  <2>1. UNCHANGED mainVars /\ (now' = now \/ ClockTick)
    BY <1>11, Zenon DEF NetThread, Environment, Server, Loss, OnUpdate, OnRecvPacket, ServerReply,
                 LoseRequest, LoseResponse, ClockTick
  <2>2. now' >= now
    BY <1>t, <2>1 DEF ClockTick, TypeOK
  <2> QED BY <1>t, <2>1, <2>2, OthersKeepInv
<1>12. CASE UNCHANGED vars
  <2>1. UNCHANGED mainVars /\ now' >= now
    BY <1>12, <1>t DEF vars, mainVars, TypeOK
  <2> QED BY <1>t, <2>1, OthersKeepInv
<1> QED
  BY <1>1, <1>2, <1>3, <1>4, <1>5, <1>6, <1>7, <1>8, <1>9, <1>10, <1>11, <1>12
     DEF Next, Main, CoroStep, KillStep, TimeoutStep, TickStep

\* In every reachable state, for any coroutines and bounds, the inductive invariant
\* of the client holds.
THEOREM ClientInvariant == Spec => []ClientInv
  BY InitClient, NextClient, PTL DEF Spec

\* Every variable of the client keeps its type.
THEOREM TypeCorrect == Spec => []TypeOK
  BY ClientInvariant, PTL DEF ClientInv

\* A context found by a response, a timeout or KillCoro is that of a coroutine
\* suspended on that very call.
THEOREM FindsWaitingCoroutine == Spec => []ContextsAreWaiting
  BY ClientInvariant, PTL DEF ClientInv

\* CallMethod, KillCoro, HandleCoroTimeout and HandleRpcRsp never lose the context of
\* a suspended coroutine.
THEOREM ForgetsNone == Spec => []NoneForgotten
  BY ClientInvariant, PTL DEF ClientInv

\* A call that ends without an error has read its own response.
THEOREM OwnReply == Spec => []SuccessMeansOwnReply
  BY ClientInvariant, PTL DEF ClientInv

\* HandleCoroTimeout ends every call that has expired when it starts.
THEOREM EndsExpired == Spec => []NoExpiredLeft
  BY ClientInvariant, PTL DEF ClientInv

\* No coroutine is resumed twice for a call, or after its frame is gone.
THEOREM ResumesSuspended == Spec => ResumeOnlySuspended
<1>1. ASSUME ClientInv, [Next]_vars
      PROVE  [\A c \in Coros : run' = c /\ run # c => cstate[c] \in {"new", "suspended"}]_vars
  <2> SUFFICES ASSUME Next, NEW c \in Coros, run' = c, run # c
               PROVE  cstate[c] \in {"new", "suspended"}
    BY <1>1
  <2>1. \/ Start(c)
        \/ \E u \in Uids : u \in susp /\ killing = 0 /\ owner[u] = c
    <3>1. CASE \E d \in Coros : Start(d) \/ Call(d) \/ Finish(d)
      BY <3>1, CorosAssumption DEF Start, Call, Finish
    <3>2. CASE \E u \in Uids : KillByUid(u) \/ TimeoutKill(u)
      BY <3>2, ZenonT(40) DEF KillByUid, TimeoutKill, Kill, Resume, InTimeout, Idle
    <3>3. CASE TickResume
      <4>1. Head(recvQ).uid \in susp /\ killing = 0 /\ owner[Head(recvQ).uid] = c
        BY <3>3, Zenon DEF TickResume, Resume, InTick, Idle
      <4> QED BY <1>1, <4>1 DEF ClientInv, TypeOK
    <3>4. CASE run' = run
      BY <3>4
    <3>5. \/ \E d \in Coros : Start(d) \/ Call(d) \/ Finish(d)
          \/ \E u \in Uids : KillByUid(u) \/ TimeoutKill(u)
          \/ TickResume
          \/ run' = run
      BY Zenon DEF Next, Main, CoroStep, KillStep, TimeoutStep, TickStep, NetThread, Environment,
         Server,
             Loss, KillReturn, Update, TimeoutBreak, TimeoutSkip, TickDrop, TickDone, OnUpdate,
             OnRecvPacket, ServerReply, LoseRequest, LoseResponse, ClockTick, mainVars
    <3> QED BY <3>1, <3>2, <3>3, <3>4, <3>5
  <2>2. CASE Start(c)
    BY <2>2 DEF Start
  <2>3. ASSUME NEW u \in Uids, u \in susp, killing = 0, owner[u] = c
        PROVE  cstate[c] = "suspended"
    BY <1>1, <2>3 DEF ClientInv, ContextsAreWaiting, TypeOK, Uids
  <2> QED BY <2>1, <2>2, <2>3
<1> QED BY <1>1, ClientInvariant, PTL DEF Spec, ResumeOnlySuspended
=============================================================================
