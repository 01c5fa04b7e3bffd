-------------------------- MODULE RpcSystemProofs --------------------------
(***************************************************************************)
(* Proofs about the server, and about a client and a server together: they *)
(* implement RpcClient, and a call that succeeds was executed.             *)
(***************************************************************************)
EXTENDS RpcSystem, TLAPS

\* The provers, tried in this order, and how long each may take.
USE SMTT(20), Z3T(20), Zenon

-----------------------------------------------------------------------------
\* The elements of a ring after a packet is added, and after the oldest is taken.
LEMMA RangeAppend == ASSUME NEW S, NEW q \in Seq(S), NEW x \in S
                     PROVE  /\ Append(q, x) \in Seq(S)
                            /\ Server!Range(Append(q, x)) = Server!Range(q) \cup {x}
<1> DEFINE r == Append(q, x)
<1>1. /\ r \in Seq(S) /\ Len(q) \in Nat /\ Len(r) = Len(q) + 1 /\ r[Len(q) + 1] = x
      /\ \A i \in 1 .. Len(q) : r[i] = q[i]
      /\ DOMAIN r = 1 .. Len(r) /\ DOMAIN q = 1 .. Len(q)
  OBVIOUS
<1> HIDE DEF r
<1>2. Server!Range(r) \subseteq Server!Range(q) \cup {x}
  BY <1>1 DEF Server!Range
<1>3. Server!Range(q) \cup {x} \subseteq Server!Range(r)
  <2>1. \A i \in DOMAIN q : i \in DOMAIN r /\ r[i] = q[i]
    BY <1>1
  <2>2. Len(q) + 1 \in DOMAIN r
    BY <1>1
  <2> QED BY <1>1, <2>1, <2>2 DEF Server!Range
<1> QED BY <1>1, <1>2, <1>3 DEF r

LEMMA RangeTail == ASSUME NEW S, NEW q \in Seq(S), q # <<>>
                   PROVE  /\ Head(q) \in S /\ Tail(q) \in Seq(S)
                          /\ Server!Range(q) = Server!Range(Tail(q)) \cup {Head(q)}
                          /\ \A i \in 1 .. Len(Tail(q)) : i + 1 \in 1 .. Len(q) /\ Tail(q)[i] = q[i + 1]
                          /\ 1 \in 1 .. Len(q) /\ Head(q) = q[1]
<1>1. Head(q) \in S /\ Tail(q) \in Seq(S)
  OBVIOUS
<1>2. Len(q) \in Nat \ {0} /\ Len(Tail(q)) = Len(q) - 1 /\ Head(q) = q[1]
  OBVIOUS
<1>3. \A i \in 1 .. Len(Tail(q)) : i + 1 \in 1 .. Len(q) /\ Tail(q)[i] = q[i + 1]
  BY <1>2
<1>4. \A i \in 1 .. Len(q) : i = 1 \/ (i - 1 \in 1 .. Len(Tail(q)) /\ q[i] = Tail(q)[i - 1])
  BY <1>2
<1>5. Server!Range(q) = Server!Range(Tail(q)) \cup {Head(q)}
  <2> DEFINE r == Tail(q)
  <2>1. DOMAIN r = 1 .. Len(r) /\ DOMAIN q = 1 .. Len(q) /\ 1 \in DOMAIN q
    BY <1>1, <1>2
  <2> HIDE DEF r
  <2>2. Server!Range(r) \cup {Head(q)} \subseteq Server!Range(q)
    <3>1. \A i \in DOMAIN r : i + 1 \in DOMAIN q /\ r[i] = q[i + 1]
      BY <1>3, <2>1 DEF r
    <3> QED BY <1>2, <2>1, <3>1 DEF Server!Range
  <2>3. Server!Range(q) \subseteq Server!Range(r) \cup {Head(q)}
    <3>1. \A i \in DOMAIN q : q[i] = Head(q) \/ (i - 1 \in DOMAIN r /\ q[i] = r[i - 1])
      BY <1>2, <1>4, <2>1 DEF r
    <3> QED BY <3>1 DEF Server!Range
  <2> QED BY <2>2, <2>3 DEF r
<1> QED BY <1>1, <1>2, <1>3, <1>5

LEMMA InitServer == Server!Init => Server!ServerInv
  BY DEF Server!Init, Server!ServerInv, Server!TypeOK, Server!StatusTold, Server!Incoming,
         Server!Outgoing, Server!Range, Server!Calls

\* A step that starts no handler, answers no call and adds nothing to what is on its
\* way keeps the invariant.
LEMMA QuietKeepsInv ==
  ASSUME Server!ServerInv, UNCHANGED <<started, answered, failed, outQ, inQ, serving>>,
         phase' \in {"loop", "stopped"},
         wireIn' \subseteq wireIn, wireOut' \subseteq wireOut, UNCHANGED sent
  PROVE  Server!ServerInv'
  BY DEF Server!ServerInv, Server!TypeOK, Server!StatusTold, Server!Incoming, Server!Outgoing

LEMMA NextServer == Server!ServerInv /\ [Server!Next]_serverVars => Server!ServerInv'
<1> SUFFICES ASSUME Server!ServerInv, [Server!Next]_serverVars PROVE Server!ServerInv'
  OBVIOUS
<1>t. Server!TypeOK
  BY DEF Server!ServerInv
<1>1. ASSUME NEW c \in Server!Calls, Server!Request(c) PROVE Server!ServerInv'
  BY <1>1 DEF Server!Request, Server!ServerInv, Server!TypeOK, Server!StatusTold,
              Server!Incoming, Server!Outgoing
<1>2. ASSUME NEW c \in Server!Calls, Server!OnRecvPacket(c) PROVE Server!ServerInv'
  <2>1. CASE inQ' = inQ
    BY <1>2, <2>1, QuietKeepsInv DEF Server!OnRecvPacket, Server!ServerInv, Server!TypeOK
  <2>2. CASE inQ' = Append(inQ, c)
    <3>1. inQ' \in Seq(Server!Calls) /\ Server!Range(inQ') = Server!Range(inQ) \cup {c}
      BY <1>t, <2>2, RangeAppend DEF Server!TypeOK
    <3>2. Server!Incoming' = Server!Incoming /\ wireIn' \cap Server!Range(inQ') = {}
      BY <1>2, <3>1 DEF Server!OnRecvPacket, Server!Incoming, Server!ServerInv
    <3>3. \A i, j \in 1 .. Len(inQ') : inQ'[i] = inQ'[j] => i = j
      <4>1. \A i \in 1 .. Len(inQ) : inQ[i] # c
        BY <1>2, <1>t DEF Server!OnRecvPacket, Server!ServerInv, Server!Range, Server!TypeOK
      <4>2. /\ Len(inQ') = Len(inQ) + 1 /\ inQ'[Len(inQ) + 1] = c
            /\ \A i \in 1 .. Len(inQ) : inQ'[i] = inQ[i]
        BY <1>t, <2>2 DEF Server!TypeOK
      <4>3. Len(inQ) \in Nat
        BY <1>t DEF Server!TypeOK
      <4> QED BY <4>1, <4>2, <4>3 DEF Server!ServerInv
    <3> QED BY <1>2, <3>1, <3>2, <3>3 DEF Server!OnRecvPacket, Server!ServerInv, Server!TypeOK,
                                          Server!StatusTold, Server!Outgoing
  <2> QED BY <1>2, <2>1, <2>2 DEF Server!OnRecvPacket
<1>3. CASE Server!HandleRpcReq \/ Server!RejectRpcReq
  <2> DEFINE c == Head(inQ)
  <2>1. /\ c \in Server!Calls /\ inQ' \in Seq(Server!Calls) /\ Server!Range(inQ) = Server!Range(inQ') \cup {c}
        /\ c \notin Server!Range(inQ')
        /\ \A i, j \in 1 .. Len(inQ') : inQ'[i] = inQ'[j] => i = j
    <3>1. inQ # <<>> /\ inQ' = Tail(inQ)
      BY <1>3 DEF Server!HandleRpcReq, Server!RejectRpcReq
    <3>2. /\ c \in Server!Calls /\ inQ' \in Seq(Server!Calls) /\ Server!Range(inQ) = Server!Range(inQ') \cup {c}
          /\ \A i \in 1 .. Len(inQ') : i + 1 \in 1 .. Len(inQ) /\ inQ'[i] = inQ[i + 1]
          /\ 1 \in 1 .. Len(inQ) /\ c = inQ[1]
      BY <1>t, <3>1, RangeTail DEF Server!TypeOK
    <3> HIDE DEF c
    <3>3. \A i \in 1 .. Len(inQ') : inQ'[i] # c
      BY <3>2 DEF Server!ServerInv
    <3>4. c \notin Server!Range(inQ')
      BY <3>2, <3>3 DEF Server!Range
    <3>5. \A i, j \in 1 .. Len(inQ') : inQ'[i] = inQ'[j] => i = j
      BY <3>2 DEF Server!ServerInv
    <3> QED BY <3>2, <3>4, <3>5
  <2>2. c \in sent /\ started[c] = 0 /\ c \notin wireIn
    BY <2>1 DEF Server!ServerInv, Server!Incoming
  <2>3. CASE Server!RejectRpcReq
    BY <1>t, <2>1, <2>3 DEF Server!RejectRpcReq, Server!ServerInv, Server!TypeOK,
                            Server!StatusTold, Server!Incoming, Server!Outgoing
  <2>4. CASE Server!HandleRpcReq
    <3>1. /\ started' = [started EXCEPT ![c] = 1] /\ serving' = serving \cup {c}
          /\ UNCHANGED <<phase, wireIn, failed, outQ, wireOut, sent, answered>>
      BY <1>t, <2>1, <2>2, <2>4 DEF Server!HandleRpcReq, Server!TypeOK
    <3> HIDE DEF c
    <3>2. answered[c] = 0
      BY <2>1, <2>2 DEF Server!ServerInv
    <3> QED BY <1>t, <2>1, <2>2, <3>1, <3>2 DEF Server!ServerInv, Server!TypeOK,
                                                Server!StatusTold, Server!Incoming, Server!Outgoing
  <2> QED BY <1>3, <2>3, <2>4
<1>4. ASSUME NEW c \in Server!Calls, Server!HandlerFails(c) PROVE Server!ServerInv'
  <2>1. \A a \in Server!Outgoing : a.call # c
    BY <1>4 DEF Server!HandlerFails, Server!ServerInv
  <2> QED BY <1>t, <1>4, <2>1 DEF Server!HandlerFails, Server!ServerInv, Server!TypeOK,
                                  Server!StatusTold, Server!Incoming, Server!Outgoing
<1>5. ASSUME NEW c \in Server!Calls, Server!OnRpcDone(c) PROVE Server!ServerInv'
  <2>1. CASE UNCHANGED <<outQ, answered>>
    BY <1>t, <1>5, <2>1 DEF Server!OnRpcDone, Server!ServerInv, Server!TypeOK, Server!StatusTold,
                            Server!Incoming, Server!Outgoing
  <2>2. CASE /\ outQ' = Append(outQ, [call |-> c, status |-> IF c \in failed THEN "failed" ELSE "ok"])
             /\ answered' = [answered EXCEPT ![c] = @ + 1]
    <3> DEFINE a == [call |-> c, status |-> IF c \in failed THEN "failed" ELSE "ok"]
    <3>1. a \in Server!Answers /\ a.call = c /\ (a.status = "failed" <=> c \in failed)
      <4>1. CASE c \in failed
        <5>1. a = [call |-> c, status |-> "failed"]
          BY <4>1
        <5> QED BY <4>1, <5>1 DEF Server!Answers
      <4>2. CASE c \notin failed
        <5>1. a = [call |-> c, status |-> "ok"]
          BY <4>2
        <5> QED BY <4>2, <5>1 DEF Server!Answers
      <4> QED BY <4>1, <4>2
    <3>2. outQ' \in Seq(Server!Answers) /\ Server!Range(outQ') = Server!Range(outQ) \cup {a}
      BY <1>t, <2>2, <3>1, RangeAppend DEF Server!TypeOK
    <3> HIDE DEF a
    <3>3. started[c] = 1 /\ answered[c] = 0 /\ answered' = [answered EXCEPT ![c] = 1]
      <4>1. c \in serving
        BY <1>5 DEF Server!OnRpcDone
      <4>2. started[c] = 1 /\ answered[c] = 0
        BY <4>1 DEF Server!ServerInv
      <4> QED BY <2>2, <4>2
    <3>4. serving' = serving \ {c} /\ UNCHANGED <<phase, wireIn, inQ, failed, wireOut, sent, started>>
      BY <1>5 DEF Server!OnRpcDone
    <3> QED BY <1>t, <3>1, <3>2, <3>3, <3>4 DEF Server!ServerInv, Server!TypeOK,
                                                Server!StatusTold, Server!Incoming, Server!Outgoing
  <2> QED BY <1>5, <2>1, <2>2 DEF Server!OnRpcDone
<1>6. CASE Server!OnUpdate
  <2>1. Head(outQ) \in Server!Answers /\ outQ' \in Seq(Server!Answers) /\ Server!Range(outQ) = Server!Range(outQ') \cup {Head(outQ)}
    BY <1>t, <1>6, RangeTail DEF Server!OnUpdate, Server!TypeOK
  <2>2. Server!Outgoing' \subseteq Server!Outgoing /\ wireOut' \subseteq Server!Answers
    BY <1>t, <1>6, <2>1 DEF Server!OnUpdate, Server!TypeOK, Server!Outgoing
  <2> QED BY <1>t, <1>6, <2>1, <2>2 DEF Server!OnUpdate, Server!ServerInv, Server!TypeOK,
                                        Server!StatusTold, Server!Incoming
<1>7. CASE Server!Wire \/ Server!Destroy \/ UNCHANGED serverVars
  BY <1>7, QuietKeepsInv DEF Server!Wire, Server!LoseRequest, Server!Deliver, Server!Destroy,
                             serverVars,
                             Server!ServerInv, Server!TypeOK
<1> QED BY <1>1, <1>2, <1>3, <1>4, <1>5, <1>6, <1>7 DEF Server!Next, Server!Internal,
                                                        Server!Handler, Server!NetThread

\* In every reachable state each call is in one place at a time.
THEOREM ServerInvariant == Server!Spec => []Server!ServerInv
<1>1. [Server!Next]_(Server!vars) => [Server!Next]_serverVars
  BY DEF Server!vars, serverVars
<1> QED BY <1>1, InitServer, NextServer, PTL DEF Server!Spec

\* HandleRpcReq starts, and OnRpcDone answers, a call at most once.
THEOREM ServesAtMostOnce == Server!Spec => []Server!AtMostOnce
<1>1. Server!ServerInv => Server!AtMostOnce
  BY DEF Server!ServerInv, Server!TypeOK, Server!AtMostOnce
<1> QED BY <1>1, ServerInvariant, PTL

\* OnRpcDone tells the client of a failure exactly when there was one.
THEOREM TellsStatus == Server!Spec => []Server!StatusTold
  BY ServerInvariant, PTL DEF Server!ServerInv
-----------------------------------------------------------------------------
\* The server in the composition is the server of RpcServer.
LEMMA SystemInv == Spec => []Server!ServerInv
<1>1. Init => Server!ServerInv
  BY InitServer DEF Init
<1>2. Server!ServerInv /\ [Next]_vars => Server!ServerInv'
  <2>1. [Next]_vars => Server!Next \/ UNCHANGED serverVars
    <3>1. \A u \in Client!Uids : MyCall(u) \in Server!Calls
      BY SessionAssumption DEF Client!Uids, Server!Calls, MyCall
    <3>2. \A p \in Client!Rsp : MyAnswer(p) \in Server!Answers
      BY <3>1 DEF Client!Rsp, Server!Answers, MyAnswer
    <3>3. CASE ClientSend
      BY <3>1, <3>3 DEF ClientSend, Server!Next
    <3>4. ASSUME NEW p \in Client!Rsp, ClientRecv(p) PROVE Server!Next
      BY <3>2, <3>4 DEF ClientRecv, Server!Next, Server!Internal, Server!Wire
    <3> QED BY <3>3, <3>4 DEF Next, vars, ClientMain, ServerSide, Server!Next
  <2> QED BY <2>1, NextServer
<1> QED BY <1>1, <1>2, PTL DEF Spec

-----------------------------------------------------------------------------
\* What a step of the server's side may do to the client's view of it.
LEMMA ViewSteps ==
  ASSUME UNCHANGED clientVars,
         \/ UNCHANGED <<reqNet, rspNet, srvFailed>>
         \/ \E u \in Client!Uids : /\ u \in reqNet /\ reqNet' = reqNet \ {u}
                                  /\ UNCHANGED <<rspNet, srvFailed>>
         \/ \E p \in Client!Rsp : /\ p \in rspNet /\ rspNet' = rspNet \ {p}
                                 /\ UNCHANGED <<reqNet, srvFailed>>
         \/ \E u \in Client!Uids, s \in {"ok", "failed"} : Client!ServerReply(u, s)
  PROVE  [Client!Next]_(Client!vars)
<1>1. /\ UNCHANGED <<now, sendQ, recvQ>> /\ UNCHANGED Client!mainVars
  BY DEF clientVars, Client!mainVars, Client!ctxVars, Client!coroVars
<1>2. CASE UNCHANGED <<reqNet, rspNet, srvFailed>>
  BY <1>2 DEF clientVars, Client!vars, Client!ctxVars, Client!coroVars, Client!netVars
<1>3. ASSUME NEW u \in Client!Uids, u \in reqNet, reqNet' = reqNet \ {u}, UNCHANGED <<rspNet, srvFailed>>
      PROVE  Client!Next
  <2>1. Client!LoseRequest(u)
    BY <1>1, <1>3 DEF Client!LoseRequest
  <2> QED BY <2>1 DEF Client!Next, Client!Environment, Client!Loss
<1>4. ASSUME NEW p \in Client!Rsp, p \in rspNet, rspNet' = rspNet \ {p}, UNCHANGED <<reqNet, srvFailed>>
      PROVE  Client!Next
  <2>1. Client!LoseResponse(p)
    BY <1>1, <1>4 DEF Client!LoseResponse
  <2> QED BY <2>1 DEF Client!Next, Client!Environment, Client!Loss
<1>5. ASSUME NEW u \in Client!Uids, NEW s \in {"ok", "failed"}, Client!ServerReply(u, s)
      PROVE  Client!Next
  BY <1>5 DEF Client!Next, Client!Environment, Client!Server
<1> QED BY <1>2, <1>3, <1>4, <1>5

\* The calls and answers the views are made from, without the server's rings.
Pending == Server!Incoming \cup serving

\* A call of this client is known by its number.
LEMMA MineByUid == ASSUME NEW c \in Server!Calls, NEW d \in Server!Calls, Mine(c), Mine(d), c.uid = d.uid
                   PROVE  c = d
  BY DEF Server!Calls, Mine

\* One call leaves the set of pending calls.
LEMMA PendingLess ==
  ASSUME Pending \subseteq Server!Calls, NEW c \in Server!Calls, c \in Pending,
         Pending' = Pending \ {c}
  PROVE  /\ ~Mine(c) => reqNet' = reqNet
         /\ Mine(c) => c.uid \in Client!Uids /\ c.uid \in reqNet /\ reqNet' = reqNet \ {c.uid}
<1>1. ~Mine(c) => reqNet' = reqNet
  BY DEF reqNet, Pending
<1>2. Mine(c) => c.uid \in Client!Uids /\ c.uid \in reqNet
  BY DEF reqNet, Pending, Server!Calls, Client!Uids
<1>3. Mine(c) => reqNet' = reqNet \ {c.uid}
  BY MineByUid DEF reqNet, Pending
<1> QED BY <1>1, <1>2, <1>3

\* One answer may leave the set of answers on their way.
LEMMA OutgoingLess ==
  ASSUME Server!Outgoing \subseteq Server!Answers, NEW a \in Server!Answers, a \in Server!Outgoing,
         Server!Outgoing' = Server!Outgoing \ {a}
  PROVE  \/ rspNet' = rspNet
         \/ \E p \in Client!Rsp : p \in rspNet /\ rspNet' = rspNet \ {p}
<1> DEFINE p == [uid |-> a.call.uid, status |-> a.status]
<1>1. CASE ~Mine(a.call)
  BY <1>1 DEF rspNet
<1>2. CASE Mine(a.call)
  <2>1. p \in Client!Rsp /\ p \in rspNet
    BY <1>2 DEF rspNet, Client!Rsp, Client!Uids, Server!Answers, Server!Calls
  <2>2. ASSUME NEW b \in Server!Answers, Mine(b.call), [uid |-> b.call.uid, status |-> b.status] = p
        PROVE  a = b
    BY <1>2, <2>2 DEF Server!Answers, Server!Calls, Mine
  <2>3. rspNet' = rspNet \ {p}
    BY <1>2, <2>2 DEF rspNet
  <2> QED BY <2>1, <2>3
<1> QED BY <1>1, <1>2

\* Every step of the server's side is a step of the world as RpcClient sees it.
LEMMA ServerSideStep == ASSUME Server!ServerInv, ServerSide PROVE [Client!Next]_(Client!vars)
<1>t. Server!TypeOK
  BY DEF Server!ServerInv
<1>i. UNCHANGED clientVars
  BY DEF ServerSide
<1>p. /\ Pending \subseteq Server!Calls /\ Server!Outgoing \subseteq Server!Answers
      /\ \A c \in serving : c \notin Server!Incoming
  BY <1>t DEF Pending, Server!Incoming, Server!Outgoing, Server!TypeOK, Server!Range,
              Server!ServerInv
<1>a. ASSUME UNCHANGED <<failed, answered>> PROVE srvFailed' = srvFailed
  BY <1>a DEF srvFailed
<1>b. ASSUME Server!Outgoing' = Server!Outgoing PROVE rspNet' = rspNet
  BY <1>b DEF rspNet
<1>c. ASSUME Pending' = Pending PROVE reqNet' = reqNet
  BY <1>c DEF reqNet, Pending
<1>d. ASSUME NEW c \in Server!Calls, Pending' = Pending \ {c}, Server!Outgoing' = Server!Outgoing,
             UNCHANGED <<failed, answered>>
      PROVE  [Client!Next]_(Client!vars)
  <2>1. CASE c \in Pending
    BY <1>a, <1>b, <1>d, <1>i, <1>p, <2>1, PendingLess, ViewSteps
  <2>2. CASE c \notin Pending
    <3>1. Pending' = Pending
      BY <1>d, <2>2
    <3> QED BY <1>a, <1>b, <1>c, <1>d, <1>i, <3>1, ViewSteps
  <2> QED BY <2>1, <2>2
<1>e. ASSUME NEW a \in Server!Answers, Pending' = Pending, UNCHANGED <<failed, answered>>,
             Server!Outgoing' \in {Server!Outgoing, Server!Outgoing \ {a}}, a \in Server!Outgoing
      PROVE  [Client!Next]_(Client!vars)
  BY <1>a, <1>b, <1>c, <1>e, <1>i, <1>p, OutgoingLess, ViewSteps
<1>1. ASSUME NEW c \in Server!Calls, ~Mine(c), Server!Request(c) PROVE [Client!Next]_(Client!vars)
  <2>1. Pending' = Pending \cup {c} /\ Server!Outgoing' = Server!Outgoing /\ UNCHANGED <<failed, answered>>
    BY <1>1 DEF Server!Request, Pending, Server!Incoming, Server!Outgoing
  <2>2. reqNet' = reqNet
    BY <1>1, <2>1 DEF reqNet, Pending
  <2> QED BY <1>a, <1>b, <1>i, <2>1, <2>2, ViewSteps
<1>2. ASSUME NEW c \in Server!Calls, Server!OnRecvPacket(c) PROVE [Client!Next]_(Client!vars)
  <2>1. Server!Outgoing' = Server!Outgoing /\ UNCHANGED <<failed, answered>>
    BY <1>2 DEF Server!OnRecvPacket, Server!Outgoing
  <2>2. CASE inQ' = inQ
    <3>1. Pending' = Pending \ {c}
      BY <1>2, <2>2, <1>p DEF Server!OnRecvPacket, Pending, Server!Incoming, Server!ServerInv
    <3> QED BY <1>d, <2>1, <3>1
  <2>3. CASE inQ' = Append(inQ, c)
    <3>1. Server!Range(inQ') = Server!Range(inQ) \cup {c}
      BY <1>t, <2>3, RangeAppend DEF Server!TypeOK
    <3>2. Pending' = Pending
      BY <1>2, <3>1 DEF Server!OnRecvPacket, Pending, Server!Incoming, Server!Range
    <3> QED BY <1>a, <1>b, <1>c, <1>i, <2>1, <3>2, ViewSteps
  <2> QED BY <1>2, <2>2, <2>3 DEF Server!OnRecvPacket
<1>3. CASE Server!HandleRpcReq \/ Server!RejectRpcReq
  <2> DEFINE c == Head(inQ)
  <2>1. inQ # <<>> /\ inQ' = Tail(inQ) /\ UNCHANGED <<failed, answered, outQ, wireOut, wireIn>>
    BY <1>3 DEF Server!HandleRpcReq, Server!RejectRpcReq
  <2>2. c \in Server!Calls /\ Server!Range(inQ) = Server!Range(inQ') \cup {c}
    BY <1>t, <2>1, RangeTail DEF Server!TypeOK
  <2>3. Server!Outgoing' = Server!Outgoing
    BY <2>1 DEF Server!Outgoing
  <2>4. CASE Server!HandleRpcReq
    <3>1. Pending' = Pending
      BY <2>1, <2>2, <2>4, Zenon DEF Server!HandleRpcReq, Pending, Server!Incoming, Server!Range
    <3> QED BY <1>a, <1>b, <1>c, <1>i, <2>1, <2>3, <3>1, ViewSteps
  <2>5. CASE Server!RejectRpcReq
    <3>1. Pending' = Pending \/ Pending' = Pending \ {c}
      BY <2>1, <2>2, <2>5, Zenon DEF Server!RejectRpcReq, Pending, Server!Incoming, Server!Range
    <3>2. CASE Pending' = Pending
      BY <1>a, <1>b, <1>c, <1>i, <2>1, <2>3, <3>2, ViewSteps
    <3>3. CASE Pending' = Pending \ {c}
      BY <1>d, <2>1, <2>2, <2>3, <3>3
    <3> QED BY <3>1, <3>2, <3>3
  <2> QED BY <1>3, <2>4, <2>5
<1>4. ASSUME NEW c \in Server!Calls, Server!HandlerFails(c) PROVE [Client!Next]_(Client!vars)
  <2>1. /\ Pending' = Pending /\ Server!Outgoing' = Server!Outgoing
        /\ answered' = answered /\ answered[c] = 0 /\ failed' = failed \cup {c}
    BY <1>4 DEF Server!HandlerFails, Pending, Server!Incoming, Server!Outgoing, Server!ServerInv
  <2>2. srvFailed' = srvFailed
    BY <2>1 DEF srvFailed
  <2> QED BY <1>b, <1>c, <1>i, <2>1, <2>2, ViewSteps
<1>5. ASSUME NEW c \in Server!Calls, Server!OnRpcDone(c) PROVE [Client!Next]_(Client!vars)
  <2>1. /\ c \in serving /\ Pending' = Pending \ {c} /\ c \in Pending /\ failed' = failed
        /\ answered[c] = 0 /\ wireOut' = wireOut
    BY <1>5, <1>p DEF Server!OnRpcDone, Pending, Server!Incoming, Server!ServerInv
  <2>2. CASE UNCHANGED <<outQ, answered>>
    <3>1. Server!Outgoing' = Server!Outgoing
      BY <2>1, <2>2 DEF Server!Outgoing
    <3> QED BY <1>d, <2>1, <2>2, <3>1
  <2>3. CASE /\ outQ' = Append(outQ, [call |-> c, status |-> IF c \in failed THEN "failed" ELSE "ok"])
             /\ answered' = [answered EXCEPT ![c] = @ + 1]
    <3> DEFINE s == IF c \in failed THEN "failed" ELSE "ok"
               a == [call |-> c, status |-> s]
    <3>1. s \in {"ok", "failed"} /\ (s = "failed" <=> c \in failed)
      OBVIOUS
    <3>2. outQ' = Append(outQ, a)
      BY <2>3
    <3> HIDE DEF s
    <3>3. a \in Server!Answers /\ a.call = c /\ a.status = s
      BY <3>1 DEF Server!Answers
    <3>4. Server!Outgoing' = Server!Outgoing \cup {a}
      <4>1. Server!Range(outQ') = Server!Range(outQ) \cup {a}
        BY <1>t, <3>2, <3>3, RangeAppend DEF Server!TypeOK
      <4> QED BY <2>1, <4>1 DEF Server!Outgoing, Server!Range
    <3> HIDE DEF a
    <3>5. answered' = [answered EXCEPT ![c] = 1] /\ answered \in [Server!Calls -> 0 .. 1]
      BY <1>t, <2>1, <2>3 DEF Server!TypeOK
    <3>6. CASE ~Mine(c)
      <4>1. rspNet' = rspNet
        BY <3>3, <3>4, <3>6 DEF rspNet
      <4>2. srvFailed' = srvFailed
        BY <2>1, <3>5, <3>6 DEF srvFailed
      <4>3. reqNet' = reqNet
        BY <1>p, <2>1, <3>6, PendingLess
      <4> QED BY <1>i, <4>1, <4>2, <4>3, ViewSteps
    <3>7. CASE Mine(c)
      <4>1. rspNet' = rspNet \cup {[uid |-> c.uid, status |-> s]}
        BY <3>3, <3>4, <3>7 DEF rspNet
      <4>2. srvFailed' = IF s = "failed" THEN srvFailed \cup {c.uid} ELSE srvFailed
        BY <1>t, <2>1, <3>1, <3>5, <3>7 DEF srvFailed, Server!TypeOK
      <4>3. c.uid \in Client!Uids /\ c.uid \in reqNet /\ reqNet' = reqNet \ {c.uid}
        BY <1>p, <2>1, <3>7, PendingLess
      <4>4. Client!ServerReply(c.uid, s)
        BY <1>i, <4>1, <4>2, <4>3 DEF Client!ServerReply, clientVars, Client!mainVars,
                                      Client!ctxVars,
                                      Client!coroVars
      <4> QED BY <1>i, <3>1, <4>3, <4>4, ViewSteps
    <3> QED BY <3>6, <3>7
  <2> QED BY <1>5, <2>2, <2>3 DEF Server!OnRpcDone
<1>6. CASE Server!OnUpdate
  <2> DEFINE a == Head(outQ)
  <2>1. /\ outQ # <<>> /\ outQ' = Tail(outQ) /\ UNCHANGED <<failed, answered, inQ, wireIn, serving>>
        /\ wireOut' = wireOut \cup {a} \/ wireOut' = wireOut
    BY <1>6 DEF Server!OnUpdate
  <2>2. a \in Server!Answers /\ Server!Range(outQ) = Server!Range(outQ') \cup {a}
    BY <1>t, <2>1, RangeTail DEF Server!TypeOK
  <2>3. Pending' = Pending
    BY <2>1 DEF Pending, Server!Incoming
  <2> HIDE DEF a
  <2>4. Server!Outgoing' \in {Server!Outgoing, Server!Outgoing \ {a}} /\ a \in Server!Outgoing
    BY <2>1, <2>2, ZenonT(40) DEF Server!Outgoing, Server!Range
  <2> QED BY <1>e, <2>1, <2>2, <2>3, <2>4
<1>7. ASSUME NEW a \in Server!Answers, Server!Deliver(a) PROVE [Client!Next]_(Client!vars)
  <2>1. /\ Pending' = Pending /\ UNCHANGED <<failed, answered>> /\ a \in Server!Outgoing
        /\ Server!Outgoing' \in {Server!Outgoing, Server!Outgoing \ {a}}
    BY <1>7 DEF Server!Deliver, Pending, Server!Incoming, Server!Outgoing
  <2> QED BY <1>e, <2>1
<1>8. ASSUME NEW c \in Server!Calls, Server!LoseRequest(c) PROVE [Client!Next]_(Client!vars)
  <2>1. /\ Pending' = Pending \ {c} /\ UNCHANGED <<failed, answered>> /\ Server!Outgoing' = Server!Outgoing
    BY <1>8, <1>p DEF Server!LoseRequest, Pending, Server!Incoming, Server!Outgoing,
                      Server!ServerInv
  <2> QED BY <1>d, <2>1
<1>9. CASE Server!Destroy
  <2>1. Pending' = Pending /\ Server!Outgoing' = Server!Outgoing /\ UNCHANGED <<failed, answered>>
    BY <1>9 DEF Server!Destroy, Pending, Server!Incoming, Server!Outgoing
  <2> QED BY <1>a, <1>b, <1>c, <1>i, <2>1, ViewSteps
<1> QED BY <1>1, <1>2, <1>3, <1>4, <1>5, <1>6, <1>7, <1>8, <1>9
        DEF ServerSide, Server!Internal, Server!Handler, Server!NetThread, Server!Wire

\* A client and a server with a wire between them implement the client as RpcClient
\* specifies it, for any coroutines, sessions and bounds: ServerReply, LoseRequest and
\* LoseResponse are all that HandleRpcReq, OnRpcDone and RpcConnComp do to a client.
THEOREM SystemImplementsClient == Spec => ImplementsClient
<1>1. Init => Client!Init
  BY DEF Init
<1>2. Server!ServerInv /\ [Next]_vars => [Client!Next]_(Client!vars)
  <2>1. ASSUME ClientMain \/ ClientSend \/ (\E p \in Client!Rsp : ClientRecv(p)) PROVE Client!Next
    BY <2>1 DEF ClientMain, ClientSend, ClientRecv, Client!Next, Client!NetThread,
                Client!Environment
  <2>2. ASSUME UNCHANGED vars PROVE UNCHANGED Client!vars
    <3>1. UNCHANGED <<reqNet, rspNet, srvFailed>>
      BY <2>2 DEF vars, serverVars, reqNet, rspNet, srvFailed, Server!Incoming, Server!Outgoing
    <3> QED BY <2>2, <3>1 DEF vars, clientVars, Client!vars, Client!ctxVars, Client!coroVars,
                              Client!netVars
  <2> QED BY <2>1, <2>2, ServerSideStep DEF Next
<1> QED BY <1>1, <1>2, SystemInv, PTL DEF Spec, ImplementsClient, Client!Spec

\* HandleRpcReq starts, and OnRpcDone answers, a call at most once, also one whose caller
\* has given up on it and made the next.
THEOREM SystemServesAtMostOnce == Spec => []AtMostOnce
<1>1. Server!ServerInv => AtMostOnce
  BY DEF Server!ServerInv, Server!TypeOK, Server!AtMostOnce, AtMostOnce
<1> QED BY <1>1, SystemInv, PTL

\* The status that OnRpcDone sends to the client is that of the call's own controller.
THEOREM SystemTellsStatus == Spec => []StatusTold
<1>1. Server!ServerInv => StatusTold
  BY DEF Server!ServerInv, StatusTold
<1> QED BY <1>1, SystemInv, PTL
-----------------------------------------------------------------------------
CP == INSTANCE RpcClientProofs

\* The lemmas of RpcClientProofs speak of the client of this system.
LEMMA SameClientInv == CP!ClientInv <=> Client!ClientInv
  BY Zenon DEF CP!ClientInv, CP!TypeOK, CP!ControlInv, CP!ContextsAreWaiting, CP!NoneForgotten,
         CP!SuccessMeansOwnReply, CP!NoExpiredLeft, CP!Uids, CP!Rsp, CP!Errors,
         Client!ClientInv, Client!TypeOK, Client!ControlInv, Client!ContextsAreWaiting, Client!NoneForgotten,
         Client!SuccessMeansOwnReply, Client!NoExpiredLeft, Client!Uids, Client!Rsp, Client!Errors

LEMMA SameClientInit == Client!Init => CP!Init
  BY Zenon DEF CP!Init, CP!Uids, Client!Init, Client!Uids

LEMMA SameClientNext == [Client!Next]_(Client!vars) => [CP!Next]_(CP!vars)
<1>1. Client!vars = CP!vars /\ Client!vars' = CP!vars'
  BY Zenon DEF Client!vars, Client!ctxVars, Client!coroVars, Client!netVars,
         CP!vars, CP!ctxVars, CP!coroVars, CP!netVars
<1>2. Client!CoroStep => CP!CoroStep
  BY Zenon DEF Client!CoroStep, Client!Start, Client!Call, Client!Finish, Client!Idle, Client!Push,
         Client!ctxVars, Client!coroVars, Client!netVars,
         CP!CoroStep, CP!Start, CP!Call, CP!Finish, CP!Idle, CP!Push, CP!ctxVars, CP!coroVars, CP!netVars
<1>3. Client!KillStep => CP!KillStep
  BY Zenon DEF Client!KillStep, Client!KillReturn, Client!KillByUid, Client!Kill, Client!Resume,
               Client!Idle,
         Client!Uids, Client!ctxVars, Client!coroVars, Client!netVars,
         CP!KillStep, CP!KillReturn, CP!KillByUid, CP!Kill, CP!Resume, CP!Idle,
         CP!Uids, CP!ctxVars, CP!coroVars, CP!netVars
<1>4. Client!Update => CP!Update
  BY Zenon DEF Client!Update, Client!Idle, Client!ctxVars, Client!coroVars, Client!netVars,
         CP!Update, CP!Idle, CP!ctxVars, CP!coroVars, CP!netVars
<1>5. Client!TimeoutStep => CP!TimeoutStep
  BY Zenon DEF Client!TimeoutStep, Client!TimeoutBreak, Client!TimeoutSkip, Client!TimeoutKill,
               Client!InTimeout,
         Client!IsTop, Client!Kill, Client!Resume, Client!Idle, Client!Uids,
         Client!ctxVars, Client!coroVars, Client!netVars,
         CP!TimeoutStep, CP!TimeoutBreak, CP!TimeoutSkip, CP!TimeoutKill, CP!InTimeout,
         CP!IsTop, CP!Kill, CP!Resume, CP!Idle, CP!Uids, CP!ctxVars, CP!coroVars, CP!netVars
<1>6. Client!TickStep => CP!TickStep
  BY Zenon DEF Client!TickStep, Client!TickResume, Client!TickDrop, Client!TickDone, Client!InTick,
         Client!ErrorAfter, Client!ReadsReply, Client!Resume, Client!Idle,
         Client!ctxVars, Client!coroVars, Client!netVars,
         CP!TickStep, CP!TickResume, CP!TickDrop, CP!TickDone, CP!InTick,
         CP!ErrorAfter, CP!ReadsReply, CP!Resume, CP!Idle, CP!ctxVars, CP!coroVars, CP!netVars
<1>7. Client!NetThread => CP!NetThread
  BY Zenon DEF Client!NetThread, Client!OnUpdate, Client!OnRecvPacket, Client!Push, Client!Rsp,
               Client!Uids,
         Client!mainVars, Client!ctxVars, Client!coroVars,
         CP!NetThread, CP!OnUpdate, CP!OnRecvPacket, CP!Push, CP!Rsp, CP!Uids,
         CP!mainVars, CP!ctxVars, CP!coroVars
<1>8. Client!Environment => CP!Environment
  BY Zenon DEF Client!Environment, Client!Server, Client!Loss, Client!ServerReply,
               Client!LoseRequest,
         Client!LoseResponse, Client!ClockTick, Client!Rsp, Client!Uids,
         Client!mainVars, Client!ctxVars, Client!coroVars, Client!netVars,
         CP!Environment, CP!Server, CP!Loss, CP!ServerReply, CP!LoseRequest,
         CP!LoseResponse, CP!ClockTick, CP!Rsp, CP!Uids,
         CP!mainVars, CP!ctxVars, CP!coroVars, CP!netVars
<1> QED BY <1>1, <1>2, <1>3, <1>4, <1>5, <1>6, <1>7, <1>8 DEF Client!Next, Client!Main,
    CP!Next, CP!Main

\* What is proved of the client holds of the client in this system.
LEMMA SystemClientInv == Spec => []Client!ClientInv
<1>1. Client!Init => Client!ClientInv
  BY SameClientInit, SameClientInv, CP!InitClient, CorosAssumption, BoundsAssumption
<1>2. Client!ClientInv /\ [Client!Next]_(Client!vars) => Client!ClientInv'
  <2>1. CP!ClientInv' <=> Client!ClientInv'
    BY SameClientInv, PTL
  <2> QED BY <2>1, SameClientNext, SameClientInv, CP!NextClient, CorosAssumption, BoundsAssumption
<1> QED BY <1>1, <1>2, SystemImplementsClient, PTL DEF ImplementsClient, Client!Spec
-----------------------------------------------------------------------------
\* A handler that was started stays started.
LEMMA StartedStays ==
  ASSUME Server!ServerInv, Server!ServerInv', Server!Next \/ UNCHANGED serverVars,
         NEW c \in Server!Calls, started[c] = 1
  PROVE  started'[c] = 1
<1>1. started \in [Server!Calls -> 0 .. 1] /\ started' \in [Server!Calls -> 0 .. 1]
  BY DEF Server!ServerInv, Server!TypeOK
<1>2. CASE Server!HandleRpcReq
  BY <1>1, <1>2 DEF Server!HandleRpcReq
<1>3. CASE started' = started
  BY <1>3
<1>4. Server!HandleRpcReq \/ started' = started
  BY Zenon DEF serverVars, Server!Next, Server!Internal, Server!Handler, Server!NetThread,
               Server!Wire, Server!Request,
    Server!OnRecvPacket, Server!RejectRpcReq, Server!HandlerFails, Server!OnRpcDone,
    Server!OnUpdate, Server!Deliver, Server!LoseRequest, Server!Destroy
<1> QED BY <1>2, <1>3, <1>4

\* What the client's main thread does to its ring and to the response objects.
LEMMA MainReads ==
  ASSUME Client!TypeOK, Client!Main \/ Client!ClockTick
  PROVE  /\ recvQ' = recvQ \/ (recvQ # <<>> /\ recvQ' = Tail(recvQ))
         /\ \A d \in Coros : reply'[d] \in {reply[d], 0}
                             \/ (recvQ # <<>> /\ reply'[d] = Head(recvQ).uid)
<1>t. reply \in [Coros -> 0 .. MaxUid]
  BY DEF Client!TypeOK
<1>1. ASSUME NEW c \in Coros, Client!Call(c)
      PROVE  recvQ' = recvQ /\ \A d \in Coros : reply'[d] \in {reply[d], 0}
  BY <1>t, <1>1 DEF Client!Call
<1>2. CASE Client!TickResume
  <2>1. recvQ # <<>> /\ recvQ' = Tail(recvQ)
    BY <1>2, ZenonT(40) DEF Client!TickResume
  <2>2. PICK c : reply' = reply \/ reply' = [reply EXCEPT ![c] = Head(recvQ).uid]
    BY <1>2, Zenon DEF Client!TickResume
  <2> QED BY <1>t, <2>1, <2>2
<1>3. CASE Client!TickDrop
  BY <1>3 DEF Client!TickDrop, Client!coroVars
<1>4. CASE UNCHANGED <<recvQ, reply>>
  BY <1>4
<1>5. \/ \E c \in Coros : Client!Call(c)
      \/ Client!TickResume \/ Client!TickDrop
      \/ UNCHANGED <<recvQ, reply>>
  BY Zenon DEF Client!Main, Client!ClockTick, Client!mainVars, Client!CoroStep, Client!Start,
               Client!Finish,
         Client!KillStep, Client!KillReturn, Client!KillByUid, Client!Update, Client!TimeoutStep,
         Client!TimeoutBreak, Client!TimeoutSkip, Client!TimeoutKill, Client!TickStep, Client!TickDone,
         Client!coroVars
<1> QED BY <1>1, <1>2, <1>3, <1>4, <1>5

\* What makes SuccessMeansExecuted inductive: the server has started the handler of every
\* call whose response is in the client's ring or was read into a response object.
RepliesExecuted == /\ \A i \in 1 .. Len(recvQ) : started[MyCall(recvQ[i].uid)] = 1
                   /\ \A c \in Coros : reply[c] # 0 => started[MyCall(reply[c])] = 1

LEMMA NextReplies ==
  ASSUME Server!ServerInv, Server!ServerInv', Client!TypeOK, RepliesExecuted, [Next]_vars
  PROVE  RepliesExecuted'
<1>t. /\ recvQ \in Seq(Client!Rsp) /\ reply \in [Coros -> 0 .. MaxUid]
      /\ started \in [Server!Calls -> 0 .. 1]
  BY DEF Client!TypeOK, Server!ServerInv, Server!TypeOK
<1>c. \A u \in 1 .. MaxUid : MyCall(u) \in Server!Calls
  BY SessionAssumption DEF Server!Calls, MyCall
<1>n. \A i \in 1 .. Len(recvQ) : recvQ[i].uid \in 1 .. MaxUid
  <2>1. \A i \in 1 .. Len(recvQ) : recvQ[i] \in Client!Rsp
    BY <1>t
  <2>2. \A p \in Client!Rsp : p.uid \in 1 .. MaxUid
    BY DEF Client!Rsp, Client!Uids
  <2> QED BY <2>1, <2>2
<1>1. CASE ClientMain
  <2>1. started' = started
    BY <1>1 DEF ClientMain, serverVars
  <2>2. /\ recvQ' = recvQ \/ (recvQ # <<>> /\ recvQ' = Tail(recvQ))
        /\ \A d \in Coros : reply'[d] \in {reply[d], 0}
                            \/ (recvQ # <<>> /\ reply'[d] = Head(recvQ).uid)
    BY <1>1, MainReads DEF ClientMain
  <2>3. recvQ # <<>> => started[MyCall(Head(recvQ).uid)] = 1
    BY <1>t DEF RepliesExecuted
  <2>4. \A i \in 1 .. Len(recvQ') : started'[MyCall(recvQ'[i].uid)] = 1
    BY <1>t, <2>1, <2>2 DEF RepliesExecuted, MyCall
  <2>5. \A d \in Coros : reply'[d] # 0 => started'[MyCall(reply'[d])] = 1
    BY <2>1, <2>2, <2>3, ZenonT(40) DEF RepliesExecuted, MyCall
  <2> QED BY <2>4, <2>5 DEF RepliesExecuted, MyCall
<1>s. ASSUME Server!Next \/ UNCHANGED serverVars PROVE
          \A u \in 1 .. MaxUid : started[MyCall(u)] = 1 => started'[MyCall(u)] = 1
  BY <1>c, <1>s, StartedStays
<1>2. ASSUME Server!Next \/ UNCHANGED serverVars, UNCHANGED <<recvQ, reply>> PROVE RepliesExecuted'
  <2>1. \A u \in 1 .. MaxUid : started[MyCall(u)] = 1 => started'[MyCall(u)] = 1
    BY <1>2, <1>s
  <2>2. \A i \in 1 .. Len(recvQ) : started'[MyCall(recvQ[i].uid)] = 1
    BY <1>n, <2>1 DEF RepliesExecuted
  <2>3. \A d \in Coros : reply[d] # 0 => started'[MyCall(reply[d])] = 1
    BY <1>t, <2>1, BoundsAssumption DEF RepliesExecuted
  <2> QED BY <1>2, <2>2, <2>3 DEF RepliesExecuted, MyCall
<1>3. CASE ClientSend
  <2>1. UNCHANGED <<recvQ, reply>>
    BY <1>3 DEF ClientSend, Client!OnUpdate, Client!mainVars, Client!coroVars
  <2>2. Server!Next \/ UNCHANGED serverVars
    BY <1>3, <1>c DEF ClientSend, Server!Next, Client!Uids
  <2> QED BY <1>2, <2>1, <2>2
<1>4. ASSUME NEW p \in Client!Rsp, ClientRecv(p) PROVE RepliesExecuted'
  <2>1. p.uid \in 1 .. MaxUid /\ started' = started /\ reply' = reply
    BY <1>4 DEF ClientRecv, Server!Deliver, Client!OnRecvPacket, Client!mainVars,
       Client!coroVars,
                Client!Rsp, Client!Uids
  <2>2. started[MyCall(p.uid)] = 1
    <3>1. MyAnswer(p) \in Server!Outgoing /\ MyAnswer(p).call = MyCall(p.uid)
      BY <1>4 DEF ClientRecv, Server!Deliver, Server!Outgoing, MyAnswer
    <3>2. answered[MyCall(p.uid)] = 1
      BY <3>1, ZenonT(40) DEF Server!ServerInv
    <3> QED BY <1>t, <1>c, <2>1, <3>2 DEF Server!ServerInv
  <2>3. recvQ' = recvQ \/ recvQ' = Append(recvQ, [p EXCEPT !.status = "ok"])
    BY <1>4 DEF ClientRecv, Client!OnRecvPacket, Client!Push
  <2>4. [p EXCEPT !.status = "ok"].uid = p.uid /\ [p EXCEPT !.status = "ok"] \in Client!Rsp
    BY DEF Client!Rsp
  <2> DEFINE q == [p EXCEPT !.status = "ok"]
  <2>5. \A i \in 1 .. Len(recvQ') : started[MyCall(recvQ'[i].uid)] = 1
    <3> HIDE DEF q
    <3>1. \A i \in 1 .. Len(recvQ') : (i \in 1 .. Len(recvQ) /\ recvQ'[i] = recvQ[i]) \/ recvQ'[i] = q
      BY <1>t, <2>3, <2>4 DEF q
    <3>2. started[MyCall(q.uid)] = 1
      BY <2>2, <2>4 DEF q
    <3> QED BY <3>1, <3>2 DEF RepliesExecuted
  <2> QED BY <2>1, <2>5 DEF RepliesExecuted, MyCall
<1>5. CASE ServerSide
  BY <1>2, <1>5 DEF ServerSide, Server!Next, clientVars
<1>6. CASE UNCHANGED vars
  BY <1>2, <1>6 DEF vars, clientVars
<1> QED BY <1>1, <1>3, <1>4, <1>5, <1>6 DEF Next

\* A coroutine that CallMethod suspended and HandleRpcRsp resumed without an error goes on
\* after the server has run the handler of that very call, once, whatever was lost, timed
\* out or answered late in between.
THEOREM SuccessIsExecuted == Spec => []SuccessMeansExecuted
<1>1. Init => RepliesExecuted
  BY DEF Init, Client!Init, RepliesExecuted
<1>2. Server!ServerInv /\ Server!ServerInv' /\ Client!ClientInv /\ RepliesExecuted /\ [Next]_vars
      => RepliesExecuted'
  BY NextReplies DEF Client!ClientInv
<1>3. Server!ServerInv /\ Client!ClientInv /\ RepliesExecuted => SuccessMeansExecuted
  <2> SUFFICES ASSUME Server!ServerInv, Client!ClientInv, RepliesExecuted, NEW c \in Coros, wait[c] # 0
               PROVE  /\ started[MyCall(wait[c])] <= 1
                      /\ c \notin VoidCoros /\ cstate[c] \in {"running", "done"} /\ error[c] = "none"
                           => started[MyCall(wait[c])] = 1
    BY DEF SuccessMeansExecuted
  <2>1. wait[c] \in 1 .. MaxUid
    BY BoundsAssumption DEF Client!ClientInv, Client!TypeOK
  <2>2. MyCall(wait[c]) \in Server!Calls
    BY <2>1, SessionAssumption DEF Server!Calls, MyCall
  <2>3. started[MyCall(wait[c])] <= 1
    BY <2>2 DEF Server!ServerInv, Server!TypeOK
  <2>4. ASSUME c \notin VoidCoros, cstate[c] \in {"running", "done"}, error[c] = "none"
        PROVE  reply[c] = wait[c]
    BY <2>4 DEF Client!ClientInv, Client!SuccessMeansOwnReply
  <2> QED BY <2>3, <2>4 DEF RepliesExecuted
<1> QED BY <1>1, <1>2, <1>3, SystemInv, SystemClientInv, PTL DEF Spec
=============================================================================
