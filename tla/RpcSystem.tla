----------------------------- MODULE RpcSystem -----------------------------
(***************************************************************************)
(* One client process (RpcClient) and one server process (RpcServer) with  *)
(* a session between them, while the server's other sessions carry calls   *)
(* with the same sequence numbers.  RpcClient assumes of the world that a  *)
(* request is answered at most once; here the server and the wire take the *)
(* place of that assumption, and the composition is shown to implement     *)
(* RpcClient.                                                              *)
(***************************************************************************)
EXTENDS Integers, Sequences, FiniteSets, Functions

CONSTANTS Coros, VoidCoros, NoCoro, TimeOut, QueueCap, MaxUid, MaxTime,
          Sessions,  \* sessions of the server
          Me,        \* the one to the client
          PeerUids   \* bound: sequence numbers used by the other clients

ASSUME CorosAssumption == VoidCoros \subseteq Coros /\ NoCoro \notin Coros
ASSUME SessionAssumption == Me \in Sessions
ASSUME BoundsAssumption == /\ TimeOut \in Nat \ {0} /\ QueueCap \in Nat
                           /\ MaxUid \in Nat /\ MaxTime \in Nat

VARIABLES now, pc, tnow, run, killing, uidGen, susp, heap, owner, deadline,
          cstate, wait, error, reply, sendQ, recvQ,
          phase, wireIn, inQ, serving, failed, outQ, wireOut, sent, started, answered

clientVars == <<now, pc, tnow, run, killing, uidGen, susp, heap, owner, deadline,
                cstate, wait, error, reply, sendQ, recvQ>>
serverVars == <<phase, wireIn, inQ, serving, failed, outQ, wireOut, sent, started, answered>>
vars == <<clientVars, serverVars>>

Server == INSTANCE RpcServer WITH Uids <- 1 .. MaxUid

\* What the client sees of the server and the wire.
Mine(c) == c.sess = Me
reqNet == {c.uid : c \in {d \in Server!Incoming \cup serving : Mine(d)}}
rspNet == {[uid |-> a.call.uid, status |-> a.status] : a \in {b \in Server!Outgoing : Mine(b.call)}}
srvFailed == {c.uid : c \in {d \in failed : Mine(d) /\ answered[d] = 1}}

Client == INSTANCE RpcClient

Init == Server!Init /\ Client!Init
-----------------------------------------------------------------------------
MyCall(u) == [sess |-> Me, uid |-> u]
MyAnswer(p) == [call |-> MyCall(p.uid), status |-> p.status]

\* The client's main thread, and its clock.
ClientMain == UNCHANGED serverVars /\ (Client!Main \/ Client!ClockTick)

\* RpcConnComp::OnUpdate of the client: Send fails when the session is gone.
ClientSend == /\ sendQ # <<>>
              /\ \/ \E u \in Client!Uids : u = Head(sendQ) /\ Server!Request(MyCall(u))
                 \/ UNCHANGED serverVars
              /\ Client!OnUpdate

\* RpcConnComp::OnRecvPacket of the client.
ClientRecv(p) == Server!Deliver(MyAnswer(p)) /\ Client!OnRecvPacket(p)

\* Everything the server, the wire and the other clients do.
ServerSide == /\ \/ Server!Internal
                 \/ \E c \in Server!Calls : ~Mine(c) /\ c.uid \in PeerUids /\ Server!Request(c)
              /\ UNCHANGED clientVars

Next == ClientMain \/ ClientSend \/ (\E p \in Client!Rsp : ClientRecv(p)) \/ ServerSide

Spec == Init /\ [][Next]_vars
-----------------------------------------------------------------------------
\* The server and the wire do no more to the client than RpcClient allows: no call is
\* answered twice, with the answer to another, or to a call of another session, so all
\* that is shown of the client holds in this system.
ImplementsClient == Client!Spec

\* The handler of a call runs at most once and the call is answered at most once, for the
\* client's calls and for those of its peers with the same numbers.
AtMostOnce == Server!AtMostOnce

\* A response says "failed" exactly when the controller of its own call has failed.
StatusTold == Server!StatusTold

\* A call that went on without an error was executed by the server, once; one that
\* ended with an error was executed at most once.
SuccessMeansExecuted ==
  \A c \in Coros : wait[c] # 0 =>
     /\ started[MyCall(wait[c])] <= 1
     /\ c \notin VoidCoros /\ cstate[c] \in {"running", "done"} /\ error[c] = "none"
          => started[MyCall(wait[c])] = 1
=============================================================================
