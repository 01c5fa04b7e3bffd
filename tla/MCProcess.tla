----------------------------- MODULE MCProcess -----------------------------
(***************************************************************************)
(* The main thread of a process for TLC, in one of two roles: a client     *)
(* that makes blocking calls (BlockingCall), or a server that is started   *)
(* and stopped (Lifecycle).                                                *)
(***************************************************************************)
EXTENDS BlockingCall

CONSTANT MaxInit

ASSUME InitAssumption == MaxInit \in Nat

VARIABLES role, llbc, initialized, stop, signalHandler, isServer, svc, made, listening, serverPc

callVars == <<pc, call, count, packet, failed, got, sendQ, recvQ, reqNet, rspNet, timedOut>>
serverVars == <<llbc, initialized, stop, signalHandler, isServer, svc, made, listening, serverPc>>

Server == INSTANCE Lifecycle WITH pc <- serverPc, handler <- signalHandler

ProcessInit == role \in {"client", "server"} /\ Init /\ Server!Init

ProcessNext == /\ \/ role = "client" /\ Next /\ UNCHANGED serverVars
                  \/ role = "server" /\ Server!Next /\ UNCHANGED callVars
               /\ UNCHANGED role

\* The fairness of BlockingCall, in its role.
ProcessSpec == /\ ProcessInit /\ [][ProcessNext]_<<role, callVars, serverVars>>
               /\ WF_callVars(role = "client" /\ Main)
-----------------------------------------------------------------------------
\* The loop of Serve() (rpc_server.cpp:81) runs on a service that is up and listens.
ServesWhileUp == Server!ServesWhileUp
=============================================================================
