----------------------------- MODULE RpcServer -----------------------------
(***************************************************************************)
(* A server process: RpcConnComp on the network thread, and on the main    *)
(* thread Serve()'s loop with RpcConnMgr::Tick, RpcServiceMgr::HandleRpcReq*)
(* and RpcServiceMgr::OnRpcDone.  A handler, which is user code, calls     *)
(* done->Run() at once or when a coroutine of its own has gone on, with    *)
(* other requests handled in between.                                      *)
(*                                                                         *)
(* A call is a session and a sequence number chosen by the client at the   *)
(* other end, so calls of different sessions share their numbers.  The     *)
(* wire may lose, delay and reorder packets, and duplicates none; a        *)
(* session that closes loses all that comes after (OnSessionDestroy and    *)
(* the other callbacks of RpcConnComp only log).                           *)
(***************************************************************************)
EXTENDS Integers, Sequences, FiniteSets, Functions

CONSTANTS Sessions,  \* sessions of the service
          Uids,      \* sequence numbers of requests
          QueueCap   \* MAX_QUEUE_SIZE - 1

VARIABLES phase,     \* Serve(): in its loop or returned
          wireIn,    \* requests on the way here
          inQ,       \* recvQueue_
          serving,   \* calls whose controller, request and response objects are alive
          failed,    \* those whose handler has called SetFailed()
          outQ,      \* sendQueue_
          wireOut,   \* responses on the way to the clients
          sent,      \* history: requests the clients have sent
          started,   \* history: how often the handler of a call was started
          answered   \* history: how often a response to a call was handed to sendQueue_

vars == <<phase, wireIn, inQ, serving, failed, outQ, wireOut, sent, started, answered>>

Calls == [sess : Sessions, uid : Uids]
Answers == [call : Calls, status : {"ok", "failed"}]

Init == /\ phase = "loop"
        /\ wireIn = {} /\ inQ = <<>> /\ serving = {} /\ failed = {}
        /\ outQ = <<>> /\ wireOut = {} /\ sent = {}
        /\ started = [c \in Calls |-> 0]
        /\ answered = [c \in Calls |-> 0]
-----------------------------------------------------------------------------
\* A client sends a request it has not sent before.
Request(c) == /\ phase = "loop" /\ c \notin sent
              /\ sent' = sent \cup {c}
              /\ wireIn' = wireIn \cup {c}
              /\ UNCHANGED <<phase, inQ, serving, failed, outQ, wireOut, started, answered>>

\* OnRecvPacket: the packet goes to the ring with its session id, or is dropped if
\* the ring is full.
OnRecvPacket(c) == /\ phase = "loop" /\ c \in wireIn
                   /\ wireIn' = wireIn \ {c}
                   /\ inQ' = IF Len(inQ) < QueueCap THEN Append(inQ, c) ELSE inQ
                   /\ UNCHANGED <<phase, serving, failed, outQ, wireOut, sent, started, answered>>

\* Tick and HandleRpcReq: the handler of the call is started.
HandleRpcReq == /\ phase = "loop" /\ inQ # <<>>
                /\ serving' = serving \cup {Head(inQ)}
                /\ started' = [started EXCEPT ![Head(inQ)] = @ + 1]
                /\ inQ' = Tail(inQ)
                /\ UNCHANGED <<phase, wireIn, failed, outQ, wireOut, sent, answered>>

\* Mutant of RejectRpcReq: a request that is not handled is answered.
RejectRpcReqAnswers == /\ phase = "loop" /\ inQ # <<>>
                       /\ inQ' = Tail(inQ)
                       /\ outQ' = Append(outQ, [call |-> Head(inQ), status |-> "ok"])
                       /\ UNCHANGED <<phase, wireIn, serving, failed, wireOut, sent, started, answered>>

\* HandleRpcReq returns early: its head or its body cannot be read, or the service or
\* the method is unknown.  Nothing is sent back.
RejectRpcReq == /\ phase = "loop" /\ inQ # <<>>
                /\ inQ' = Tail(inQ)
                /\ UNCHANGED <<phase, wireIn, serving, failed, outQ, wireOut, sent, started, answered>>

\* The handler fails its controller.
HandlerFails(c) == /\ phase = "loop" /\ c \in serving
                   /\ failed' = failed \cup {c}
                   /\ UNCHANGED <<phase, wireIn, inQ, serving, outQ, wireOut, sent, started, answered>>

\* Mutants of OnRpcDone: the controller survives its answer, the failure of the
\* controller is not looked at, or the answer goes to any session.
OnRpcDoneNoCleanUp(c) == /\ phase = "loop" /\ c \in serving
                         /\ Len(outQ) < QueueCap
                         /\ outQ' = Append(outQ, [call |-> c, status |-> "ok"])
                         /\ answered' = [answered EXCEPT ![c] = @ + 1]
                         /\ UNCHANGED <<phase, wireIn, inQ, serving, failed, wireOut, sent, started>>
OnRpcDoneNoStatus(c) == /\ phase = "loop" /\ c \in serving
                        /\ Len(outQ) < QueueCap
                        /\ outQ' = Append(outQ, [call |-> c, status |-> "ok"])
                        /\ answered' = [answered EXCEPT ![c] = @ + 1]
                        /\ serving' = serving \ {c}
                        /\ UNCHANGED <<phase, wireIn, inQ, failed, wireOut, sent, started>>

OnRpcDoneAnySession(c) == /\ phase = "loop" /\ c \in serving
                          /\ Len(outQ) < QueueCap
                          /\ \E s \in Sessions : outQ' = Append(outQ, [call |-> [c EXCEPT !.sess = s],
                                                                  status |-> "ok"])
                          /\ answered' = [answered EXCEPT ![c] = @ + 1]
                          /\ serving' = serving \ {c}
                          /\ UNCHANGED <<phase, wireIn, inQ, failed, wireOut, sent, started>>

\* OnRpcDone, run by the handler through done: the response is sent with the status
\* of the controller, unless it cannot be encoded or the ring is full, and in every
\* case the controller and the messages are deleted.
OnRpcDone(c) == /\ phase = "loop" /\ c \in serving
                /\ \/ /\ Len(outQ) < QueueCap
                      /\ outQ' = Append(outQ, [call |-> c,
                                               status |-> IF c \in failed THEN "failed" ELSE "ok"])
                      /\ answered' = [answered EXCEPT ![c] = @ + 1]
                   \/ UNCHANGED <<outQ, answered>>
                /\ serving' = serving \ {c}
                /\ UNCHANGED <<phase, wireIn, inQ, failed, wireOut, sent, started>>

\* OnUpdate: one packet of its loop; Send fails if the session is gone, which it may be
\* at any time.
OnUpdate == /\ phase = "loop" /\ outQ # <<>>
            /\ wireOut' \in {wireOut, wireOut \cup {Head(outQ)}}
            /\ outQ' = Tail(outQ)
            /\ UNCHANGED <<phase, wireIn, inQ, serving, failed, sent, started, answered>>

\* A response arrives at, or is lost on the way to, its client.
Deliver(a) == /\ a \in wireOut
              /\ wireOut' = wireOut \ {a}
              /\ UNCHANGED <<phase, wireIn, inQ, serving, failed, outQ, sent, started, answered>>

LoseRequest(c) == /\ c \in wireIn
                  /\ wireIn' = wireIn \ {c}
                  /\ UNCHANGED <<phase, inQ, serving, failed, outQ, wireOut, sent, started, answered>>

\* Serve leaves its loop, stop_ having been set, and destroys the service, or the
\* process dies.  What the rings and the handlers hold is never looked at again.
Destroy == /\ phase = "loop"
           /\ phase' = "stopped"
           /\ UNCHANGED <<wireIn, inQ, serving, failed, outQ, wireOut, sent, started, answered>>
-----------------------------------------------------------------------------
Handler == \E c \in Calls : HandlerFails(c) \/ OnRpcDone(c)
NetThread == OnUpdate \/ (\E c \in Calls : OnRecvPacket(c))
Wire == \/ \E c \in Calls : LoseRequest(c)
        \/ \E a \in Answers : Deliver(a)
Internal == HandleRpcReq \/ RejectRpcReq \/ Handler \/ NetThread \/ Wire \/ Destroy
Next == Internal \/ (\E c \in Calls : Request(c))

Spec == Init /\ [][Next]_vars
-----------------------------------------------------------------------------
TypeOK == /\ phase \in {"loop", "stopped"}
          /\ wireIn \subseteq Calls /\ serving \subseteq Calls /\ failed \subseteq Calls
          /\ inQ \in Seq(Calls) /\ outQ \in Seq(Answers) /\ wireOut \subseteq Answers
          /\ sent \subseteq Calls
          /\ started \in [Calls -> 0 .. 1] /\ answered \in [Calls -> 0 .. 1]

\* Calls on their way to a handler, and answers on their way back.
Incoming == wireIn \cup Range(inQ)
Outgoing == wireOut \cup Range(outQ)

\* A handler runs at most once for a call, and a call is answered at most once, after
\* its handler has started (rpc_service_mgr.cpp:98, 192).
AtMostOnce == \A c \in Calls : started[c] <= 1 /\ answered[c] <= started[c]

\* The client is told that its call failed exactly when the handler has failed the
\* controller of that call (rpc_service_mgr.cpp:183-185), whatever other handlers did
\* in between.
StatusTold == \A a \in Outgoing : a.status = "failed" <=> a.call \in failed

\* The inductive invariant.  A call is in one place at a time: on the wire, in one cell
\* of the ring, with its handler, or answered.
ServerInv == /\ TypeOK /\ StatusTold
             /\ Incoming \subseteq {c \in sent : started[c] = 0}
             /\ wireIn \cap Range(inQ) = {}
             /\ \A i, j \in 1 .. Len(inQ) : inQ[i] = inQ[j] => i = j
             /\ \A c \in serving : started[c] = 1 /\ answered[c] = 0
             /\ \A a \in Outgoing : answered[a.call] = 1
             /\ \A c \in Calls : started[c] = 0 => answered[c] = 0 /\ c \notin failed
             /\ \A c \in Calls : started[c] = 1 => c \in sent
=============================================================================
