----------------------------- MODULE RpcClient -----------------------------
(***************************************************************************)
(* A client process making coroutine calls: RpcChannel::CallMethod,        *)
(* RpcCoroMgr, the Update() loop (RpcConnMgr::Tick and                     *)
(* RpcServiceMgr::HandleRpcRsp) on the main thread, RpcConnComp on the     *)
(* network thread, and the network and server as seen from here: a request *)
(* is answered at most once, by anything, at any time, or never.           *)
(*                                                                         *)
(* The two threads meet only in the two rings of SPSCQueue, which appear   *)
(* here as the bounded FIFO sequences that module implements.  Everything  *)
(* the main thread does between two accesses of a ring is one action,      *)
(* except that resuming a coroutine hands control to it: the frames below  *)
(* it on the stack (KillCoro, HandleRpcRsp, the two loops) go on when it   *)
(* has suspended or finished.                                              *)
(***************************************************************************)
EXTENDS Integers, Sequences, FiniteSets

CONSTANTS Coros,      \* the coroutines the user starts
          VoidCoros,  \* those that pass no response object
          NoCoro,     \* no coroutine is running
          TimeOut,    \* CORO_TIME_OUT
          QueueCap,   \* MAX_QUEUE_SIZE - 1
          MaxUid,     \* bound: number of calls made
          MaxTime     \* bound: last value of the clock

ASSUME CorosAssumption == VoidCoros \subseteq Coros /\ NoCoro \notin Coros
ASSUME BoundsAssumption == /\ TimeOut \in Nat \ {0} /\ QueueCap \in Nat
                           /\ MaxUid \in Nat /\ MaxTime \in Nat

VARIABLES now,       \* LLBC_GetMilliSeconds()
          pc,        \* main thread: in user code, in HandleCoroTimeout or in Tick
          tnow,      \* HandleCoroTimeout's local `now'
          run,       \* the coroutine that has control, if any
          killing,   \* the uid KillCoro erases when the coroutine gives control back
          uidGen,    \* coro_uid_generator_
          susp,      \* keys of suspended_contexts_
          heap,      \* uids of the contexts in coroHeap_
          owner,     \* per context: handle and controller
          deadline,  \* per context: timeout_time
          cstate,    \* state of each coroutine frame
          wait,      \* the uid of each coroutine's last call
          error,     \* error text of each coroutine's controller
          reply,     \* the call whose response was read into the coroutine's rsp
          sendQ,     \* sendQueue_: requests
          recvQ,     \* recvQueue_: responses
          reqNet,    \* requests on the way to the server, or being served
          rspNet,    \* responses on the way back
          srvFailed  \* calls whose server-side controller has failed

netVars == <<reqNet, rspNet, srvFailed>>
coroVars == <<cstate, wait, error, reply>>
ctxVars == <<uidGen, susp, heap, owner, deadline>>
vars == <<now, pc, tnow, run, killing, ctxVars, coroVars, sendQ, recvQ, netVars>>

Uids == 1 .. MaxUid
Rsp == [uid : Uids, status : {"ok", "failed"}]
Errors == {"none", "coro timeout", "read rsp failed", "rpc failed", "killed"}

\* The main thread is not inside a coroutine, nor inside KillCoro.
Idle == run = NoCoro /\ killing = 0

Init == /\ now = 0 /\ pc = "user" /\ tnow = 0 /\ run = NoCoro /\ killing = 0
        /\ uidGen = 0 /\ susp = {} /\ heap = {}
        /\ owner = [u \in Uids |-> NoCoro]
        /\ deadline = [u \in Uids |-> 0]
        /\ cstate = [c \in Coros |-> "new"]
        /\ wait = [c \in Coros |-> 0]
        /\ error = [c \in Coros |-> "none"]
        /\ reply = [c \in Coros |-> 0]
        /\ sendQ = <<>> /\ recvQ = <<>>
        /\ reqNet = {} /\ rspNet = {} /\ srvFailed = {}
-----------------------------------------------------------------------------
(* Coroutines.  One that has control runs until it awaits its next call or *)
(* returns.                                                                *)

\* The main thread calls the user's CallMethod(), whose coroutine starts at once.
Start(c) == /\ pc = "user" /\ Idle
            /\ cstate[c] = "new"
            /\ run' = c
            /\ cstate' = [cstate EXCEPT ![c] = "running"]
            /\ UNCHANGED <<now, pc, tnow, killing, ctxVars, wait, error, reply, sendQ, recvQ, netVars>>

\* PushSendPacket: a full ring takes nothing.
Push(q, x) == IF Len(q) < QueueCap THEN Append(q, x) ELSE q

\* Mutant of Call: AddCoroContext does not put the context on the heap.
CallNoHeap(c) == /\ run = c
                 /\ uidGen < MaxUid /\ now + TimeOut <= MaxTime
                 /\ uidGen' = uidGen + 1
                 /\ susp' = susp \cup {uidGen'}
                 /\ owner' = [owner EXCEPT ![uidGen'] = c]
                 /\ sendQ' = Push(sendQ, uidGen')
                 /\ cstate' = [cstate EXCEPT ![c] = "suspended"]
                 /\ wait' = [wait EXCEPT ![c] = uidGen']
                 /\ reply' = [reply EXCEPT ![c] = 0]
                 /\ run' = NoCoro
                 /\ UNCHANGED <<now, pc, tnow, killing, heap, deadline, error, recvQ, netVars>>

\* RpcChannel::CallMethod and the suspension of its caller.  The context is stored
\* first; whether the packet then cannot be had, cannot be encoded or finds the ring
\* full, the call returns and the coroutine suspends.  The controller is a fresh one
\* or that of an earlier call, which nothing resets.
Call(c) == /\ run = c
           /\ uidGen < MaxUid /\ now + TimeOut <= MaxTime
           /\ uidGen' = uidGen + 1
           /\ susp' = susp \cup {uidGen'}
           /\ heap' = heap \cup {uidGen'}
           /\ owner' = [owner EXCEPT ![uidGen'] = c]
           /\ deadline' = [deadline EXCEPT ![uidGen'] = now + TimeOut]
           /\ \E encoded \in BOOLEAN : sendQ' = IF encoded THEN Push(sendQ, uidGen') ELSE sendQ
           /\ error' = [error EXCEPT ![c] = "none"] \/ UNCHANGED error
           /\ cstate' = [cstate EXCEPT ![c] = "suspended"]
           /\ wait' = [wait EXCEPT ![c] = uidGen']
           /\ reply' = [reply EXCEPT ![c] = 0]
           /\ run' = NoCoro
           /\ UNCHANGED <<now, pc, tnow, killing, recvQ, netVars>>

\* co_return: final_suspend never suspends, so the frame is gone.
Finish(c) == /\ run = c
             /\ cstate' = [cstate EXCEPT ![c] = "done"]
             /\ run' = NoCoro
             /\ UNCHANGED <<now, pc, tnow, killing, ctxVars, wait, error, reply, sendQ, recvQ, netVars>>

\* ctx.handle.resume()
Resume(c) == /\ run' = c
             /\ cstate' = [cstate EXCEPT ![c] = "running"]

\* Mutant of Kill: the controller is not failed.
KillUnmarked(u, reason) == /\ Resume(owner[u])
                           /\ killing' = u
                           /\ UNCHANGED error

\* KillCoro(context): SetFailed, resume; KillReturn is the erase that follows.
Kill(u, reason) == /\ error' = [error EXCEPT ![owner[u]] = reason]
                   /\ Resume(owner[u])
                   /\ killing' = u

\* Mutants of KillReturn: the erase is missing, or erases the newest context.
KillReturnNoErase == /\ run = NoCoro /\ killing # 0
                     /\ killing' = 0
                     /\ UNCHANGED <<now, pc, tnow, run, ctxVars, coroVars, sendQ, recvQ, netVars>>
KillReturnNewest == /\ run = NoCoro /\ killing # 0
                    /\ susp' = susp \ {uidGen}
                    /\ killing' = 0
                    /\ UNCHANGED <<now, pc, tnow, run, uidGen, heap, owner, deadline, coroVars,
                                   sendQ, recvQ, netVars>>

KillReturn == /\ run = NoCoro /\ killing # 0
              /\ susp' = susp \ {killing}
              /\ killing' = 0
              /\ UNCHANGED <<now, pc, tnow, run, uidGen, heap, owner, deadline, coroVars,
                             sendQ, recvQ, netVars>>

\* KillCoro(coro_uid), called by the user: the context stays in the heap.
KillByUid(u) == /\ pc = "user" /\ Idle
                /\ u \in susp
                /\ Kill(u, "killed")
                /\ UNCHANGED <<now, pc, tnow, ctxVars, wait, reply, sendQ, recvQ, netVars>>
-----------------------------------------------------------------------------
(* RpcClient::Update: HandleCoroTimeout, then Tick, then a short sleep.    *)

Update == /\ pc = "user" /\ Idle
          /\ pc' = "timeout"
          /\ tnow' = now
          /\ UNCHANGED <<now, run, killing, ctxVars, coroVars, sendQ, recvQ, netVars>>

InTimeout == pc = "timeout" /\ Idle

\* coroHeap_.Top(): one of the contexts with the least timeout_time.
IsTop(u) == u \in heap /\ \A v \in heap : deadline[u] <= deadline[v]

\* Mutant of TimeoutBreak: the loop also ends at a context that is no longer mapped.
TimeoutBreakAtStale == /\ InTimeout
                       /\ \/ \A u \in heap : deadline[u] > tnow
                          \/ \E u \in heap : IsTop(u) /\ u \notin susp
                       /\ pc' = "tick"
                       /\ UNCHANGED <<now, tnow, run, killing, ctxVars, coroVars, sendQ, recvQ, netVars>>

\* The loop ends at an empty heap or at a context that has time left.
TimeoutBreak == /\ InTimeout
                /\ \A u \in heap : deadline[u] > tnow
                /\ pc' = "tick"
                /\ UNCHANGED <<now, tnow, run, killing, ctxVars, coroVars, sendQ, recvQ, netVars>>

\* The call of an expired context was answered already.
TimeoutSkip(u) == /\ InTimeout
                  /\ IsTop(u) /\ deadline[u] <= tnow
                  /\ u \notin susp
                  /\ heap' = heap \ {u}
                  /\ UNCHANGED <<now, pc, tnow, run, killing, uidGen, susp, owner, deadline,
                                 coroVars, sendQ, recvQ, netVars>>

\* Mutant of TimeoutKill: no test that the context is still mapped.
TimeoutKillStale(u) == /\ InTimeout
                       /\ IsTop(u) /\ deadline[u] <= tnow
                       /\ heap' = heap \ {u}
                       /\ Kill(u, "coro timeout")
                       /\ UNCHANGED <<now, pc, tnow, uidGen, susp, owner, deadline, wait, reply,
                                      sendQ, recvQ, netVars>>

\* An expired context is killed.
TimeoutKill(u) == /\ InTimeout
                  /\ IsTop(u) /\ deadline[u] <= tnow
                  /\ u \in susp
                  /\ heap' = heap \ {u}
                  /\ Kill(u, "coro timeout")
                  /\ UNCHANGED <<now, pc, tnow, uidGen, susp, owner, deadline, wait, reply,
                                 sendQ, recvQ, netVars>>

InTick == pc = "tick" /\ Idle

\* What HandleRpcRsp does to the controller of the coroutine it resumes.
ErrorAfter(p, c, readable) ==
  IF p.status # "ok" THEN "rpc failed"
  ELSE IF error[c] # "none" \/ c \in VoidCoros \/ readable THEN error[c]
  ELSE "read rsp failed"

\* Whether HandleRpcRsp gets as far as reading the response into rsp.
ReadsReply(p, c, readable) ==
  p.status = "ok" /\ error[c] = "none" /\ c \notin VoidCoros /\ readable

\* Tick hands a response to HandleRpcRsp, which finds its context: the context is
\* popped and its coroutine resumed, through KillCoro if the body cannot be read.
TickResume == /\ InTick /\ recvQ # <<>>
              /\ LET p == Head(recvQ)
                     c == owner[p.uid]
                 IN /\ p.uid \in susp
                    /\ susp' = susp \ {p.uid}
                    /\ \E readable \in BOOLEAN :
                         /\ error' = [error EXCEPT ![c] = ErrorAfter(p, c, readable)]
                         /\ reply' = IF ReadsReply(p, c, readable)
                                     THEN [reply EXCEPT ![c] = p.uid] ELSE reply
                         /\ killing' = IF error[c] = "none" /\ error'[c] = "read rsp failed"
                                       THEN p.uid ELSE 0
                    /\ Resume(c)
              /\ recvQ' = Tail(recvQ)
              /\ UNCHANGED <<now, pc, tnow, uidGen, heap, owner, deadline, wait, sendQ, netVars>>

\* A response is dropped: its head cannot be read, or its context is gone because
\* the call has timed out.
TickDrop == /\ InTick /\ recvQ # <<>>
            /\ recvQ' = Tail(recvQ)
            /\ UNCHANGED <<now, pc, tnow, run, killing, ctxVars, coroVars, sendQ, netVars>>

TickDone == /\ InTick /\ recvQ = <<>>
            /\ pc' = "user"
            /\ UNCHANGED <<now, tnow, run, killing, ctxVars, coroVars, sendQ, recvQ, netVars>>
-----------------------------------------------------------------------------
(* The network thread, the network and the server.                         *)

mainVars == <<pc, tnow, run, killing, ctxVars, coroVars>>

\* OnUpdate: one packet of its loop; a Send that fails loses it.
OnUpdate == /\ sendQ # <<>>
            /\ \E sent \in BOOLEAN : reqNet' = IF sent THEN reqNet \cup {Head(sendQ)} ELSE reqNet
            /\ sendQ' = Tail(sendQ)
            /\ UNCHANGED <<now, mainVars, recvQ, rspNet, srvFailed>>

\* OnRecvPacket: the packet is copied with a status of 0; a full ring drops it.
OnRecvPacket(p) == /\ p \in rspNet
                   /\ rspNet' = rspNet \ {p}
                   /\ recvQ' = Push(recvQ, [p EXCEPT !.status = "ok"])
                   /\ UNCHANGED <<now, mainVars, sendQ, reqNet, srvFailed>>

\* The server answers; OnRpcDone sends the failure of its controller as a status.
ServerReply(u, s) == /\ u \in reqNet
                     /\ reqNet' = reqNet \ {u}
                     /\ rspNet' = rspNet \cup {[uid |-> u, status |-> s]}
                     /\ srvFailed' = IF s = "failed" THEN srvFailed \cup {u} ELSE srvFailed
                     /\ UNCHANGED <<now, mainVars, sendQ, recvQ>>

\* A session breaks, a server drops the request or dies.
LoseRequest(u) == /\ u \in reqNet
                  /\ reqNet' = reqNet \ {u}
                  /\ UNCHANGED <<now, mainVars, sendQ, recvQ, rspNet, srvFailed>>

LoseResponse(p) == /\ p \in rspNet
                   /\ rspNet' = rspNet \ {p}
                   /\ UNCHANGED <<now, mainVars, sendQ, recvQ, reqNet, srvFailed>>

ClockTick == /\ now < MaxTime
             /\ now' = now + 1
             /\ UNCHANGED <<mainVars, sendQ, recvQ, netVars>>
-----------------------------------------------------------------------------
CoroStep == \E c \in Coros : Start(c) \/ Call(c) \/ Finish(c)
TimeoutStep == TimeoutBreak \/ (\E u \in Uids : TimeoutSkip(u) \/ TimeoutKill(u))
TickStep == TickResume \/ TickDrop \/ TickDone
KillStep == KillReturn \/ (\E u \in Uids : KillByUid(u))
Main == CoroStep \/ KillStep \/ Update \/ TimeoutStep \/ TickStep
NetThread == OnUpdate \/ (\E p \in Rsp : OnRecvPacket(p))
Server == \E u \in Uids, s \in {"ok", "failed"} : ServerReply(u, s)
Loss == (\E u \in Uids : LoseRequest(u)) \/ (\E p \in Rsp : LoseResponse(p))
Environment == Server \/ Loss \/ ClockTick
Next == Main \/ NetThread \/ Environment

Spec == Init /\ [][Next]_vars

\* The user keeps calling Update(), a coroutine with control awaits or returns at
\* last, and time passes.  Nothing is assumed of the network thread, the network or
\* the server.
Fairness == WF_vars(Main) /\ WF_vars(ClockTick)
FairSpec == Spec /\ Fairness
-----------------------------------------------------------------------------
TypeOK == /\ now \in 0 .. MaxTime /\ tnow \in 0 .. MaxTime
          /\ pc \in {"user", "timeout", "tick"}
          /\ run \in Coros \cup {NoCoro}
          /\ killing \in 0 .. MaxUid
          /\ uidGen \in 0 .. MaxUid
          /\ susp \subseteq Uids /\ heap \subseteq Uids
          /\ owner \in [Uids -> Coros \cup {NoCoro}]
          /\ deadline \in [Uids -> 0 .. MaxTime]
          /\ cstate \in [Coros -> {"new", "running", "suspended", "done"}]
          /\ wait \in [Coros -> 0 .. MaxUid]
          /\ error \in [Coros -> Errors]
          /\ reply \in [Coros -> 0 .. MaxUid]
          /\ sendQ \in Seq(Uids) /\ recvQ \in Seq(Rsp)
          /\ reqNet \subseteq Uids /\ rspNet \subseteq Rsp /\ srvFailed \subseteq Uids

\* A context that a response or a timeout may still find belongs to a coroutine that
\* is suspended on exactly that call, so handle.resume() (rpc_coro_mgr.cpp:20,
\* rpc_service_mgr.cpp:126-150) is never applied to one that has moved on.
ContextsAreWaiting == \A u \in susp \ {killing} :
                         /\ owner[u] \in Coros
                         /\ cstate[owner[u]] = "suspended" /\ wait[owner[u]] = u

\* No suspended coroutine is forgotten: its context is in the map, and in the heap
\* that will time it out, whatever became of its packet; in particular the erase at
\* the end of KillCoro removes no context of a call made while it was resuming.
NoneForgotten == \A c \in Coros : cstate[c] = "suspended" =>
                    /\ wait[c] \in susp /\ wait[c] \in heap
                    /\ wait[c] # killing /\ owner[wait[c]] = c

\* A coroutine that goes on without an error holds the response to its own last call,
\* not one to an earlier call that timed out, and not none.
SuccessMeansOwnReply == \A c \in Coros \ VoidCoros :
                           /\ cstate[c] \in {"running", "done"}
                           /\ wait[c] # 0 /\ error[c] = "none"
                           => reply[c] = wait[c]

\* When HandleCoroTimeout returns, every call that had expired when it started has
\* been ended: stale contexts above it in the heap do not hide one.
NoExpiredLeft == pc = "tick" => \A u \in susp \ {killing} : deadline[u] > tnow

\* A coroutine gets control only at its start or when suspended: never twice for one
\* call, never after it has returned and its frame is gone.
ResumeOnlySuspended == [][\A c \in Coros : run' = c /\ run # c =>
                             cstate[c] \in {"new", "suspended"}]_vars

\* The inductive invariant.  Beyond the properties above it says which coroutine has
\* control, that uids in use were generated, and that HandleCoroTimeout's clock is old.
ControlInv == /\ \A c \in Coros : cstate[c] = "running" <=> run = c
              /\ \A c \in Coros : cstate[c] = "new" => wait[c] = 0
              /\ susp \cup heap \subseteq 1 .. uidGen
              /\ killing <= uidGen
              /\ tnow <= now
ClientInv == /\ TypeOK /\ ControlInv /\ ContextsAreWaiting /\ NoneForgotten
             /\ SuccessMeansOwnReply /\ NoExpiredLeft

\* What HandleRpcRsp (rpc_service_mgr.cpp:123-125) sets out to do: a call whose
\* server-side controller failed, and whose response arrived, has failed.
ServerFailureReported == \A c \in Coros : cstate[c] \in {"running", "done"}
                            /\ wait[c] \in srvFailed /\ reply[c] = wait[c]
                            => error[c] # "none"

\* Every call ends: its coroutine gets control again, whatever is lost.
EveryCallEnds == \A c \in Coros : \A u \in Uids :
                    (cstate[c] = "suspended" /\ wait[c] = u) ~> ~(cstate[c] = "suspended" /\ wait[c] = u)
=============================================================================
