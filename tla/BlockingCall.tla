---------------------------- MODULE BlockingCall ----------------------------
(***************************************************************************)
(* A client process making blocking calls, one after the other:            *)
(* RpcChannel::BlockingCallMethod and RpcConnMgr::BlockingRecvPacket on    *)
(* the main thread, the rings and the network as in RpcClient.  Every      *)
(* request goes out with the sequence number 0; the call a packet belongs  *)
(* to is kept here only to say what the caller gets.                       *)
(***************************************************************************)
EXTENDS Integers, Sequences, FiniteSets

CONSTANTS TimeOut,   \* RECEIVE_TIME_OUT
          QueueCap,  \* MAX_QUEUE_SIZE - 1
          MaxCall    \* bound: number of calls made

ASSUME BoundsAssumption == TimeOut \in Nat \ {0} /\ QueueCap \in Nat /\ MaxCall \in Nat

VARIABLES pc,        \* main thread: in user code, polling, or reading a packet
          call,      \* the number of the last call
          count,     \* BlockingRecvPacket's count
          packet,    \* recvPacket: the call whose response was popped
          failed,    \* the controller's Failed()
          got,       \* the call whose response was read into `response', or 0
          sendQ, recvQ, reqNet, rspNet,
          timedOut   \* history: calls that gave up waiting

vars == <<pc, call, count, packet, failed, got, sendQ, recvQ, reqNet, rspNet, timedOut>>
Calls == 1 .. MaxCall

Init == /\ pc = "user" /\ call = 0 /\ count = 0 /\ packet = 0 /\ failed = FALSE /\ got = 0
        /\ sendQ = <<>> /\ recvQ = <<>> /\ reqNet = {} /\ rspNet = {} /\ timedOut = {}
-----------------------------------------------------------------------------
\* A call begins, with a fresh controller or the one of the last call.
Begin == /\ pc = "user" /\ call < MaxCall
         /\ call' = call + 1
         /\ got' = 0 /\ packet' = 0 /\ count' = 0

\* No packet can be had.
CallNoPacket == /\ Begin
                /\ failed' = TRUE
                /\ UNCHANGED <<pc, sendQ, recvQ, reqNet, rspNet, timedOut>>

\* The request cannot be encoded, or the ring is full: the call returns as it is.
CallNotSent == /\ Begin
               /\ failed' \in {failed, FALSE}
               /\ UNCHANGED <<pc, sendQ, recvQ, reqNet, rspNet, timedOut>>

CallSent == /\ Begin
            /\ Len(sendQ) < QueueCap
            /\ failed' \in {failed, FALSE}
            /\ sendQ' = Append(sendQ, call')
            /\ pc' = "poll"
            /\ UNCHANGED <<recvQ, reqNet, rspNet, timedOut>>

\* Mutant of PollWait: the rounds are not counted.
PollWaitUncounted == /\ pc = "poll" /\ recvQ = <<>> /\ count < TimeOut
                     /\ UNCHANGED vars

\* BlockingRecvPacket: nothing there yet; sleep.
PollWait == /\ pc = "poll" /\ recvQ = <<>> /\ count < TimeOut
            /\ count' = count + 1
            /\ UNCHANGED <<pc, call, packet, failed, got, sendQ, recvQ, reqNet, rspNet, timedOut>>

\* Mutant of PollPacket: the packet stays in the ring.
PollPacketNoPop == /\ pc = "poll" /\ recvQ # <<>> /\ count # TimeOut
                   /\ packet' = Head(recvQ)
                   /\ pc' = "read"
                   /\ UNCHANGED <<call, count, failed, got, sendQ, recvQ, reqNet, rspNet, timedOut>>

\* A packet was popped in time.
PollPacket == /\ pc = "poll" /\ recvQ # <<>> /\ count # TimeOut
              /\ packet' = Head(recvQ)
              /\ recvQ' = Tail(recvQ)
              /\ pc' = "read"
              /\ UNCHANGED <<call, count, failed, got, sendQ, reqNet, rspNet, timedOut>>

\* The last round is over, with or without a packet, which is then dropped.
PollTimeOut == /\ pc = "poll" /\ count = TimeOut
               /\ recvQ' = IF recvQ = <<>> THEN recvQ ELSE Tail(recvQ)
               /\ failed' = TRUE
               /\ timedOut' = timedOut \cup {call}
               /\ pc' = "user"
               /\ UNCHANGED <<call, count, packet, got, sendQ, reqNet, rspNet>>

\* The head and the body of the packet are read; if that fails, the call returns.
ReadPacket == /\ pc = "read"
              /\ got' \in {packet, 0}
              /\ pc' = "user"
              /\ UNCHANGED <<call, count, packet, failed, sendQ, recvQ, reqNet, rspNet, timedOut>>
-----------------------------------------------------------------------------
OnUpdate == /\ sendQ # <<>>
            /\ reqNet' \in {reqNet, reqNet \cup {Head(sendQ)}}
            /\ sendQ' = Tail(sendQ)
            /\ UNCHANGED <<pc, call, count, packet, failed, got, recvQ, rspNet, timedOut>>

OnRecvPacket(c) == /\ c \in rspNet
                   /\ rspNet' = rspNet \ {c}
                   /\ recvQ' = IF Len(recvQ) < QueueCap THEN Append(recvQ, c) ELSE recvQ
                   /\ UNCHANGED <<pc, call, count, packet, failed, got, sendQ, reqNet, timedOut>>

\* The server answers, or a packet is lost.
ServerReply(c) == /\ c \in reqNet
                  /\ reqNet' = reqNet \ {c}
                  /\ rspNet' \in {rspNet, rspNet \cup {c}}
                  /\ UNCHANGED <<pc, call, count, packet, failed, got, sendQ, recvQ, timedOut>>

Main == CallNoPacket \/ CallNotSent \/ CallSent \/ PollWait \/ PollPacket \/ PollTimeOut \/ ReadPacket
Others == OnUpdate \/ (\E c \in Calls : OnRecvPacket(c) \/ ServerReply(c))
Next == Main \/ Others

Spec == Init /\ [][Next]_vars

\* The main thread runs; nothing is assumed of the network.
FairSpec == Spec /\ WF_vars(Main)
-----------------------------------------------------------------------------
\* Type invariant.
TypeOK == /\ pc \in {"user", "poll", "read"}
          /\ call \in 0 .. MaxCall /\ count \in 0 .. TimeOut
          /\ packet \in 0 .. MaxCall /\ got \in 0 .. MaxCall
          /\ failed \in BOOLEAN
          /\ sendQ \in Seq(Calls) /\ recvQ \in Seq(Calls)
          /\ reqNet \subseteq Calls /\ rspNet \subseteq Calls /\ timedOut \subseteq Calls

\* As long as no call has given up waiting, a call that gets a response gets its own,
\* although rpc_channel.cpp:144-157 takes whatever packet comes first.
OwnUntilTimeout == timedOut = {} => got \in {0, call}

\* Only timeouts leave packets behind: those under way, in the rings and on the wire, are no
\* more than the calls that gave up waiting, and one while a call waits.  So many responses of
\* earlier calls there can be for later calls to take (rpc_channel.cpp:144-157), whichever
\* those are.
StraysAreTimeouts ==
    /\ TypeOK
    /\ Len(sendQ) + Cardinality(reqNet) + Cardinality(rspNet) + Len(recvQ)
         <= Cardinality(timedOut) + (IF pc = "poll" THEN 1 ELSE 0)

\* The inductive invariant.  No call that has given up is made again, and as long as none
\* has, whatever is under way belongs to the last call.
FreshCall == timedOut \subseteq 1 .. call /\ (pc # "user" => call \in Calls \ timedOut)
AllOfCall == /\ \A i \in DOMAIN sendQ : sendQ[i] = call
             /\ \A i \in DOMAIN recvQ : recvQ[i] = call
             /\ reqNet \subseteq {call} /\ rspNet \subseteq {call}
             /\ pc = "read" => packet = call
CallInv == /\ StraysAreTimeouts /\ FreshCall /\ OwnUntilTimeout
           /\ timedOut = {} => AllOfCall

\* A blocking call returns, whatever is lost (rpc_conn_mgr.cpp:115-123).
CallReturns == pc # "user" ~> pc = "user"
=============================================================================
