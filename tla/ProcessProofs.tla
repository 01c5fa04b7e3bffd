--------------------------- MODULE ProcessProofs ---------------------------
(***************************************************************************)
(* The main thread of a process, in both of its roles, and the registry    *)
(* that the processes meet in.                                             *)
(*                                                                         *)
(* A client: what a blocking call gets, for any number of calls, any       *)
(* timeout and any size of the rings.  Every request in flight is worth at *)
(* most one response; a call that gives up leaves one behind; so when no   *)
(* call has given up, nothing is in flight when the next call begins.      *)
(*                                                                         *)
(* A server: Serve() runs on a service that is up, however often it is     *)
(* started and stopped.                                                    *)
(*                                                                         *)
(* The registry: which servers are listed, and what the client is told, as *)
(* sessions end and are opened again in any order.                         *)
(***************************************************************************)
EXTENDS MCProcess, Registry, FiniteSetTheorems, TLAPS

\* The provers, tried in this order, and how long each may take.
USE SMTT(20), Z3T(20), Zenon

\* Sets of calls are finite; what adding and removing a call does to their size.
LEMMA CallSets ==
    ASSUME NEW S \in SUBSET Calls
    PROVE  /\ IsFiniteSet(S) /\ Cardinality(S) \in Nat
           /\ Cardinality(S) = 0 <=> S = {}
           /\ \A c : /\ c \in S => Cardinality(S \ {c}) = Cardinality(S) - 1
                     /\ c \notin S => Cardinality(S \cup {c}) = Cardinality(S) + 1
                     /\ Cardinality(S \cup {c}) <= Cardinality(S) + 1
                     /\ Cardinality(S \cup {c}) \in Nat
<1>1. IsFiniteSet(Calls)
  BY BoundsAssumption, FS_Interval DEF Calls
<1>2. IsFiniteSet(S)
  BY <1>1, FS_Subset
<1>3. Cardinality(S) \in Nat
  BY <1>2, FS_CardinalityType
<1>4. Cardinality(S) = 0 <=> S = {}
  BY <1>2, FS_EmptySet
<1>5. ASSUME NEW c PROVE Cardinality(S \ {c}) = IF c \in S THEN Cardinality(S) - 1 ELSE Cardinality(S)
  BY <1>2, FS_RemoveElement
<1>6. ASSUME NEW c PROVE Cardinality(S \cup {c}) = IF c \in S THEN Cardinality(S) ELSE Cardinality(S) + 1
  BY <1>2, FS_AddElement
<1> QED BY <1>2, <1>3, <1>4, <1>5, <1>6

\* What the ends of a ring's contents are.
LEMMA Rings ==
    ASSUME NEW q \in Seq(Calls)
    PROVE  /\ Len(q) \in Nat /\ DOMAIN q = 1 .. Len(q) /\ \A i \in DOMAIN q : q[i] \in Calls
           /\ Len(q) = 0 <=> q = << >>
           /\ q # << >> => /\ Head(q) \in Calls /\ Head(q) = q[1] /\ 1 \in DOMAIN q
                           /\ Tail(q) \in Seq(Calls) /\ Len(Tail(q)) = Len(q) - 1
                           /\ \A i \in DOMAIN Tail(q) : i + 1 \in DOMAIN q /\ Tail(q)[i] = q[i + 1]
           /\ \A c \in Calls : /\ Append(q, c) \in Seq(Calls) /\ Len(Append(q, c)) = Len(q) + 1
                                /\ \A i \in DOMAIN Append(q, c) :
                                      Append(q, c)[i] = c \/ (i \in DOMAIN q /\ Append(q, c)[i] = q[i])
<1>1. Len(q) = 0 <=> q = << >>
  OBVIOUS
<1>2. ASSUME q # << >> PROVE Head(q) \in Calls /\ Tail(q) \in Seq(Calls)
  BY <1>2
<1> QED BY <1>1, <1>2

\* Calls are counted from 1.
LEMMA CallNumbers == /\ \A c \in Calls : c \in 0 .. MaxCall
                     /\ \A c \in 0 .. MaxCall : c < MaxCall => c + 1 \in Calls /\ c + 1 \in 0 .. MaxCall
                     /\ \A c \in 0 .. MaxCall : c # 0 => c \in Calls
  BY BoundsAssumption DEF Calls

\* The responses that may still come.
InFlight == Len(sendQ) + Cardinality(reqNet) + Cardinality(rspNet) + Len(recvQ)
Owed == Cardinality(timedOut) + (IF pc = "poll" THEN 1 ELSE 0)

LEMMA StraySplit == StraysAreTimeouts <=> TypeOK /\ InFlight <= Owed
  BY DEF StraysAreTimeouts, InFlight, Owed

LEMMA InitInv == Init => CallInv
<1> SUFFICES ASSUME Init PROVE CallInv
  OBVIOUS
<1>1. TypeOK
  <2>1. << >> \in Seq(Calls)
    OBVIOUS
  <2>2. failed \in BOOLEAN
    BY Zenon DEF Init
  <2> QED BY <2>1, <2>2, BoundsAssumption DEF Init, TypeOK
<1>2. InFlight <= Owed
  BY FS_EmptySet DEF Init, InFlight, Owed
<1> QED BY <1>1, <1>2, StraySplit DEF Init, CallInv, FreshCall, OwnUntilTimeout, AllOfCall

LEMMA TypeStep == TypeOK /\ FreshCall /\ [Next]_vars => TypeOK'
<1> SUFFICES ASSUME TypeOK, FreshCall, [Next]_vars PROVE TypeOK'
  OBVIOUS
<1>1. CASE CallNoPacket BY <1>1, CallNumbers, BoundsAssumption DEF CallNoPacket, Begin, TypeOK
<1>2. CASE CallNotSent
  <2>1. failed' \in BOOLEAN
    BY <1>2, Zenon DEF CallNotSent, TypeOK
  <2> QED BY <1>2, <2>1, CallNumbers, BoundsAssumption DEF CallNotSent, Begin, TypeOK
<1>3. CASE CallSent
  <2>1. failed' \in BOOLEAN
    BY <1>3, Zenon DEF CallSent, TypeOK
  <2> QED BY <1>3, <2>1, CallNumbers, Rings, BoundsAssumption DEF CallSent, Begin, TypeOK
<1>4. CASE PollWait BY <1>4, BoundsAssumption DEF PollWait, TypeOK
<1>5. CASE PollPacket BY <1>5, CallNumbers, Rings DEF PollPacket, TypeOK
<1>6. CASE PollTimeOut
  <2>1. call \in Calls
    BY <1>6 DEF PollTimeOut, FreshCall
  <2> QED BY <1>6, <2>1, Rings DEF PollTimeOut, TypeOK
<1>7. CASE ReadPacket BY <1>7, BoundsAssumption DEF ReadPacket, TypeOK
<1>8. CASE OnUpdate BY <1>8, Rings DEF OnUpdate, TypeOK
<1>9. ASSUME NEW c \in Calls, OnRecvPacket(c) PROVE TypeOK' BY <1>9, Rings DEF OnRecvPacket, TypeOK
<1>10. ASSUME NEW c \in Calls, ServerReply(c) PROVE TypeOK' BY <1>10 DEF ServerReply, TypeOK
<1>11. CASE UNCHANGED vars BY <1>11 DEF vars, TypeOK
<1> QED BY <1>1, <1>2, <1>3, <1>4, <1>5, <1>6, <1>7, <1>8, <1>9, <1>10, <1>11 DEF Next, Main, Others

\* A call that gives up is a new one.
LEMMA FreshStep == TypeOK /\ FreshCall /\ [Next]_vars => FreshCall'
<1> SUFFICES ASSUME TypeOK, FreshCall, [Next]_vars PROVE FreshCall'
  OBVIOUS
<1>1. CASE CallNoPacket BY <1>1, BoundsAssumption DEF CallNoPacket, Begin, TypeOK, FreshCall
<1>2. CASE CallNotSent BY <1>2, BoundsAssumption DEF CallNotSent, Begin, TypeOK, FreshCall
<1>3. CASE CallSent
  <2>1. call' \in Calls
    BY <1>3, CallNumbers, BoundsAssumption DEF CallSent, Begin, TypeOK
  <2> QED BY <1>3, <2>1, BoundsAssumption DEF CallSent, Begin, TypeOK, FreshCall
<1>4. CASE PollWait BY <1>4 DEF PollWait, FreshCall
<1>5. CASE PollPacket BY <1>5 DEF PollPacket, FreshCall
<1>6. CASE PollTimeOut BY <1>6, BoundsAssumption DEF PollTimeOut, FreshCall, TypeOK, Calls
<1>7. CASE ReadPacket BY <1>7 DEF ReadPacket, FreshCall
<1>8. CASE OnUpdate BY <1>8 DEF OnUpdate, FreshCall
<1>9. ASSUME NEW c \in Calls, OnRecvPacket(c) PROVE FreshCall' BY <1>9 DEF OnRecvPacket, FreshCall
<1>10. ASSUME NEW c \in Calls, ServerReply(c) PROVE FreshCall' BY <1>10 DEF ServerReply, FreshCall
<1>11. CASE UNCHANGED vars BY <1>11 DEF vars, FreshCall
<1> QED BY <1>1, <1>2, <1>3, <1>4, <1>5, <1>6, <1>7, <1>8, <1>9, <1>10, <1>11 DEF Next, Main, Others

\* Every step leaves at most as many responses to come as are owed.
LEMMA StrayStep == TypeOK /\ TypeOK' /\ FreshCall /\ InFlight <= Owed /\ [Next]_vars
                 => (InFlight <= Owed)'
<1> SUFFICES ASSUME TypeOK, TypeOK', FreshCall, InFlight <= Owed, [Next]_vars
             PROVE  (InFlight <= Owed)'
  OBVIOUS
<1>t. /\ reqNet \in SUBSET Calls /\ rspNet \in SUBSET Calls /\ timedOut \in SUBSET Calls
      /\ sendQ \in Seq(Calls) /\ recvQ \in Seq(Calls)
  BY DEF TypeOK
<1>n. /\ Cardinality(reqNet) \in Nat /\ Cardinality(rspNet) \in Nat
      /\ Cardinality(timedOut) \in Nat /\ Len(sendQ) \in Nat /\ Len(recvQ) \in Nat
  BY <1>t, CallSets, Rings
<1>1. CASE CallNoPacket BY <1>1 DEF CallNoPacket, Begin, InFlight, Owed
<1>2. CASE CallNotSent BY <1>2 DEF CallNotSent, Begin, InFlight, Owed
<1>3. CASE CallSent
  <2>1. call' \in Calls
    BY <1>3, CallNumbers, BoundsAssumption DEF CallSent, Begin, TypeOK
  <2>2. Len(sendQ') = Len(sendQ) + 1
    BY <1>3, <2>1, <1>t, Rings DEF CallSent
  <2> QED BY <1>3, <1>n, <2>2 DEF CallSent, Begin, InFlight, Owed
<1>4. CASE PollWait BY <1>4 DEF PollWait, InFlight, Owed
<1>5. CASE PollPacket
  <2>1. Len(recvQ') = Len(recvQ) - 1
    BY <1>5, <1>t, Rings DEF PollPacket
  <2> QED BY <1>5, <1>n, <2>1 DEF PollPacket, InFlight, Owed
<1>6. CASE PollTimeOut
  <2>1. Len(recvQ') \in Nat /\ Len(recvQ') <= Len(recvQ)
    BY <1>6, <1>t, <1>n, Rings DEF PollTimeOut
  <2>2. call \notin timedOut
    BY <1>6 DEF PollTimeOut, FreshCall
  <2>3. Cardinality(timedOut') = Cardinality(timedOut) + 1
    BY <1>6, <1>t, <2>2, CallSets DEF PollTimeOut
  <2> QED BY <1>6, <1>n, <2>1, <2>3 DEF PollTimeOut, InFlight, Owed
<1>7. CASE ReadPacket BY <1>7 DEF ReadPacket, InFlight, Owed
<1>8. CASE OnUpdate
  <2>1. Len(sendQ') = Len(sendQ) - 1
    BY <1>8, <1>t, Rings DEF OnUpdate
  <2>2. Cardinality(reqNet') \in Nat /\ Cardinality(reqNet') <= Cardinality(reqNet) + 1
    <3>1. /\ Cardinality(reqNet \cup {Head(sendQ)}) \in Nat
          /\ Cardinality(reqNet \cup {Head(sendQ)}) <= Cardinality(reqNet) + 1
      BY <1>t, CallSets, Zenon
    <3>2. reqNet' = reqNet \/ reqNet' = reqNet \cup {Head(sendQ)}
      BY <1>8 DEF OnUpdate
    <3>3. CASE reqNet' = reqNet
      BY <3>3, <1>n
    <3>4. CASE reqNet' = reqNet \cup {Head(sendQ)}
      BY <3>4, <3>1
    <3> QED BY <3>2, <3>3, <3>4
  <2>3. Cardinality(rspNet)' = Cardinality(rspNet) /\ Len(recvQ)' = Len(recvQ) /\ Owed' = Owed
    BY <1>8 DEF OnUpdate, Owed
  <2>4. InFlight' <= InFlight /\ InFlight' \in Int /\ InFlight \in Int
    BY <1>n, <2>1, <2>2, <2>3 DEF InFlight
  <2> QED BY <1>n, <2>3, <2>4 DEF Owed
<1>9. ASSUME NEW c \in Calls, OnRecvPacket(c) PROVE (InFlight <= Owed)'
  <2>1. Cardinality(rspNet') = Cardinality(rspNet) - 1
    BY <1>9, <1>t, CallSets DEF OnRecvPacket
  <2>2. Len(recvQ') \in Nat /\ Len(recvQ') <= Len(recvQ) + 1
    BY <1>9, <1>t, <1>n, Rings DEF OnRecvPacket
  <2> QED BY <1>9, <1>n, <2>1, <2>2 DEF OnRecvPacket, InFlight, Owed
<1>10. ASSUME NEW c \in Calls, ServerReply(c) PROVE (InFlight <= Owed)'
  <2>1. Cardinality(reqNet') = Cardinality(reqNet) - 1
    BY <1>10, <1>t, CallSets DEF ServerReply
  <2>2. Cardinality(rspNet') \in Nat /\ Cardinality(rspNet') <= Cardinality(rspNet) + 1
    <3>1. /\ Cardinality(rspNet \cup {c}) \in Nat
          /\ Cardinality(rspNet \cup {c}) <= Cardinality(rspNet) + 1
      BY <1>t, CallSets, Zenon
    <3>2. rspNet' = rspNet \/ rspNet' = rspNet \cup {c}
      BY <1>10 DEF ServerReply
    <3>3. CASE rspNet' = rspNet
      BY <3>3, <1>n
    <3>4. CASE rspNet' = rspNet \cup {c}
      BY <3>4, <3>1
    <3> QED BY <3>2, <3>3, <3>4
  <2>3. Len(sendQ)' = Len(sendQ) /\ Len(recvQ)' = Len(recvQ) /\ Owed' = Owed
    BY <1>10 DEF ServerReply, Owed
  <2>4. InFlight' <= InFlight /\ InFlight' \in Int /\ InFlight \in Int
    BY <1>n, <2>1, <2>2, <2>3 DEF InFlight
  <2> QED BY <1>n, <2>3, <2>4 DEF Owed
<1>11. CASE UNCHANGED vars BY <1>11 DEF vars, InFlight, Owed
<1> QED BY <1>1, <1>2, <1>3, <1>4, <1>5, <1>6, <1>7, <1>8, <1>9, <1>10, <1>11 DEF Next, Main, Others

\* As long as no call has given up, whatever is in flight when a call begins is its own.
LEMMA OwnStep ==
    /\ TypeOK /\ FreshCall /\ InFlight <= Owed /\ OwnUntilTimeout /\ (timedOut = {} => AllOfCall)
    /\ [Next]_vars
    => OwnUntilTimeout' /\ (timedOut = {} => AllOfCall)'
<1> SUFFICES ASSUME TypeOK, FreshCall, InFlight <= Owed, [Next]_vars,
                    OwnUntilTimeout, timedOut = {} => AllOfCall, timedOut' = {}
             PROVE  got' \in {0, call'} /\ AllOfCall'
  BY DEF OwnUntilTimeout
<1>t. /\ reqNet \in SUBSET Calls /\ rspNet \in SUBSET Calls
      /\ sendQ \in Seq(Calls) /\ recvQ \in Seq(Calls)
  BY DEF TypeOK
<1>n. /\ Cardinality(reqNet) \in Nat /\ Cardinality(rspNet) \in Nat
      /\ Len(sendQ) \in Nat /\ Len(recvQ) \in Nat
  BY <1>t, CallSets, Rings
<1>e. timedOut = {}
  BY Zenon DEF Next, Main, Others, CallNoPacket, CallNotSent, CallSent, PollWait, PollPacket,
         PollTimeOut, ReadPacket, OnUpdate, OnRecvPacket, ServerReply, vars
<1>a. AllOfCall /\ got \in {0, call}
  BY <1>e DEF OwnUntilTimeout
<1>b. ASSUME Begin PROVE sendQ = << >> /\ recvQ = << >> /\ reqNet = {} /\ rspNet = {}
  <2>1. Owed = 0
    BY <1>b, <1>e, FS_EmptySet DEF Owed, Begin
  <2>2. Len(sendQ) = 0 /\ Cardinality(reqNet) = 0 /\ Cardinality(rspNet) = 0 /\ Len(recvQ) = 0
    BY <2>1, <1>n DEF InFlight
  <2> QED BY <2>2, <1>t, CallSets, Rings
<1>1. CASE CallNoPacket BY <1>1, <1>b DEF CallNoPacket, Begin, AllOfCall
<1>2. CASE CallNotSent BY <1>2, <1>b DEF CallNotSent, Begin, AllOfCall
<1>3. CASE CallSent BY <1>3, <1>b DEF CallSent, Begin, AllOfCall
<1>4. CASE PollWait BY <1>4, <1>a DEF PollWait, AllOfCall
<1>5. CASE PollPacket
  <2>1. packet' = call
    BY <1>5, <1>a, <1>t, Rings DEF PollPacket, AllOfCall
  <2>2. \A i \in DOMAIN recvQ' : recvQ'[i] = call
    BY <1>5, <1>a, <1>t, Rings DEF PollPacket, AllOfCall
  <2> QED BY <1>5, <1>a, <2>1, <2>2 DEF PollPacket, AllOfCall
<1>6. CASE PollTimeOut BY <1>6 DEF PollTimeOut
<1>7. CASE ReadPacket BY <1>7, <1>a DEF ReadPacket, AllOfCall
<1>8. CASE OnUpdate
  <2>1. \A i \in DOMAIN sendQ' : sendQ'[i] = call
    BY <1>8, <1>a, <1>t, Rings DEF OnUpdate, AllOfCall
  <2>2. Head(sendQ) = call
    BY <1>8, <1>a, <1>t, Rings DEF OnUpdate, AllOfCall
  <2>3. reqNet' \subseteq {call}
    BY <1>8, <1>a, <2>2 DEF OnUpdate, AllOfCall
  <2> QED BY <1>8, <1>a, <2>1, <2>3 DEF OnUpdate, AllOfCall
<1>9. ASSUME NEW c \in Calls, OnRecvPacket(c) PROVE got' \in {0, call'} /\ AllOfCall'
  <2>1. c = call
    BY <1>9, <1>a DEF OnRecvPacket, AllOfCall
  <2>2. \A i \in DOMAIN recvQ' : recvQ'[i] = call
    BY <1>9, <1>a, <1>t, <2>1, Rings DEF OnRecvPacket, AllOfCall
  <2> QED BY <1>9, <1>a, <2>2 DEF OnRecvPacket, AllOfCall
<1>10. ASSUME NEW c \in Calls, ServerReply(c) PROVE got' \in {0, call'} /\ AllOfCall'
  BY <1>10, <1>a DEF ServerReply, AllOfCall
<1>11. CASE UNCHANGED vars BY <1>11, <1>a DEF vars, AllOfCall
<1> QED BY <1>1, <1>2, <1>3, <1>4, <1>5, <1>6, <1>7, <1>8, <1>9, <1>10, <1>11 DEF Next, Main, Others

LEMMA NextInv == CallInv /\ [Next]_vars => CallInv'
<1> SUFFICES ASSUME CallInv, [Next]_vars PROVE CallInv'
  OBVIOUS
<1>0. TypeOK /\ FreshCall /\ InFlight <= Owed
  BY StraySplit DEF CallInv
<1>1. TypeOK'
  BY <1>0, TypeStep
<1>2. FreshCall'
  BY <1>0, FreshStep
<1>3. (InFlight <= Owed)'
  BY <1>0, <1>1, StrayStep
<1>4. OwnUntilTimeout' /\ (timedOut = {} => AllOfCall)'
  BY <1>0, OwnStep DEF CallInv
<1>5. StraysAreTimeouts'
  BY <1>1, <1>3 DEF StraysAreTimeouts, InFlight, Owed
<1> QED BY <1>2, <1>4, <1>5 DEF CallInv

\* Blocking calls keep the inductive invariant (rpc_channel.cpp:105-165,
\* rpc_conn_mgr.cpp:115-124), whatever the network loses or delays.
THEOREM CallInvariant == Spec => []CallInv
  BY InitInv, NextInv, PTL DEF Spec

\* After n timeouts (rpc_conn_mgr.cpp:115-124) at most n packets are under way that no call
\* waits for, whose responses later calls may take for theirs.
THEOREM StraysBounded == Spec => []StraysAreTimeouts
<1>1. CallInv => StraysAreTimeouts
  BY DEF CallInv
<1> QED BY <1>1, CallInvariant, PTL

\* Until a blocking call has timed out, a call that gets a response gets its own.
THEOREM OwnResponse == Spec => []OwnUntilTimeout
<1>1. CallInv => OwnUntilTimeout
  BY DEF CallInv
<1> QED BY <1>1, CallInvariant, PTL
-----------------------------------------------------------------------------
\* The numbers of the server's type invariant, apart from what is true or false of it.
Counts == made \in 0 .. MaxInit /\ listening \in 0 .. made

LEMMA LifecycleInit == Server!Init => Server!LifecycleInv
<1>1. Server!Init => Counts
  BY InitAssumption DEF Server!Init, Counts
<1> QED BY <1>1, Zenon DEF Server!Init, Server!LifecycleInv, Server!TypeOK, Counts

LEMMA LifecycleNext == Server!LifecycleInv /\ [Server!Next]_serverVars => Server!LifecycleInv'
<1> SUFFICES ASSUME Server!LifecycleInv, [Server!Next]_serverVars PROVE Server!LifecycleInv'
  OBVIOUS
<1>c. Counts'
  <2>1. Counts
    BY DEF Server!LifecycleInv, Server!TypeOK, Counts
  <2> QED BY <2>1, InitAssumption DEF Counts, serverVars, Server!Next, Server!MainStep,
    Server!InitAgain, Server!InitNoStartup, Server!InitNoService, Server!InitDone,
    Server!Listen, Server!ListenFails, Server!ListenDone, Server!Serve,
    Server!ServeEnd, Server!Destroy, Server!Sigint
<1> USE <1>c DEF Server!LifecycleInv, Server!TypeOK, Counts
<1>1. CASE Server!InitAgain BY <1>1, Zenon DEF Server!InitAgain
<1>2. CASE Server!InitNoStartup BY <1>2, Zenon DEF Server!InitNoStartup
<1>3. CASE Server!InitNoService BY <1>3, Zenon DEF Server!InitNoService
<1>4. CASE Server!InitDone BY <1>4, Zenon DEF Server!InitDone
<1>5. CASE Server!Listen BY <1>5, Zenon DEF Server!Listen
<1>6. CASE Server!ListenFails BY <1>6, Zenon DEF Server!ListenFails
<1>7. CASE Server!ListenDone BY <1>7, Zenon DEF Server!ListenDone
<1>8. CASE Server!Serve BY <1>8, Zenon DEF Server!Serve
<1>9. CASE Server!ServeEnd BY <1>9, Zenon DEF Server!ServeEnd
<1>10. CASE Server!Destroy BY <1>10, Zenon DEF Server!Destroy
<1>11. CASE Server!Sigint BY <1>11, Zenon DEF Server!Sigint
<1>12. CASE UNCHANGED serverVars BY <1>12, Zenon DEF serverVars
<1> QED
  BY <1>1, <1>2, <1>3, <1>4, <1>5, <1>6, <1>7, <1>8, <1>9, <1>10, <1>11, <1>12, Zenon
  DEF Server!Next, Server!MainStep

\* After any calls of Init(), Listen(), Serve() and Destroy(), any of which failed, with
\* SIGINT anywhere between them, stop_ is unset only over a service that listens
\* (rpc_server.cpp:18-91).
THEOREM LifecycleInvariant == Server!Spec => []Server!LifecycleInv
<1>1. [Server!Next]_Server!vars => [Server!Next]_serverVars
  BY DEF Server!vars, serverVars
<1> QED BY <1>1, LifecycleInit, LifecycleNext, PTL DEF Server!Spec

\* The loop of Serve() runs on a service that is up and listens.
THEOREM ServesOnlyUp == Server!Spec => []ServesWhileUp
<1>1. Server!LifecycleInv => ServesWhileUp
  BY Zenon DEF Server!LifecycleInv, Server!TypeOK, ServesWhileUp, Server!ServesWhileUp
<1> QED BY <1>1, LifecycleInvariant, PTL
-----------------------------------------------------------------------------
\* The children change under the watch, or stay as they are.
LEMMA ChildrenStep ==
    ASSUME RegistryTypeOK, NEW own \in [Servers -> Nat], ChildrenBecome(own)
    PROVE  /\ owner' = own /\ event' \in BOOLEAN /\ watch' \in BOOLEAN
           /\ event => event'
           /\ watch => event' \/ (watch' /\ Children' = Children)
<1>1. owner' = own /\ Children' = { s \in Servers : own[s] # 0 }
  BY DEF ChildrenBecome, Children
<1>2. event' = (event \/ (Children' # Children /\ watch)) /\ watch' = (watch /\ ~(Children' # Children))
  BY <1>1 DEF ChildrenBecome
<1>3. event \in BOOLEAN /\ watch \in BOOLEAN
  BY Zenon DEF RegistryTypeOK
<1> QED BY <1>1, <1>2, <1>3, Zenon

\* The sessions: their numbers, and that a live one is not 0.
LEMMA SessionNumbers ==
    ASSUME RegistryTypeOK
    PROVE  /\ opened \in Nat /\ live \subseteq Nat /\ 0 \notin live /\ opened + 1 \notin live
           /\ \A p \in Processes : session[p] \in Nat /\ session[p] # opened + 1
           /\ \A s \in Servers : owner[s] \in Nat /\ s \in Processes
           /\ Client \in Processes
<1>1. opened \in Nat
  BY ProcessAssumption DEF RegistryTypeOK
<1>2. live \subseteq Nat /\ 0 \notin live /\ opened + 1 \notin live
  BY <1>1 DEF RegistryTypeOK
<1>3. \A p \in Processes : session[p] \in Nat /\ session[p] # opened + 1
  BY <1>1 DEF RegistryTypeOK
<1>4. \A s \in Servers : owner[s] \in Nat
  <2>1. \A s \in Servers : owner[s] \in live \cup {0}
    BY DEF RegistryTypeOK
  <2>2. live \cup {0} \subseteq Nat
    BY <1>2
  <2> QED BY <2>1, <2>2
<1> QED BY <1>1, <1>2, <1>3, <1>4 DEF Processes

LEMMA RegistryStart == RegistryInit => RegistryInv
<1> SUFFICES ASSUME RegistryInit PROVE RegistryInv
  OBVIOUS
<1> USE DEF RegistryInit
<1>1. RegistryTypeOK
  <2>1. /\ parent \in BOOLEAN /\ handler \in BOOLEAN /\ watch \in BOOLEAN
        /\ event \in BOOLEAN /\ lapse \in BOOLEAN /\ early \in BOOLEAN
    BY Zenon
  <2>2. live \subseteq 1 .. opened /\ opened \in 0 .. MaxSession
    BY ProcessAssumption
  <2> QED BY <2>1, <2>2 DEF RegistryTypeOK
<1>2. SessionInv
  BY ProcessAssumption DEF SessionInv, Connected, Processes
<1>3. WatchInv
  BY DEF WatchInv, Newest
<1> QED BY <1>1, <1>2, <1>3 DEF RegistryInv
-----------------------------------------------------------------------------
\* A process opens a session: what is kept, for a process that was not connected.
LEMMA ConnectStep ==
    ASSUME RegistryTypeOK, NEW p \in Processes, connect(p)
    PROVE  /\ opened' \in 0 .. MaxSession /\ live \subseteq live' /\ live' \subseteq 1 .. opened'
           /\ session' \in [Processes -> 0 .. opened']
           /\ session' = [session EXCEPT ![p] = opened + 1]
<1>1. opened \in Nat /\ opened < MaxSession /\ MaxSession \in Nat
  BY ProcessAssumption DEF RegistryTypeOK, connect
<1>2. /\ opened' = opened + 1 /\ live' = live \cup {opened + 1}
      /\ session' = [session EXCEPT ![p] = opened + 1]
  BY DEF connect
<1>3. 0 .. opened \subseteq 0 .. opened'
  BY <1>1, <1>2
<1> QED BY <1>1, <1>2, <1>3 DEF RegistryTypeOK

\* A step in which p has a new session, and which leaves the nodes alone.
LEMMA FreshSession ==
    ASSUME RegistryInv, NEW p \in Processes, connect(p), ~Connected(p),
           UNCHANGED <<owner, server, lapse, excused>>
    PROVE  SessionInv'
<1>1. /\ opened + 1 \notin live
      /\ \A q \in Processes : session[q] # opened + 1
      /\ 0 \notin live /\ Client \in Processes /\ \A s \in Servers : s \in Processes
  BY SessionNumbers DEF RegistryInv
<1>2. /\ live' = live \cup {opened + 1} /\ session' = [session EXCEPT ![p] = opened + 1]
      /\ DOMAIN session = Processes
  BY DEF connect, RegistryInv, RegistryTypeOK
<1>3. \A q, r \in Processes : session'[q] = session'[r] /\ session'[q] # 0 => q = r
  BY <1>1, <1>2 DEF RegistryInv, SessionInv
<1>5. ASSUME NEW s \in Servers, server'[s] = "registered", s \notin excused'
      PROVE  owner'[s] = session'[s] /\ Connected(s)'
  <2>1. server[s] = "registered" /\ s \notin excused
    BY <1>5
  <2>2. s # p /\ owner[s] = session[s] /\ Connected(s)
    BY <2>1 DEF RegistryInv, SessionInv
  <2> QED BY <1>1, <1>2, <2>2 DEF Connected
<1>6. lapse' \/ Connected(Client)'
  BY <1>1, <1>2 DEF RegistryInv, SessionInv, Connected
<1> QED BY <1>3, <1>5, <1>6 DEF SessionInv
-----------------------------------------------------------------------------
\* create_node() keeps the types and covers the change.
LEMMA CreateStep ==
    ASSUME RegistryTypeOK, NEW s \in Servers, create_node(s)
    PROVE  /\ owner' = [owner EXCEPT ![s] = session[s]] /\ owner' \in [Servers -> live \cup {0}]
           /\ Connected(s) /\ event' \in BOOLEAN /\ watch' \in BOOLEAN
           /\ event => event'
           /\ watch => event' \/ (watch' /\ Children' = Children)
<1> DEFINE own == [owner EXCEPT ![s] = session[s]]
<1>1. ChildrenBecome(own) /\ session[s] \in live
  BY DEF create_node, Connected
<1>2. own \in [Servers -> live \cup {0}] /\ live \subseteq Nat
  BY <1>1, SessionNumbers DEF RegistryTypeOK
<1>3. own \in [Servers -> Nat]
  <2>1. live \cup {0} \subseteq Nat
    BY <1>2
  <2> QED BY <1>2, <2>1, Zenon
<1> HIDE DEF own
<1>4. /\ owner' = own /\ event' \in BOOLEAN /\ watch' \in BOOLEAN
      /\ event => event'
      /\ watch => event' \/ (watch' /\ Children' = Children)
  BY <1>1, <1>3, ChildrenStep
<1>5. owner' = [owner EXCEPT ![s] = session[s]]
  BY <1>4 DEF own
<1>6. owner' \in [Servers -> live \cup {0}]
  BY <1>2, <1>4
<1>7. Connected(s)
  BY DEF create_node
<1> QED BY <1>4, <1>5, <1>6, <1>7

\* The nodes of a session z that ends.
LEMMA EndStep ==
    ASSUME RegistryTypeOK, NEW z,
           ChildrenBecome([x \in Servers |-> IF owner[x] = z THEN 0 ELSE owner[x]])
    PROVE  /\ owner' = [x \in Servers |-> IF owner[x] = z THEN 0 ELSE owner[x]]
           /\ owner' \in [Servers -> (live \ {z}) \cup {0}]
           /\ event' \in BOOLEAN /\ watch' \in BOOLEAN
           /\ event => event'
           /\ watch => event' \/ (watch' /\ Children' = Children)
<1> DEFINE own == [x \in Servers |-> IF owner[x] = z THEN 0 ELSE owner[x]]
<1>1. own \in [Servers -> (live \ {z}) \cup {0}]
  BY DEF RegistryTypeOK
<1>2. own \in [Servers -> Nat]
  BY SessionNumbers
<1>3. ChildrenBecome(own)
  OBVIOUS
<1> HIDE DEF own
<1>4. /\ owner' = own /\ event' \in BOOLEAN /\ watch' \in BOOLEAN
      /\ event => event'
      /\ watch => event' \/ (watch' /\ Children' = Children)
  BY <1>2, <1>3, ChildrenStep
<1>5. owner' = [x \in Servers |-> IF owner[x] = z THEN 0 ELSE owner[x]]
  BY <1>4 DEF own
<1>6. owner' \in [Servers -> (live \ {z}) \cup {0}]
  BY <1>1, <1>4
<1> QED BY <1>4, <1>5, <1>6

\* The type of every variable.
LEMMA RegistryTypeStep == RegistryInv /\ [RegistryNext]_registryVars => RegistryTypeOK'
<1> SUFFICES ASSUME RegistryInv, [RegistryNext]_registryVars PROVE RegistryTypeOK'
  OBVIOUS
<1>0. RegistryTypeOK /\ Client \in Processes /\ \A s \in Servers : s \in Processes
  BY SessionNumbers DEF RegistryInv
<1>c. Children \subseteq Servers
  BY DEF Children
<1> USE DEF zk, client
<1>1. ASSUME NEW s \in Servers, Start(s) PROVE RegistryTypeOK'
  <2>1. connect(s) /\ UNCHANGED <<parent, owner, watch, event, client>>
    BY <1>1 DEF Start
  <2>2. owner' \in [Servers -> live' \cup {0}]
    BY <1>0, <2>1, ConnectStep, Zenon DEF RegistryTypeOK
  <2>3. server' \in [Servers -> {"down", "listening", "parent", "registered", "unregistered"}]
    BY <1>0, <1>1 DEF RegistryTypeOK, Start
  <2> QED BY <1>0, <1>1, <2>1, <2>2, <2>3, ConnectStep DEF RegistryTypeOK, Start
<1>2. ASSUME NEW s \in Servers, RegisterParent(s) PROVE RegistryTypeOK'
  BY <1>0, <1>2 DEF RegistryTypeOK, RegisterParent
<1>3. ASSUME NEW s \in Servers, RegisterAddress(s) PROVE RegistryTypeOK'
  <2>1. owner' \in [Servers -> live \cup {0}] /\ watch' \in BOOLEAN /\ event' \in BOOLEAN
    BY <1>0, <1>3, CreateStep DEF RegistryTypeOK, RegisterAddress
  <2> QED BY <1>0, <1>3, <2>1, Zenon DEF RegistryTypeOK, RegisterAddress
<1>4. ASSUME NEW s \in Servers, RegisterFails(s) PROVE RegistryTypeOK'
  <2>1. owner' \in [Servers -> live \cup {0}] /\ watch' \in BOOLEAN /\ event' \in BOOLEAN
    BY <1>0, <1>4, CreateStep DEF RegistryTypeOK, RegisterFails
  <2>2. parent' \in BOOLEAN
    BY <1>0, <1>4, Zenon DEF RegistryTypeOK, RegisterFails
  <2> QED BY <1>0, <1>4, <2>1, <2>2, Zenon DEF RegistryTypeOK, RegisterFails
<1>5. ASSUME NEW s \in Servers, Exit(s) PROVE RegistryTypeOK'
  <2>1. owner' \in [Servers -> live' \cup {0}] /\ watch' \in BOOLEAN /\ event' \in BOOLEAN
    BY <1>0, <1>5, EndStep DEF Exit
  <2>2. session' \in [Processes -> 0 .. opened]
    BY <1>0, <1>5, SessionNumbers DEF RegistryTypeOK, Exit
  <2> QED BY <1>0, <1>5, <2>1, <2>2, Zenon DEF RegistryTypeOK, Exit
<1>6. ASSUME NEW s \in Servers, Crash(s) PROVE RegistryTypeOK'
  <2>1. session' \in [Processes -> 0 .. opened]
    BY <1>0, <1>6, SessionNumbers DEF RegistryTypeOK, Crash
  <2> QED BY <1>0, <1>6, <2>1 DEF RegistryTypeOK, Crash
<1>7. ASSUME NEW s \in Servers, ServerReconnect(s) PROVE RegistryTypeOK'
  <2>1. connect(s) /\ UNCHANGED <<parent, owner, watch, event, server, client, excused>>
    BY <1>7 DEF ServerReconnect, on_session_expired
  <2>2. owner' \in [Servers -> live' \cup {0}]
    BY <1>0, <2>1, ConnectStep, Zenon DEF RegistryTypeOK
  <2> QED BY <1>0, <2>1, <2>2, ConnectStep DEF RegistryTypeOK
<1>8. CASE CallHandler
  BY <1>0, <1>8 DEF RegistryTypeOK, CallHandler
<1>9. ASSUME NEW z \in Sessions, Expire(z) PROVE RegistryTypeOK'
  <2>1. owner' \in [Servers -> live' \cup {0}] /\ watch' \in BOOLEAN /\ event' \in BOOLEAN
    <3>1. CASE z = session[Client]
      BY <1>0, <1>9, <3>1, Zenon DEF RegistryTypeOK, Expire
    <3>2. CASE z # session[Client]
      BY <1>0, <1>9, <3>2, EndStep DEF Expire
    <3> QED BY <3>1, <3>2
  <2>2. lapse' \in BOOLEAN
    BY <1>0, <1>9, Zenon DEF RegistryTypeOK, Expire
  <2> QED BY <1>0, <1>9, <2>1, <2>2 DEF RegistryTypeOK, Expire
<1>10. CASE ClientReconnect
  <2>1. connect(Client) /\ UNCHANGED <<parent, owner, event, server, services, initPc, children,
                                       reading, told, lapse, early, excused>>
    BY <1>10 DEF ClientReconnect, on_session_expired
  <2>2. owner' \in [Servers -> live' \cup {0}]
    BY <1>0, <2>1, ConnectStep, Zenon DEF RegistryTypeOK
  <2>3. watch' \in BOOLEAN /\ handler' \in BOOLEAN
    BY <1>0, <1>10, Zenon DEF RegistryTypeOK, ClientReconnect
  <2> QED BY <1>0, <2>1, <2>2, <2>3, ConnectStep DEF RegistryTypeOK
<1>11. CASE OnChildEvent
  BY <1>0, <1>c, <1>11, Zenon DEF RegistryTypeOK, OnChildEvent
<1>12. CASE OnChildEventLost
  <2>1. lapse' \in BOOLEAN /\ early' \in BOOLEAN
    BY <1>0, <1>12, Zenon DEF RegistryTypeOK, OnChildEventLost
  <2> QED BY <1>0, <1>12, <2>1, Zenon DEF RegistryTypeOK, OnChildEventLost
<1>13. CASE InitServices
  BY <1>0, <1>c, <1>13 DEF RegistryTypeOK, InitServices
<1>14. CASE WatchChildren
  BY <1>0, <1>c, <1>14 DEF RegistryTypeOK, WatchChildren
<1>15. CASE WatchFails
  BY <1>0, <1>15 DEF RegistryTypeOK, WatchFails
<1>16. CASE AddHandler
  BY <1>0, <1>16 DEF RegistryTypeOK, AddHandler
<1>17. CASE StoreChildren
  BY <1>0, <1>17 DEF RegistryTypeOK, StoreChildren
<1>18. CASE UNCHANGED registryVars
  BY <1>0, <1>18 DEF RegistryTypeOK, registryVars
<1> QED BY <1>1, <1>2, <1>3, <1>4, <1>5, <1>6, <1>7, <1>8, <1>9, <1>10, <1>11, <1>12, <1>13,
           <1>14, <1>15, <1>16, <1>17, <1>18 DEF RegistryNext, ServerStep
-----------------------------------------------------------------------------
\* A session belongs to one process, and a server that is not excused keeps its node.
LEMMA SessionStep == RegistryInv /\ [RegistryNext]_registryVars => SessionInv'
<1> SUFFICES ASSUME RegistryInv, [RegistryNext]_registryVars PROVE SessionInv'
  OBVIOUS
<1>0. RegistryTypeOK /\ SessionInv
  BY DEF RegistryInv
<1>s. /\ 0 \notin live /\ Client \in Processes /\ Client \notin Servers
      /\ \A s \in Servers : s \in Processes
      /\ session \in [Processes -> Nat] /\ DOMAIN server = Servers /\ DOMAIN owner = Servers
  BY <1>0, SessionNumbers, ProcessAssumption DEF RegistryTypeOK
<1> USE DEF zk, client
<1>1. ASSUME NEW s \in Servers, Start(s) PROVE SessionInv'
  <2>1. connect(s) /\ UNCHANGED <<owner, lapse>> /\ excused' = excused \ {s}
    BY <1>1 DEF Start
  <2>2. server'[s] = "listening" /\ \A x \in Servers : x # s => server'[x] = server[x]
    BY <1>1, <1>s DEF Start
  <2>3. \A p, q \in Processes : session'[p] = session'[q] /\ session'[p] # 0 => p = q
    <3>1. session' = [session EXCEPT ![s] = opened + 1] /\ \A p \in Processes : session[p] # opened + 1
      BY <1>0, <1>s, <2>1, SessionNumbers DEF connect
    <3> QED BY <1>0, <1>s, <3>1 DEF SessionInv
  <2>4. live \subseteq live' /\ session' = [session EXCEPT ![s] = opened + 1]
    BY <1>0, <1>s, <2>1, ConnectStep
  <2>5. \A x \in Servers : server'[x] = "registered" /\ x \notin excused' =>
                             owner'[x] = session'[x] /\ Connected(x)'
    BY <1>0, <1>s, <2>1, <2>2, <2>4 DEF SessionInv, Connected
  <2>6. lapse' \/ Connected(Client)'
    BY <1>0, <1>s, <2>1, <2>4 DEF SessionInv, Connected
  <2> QED BY <2>3, <2>5, <2>6 DEF SessionInv
<1>2. ASSUME NEW s \in Servers, RegisterParent(s) PROVE SessionInv'
  BY <1>0, <1>s, <1>2 DEF SessionInv, Connected, RegisterParent
<1>3. ASSUME NEW s \in Servers, RegisterAddress(s) PROVE SessionInv'
  <2>1. /\ UNCHANGED <<session, live, lapse>> /\ Connected(s)
        /\ server' = [server EXCEPT ![s] = "registered"] /\ excused \subseteq excused'
        /\ s \notin excused' => owner[s] \in {0, session[s]}
    BY <1>3 DEF RegisterAddress
  <2>2. \/ owner' = [owner EXCEPT ![s] = session[s]]
        \/ owner[s] # 0 /\ owner' = owner
    BY <1>0, <1>3, CreateStep DEF RegisterAddress
  <2>3. \A x \in Servers : x # s => owner'[x] = owner[x] /\ server'[x] = server[x]
    BY <1>s, <2>1, <2>2
  <2>4. s \notin excused' => owner'[s] = session[s]
    BY <1>s, <2>1, <2>2
  <2> QED BY <1>0, <1>s, <2>1, <2>3, <2>4 DEF SessionInv, Connected
<1>4. ASSUME NEW s \in Servers, RegisterFails(s) PROVE SessionInv'
  <2>1. /\ UNCHANGED <<session, live, lapse, excused>>
        /\ server' = [server EXCEPT ![s] = "unregistered"]
    BY <1>4 DEF RegisterFails
  <2>2. owner' = [owner EXCEPT ![s] = session[s]] \/ owner' = owner
    BY <1>0, <1>4, CreateStep DEF RegisterFails
  <2>3. \A x \in Servers : x # s => owner'[x] = owner[x] /\ server'[x] = server[x]
    BY <1>s, <2>1, <2>2
  <2> QED BY <1>0, <1>s, <2>1, <2>3 DEF SessionInv, Connected
<1>5. ASSUME NEW s \in Servers, Exit(s) PROVE SessionInv'
  <2>1. /\ live' = live \ {session[s]} /\ session' = [session EXCEPT ![s] = 0]
        /\ server' = [server EXCEPT ![s] = "down"] /\ UNCHANGED <<lapse, excused>>
        /\ owner' = [x \in Servers |-> IF owner[x] = session[s] THEN 0 ELSE owner[x]]
    BY <1>0, <1>5, EndStep DEF Exit
  <2>2. \A p \in Processes : p # s /\ session[p] \in live => session[p] \in live' /\ session'[p] = session[p]
    BY <1>0, <1>s, <2>1 DEF SessionInv
  <2>3. \A x \in Servers : server'[x] = "registered" /\ x \notin excused' =>
                             owner'[x] = session'[x] /\ Connected(x)'
    <3> SUFFICES ASSUME NEW x \in Servers, server'[x] = "registered", x \notin excused'
                 PROVE  owner'[x] = session'[x] /\ Connected(x)'
      OBVIOUS
    <3>1. x # s /\ server[x] = "registered" /\ owner[x] = session[x] /\ session[x] \in live
      BY <1>0, <1>s, <2>1 DEF SessionInv, Connected
    <3>2. session[x] # session[s]
      BY <1>0, <1>s, <3>1 DEF SessionInv
    <3> QED BY <1>s, <2>1, <2>2, <3>1, <3>2 DEF Connected
  <2>4. lapse' \/ Connected(Client)'
    BY <1>0, <1>s, <2>1, <2>2 DEF SessionInv, Connected
  <2>5. \A p, q \in Processes : session'[p] = session'[q] /\ session'[p] # 0 => p = q
    BY <1>0, <1>s, <2>1 DEF SessionInv
  <2> QED BY <2>3, <2>4, <2>5 DEF SessionInv
<1>6. ASSUME NEW s \in Servers, Crash(s) PROVE SessionInv'
  BY <1>0, <1>s, <1>6 DEF SessionInv, Connected, Crash
<1>7. ASSUME NEW s \in Servers, ServerReconnect(s) PROVE SessionInv'
  BY <1>s, <1>7, FreshSession DEF ServerReconnect, on_session_expired
<1>8. ASSUME NEW z \in Sessions, Expire(z) PROVE SessionInv'
  <2>1. /\ live' = live \ {z} /\ UNCHANGED <<session, server>>
        /\ excused' = excused \cup { x \in Servers : session[x] = z }
        /\ lapse' = (lapse \/ z = session[Client])
    BY <1>8 DEF Expire
  <2>2. owner' = [x \in Servers |-> IF owner[x] = z THEN 0 ELSE owner[x]]
    BY <1>0, <1>8, EndStep DEF Expire
  <2> QED BY <1>0, <1>s, <2>1, <2>2, Zenon DEF SessionInv, Connected
<1>9. CASE ClientReconnect
  BY <1>s, <1>9, FreshSession DEF ClientReconnect, on_session_expired
<1>10. CASE OnChildEventLost
  <2>1. UNCHANGED <<session, live, owner, server, excused>> /\ lapse' = (lapse \/ handler)
    BY <1>10 DEF OnChildEventLost
  <2> QED BY <1>0, <2>1, Zenon DEF SessionInv, Connected
<1>11. CASE UNCHANGED <<session, live, owner, server, excused, lapse>>
  BY <1>0, <1>11 DEF SessionInv, Connected
<1> QED BY <1>1, <1>2, <1>3, <1>4, <1>5, <1>6, <1>7, <1>8, <1>9, <1>10, <1>11
        DEF RegistryNext, ServerStep, registryVars, OnChildEvent, CallHandler, InitServices,
            WatchChildren, WatchFails, AddHandler, StoreChildren
-----------------------------------------------------------------------------
\* A step of another process, whose change of the children the watch covers.
LEMMA CoveredStep ==
    ASSUME WatchInv, UNCHANGED <<services, initPc, children, handler, reading, told, lapse, early>>,
           event => event', watch => event' \/ (watch' /\ Children' = Children)
    PROVE  WatchInv'
BY Zenon DEF WatchInv, Newest

\* The watch, the event and the handler work together.
LEMMA WatchStep == RegistryInv /\ [RegistryNext]_registryVars => WatchInv'
<1> SUFFICES ASSUME RegistryInv, [RegistryNext]_registryVars PROVE WatchInv'
  OBVIOUS
<1>0. RegistryTypeOK /\ SessionInv /\ WatchInv
  BY DEF RegistryInv
<1>1. ASSUME NEW s \in Servers,
             Start(s) \/ RegisterParent(s) \/ Crash(s) \/ ServerReconnect(s)
      PROVE  WatchInv'
  <2>1. UNCHANGED <<owner, watch, event, services, initPc, children, handler, reading, told, lapse, early>>
    BY <1>1 DEF Start, RegisterParent, Crash, ServerReconnect, zk, client
  <2> QED BY <1>0, <2>1, CoveredStep DEF Children
<1>2. ASSUME NEW s \in Servers, RegisterAddress(s) \/ RegisterFails(s) PROVE WatchInv'
  <2>1. UNCHANGED <<services, initPc, children, handler, reading, told, lapse, early>>
    BY <1>2, Zenon DEF RegisterAddress, RegisterFails, client
  <2>2. create_node(s) \/ UNCHANGED <<owner, watch, event>>
    BY <1>2 DEF RegisterAddress, RegisterFails
  <2>3. CASE create_node(s)
    BY <1>0, <2>1, <2>3, CreateStep, CoveredStep
  <2>4. CASE UNCHANGED <<owner, watch, event>>
    BY <1>0, <2>1, <2>4, CoveredStep DEF Children
  <2> QED BY <2>2, <2>3, <2>4
<1>3. ASSUME NEW s \in Servers, Exit(s) PROVE WatchInv'
  <2>1. UNCHANGED <<services, initPc, children, handler, reading, told, lapse, early>>
    BY <1>3 DEF Exit, client
  <2>2. ChildrenBecome([x \in Servers |-> IF owner[x] = session[s] THEN 0 ELSE owner[x]])
    BY <1>3 DEF Exit
  <2>3. (event => event') /\ (watch => event' \/ (watch' /\ Children' = Children))
    BY <1>0, <2>2, EndStep
  <2> QED BY <1>0, <2>1, <2>3, CoveredStep
<1>4. ASSUME NEW z \in Sessions, Expire(z) PROVE WatchInv'
  <2>1. UNCHANGED <<services, initPc, children, handler, reading, told, early>>
    BY <1>4 DEF Expire
  <2>2. CASE z = session[Client]
    <3>1. lapse'
      BY <1>4, <2>2, Zenon DEF Expire
    <3> QED BY <1>0, <2>1, <3>1 DEF WatchInv
  <2>3. CASE z # session[Client]
    <3>1. UNCHANGED lapse
      BY <1>0, <1>4, <2>3, Zenon DEF Expire, RegistryTypeOK
    <3>2. ChildrenBecome([x \in Servers |-> IF owner[x] = z THEN 0 ELSE owner[x]])
      BY <1>4, <2>3 DEF Expire
    <3>3. (event => event') /\ (watch => event' \/ (watch' /\ Children' = Children))
      BY <1>0, <3>2, EndStep
    <3> QED BY <1>0, <2>1, <3>1, <3>3, CoveredStep
  <2> QED BY <2>2, <2>3
<1>5. CASE ClientReconnect
  <2>1. /\ UNCHANGED <<services, initPc, children, reading, told, lapse, early>>
        /\ handler' => handler
    BY <1>5 DEF ClientReconnect
  <2>2. lapse
    BY <1>0, <1>5, Zenon DEF SessionInv, ClientReconnect, on_session_expired
  <2> QED BY <1>0, <2>1, <2>2 DEF WatchInv
<1>6. CASE OnChildEvent
  <2>1. UNCHANGED <<owner, services, initPc, children, handler, lapse, early>>
    BY <1>6 DEF OnChildEvent
  <2>2. handler /\ watch' /\ reading' = Children /\ Children' = Children
    BY <1>6 DEF OnChildEvent, Children
  <2>3. Newest(children)' = Children
    BY <2>2, UnknownAssumption DEF Newest, Children
  <2>4. services # Unknown /\ initPc \notin {"watch", "handler"}
    BY <1>0, <2>2 DEF WatchInv
  <2> QED BY <1>0, <2>1, <2>2, <2>3, <2>4 DEF WatchInv
<1>7. CASE CallHandler
  <2>1. UNCHANGED <<owner, watch, event, services, initPc, children, handler, lapse, early>>
    BY <1>7 DEF CallHandler, zk
  <2>2. reading # Unknown /\ told' = reading /\ reading' = Unknown
    BY <1>7 DEF CallHandler
  <2>3. Newest(children)' = Newest(children) /\ Children' = Children
    BY <2>1, <2>2 DEF Newest, Children
  <2>4. services # Unknown /\ initPc \notin {"watch", "handler"}
    BY <1>0, <2>2 DEF WatchInv
  <2> QED BY <1>0, <2>1, <2>3, <2>4 DEF WatchInv
<1>8. CASE OnChildEventLost
  <2>1. /\ UNCHANGED <<services, initPc, children, handler, reading, told>>
        /\ lapse' \/ early'
    BY <1>8, Zenon DEF OnChildEventLost
  <2> QED BY <1>0, <2>1 DEF WatchInv
<1>9. CASE InitServices
  <2>1. /\ services = Unknown /\ services' = Children /\ initPc = "idle" /\ initPc' = "watch"
        /\ UNCHANGED <<handler, reading, told>>
    BY <1>9 DEF InitServices
  <2>2. Children # Unknown
    BY UnknownAssumption DEF Children
  <2>3. ~handler /\ reading = Unknown /\ told = Unknown
    BY <1>0, <2>1 DEF WatchInv
  <2> QED BY <2>1, <2>2, <2>3 DEF WatchInv
<1>10. CASE WatchChildren
  <2>1. /\ initPc = "watch" /\ initPc' = "handler" /\ children' = Children /\ watch'
        /\ Children' = Children /\ UNCHANGED <<services, handler, reading, told>>
    BY <1>10 DEF WatchChildren, Children
  <2>2. ~handler /\ services # Unknown /\ reading = Unknown /\ told = Unknown
    BY <1>0, <2>1 DEF WatchInv
  <2> QED BY <2>1, <2>2 DEF WatchInv, Newest
<1>11. CASE WatchFails
  <2>1. initPc = "watch" /\ initPc' = "idle" /\ UNCHANGED <<services, handler>>
    BY <1>11 DEF WatchFails
  <2> QED BY <1>0, <2>1 DEF WatchInv
<1>12. CASE AddHandler
  <2>1. /\ initPc = "handler" /\ initPc' = "store"
        /\ UNCHANGED <<owner, watch, event, services, children, reading, told, lapse, early>>
    BY <1>12 DEF AddHandler, zk
  <2>2. Children' = Children /\ Newest(children)' = Newest(children)
    BY <2>1 DEF Children, Newest
  <2> QED BY <1>0, <2>1, <2>2 DEF WatchInv
<1>13. CASE StoreChildren
  <2>1. /\ initPc = "store" /\ initPc' = "idle" /\ services' = children
        /\ UNCHANGED <<owner, watch, event, children, handler, reading, told, lapse, early>>
    BY <1>13 DEF StoreChildren, zk
  <2>2. Children' = Children /\ Newest(children)' = Newest(children)
    BY <2>1 DEF Children, Newest
  <2>3. children # Unknown
    BY <1>0, UnknownAssumption DEF RegistryTypeOK
  <2> QED BY <1>0, <2>1, <2>2, <2>3 DEF WatchInv
<1>14. CASE UNCHANGED registryVars
  <2>1. UNCHANGED <<owner, watch, event, services, initPc, children, handler, reading, told, lapse, early>>
    BY <1>14 DEF registryVars
  <2> QED BY <1>0, <2>1, CoveredStep DEF Children
<1> QED BY <1>1, <1>2, <1>3, <1>4, <1>5, <1>6, <1>7, <1>8, <1>9, <1>10, <1>11, <1>12, <1>13,
           <1>14 DEF RegistryNext, ServerStep

-----------------------------------------------------------------------------
\* RegistryInv holds of RpcRegistry over zk_cpp with any number of servers and sessions.
THEOREM RegistryInvariant == RegistrySpec => []RegistryInv
<1>1. RegistryInv /\ [RegistryNext]_registryVars => RegistryInv'
  BY RegistryTypeStep, SessionStep, WatchStep DEF RegistryInv
<1> QED BY RegistryStart, <1>1, PTL DEF RegistrySpec

\* A server that RegisterService() told it is registered is listed, unless its session
\* ended or the node it found belonged to an earlier session.
THEOREM RegisteredStaysListed == RegistrySpec => []RegisteredIsListed
<1>1. RegistryInv => RegisteredIsListed
  <2> SUFFICES ASSUME RegistryInv, NEW s \in Servers, server[s] = "registered", owner[s] = 0
               PROVE  s \in excused
    BY DEF RegisteredIsListed, RegistryInv
  <2>1. 0 \notin live
    BY SessionNumbers DEF RegistryInv
  <2> QED BY <2>1 DEF RegistryInv, SessionInv, Connected
<1> QED BY RegistryInvariant, <1>1, PTL

\* The program is told of every change of the children, unless the client's session ended,
\* a read of the event thread failed or an event came before watch_children_event() had
\* added the handler.
THEOREM ChangesTold == RegistrySpec => []NoChangeMissed
<1>1. RegistryInv => NoChangeMissed
  BY DEF RegistryInv, WatchInv, NoChangeMissed, Newest
<1> QED BY RegistryInvariant, <1>1, PTL
=============================================================================
