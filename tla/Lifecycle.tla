----------------------------- MODULE Lifecycle -----------------------------
(***************************************************************************)
(* Starting and stopping a server process: RpcServer and RpcClient over    *)
(* RpcConnMgr and the LLBC library.  The program calls Init(), Listen()    *)
(* and Serve() in any order and as often as it likes, and does not look at *)
(* their results (as demo/echo/service/service.cpp); SIGINT comes at any   *)
(* moment.  It calls Destroy() when the server is stopped: Destroy() does  *)
(* not set stop_, and Serve() does not look at initialized_.               *)
(*                                                                         *)
(* LLBC is external: LLBC_Startup fails when it is called a second time    *)
(* without LLBC_Cleanup, and creating, starting and listening may fail.    *)
(***************************************************************************)
EXTENDS Integers

CONSTANT MaxInit   \* bound: services created

VARIABLES llbc,         \* LLBC has been started up
          initialized,  \* initialized_
          stop,         \* stop_
          handler,      \* whose SignalHandler SIGINT calls
          isServer,     \* is_server_ of RpcConnMgr
          svc,          \* svc_: "none", "made" or "running"
          made,         \* number of services created so far
          listening,    \* the service that listens on the port, or 0
          pc            \* where the main thread is

vars == <<llbc, initialized, stop, handler, isServer, svc, made, listening, pc>>

Init == /\ llbc = FALSE /\ initialized = FALSE /\ stop = TRUE
        /\ handler = "default" /\ isServer = FALSE
        /\ svc = "none" /\ made = 0 /\ listening = 0
        /\ pc = "idle"
-----------------------------------------------------------------------------
\* RpcServer::Init calls RpcClient::Init and installs its own handler, whatever came of it.
InitAgain == /\ pc = "idle" /\ initialized
             /\ handler' = "server"
             /\ UNCHANGED <<llbc, initialized, stop, isServer, svc, made, listening, pc>>

\* LLBC_Startup fails; the Destroy() that follows sees initialized_ unset and does nothing.
InitNoStartup == /\ pc = "idle" /\ ~initialized
                 /\ handler' = "server"
                 /\ UNCHANGED <<llbc, initialized, stop, isServer, svc, made, listening, pc>>

\* RpcConnMgr::Init fails, before or after it made the service; Destroy() does nothing.
InitNoService == /\ pc = "idle" /\ ~initialized /\ ~llbc /\ made < MaxInit
                 /\ llbc' = TRUE /\ made' = made + 1
                 /\ svc' \in {"none", "made"}
                 /\ handler' = "server"
                 /\ UNCHANGED <<initialized, stop, isServer, listening, pc>>

InitDone == /\ pc = "idle" /\ ~initialized /\ ~llbc /\ made < MaxInit
            /\ llbc' = TRUE /\ made' = made + 1
            /\ svc' = "running"
            /\ initialized' = TRUE /\ handler' = "server"
            /\ UNCHANGED <<stop, isServer, listening, pc>>

\* Listen(): the tests, and stop_ is cleared.
Listen == /\ pc = "idle" /\ initialized /\ stop
          /\ stop' = FALSE /\ pc' = "listen"
          /\ UNCHANGED <<llbc, initialized, handler, isServer, svc, made, listening>>

\* Mutant of ListenFails: a server that cannot listen is not stopped.
ListenFailsOpen == /\ pc = "listen" /\ pc' = "idle"
                   /\ UNCHANGED <<llbc, initialized, stop, handler, isServer, svc, made, listening>>

\* Listen(): StartRpcService fails, because it was called before or because the port cannot
\* be had; Stop().
ListenFails == /\ pc = "listen" /\ pc' = "idle"
               /\ stop' = TRUE
               /\ UNCHANGED <<llbc, initialized, handler, isServer, svc, made, listening>>

ListenDone == /\ pc = "listen" /\ ~isServer /\ pc' = "idle"
              /\ listening' = made /\ isServer' = TRUE
              /\ UNCHANGED <<llbc, initialized, stop, handler, svc, made>>

\* Serve() of a stopped server returns at once.
Serve == /\ pc = "idle" /\ ~stop
         /\ pc' = "serve"
         /\ UNCHANGED <<llbc, initialized, stop, handler, isServer, svc, made, listening>>

\* Serve(): the loop ends and Destroy() stops the service and cleans up LLBC.
ServeEnd == /\ pc = "serve" /\ stop
            /\ pc' = "idle"
            /\ svc' = "none" /\ listening' = 0
            /\ initialized' = FALSE /\ llbc' = FALSE
            /\ UNCHANGED <<stop, handler, isServer, made>>

\* Destroy() of a server that is stopped.
Destroy == /\ pc = "idle" /\ initialized /\ stop
           /\ svc' = "none" /\ listening' = 0
           /\ initialized' = FALSE /\ llbc' = FALSE
           /\ UNCHANGED <<stop, handler, isServer, made, pc>>

\* SIGINT, between any two steps of the main thread: RpcServer's handler calls Stop().
Sigint == /\ handler = "server"
          /\ stop' = TRUE
          /\ UNCHANGED <<llbc, initialized, handler, isServer, svc, made, listening, pc>>

MainStep == \/ InitAgain \/ InitNoStartup \/ InitNoService \/ InitDone
            \/ Listen \/ ListenFails \/ ListenDone \/ Serve \/ ServeEnd \/ Destroy

Next == MainStep \/ Sigint

Spec == Init /\ [][Next]_vars
-----------------------------------------------------------------------------
\* Type invariant.  initialized_ says that the service runs and LLBC is up.
TypeOK == /\ {llbc, initialized, stop, isServer} \subseteq BOOLEAN
          /\ handler \in {"default", "server"} /\ svc \in {"none", "made", "running"}
          /\ made \in 0 .. MaxInit /\ listening \in 0 .. made
          /\ pc \in {"idle", "listen", "serve"}
          /\ initialized => llbc /\ svc = "running"

\* The loop of Serve() (rpc_server.cpp:81) runs on a service that is up and listens: after
\* any calls, any of which failed, with SIGINT anywhere between them.
ServesWhileUp ==
    /\ TypeOK
    /\ pc = "serve" => initialized /\ svc = "running" /\ listening = made

\* The inductive invariant: stop_ is unset only while the service that was made last is up
\* and listens, or while Listen() is about to see to that.
LifecycleInv ==
    /\ TypeOK
    /\ pc = "listen" => initialized
    /\ pc = "serve" \/ (pc = "idle" /\ ~stop) => initialized /\ listening = made
=============================================================================
