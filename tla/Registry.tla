------------------------------ MODULE Registry ------------------------------
(***************************************************************************)
(* Service discovery: RpcRegistry (rpc_registry.cpp) over the ZooKeeper    *)
(* wrapper zk_cpp (zk/zk_cpp.cpp), for one service method, the servers     *)
(* that register under it and one client process that looks it up.         *)
(*                                                                         *)
(* ZooKeeper itself is external: a persistent node, an ephemeral child per *)
(* server address that lives as long as the session that created it,       *)
(* watches that fire once, and calls that may fail.  Watch events are      *)
(* delivered by a thread of the ZooKeeper library, concurrently with the   *)
(* thread that calls RpcRegistry.                                          *)
(***************************************************************************)
EXTENDS Integers, FiniteSets

CONSTANTS Servers,      \* servers; each is known by its address
          Client,       \* the client process
          Unknown,      \* no list: svc_md is not a key of `services', for one
          MaxSession    \* bound: ZooKeeper sessions opened

ASSUME ProcessAssumption == Client \notin Servers /\ MaxSession \in Nat \ {0}
ASSUME UnknownAssumption == \A S \in SUBSET Servers : S # Unknown

VARIABLES parent,    \* the persistent node exists
          owner,     \* the session that owns the ephemeral node of each address, or 0
          live,      \* sessions that have not ended
          opened,    \* number of sessions opened so far
          session,   \* m_zh of each process: its session, or 0
          server,    \* where each server is
          services,  \* services[svc_md] of the client
          initPc,    \* where the client is in InitServices()
          children,  \* out-parameter of get_children() in watch_children_event()
          handler,   \* m_child_event_map has a handler for the node
          watch,     \* a child watch is set for the client's session
          event,     \* a child event waits for the library's thread
          reading,   \* what on_path_child_change() has read and will call the handler with,
                     \* or Unknown
          told,      \* history: the children the handler was last called with, or Unknown
          lapse,     \* history: the client's session ended or a call of its event thread failed
          early,     \* history: an event came before the handler was added
          excused    \* history: servers whose node was another session's, or went with theirs

registryVars == <<parent, owner, live, opened, session, server, services, initPc, children,
                  handler, watch, event, reading, told, lapse, early, excused>>
zk == <<parent, owner, live, opened, watch, event>>
client == <<services, initPc, children, handler, reading, told, lapse, early>>

Processes == Servers \cup {Client}
Sessions == 1 .. MaxSession
Children == { s \in Servers : owner[s] # 0 }
Connected(p) == session[p] \in live

RegistryInit == /\ parent = FALSE /\ owner = [s \in Servers |-> 0]
                /\ live = {1} /\ opened = 1
                /\ session = [p \in Processes |-> IF p = Client THEN 1 ELSE 0]
                /\ server = [s \in Servers |-> "down"]
                /\ services = Unknown /\ initPc = "idle" /\ children = {}
                /\ handler = FALSE /\ watch = FALSE /\ event = FALSE
                /\ reading = Unknown /\ told = Unknown
                /\ lapse = FALSE /\ early = FALSE /\ excused = {}

\* ZooKeeper: the children become those that own' has; a watch that is set fires.
ChildrenBecome(own) == /\ owner' = own
                       /\ LET changed == { s \in Servers : own[s] # 0 } # Children IN
                            /\ event' = (event \/ (changed /\ watch))
                            /\ watch' = (watch /\ ~changed)

\* connect(): a session is opened.
connect(p) == /\ opened < MaxSession
              /\ opened' = opened + 1 /\ live' = live \cup {opened + 1}
              /\ session' = [session EXCEPT ![p] = opened + 1]

\* The library's thread tells p that its session has expired, and p connects again.
on_session_expired(p) == session[p] # 0 /\ ~Connected(p) /\ connect(p)

\* create_node() of the ephemeral node of s, carried out by ZooKeeper.
create_node(s) == Connected(s) /\ owner[s] = 0 /\ ChildrenBecome([owner EXCEPT ![s] = session[s]])
-----------------------------------------------------------------------------
\* RpcServiceMgr::Init in a server process: Connect() opens a session.
Start(s) == /\ server[s] = "down" /\ connect(s)
            /\ server' = [server EXCEPT ![s] = "listening"]
            /\ excused' = excused \ {s}
            /\ UNCHANGED <<parent, owner, watch, event, client>>

\* RegisterService(): the persistent node; that it exists already is fine.
RegisterParent(s) == /\ server[s] = "listening" /\ Connected(s)
                     /\ parent' = TRUE
                     /\ server' = [server EXCEPT ![s] = "parent"]
                     /\ UNCHANGED <<owner, live, opened, watch, event, session, client, excused>>

\* Mutant of RegisterAddress: a failed call counts as done.
RegisterAddressAny(s) == /\ server[s] = "parent"
                         /\ \/ UNCHANGED <<owner, watch, event>>
                            \/ ChildrenBecome([owner EXCEPT ![s] = session[s]])
                         /\ server' = [server EXCEPT ![s] = "registered"]
                         /\ UNCHANGED <<parent, live, opened, session, client, excused>>

\* RegisterService(): the ephemeral node; a node of that name, whoever owns it, is fine.
RegisterAddress(s) == /\ server[s] = "parent" /\ Connected(s)
                      /\ \/ create_node(s)
                         \/ owner[s] # 0 /\ UNCHANGED <<owner, watch, event>>
                      /\ excused' = IF owner[s] \in {0, session[s]} THEN excused
                                    ELSE excused \cup {s}
                      /\ server' = [server EXCEPT ![s] = "registered"]
                      /\ UNCHANGED <<parent, live, opened, session, client>>

\* RegisterService() fails; the lost answer may be that of a call that was carried out.
\* RpcServer::AddService logs it, and the server serves.
RegisterFails(s) == /\ server[s] \in {"listening", "parent"}
                    /\ \/ UNCHANGED <<parent, owner, watch, event>>
                       \/ /\ server[s] = "listening" /\ Connected(s)
                          /\ parent' = TRUE /\ UNCHANGED <<owner, watch, event>>
                       \/ server[s] = "parent" /\ create_node(s) /\ UNCHANGED parent
                    /\ server' = [server EXCEPT ![s] = "unregistered"]
                    /\ UNCHANGED <<live, opened, session, client, excused>>

\* The process ends: in good order ~zk_cpp closes the session, in a crash it lives on.
Exit(s) == /\ server[s] # "down"
           /\ live' = live \ {session[s]}
           /\ ChildrenBecome([x \in Servers |-> IF owner[x] = session[s] THEN 0 ELSE owner[x]])
           /\ session' = [session EXCEPT ![s] = 0]
           /\ server' = [server EXCEPT ![s] = "down"]
           /\ UNCHANGED <<parent, opened, client, excused>>

Crash(s) == /\ server[s] # "down"
            /\ session' = [session EXCEPT ![s] = 0]
            /\ server' = [server EXCEPT ![s] = "down"]
            /\ UNCHANGED <<zk, client, excused>>

\* ZooKeeper ends a session it has not heard from, with its nodes and its watches.
Expire(z) == /\ z \in live
             /\ live' = live \ {z}
             /\ LET own == [s \in Servers |-> IF owner[s] = z THEN 0 ELSE owner[s]] IN
                IF z = session[Client]
                THEN owner' = own /\ watch' = FALSE /\ UNCHANGED event
                ELSE ChildrenBecome(own)
             /\ excused' = excused \cup { s \in Servers : session[s] = z }
             /\ lapse' = (lapse \/ z = session[Client])
             /\ UNCHANGED <<parent, opened, session, server, services, initPc, children, handler,
                            reading, told, early>>

\* A server's on_session_expired(): reconnect() opens a session.  It has no handlers to set
\* again, and does not create its nodes again.
ServerReconnect(s) == /\ on_session_expired(s)
                      /\ UNCHANGED <<parent, owner, watch, event, server, client, excused>>
-----------------------------------------------------------------------------
\* The client's on_session_expired(): reconnect() takes the handler out, reads the children
\* to set the watch, and puts the handler back if that worked.  One step, since nothing is
\* claimed of the client once its session has ended.
ClientReconnect == /\ reading = Unknown /\ on_session_expired(Client)
                   /\ \/ handler /\ parent /\ watch' = TRUE /\ UNCHANGED handler
                      \/ handler' = FALSE /\ UNCHANGED watch
                   /\ UNCHANGED <<parent, owner, event, server, services, initPc, children,
                                  reading, told, lapse, early, excused>>

\* Mutant of OnChildEvent: the children are read without a watch.
OnChildEventNoWatch == /\ event /\ event' = FALSE
                       /\ reading = Unknown /\ handler /\ Connected(Client)
                       /\ reading' = Children
                       /\ UNCHANGED <<parent, owner, live, opened, watch, session, server,
                                      services, initPc, children, handler, told, lapse,
                                      early, excused>>

\* on_path_child_change() finds a handler (no other thread removes it), and get_children()
\* sets the watch again.
OnChildEvent == /\ event /\ event' = FALSE
                /\ reading = Unknown /\ handler /\ Connected(Client)
                /\ watch' = TRUE /\ reading' = Children
                /\ UNCHANGED <<parent, owner, live, opened, session, server, services, initPc,
                               children, handler, told, lapse, early, excused>>

\* on_path_child_change() calls the handler, which logs the children; `services' stays as it
\* is.
CallHandler == /\ reading # Unknown
               /\ told' = reading /\ reading' = Unknown
               /\ UNCHANGED <<zk, session, server, services, initPc, children, handler, lapse,
                              early, excused>>

\* on_path_child_change() without a handler, or with a get_children() that fails.
OnChildEventLost == /\ event /\ event' = FALSE /\ reading = Unknown
                    /\ lapse' = (lapse \/ handler)
                    /\ early' = (early \/ ~handler)
                    /\ UNCHANGED <<parent, owner, live, opened, watch, session, server,
                                   services, initPc, children, handler, reading, told, excused>>

\* InitServices(): the first read; a failure leaves nothing behind.
InitServices == /\ initPc = "idle" /\ services = Unknown
                /\ parent /\ Connected(Client)
                /\ services' = Children /\ initPc' = "watch"
                /\ UNCHANGED <<zk, session, server, children, handler, reading, told, lapse,
                               early, excused>>

\* InitServices(): watch_children_event() reads the children again and sets the watch.
WatchChildren == /\ initPc = "watch" /\ Connected(Client)
                 /\ children' = Children /\ watch' = TRUE /\ initPc' = "handler"
                 /\ UNCHANGED <<parent, owner, live, opened, event, session, server, services,
                                handler, reading, told, lapse, early, excused>>

\* InitServices() fails: what was read first stays in `services', and counts from now on.
WatchFails == /\ initPc = "watch" /\ initPc' = "idle"
              /\ UNCHANGED <<zk, session, server, services, children, handler, reading, told,
                             lapse, early, excused>>

\* watch_children_event(): add_child_event_handler() puts the handler into the map, and from
\* the end of its critical section the event thread finds it.
AddHandler == /\ initPc = "handler" /\ initPc' = "store"
              /\ handler' = TRUE
              /\ UNCHANGED <<zk, session, server, services, children, reading, told, lapse,
                             early, excused>>

\* watch_children_event() stores what it had read through &services[svc_md], by now perhaps
\* after the handler was called with newer children.
StoreChildren == /\ initPc = "store" /\ initPc' = "idle"
                 /\ services' = children
                 /\ UNCHANGED <<zk, session, server, children, handler, reading, told, lapse,
                                early, excused>>

ServerStep(s) == \/ Start(s) \/ RegisterParent(s) \/ RegisterAddress(s) \/ RegisterFails(s)
                 \/ Exit(s) \/ Crash(s) \/ ServerReconnect(s)
RegistryNext == \/ \E s \in Servers : ServerStep(s)
                \/ \E z \in Sessions : Expire(z)
                \/ ClientReconnect \/ OnChildEvent \/ CallHandler \/ OnChildEventLost
                \/ InitServices \/ WatchChildren \/ WatchFails \/ AddHandler \/ StoreChildren

RegistrySpec == RegistryInit /\ [][RegistryNext]_registryVars
-----------------------------------------------------------------------------
\* Type invariant.  A node belongs to a session that lives: "the ephemeral node will auto
\* delete if the session is disconnect" (zk_cpp.h:321).
RegistryTypeOK == /\ owner \in [Servers -> live \cup {0}]
                  /\ live \subseteq 1 .. opened /\ opened \in 0 .. MaxSession
                  /\ session \in [Processes -> 0 .. opened]
                  /\ server \in [Servers -> {"down", "listening", "parent", "registered",
                                         "unregistered"}]
                  /\ services \in (SUBSET Servers) \cup {Unknown}
                  /\ initPc \in {"idle", "watch", "handler", "store"} /\ children \subseteq Servers
                  /\ parent \in BOOLEAN /\ handler \in BOOLEAN /\ watch \in BOOLEAN
                  /\ event \in BOOLEAN /\ lapse \in BOOLEAN /\ early \in BOOLEAN
                  /\ reading \in (SUBSET Servers) \cup {Unknown}
                  /\ told \in (SUBSET Servers) \cup {Unknown}
                  /\ excused \subseteq Servers

\* A server that RegisterService() (rpc_registry.cpp:13) told it is registered is listed,
\* but for two cases: its own session ended (reconnect() does not create the node again),
\* or the node it found was that of the session of an earlier run, and went with it.
RegisteredIsListed ==
    /\ RegistryTypeOK
    /\ \A s \in Servers : server[s] = "registered" /\ owner[s] = 0 => s \in excused

\* The newest list the program has or is about to get: that of the handler, which reads after
\* watch_children_event() has, and `first' before the handler is called.
Newest(first) == IF reading # Unknown THEN reading ELSE IF told # Unknown THEN told ELSE first

\* No change is missed: with the handler in place and InitServices() over, what the handler
\* was last called with (zk_cpp.cpp:491) or is about to be, or, if it never was, the list in
\* `services', is the children as they are, or an event is on its way; unless the client's
\* session ended, a read of the event thread failed, or an event came before the handler.
\* That holds also when the older list is stored after the handler got a newer one.
NoChangeMissed == handler /\ initPc = "idle" /\ ~lapse /\ ~early =>
                      Newest(services) = Children \/ event

\* What makes the two inductive.  No two processes share a session, and a registered server
\* that is not excused has its node and its session; the client's session lives unless it
\* lapsed.  A change is covered by the watch or by an event, from the read that sets the
\* watch on; and the handler is called only when it was added.
SessionInv ==
    /\ \A p, q \in Processes : session[p] = session[q] /\ session[p] # 0 => p = q
    /\ \A s \in Servers : server[s] = "registered" /\ s \notin excused =>
                           owner[s] = session[s] /\ Connected(s)
    /\ lapse \/ Connected(Client)
WatchInv ==
    /\ initPc # "idle" => services # Unknown
    /\ services = Unknown \/ initPc \in {"watch", "handler"} =>
         ~handler /\ reading = Unknown /\ told = Unknown
    /\ handler /\ initPc = "idle" => services = children
    /\ handler \/ initPc = "handler" =>
         lapse \/ early \/ event \/ (watch /\ Newest(children) = Children)
RegistryInv == RegistryTypeOK /\ SessionInv /\ WatchInv
=============================================================================
