----------------------------- MODULE MPMCQueue -----------------------------
(***************************************************************************)
(* The multi-producer multi-consumer ring of include/mpmc_queue.h.  A      *)
(* thread draws a ticket by fetch_add, waits for its turn at the slot the  *)
(* ticket falls on, uses the slot and passes the turn on.                  *)
(*                                                                         *)
(* The wait is an action that is enabled once the turn has come: a load of *)
(* ticket_ that returns an older value only makes the loop go round again, *)
(* for the values of one slot increase and nobody but the thread whose     *)
(* turn it is stores the next one.                                         *)
(***************************************************************************)
EXTENDS Integers, Sequences

CONSTANTS Producers, Consumers,
          Capacity,   \* template parameter: number of slots
          Values,     \* the values of type T that are stored
          None,       \* no value
          MaxTicket   \* bound: tickets drawn on either side

ASSUME CapacityAssumption == Capacity \in Nat \ {0} /\ MaxTicket \in Nat
ASSUME NoneAssumption == None \notin Values
ASSUME ThreadAssumption == Producers \cap Consumers = {}

VARIABLES data,     \* data_
          ticket,   \* ticket_
          head,     \* head_: the next ticket of a consumer
          tail,     \* tail_: the next ticket of a producer
          pc,       \* where each thread is in emplace() or pop()
          mine,     \* the ticket each thread has drawn
          val,      \* the argument of emplace(), or pop()'s result
          pushed,   \* history: the value emplaced with each ticket
          popped    \* history: the value popped with each ticket

vars == <<data, ticket, head, tail, pc, mine, val, pushed, popped>>

Threads == Producers \cup Consumers
Slots == 0 .. Capacity - 1
Tickets == 0 .. MaxTicket - 1

\* Mutant of idx: the last slot is left out.
idxShort(i) == i % (Capacity - 1)

idx(i) == i % Capacity
turn(i) == i \div Capacity

Init == /\ data = [s \in Slots |-> None]
        /\ ticket = [s \in Slots |-> 0]
        /\ head = 0 /\ tail = 0
        /\ pc = [t \in Threads |-> "idle"]
        /\ mine = [t \in Threads |-> 0]
        /\ val = [t \in Threads |-> None]
        /\ pushed = [i \in Tickets |-> None]
        /\ popped = [i \in Tickets |-> None]
-----------------------------------------------------------------------------
\* emplace(v): draw a ticket.
EmplaceDraw(p, v) == /\ pc[p] = "idle" /\ tail < MaxTicket
                     /\ mine' = [mine EXCEPT ![p] = tail]
                     /\ tail' = tail + 1
                     /\ val' = [val EXCEPT ![p] = v]
                     /\ pushed' = [pushed EXCEPT ![tail] = v]
                     /\ pc' = [pc EXCEPT ![p] = "wait"]
                     /\ UNCHANGED <<data, ticket, head, popped>>

\* Mutant of EmplaceWait: no wait for the consumer of the turn before.
EmplaceNoWait(p) == /\ pc[p] = "wait"
                    /\ pc' = [pc EXCEPT ![p] = "use"]
                    /\ UNCHANGED <<data, ticket, head, tail, mine, val, pushed, popped>>

EmplaceWait(p) == /\ pc[p] = "wait"
                  /\ ticket[idx(mine[p])] = turn(mine[p]) * 2
                  /\ pc' = [pc EXCEPT ![p] = "use"]
                  /\ UNCHANGED <<data, ticket, head, tail, mine, val, pushed, popped>>

EmplaceConstruct(p) == /\ pc[p] = "use"
                       /\ data' = [data EXCEPT ![idx(mine[p])] = val[p]]
                       /\ pc' = [pc EXCEPT ![p] = "publish"]
                       /\ UNCHANGED <<ticket, head, tail, mine, val, pushed, popped>>

EmplacePublish(p) == /\ pc[p] = "publish"
                     /\ ticket' = [ticket EXCEPT ![idx(mine[p])] = turn(mine[p]) * 2 + 1]
                     /\ pc' = [pc EXCEPT ![p] = "idle"]
                     /\ UNCHANGED <<data, head, tail, mine, val, pushed, popped>>

\* pop(): draw a ticket.
PopDraw(c) == /\ pc[c] = "idle" /\ head < MaxTicket
              /\ mine' = [mine EXCEPT ![c] = head]
              /\ head' = head + 1
              /\ pc' = [pc EXCEPT ![c] = "wait"]
              /\ UNCHANGED <<data, ticket, tail, val, pushed, popped>>

PopWait(c) == /\ pc[c] = "wait"
              /\ ticket[idx(mine[c])] = turn(mine[c]) * 2 + 1
              /\ pc' = [pc EXCEPT ![c] = "use"]
              /\ UNCHANGED <<data, ticket, head, tail, mine, val, pushed, popped>>

\* The value is moved out; what is left of it stays in the slot.
PopMove(c) == /\ pc[c] = "use"
              /\ val' = [val EXCEPT ![c] = data[idx(mine[c])]]
              /\ popped' = [popped EXCEPT ![mine[c]] = data[idx(mine[c])]]
              /\ pc' = [pc EXCEPT ![c] = "publish"]
              /\ UNCHANGED <<data, ticket, head, tail, mine, pushed>>

\* Mutant of PopPublish: the slot is not handed to the next turn.
PopPublishSameTurn(c) == /\ pc[c] = "publish"
                         /\ ticket' = [ticket EXCEPT ![idx(mine[c])] = turn(mine[c]) * 2]
                         /\ pc' = [pc EXCEPT ![c] = "idle"]
                         /\ UNCHANGED <<data, head, tail, mine, val, pushed, popped>>

PopPublish(c) == /\ pc[c] = "publish"
                 /\ ticket' = [ticket EXCEPT ![idx(mine[c])] = turn(mine[c]) * 2 + 2]
                 /\ pc' = [pc EXCEPT ![c] = "idle"]
                 /\ UNCHANGED <<data, head, tail, mine, val, pushed, popped>>

EmplaceRest(p) == EmplaceWait(p) \/ EmplaceConstruct(p) \/ EmplacePublish(p)
PopRest(c) == PopWait(c) \/ PopMove(c) \/ PopPublish(c)
Next == \/ \E p \in Producers : EmplaceRest(p) \/ \E v \in Values : EmplaceDraw(p, v)
        \/ \E c \in Consumers : PopRest(c) \/ PopDraw(c)

Spec == Init /\ [][Next]_vars

\* A thread inside emplace() or pop() keeps running; none need ever call them again.
Fairness == /\ \A p \in Producers : WF_vars(EmplaceRest(p))
            /\ \A c \in Consumers : WF_vars(PopRest(c))
FairSpec == Spec /\ Fairness
-----------------------------------------------------------------------------
\* Type invariant.
TypeOK == /\ data \in [Slots -> Values \cup {None}]
          /\ ticket \in [Slots -> Nat]
          /\ head \in 0 .. MaxTicket /\ tail \in 0 .. MaxTicket
          /\ pc \in [Threads -> {"idle", "wait", "use", "publish"}]
          /\ mine \in [Threads -> Nat]
          /\ val \in [Threads -> Values \cup {None}]
          /\ pushed \in [Tickets -> Values \cup {None}]
          /\ popped \in [Tickets -> Values \cup {None}]

\* A thread that uses the slot of its ticket.
Using(t) == pc[t] \in {"use", "publish"}

\* The threads inside emplace() and those inside pop().
Inside(side) == { t \in side : pc[t] # "idle" }

\* Nobody shares a ticket of a side, and a ticket drawn by emplace() has its value.
DrawnInv ==
    /\ \A i \in Tickets : pushed[i] # None <=> i < tail
    /\ \A p \in Inside(Producers) : mine[p] < tail /\ val[p] = pushed[mine[p]]
    /\ \A c \in Inside(Consumers) : mine[c] < head
    /\ \A side \in {Producers, Consumers} : \A t, u \in Inside(side) :
          mine[t] = mine[u] => t = u

\* A thread that uses a slot does so in its turn.
TurnInv ==
    /\ \A p \in Producers : Using(p) => ticket[idx(mine[p])] = turn(mine[p]) * 2
    /\ \A c \in Consumers : Using(c) => ticket[idx(mine[c])] = turn(mine[c]) * 2 + 1

\* A slot whose turn is a consumer's holds the value of its ticket.
DataInv ==
    /\ \A p \in Producers : pc[p] = "publish" => data[idx(mine[p])] = val[p]
    /\ \A i \in Tickets : ticket[idx(i)] = turn(i) * 2 + 1 => i < tail /\ data[idx(i)] = pushed[i]
    /\ \A i \in Tickets : popped[i] # None => popped[i] = pushed[i]

\* The inductive invariant of emplace() and pop() (lines 29-55).
RingInv == TypeOK /\ DrawnInv /\ TurnInv /\ DataInv

\* The slot is never used by two threads at once: construct_at (line 39) and the move
\* (line 52) of whatever tickets fall on it exclude each other.
SlotIsExclusive == \A t, u \in Threads :
                      t # u /\ Using(t) /\ Using(u) => idx(mine[t]) # idx(mine[u])

\* The n-th pop gets the value of the n-th emplace: nothing is lost, duplicated,
\* reordered, overwritten before it is popped or popped before it is constructed.
TicketOrder == \A i \in Tickets : popped[i] # None => popped[i] = pushed[i]

\* Nobody waits in a circle: a pop returns if an emplace has drawn the same ticket, and
\* an emplace returns if a pop has drawn the ticket of one turn before.
EveryCallReturns == \A i \in Tickets :
    /\ \A c \in Consumers : (pc[c] = "wait" /\ mine[c] = i /\ tail > i) ~> pc[c] = "idle"
    /\ \A p \in Producers : (pc[p] = "wait" /\ mine[p] = i /\ head > i - Capacity) ~> pc[p] = "idle"
=============================================================================
