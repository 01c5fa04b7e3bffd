CONSTANTS
    RingCapacity = 4
    Producers = {p1, p2}
    Consumers = {c1, c2}
    Capacity = 2
    Values = {v1, v2}
    None = None
    MaxTicket = 4
SPECIFICATION QueuesSpec
INVARIANTS SpscRingInv RingInv SlotIsExclusive TicketOrder
PROPERTIES ImplementsFifo FrontIsPopped EveryCallReturns
CHECK_DEADLOCK FALSE
