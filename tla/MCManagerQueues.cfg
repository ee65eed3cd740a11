\* Some callers give up while they wait; three goroutines, five changes: two
\* may race while a third drains, and the handler may re-enter.
CONSTANTS
    MaxReservations = 7
    ContextOps <- SomeContextOps
    g1 = g1
    g2 = g2
    g3 = g3
    Goroutine = {g1, g2, g3}
    MaxChanges = 5
SPECIFICATION QueuesSpec
INVARIANTS
    QueueTypeOK
    OrderUnlessCancelled
    CloseRunsLast
    DeliveryTypeOK
    SingleDrainer
    DeliveryExact
PROPERTIES
    ObservedInOrder
    QueuesDrain
    ImplementsTicketOrder
\* An idle manager may stop.
CHECK_DEADLOCK FALSE
