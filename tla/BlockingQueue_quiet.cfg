SPECIFICATION FairSpec
CONSTANTS
    p1 = p1
    p2 = p2
    p3 = p3
    c1 = c1
    c2 = c2
    Consumers <- TwoConsumers
    Producers <- ThreeProducers
    Capacity = 2
    Quota = 2
    QuietClose = TRUE
INVARIANTS
    FifoDelivery
    ConsumersNotified
PROPERTIES
    AllDelivered
    ImplementsChannel
