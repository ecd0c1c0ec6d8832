SPECIFICATION ConsumerFairSpec
CONSTANTS
    ConsumedAuctions = {a1, a2}
    ConsumerFaultKinds = {"again", "wallet", "ack", "commit", "restart"}
    MaxConsumerFaults = 2
INVARIANTS RestartsBoundCredits
PROPERTIES SellersPaid
CHECK_DEADLOCK FALSE
