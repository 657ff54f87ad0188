SPECIFICATION FairSpec
CONSTANTS
    Slates = {"s1", "s2"}
    Coins = {c1}
    NoCoin = NoCoin
    NoSlate = NoSlate
    Orders <- AllOrders
    MaxReplies = 2
CHECK_DEADLOCK FALSE
INVARIANTS TypeOK FinalIsRecorded EstimateIsNoSend OneOpenReceipt
PROPERTIES PaymentKept SyncIsPosted
