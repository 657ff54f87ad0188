SPECIFICATION FairSpec
CONSTANTS
    Slates = {"s1"}
    Coins = {c1}
    NoCoin = NoCoin
    NoSlate = NoSlate
    Orders <- AsyncOrders
    MaxReplies = 1
CHECK_DEADLOCK FALSE
PROPERTY AsyncIsPosted
