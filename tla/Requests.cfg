SPECIFICATION FairSpec
CONSTANTS
    HANDLESIZE = 2
    MaxMessages = 3
    Text <- Rows
    DHT11SIZE = 6
    Here = "10000"
INVARIANTS HandledAsOwn PairsKept AnswersAsker OnlyTheseLost
PROPERTY Realigns
CHECK_DEADLOCK FALSE
