SPECIFICATION FairSpec
CONSTANTS
    Producer <- TwoProducers
    Prio <- Prio2
    Addressee <- Addressee2
    SendPrio = 12
    LinkPrio = 10
    SENDSIZE = 3
    MaxPairs = 2
INVARIANTS PairIntegrity OneOwner InOrderOnce
PROPERTY Settles
CHECK_DEADLOCK FALSE
