SPECIFICATION FairSpec
CONSTANTS
    Blocks = 40
    MSGSIZE = 6
    Asked <- SomeAsked
    MaxLen = 3
    MaxCommands = 4
    MaxMessages = 2
CONSTRAINT Unrobbed
INVARIANTS AppliesWhole AnswersAsker AllFreed
PROPERTY CarriedOut
