SPECIFICATION FairSpec
CONSTANTS
    Conn = {c1, c2}
    Faults = {"rst"}
    Answers = {"success"}
    MaxFaults = 1
    MaxSends = 1
    MaxReplies = 1
    MaxInbox = 1
PROPERTY KeepsConnecting
CHECK_DEADLOCK FALSE
