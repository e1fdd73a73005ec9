SPECIFICATION FairSpec
CONSTANTS
    Conn = {c1, c2, c3}
    Faults = {"fin", "rst"}
    Answers = {"success", "failed"}
    MaxFaults = 3
    MaxSends = 2
    MaxReplies = 1
    MaxInbox = 1
INVARIANTS AuthIsCurrent ClosesOwn ListensToCurrent LosesOnlyResets
PROPERTY StaysLoggedIn
CHECK_DEADLOCK FALSE
