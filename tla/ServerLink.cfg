SPECIFICATION FairSpec
CONSTANTS
    Conn = {c1, c2}
    Passwords = {"right", "wrong"}
    MaxSends = 1
    MaxHandles = 1
    MaxInbox = 1
INVARIANTS ClosesOwn ListensToUser NoneStranded CheckedIsCurrent
PROPERTY AcceptsAgain
CONSTRAINT UntilCut
