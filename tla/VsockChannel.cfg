CONSTANTS
    Backlog = 2
    MaxConn = 4
    MaxBoots = 2
SPECIFICATION FairSpec
INVARIANTS IInv RunOnceInOrder NoStragglers BrokenHasItsCause
           AnsweredByOwnGuest
PROPERTY Settles
CHECK_DEADLOCK FALSE
