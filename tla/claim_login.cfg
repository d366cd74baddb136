SPECIFICATION Spec
CONSTANTS
    None = None
    ann = ann
    bob = bob
    right = right
    wrong = wrong
    Emails <- MCEmails
    Passwords <- MCPasswords
    NumRequests = 3
    TTL = 1
    MaxClock = 2
PROPERTY FreshTicketsWork
CHECK_DEADLOCK FALSE
