CONSTANTS
    Users = {1, 2, 3}
    Submissions = {1, 4, 5}
    OwnerOf <- MCOwnerOf
    Watching <- MCWatching
    Friends <- MCFriends
    ThrottleLimit = 0
    Requests = {r1, r2}
SPECIFICATION MCSpec
SYMMETRY Symmetry
CHECK_DEADLOCK FALSE
PROPERTY RemovedIsSilent
