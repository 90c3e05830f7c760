CONSTANTS
    Users = {u1, u2}
    Names = {x, y, z}
    Styles = {plain, styled}
    Requests = {r1, r2}
    MaxCreates = 2
    NoName = NoName
    NoDisplay = NoDisplay
SPECIFICATION MCSpec
SYMMETRY Symmetry
INVARIANTS OneHolder DisplaysOwnName
PROPERTY RedirectsFromOldName
\* Every name may be taken and every call over.
CHECK_DEADLOCK FALSE
