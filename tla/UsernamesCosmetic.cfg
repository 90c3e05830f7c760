CONSTANTS
    Users = {u1}
    Names = {x, y}
    Styles = {plain, styled}
    Requests = {r1, r2}
    MaxCreates = 2
    NoName = NoName
    NoDisplay = NoDisplay
SPECIFICATION MCSpec
PROPERTY CosmeticKeepsLoginName
CHECK_DEADLOCK FALSE
