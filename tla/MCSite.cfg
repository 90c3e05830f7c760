CONSTANTS
    None = None
    Calls = {c1, c2}
    Owner = Owner
    Fan = Fan
    Stranger = Stranger
    Mod = Mod
    Collector = Fan
    Taggers = {Owner, Fan, Stranger}
    Members = {Owner, Fan}
    Watchers = {Fan, Stranger}
    Filers = {Owner, Stranger}
    Talkers = {Owner, Fan, Mod}
    Collectors = {Fan}
    Writers = {Owner, Fan}
    TagMods = {}
    WatchMods = {}
    TalkMods = {Mod}
    NoteMods = {}
    ReportMods = {Mod, Fan}
    PostIds = {"post"}
    Submissions = {Owner}
    Targets = {"post"}
    Tags = {"fox", "sky"}
    Ratings = {"general", "adult"}
    Titles = {"first", "second"}
    Kinds = {"submission", "profile", "update", "notes"}
    Emails = {"x", "y", "z"}
    Tokens = {"k1", "k2"}
    Sessions = {"s1", "s2", "s3"}
    Ids = {1, 2, 3}
    NoticeIds = {1, 2}
    Messages = {1, 2}
    Reports = {1, 2}
    RowIds = {1, 2, 3, 4}
    Keys = {1, 2, 3, 4}
    Limits = {1, 2}
    MaxId = 2
    MaxPassword = 2
    MaxCopies = 2
    PageLimit = 1
    MaxTime = 2
SPECIFICATION MCSpec
SYMMETRY Symmetry
CHECK_DEADLOCK FALSE
INVARIANTS
    ContentTypeOK TagsAreKept AccountsAreKnown CredentialsHold FollowersAreTold FoldersAreFound
    ThreadsHoldTogether PostsAreCounted ListedCanBeSeen PricesAreSound NotesAreAnswered
    ReportsAreSettled  MediaIsKept PagesAreWhole
