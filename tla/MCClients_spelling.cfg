SPECIFICATION ClientsSpec
CONSTANTS
    t1 = t1
    t2 = t2
    google = google
    facebook = facebook
    g1 = g1
    g2 = g2
    fb1 = fb1
    lower = lower
    upper = upper
    second = second
    app = app
    stranger = stranger
    Absent = Absent
    Tab = {t1, t2}
    Provider = {google, facebook}
    Account = {g1, g2, fb1}
    ProviderOf <- MCProviderOf
    Address = {lower, upper, second}
    AddressOf <- MCSpelled
    Lower <- MCLower
    Origin = {app, stranger}
    Allowed = {app}
    MaxUser = 2
    MaxState = 2
    MaxCode = 1
    p1 = p1
    p2 = p2
    f1 = f1
    f2 = f2
    NoFriend = NoFriend
    Proc = {p1, p2}
    Friend = {f1, f2}
    Scenes <- MCScenes
    UploadsOnDisk = TRUE
    MaxHistory = 2
    MaxImages = 2
    MaxText = 2
    MaxKey = 3
    MaxLink = 3
    MaxInvite = 2
    MaxLost <- MCMaxLost
    v1 = v1
    v2 = v2
    a1 = a1
    a2 = a2
    App = {a1, a2}
    Visitor = {v1, v2}
    AppOf <- MCAppOf
    Window = 2
    Keep = 3
    MaxTime = 4
    MaxVisit = 4
    MaxBoot = 2
    PageSize = 1
    MaxPage = 2
    MaxRequest = 4
    ExportTime = 2
    TrafficScenes = {"pings", "view", "export"}
    Parts = {"signin"}
SYMMETRY Symmetry
INVARIANTS
    OneUserPerAddress
CHECK_DEADLOCK FALSE
