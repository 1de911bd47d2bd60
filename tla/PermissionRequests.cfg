SPECIFICATION FairSpec
CONSTANTS
    ana = ana
    budi = budi
    anasUser = anasUser
    budisUser = budisUser
    hr = hr
    Staff = {ana, budi}
    Users = {anasUser, budisUser, hr}
    UserOf <- MCUserOf
    Reviewers = {budisUser, hr}
    NoEmployee = NoEmployee
    NoCall = NoCall
    Requests = {r1}
    Actions = {c1, c2, c3}
INVARIANTS
    DecisionsAreRecorded
    ScreensFollowRequests
PROPERTIES
    DecisionIsFinal
    CallsFinish
