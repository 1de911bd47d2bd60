SPECIFICATION FairSpec
CONSTANTS
    ana = ana
    annual = annual
    hr = hr
    anasUser = anasUser
    r1 = r1
    r2 = r2
    r3 = r3
    c1 = c1
    c2 = c2
    Employees = {ana}
    LeaveTypes = {annual}
    ActiveTypes = {annual}
    Reviewers = {hr, anasUser}
    Requests = {r1, r2}
    Calls = {c1, c2}
    Days = {1, 2, 3}
    Years = {2025, 2026}
    Grants = {3}
    Adjustments <- MCAdjustments
    YearOf <- MCYearOf
    DefaultAllowance <- MCDefaultAllowance
    UserOf <- MCUserOf
    NoBalance = NoBalance
    NoAllowance = NoAllowance
    NoForm = NoForm
    NoCall = NoCall
INVARIANTS
    BalancesFollowRequests
    ScreensFollowRequests
PROPERTIES
    ImplementsLedger
    CallsFinish
