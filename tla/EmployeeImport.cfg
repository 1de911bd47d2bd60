SPECIFICATION ImportSpec
CONSTANTS
    n1 = n1
    n2 = n2
    mailA = mailA
    mailB = mailB
    hr = hr
    c1 = c1
    c2 = c2
    None = None
    Numbers = {n1, n2}
    Emails = {mailA, mailB}
    Initial <- MCInitial
    Dialogs = {hr}
    Rights <- MCRights
    Workbooks <- MCWorkbooks
    Lists <- MCLists
    Imports = {c1, c2}
SYMMETRY Interchangeable
CHECK_DEADLOCK FALSE

    
PROPERTIES
    ConfirmedIsPreviewed
    ImportedIsProvisioned
