\* Three calls overlap on two fields and a tab.
SPECIFICATION FieldSpec
CONSTANTS
    f1 = f1
    f2 = f2
    t1 = t1
    hr = hr
    c1 = c1
    c2 = c2
    c3 = c3
    Nothing = Nothing
    Fields <- MCFields
    Tabs = {t1}
    Edits <- MCEdits
    Roles = {hr}
    Texts = {"x", "y"}
    FieldForms <- MCFieldForms
    TabForms <- MCTabForms
    Orders <- MCOrders
SYMMETRY Symmetry
CHECK_DEADLOCK FALSE
INVARIANTS
    FieldsConsistent
PROPERTIES
    FormsTouchTheirFields
