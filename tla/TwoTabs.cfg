\* Two tabs of one browser, two calls under way, other clients.
CONSTANTS
    a = a
    b = b
    c1 = c1
    c2 = c2
    operator = operator
    reviewer = reviewer
    Tabs = {a, b}
    Users = {operator, reviewer}
    NoTab = NoTab
    NoUser = NoUser
    RolloverTabs = {a}
    Calls = {c1, c2}
    MaxChanges = 3
SPECIFICATION Spec
SYMMETRY Symmetry
INVARIANTS
    ShownIsCurrent
    TabsKnowTheirSession
