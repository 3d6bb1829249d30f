SPECIFICATION Spec
CONSTANTS
    me = me
    group = group
    m1 = m1
    m2 = m2
    c1 = c1
    c2 = c2
    Calls <- MCCalls
    Members <- MCMembers
    Apps <- MCApps
    Accounts <- MCAccounts
    Texts <- MCTexts
INVARIANTS
    Answered
    NameSaved
    OneMediaRequest
    TempRemoved
PROPERTY Settles
CHECK_DEADLOCK FALSE
