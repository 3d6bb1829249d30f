\* A send ends, and every behaviour with it.
CHECK_DEADLOCK FALSE
SPECIFICATION Spec
CONSTANTS
    a = a
    b = b
    g = g
    l = l
    s1 = s1
    e1 = e1
    e2 = e2
    account = account
    first = first
    Contacts = {a, b}
    Devices = {account, first}
    Account = account
    Sends = {s1}
    Lists = {l}
    Empties = {e1, e2}
    Known = {a}
    Members <- MCMembers
    For <- MCFor
INVARIANTS
    SentOnce
    Distributed
    SessionKept
    Freed
