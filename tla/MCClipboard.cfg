SPECIFICATION Spec
CONSTANTS
    n1 = n1
    n2 = n2
    x = x
    y = y
    html = html
    big = big
    Nodes = {n1, n2}
    Contents = {x, y, html, big}
    Blocked = {big}
    ReadBack <- MCReadBack
    Capacity = 2
    NotifierCapacity = 1
    MaxCopies = 3
    MaxRestarts = 1
    None = None
INVARIANTS
    TypeOK
    EchoFree
    CopiesArrive
PROPERTY DropsOnlyKnown
CHECK_DEADLOCK FALSE
