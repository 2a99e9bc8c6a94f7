SPECIFICATION Spec
CONSTANTS
    Receipts = {r1, r2}
    Invoices = {i1}
    Reimbursements = {m1}
    Statements = {b1}
    RPos = {p1, p2}
    BPos = {q1, q2}
    FileIds = {1}
    Lines = {l1, l2}
    Heads = {h1}
    Contents = {c1}
    SameMoney <- MCSameMoney
    EventBooking = EventBooking
    Sessions = {u1}
    MaxForm = 2
    MaxRecords = 2
SYMMETRY Symmetry
CHECK_DEADLOCK FALSE
PROPERTY UnbookedByStatementReopens
