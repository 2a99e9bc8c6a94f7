SPECIFICATION Spec
CONSTANTS
    Receipts = {r1}
    Invoices = {}
    Reimbursements = {m1, m2}
    Statements = {b1, b2}
    RPos = {p1, p2}
    BPos = {q1, q2}
    FileIds = {1}
    Lines = {l1}
    Heads = {h1}
    Contents = {c1}
    SameMoney <- MCSameMoney
    EventBooking = EventBooking
    Sessions = {u1, u2}
    MaxForm = 2
    MaxRecords = 1
SYMMETRY Symmetry
CHECK_DEADLOCK FALSE
INVARIANT TypeOK
INVARIANT UniqueBookings
