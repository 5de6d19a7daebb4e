CONSTANTS
    Invoices <- MCInvoices
    Payments <- MCPayments
    Deposits <- MCDeposits
    InvoiceTotal = 2
    MaxAmount = 2
    Adjustments = {}
    MaxApplied = 2
    Places = {"clearing", "bank"}
    Operations = {"hold", "credit", "bounce", "memo", "refund", "deposit", "invoice"}
    None = None
    Requests = {r1, r2}
    Menu <- MCMenu
    Starts <- MCStarts
    MaxRequests = 3
SYMMETRY Symmetry
SPECIFICATION LocksSpec
CHECK_DEADLOCK FALSE
INVARIANTS
    OneLockOrder
PROPERTIES
    ImplementsPayments
