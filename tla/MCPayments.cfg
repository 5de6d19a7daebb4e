CONSTANTS
    Invoices = {i1}
    Payments = {p1, p2, p3}
    Deposits = {d1}
    InvoiceTotal = 2
    MaxAmount = 1
    Adjustments = {1}
    MaxApplied = 1
    Places = {"clearing"}
    Operations = {"hold", "credit", "bounce", "memo", "refund", "deposit", "invoice"}
    None = None
SYMMETRY Symmetry
SPECIFICATION PaymentsSpec
CHECK_DEADLOCK FALSE
INVARIANTS
    PayTypeOK
    PaidMatchesApplications
    CreditNotOverdrawn
    ControlAccountsTieOut
    LiveRowsStand
    DepositsHoldPostedItems
PROPERTIES
    BouncedIsReadOnly
