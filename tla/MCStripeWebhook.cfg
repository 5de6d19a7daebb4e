CONSTANTS
    Charges = {c1, c2}
    Invoices = {i1}
    Handlers = {h1, h2}
    InvoiceTotal = 2
    MaxAmount = 3
    MaxFaults = 2
    MaxRepeats = 1
    None = None
SPECIFICATION FairSpec
CHECK_DEADLOCK FALSE
INVARIANTS
    StripeTypeOK
    RecordedOnce
    LossIsVisible
PROPERTIES
    EventAnswered
