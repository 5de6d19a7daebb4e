CONSTANTS
    Charges = {c1, c2}
    Invoices = {i1}
    Handlers = {h1, h2}
    InvoiceTotal = 2
    MaxAmount = 3
    MaxFaults = 2
    MaxRepeats = 1
    None = None
SYMMETRY Symmetry
SPECIFICATION Spec
CHECK_DEADLOCK FALSE
INVARIANT ChargeIsBooked
