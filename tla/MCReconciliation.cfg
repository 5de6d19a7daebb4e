CONSTANTS
    Requests = {s1, s2}
    Txns = {t1}
    bank = bank
    rent = rent
    fees = fees
    Bank = bank
    Accounts <- MCAccounts
    BalanceSheet <- MCBalanceSheet
    Categories <- MCOneCategory
    Postings <- MCOnePosting
    MaxDate = 1
    MaxEdits = 1
    Kinds = {"expense"}
    ClosingDates = {0}
    RecIds = {r1, r2}
    Endings = {0, 2}
    None = None
    Keep = Keep
SYMMETRY Symmetry
SPECIFICATION RecSpec
INVARIANTS
    CompletedTiesOut
PROPERTIES
    CompletedIsFrozen
