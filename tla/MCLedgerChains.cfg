CONSTANTS
    Requests = {s1, s2}
    Txns = {t1, t2, t3}
    bank = bank
    rent = rent
    fees = fees
    Accounts <- MCAccounts
    BalanceSheet <- MCBalanceSheet
    Categories <- MCNoCategories
    Postings <- MCOnePosting
    MaxDate = 3
    MaxEdits = 1
    Kinds = {"journal_entry"}
    ClosingDates = {0}
    RecIds = {}
    None = None
    Keep = Keep
SYMMETRY Symmetry
SPECIFICATION LedgerSpec
INVARIANTS
    OneLiveReversal
    LockDiscipline
