CONSTANTS
    Requests = {s1, s2}
    Txns = {t1, t2}
    bank = bank
    rent = rent
    fees = fees
    Accounts <- MCAccounts
    BalanceSheet <- MCBalanceSheet
    Categories <- MCCategories
    Postings <- MCPostings
    MaxDate = 2
    MaxEdits = 1
    Kinds = {"journal_entry", "expense"}
    ClosingDates = {0, 1}
    RecIds = {}
    None = None
    Keep = Keep
SYMMETRY Symmetry
SPECIFICATION LedgerSpec
INVARIANTS
    LedgerTypeOK
    BalancesMatchLines
    BooksBalance
    NothingLeftOfAVoid
    NoOrphanReversal
PROPERTIES
    SettledForGood
    OnlyMirrorsGoAlong
    ClosedPeriodFrozen
